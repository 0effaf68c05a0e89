CONSTANTS
  orchestrator = orchestrator
  worker = worker
  helper = helper
  Never = Never
  Star = "*"
  Segment <- MCSegment
  Card <- WithEndlessCard
  CardCaps <- MCCardCaps
  CardExp <- MCCardExp
  CapRequests <- WideOrNarrow
  ExpRequests <- LongGiven
  TTLs <- TTLsAsked
  DepthRequests <- DepthsAsked
  Legacy <- NoLegacy
  Signing <- AlwaysSigned
  Requirements <- NoneGiven
  MAX_CHAIN_DEPTH = 2
  DEFAULT_REDELEGATION_DEPTH = 1
  DEFAULT_MAX_TTL = 2
  MaxClock = 1
  MaxTokens = 3
  MaxChain = 0
SPECIFICATION Spec
CHECK_DEADLOCK FALSE
CONSTRAINT NothingAnswered
INVARIANT TypeOK
INVARIANT CapabilitiesNarrow
INVARIANT ExpiryNarrows
INVARIANT ChainDepthBounded
