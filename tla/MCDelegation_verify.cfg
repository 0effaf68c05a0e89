CONSTANTS
  orchestrator = orchestrator
  worker = worker
  helper = helper
  Never = Never
  Star = "*"
  Segment <- MCSegment
  Card <- TwoCards
  CardCaps <- MCCardCaps
  CardExp <- ShortLived
  CapRequests <- WideOrNarrow
  ExpRequests <- ShortGiven
  TTLs <- NoneGiven
  DepthRequests <- NoneGiven
  Legacy <- WorkerIsLegacy
  Signing <- AlwaysSigned
  Requirements <- TwoRequirements
  MAX_CHAIN_DEPTH = 2
  DEFAULT_REDELEGATION_DEPTH = 2
  DEFAULT_MAX_TTL = 2
  MaxClock = 1
  MaxTokens = 3
  MaxChain = 3
SPECIFICATION InteropSpec
CHECK_DEADLOCK FALSE
CONSTRAINT NothingAnswered
INVARIANT AcceptedChainIsLineage
INVARIANT EnforcementWithinGrant
INVARIANT AnswersWhileGrantLives
