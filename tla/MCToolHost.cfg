CONSTANTS
  c1 = c1
  ann = ann
  Star = "*"
  Segment <- MCSegment
  Never = Never
  Garbage = Garbage
  WarningThreshold = 1
  Catalogs <- MCCatalogs
  ScoreThreshold = 3
  ToolCall <- OneCall
  AgentKey = AgentKey
  OtherKey = OtherKey
  Null = Null
  MaxPosts = 2
  Cards <- MCCards
  Profiles <- MCProfiles
  Givens <- MCGivens
  Grants <- MCGrants
  Triggers <- MCTriggers
  Rules <- MCRules
  AnyOf <- MCAnyOf
  Concrete <- MCConcrete
  Tool <- MCTool
  Revoked <- MCRevoked
  Outcomes <- AlwaysOk
  Operator <- OneOperator
  MaxClock = 2
SPECIFICATION Spec
CHECK_DEADLOCK FALSE
INVARIANT TypeOK
INVARIANT EnforcedIsVerified
INVARIANT ComplianceHolds
INVARIANT NoTriggerEvaded
INVARIANT GatesReadServed
INVARIANT VerifiedIsIssued
PROPERTY EvidenceKept
