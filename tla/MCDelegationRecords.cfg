CONSTANTS
  orchestrator = orchestrator
  worker = worker
  c1 = c1
  v1 = v1
  Star = "*"
  Segment <- MCSegment
  Card <- MCCard
  CardCaps <- MCCardCaps
  CardExp <- MCCardExp
  Requests <- MCRequests
  Strict = FALSE
  CreateCall <- OneCreate
  RevokeCall <- OneRevoke
  MaxRecords = 3
  MaxClock = 1
SPECIFICATION Spec
CHECK_DEADLOCK FALSE
INVARIANT TypeOK
INVARIANT CascadeReachesChildren
INVARIANT StoredNarrows
INVARIANT VerifiedWithinGrant
