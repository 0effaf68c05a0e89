CONSTANTS
  Slash = "/"
  Star = Star
  StarStar = StarStar
  Query = Query
  NoApproval = NoApproval
  t1 = t1
  t2 = t2
  Char <- MCChar
  LineBreaks <- MCBreaks
  Path <- MCPath
  DEFAULT_PROTECTED_PATTERNS <- MCDefaults
  ExtraPatterns <- MCExtra
  Approvals <- MCApprovals
  UNAUTHORIZED_SOURCES <- MCSources
  Thread <- MCThread
  MAX_AUDIT_LOG = 2
  MaxSinks = 2
  MaxChecks = 3
  MaxTime = 1
SPECIFICATION GuardSpec
CHECK_DEADLOCK FALSE
INVARIANT GuardTypeOK
INVARIANT LogKeepsNewest
INVARIANT SinksMissNothing
INVARIANT PortsProtectAlike
