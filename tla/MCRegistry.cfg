CONSTANTS
  alice = alice
  mallory = mallory
  r1 = r1
  r2 = r2
  t1 = t1
  t2 = t2
  Never = Never
  Garbage = Garbage
  NoNumber = NoNumber
  WarningThreshold = 1
  Owner <- MCOwner
  Call <- TwoCalls
  Versions <- NoneMadeUp
  Expiries <- EndsAtOnce
  Numbered = TRUE
  Queried <- AnyCard
  MaxCards = 3
  MaxClock = 1
  Thread <- NoThread
  Watched <- AnyCard
  CRL_CACHE_SECONDS = 1
  ListTTL = 4
  TTL = 1
  RequestTimeout = 1
SYMMETRY Symmetry
SPECIFICATION Spec
CHECK_DEADLOCK FALSE
INVARIANT SuccessorPointsBack
INVARIANT TwoActiveOnlyIfTorn
INVARIANT HistoryIsLineage
INVARIANT HistoryFailsOnVersionsOnly
PROPERTY StandingKept
