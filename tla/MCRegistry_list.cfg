CONSTANTS
  alice = alice
  mallory = mallory
  r1 = r1
  r2 = r2
  t1 = t1
  t2 = t2
  Never = Never
  Garbage = Garbage
  NoNumber = NoNumber
  WarningThreshold = 1
  Owner <- OneOwnerOnly
  Call <- OneCall
  Versions <- NoneMadeUp
  Expiries <- NoEnd
  Numbered = TRUE
  Queried <- NoCard
  MaxCards = 2
  MaxClock = 4
  Thread <- TwoThreads
  Watched <- FirstCard
  CRL_CACHE_SECONDS = 1
  ListTTL = 4
  TTL = 1
  RequestTimeout = 1
SPECIFICATION Spec
CHECK_DEADLOCK FALSE
SYMMETRY ThreadSymmetry
INVARIANT StalenessBounded
INVARIANT TypeOK
