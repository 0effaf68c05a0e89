CONSTANTS
  alice = alice
  mallory = mallory
  r1 = r1
  r2 = r2
  t1 = t1
  t2 = t2
  Never = Never
  Garbage = Garbage
  NoNumber = NoNumber
  WarningThreshold = 1
  Owner <- MCOwner
  Call <- OneCall
  Versions <- NoneMadeUp
  Expiries <- EndsAtOnce
  Numbered = FALSE
  Queried <- FirstCard
  MaxCards = 3
  MaxClock = 0
  Thread <- NoThread
  Watched <- FirstCard
  CRL_CACHE_SECONDS = 1
  ListTTL = 4
  TTL = 1
  RequestTimeout = 1
SPECIFICATION Spec
CHECK_DEADLOCK FALSE
INVARIANT HistoryAnswers
