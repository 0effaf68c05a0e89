CONSTANTS
  r1 = r1
  r2 = r2
  r3 = r3
  v1 = v1
  plan = plan
  act = act
  Recorder <- MCRecorder
  Verifier <- MCVerifier
  Said <- MCSaid
SPECIFICATION Spec
CHECK_DEADLOCK FALSE
INVARIANT IndInv
INVARIANT EntriesInCallOrder
INVARIANT WaitedCallsChain
PROPERTY AnswerIsCurrent
PROPERTY CallsReturn
