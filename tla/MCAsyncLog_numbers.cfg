CONSTANTS
  r1 = r1
  r2 = r2
  r3 = r3
  v1 = v1
  plan = plan
  act = act
  Recorder <- TwoRecorders
  Verifier <- MCVerifier
  Said <- MCSaid
SPECIFICATION Spec
CHECK_DEADLOCK FALSE
PROPERTY ValidLogsCountUp
