----------------------------- MODULE MCAsyncLog -----------------------------
(***************************************************************************)
(* Instances of AsyncLog for TLC: three calls of record(), two of which    *)
(* record the same, and one of verifyIntegrity().                          *)
(***************************************************************************)
EXTENDS AsyncLog

CONSTANTS r1, r2, r3, v1, plan, act

MCRecorder == {r1, r2, r3}
TwoRecorders == {r1, r2}
MCVerifier == {v1}
MCSaid == [c \in Recorder |-> IF c = r2 THEN act ELSE plan]
=============================================================================
