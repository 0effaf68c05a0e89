----------------------------- MODULE MCRegistry -----------------------------
(***************************************************************************)
(* Instances of RevocationList, and so of AgentRegistry, for TLC.          *)
(***************************************************************************)
EXTENDS RevocationList, TLC

CONSTANTS alice, mallory, r1, r2, t1, t2

MCOwner == {alice, mallory}
OneOwnerOnly == {alice}
TwoCalls == {r1, r2}
OneCall == {r1}
NoThread == {}
TwoThreads == {t1, t2}
NoneMadeUp == {}
AnyCard == 1 .. MaxCards
FirstCard == {1}
NoCard == {}
NoEnd == {Never}
EndsAtOnce == {0}

Symmetry ==
  Permutations(MCOwner) \cup Permutations(TwoCalls) \cup Permutations(TwoThreads)
ThreadSymmetry == Permutations(TwoThreads)
=============================================================================
