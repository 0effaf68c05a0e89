------------------------------ MODULE Standing ------------------------------
(***************************************************************************)
(* What a registry promises of cards: each is issued once, is retired for  *)
(* good, whether by revocation or by a newer version, and is vouched for   *)
(* only in between.                                                        *)
(***************************************************************************)
CONSTANT Id   \* the ids cards are issued under

VARIABLES
  standing,   \* "unissued", "active" or "retired", for each id
  vouched     \* the cards the last step vouched for: none, or one

vars == <<standing, vouched>>

Init ==
  /\ standing = [i \in Id |-> "unissued"]
  /\ vouched = {}

Issue(i) ==
  /\ standing[i] = "unissued"
  /\ standing' = [standing EXCEPT ![i] = "active"]
  /\ vouched' = {}

Retire(i) ==
  /\ standing[i] = "active"
  /\ standing' = [standing EXCEPT ![i] = "retired"]
  /\ vouched' = {}

Vouch(i) ==
  /\ standing[i] = "active"
  /\ vouched' = {i}
  /\ UNCHANGED standing

Silence ==
  /\ vouched' = {}
  /\ UNCHANGED standing

Next == Silence \/ \E i \in Id : Issue(i) \/ Retire(i) \/ Vouch(i)

Spec == Init /\ [][Next]_vars
=============================================================================
