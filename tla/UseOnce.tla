------------------------------- MODULE UseOnce -------------------------------
(***************************************************************************)
(* What replay protection promises, with no registry, no lock and no       *)
(* purging: a token may be used once, and again only after it has expired. *)
(* Forget is the deliberate amnesia of InMemoryNonceRegistry.clear().      *)
(***************************************************************************)
EXTENDS Naturals

CONSTANTS
  Token,   \* tokens, each standing for its (delegator_card_id, nonce) key
  Exp      \* the expiry of each token

VARIABLES
  clock,   \* the wall clock
  uses     \* how often each token was used since the last Forget

vars == <<clock, uses>>

Init ==
  /\ clock = 0
  /\ uses = [t \in Token |-> 0]

Use(t) ==
  /\ uses[t] = 0 \/ clock > Exp[t]
  /\ uses' = [uses EXCEPT ![t] = @ + 1]
  /\ UNCHANGED clock

Forget ==
  /\ uses' = [t \in Token |-> 0]
  /\ UNCHANGED clock

Tick ==
  /\ clock' = clock + 1
  /\ UNCHANGED uses

Next == (\E t \in Token : Use(t)) \/ Forget \/ Tick

Spec == Init /\ [][Next]_vars
=============================================================================
