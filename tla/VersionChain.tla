---------------------------- MODULE VersionChain ----------------------------
(***************************************************************************)
(* validate_version_chain: is a list of cards one agent's version history? *)
(* The code sorts the entries by version and raises at the first check     *)
(* that fails; which one fails first matters to no caller, so the checks   *)
(* are the conjuncts of ValidVersionChain and speak of the entries without *)
(* an order.                                                               *)
(*                                                                         *)
(* An entry is a record with the fields id, owner, version and supersedes. *)
(* A version is a number, or NoNumber for anything < cannot compare with   *)
(* one: from_card copies the card's "version" whatever it is.              *)
(***************************************************************************)
EXTENDS Naturals, FiniteSets

CONSTANT NoNumber   \* a version that is None or a semver string

ASSUME NoNumberAssumption == NoNumber \notin Nat

None == 0   \* no card: ids start at 1

\* sort() and "entry.version < 1" raise TypeError otherwise.
Comparable(chain) == \A i \in DOMAIN chain : chain[i].version # NoNumber

OneOwner(chain) ==
  \A i, j \in DOMAIN chain : chain[i].owner = chain[j].owner

VersionsIncrease(chain) ==
  \A i, j \in DOMAIN chain :
    chain[i].version >= 1 /\ (i # j => chain[i].version # chain[j].version)

OneOriginal(chain) ==
  Cardinality({i \in DOMAIN chain : chain[i].supersedes = None}) = 1

OriginalIsLowest(chain) ==
  \A i, j \in DOMAIN chain :
    chain[i].supersedes = None => chain[i].version <= chain[j].version

PredecessorsPresent(chain) ==
  \A i \in DOMAIN chain :
    chain[i].supersedes \in {None} \cup {chain[j].id : j \in DOMAIN chain}

ValidVersionChain(chain) ==
  chain # <<>> =>
    /\ Comparable(chain)
    /\ OneOwner(chain)
    /\ VersionsIncrease(chain)
    /\ OneOriginal(chain)
    /\ OriginalIsLowest(chain)
    /\ PredecessorsPresent(chain)
=============================================================================
