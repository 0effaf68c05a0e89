---------------------------- MODULE Capabilities ----------------------------
(***************************************************************************)
(* Capability identifiers and the two checks the SDK makes on them.        *)
(*                                                                         *)
(* An identifier such as "carapace:read:email" is the sequence of its      *)
(* colon-separated segments.  Under that reading                           *)
(*                                                                         *)
(*   cap.endswith(":*")       is  at least two segments, the last is Star  *)
(*   req.startswith(cap[:-1]) is  req has at least as many segments as cap *)
(*                                and agrees with all of cap's but the     *)
(*                                last                                     *)
(*                                                                         *)
(* which is exactly what the string tests of delegation.py and enforce.py  *)
(* decide: cap[:-1] ends in the colon before the star, so req must have    *)
(* some segment, possibly an empty one, in the star's place.               *)
(***************************************************************************)
EXTENDS Naturals, Sequences

CONSTANTS
  Segment,    \* the segments capability identifiers are made of
  Star        \* the segment "*"

ASSUME StarAssumption == Star \in Segment

Capability == Seq(Segment) \ { <<>> }

IsWildcard(cap) == Len(cap) >= 2 /\ cap[Len(cap)] = Star

\* req.startswith(wild[:-1]), for a wildcard wild
UnderPrefix(req, wild) ==
  /\ Len(req) >= Len(wild)
  /\ \A i \in 1 .. (Len(wild) - 1) : req[i] = wild[i]

\* One available capability covers one request.
Covers(avail, req) ==
  \/ avail = req
  \/ IsWildcard(avail) /\ UnderPrefix(req, avail)

-----------------------------------------------------------------------------
(***************************************************************************)
(* validate_capability_subset: the check made when a token is minted, when *)
(* it is verified against a card and at every hop of a chain.              *)
(***************************************************************************)

\* Defect: a wildcard request is covered by any id that lies under it.
CoveredFromBelow(req, available) ==
  \/ req \in available
  \/ \E a \in available : IsWildcard(a) /\ UnderPrefix(req, a)
  \/ IsWildcard(req) /\ \E a \in available : UnderPrefix(a, req)

\* The last disjunct is the branch "request is a wildcard narrowing a
\* broader wildcard": req[:-1].startswith(avail[:-1]).
Covered(req, available) ==
  \/ req \in available
  \/ \E a \in available : IsWildcard(a) /\ UnderPrefix(req, a)
  \/ /\ IsWildcard(req)
     /\ \E a \in available :
          /\ IsWildcard(a)
          /\ Len(a) <= Len(req)
          /\ \A i \in 1 .. (Len(a) - 1) : req[i] = a[i]

ValidSubset(requested, available) ==
  \A req \in requested : Covered(req, available)

(***************************************************************************)
(* has_capability (a card's declared ids) and _has_delegated_capability (a *)
(* token's): the check made before a tool runs.  A wildcard requirement is *)
(* answered by its own branch and never reaches the declared wildcards.    *)
(***************************************************************************)
HasCapability(declared, required) ==
  \/ required \in declared
  \/ /\ IsWildcard(required)
     /\ \E d \in declared : UnderPrefix(d, required)
  \/ /\ ~IsWildcard(required)
     /\ \E d \in declared : IsWildcard(d) /\ UnderPrefix(required, d)
=============================================================================
