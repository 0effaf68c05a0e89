------------------------- MODULE Capabilities_proofs -------------------------
(***************************************************************************)
(* Facts about the capability checks, for every set of segments, which the *)
(* proofs about delegation and enforcement cite by name.                   *)
(***************************************************************************)
EXTENDS Capabilities, WellFoundedInduction, TLAPS

(***************************************************************************)
(* validate_capability_subset accepts a request exactly when one available *)
(* capability covers it: its third branch (a wildcard request against a    *)
(* broader wildcard) accepts nothing its second does not.                  *)
(***************************************************************************)
THEOREM CoveredIsCovers ==
  ASSUME NEW req \in Capability, NEW available \in SUBSET Capability
  PROVE  Covered(req, available) <=> \E a \in available : Covers(a, req)
BY DEF Covered, Covers, UnderPrefix, IsWildcard, Capability

LEMMA UnderPrefixTransitive ==
  ASSUME NEW a \in Capability, NEW b \in Capability, NEW c \in Capability,
         UnderPrefix(b, a), UnderPrefix(c, b)
  PROVE  UnderPrefix(c, a)
<1>1. Len(a) \in Nat /\ Len(b) \in Nat /\ Len(c) \in Nat
  BY DEF Capability
<1>2. Len(c) >= Len(a)
  BY <1>1 DEF UnderPrefix
<1>3. ASSUME NEW i \in 1 .. (Len(a) - 1)
      PROVE  c[i] = a[i]
  <2>1. i \in 1 .. (Len(b) - 1)
    BY <1>1 DEF UnderPrefix
  <2>2. QED
    BY <2>1 DEF UnderPrefix
<1>4. QED
  BY <1>2, <1>3 DEF UnderPrefix

(***************************************************************************)
(* Covering is transitive, so narrowing link by link narrows end to end.   *)
(***************************************************************************)
LEMMA CoversTransitive ==
  ASSUME NEW a \in Capability, NEW b \in Capability, NEW c \in Capability,
         Covers(a, b), Covers(b, c)
  PROVE  Covers(a, c)
BY UnderPrefixTransitive DEF Covers

(***************************************************************************)
(* The subset check of delegation.py is a preorder: what each token of a   *)
(* chain may do is covered by every earlier token and by the root card,    *)
(* although the code only ever compares neighbours.                        *)
(***************************************************************************)
THEOREM ValidSubsetReflexive ==
  ASSUME NEW S
  PROVE  ValidSubset(S, S)
BY DEF ValidSubset, Covered

(* Two hops validated by validate_capability_subset are one valid hop.     *)
THEOREM ValidSubsetTransitive ==
  ASSUME NEW S \in SUBSET Capability, NEW T \in SUBSET Capability,
         NEW U \in SUBSET Capability,
         ValidSubset(S, T), ValidSubset(T, U)
  PROVE  ValidSubset(S, U)
<1> SUFFICES ASSUME NEW s \in S
             PROVE  Covered(s, U)
  BY DEF ValidSubset
<1>1. PICK t \in T : Covers(t, s)
  BY CoveredIsCovers DEF ValidSubset
<1>2. PICK u \in U : Covers(u, t)
  BY CoveredIsCovers DEF ValidSubset
<1>3. Covers(u, s)
  BY <1>1, <1>2, CoversTransitive
<1>4. QED
  BY <1>3, CoveredIsCovers

(***************************************************************************)
(* Enforcement agrees with narrowing on concrete requirements: if a token  *)
(* whose capabilities were validated against T passes enforce_delegated    *)
(* for a required id that is not a wildcard, the holder of T passes too.   *)
(***************************************************************************)
THEOREM ConcreteEnforcementMonotone ==
  ASSUME NEW S \in SUBSET Capability, NEW T \in SUBSET Capability,
         NEW req \in Capability, ~IsWildcard(req),
         ValidSubset(S, T), HasCapability(S, req)
  PROVE  HasCapability(T, req)
<1>1. PICK s \in S : Covers(s, req)
  BY DEF HasCapability, Covers
<1>2. PICK t \in T : Covers(t, s)
  BY CoveredIsCovers DEF ValidSubset
<1>3. Covers(t, req)
  BY <1>1, <1>2, CoversTransitive
<1>4. QED
  BY <1>3 DEF HasCapability, Covers

(* For descent along positions (of the links of a chain, of triggers): a   *)
(* set of natural numbers that is not empty has a least element.           *)
LEMMA LeastElement ==
  ASSUME NEW T \in SUBSET Nat, T # {}
  PROVE  \E m \in T : \A n \in T : m <= n
<1>1. PICK m \in T : \A n \in T : ~ (<<n, m>> \in OpToRel(<, Nat))
  <2> HIDE DEF OpToRel
  <2>1. QED
    BY NatLessThanWellFounded, WFMin, Zenon
<1>2. \A n \in T : ~(n < m)
  BY <1>1 DEF OpToRel
<1>3. QED
  BY <1>2
=============================================================================
