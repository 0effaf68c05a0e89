---------------------------- MODULE Guards_proofs ----------------------------
(***************************************************************************)
(* The two guards that a host's threads share: the nonce registry of       *)
(* ReplayGuard and the audited write guard of ProtectedPaths, which have   *)
(* no state in common.  For any number of calls, tokens, chains, threads,  *)
(* paths, patterns and sinks.                                              *)
(***************************************************************************)
EXTENDS ReplayGuard, ProtectedPaths, FiniteSetTheorems, SequenceTheorems,
        WellFoundedInduction, TLAPS

-----------------------------------------------------------------------------
(***************************************************************************)
(* Replay protection.                                                      *)
(***************************************************************************)
LEMMA InitInd == Init => IndInv
<1> SUFFICES ASSUME Init PROVE IndInv
  OBVIOUS
<1> USE DEF Init
<1>1. TypeOK
  BY BoundsAssumption DEF TypeOK, Phases
<1>2. ReadingsPast /\ UsedIsSeen /\ CallsWellFormed /\ OwnersMarked /\ RootHeld
  BY DEF ReadingsPast, UsedIsSeen, CallsWellFormed, OwnersMarked, RootHeld
<1>3. QED
  BY <1>1, <1>2 DEF IndInv

-----------------------------------------------------------------------------
(***************************************************************************)
(* Time only expires more tokens, and a purge with a past reading of the   *)
(* clock removes only tokens that have expired.                            *)
(***************************************************************************)
LEMMA ExpiredMonotone ==
  ASSUME NEW t \in Token, NEW m \in Nat, NEW n \in Nat, m <= n, Expired(t, m)
  PROVE  Expired(t, n)
BY ExpAssumption DEF Expired

LEMMA PurgeRemovesExpired ==
  ASSUME TypeOK, ReadingsPast, NEW c \in Call, NEW t \in seen,
         t \notin Unpurged(now[c])
  PROVE  Expired(t, clock)
<1>1. t \in Token /\ now[c] \in Nat /\ clock \in Nat
  BY BoundsAssumption DEF TypeOK
<1>2. Expired(t, now[c])
  BY DEF Unpurged
<1>3. QED
  BY <1>1, <1>2, ExpiredMonotone DEF ReadingsPast

LEMMA BeginInd ==
  ASSUME IndInv, NEW c \in Call, NEW ch \in Chains,
         Begin(c, ch) \/ RejectExpired(c, ch)
  PROVE  IndInv'
<1> USE DEF IndInv
<1>1. /\ phase[c] = "idle"
      /\ phase' = [phase EXCEPT ![c] = phase'[c]]
      /\ phase'[c] \in {"marking", "rejected"}
      /\ now' = [now EXCEPT ![c] = clock]
      /\ chain' = [chain EXCEPT ![c] = ch]
      /\ UNCHANGED <<clock, seen, link, uses, owner, clears>>
  BY DEF Begin, RejectExpired, TypeOK
<1>2. link[c] = 1 /\ clock \in Nat
  BY <1>1, BoundsAssumption DEF CallsWellFormed, TypeOK
<1>3. 1 \in DOMAIN ch
  BY ChainsAssumption
<1>4. TypeOK'
  BY <1>1, <1>2 DEF TypeOK, Phases
<1>5. ReadingsPast'
  BY <1>1, <1>2 DEF ReadingsPast, TypeOK
<1>6. UsedIsSeen'
  BY <1>1 DEF UsedIsSeen, Expired
<1>7. CallsWellFormed'
  BY <1>1, <1>2, <1>3 DEF CallsWellFormed, TypeOK
<1>8. OwnersMarked'
  <2>1. ASSUME NEW t \in Token, owner[t] = c
        PROVE  FALSE
    <3>1. c # NoCall
      BY CallAssumption
    <3>2. PICK p \in DOMAIN chain[c] : p < link[c]
      BY <2>1, <3>1 DEF OwnersMarked
    <3>3. chain[c] \in Seq(Token)
      BY ChainsAssumption DEF TypeOK
    <3>4. QED
      BY <1>2, <3>2, <3>3
  <2>2. \A t \in Token : owner[t] # NoCall => owner[t] \in Call \ {c}
    BY <2>1 DEF TypeOK
  <2>3. \A d \in Call \ {c} : chain'[d] = chain[d] /\ link'[d] = link[d]
    BY <1>1 DEF TypeOK
  <2>4. QED
    BY <1>1, <2>2, <2>3 DEF OwnersMarked
<1>9. RootHeld'
  BY <1>1, <1>2 DEF RootHeld, Expired, TypeOK
<1>10. QED
  BY <1>4, <1>5, <1>6, <1>7, <1>8, <1>9

(***************************************************************************)
(* A mark that succeeds found its nonce unused, purged or never seen.      *)
(***************************************************************************)
LEMMA FreshMark ==
  ASSUME IndInv, NEW c \in Call, MarkFresh(c)
  PROVE  LET t == chain[c][link[c]] IN
         /\ chain[c] \in Chains
         /\ link[c] \in DOMAIN chain[c]
         /\ t \in Token
         /\ uses[t] = 0 \/ Expired(t, clock)
<1> DEFINE t == chain[c][link[c]]
<1>1. chain[c] \in Chains /\ link[c] \in DOMAIN chain[c]
  BY DEF IndInv, CallsWellFormed, MarkFresh, RootFirst
<1>2. t \in Token
  BY <1>1, ChainsAssumption
<1>3. uses[t] > 0 => t \in seen \/ Expired(t, clock)
  BY <1>2 DEF IndInv, UsedIsSeen
<1>4. t \in seen => Expired(t, clock)
  BY PurgeRemovesExpired DEF IndInv, MarkFresh, RootFirst
<1>5. uses[t] \in Nat
  BY <1>2 DEF IndInv, TypeOK
<1>6. QED
  BY <1>1, <1>2, <1>3, <1>4, <1>5

LEMMA MarkFreshInd ==
  ASSUME IndInv, NEW c \in Call, MarkFresh(c)
  PROVE  IndInv'
<1> DEFINE t == chain[c][link[c]]
<1> USE DEF IndInv
<1>1. /\ chain[c] \in Chains
      /\ chain[c] \in Seq(Token)
      /\ link[c] \in DOMAIN chain[c]
      /\ t \in Token
      /\ uses[t] = 0 \/ Expired(t, clock)
  BY FreshMark, ChainsAssumption
<1>2. /\ seen' = Unpurged(now[c]) \cup {t}
      /\ uses' = [uses EXCEPT ![t] = @ + 1]
      /\ owner' = [owner EXCEPT ![t] = c]
      /\ link' = [link EXCEPT ![c] = @ + 1]
      /\ phase[c] = "marking"
      /\ phase' = [phase EXCEPT ![c] =
                     IF link[c] = Len(chain[c]) THEN "accepted" ELSE "marking"]
      /\ UNCHANGED <<clock, now, chain, clears>>
  BY DEF MarkFresh, RootFirst
<1>3. Unpurged(now[c]) \subseteq seen
  BY DEF Unpurged
<1>4. c # NoCall
  BY CallAssumption
<1>5. TypeOK'
  BY <1>1, <1>2, <1>3 DEF TypeOK, Phases
<1>6. ReadingsPast'
  BY <1>2 DEF ReadingsPast
<1>7. UsedIsSeen'
  <2> SUFFICES ASSUME NEW u \in Token, uses'[u] > 0, u # t
               PROVE  u \in seen' \/ Expired(u, clock)
    BY <1>2 DEF UsedIsSeen, Expired
  <2>1. uses[u] > 0
    BY <1>2 DEF TypeOK
  <2>2. u \in seen \/ Expired(u, clock)
    BY <2>1 DEF UsedIsSeen
  <2>3. QED
    BY <1>2, <2>2, PurgeRemovesExpired
<1>8. CallsWellFormed'
  <2>1. link[c] + 1 \in DOMAIN chain[c] \/ link[c] = Len(chain[c])
    BY <1>1
  <2>2. QED
    BY <1>1, <1>2, <2>1 DEF CallsWellFormed, TypeOK
<1>9. OwnersMarked'
  <2> SUFFICES ASSUME NEW u \in Token
               PROVE  /\ uses'[u] > 0 <=> owner'[u] # NoCall
                      /\ u \in seen' => owner'[u] # NoCall
                      /\ owner'[u] # NoCall =>
                           \E p \in DOMAIN chain'[owner'[u]] :
                             /\ p < link'[owner'[u]]
                             /\ chain'[owner'[u]][p] = u
    BY DEF OwnersMarked
  <2>1. CASE u = t
    <3>1. owner'[u] = c /\ uses'[u] = uses[u] + 1 /\ uses[u] \in Nat
      BY <1>2, <2>1 DEF TypeOK
    <3>2. link[c] \in DOMAIN chain'[c] /\ link[c] < link'[c] /\ chain'[c][link[c]] = u
      BY <1>1, <1>2, <2>1 DEF TypeOK
    <3>3. QED
      BY <1>4, <3>1, <3>2
  <2>2. CASE u # t
    <3>1. owner'[u] = owner[u] /\ uses'[u] = uses[u]
      BY <1>2, <2>2 DEF TypeOK
    <3>2. u \in seen' => u \in seen
      BY <1>2, <1>3, <2>2
    <3>3. ASSUME owner[u] # NoCall
          PROVE  \E p \in DOMAIN chain'[owner[u]] :
                   p < link'[owner[u]] /\ chain'[owner[u]][p] = u
      <4>1. PICK p \in DOMAIN chain[owner[u]] :
              p < link[owner[u]] /\ chain[owner[u]][p] = u
        BY <3>3 DEF OwnersMarked
      <4>2. owner[u] \in Call
        BY <3>3 DEF TypeOK
      <4>3. chain[owner[u]] \in Seq(Token) /\ p \in Nat
        BY <4>2, ChainsAssumption DEF TypeOK
      <4>4. link'[owner[u]] >= link[owner[u]] /\ link[owner[u]] \in Nat
              /\ link'[owner[u]] \in Nat
        BY <1>2, <4>2 DEF TypeOK
      <4>5. p < link'[owner[u]]
        BY <4>1, <4>3, <4>4
      <4>6. QED
        BY <1>2, <4>1, <4>5
    <3>4. QED
      BY <3>1, <3>2, <3>3 DEF OwnersMarked
  <2>3. QED
    BY <2>1, <2>2
<1>10. RootHeld'
  <2> SUFFICES ASSUME clears' = 0, NEW d \in Call, link'[d] > 1
               PROVE  LET r == chain[d][1] IN owner'[r] = d \/ Expired(r, clock)
    BY <1>2 DEF RootHeld, Expired
  <2> DEFINE r == chain[d][1]
  <2>1. CASE d = c /\ link[c] = 1
    BY <1>1, <1>2, <2>1 DEF TypeOK
  <2>2. CASE ~(d = c /\ link[c] = 1)
    <3>1. link[d] > 1
      BY <1>1, <1>2, <2>2 DEF TypeOK
    <3>2. owner[r] = d \/ Expired(r, clock)
      BY <1>2, <3>1 DEF RootHeld
    <3>3. CASE r # t
      BY <1>2, <3>2, <3>3
    <3>4. CASE r = t /\ owner[r] = d
      <4>1. uses[t] > 0
        BY <1>1, <3>4, CallAssumption DEF OwnersMarked
      <4>2. QED
        BY <1>1, <3>4, <4>1
    <3>5. QED
      BY <3>2, <3>3, <3>4
  <2>3. QED
    BY <2>1, <2>2
<1>11. QED
  BY <1>5, <1>6, <1>7, <1>8, <1>9, <1>10

LEMMA MarkReplayedInd ==
  ASSUME IndInv, NEW c \in Call, MarkReplayed(c)
  PROVE  IndInv'
<1> USE DEF IndInv
<1>1. /\ seen' = Unpurged(now[c])
      /\ phase[c] = "marking"
      /\ phase' = [phase EXCEPT ![c] = "rejected"]
      /\ UNCHANGED <<clock, now, chain, link, uses, owner, clears>>
  BY DEF MarkReplayed, RootFirst
<1>2. Unpurged(now[c]) \subseteq seen
  BY DEF Unpurged
<1>3. TypeOK'
  BY <1>1, <1>2 DEF TypeOK, Phases
<1>4. ReadingsPast'
  BY <1>1 DEF ReadingsPast
<1>5. UsedIsSeen'
  BY <1>1, PurgeRemovesExpired DEF UsedIsSeen, Expired
<1>6. CallsWellFormed'
  BY <1>1 DEF CallsWellFormed, TypeOK
<1>7. OwnersMarked'
  BY <1>1, <1>2 DEF OwnersMarked
<1>8. RootHeld'
  BY <1>1 DEF RootHeld, Expired
<1>9. QED
  BY <1>3, <1>4, <1>5, <1>6, <1>7, <1>8

LEMMA ClearInd ==
  ASSUME IndInv, Clear
  PROVE  IndInv'
<1> USE DEF IndInv, Clear, callVars
<1>1. TypeOK'
  BY BoundsAssumption DEF TypeOK
<1>2. ReadingsPast' /\ CallsWellFormed'
  BY DEF ReadingsPast, CallsWellFormed
<1>3. UsedIsSeen' /\ OwnersMarked'
  BY DEF UsedIsSeen, OwnersMarked
<1>4. RootHeld'
  BY DEF RootHeld, TypeOK
<1>5. QED
  BY <1>1, <1>2, <1>3, <1>4

LEMMA TickInd ==
  ASSUME IndInv, Tick
  PROVE  IndInv'
<1> USE DEF IndInv, Tick, callVars
<1>1. clock \in Nat /\ clock' = clock + 1
  BY BoundsAssumption DEF TypeOK
<1>2. \A t \in Token : Expired(t, clock) => Expired(t, clock')
  BY <1>1, ExpAssumption DEF Expired
<1>3. TypeOK'
  BY BoundsAssumption DEF TypeOK
<1>4. ReadingsPast'
  BY <1>1 DEF ReadingsPast, TypeOK
<1>5. UsedIsSeen'
  BY <1>2 DEF UsedIsSeen
<1>6. CallsWellFormed' /\ OwnersMarked'
  BY DEF CallsWellFormed, OwnersMarked
<1>7. RootHeld'
  <2> SUFFICES ASSUME clears = 0, NEW c \in Call, link[c] > 1
               PROVE  owner[chain[c][1]] = c \/ Expired(chain[c][1], clock')
    BY DEF RootHeld
  <2>1. phase[c] # "idle"
    BY DEF CallsWellFormed
  <2>2. chain[c][1] \in Token
    BY <2>1, ChainsAssumption DEF CallsWellFormed
  <2>3. QED
    BY <1>2, <2>2 DEF RootHeld
<1>8. QED
  BY <1>3, <1>4, <1>5, <1>6, <1>7

LEMMA StutterInd ==
  ASSUME IndInv, UNCHANGED vars
  PROVE  IndInv'
BY DEF IndInv, vars, TypeOK, ReadingsPast, UsedIsSeen, CallsWellFormed,
       OwnersMarked, RootHeld, Expired

LEMMA StepInd == IndInv /\ [Next]_vars => IndInv'
<1> SUFFICES ASSUME IndInv, [Next]_vars PROVE IndInv'
  OBVIOUS
<1>1. QED
  BY BeginInd, MarkFreshInd, MarkReplayedInd, ClearInd, TickInd, StutterInd
     DEF Next

(***************************************************************************)
(* The registry's inductive invariant holds however calls interleave.      *)
(***************************************************************************)
THEOREM Inductive == Spec => []IndInv
BY InitInd, StepInd, PTL DEF Spec

(* The registry and the calls keep their types.                            *)
THEOREM TypeCorrect == Spec => []TypeOK
<1>1. IndInv => TypeOK
  BY DEF IndInv
<1>2. QED
  BY <1>1, Inductive, PTL

-----------------------------------------------------------------------------
(***************************************************************************)
(* check_and_mark and verify_delegation together implement UseOnce: every  *)
(* step of the registry is a permitted use, a Forget, a Tick or a stutter. *)
(***************************************************************************)
LEMMA StepPromise == IndInv /\ [Next]_vars => [Promise!Next]_(Promise!vars)
<1> SUFFICES ASSUME IndInv, [Next]_vars PROVE [Promise!Next]_(Promise!vars)
  OBVIOUS
<1> USE DEF Promise!Next, Promise!vars
<1>1. ASSUME NEW c \in Call, NEW ch \in Chains, Begin(c, ch) \/ RejectExpired(c, ch)
      PROVE  UNCHANGED Promise!vars
  BY <1>1 DEF Begin, RejectExpired
<1>2. ASSUME NEW c \in Call, MarkFresh(c)
      PROVE  Promise!Next
  <2> DEFINE t == chain[c][link[c]]
  <2>1. t \in Token /\ (uses[t] = 0 \/ Expired(t, clock))
    BY <1>2, FreshMark
  <2>2. Promise!Use(t)
    BY <1>2, <2>1 DEF Promise!Use, MarkFresh, RootFirst, Expired
  <2>3. QED
    BY <2>1, <2>2
<1>3. ASSUME NEW c \in Call, MarkReplayed(c)
      PROVE  UNCHANGED Promise!vars
  BY <1>3 DEF MarkReplayed, RootFirst
<1>4. ASSUME Clear
      PROVE  Promise!Next
  BY <1>4 DEF Clear, Promise!Forget
<1>5. ASSUME Tick
      PROVE  Promise!Next
  BY <1>5 DEF Tick, Promise!Tick
<1>6. CASE UNCHANGED vars
  BY <1>6 DEF vars
<1>7. QED
  BY <1>1, <1>2, <1>3, <1>4, <1>5, <1>6 DEF Next

THEOREM KeepsPromise == Spec => PromiseKept
<1>1. Init => Promise!Init
  BY DEF Init, Promise!Init
<1>2. QED
  BY <1>1, StepPromise, Inductive, PTL DEF Spec, PromiseKept, Promise!Spec

(***************************************************************************)
(* No interleaving of calls makes check_and_mark answer True twice for a   *)
(* token that has not expired.                                             *)
(***************************************************************************)
THEOREM ReplayDetected == Spec => []AtMostOnceWhileLive
<1>1. Init => AtMostOnceWhileLive
  BY DEF Init, AtMostOnceWhileLive
<1>2. ASSUME IndInv, AtMostOnceWhileLive, [Next]_vars
      PROVE  AtMostOnceWhileLive'
  <2> SUFFICES ASSUME NEW t \in Token, uses'[t] > 1
               PROVE  Expired(t, clock')
    BY DEF AtMostOnceWhileLive, Expired
  <2>1. clock \in Nat /\ clock' \in Nat /\ clock <= clock' /\ uses[t] \in Nat
    <3>1. clock \in Nat /\ uses[t] \in Nat
      BY <1>2, BoundsAssumption DEF IndInv, TypeOK
    <3>2. clock' = clock \/ clock' = clock + 1
      BY <1>2 DEF Next, vars, Begin, RejectExpired, MarkFresh, MarkReplayed, RootFirst, Clear, Tick
    <3>3. QED
      BY <3>1, <3>2
  <2>2. Expired(t, clock)
    <3>1. [Promise!Next]_(Promise!vars)
      BY <1>2, StepPromise
    <3>2. CASE uses'[t] = uses[t]
      BY <1>2, <3>2 DEF AtMostOnceWhileLive
    <3>3. CASE \E u \in Token : Promise!Use(u)
      <4>1. PICK u \in Token : Promise!Use(u)
        BY <3>3
      <4>2. CASE u = t
        BY <1>2, <2>1, <4>1, <4>2 DEF Promise!Use, Expired, IndInv, TypeOK
      <4>3. CASE u # t
        <5>1. uses'[t] = uses[t]
          BY <1>2, <4>1, <4>3 DEF Promise!Use, IndInv, TypeOK
        <5>2. QED
          BY <3>2, <5>1
      <4>4. QED
        BY <4>2, <4>3
    <3>4. CASE Promise!Forget
      BY <3>4 DEF Promise!Forget
    <3>5. QED
      BY <3>1, <3>2, <3>3, <3>4 DEF Promise!Next, Promise!Tick, Promise!vars
  <2>3. QED
    BY <2>1, <2>2, ExpiredMonotone
<1>3. QED
  BY <1>1, <1>2, Inductive, PTL DEF Spec

-----------------------------------------------------------------------------
(***************************************************************************)
(* A call that finds a link of a rooted chain in the registry while        *)
(* holding some of its links holds only expired ones: the link's owner     *)
(* marked the chain's root too, so one of the two marks of the root came   *)
(* after the root's expiry, and with it every later link's.                *)
(***************************************************************************)
LEMMA ReplayedHoldsExpired ==
  ASSUME RootedChains, IndInv, clears = 0, NEW c \in Call, MarkReplayed(c),
         NEW u \in Token, owner[u] = c
  PROVE  Expired(u, clock)
<1> DEFINE t == chain[c][link[c]]
           d == owner[t]
           r == chain[c][1]
<1> USE DEF IndInv
<1>1. /\ chain[c] \in Chains
      /\ chain[c] \in Seq(Token)
      /\ link[c] \in DOMAIN chain[c]
      /\ t \in Token
  BY ChainsAssumption DEF CallsWellFormed, MarkReplayed, RootFirst
<1>2. d \in Call
  BY <1>1 DEF MarkReplayed, RootFirst, Unpurged, OwnersMarked, TypeOK
<1>3. PICK p \in DOMAIN chain[d] : p < link[d] /\ chain[d][p] = t
  BY <1>1, <1>2, CallAssumption DEF OwnersMarked
<1>4. PICK q \in DOMAIN chain[c] : q < link[c] /\ chain[c][q] = u
  BY CallAssumption DEF OwnersMarked
<1>5. chain[d] \in Chains /\ chain[d] \in Seq(Token)
  BY <1>2, <1>3, ChainsAssumption DEF TypeOK
<1>6. d # c
  BY <1>1, <1>3 DEF RootedChains
<1>7. chain[d][1] = r
  BY <1>1, <1>3, <1>5 DEF RootedChains
<1>8. link[c] > 1 /\ link[d] > 1
  BY <1>1, <1>2, <1>3, <1>4, <1>5 DEF TypeOK
<1>9. Expired(r, clock)
  BY <1>2, <1>6, <1>7, <1>8 DEF RootHeld
<1>10. Exp[u] <= Exp[r] /\ r \in Token
  <2>1. 1 \in DOMAIN chain[c] /\ q \in Nat /\ q >= 1
    BY <1>1, <1>4
  <2>2. CASE q = 1
    BY <1>1, <1>4, <2>1, <2>2, ExpAssumption
  <2>3. CASE q > 1
    BY <1>1, <1>4, <2>1, <2>3 DEF RootedChains
  <2>4. QED
    BY <2>1, <2>2, <2>3
<1>11. QED
  BY <1>9, <1>10, ExpAssumption, BoundsAssumption DEF Expired, TypeOK

(***************************************************************************)
(* A verification that ends in "replay_detected at link i" leaves no live  *)
(* nonce burned, if hosts present whole chains and never clear the         *)
(* registry.                                                               *)
(***************************************************************************)
THEOREM ChainsBurnWhole ==
  ASSUME RootedChains
  PROVE  Spec => []NoPartialBurn
<1>1. Init => NoPartialBurn
  BY DEF Init, NoPartialBurn
<1>2. ASSUME IndInv, NoPartialBurn, [Next]_vars
      PROVE  NoPartialBurn'
  <2> SUFFICES ASSUME clears' = 0, NEW u \in Token, NEW c \in Call,
                      owner'[u] = c, phase'[c] = "rejected"
               PROVE  Expired(u, clock')
    BY DEF NoPartialBurn, Expired
  <2>1. CASE UNCHANGED <<clock, clears, owner>> /\ phase'[c] = phase[c]
    BY <1>2, <2>1 DEF NoPartialBurn, Expired
  <2>2. ASSUME NEW d \in Call, NEW ch \in Chains, Begin(d, ch) \/ RejectExpired(d, ch)
        PROVE  Expired(u, clock')
    <3>1. UNCHANGED <<clock, clears, owner>>
      BY <2>2 DEF Begin, RejectExpired
    <3>2. CASE d # c
      BY <1>2, <2>1, <2>2, <3>1, <3>2 DEF Begin, RejectExpired, IndInv, TypeOK
    <3>3. CASE d = c
      <4>1. link[c] = 1
        BY <1>2, <2>2, <3>3 DEF Begin, RejectExpired, IndInv, CallsWellFormed
      <4>2. PICK p \in DOMAIN chain[c] : p < link[c]
        BY <1>2, <3>1, CallAssumption DEF IndInv, OwnersMarked
      <4>3. chain[c] \in Seq(Token)
        BY <1>2, ChainsAssumption DEF IndInv, TypeOK
      <4>4. QED
        BY <4>1, <4>2, <4>3
    <3>4. QED
      BY <3>2, <3>3
  <2>3. ASSUME NEW d \in Call, MarkFresh(d)
        PROVE  Expired(u, clock')
    <3>1. UNCHANGED <<clock, clears>>
      BY <2>3 DEF MarkFresh, RootFirst
    <3>2. d # c /\ phase[c] = "rejected"
      BY <1>2, <2>3 DEF MarkFresh, RootFirst, IndInv, TypeOK
    <3>3. owner[u] = c
      BY <1>2, <2>3, <3>2 DEF MarkFresh, RootFirst, IndInv, TypeOK
    <3>4. QED
      BY <1>2, <3>1, <3>2, <3>3 DEF NoPartialBurn, Expired
  <2>4. ASSUME NEW d \in Call, MarkReplayed(d)
        PROVE  Expired(u, clock')
    <3>1. UNCHANGED <<clock, clears, owner>>
      BY <2>4 DEF MarkReplayed, RootFirst
    <3>2. CASE d # c
      BY <1>2, <2>1, <2>4, <3>1, <3>2 DEF MarkReplayed, RootFirst, IndInv, TypeOK
    <3>3. CASE d = c
      BY <1>2, <2>4, <3>1, <3>3, ReplayedHoldsExpired DEF Expired
    <3>4. QED
      BY <3>2, <3>3
  <2>5. CASE Clear
    BY <1>2, <2>5 DEF Clear, IndInv, TypeOK
  <2>6. CASE Tick
    <3>1. clock \in Nat /\ clock' \in Nat /\ clock <= clock'
      BY <1>2, <2>6, BoundsAssumption DEF Tick, IndInv, TypeOK
    <3>2. Expired(u, clock)
      BY <1>2, <2>6 DEF Tick, callVars, NoPartialBurn
    <3>3. QED
      BY <3>1, <3>2, ExpiredMonotone
  <2>7. CASE UNCHANGED vars
    BY <2>1, <2>7 DEF vars
  <2>8. QED
    BY <1>2, <2>2, <2>3, <2>4, <2>5, <2>6, <2>7 DEF Next
<1>3. QED
  BY <1>1, <1>2, Inductive, PTL DEF Spec
-----------------------------------------------------------------------------
(***************************************************************************)
(* The write guard.  Its invariant adds to what the runs check where each  *)
(* thread's check stands.                                                  *)
(***************************************************************************)
(* Each check has an entry of its own, made after the sinks it counted.    *)
ChecksWellFormed ==
  /\ \A i \in DOMAIN begun : begun[i] <= Len(sinks)
  /\ \A t \in Thread :
       /\ threads[t].entry \in 0 .. Len(begun)
       /\ threads[t].at = "idle" <=> threads[t].entry = 0
       /\ threads[t].at = "sinking" => threads[t].next \in 1 .. Len(sinks) + 1
  /\ \A t, u \in Thread :
       threads[t].entry = threads[u].entry /\ t # u => threads[t].entry = 0

(* A running check's entry is where its loop over the sinks has been, and  *)
(* nowhere else.                                                           *)
SinksInTurn ==
  \A k \in DOMAIN sinks :
    /\ Ids(sinks[k]) \subseteq DOMAIN begun
    /\ \A t \in Thread :
         threads[t].at # "idle" =>
           (threads[t].entry \in Ids(sinks[k])
              <=> threads[t].at = "sinking" /\ k < threads[t].next)

GuardInd ==
  /\ GuardTypeOK
  /\ LogKeepsNewest
  /\ SinksMissNothing
  /\ ChecksWellFormed
  /\ SinksInTurn

LEMMA GuardInitInd == GuardInit => GuardInd
<1> SUFFICES ASSUME GuardInit PROVE GuardInd
  OBVIOUS
<1> USE DEF GuardInit
<1>1. GuardTypeOK
  BY LimitsAssumption DEF GuardTypeOK, Progress, Idle
<1>2. LogKeepsNewest
  BY LimitsAssumption DEF LogKeepsNewest
<1>3. SinksMissNothing /\ ChecksWellFormed /\ SinksInTurn
  BY DEF SinksMissNothing, ChecksWellFormed, SinksInTurn, Idle
<1>4. QED
  BY <1>1, <1>2, <1>3 DEF GuardInd

(***************************************************************************)
(* What follows the first d elements of a list, when one is appended.      *)
(***************************************************************************)
LEMMA RestOfAppend ==
  ASSUME NEW S, NEW all \in Seq(S), NEW e \in S,
         NEW n \in Nat, n = Len(all), NEW k \in Nat, k = n + 1, NEW m \in 1 .. k
  PROVE  /\ SubSeq(all, m, n) \in Seq(S)
         /\ Len(SubSeq(all, m, n)) = k - m
         /\ Append(SubSeq(all, m, n), e) = SubSeq(Append(all, e), m, k)
<1> DEFINE longer == Append(all, e)
           rest == SubSeq(all, m, n)
<1>2. /\ longer \in Seq(S) /\ Len(longer) = k
      /\ longer[k] = e /\ longer = all \o <<e>> /\ <<e>> \in Seq(S)
  BY AppendProperties, AppendIsConcat
<1> HIDE DEF longer
<1>3. rest \in Seq(S) /\ Len(rest) = k - m
  <2>1. \A i \in m .. n : all[i] \in S
    OBVIOUS
  <2>2. /\ rest \in Seq(S)
        /\ Len(rest) = IF m <= n THEN n - m + 1 ELSE 0
    BY <2>1, SubSeqProperties
  <2>3. QED
    BY <2>2
<1>4. SubSeq(longer, m, k) = SubSeq(longer, m, n) \o <<e>>
  <2>1. /\ k \in m .. Len(longer) /\ m \in 1 .. Len(longer) /\ k - 1 = n
    BY <1>2
  <2>2. SubSeq(longer, m, k) = SubSeq(longer, m, k - 1) \o <<longer[k]>>
    BY <1>2, <2>1, SubSeqRecursiveSecond
  <2>3. QED
    BY <1>2, <2>1, <2>2
<1>5. SubSeq(longer, m, n) = rest
  <2>1. CASE m <= n
    <3>1. m \in 1 .. Len(all) /\ n \in 1 .. Len(all)
      BY <2>1
    <3>2. QED
      BY <1>2, <3>1, SubSeqOfConcat1
  <2>2. CASE n < m
    BY <2>2, SubSeqEmpty
  <2>3. QED
    BY <2>1, <2>2
<1>6. Append(rest, e) = rest \o <<e>>
  BY <1>3, AppendIsConcat
<1>7. QED
  BY <1>3, <1>4, <1>5, <1>6 DEF longer

(***************************************************************************)
(* Appending to the newest of a list, and dropping the oldest if that      *)
(* makes one too many, leaves the newest of the longer list.               *)
(***************************************************************************)
LEMMA NewestOfLonger ==
  ASSUME NEW S, NEW e \in S, appended \in Seq(S), LogKeepsNewest,
         appended' = Append(appended, e), log' = Trimmed(Append(log, e))
  PROVE  LogKeepsNewest'
<1>1. PICK n \in Nat, k \in Nat, max \in Nat \ {0} :
        n = Len(appended) /\ k = n + 1 /\ max = MAX_AUDIT_LOG
  BY LimitsAssumption
<1>2. PICK m \in 1 .. k : (n > max => m = k - max) /\ (n <= max => m = 1)
  <2>1. CASE n > max
    <3>1. k - max \in 1 .. k /\ ~(n <= max)
      BY <1>1, <2>1
    <3>2. QED
      BY <3>1
  <2>2. CASE n <= max
    <3>1. 1 \in 1 .. k /\ ~(n > max)
      BY <1>1, <2>2
    <3>2. QED
      BY <3>1
  <2>3. QED
    BY <1>1, <2>1, <2>2
<1>3. /\ log \in Seq(S) /\ Len(log) = k - m
      /\ Append(log, e) = SubSeq(appended', m, k)
      /\ appended' \in Seq(S) /\ Len(appended') = k
  <2>1. log = SubSeq(appended, m, n)
    <3>1. CASE n > max
      <4>1. m = n - max + 1
        BY <1>1, <1>2, <3>1
      <4>2. QED
        BY <1>1, <3>1, <4>1 DEF LogKeepsNewest
    <3>2. CASE n <= max
      <4>1. m = 0 + 1 /\ ~(n > max)
        BY <1>1, <1>2, <3>2
      <4>2. QED
        BY <1>1, <4>1 DEF LogKeepsNewest
    <3>3. QED
      BY <1>1, <3>1, <3>2
  <2>2. /\ SubSeq(appended, m, n) \in Seq(S)
        /\ Len(SubSeq(appended, m, n)) = k - m
        /\ Append(SubSeq(appended, m, n), e) = SubSeq(Append(appended, e), m, k)
    BY <1>1, RestOfAppend
  <2>3. Append(appended, e) \in Seq(S) /\ Len(Append(appended, e)) = k
    BY <1>1
  <2>4. QED
    BY <2>1, <2>2, <2>3
<1>4. Len(Append(log, e)) = k - m + 1
  BY <1>3, AppendProperties
<1>6. CASE n < max
  <2>1. m = 1 /\ ~(Len(Append(log, e)) > max) /\ ~(k > max)
    BY <1>1, <1>2, <1>4, <1>6
  <2>2. log' = SubSeq(appended', m, k)
    BY <1>1, <1>3, <2>1 DEF Trimmed
  <2>3. m = 0 + 1
    BY <2>1
  <2>4. QED
    BY <1>1, <1>3, <2>1, <2>2, <2>3 DEF LogKeepsNewest
<1>7. CASE n >= max
  <2>1. m = k - max /\ k > max /\ Len(Append(log, e)) > max
    BY <1>1, <1>2, <1>4, <1>7
  <2>2. log' = Tail(SubSeq(appended', m, k))
    BY <1>1, <1>3, <2>1 DEF Trimmed
  <2>3. m \in 1 .. Len(appended') /\ k \in m .. Len(appended')
    BY <1>1, <1>3, <2>1
  <2>4. log' = SubSeq(appended', m + 1, k)
    BY <1>3, <2>2, <2>3, HeadTailOfSubSeq
  <2>5. m + 1 = k - max + 1
    BY <2>1
  <2>6. QED
    BY <1>1, <1>3, <2>1, <2>4, <2>5 DEF LogKeepsNewest
<1>8. QED
  BY <1>1, <1>6, <1>7

-----------------------------------------------------------------------------
LEMMA SeqFacts ==
  ASSUME NEW S, NEW s \in Seq(S)
  PROVE  /\ Len(s) \in Nat
         /\ DOMAIN s = 1 .. Len(s)
         /\ \A i \in DOMAIN s : s[i] \in S
         /\ Ids(s) \subseteq S
BY DEF Ids

(***************************************************************************)
(* A sink that lacks an entry has no entry twice once it is called with it. *)
(***************************************************************************)
LEMMA IdsOfAppend ==
  ASSUME NEW s \in Seq(1 .. MaxChecks), NEW e \in 1 .. MaxChecks
  PROVE  /\ Ids(Append(s, e)) = Ids(s) \cup {e}
         /\ e \notin Ids(s) /\ Cardinality(Ids(s)) = Len(s) =>
              Cardinality(Ids(Append(s, e))) = Len(Append(s, e))
<1>1. Ids(Append(s, e)) = Ids(s) \cup {e}
  <2>1. /\ DOMAIN s = 1 .. Len(s) /\ Len(s) \in Nat
        /\ DOMAIN Append(s, e) = 1 .. (Len(s) + 1)
        /\ \A i \in 1 .. Len(s) : Append(s, e)[i] = s[i]
        /\ Append(s, e)[Len(s) + 1] = e
    OBVIOUS
  <2>2. \A i : i \in 1 .. (Len(s) + 1) <=> i \in 1 .. Len(s) \/ i = Len(s) + 1
    BY <2>1
  <2>3. QED
    BY <2>1, <2>2 DEF Ids
<1>2. IsFiniteSet(Ids(s))
  <2>1. IsFiniteSet(1 .. MaxChecks)
    BY LimitsAssumption, FS_Interval
  <2>2. QED
    BY <2>1, SeqFacts, FS_Subset
<1>3. ASSUME e \notin Ids(s)
      PROVE  Cardinality(Ids(s) \cup {e}) = Cardinality(Ids(s)) + 1
  BY <1>2, <1>3, FS_AddElement
<1>4. Len(Append(s, e)) = Len(s) + 1
  OBVIOUS
<1>5. QED
  BY <1>1, <1>3, <1>4

LEMMA EntryFields ==
  ASSUME NEW path \in Path, NEW extra \in ExtraPatterns,
         NEW a \in Approvals \cup {NoApproval}
  PROVE  Entry(path, extra, a) \in AuditLogEntry
<1>1. Reason(path, extra, a) \in
        Approving \cup {"no_approval_provided", "approval_source_forbidden",
                        "approval_expired", "approval_scope_mismatch"}
  BY DEF Reason, Approving
<1>2. portApproves(path, extra, a) \in BOOLEAN
  BY DEF portApproves
<1>3. QED
  BY <1>1, <1>2 DEF Entry, AuditLogEntry

-----------------------------------------------------------------------------
(***************************************************************************)
(* The steps.                                                              *)
(***************************************************************************)
LEMMA CheckInd ==
  ASSUME GuardInd, NEW t \in Thread, NEW path \in Path,
         NEW extra \in ExtraPatterns, NEW a \in Approvals \cup {NoApproval},
         Check(t, path, extra, a)
  PROVE  GuardInd'
<1> DEFINE n == Len(begun)
           fresh == [at |-> "decided", entry |-> n + 1, next |-> 0]
<1> USE DEF GuardInd
<1>1. /\ threads[t].at = "idle" /\ n < MaxChecks
      /\ latest' = Entry(path, extra, a)
      /\ begun' = Append(begun, Len(sinks))
      /\ threads' = [threads EXCEPT ![t] = fresh]
      /\ UNCHANGED <<time, log, appended, sinks>>
  BY DEF Check
<1>2. /\ n \in Nat /\ DOMAIN begun = 1 .. n
      /\ Len(begun') = n + 1 /\ DOMAIN begun' = 1 .. (n + 1)
      /\ \A i \in DOMAIN begun : begun'[i] = begun[i]
      /\ begun'[n + 1] = Len(sinks)
      /\ Len(sinks) \in 0 .. MaxSinks
      /\ begun' \in Seq(0 .. MaxSinks)
  BY <1>1, LimitsAssumption DEF GuardTypeOK
<1>3. /\ threads'[t] = fresh /\ threads[t].entry = 0
      /\ \A u \in Thread \ {t} : threads'[u] = threads[u]
      /\ \A u \in Thread : threads[u].entry \in 0 .. n
  BY <1>1 DEF GuardTypeOK, ChecksWellFormed
<1>4. GuardTypeOK'
  <2>1. fresh \in Progress
    BY <1>2 DEF Progress
  <2>2. threads' \in [Thread -> Progress]
    BY <1>1, <2>1 DEF GuardTypeOK
  <2>3. latest' \in AuditLogEntry
    BY <1>1, EntryFields
  <2>4. Len(begun') <= MaxChecks
    BY <1>1, <1>2, LimitsAssumption
  <2>5. QED
    BY <1>1, <1>2, <2>2, <2>3, <2>4 DEF GuardTypeOK
<1>5. LogKeepsNewest'
  BY <1>1 DEF LogKeepsNewest
<1>6. ChecksWellFormed'
  BY <1>1, <1>2, <1>3 DEF ChecksWellFormed
<1>7. SinksInTurn'
  <2> SUFFICES ASSUME NEW k \in DOMAIN sinks
               PROVE  /\ Ids(sinks[k]) \subseteq 1 .. (n + 1)
                      /\ \A u \in Thread :
                           threads'[u].at # "idle" =>
                             (threads'[u].entry \in Ids(sinks[k])
                                <=> /\ threads'[u].at = "sinking"
                                    /\ k < threads'[u].next)
    BY <1>1, <1>2 DEF SinksInTurn
  <2>1. Ids(sinks[k]) \subseteq 1 .. n
    BY <1>2 DEF SinksInTurn
  <2>2. n + 1 \notin Ids(sinks[k]) /\ 1 .. n \subseteq 1 .. (n + 1)
    BY <1>2, <2>1
  <2>3. QED
    BY <1>3, <2>1, <2>2 DEF SinksInTurn
<1>8. SinksMissNothing'
  <2>1. n + 1 \in Running'
    BY <1>2, <1>3 DEF Running
  <2>2. Running \subseteq Running'
    BY <1>3 DEF Running
  <2>3. ASSUME NEW i \in DOMAIN begun' \ Running'
        PROVE  i \in DOMAIN begun \ Running /\ begun'[i] = begun[i]
    BY <1>2, <2>1, <2>2
  <2>4. QED
    BY <1>1, <2>3 DEF SinksMissNothing
<1>9. QED
  BY <1>4, <1>5, <1>6, <1>7, <1>8

LEMMA AppendAuditInd ==
  ASSUME GuardInd, NEW t \in Thread, AppendAudit(t)
  PROVE  GuardInd'
<1> DEFINE e == threads[t].entry
<1> USE DEF GuardInd
<1>1. /\ threads[t].at = "decided"
      /\ log' = Trimmed(Append(log, e))
      /\ appended' = Append(appended, e)
      /\ threads' = [threads EXCEPT ![t].at = "sinking", ![t].next = 1]
      /\ latest' = <<>>
      /\ UNCHANGED <<time, begun, sinks>>
  BY DEF AppendAudit
<1>2. e \in 1 .. MaxChecks
  <2>1. Len(begun) \in Nat /\ Len(begun) <= MaxChecks
    BY DEF GuardTypeOK
  <2>2. e \in 0 .. Len(begun) /\ e # 0
    BY <1>1 DEF ChecksWellFormed
  <2>3. QED
    BY <2>1, <2>2, LimitsAssumption
<1>3. /\ threads'[t].at = "sinking" /\ threads'[t].next = 1
      /\ \A u \in Thread \ {t} : threads'[u] = threads[u]
  BY <1>1 DEF GuardTypeOK, Progress
<1>4. \A u \in Thread :
        /\ threads'[u].entry = threads[u].entry
        /\ threads'[u].at = "idle" <=> threads[u].at = "idle"
  BY <1>1, <1>3 DEF GuardTypeOK, Progress
<1>5. LogKeepsNewest'
  BY <1>1, <1>2, NewestOfLonger DEF GuardTypeOK
<1>6. GuardTypeOK'
  <2>1. threads' \in [Thread -> Progress]
    BY <1>1 DEF GuardTypeOK, Progress
  <2>2. appended' \in Seq(1 .. MaxChecks)
    BY <1>1, <1>2 DEF GuardTypeOK
  <2>3. log' \in Seq(1 .. MaxChecks) /\ Len(log') <= MAX_AUDIT_LOG
    <3>1. /\ log \in Seq(1 .. MaxChecks)
          /\ Len(log) <= MAX_AUDIT_LOG /\ MAX_AUDIT_LOG \in Nat
      BY LimitsAssumption DEF GuardTypeOK
    <3>2. /\ Append(log, e) \in Seq(1 .. MaxChecks)
          /\ Append(log, e) # <<>>
          /\ Len(Append(log, e)) = Len(log) + 1
      BY <1>2, <3>1, AppendProperties
    <3>3. /\ Tail(Append(log, e)) \in Seq(1 .. MaxChecks)
          /\ Len(Tail(Append(log, e))) = Len(log)
      BY <3>1, <3>2, HeadTailProperties
    <3>4. CASE Len(Append(log, e)) > MAX_AUDIT_LOG
      <4>1. log' = Tail(Append(log, e))
        BY <1>1, <3>4 DEF Trimmed
      <4>2. QED
        BY <3>1, <3>3, <4>1
    <3>5. CASE ~(Len(Append(log, e)) > MAX_AUDIT_LOG)
      <4>1. log' = Append(log, e)
        BY <1>1, <3>5 DEF Trimmed
      <4>2. QED
        BY <3>1, <3>2, <3>5, <4>1
    <3>6. QED
      BY <3>4, <3>5
  <2>4. QED
    BY <1>1, <2>1, <2>2, <2>3 DEF GuardTypeOK
<1>7. ChecksWellFormed'
  <2>1. Len(sinks) \in Nat
    BY DEF GuardTypeOK
  <2>2. 1 \in 1 .. Len(sinks) + 1
    BY <2>1
  <2>3. ASSUME NEW u \in Thread
        PROVE  /\ threads'[u].entry \in 0 .. Len(begun)
               /\ threads'[u].at = "idle" <=> threads'[u].entry = 0
               /\ threads'[u].at = "sinking" =>
                    threads'[u].next \in 1 .. Len(sinks) + 1
    BY <1>3, <1>4, <2>2 DEF ChecksWellFormed
  <2>4. \A u, v \in Thread :
          threads'[u].entry = threads'[v].entry /\ u # v => threads'[u].entry = 0
    BY <1>4 DEF ChecksWellFormed
  <2>5. QED
    BY <1>1, <2>3, <2>4 DEF ChecksWellFormed
<1>8. SinksInTurn'
  <2>1. DOMAIN sinks \subseteq Nat \ {0}
    BY DEF GuardTypeOK
  <2>2. \A k \in DOMAIN sinks : ~(k < 1)
    BY <2>1
  <2>3. ASSUME NEW k \in DOMAIN sinks, NEW u \in Thread, threads'[u].at # "idle"
        PROVE  threads'[u].entry \in Ids(sinks[k])
                 <=> threads'[u].at = "sinking" /\ k < threads'[u].next
    <3>1. CASE u = t
      <4>1. e \notin Ids(sinks[k])
        BY <1>1 DEF SinksInTurn
      <4>2. QED
        BY <1>3, <1>4, <2>2, <3>1, <4>1
    <3>2. CASE u # t
      BY <1>3, <2>3, <3>2 DEF SinksInTurn
    <3>3. QED
      BY <3>1, <3>2
  <2>4. QED
    BY <1>1, <2>3 DEF SinksInTurn
<1>9. SinksMissNothing'
  <2>1. Running' = Running
    BY <1>4 DEF Running
  <2>2. QED
    BY <1>1, <2>1 DEF SinksMissNothing
<1>10. QED
  BY <1>5, <1>6, <1>7, <1>8, <1>9

LEMMA CallSinkInd ==
  ASSUME GuardInd, NEW t \in Thread, NEW raised \in BOOLEAN,
         CallSink(t, raised)
  PROVE  GuardInd'
<1> DEFINE e == threads[t].entry
           k == threads[t].next
<1> USE DEF GuardInd
<1>1. /\ threads[t].at = "sinking"
      /\ k <= Len(sinks)
      /\ sinks' = [sinks EXCEPT ![k] = Append(@, e)]
      /\ threads' = [threads EXCEPT ![t].next = k + 1]
      /\ latest' = <<>>
      /\ UNCHANGED <<time, begun, log, appended>>
  BY DEF CallSink, AfterSink
<1>2. /\ e \in DOMAIN begun /\ e \in 1 .. MaxChecks /\ e # 0
      /\ Len(sinks) \in Nat /\ DOMAIN sinks = 1 .. Len(sinks)
      /\ k \in DOMAIN sinks
  <2>1. /\ Len(begun) \in Nat /\ Len(begun) <= MaxChecks
        /\ DOMAIN begun = 1 .. Len(begun)
        /\ Len(sinks) \in Nat /\ DOMAIN sinks = 1 .. Len(sinks)
    BY DEF GuardTypeOK
  <2>2. e \in 0 .. Len(begun) /\ e # 0 /\ k \in 1 .. Len(sinks) + 1
    BY <1>1 DEF ChecksWellFormed
  <2>3. QED
    BY <1>1, <2>1, <2>2, LimitsAssumption
<1>3. /\ threads'[t] = [at |-> "sinking", entry |-> e, next |-> k + 1]
      /\ \A u \in Thread \ {t} : threads'[u] = threads[u]
  BY <1>1 DEF GuardTypeOK, Progress
<1>4. \A u \in Thread : threads'[u].entry = threads[u].entry
                          /\ threads'[u].at = threads[u].at
  BY <1>1, <1>3
<1>5. /\ sinks[k] \in Seq(1 .. MaxChecks)
      /\ \A j \in DOMAIN sinks : j # k => sinks'[j] = sinks[j]
      /\ sinks'[k] = Append(sinks[k], e)
      /\ DOMAIN sinks' = DOMAIN sinks
  BY <1>1, <1>2 DEF GuardTypeOK
<1>6. e \notin Ids(sinks[k])
  BY <1>1, <1>2 DEF SinksInTurn
<1>7. /\ Ids(sinks'[k]) = Ids(sinks[k]) \cup {e}
      /\ Cardinality(Ids(sinks'[k])) = Len(sinks'[k])
  BY <1>2, <1>5, <1>6, IdsOfAppend DEF SinksMissNothing
<1>8. GuardTypeOK'
  <2>1. threads' \in [Thread -> Progress]
    <3>1. k + 1 \in Nat
      BY <1>2
    <3>2. QED
      BY <1>1, <3>1 DEF GuardTypeOK, Progress
  <2>2. Append(sinks[k], e) \in Seq(1 .. MaxChecks)
    BY <1>2, <1>5
  <2>3. sinks' \in Seq(Seq(1 .. MaxChecks)) /\ Len(sinks') = Len(sinks)
    BY <1>1, <1>2, <2>2, ExceptSeq DEF GuardTypeOK
  <2>4. QED
    BY <1>1, <2>1, <2>3 DEF GuardTypeOK
<1>9. LogKeepsNewest'
  BY <1>1 DEF LogKeepsNewest
<1>10. ChecksWellFormed'
  <2>1. Len(sinks') = Len(sinks) /\ k + 1 \in 1 .. Len(sinks) + 1
    BY <1>1, <1>2 DEF GuardTypeOK
  <2>2. QED
    BY <1>1, <1>3, <1>4, <2>1 DEF ChecksWellFormed
<1>11. SinksInTurn'
  <2> SUFFICES ASSUME NEW j \in DOMAIN sinks
               PROVE  /\ Ids(sinks'[j]) \subseteq DOMAIN begun
                      /\ \A u \in Thread :
                           threads[u].at # "idle" =>
                             (threads[u].entry \in Ids(sinks'[j])
                                <=> /\ threads[u].at = "sinking"
                                    /\ j < threads'[u].next)
    BY <1>1, <1>4, <1>5 DEF SinksInTurn
  <2>1. Ids(sinks'[j]) \subseteq DOMAIN begun
    BY <1>2, <1>5, <1>7 DEF SinksInTurn
  <2>2. ASSUME NEW u \in Thread, u # t, threads[u].at # "idle"
        PROVE  /\ threads[u].entry # e /\ threads'[u] = threads[u]
               /\ threads[u].entry \in Ids(sinks'[j])
                    <=> threads[u].entry \in Ids(sinks[j])
    BY <1>2, <1>3, <1>5, <1>7, <2>2 DEF ChecksWellFormed
  <2>3. e \in Ids(sinks'[j]) <=> j < k + 1
    <3>1. CASE j = k
      BY <1>2, <1>7, <3>1
    <3>2. CASE j # k
      <4>1. e \in Ids(sinks'[j]) <=> j < k
        BY <1>1, <1>5, <3>2 DEF SinksInTurn
      <4>2. j < k <=> j < k + 1
        BY <1>2, <3>2
      <4>3. QED
        BY <4>1, <4>2
    <3>3. QED
      BY <3>1, <3>2
  <2>4. QED
    BY <1>1, <1>3, <2>1, <2>2, <2>3 DEF SinksInTurn
<1>12. SinksMissNothing'
  <2>1. Running' = Running
    BY <1>4 DEF Running
  <2>2. \A j \in DOMAIN sinks : Ids(sinks[j]) \subseteq Ids(sinks'[j])
    BY <1>5, <1>7
  <2>3. QED
    BY <1>1, <1>5, <1>7, <2>1, <2>2 DEF SinksMissNothing
<1>13. QED
  BY <1>8, <1>9, <1>10, <1>11, <1>12

LEMMA ReturnInd ==
  ASSUME GuardInd, NEW t \in Thread, Return(t)
  PROVE  GuardInd'
<1> DEFINE e == threads[t].entry
<1> USE DEF GuardInd
<1>1. /\ threads[t].at = "sinking"
      /\ threads[t].next > Len(sinks)
      /\ threads' = [threads EXCEPT ![t] = Idle]
      /\ latest' = <<>>
      /\ UNCHANGED <<time, begun, log, appended, sinks>>
  BY DEF Return
<1>2. /\ threads'[t] = [at |-> "idle", entry |-> 0, next |-> 0]
      /\ \A u \in Thread \ {t} : threads'[u] = threads[u]
  BY <1>1 DEF GuardTypeOK, Idle
<1>3. GuardTypeOK'
  BY <1>1 DEF GuardTypeOK, Progress, Idle
<1>4. LogKeepsNewest'
  BY <1>1 DEF LogKeepsNewest
<1>5. ChecksWellFormed'
  <2>1. Len(begun) \in Nat /\ 0 \in 0 .. Len(begun)
    BY DEF GuardTypeOK
  <2>2. QED
    BY <1>1, <1>2, <2>1 DEF ChecksWellFormed
<1>6. SinksInTurn'
  BY <1>1, <1>2 DEF SinksInTurn
<1>7. SinksMissNothing'
  <2>1. Running \subseteq Running' \cup {e}
    BY <1>2 DEF Running
  <2>2. \A k \in DOMAIN sinks : e \in Ids(sinks[k])
    <3>1. threads[t].next \in Nat /\ DOMAIN sinks = 1 .. Len(sinks)
            /\ Len(sinks) \in Nat
      BY DEF GuardTypeOK, Progress
    <3>2. \A k \in DOMAIN sinks : k < threads[t].next
      BY <1>1, <3>1
    <3>3. QED
      BY <1>1, <3>2 DEF SinksInTurn
  <2>3. QED
    BY <1>1, <2>1, <2>2 DEF SinksMissNothing
<1>8. QED
  BY <1>3, <1>4, <1>5, <1>6, <1>7

LEMMA RegisterSinkInd ==
  ASSUME GuardInd, RegisterSink
  PROVE  GuardInd'
<1> DEFINE n == Len(sinks)
<1> USE DEF GuardInd
<1>1. /\ n < MaxSinks
      /\ sinks' = Append(sinks, <<>>)
      /\ latest' = <<>>
      /\ UNCHANGED <<time, begun, threads, log, appended>>
  BY DEF RegisterSink
<1>2. /\ n \in Nat /\ DOMAIN sinks = 1 .. n
      /\ Len(sinks') = n + 1 /\ DOMAIN sinks' = 1 .. (n + 1)
      /\ \A k \in DOMAIN sinks : sinks'[k] = sinks[k]
      /\ sinks'[n + 1] = <<>>
      /\ sinks' \in Seq(Seq(1 .. MaxChecks))
  BY <1>1 DEF GuardTypeOK
<1>3. Ids(<<>>) = {} /\ Cardinality(Ids(<<>>)) = 0 /\ Len(<<>>) = 0
  BY FS_EmptySet DEF Ids
<1>4. GuardTypeOK'
  BY <1>1, <1>2, LimitsAssumption DEF GuardTypeOK
<1>5. LogKeepsNewest'
  BY <1>1 DEF LogKeepsNewest
<1>6. \A i \in DOMAIN begun : begun[i] \in Nat /\ begun[i] <= n
  <2>1. \A i \in DOMAIN begun : begun[i] \in 0 .. MaxSinks
    <3>1. begun \in Seq(0 .. MaxSinks)
      BY DEF GuardTypeOK
    <3>2. QED
      BY <3>1, SeqFacts
  <2>2. QED
    BY <2>1, LimitsAssumption DEF ChecksWellFormed
<1>7. ChecksWellFormed'
  <2>1. \A i \in DOMAIN begun : begun[i] <= n + 1
    BY <1>2, <1>6
  <2>2. 1 .. n + 1 \subseteq 1 .. (n + 1) + 1
    BY <1>2
  <2>3. QED
    BY <1>1, <1>2, <2>1, <2>2 DEF ChecksWellFormed
<1>8. SinksInTurn'
  <2>1. ASSUME NEW t \in Thread, threads[t].at = "sinking"
        PROVE  ~(n + 1 < threads[t].next)
    <3>1. threads[t].next \in 1 .. n + 1
      BY <2>1 DEF ChecksWellFormed
    <3>2. QED
      BY <1>2, <3>1
  <2>2. \A k \in DOMAIN sinks' : k \in DOMAIN sinks \/ k = n + 1
    BY <1>2
  <2>3. QED
    BY <1>1, <1>2, <1>3, <2>1, <2>2 DEF SinksInTurn
<1>9. SinksMissNothing'
  <2>1. \A i \in DOMAIN begun : ~(n + 1 <= begun[i])
    BY <1>2, <1>6
  <2>2. \A k \in DOMAIN sinks' : k \in DOMAIN sinks \/ k = n + 1
    BY <1>2
  <2>3. Running' = Running
    BY <1>1 DEF Running
  <2>4. QED
    BY <1>1, <1>2, <1>3, <2>1, <2>2, <2>3 DEF SinksMissNothing
<1>10. QED
  BY <1>4, <1>5, <1>7, <1>8, <1>9

LEMMA ElsewhereInd ==
  ASSUME GuardInd, ClearAuditLog \/ TimePasses \/ UNCHANGED guardVars
  PROVE  GuardInd'
<1> USE DEF GuardInd
<1>1. UNCHANGED <<begun, threads, sinks>> /\ latest' \in {<<>>, latest}
  BY DEF ClearAuditLog, TimePasses, guardVars
<1>2. GuardTypeOK'
  <2>1. CASE ClearAuditLog
    BY <1>1, <2>1, LimitsAssumption DEF ClearAuditLog, GuardTypeOK
  <2>2. CASE TimePasses
    BY <1>1, <2>2, LimitsAssumption DEF TimePasses, GuardTypeOK
  <2>3. CASE UNCHANGED guardVars
    BY <2>3 DEF guardVars, GuardTypeOK
  <2>4. QED
    BY <2>1, <2>2, <2>3
<1>3. LogKeepsNewest'
  <2>1. CASE ClearAuditLog
    BY <2>1, LimitsAssumption DEF ClearAuditLog, LogKeepsNewest
  <2>2. CASE TimePasses \/ UNCHANGED guardVars
    BY <2>2 DEF TimePasses, guardVars, LogKeepsNewest
  <2>3. QED
    BY <2>1, <2>2
<1>4. ChecksWellFormed' /\ SinksInTurn' /\ SinksMissNothing'
  BY <1>1 DEF ChecksWellFormed, SinksInTurn, SinksMissNothing, Running
<1>5. QED
  BY <1>2, <1>3, <1>4

(***************************************************************************)
(* However checks overlap, whichever sinks raise, and whenever sinks are   *)
(* registered and the log cleared.                                         *)
(***************************************************************************)
THEOREM GuardInductive == GuardSpec => []GuardInd
<1>1. GuardInd /\ [GuardNext]_guardVars => GuardInd'
  BY CheckInd, AppendAuditInd, CallSinkInd, ReturnInd, RegisterSinkInd,
     ElsewhereInd DEF GuardNext
<1>2. QED
  BY <1>1, GuardInitInd, PTL DEF GuardSpec

(* The guard's state keeps its types.                                      *)
THEOREM GuardTypeCorrect == GuardSpec => []GuardTypeOK
<1>1. GuardInd => GuardTypeOK
  BY DEF GuardInd
<1>2. QED
  BY <1>1, GuardInductive, PTL

(***************************************************************************)
(* The bounded audit log is the newest of the entries appended, in order.  *)
(***************************************************************************)
THEOREM NewestAreKept == GuardSpec => []LogKeepsNewest
<1>1. GuardInd => LogKeepsNewest
  BY DEF GuardInd
<1>2. QED
  BY <1>1, GuardInductive, PTL

(***************************************************************************)
(* A sink has every check that began after it was registered and has come  *)
(* to its end, once.                                                       *)
(***************************************************************************)
THEOREM EveryCheckReachesSinks == GuardSpec => []SinksMissNothing
<1>1. GuardInd => SinksMissNothing
  BY DEF GuardInd
<1>2. QED
  BY <1>1, GuardInductive, PTL

-----------------------------------------------------------------------------
(***************************************************************************)
(* The two ports' matching.                                                *)
(***************************************************************************)
LEMMA LeastElement ==
  ASSUME NEW T \in SUBSET Nat, T # {}
  PROVE  \E m \in T : \A n \in T : m <= n
<1>1. PICK m \in T : \A n \in T : ~ (<<n, m>> \in OpToRel(<, Nat))
  <2> HIDE DEF OpToRel
  <2>1. QED
    BY NatLessThanWellFounded, WFMin, Zenon
<1>2. \A n \in T : ~(n < m)
  BY <1>1 DEF OpToRel
<1>3. QED
  BY <1>2

LEMMA PatternFields ==
  ASSUME NEW p \in Pattern
  PROVE  /\ Len(p.text) \in Nat /\ DOMAIN p.text = 1 .. Len(p.text)
         /\ \A j \in DOMAIN p.text : p.text[j] \in Glyph
BY DEF Pattern

LEMMA OnlyStarsCompile ==
  ASSUME NEW p \in Pattern, OnlyStars(p)
  PROVE  Compiles(p)
BY DEF OnlyStars, Compiles

LEMMA StarTakesMore ==
  ASSUME NEW p \in Pattern, OnlyStars(p),
         NEW j \in DOMAIN p.text, NEW piece, TakesTS(p, j, piece)
  PROVE  Takes(p, j, piece)
<1>1. p.classes = {} /\ p.text[j] # Query
  BY DEF OnlyStars
<1>2. ~(j < Len(p.text) /\ p.text[j + 1] = Query)
  BY PatternFields DEF OnlyStars
<1>3. p.text[j] \in Stars \/ piece = << p.text[j] >>
  BY <1>1, <1>2 DEF TakesTS
<1>4. QED
  BY <1>1, <1>3 DEF Takes

LEMMA PortMatchesLess ==
  ASSUME NEW path, NEW p \in Pattern, OnlyStars(p), fnmatchTS(path, p)
  PROVE  fnmatch(path, p)
<1>1. PICK cut \in Cuts(path, Len(p.text)) :
         \A j \in DOMAIN p.text : TakesTS(p, j, Piece(path, cut, j))
  BY DEF fnmatchTS
<1>2. \A j \in DOMAIN p.text : Takes(p, j, Piece(path, cut, j))
  BY <1>1, StarTakesMore
<1>3. QED
  BY <1>2 DEF fnmatch

LEMMA OneElement ==
  ASSUME NEW S, NEW s \in Seq(S), Len(s) = 1
  PROVE  s = << s[1] >>
<1>1. s = Append(<<>>, s[1])
  <2>1. /\ Append(<<>>, s[1]) \in Seq(S) /\ Len(Append(<<>>, s[1])) = 1
        /\ Append(<<>>, s[1])[1] = s[1]
    OBVIOUS
  <2>2. QED
    BY <2>1, SeqEqual
<1>2. QED
  BY <1>1

LEMMA PieceFacts ==
  ASSUME NEW s \in Seq(Char), NEW a \in 0 .. Len(s), NEW b \in 0 .. Len(s),
         a <= b
  PROVE  /\ SubSeq(s, a + 1, b) \in Seq(Char)
         /\ Len(SubSeq(s, a + 1, b)) = b - a
         /\ \A i \in 1 .. b - a : SubSeq(s, a + 1, b)[i] = s[a + i]
         /\ \A i \in 1 .. b - a : a + i \in DOMAIN s
<1>1. Len(s) \in Nat
  OBVIOUS
<1>2. QED
  BY <1>1

LEMMA PieceLacks ==
  ASSUME NEW s \in Seq(Char), NEW a \in 0 .. Len(s), NEW chars,
         Lacks(s, chars)
  PROVE  Lacks(SubSeq(s, a + 1, Len(s)), chars)
<1> DEFINE rest == SubSeq(s, a + 1, Len(s))
<1>1. /\ Len(s) \in Nat /\ a <= Len(s)
      /\ DOMAIN s = 1 .. Len(s)
  OBVIOUS
<1>2. /\ rest \in Seq(Char) /\ Len(rest) = Len(s) - a
      /\ \A i \in 1 .. Len(s) - a : rest[i] = s[a + i]
      /\ \A i \in 1 .. Len(s) - a : a + i \in DOMAIN s
  <2>1. Len(s) \in 0 .. Len(s)
    BY <1>1
  <2>2. QED
    BY <1>1, <2>1, PieceFacts
<1>3. DOMAIN rest = 1 .. Len(s) - a
  BY <1>2
<1>4. QED
  BY <1>2, <1>3 DEF Lacks

LEMMA NamesAreWords ==
  ASSUME NEW path \in Seq(Char), NEW name \in Names(path)
  PROVE  /\ name \in Seq(Char)
         /\ Lacks(path, LineBreaks) => Lacks(name, LineBreaks)
<1>1. CASE name = path
  BY <1>1
<1>2. CASE name \in Basename(path)
  <2>1. PICK k \in 0 .. Len(path) : name = SubSeq(path, k + 1, Len(path))
    BY <1>2 DEF Basename
  <2>2. Len(path) \in 0 .. Len(path) /\ k <= Len(path)
    OBVIOUS
  <2>3. QED
    BY <2>1, <2>2, PieceFacts, PieceLacks
<1>3. QED
  BY <1>1, <1>2 DEF Names

(***************************************************************************)
(* Characters that are not stars take a character each.                    *)
(***************************************************************************)
LEMMA LiteralsInPlace ==
  ASSUME NEW s \in Seq(Char), NEW p \in Pattern, OnlyStars(p),
         NEW cut \in Cuts(s, Len(p.text)),
         \A j \in DOMAIN p.text : Takes(p, j, Piece(s, cut, j)),
         NEW m \in 0 .. Len(p.text),
         \A j \in 1 .. m : p.text[j] \notin Stars
  PROVE  /\ cut[m] = m
         /\ \A j \in 1 .. m : s[j] = p.text[j]
<1> DEFINE n == Len(p.text)
<1>1. n \in Nat /\ DOMAIN p.text = 1 .. n /\ Len(s) \in Nat
  BY PatternFields
<1>2. /\ cut \in [0 .. n -> 0 .. Len(s)] /\ cut[0] = 0
      /\ \A j \in 1 .. n : cut[j - 1] <= cut[j]
  BY DEF Cuts
<1>3. ASSUME NEW j \in 1 .. m
      PROVE  cut[j] = cut[j - 1] + 1 /\ s[cut[j]] = p.text[j]
  <2>1. j \in 1 .. n /\ j \in DOMAIN p.text /\ j - 1 \in 0 .. n /\ j \in 0 .. n
    BY <1>1
  <2>2. Piece(s, cut, j) = << p.text[j] >>
    BY <2>1 DEF Takes, OnlyStars
  <2>3. /\ cut[j - 1] \in 0 .. Len(s) /\ cut[j] \in 0 .. Len(s)
        /\ cut[j - 1] <= cut[j]
    BY <1>2, <2>1
  <2>4. Len(Piece(s, cut, j)) = 1 /\ Piece(s, cut, j)[1] = p.text[j]
    BY <2>2
  <2>5. cut[j] - cut[j - 1] = 1
    BY <2>3, <2>4, PieceFacts DEF Piece
  <2>6. Piece(s, cut, j)[1] = s[cut[j - 1] + 1]
    <3>1. 1 \in 1 .. cut[j] - cut[j - 1]
      BY <2>5
    <3>2. QED
      BY <2>3, <3>1, PieceFacts DEF Piece
  <2>7. QED
    BY <2>3, <2>4, <2>5, <2>6
<1>4. \A j \in 0 .. m : cut[j] = j
  <2> DEFINE T == {j \in 0 .. m : cut[j] # j}
  <2> SUFFICES ASSUME T # {} PROVE FALSE
    OBVIOUS
  <2>1. PICK k \in T : \A j \in T : k <= j
    <3>1. T \in SUBSET Nat
      BY <1>1
    <3>2. QED
      BY <3>1, LeastElement
  <2>2. k \in 1 .. m /\ k - 1 \in 0 .. m
    BY <1>1, <1>2
  <2>3. cut[k - 1] = k - 1
    BY <2>1, <2>2
  <2>4. cut[k] = k
    BY <1>3, <2>2, <2>3
  <2>5. QED
    BY <2>4
<1>5. ASSUME NEW j \in 1 .. m PROVE s[j] = p.text[j]
  <2>1. j \in 0 .. m
    BY <1>1
  <2>2. QED
    BY <1>3, <1>4, <2>1
<1>6. m \in 0 .. m
  BY <1>1
<1>7. QED
  BY <1>4, <1>5, <1>6

(***************************************************************************)
(* What follows the literal text is left to the port's star.               *)
(***************************************************************************)
LEMMA StarTakesRest ==
  ASSUME NEW s \in Seq(Char), NEW q \in Pattern,
         NEW n \in Nat \ {0}, Len(q.text) = n, n <= Len(s) + 1,
         q.text[n] \in Stars,
         \A j \in 1 .. n - 1 : s[j] = q.text[j],
         Run(q.text[n], SubSeq(s, n, Len(s)))
  PROVE  fnmatchTS(s, q)
<1> DEFINE cut == [j \in 0 .. n |-> IF j = n THEN Len(s) ELSE j]
<1>1. Len(s) \in Nat /\ DOMAIN q.text = 1 .. n /\ DOMAIN s = 1 .. Len(s)
  BY PatternFields
<1>2. cut \in Cuts(s, n)
  <2>1. \A j \in 0 .. n : cut[j] \in 0 .. Len(s)
    BY <1>1
  <2>2. \A j \in 1 .. n : cut[j - 1] <= cut[j]
    BY <1>1
  <2>3. QED
    BY <2>1, <2>2 DEF Cuts
<1>3. ASSUME NEW j \in 1 .. n
      PROVE  TakesTS(q, j, Piece(s, cut, j))
  <2>1. CASE j = n
    <3>1. Piece(s, cut, j) = SubSeq(s, n, Len(s))
      BY <2>1 DEF Piece
    <3>2. QED
      BY <2>1, <3>1 DEF TakesTS
  <2>2. CASE j < n
    <3>1. j \in 1 .. n - 1 /\ j \in 0 .. Len(s) /\ j - 1 \in 0 .. Len(s)
      BY <1>1, <2>2
    <3>2. cut[j] = j /\ cut[j - 1] = j - 1
      <4>1. j \in 0 .. n /\ j - 1 \in 0 .. n /\ j # n /\ j - 1 # n
        BY <2>2
      <4>2. QED
        BY <4>1
    <3>3. Piece(s, cut, j) = SubSeq(s, j, j)
      BY <3>2 DEF Piece
    <3>4. SubSeq(s, j, j) = << s[j] >>
      <4>1. j - 1 <= j /\ j - (j - 1) = 1 /\ (j - 1) + 1 = j
        OBVIOUS
      <4>2. /\ SubSeq(s, j, j) \in Seq(Char) /\ Len(SubSeq(s, j, j)) = 1
            /\ SubSeq(s, j, j)[1] = s[j]
        BY <3>1, <4>1, PieceFacts
      <4>3. QED
        BY <4>2, OneElement
    <3>5. s[j] \in Char /\ s[j] = q.text[j]
      BY <3>1
    <3>6. QED
      BY <3>3, <3>4, <3>5 DEF TakesTS
  <2>3. QED
    BY <2>1, <2>2
<1>4. QED
  BY <1>1, <1>2, <1>3 DEF fnmatchTS

(***************************************************************************)
(* A literal pattern takes the same paths in both ports.                   *)
(***************************************************************************)
LEMMA LiteralsAlike ==
  ASSUME NEW s, NEW p \in Pattern, OnlyStars(p), fnmatch(s, p),
         \A j \in DOMAIN p.text : p.text[j] \notin Stars
  PROVE  fnmatchTS(s, p)
<1>1. PICK cut \in Cuts(s, Len(p.text)) :
         \A j \in DOMAIN p.text : Takes(p, j, Piece(s, cut, j))
  BY DEF fnmatch
<1>2. ASSUME NEW j \in DOMAIN p.text
      PROVE  TakesTS(p, j, Piece(s, cut, j))
  <2>1. Piece(s, cut, j) = << p.text[j] >> /\ p.text[j] # Query
    BY <1>1 DEF Takes, OnlyStars
  <2>2. p.text[j] \in Char
    BY <2>1, PatternFields DEF Glyph, Stars
  <2>3. QED
    BY <2>1, <2>2 DEF TakesTS
<1>3. QED
  BY <1>2 DEF fnmatchTS

(***************************************************************************)
(* A pattern with its one star at the end takes what begins like it.       *)
(***************************************************************************)
LEMMA BeginsAlike ==
  ASSUME NEW s \in Seq(Char), NEW p \in Pattern, StarsTrail(p), fnmatch(s, p),
         NEW n, n = Len(p.text), n > 0
  PROVE  /\ n <= Len(s) + 1
         /\ \A j \in 1 .. n - 1 : s[j] = p.text[j]
<1>1. PICK cut \in Cuts(s, n) :
         \A j \in DOMAIN p.text : Takes(p, j, Piece(s, cut, j))
  BY DEF fnmatch
<1>2. n \in Nat /\ DOMAIN p.text = 1 .. n /\ Len(s) \in Nat
  BY PatternFields
<1>3. n - 1 \in 0 .. n
  BY <1>2
<1>4. \A j \in 1 .. n - 1 : p.text[j] \notin Stars
  BY <1>2 DEF StarsTrail
<1>5. cut[n - 1] = n - 1 /\ \A j \in 1 .. n - 1 : s[j] = p.text[j]
  BY <1>1, <1>3, <1>4, LiteralsInPlace DEF StarsTrail
<1>6. cut[n - 1] \in 0 .. Len(s)
  BY <1>3 DEF Cuts
<1>7. QED
  BY <1>2, <1>5, <1>6

(***************************************************************************)
(* A star's twin takes what the star does not.                             *)
(***************************************************************************)
LEMMA TwinTakesRest ==
  ASSUME NEW s \in Seq(Char), Lacks(s, LineBreaks),
         NEW n \in Nat \ {0}, n <= Len(s) + 1,
         NEW star \in Stars, NEW other, {star, other} = Stars,
         ~Run(star, SubSeq(s, n, Len(s)))
  PROVE  /\ Run(other, SubSeq(s, n, Len(s)))
         /\ IF star = Star THEN ~Lacks(SubSeq(s, n, Len(s)), {Slash})
                           ELSE SubSeq(s, n, Len(s)) = <<>>
<1> DEFINE rest == SubSeq(s, n, Len(s))
<1>1. Lacks(rest, LineBreaks)
  <2>1. n - 1 \in 0 .. Len(s) /\ (n - 1) + 1 = n
    OBVIOUS
  <2>2. Lacks(SubSeq(s, (n - 1) + 1, Len(s)), LineBreaks)
    BY <2>1, PieceLacks
  <2>3. QED
    BY <2>1, <2>2
<1>2. Lacks(<<>>, {Slash}) /\ (~Lacks(rest, {Slash}) => rest # <<>>)
  BY DEF Lacks
<1> HIDE DEF rest
<1>3. CASE star = Star
  <2>1. other = StarStar
    BY <1>3, GlyphsAssumption DEF Stars
  <2>2. QED
    BY <1>1, <1>2, <1>3, <2>1, GlyphsAssumption DEF Run, rest
<1>4. CASE star = StarStar
  <2>1. other = Star
    BY <1>4, GlyphsAssumption DEF Stars
  <2>2. rest = <<>>
    BY <1>1, <1>4 DEF Run, rest
  <2>3. QED
    BY <1>2, <1>4, <2>1, <2>2, GlyphsAssumption DEF Run, rest
<1>5. QED
  BY <1>3, <1>4 DEF Stars

LEMMA AllArePatterns ==
  ASSUME NEW extra \in ExtraPatterns
  PROVE  \A k \in DOMAIN AllPatterns(extra) : AllPatterns(extra)[k] \in Pattern
<1>1. AllPatterns(extra) \in Seq(Pattern)
  BY PatternsAssumption DEF AllPatterns
<1> HIDE DEF Pattern
<1>2. QED
  BY <1>1

LEMMA PortProtectsLess ==
  ASSUME NEW path \in Path, NEW extra \in ExtraPatterns,
         \A k \in DOMAIN AllPatterns(extra) : OnlyStars(AllPatterns(extra)[k]),
         isProtectedPath[path][extra]
  PROVE  is_protected_path[path][extra]
<1>1. PICK k \in DOMAIN AllPatterns(extra), name \in Names(path) :
         fnmatchTS(name, AllPatterns(extra)[k])
  BY DEF isProtectedPath, MatchesTS
<1>2. fnmatch(name, AllPatterns(extra)[k])
  BY <1>1, AllArePatterns, PortMatchesLess
<1>3. QED
  BY <1>2 DEF is_protected_path

LEMMA PortProtectsToo ==
  ASSUME NEW path \in Path, NEW extra \in ExtraPatterns,
         \A k \in DOMAIN AllPatterns(extra) : StarsTrail(AllPatterns(extra)[k]),
         Lacks(path, LineBreaks), ~HalfStarred(path, AllPatterns(extra)),
         is_protected_path[path][extra]
  PROVE  isProtectedPath[path][extra]
<1> DEFINE patterns == AllPatterns(extra)
<1>1. PICK k \in DOMAIN patterns, name \in Names(path) :
         fnmatch(name, patterns[k])
  BY DEF is_protected_path
<1> DEFINE p == patterns[k]
           n == Len(p.text)
           rest == SubSeq(name, n, Len(name))
<1>2. /\ p \in Pattern /\ StarsTrail(p) /\ OnlyStars(p)
      /\ n \in Nat /\ DOMAIN p.text = 1 .. n
  BY AllArePatterns, PatternFields DEF StarsTrail
<1>3. name \in Seq(Char) /\ Lacks(name, LineBreaks)
  BY PatternsAssumption, NamesAreWords
<1>4. SUFFICES \E m \in DOMAIN patterns : fnmatchTS(name, patterns[m])
  <2>1. \A m \in DOMAIN patterns : Compiles(patterns[m])
    BY AllArePatterns, OnlyStarsCompile DEF StarsTrail
  <2>2. QED
    BY <1>4, <2>1 DEF isProtectedPath, MatchesTS
<1> HIDE DEF patterns, p
<1>5. CASE \A j \in DOMAIN p.text : p.text[j] \notin Stars
  BY <1>1, <1>2, <1>5, LiteralsAlike DEF p
<1>6. CASE ~\A j \in DOMAIN p.text : p.text[j] \notin Stars
  <2>1. n \in Nat \ {0} /\ n > 0 /\ p.text[n] \in Stars
    BY <1>2, <1>6 DEF StarsTrail
  <2>2. n <= Len(name) + 1 /\ \A j \in 1 .. n - 1 : name[j] = p.text[j]
    BY <1>1, <1>2, <1>3, <2>1, BeginsAlike DEF p
  <2>3. CASE Run(p.text[n], rest)
    <3>1. fnmatchTS(name, p)
      BY <1>2, <1>3, <2>1, <2>2, <2>3, StarTakesRest
    <3>2. QED
      BY <3>1 DEF p
  <2>4. CASE ~Run(p.text[n], rest)
    <3>1. PICK other : {p.text[n], other} = Stars
      BY <2>1, Zenon DEF Stars
    <3>2. /\ Run(other, rest)
          /\ IF p.text[n] = Star THEN ~Lacks(rest, {Slash}) ELSE rest = <<>>
      BY <1>3, <2>1, <2>2, <2>4, <3>1, TwinTakesRest
    <3>3. PICK m \in DOMAIN patterns : Twin(p, patterns[m])
      BY <2>1, <2>2, <3>2 DEF HalfStarred, p, patterns
    <3>4. /\ patterns[m] \in Pattern /\ Len(patterns[m].text) = n
          /\ \A j \in 1 .. n - 1 : patterns[m].text[j] = p.text[j]
          /\ {p.text[n], patterns[m].text[n]} = Stars
      BY <3>3, AllArePatterns DEF Twin, patterns
    <3>5. patterns[m].text[n] = other /\ other \in Stars
      BY <3>1, <3>4, GlyphsAssumption, Zenon DEF Stars
    <3>6. fnmatchTS(name, patterns[m])
      BY <1>3, <2>1, <2>2, <3>2, <3>4, <3>5, StarTakesRest
    <3>7. QED
      BY <3>6
  <2>5. QED
    BY <2>3, <2>4
<1>7. QED
  BY <1>5, <1>6

(***************************************************************************)
(* Where the ports protect the path alike and the scope has only stars, a  *)
(* write the port approves is one that Python approves.                    *)
(***************************************************************************)
LEMMA PortApprovesLess ==
  ASSUME NEW path \in Path, NEW extra \in ExtraPatterns,
         NEW a \in Approvals \cup {NoApproval},
         is_protected_path[path][extra] => isProtectedPath[path][extra],
         a = NoApproval \/ OnlyStars(a.path_scope),
         portApproves(path, extra, a)
  PROVE  Reason(path, extra, a) \in Approving
<1>1. CASE ~is_protected_path[path][extra]
  BY <1>1 DEF Reason, Approving
<1>2. CASE is_protected_path[path][extra]
  <2>1. /\ a # NoApproval /\ a \in Approvals
        /\ a.issued_by \notin UNAUTHORIZED_SOURCES
        /\ ~is_expired(a)
        /\ coversPath[path][a.path_scope]
    BY <1>2 DEF portApproves
  <2>2. a.path_scope \in Scopes /\ a.path_scope \in Pattern
    BY <2>1, ApprovalsAssumption DEF Scopes
  <2>3. fnmatchTS(path, a.path_scope)
    BY <2>1, <2>2 DEF coversPath
  <2>4. fnmatch(path, a.path_scope)
    BY <2>1, <2>2, <2>3, PortMatchesLess
  <2>5. covers_path[path][a.path_scope]
    BY <2>2, <2>4 DEF covers_path
  <2>6. QED
    BY <1>2, <2>1, <2>5 DEF Reason, Approving
<1>3. QED
  BY <1>1, <1>2

(***************************************************************************)
(* The ports and patterns that have only stars.  The port protects no path *)
(* that Python does not.  Where stars come last, it protects every path    *)
(* that Python does, but for line breaks and stars without a twin, and     *)
(* approves no write that Python blocks.                                   *)
(***************************************************************************)
THEOREM PortsAgree == GuardSpec => []PortsProtectAlike
<1>1. GuardInit => PortsProtectAlike
  BY DEF GuardInit, PortsProtectAlike
<1>2. ASSUME PortsProtectAlike, [GuardNext]_guardVars
      PROVE  PortsProtectAlike'
  <2>1. CASE latest' = latest \/ latest' = <<>>
    BY <1>2, <2>1 DEF PortsProtectAlike
  <2>2. ASSUME NEW t \in Thread, NEW path \in Path, NEW extra \in ExtraPatterns,
               NEW a \in Approvals \cup {NoApproval}, Check(t, path, extra, a)
        PROVE  PortsProtectAlike'
    <3> DEFINE patterns == AllPatterns(extra)
    <3>1. /\ latest' = Entry(path, extra, a)
          /\ latest'.path = path /\ latest'.extra = extra
          /\ latest'.approval = a
          /\ latest'.reason = Reason(path, extra, a)
          /\ latest'.port = portApproves(path, extra, a)
      BY <2>2 DEF Check, Entry
    <3>2. (\A k \in DOMAIN patterns : OnlyStars(patterns[k])) =>
            (isProtectedPath[path][extra] => is_protected_path[path][extra])
      BY PortProtectsLess
    <3>3. ASSUME \A k \in DOMAIN patterns : StarsTrail(patterns[k]),
                 Lacks(path, LineBreaks), ~HalfStarred(path, patterns)
          PROVE  /\ is_protected_path[path][extra] =>
                      isProtectedPath[path][extra]
                 /\ a = NoApproval \/ OnlyStars(a.path_scope) =>
                      (portApproves(path, extra, a) =>
                         Reason(path, extra, a) \in Approving)
      BY <3>3, PortProtectsToo, PortApprovesLess
    <3>4. QED
      BY <3>1, <3>2, <3>3 DEF PortsProtectAlike
  <2>3. QED
    BY <1>2, <2>1, <2>2
       DEF GuardNext, guardVars, AppendAudit, CallSink, Return, RegisterSink,
           ClearAuditLog, TimePasses
<1>3. QED
  BY <1>1, <1>2, PTL DEF GuardSpec
=============================================================================
