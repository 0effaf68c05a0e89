---------------------- MODULE DelegationRecords_proofs ----------------------
(***************************************************************************)
(* ARIA's delegation records, for any number of calls, cards, records and  *)
(* capabilities.                                                           *)
(***************************************************************************)
EXTENDS DelegationRecords, Capabilities_proofs, FiniteSetTheorems,
        SequenceTheorems, TLAPS

ParentOf(i) == records[i].token.parent

ParentsOlder == \A i \in DOMAIN records : ParentOf(i) \in 0 .. i - 1

(* What a creation has found out of its parent record is so for good.      *)
CreateSound(c) ==
  /\ creates[c].at # "idle" =>
       creates[c].token.parent \in {NoParent} \cup DOMAIN records
  /\ creates[c].at = "checked" => creates[c].token.parent # NoParent
  /\ creates[c].at = "allowed" /\ creates[c].token.parent # NoParent =>
       LET parent == records[creates[c].token.parent].token IN
       /\ creates[c].parent = "active"
       /\ ValidSubset(creates[c].token.caps, parent.caps)
       /\ creates[c].token.depth < parent.depth

(* A revocation past its first write has revoked its record, and a child   *)
(* that is active and not on its list came after, of a creation that had   *)
(* read the record before.                                                 *)
RevokeSound(v) ==
  /\ revokes[v].at \in {"updated", "cascading"} =>
       records[revokes[v].id].status = "revoked"
  /\ revokes[v].at = "cascading" =>
       \A k \in ChildrenOf(revokes[v].id) :
         records[k].status = "active" => k \in revokes[v].left \cup slipped

FinishedRevoked == \A i \in finished : records[i].status = "revoked"

(* Above a record is one root, and nothing newer.                          *)
RootedOnce ==
  \A i \in DOMAIN records :
    /\ Above[i] \subseteq 1 .. i
    /\ \E r \in Above[i] :
         \A a \in Above[i] : ParentOf(a) = NoParent <=> a = r

Sound ==
  /\ ParentsOlder
  /\ \A c \in CreateCall : CreateSound(c)
  /\ \A v \in RevokeCall : RevokeSound(v)
  /\ FinishedRevoked
  /\ RootedOnce

IndInv ==
  /\ TypeOK
  /\ Sound
  /\ StoredNarrows
  /\ CascadeReachesChildren
  /\ VerifiedWithinGrant

-----------------------------------------------------------------------------
(***************************************************************************)
(* The walk from a record to its root.  Above is defined by recursion, and *)
(* what it computes is proved by descent: of the records for which a claim *)
(* fails there is an oldest.                                               *)
(***************************************************************************)
Forest == records \in Seq(Record) /\ ParentsOlder

Unfolded ==
  /\ Above[NoParent] = {}
  /\ \A i \in DOMAIN records : Above[i] = {i} \cup Above[ParentOf(i)]

(* The recursion defines a function: the records in every set that holds i *)
(* and with a record its parent are a solution of its equation.            *)
LEMMA AboveUnfolds == Forest => Unfolded
<1> SUFFICES ASSUME records \in Seq(Record), ParentsOlder PROVE Unfolded
  BY DEF Forest
<1> DEFINE Dom == {NoParent} \cup DOMAIN records
           Closed(S) == \A k \in S : ParentOf(k) \in S \cup {NoParent}
           Reached(i) == {a \in DOMAIN records :
                            \A S \in SUBSET DOMAIN records :
                              i \in S /\ Closed(S) => a \in S}
           up == [i \in Dom |-> IF i = NoParent THEN {} ELSE Reached(i)]
<1>1. /\ NoParent \notin DOMAIN records
      /\ \A i \in DOMAIN records : ParentOf(i) \in Dom
  BY DEF ParentsOlder, NoParent
<1>2. ASSUME NEW i \in DOMAIN records
      PROVE  up[i] = {i} \cup up[ParentOf(i)]
  <2> DEFINE p == ParentOf(i)
  <2>1. up[i] = Reached(i) /\ p \in Dom
    BY <1>1
  <2>2. {i} \cup up[p] \subseteq Reached(i)
    <3>1. CASE p = NoParent
      BY <3>1
    <3>2. CASE p \in DOMAIN records
      BY <1>1, <3>2
    <3>3. QED
      BY <2>1, <3>1, <3>2
  <2>3. Reached(i) \subseteq {i} \cup up[p]
    <3>1. /\ {i} \cup up[p] \in SUBSET DOMAIN records
          /\ p \in up[p] \cup {NoParent}
      BY <1>1
    <3>2. ASSUME NEW k \in up[p]
          PROVE  ParentOf(k) \in up[p] \cup {NoParent}
      <4>1. p # NoParent /\ k \in Reached(p) /\ k \in DOMAIN records
        BY <2>1, <3>2
      <4>2. CASE ParentOf(k) \in DOMAIN records
        <5>1. ParentOf(k) \in Reached(p)
          BY <1>1, <4>1, <4>2
        <5>2. QED
          BY <2>1, <4>1, <5>1
      <4>3. QED
        BY <1>1, <4>1, <4>2
    <3>3. Closed({i} \cup up[p])
      BY <3>1, <3>2
    <3>4. QED
      BY <3>1, <3>3
  <2>4. QED
    BY <2>1, <2>2, <2>3
<1>3. \A i \in Dom : up[i] = IF i = NoParent THEN {}
                           ELSE {i} \cup up[records[i].token.parent]
  BY <1>1, <1>2 DEF ParentOf
<1>4. up = [i \in Dom |-> IF i = NoParent THEN {}
                         ELSE {i} \cup up[records[i].token.parent]]
  BY <1>3
<1> HIDE DEF up
<1>5. Above = [i \in Dom |-> IF i = NoParent THEN {}
                            ELSE {i} \cup Above[records[i].token.parent]]
  BY <1>4, Zenon DEF Above
<1>6. QED
  BY <1>1, <1>5 DEF Unfolded, ParentOf

(* What is above a record stays so while records are added and marked.     *)
LEMMA AboveStable ==
  ASSUME Forest, Forest', DOMAIN records \subseteq DOMAIN records',
         \A i \in DOMAIN records : ParentOf(i)' = ParentOf(i)
  PROVE  \A i \in DOMAIN records : Above'[i] = Above[i]
<1> DEFINE Changed == {i \in DOMAIN records : Above'[i] # Above[i]}
<1>1. SUFFICES ASSUME Changed # {} PROVE FALSE
  OBVIOUS
<1>2. Changed \subseteq Nat
  BY DEF Forest
<1>3. PICK m \in Changed : \A k \in Changed : m <= k
  BY <1>1, <1>2, LeastElement
<1>4. /\ Above[m] = {m} \cup Above[ParentOf(m)]
      /\ Above'[m] = {m} \cup Above'[ParentOf(m)]
      /\ Above[NoParent] = {} /\ Above'[NoParent] = {}
  <2>1. Unfolded'
    BY AboveUnfolds, PTL
  <2>2. m \in DOMAIN records' /\ ParentOf(m)' = ParentOf(m)
    OBVIOUS
  <2>3. QED
    BY <2>1, <2>2, AboveUnfolds DEF Unfolded
<1>5. ParentOf(m) \in 0 .. m - 1 /\ m \in DOMAIN records
  BY DEF Forest, ParentsOlder
<1>6. ParentOf(m) # NoParent => ParentOf(m) \in DOMAIN records \ Changed
  BY <1>2, <1>3, <1>5 DEF NoParent, Forest
<1>7. QED
  BY <1>3, <1>4, <1>6

RootsFound ==
  \A i \in DOMAIN records :
    RootOf(i) \in Above[i] /\ ParentOf(RootOf(i)) = NoParent

LEMMA RootIsFound == RootedOnce => RootsFound
BY DEF RootedOnce, RootsFound, RootOf, ParentOf

LEMMA InitInd == Init => IndInv
<1> SUFFICES ASSUME Init PROVE IndInv
  OBVIOUS
<1>1. records = <<>> /\ DOMAIN records = {}
  BY DEF Init
<1>2. TypeOK
  BY <1>1, RecordsAssumption
     DEF Init, TypeOK, CardStatus, CreateState, RevokeState, Idle
<1>3. Sound
  BY <1>1 DEF Init, Sound, ParentsOlder, CreateSound, RevokeSound,
              FinishedRevoked, RootedOnce, Idle
<1>4. StoredNarrows /\ CascadeReachesChildren /\ VerifiedWithinGrant
  BY <1>1 DEF Init, StoredNarrows, CascadeReachesChildren, VerifiedWithinGrant
<1>5. QED
  BY <1>2, <1>3, <1>4 DEF IndInv

-----------------------------------------------------------------------------
(***************************************************************************)
(* Steps that create no record.  They keep the tokens, and with them what  *)
(* the walks find, and whatever was known of a token.                      *)
(***************************************************************************)
TokensKept ==
  /\ records' \in Seq(Record) /\ DOMAIN records' = DOMAIN records
  /\ \A i \in DOMAIN records : records'[i].token = records[i].token

LEMMA ForestHolds == IndInv => Forest
BY DEF IndInv, TypeOK, Sound, Forest

LEMMA WalksKept ==
  ASSUME IndInv, TokensKept
  PROVE  /\ \A i \in DOMAIN records : Above'[i] = Above[i]
         /\ ParentsOlder' /\ RootedOnce' /\ StoredNarrows'
<1> USE DEF IndInv, Sound, TokensKept
<1>1. \A i \in DOMAIN records : ParentOf(i)' = ParentOf(i)
  BY DEF ParentOf
<1>2. ParentsOlder' /\ Forest'
  BY <1>1 DEF ParentsOlder, Forest
<1>3. \A i \in DOMAIN records : Above'[i] = Above[i]
  BY <1>1, <1>2, AboveStable, ForestHolds
<1>4. \A i \in DOMAIN records : Above[i] \subseteq DOMAIN records
  BY DEF RootedOnce, TypeOK
<1>5. RootedOnce'
  BY <1>1, <1>3, <1>4 DEF RootedOnce
<1>6. StoredNarrows'
  BY <1>3, <1>4 DEF StoredNarrows
<1>7. QED
  BY <1>2, <1>3, <1>5, <1>6

LEMMA CreateKept ==
  ASSUME IndInv, TokensKept, NEW c \in CreateCall, creates'[c] = creates[c]
  PROVE  CreateSound(c)'
<1>1. CreateSound(c)
  BY DEF IndInv, Sound
<1>2. QED
  BY <1>1 DEF CreateSound, TokensKept

(* The steps of creations before the last, which write nothing.            *)
LEMMA CreateStepInd ==
  ASSUME IndInv, NEW c \in CreateCall, NEW state, Step(c, state),
         state \in CreateState, CreateSound(c)', verified' = 0,
         UNCHANGED <<clock, status, records, revokes, finished, slipped>>
  PROVE  IndInv'
<1> USE DEF IndInv, Sound
<1>1. TokensKept
  BY DEF TokensKept, TypeOK
<1>2. /\ creates' = [creates EXCEPT ![c] = state]
      /\ \A d \in CreateCall \ {c} : creates'[d] = creates[d]
  BY DEF Step, TypeOK
<1>3. TypeOK'
  <2>1. creates' \in [CreateCall -> CreateState]
    BY <1>2 DEF TypeOK
  <2>2. QED
    BY <2>1 DEF TypeOK, RevokeState
<1>4. \A d \in CreateCall : CreateSound(d)'
  BY <1>1, <1>2, CreateKept
<1>5. (\A v \in RevokeCall : RevokeSound(v)') /\ FinishedRevoked'
  BY DEF RevokeSound, ChildrenOf, FinishedRevoked
<1>6. CascadeReachesChildren' /\ VerifiedWithinGrant'
  BY DEF CascadeReachesChildren, VerifiedWithinGrant
<1>7. QED
  BY <1>1, <1>3, <1>4, <1>5, <1>6, WalksKept

LEMMA ReadCardsInd ==
  ASSUME IndInv, NEW c \in CreateCall, NEW req \in Requests,
         NEW p \in {NoParent} \cup DOMAIN records, ReadCards(c, Under(req, p))
  PROVE  IndInv'
<1> DEFINE t == Under(req, p)
           state == [at |-> "read", token |-> t, card |-> status[t.delegator]]
<1>1. /\ Step(c, state) /\ verified' = 0
      /\ UNCHANGED <<clock, status, records, revokes, finished, slipped>>
  BY DEF ReadCards
<1>2. t \in Token /\ t.parent = p
  BY RecordsAssumption DEF Under, Token, IndInv, TypeOK, NoParent
<1>3. state \in CreateState
  BY <1>2 DEF CreateState, Token, IndInv, TypeOK
<1>4. creates'[c] = state
  BY <1>1 DEF Step, IndInv, TypeOK
<1>5. CreateSound(c)'
  BY <1>1, <1>2, <1>4 DEF CreateSound
<1>6. QED
  BY <1>1, <1>3, <1>5, CreateStepInd

LEMMA VerifyTokenInd ==
  ASSUME IndInv, NEW c \in CreateCall, VerifyToken(c)
  PROVE  IndInv'
<1> DEFINE t == creates[c].token
           state == [at |-> IF t.parent = NoParent THEN "allowed" ELSE "checked",
                     token |-> t, parent |-> "none"]
<1>1. /\ creates[c].at = "read" /\ Step(c, state) /\ verified' = 0
      /\ UNCHANGED <<clock, status, records, revokes, finished, slipped>>
  BY DEF VerifyToken
<1>2. t \in Token /\ t.parent \in {NoParent} \cup DOMAIN records
  <2>1. creates[c] \in CreateState /\ CreateSound(c)
    BY DEF IndInv, Sound, TypeOK
  <2>2. QED
    BY <1>1, <2>1 DEF CreateState, CreateSound
<1>3. state \in CreateState
  BY <1>2 DEF CreateState
<1>4. creates'[c] = state
  BY <1>1 DEF Step, IndInv, TypeOK
<1>5. CreateSound(c)'
  BY <1>1, <1>2, <1>4 DEF CreateSound
<1>6. QED
  BY <1>1, <1>3, <1>5, CreateStepInd

LEMMA ReadParentInd ==
  ASSUME IndInv, NEW c \in CreateCall, ReadParent(c)
  PROVE  IndInv'
<1> DEFINE t == creates[c].token
           parent == records[t.parent]
           state == [at |-> "allowed", token |-> t, parent |-> parent.status]
<1>1. /\ creates[c].at = "checked" /\ Step(c, state) /\ verified' = 0
      /\ parent.status = "active"
      /\ ValidSubset(t.caps, parent.token.caps) /\ t.depth < parent.token.depth
      /\ UNCHANGED <<clock, status, records, revokes, finished, slipped>>
  BY DEF ReadParent, ParentUsable, DepthLeft
<1>2. t \in Token /\ t.parent \in {NoParent} \cup DOMAIN records
  <2>1. creates[c] \in CreateState /\ CreateSound(c)
    BY DEF IndInv, Sound, TypeOK
  <2>2. QED
    BY <1>1, <2>1 DEF CreateState, CreateSound
<1>3. state \in CreateState
  BY <1>1, <1>2 DEF CreateState
<1>4. creates'[c] = state
  BY <1>1 DEF Step, IndInv, TypeOK
<1>5. CreateSound(c)'
  BY <1>1, <1>2, <1>4 DEF CreateSound
<1>6. QED
  BY <1>1, <1>3, <1>5, CreateStepInd

LEMMA GiveUpCreateInd ==
  ASSUME IndInv, NEW c \in CreateCall, GiveUpCreate(c)
  PROVE  IndInv'
<1>1. /\ Step(c, Idle) /\ verified' = 0
      /\ UNCHANGED <<clock, status, records, revokes, finished, slipped>>
  BY DEF GiveUpCreate
<1>2. Idle \in CreateState
  BY DEF Idle, CreateState
<1>3. creates'[c] = Idle
  BY <1>1 DEF Step, IndInv, TypeOK
<1>4. CreateSound(c)'
  BY <1>3 DEF CreateSound, Idle
<1>5. QED
  BY <1>1, <1>2, <1>4, CreateStepInd

-----------------------------------------------------------------------------
(***************************************************************************)
(* Revocation.  A step of one revocation leaves the cards alone, and what  *)
(* it marks stays marked.                                                  *)
(***************************************************************************)
OnlyRevokes ==
  /\ TokensKept
  /\ \A i \in DOMAIN records :
       records'[i].status \in {records[i].status, "revoked"}
  /\ verified' = 0
  /\ UNCHANGED <<clock, status, creates, slipped>>

LEMMA RevokeStepInd ==
  ASSUME IndInv, OnlyRevokes, NEW v \in RevokeCall, NEW state, Go(v, state),
         state \in RevokeState, RevokeSound(v)',
         finished' \subseteq DOMAIN records, finished \subseteq finished',
         FinishedRevoked', CascadeReachesChildren'
  PROVE  IndInv'
<1> USE DEF IndInv, Sound, OnlyRevokes
<1>1. /\ revokes' = [revokes EXCEPT ![v] = state]
      /\ \A u \in RevokeCall \ {v} : revokes'[u] = revokes[u]
  BY DEF Go, TypeOK
<1>2. TypeOK'
  <2>1. revokes' \in [RevokeCall -> RevokeState] /\ RevokeState' = RevokeState
    BY <1>1 DEF TypeOK, RevokeState, TokensKept
  <2>2. Len(records') = Len(records)
    BY DEF TypeOK, TokensKept
  <2>3. QED
    BY <2>1, <2>2 DEF TypeOK, TokensKept
<1>3. \A c \in CreateCall : CreateSound(c)'
  BY CreateKept
<1>4. ASSUME NEW u \in RevokeCall
      PROVE  RevokeSound(u)'
  <2>1. CASE u = v
    BY <2>1
  <2>2. CASE u # v
    <3>1. revokes'[u] = revokes[u] /\ RevokeSound(u) /\ revokes[u] \in RevokeState
      BY <1>1, <2>2 DEF TypeOK
    <3>2. revokes[u].at \in {"updated", "cascading"} =>
            revokes[u].id \in DOMAIN records
      BY <3>1 DEF RevokeState
    <3>3. /\ ChildrenOf(revokes[u].id)' = ChildrenOf(revokes[u].id)
          /\ ChildrenOf(revokes[u].id) \subseteq DOMAIN records
      BY <3>1 DEF ChildrenOf, TokensKept
    <3>4. revokes'[u].at \in {"updated", "cascading"} =>
            records'[revokes'[u].id].status = "revoked"
      BY <3>1, <3>2 DEF RevokeSound
    <3>5. revokes'[u].at = "cascading" =>
            \A k \in ChildrenOf(revokes[u].id)' :
              records'[k].status = "active" => k \in revokes'[u].left \cup slipped'
      BY <3>1, <3>3 DEF RevokeSound
    <3>6. QED
      BY <3>1, <3>4, <3>5 DEF RevokeSound
  <2>3. QED
    BY <2>1, <2>2
<1>5. VerifiedWithinGrant'
  BY DEF VerifiedWithinGrant
<1>6. QED
  BY <1>2, <1>3, <1>4, <1>5, WalksKept

(* Marking a record revoked keeps the tokens and revokes nothing else.     *)
LEMMA Marking ==
  ASSUME IndInv, NEW i \in DOMAIN records, records' = MarkRevoked(i)
  PROVE  /\ TokensKept /\ records'[i].status = "revoked"
         /\ \A k \in DOMAIN records \ {i} : records'[k] = records[k]
         /\ \A k \in DOMAIN records :
              records'[k].status \in {records[k].status, "revoked"}
<1>1. records \in Seq(Record) /\ records[i] \in Record
  BY DEF IndInv, TypeOK
<1> DEFINE revoked == [records[i] EXCEPT !.status = "revoked"]
<1>2. records' = [records EXCEPT ![i] = revoked]
  BY DEF MarkRevoked
<1>3. /\ revoked \in Record /\ revoked.token = records[i].token
      /\ revoked.status = "revoked" /\ i \in 1 .. Len(records)
  BY <1>1 DEF Record
<1> HIDE DEF revoked
<1>4. /\ records' \in Seq(Record) /\ DOMAIN records' = DOMAIN records
      /\ records'[i] = revoked
      /\ \A k \in DOMAIN records \ {i} : records'[k] = records[k]
  BY <1>1, <1>2, <1>3, ExceptSeq
<1>5. QED
  BY <1>3, <1>4 DEF TokensKept

(* Steps that mark nothing and finish nothing.                             *)
LEMMA NothingMarked ==
  ASSUME IndInv, verified' = 0,
         UNCHANGED <<clock, status, records, creates, finished, slipped>>
  PROVE  /\ OnlyRevokes /\ FinishedRevoked' /\ CascadeReachesChildren'
         /\ finished' \subseteq DOMAIN records /\ finished \subseteq finished'
BY DEF IndInv, Sound, TypeOK, OnlyRevokes, TokensKept, FinishedRevoked,
       CascadeReachesChildren

LEMMA AuthorizeRevokeInd ==
  ASSUME IndInv, NEW v \in RevokeCall, NEW i \in DOMAIN records,
         AuthorizeRevoke(v, i)
  PROVE  IndInv'
<1> DEFINE state == [at |-> "authorized", id |-> i]
<1>1. Go(v, state) /\ state \in RevokeState
  BY DEF AuthorizeRevoke, RevokeState
<1>2. RevokeSound(v)'
  BY <1>1 DEF Go, RevokeSound, IndInv, TypeOK
<1>3. QED
  BY <1>1, <1>2, NothingMarked, RevokeStepInd DEF AuthorizeRevoke

LEMMA RevokeFailsInd ==
  ASSUME IndInv, NEW v \in RevokeCall, RevokeFails(v)
  PROVE  IndInv'
<1>1. Go(v, Idle) /\ Idle \in RevokeState
  BY DEF RevokeFails, RevokeState, Idle
<1>2. RevokeSound(v)'
  BY <1>1 DEF Go, RevokeSound, IndInv, TypeOK, Idle
<1>3. QED
  BY <1>1, <1>2, NothingMarked, RevokeStepInd DEF RevokeFails

LEMMA ListChildrenInd ==
  ASSUME IndInv, NEW v \in RevokeCall, ListChildren(v)
  PROVE  IndInv'
<1> DEFINE i == revokes[v].id
           state == [at |-> "cascading", id |-> i, left |-> ChildrenOf(i)]
<1>1. /\ revokes[v].at = "updated" /\ Go(v, state) /\ verified' = 0
      /\ UNCHANGED <<clock, status, records, creates, finished, slipped>>
  BY DEF ListChildren
<1>2. i \in DOMAIN records /\ records[i].status = "revoked"
  BY <1>1 DEF IndInv, Sound, TypeOK, RevokeState, RevokeSound
<1>3. state \in RevokeState
  BY <1>2 DEF RevokeState, ChildrenOf
<1>4. revokes'[v] = state
  BY <1>1 DEF Go, IndInv, TypeOK
<1>5. RevokeSound(v)'
  BY <1>1, <1>2, <1>4 DEF RevokeSound, ChildrenOf
<1>6. QED
  BY <1>1, <1>3, <1>5, NothingMarked, RevokeStepInd

LEMMA FinishRevokeInd ==
  ASSUME IndInv, NEW v \in RevokeCall, FinishRevoke(v)
  PROVE  IndInv'
<1> DEFINE i == revokes[v].id
<1>1. /\ revokes[v].at = "cascading" /\ revokes[v].left = {} /\ Go(v, Idle)
      /\ verified' = 0 /\ finished' = finished \cup {i}
      /\ UNCHANGED <<clock, status, records, creates, slipped>>
  BY DEF FinishRevoke
<1>2. /\ i \in DOMAIN records /\ records[i].status = "revoked"
      /\ \A k \in ChildrenOf(i) : records[k].status = "active" => k \in slipped
  BY <1>1 DEF IndInv, Sound, TypeOK, RevokeState, RevokeSound
<1>3. Idle \in RevokeState /\ revokes'[v] = Idle
  BY <1>1 DEF RevokeState, Idle, Go, IndInv, TypeOK
<1>4. RevokeSound(v)'
  BY <1>3 DEF RevokeSound, Idle
<1>5. OnlyRevokes /\ FinishedRevoked' /\ finished' \subseteq DOMAIN records
  BY <1>1, <1>2 DEF OnlyRevokes, TokensKept, FinishedRevoked, IndInv, Sound, TypeOK
<1>6. CascadeReachesChildren'
  BY <1>1, <1>2 DEF CascadeReachesChildren, ChildrenOf, IndInv
<1>7. QED
  BY <1>1, <1>3, <1>4, <1>5, <1>6, RevokeStepInd

LEMMA UpdateStatusInd ==
  ASSUME IndInv, NEW v \in RevokeCall, UpdateStatus(v)
  PROVE  IndInv'
<1> DEFINE i == revokes[v].id
           state == [at |-> "updated", id |-> i]
<1>1. /\ revokes[v].at = "authorized" /\ Go(v, state) /\ verified' = 0
      /\ records' = MarkRevoked(i)
      /\ UNCHANGED <<clock, status, creates, finished, slipped>>
  BY DEF UpdateStatus
<1>2. i \in DOMAIN records /\ state \in RevokeState
  BY <1>1 DEF IndInv, TypeOK, RevokeState
<1>3. revokes'[v] = state
  BY <1>1 DEF Go, IndInv, TypeOK
<1>4. /\ OnlyRevokes /\ records'[i].status = "revoked"
      /\ finished' \subseteq DOMAIN records /\ finished \subseteq finished'
  BY <1>1, <1>2, Marking DEF OnlyRevokes, IndInv, TypeOK
<1>5. RevokeSound(v)'
  BY <1>3, <1>4 DEF RevokeSound
<1>6. FinishedRevoked' /\ CascadeReachesChildren'
  BY <1>1, <1>4 DEF OnlyRevokes, TokensKept, FinishedRevoked,
                    CascadeReachesChildren, IndInv, Sound, TypeOK
<1>7. QED
  BY <1>1, <1>2, <1>4, <1>5, <1>6, RevokeStepInd

LEMMA RevokeChildInd ==
  ASSUME IndInv, NEW v \in RevokeCall, NEW k \in DOMAIN records, RevokeChild(v, k)
  PROVE  IndInv'
<1> DEFINE i == revokes[v].id
           state == [revokes[v] EXCEPT !.left = @ \ {k}]
<1>1. /\ revokes[v].at = "cascading" /\ Go(v, state) /\ verified' = 0
      /\ records' = MarkRevoked(k)
      /\ UNCHANGED <<clock, status, creates, finished, slipped>>
  BY DEF RevokeChild
<1>2. /\ revokes[v] \in [at : {"cascading"}, id : DOMAIN records,
                         left : SUBSET DOMAIN records]
      /\ RevokeSound(v)
  BY <1>1 DEF IndInv, Sound, TypeOK, RevokeState
<1>3. /\ state.at = "cascading" /\ state.id = i
      /\ state.left = revokes[v].left \ {k} /\ state \in RevokeState
      /\ i \in DOMAIN records
  BY <1>2 DEF RevokeState
<1>4. revokes'[v] = state
  BY <1>1 DEF Go, IndInv, TypeOK
<1>5. /\ OnlyRevokes /\ records'[k].status = "revoked"
      /\ finished' \subseteq DOMAIN records /\ finished \subseteq finished'
  BY <1>1, Marking DEF OnlyRevokes, IndInv, TypeOK
<1> HIDE DEF state
<1>6. RevokeSound(v)'
  <2>1. /\ records[i].status = "revoked"
        /\ \A j \in ChildrenOf(i) : records[j].status = "active" =>
              j \in revokes[v].left \cup slipped
    BY <1>1, <1>2 DEF RevokeSound
  <2>2. \A j \in DOMAIN records :
          /\ records'[j].status = "active" => records[j].status = "active" /\ j # k
          /\ records'[j].token.parent = records[j].token.parent
    BY <1>5 DEF OnlyRevokes, TokensKept
  <2>3. revokes'[v].id = i /\ records'[i].status = "revoked"
    BY <1>3, <1>4, <1>5, <2>1 DEF OnlyRevokes
  <2>4. \A j \in DOMAIN records' :
          records'[j].token.parent = i /\ records'[j].status = "active"
            => j \in revokes'[v].left \cup slipped'
    BY <1>1, <1>3, <1>4, <1>5, <2>1, <2>2 DEF ChildrenOf, OnlyRevokes, TokensKept
  <2>5. QED
    BY <2>3, <2>4 DEF RevokeSound, ChildrenOf
<1>7. FinishedRevoked' /\ CascadeReachesChildren'
  BY <1>1, <1>5 DEF OnlyRevokes, TokensKept, FinishedRevoked,
                    CascadeReachesChildren, IndInv, Sound, TypeOK
<1>8. QED
  BY <1>1, <1>3, <1>5, <1>6, <1>7, RevokeStepInd

-----------------------------------------------------------------------------
(***************************************************************************)
(* Verification: what the library compares link by link holds of the whole *)
(* chain, given what the endpoint that stored the records compared.        *)
(***************************************************************************)
LEMMA ChainGrants ==
  ASSUME IndInv, NEW i \in DOMAIN records, ChainValid(i)
  PROVE  LET root == records[RootOf(i)].token.delegator IN
         /\ ValidSubset(records[i].token.caps, CardCaps[root])
         /\ CardValid(root, status[root])
         /\ \A a \in Above[i] : clock <= records[a].token.exp
<1> DEFINE r == RootOf(i)
           root == records[r].token
<1> USE DEF IndInv, Sound
<1>1. r \in Above[i] /\ ParentOf(r) = NoParent /\ Above[i] \subseteq DOMAIN records
  BY RootIsFound DEF RootsFound, RootedOnce, TypeOK
<1>2. /\ clock <= root.exp /\ CardValid(root.delegator, status[root.delegator])
      /\ ValidSubset(root.caps, CardCaps[root.delegator])
  BY DEF ChainValid, TokenValid
<1>3. ASSUME NEW a \in Above[i]
      PROVE  clock <= records[a].token.exp
  <2>1. CASE ParentOf(a) = NoParent
    BY <1>1, <1>2, <2>1 DEF RootedOnce
  <2>2. CASE ParentOf(a) # NoParent
    BY <2>2 DEF ChainValid, LinkValid, ParentOf
  <2>3. QED
    BY <2>1, <2>2
<1>4. ValidSubset(records[i].token.caps, CardCaps[root.delegator])
  <2>1. records[i] \in Record /\ records[r] \in Record
    BY <1>1 DEF TypeOK
  <2>2. /\ records[i].token.caps \in SUBSET Capability
        /\ root.caps \in SUBSET Capability
        /\ CardCaps[root.delegator] \in SUBSET Capability
    BY <2>1, RecordsAssumption DEF Record, Token
  <2>3. CASE r = i
    BY <1>2, <2>3
  <2>4. CASE r # i
    <3>1. ValidSubset(records[i].token.caps, root.caps)
      BY <1>1, <2>4 DEF StoredNarrows
    <3>2. QED
      BY <1>2, <2>2, <3>1, ValidSubsetTransitive
  <2>5. QED
    BY <2>3, <2>4
<1>5. QED
  BY <1>2, <1>3, <1>4

(* Steps that touch neither records nor calls.                             *)
LEMMA UntouchedInd ==
  ASSUME IndInv, clock' \in 0 .. MaxClock, status' \in [Card -> CardStatus],
         verified' \in {0} \cup DOMAIN records, VerifiedWithinGrant',
         UNCHANGED <<records, creates, revokes, finished, slipped>>
  PROVE  IndInv'
<1> USE DEF IndInv, Sound
<1>1. TokensKept /\ TypeOK'
  BY DEF TypeOK, TokensKept, RevokeState
<1>2. /\ \A c \in CreateCall : CreateSound(c)'
      /\ \A v \in RevokeCall : RevokeSound(v)'
      /\ FinishedRevoked' /\ CascadeReachesChildren'
  BY DEF CreateSound, RevokeSound, ChildrenOf, FinishedRevoked,
         CascadeReachesChildren
<1>3. QED
  BY <1>1, <1>2, WalksKept

LEMMA VerifyRecordInd ==
  ASSUME IndInv, NEW i \in DOMAIN records, VerifyRecord(i)
  PROVE  IndInv'
<1>1. /\ ChainValid(i) /\ verified' = i
      /\ UNCHANGED <<clock, status, records, creates, revokes, finished, slipped>>
  BY DEF VerifyRecord
<1>2. TokensKept
  BY <1>1 DEF TokensKept, IndInv, TypeOK
<1>3. Above'[i] = Above[i] /\ RootedOnce'
  BY <1>2, WalksKept
<1>4. RootOf(i) \in Above[i] /\ ParentOf(RootOf(i)) = NoParent
  BY RootIsFound DEF RootsFound, IndInv, Sound
<1>5. RootsFound'
  BY <1>3, RootIsFound, PTL
<1>6. PICK q : q = RootOf(i)'
  OBVIOUS
<1>7. q \in Above[i] /\ records[q].token.parent = NoParent
  BY <1>1, <1>3, <1>5, <1>6 DEF RootsFound, ParentOf
<1>8. q = RootOf(i)
  BY <1>4, <1>7 DEF IndInv, Sound, RootedOnce, ParentOf
<1>9. VerifiedWithinGrant'
  BY <1>1, <1>3, <1>6, <1>8, ChainGrants DEF VerifiedWithinGrant, CardValid
<1>10. QED
  BY <1>1, <1>9, UntouchedInd DEF IndInv, TypeOK

-----------------------------------------------------------------------------
(***************************************************************************)
(* Creation: the new record narrows its parent, so all that is above it.   *)
(* Its parent may have been revoked since it was read.                     *)
(***************************************************************************)
LEMMA CreateRecordInd ==
  ASSUME IndInv, NEW c \in CreateCall, CreateRecord(c)
  PROVE  IndInv'
<1> USE DEF IndInv, Sound
<1>0. PICK n, t, p : n = Len(records) + 1 /\ t = creates[c].token /\ p = t.parent
  OBVIOUS
<1>1. /\ creates[c].at = "allowed" /\ Len(records) < MaxRecords
      /\ records' = Append(records, [token |-> t, status |-> "active"])
      /\ slipped' = IF /\ creates[c].parent = "active"
                       /\ records[p].status = "revoked"
                    THEN slipped \cup {n} ELSE slipped
      /\ creates' = [creates EXCEPT ![c] = Idle] /\ verified' = 0
      /\ UNCHANGED <<clock, status, revokes, finished>>
  BY <1>0 DEF CreateRecord, Step
<1>2. /\ records \in Seq(Record) /\ MaxRecords \in Nat
      /\ creates[c] \in CreateState /\ CreateSound(c)
  BY RecordsAssumption DEF TypeOK
<1>3. /\ t \in Token /\ p \in {NoParent} \cup DOMAIN records
      /\ p # NoParent =>
           /\ creates[c].parent = "active"
           /\ ValidSubset(t.caps, records[p].token.caps)
           /\ t.depth < records[p].token.depth
  BY <1>0, <1>1, <1>2 DEF CreateState, CreateSound
<1>4. [token |-> t, status |-> "active"] \in Record
  BY <1>3 DEF Record
<1>5. /\ records' \in Seq(Record) /\ Len(records') = n
      /\ DOMAIN records' = DOMAIN records \cup {n} /\ n \notin DOMAIN records
      /\ n \in Nat \ {0} /\ DOMAIN records = 1 .. n - 1 /\ NoParent \notin DOMAIN records
      /\ records'[n].token = t /\ records'[n].status = "active"
      /\ \A i \in DOMAIN records : records'[i] = records[i]
  BY <1>0, <1>1, <1>2, <1>4 DEF NoParent
<1>6. /\ ParentOf(n)' = p
      /\ \A i \in DOMAIN records : ParentOf(i)' = ParentOf(i)
  BY <1>0, <1>5 DEF ParentOf
<1>7. ParentsOlder' /\ Forest'
  <2>1. p \in 0 .. n - 1
    BY <1>3, <1>5 DEF NoParent
  <2>2. QED
    BY <1>5, <1>6, <2>1 DEF ParentsOlder, Forest
<1>8. \A i \in DOMAIN records :
        Above'[i] = Above[i] /\ i \in Above[i] /\ Above[i] \subseteq 1 .. i
  BY <1>5, <1>6, <1>7, AboveStable, AboveUnfolds, ForestHolds
     DEF Unfolded, RootedOnce
<1>9. Above'[n] = {n} \cup (IF p = NoParent THEN {} ELSE Above[p])
  <2>1. Unfolded'
    BY <1>7, AboveUnfolds, PTL
  <2>2. QED
    BY <1>3, <1>5, <1>6, <1>8, <2>1 DEF Unfolded
<1>10. TypeOK'
  <2>1. creates' \in [CreateCall -> CreateState]
    BY <1>1 DEF TypeOK, CreateState, Idle
  <2>2. revokes' \in [RevokeCall -> RevokeState']
    <3>1. RevokeState \subseteq RevokeState'
      BY <1>5 DEF RevokeState
    <3>2. QED
      BY <1>1, <3>1 DEF TypeOK
  <2>3. finished' \cup slipped' \subseteq DOMAIN records'
    BY <1>1, <1>5 DEF TypeOK
  <2>4. QED
    BY <1>0, <1>1, <1>2, <1>5, <2>1, <2>2, <2>3 DEF TypeOK
<1>11. ASSUME NEW d \in CreateCall
       PROVE  CreateSound(d)'
  <2>1. CASE d = c
    BY <1>1, <2>1 DEF CreateSound, Idle, TypeOK
  <2>2. CASE d # c
    <3>1. creates'[d] = creates[d] /\ CreateSound(d)
      BY <1>1, <2>2 DEF TypeOK
    <3>2. QED
      BY <1>5, <3>1 DEF CreateSound
  <2>3. QED
    BY <2>1, <2>2
(* A child of a revoked record is recorded as having slipped in.           *)
<1>12. p # NoParent /\ records[p].status = "revoked" => n \in slipped'
  BY <1>1, <1>3
<1>13. ASSUME NEW v \in RevokeCall
       PROVE  RevokeSound(v)'
  <2>1. revokes'[v] = revokes[v] /\ RevokeSound(v) /\ revokes[v] \in RevokeState
    BY <1>1 DEF TypeOK
  <2>2. revokes[v].at \in {"updated", "cascading"} =>
          /\ revokes[v].id \in DOMAIN records
          /\ records[revokes[v].id].status = "revoked"
    BY <2>1 DEF RevokeState, RevokeSound
  <2>3. ASSUME revokes[v].at = "cascading", NEW k \in DOMAIN records',
               records'[k].token.parent = revokes[v].id,
               records'[k].status = "active"
        PROVE  k \in revokes[v].left \cup slipped'
    <3>1. CASE k = n
      BY <1>0, <1>5, <1>12, <2>2, <2>3, <3>1
    <3>2. CASE k \in DOMAIN records
      BY <1>1, <1>5, <2>1, <2>3, <3>2 DEF RevokeSound, ChildrenOf
    <3>3. QED
      BY <1>5, <3>1, <3>2
  <2>4. QED
    BY <1>5, <2>1, <2>2, <2>3 DEF RevokeSound, ChildrenOf
<1>14. FinishedRevoked'
  BY <1>1, <1>5 DEF FinishedRevoked, TypeOK
<1>15. CascadeReachesChildren'
  <2>1. p \in finished => p # NoParent /\ records[p].status = "revoked"
    BY <1>5 DEF FinishedRevoked, TypeOK
  <2>2. QED
    BY <1>0, <1>1, <1>5, <1>12, <2>1 DEF CascadeReachesChildren
<1>16. RootedOnce'
  <2>1. ASSUME NEW i \in DOMAIN records
        PROVE  /\ Above'[i] \subseteq 1 .. i
               /\ \E r \in Above'[i] :
                    \A a \in Above'[i] : ParentOf(a)' = NoParent <=> a = r
    <3>1. \A a \in Above[i] : ParentOf(a)' = ParentOf(a)
      BY <1>5, <1>6, <1>8
    <3>2. QED
      BY <1>8, <3>1 DEF RootedOnce
  <2>2. /\ Above'[n] \subseteq 1 .. n
        /\ \E r \in Above'[n] :
             \A a \in Above'[n] : ParentOf(a)' = NoParent <=> a = r
    <3>1. CASE p = NoParent
      <4>1. Above'[n] = {n} /\ n \in 1 .. n
        BY <1>5, <1>9, <3>1
      <4>2. \A a \in Above'[n] : ParentOf(a)' = NoParent <=> a = n
        BY <1>6, <3>1, <4>1
      <4>3. QED
        BY <4>1, <4>2
    <3>2. CASE p \in DOMAIN records
      <4>1. /\ Above'[n] = {n} \cup Above'[p] /\ p # NoParent
            /\ Above'[p] \subseteq 1 .. p /\ p < n
        BY <1>5, <1>8, <1>9, <3>2
      <4>2. PICK r \in Above'[p] :
              \A a \in Above'[p] : ParentOf(a)' = NoParent <=> a = r
        BY <2>1, <3>2
      <4>3. r # n
        BY <1>5, <3>2, <4>1
      <4>4. QED
        BY <1>5, <1>6, <3>2, <4>1, <4>2, <4>3
    <3>3. QED
      BY <1>3, <3>1, <3>2
  <2>3. QED
    BY <1>5, <2>1, <2>2 DEF RootedOnce
<1>17. StoredNarrows'
  <2>1. ASSUME NEW i \in DOMAIN records, NEW a \in Above'[i] \ {i}
        PROVE  /\ a < i
               /\ ValidSubset(records'[i].token.caps, records'[a].token.caps)
               /\ records'[i].token.depth + Cardinality(Above'[i] \ Above'[a])
                    <= records'[a].token.depth
    <3>1. a \in DOMAIN records /\ a \in Above[i] \ {i}
      BY <1>5, <1>8
    <3>2. QED
      BY <1>5, <1>8, <3>1 DEF StoredNarrows
  <2>2. ASSUME NEW a \in Above'[n] \ {n}
        PROVE  /\ a < n
               /\ ValidSubset(t.caps, records'[a].token.caps)
               /\ t.depth + Cardinality(Above'[n] \ Above'[a])
                    <= records'[a].token.depth
    <3>1. /\ p \in DOMAIN records /\ a \in Above[p] /\ p < n
          /\ Above'[n] = Above[p] \cup {n}
          /\ a \in DOMAIN records /\ a < n
      BY <1>3, <1>5, <1>8, <1>9
    <3>2. /\ records[p] \in Record /\ records[a] \in Record
          /\ records'[a].token = records[a].token
      BY <1>2, <1>5, <3>1
    <3>3. /\ records[p].token.caps \in SUBSET Capability
          /\ records[a].token.caps \in SUBSET Capability
          /\ t.caps \in SUBSET Capability
          /\ records[p].token.depth \in Nat /\ records[a].token.depth \in Nat
          /\ t.depth \in Nat
      BY <1>3, <3>2 DEF Record, Token
    <3>4. n \notin Above[p] /\ IsFiniteSet(Above[p])
      <4>1. Above[p] \subseteq 1 .. p /\ p \in Nat
        BY <1>8, <3>1, <1>5
      <4>2. IsFiniteSet(1 .. p) /\ Above[p] \in SUBSET (1 .. p)
        BY <4>1, FS_Interval
      <4>3. IsFiniteSet(Above[p])
        BY <4>2, FS_Subset
      <4>4. n \notin 1 .. p
        BY <1>5, <3>1, <4>1
      <4>5. QED
        BY <4>1, <4>3, <4>4
    <3>5. CASE a = p
      <4>1. Above'[n] \ Above'[a] = {n}
        BY <1>8, <3>1, <3>4, <3>5
      <4>2. Cardinality(Above'[n] \ Above'[a]) = 1
        BY <4>1, FS_Singleton
      <4>3. QED
        BY <1>3, <1>5, <3>1, <3>2, <3>3, <3>5, <4>2
    <3>6. CASE a # p
      <4>1. /\ ValidSubset(records[p].token.caps, records[a].token.caps)
            /\ records[p].token.depth + Cardinality(Above[p] \ Above[a])
                 <= records[a].token.depth
        BY <3>1, <3>6 DEF StoredNarrows
      <4>2. Above'[n] \ Above'[a] = (Above[p] \ Above[a]) \cup {n}
        BY <1>5, <1>8, <3>1
      <4>3. IsFiniteSet(Above[p] \ Above[a])
        BY <3>4, FS_Subset
      <4>4. /\ Cardinality(Above'[n] \ Above'[a]) =
                 Cardinality(Above[p] \ Above[a]) + 1
            /\ Cardinality(Above[p] \ Above[a]) \in Nat
        BY <3>4, <4>2, <4>3, FS_AddElement, FS_CardinalityType
      <4>5. t.depth < records[p].token.depth
        BY <1>3, <1>5, <3>1
      <4>6. ValidSubset(t.caps, records[a].token.caps)
        BY <1>3, <1>5, <3>1, <3>3, <4>1, ValidSubsetTransitive
      <4>7. QED
        BY <3>1, <3>2, <3>3, <4>1, <4>4, <4>5, <4>6
    <3>7. QED
      BY <3>5, <3>6
  <2>3. QED
    BY <1>5, <2>1, <2>2 DEF StoredNarrows
<1>18. VerifiedWithinGrant'
  BY <1>1 DEF VerifiedWithinGrant
<1>19. QED
  BY <1>7, <1>10, <1>11, <1>13, <1>14, <1>15, <1>16, <1>17, <1>18

-----------------------------------------------------------------------------
LEMMA StepInd ==
  ASSUME IndInv, [Next]_vars
  PROVE  IndInv'
<1>1. ASSUME NEW c \in CreateCall,
             \/ \E req \in Requests, p \in {NoParent} \cup DOMAIN records :
                  ReadCards(c, Under(req, p))
             \/ VerifyToken(c) \/ ReadParent(c) \/ CreateRecord(c)
             \/ GiveUpCreate(c)
      PROVE  IndInv'
  BY <1>1, ReadCardsInd, VerifyTokenInd, ReadParentInd, CreateRecordInd,
     GiveUpCreateInd
<1>2. ASSUME NEW v \in RevokeCall,
             \/ \E i \in DOMAIN records : AuthorizeRevoke(v, i) \/ RevokeChild(v, i)
             \/ UpdateStatus(v) \/ ListChildren(v) \/ FinishRevoke(v)
             \/ RevokeFails(v)
      PROVE  IndInv'
  BY <1>2, AuthorizeRevokeInd, RevokeChildInd, UpdateStatusInd,
     ListChildrenInd, FinishRevokeInd, RevokeFailsInd
<1>3. CASE \E i \in DOMAIN records : VerifyRecord(i)
  BY <1>3, VerifyRecordInd
<1>4. ASSUME NEW c \in Card, NEW to \in {"revoked", "superseded"}, Retire(c, to)
      PROVE  IndInv'
  <2>1. /\ verified' = 0 /\ status' \in [Card -> CardStatus]
        /\ UNCHANGED <<clock, records, creates, revokes, finished, slipped>>
    BY <1>4 DEF Retire, IndInv, TypeOK, CardStatus
  <2>2. QED
    BY <2>1, UntouchedInd DEF VerifiedWithinGrant, IndInv, TypeOK
<1>5. CASE Tick
  <2>1. /\ verified' = 0 /\ clock' \in 0 .. MaxClock
        /\ UNCHANGED <<status, records, creates, revokes, finished, slipped>>
    BY <1>5, RecordsAssumption DEF Tick, IndInv, TypeOK
  <2>2. QED
    BY <2>1, UntouchedInd DEF VerifiedWithinGrant, IndInv, TypeOK
<1>6. CASE UNCHANGED vars
  <2>1. TokensKept /\ UNCHANGED vars
    BY <1>6 DEF vars, TokensKept, IndInv, TypeOK
  <2>2. VerifiedWithinGrant'
    <3>1. ASSUME verified # 0
          PROVE  VerifiedWithinGrant'
      <4>1. verified \in DOMAIN records
        BY <3>1 DEF IndInv, TypeOK
      <4>2. Above'[verified] = Above[verified] /\ RootedOnce'
        BY <2>1, <4>1, WalksKept
      <4>3. RootOf(verified) \in Above[verified] /\ ParentOf(RootOf(verified)) = NoParent
        BY <4>1, RootIsFound DEF RootsFound, IndInv, Sound
      <4>4. RootsFound'
        BY <4>2, RootIsFound, PTL
      <4>5. PICK q : q = RootOf(verified)'
        OBVIOUS
      <4>6. q \in Above[verified] /\ records[q].token.parent = NoParent
        BY <2>1, <4>1, <4>2, <4>4, <4>5 DEF RootsFound, ParentOf, vars
      <4>7. q = RootOf(verified)
        BY <4>1, <4>3, <4>6 DEF IndInv, Sound, RootedOnce, ParentOf
      <4>8. QED
        BY <2>1, <4>2, <4>5, <4>7
           DEF VerifiedWithinGrant, CardValid, vars, IndInv
    <3>2. CASE verified = 0
      BY <2>1, <3>2 DEF VerifiedWithinGrant, vars
    <3>3. QED
      BY <3>1, <3>2
  <2>3. QED
    BY <2>1, <2>2, UntouchedInd DEF vars, IndInv, TypeOK
<1>7. QED
  BY <1>1, <1>2, <1>3, <1>4, <1>5, <1>6 DEF Next

(* The invariant every step of every call preserves.                       *)
THEOREM Inductive == Spec => []IndInv
BY InitInd, StepInd, PTL DEF Spec

(* Records, calls and cards are of their types.                            *)
THEOREM TypeCorrect == Spec => []TypeOK
BY Inductive, PTL DEF IndInv

(* A record narrows all those above it and there are no more of them than  *)
(* the root's max_redelegation_depth allows, for chains of any length.     *)
THEOREM StoredRecordsNarrow == Spec => []StoredNarrows
BY Inductive, PTL DEF IndInv

(* A finished revocation leaves a child active only if a creation had read *)
(* the parent before, for any number of overlapping calls.                 *)
THEOREM CascadesReachChildren == Spec => []CascadeReachesChildren
BY Inductive, PTL DEF IndInv

(* What the verify endpoint vouches for lies within the root's card, which *)
(* is usable, and no record of the chain has expired.                      *)
THEOREM VerifiedIsWithinGrant == Spec => []VerifiedWithinGrant
BY Inductive, PTL DEF IndInv
=============================================================================
