------------------------- MODULE DelegationRecords -------------------------
(***************************************************************************)
(* ARIA's delegation records: create, verify and revoke, as coroutines     *)
(* that give way at every await of the database, over the delegation       *)
(* library.  The endpoints pass it no signature function.  The library of  *)
(* src/v030 then looks at no signature, and is the one modelled here; the  *)
(* strict one of src/carapace refuses every token, and with it nothing is  *)
(* ever recorded (Strict).                                                 *)
(*                                                                         *)
(* A record's id is its position in records.  The database (external)      *)
(* applies each call at once and never deletes.  A handler that raises,    *)
(* for an HTTP error or a failed await, ends where it stands.              *)
(***************************************************************************)
EXTENDS Capabilities, FiniteSets

CONSTANTS
  Card,           \* the agents' cards
  CardCaps,       \* the capability ids each card declares
  CardExp,        \* each card's expires_at
  Requests,       \* the tokens callers send, but for parent_delegation_id
  Strict,         \* whether the library refuses to skip signatures
  CreateCall,     \* POST /delegations calls in flight together
  RevokeCall,     \* POST /delegations/{id}/revoke calls in flight together
  MaxRecords,     \* bound: how many records are created
  MaxClock        \* bound: the clock stops here

ASSUME RecordsAssumption ==
  /\ CardCaps \in [Card -> SUBSET Capability]
  /\ CardExp \in [Card -> Nat]
  /\ Requests \subseteq [delegator : Card, delegate : Card,
                        caps : SUBSET Capability, exp : Nat, depth : Nat]
  /\ Strict \in BOOLEAN
  /\ MaxRecords \in Nat /\ MaxClock \in Nat

VARIABLES
  clock,     \* the wall clock
  status,    \* each card's status in the registry
  records,   \* the delegation records
  creates,   \* where each create call stands
  revokes,   \* where each revoke call stands
  finished,  \* history: records whose revocation came to its end
  slipped,   \* history: records whose parent was revoked after it was checked
  verified   \* the record the last step's verify call vouched for

vars == <<clock, status, records, creates, revokes, finished, slipped, verified>>

NoParent == 0

Token == [delegator : Card, delegate : Card, caps : SUBSET Capability,
          exp : Nat, parent : Nat, depth : Nat]

Record == [token : Token, status : {"active", "revoked"}]

CardStatus == {"active", "revoked", "superseded"}

CreateState ==
  [at : {"idle"}] \cup [at : {"read"}, token : Token, card : CardStatus]
    \cup [at : {"checked", "allowed"}, token : Token, parent : {"none", "active"}]

RevokeState ==
  [at : {"idle"}] \cup [at : {"authorized", "updated"}, id : DOMAIN records]
    \cup [at : {"cascading"}, id : DOMAIN records, left : SUBSET DOMAIN records]

TypeOK ==
  /\ clock \in 0 .. MaxClock
  /\ status \in [Card -> CardStatus]
  /\ records \in Seq(Record) /\ Len(records) <= MaxRecords
  /\ creates \in [CreateCall -> CreateState]
  /\ revokes \in [RevokeCall -> RevokeState]
  /\ finished \cup slipped \subseteq DOMAIN records
  /\ verified \in {0} \cup DOMAIN records

Idle == [at |-> "idle"]

Init ==
  /\ clock = 0
  /\ status = [c \in Card |-> "active"]
  /\ records = <<>>
  /\ creates = [c \in CreateCall |-> Idle]
  /\ revokes = [v \in RevokeCall |-> Idle]
  /\ finished = {}
  /\ slipped = {}
  /\ verified = 0

-----------------------------------------------------------------------------
(***************************************************************************)
(* verify_delegation and verify_delegation_chain of src/v030, without a    *)
(* signature function.                                                     *)
(***************************************************************************)
\* A card as a handler read it: its status may have changed since.
CardValid(card, cardStatus) ==
  /\ clock <= CardExp[card]
  /\ cardStatus \notin {"revoked", "superseded"}

TokenValid(t, card, cardStatus) ==
  /\ ~Strict
  /\ clock <= t.exp
  /\ CardValid(card, cardStatus)
  /\ t.delegator = card
  /\ ValidSubset(t.caps, CardCaps[card])

\* Defect: a link's expiry is compared with the parent's, not with the clock.
LinkValidTimeless(prev, t) ==
  /\ prev.delegate = t.delegator
  /\ ValidSubset(t.caps, prev.caps)
  /\ t.exp <= prev.exp
  /\ prev.depth > 0

LinkValid(prev, t) ==
  /\ prev.delegate = t.delegator
  /\ ValidSubset(t.caps, prev.caps)
  /\ t.exp <= prev.exp
  /\ prev.depth > 0
  /\ clock <= t.exp

\* A record and those above it: what the verify endpoint walks.
Above[i \in {NoParent} \cup DOMAIN records] ==
  IF i = NoParent THEN {}
  ELSE {i} \cup Above[records[i].token.parent]

RootOf(i) ==
  CHOOSE r \in Above[i] : records[r].token.parent = NoParent

\* The chain is walked by parent_delegation_id, so that the library's own
\* comparison of it, link by link, always succeeds.
ChainValid(i) ==
  LET root == records[RootOf(i)].token IN
  /\ TokenValid(root, root.delegator, status[root.delegator])
  /\ \A k \in Above[i] :
       LET t == records[k].token IN
       t.parent # NoParent => LinkValid(records[t.parent].token, t)

-----------------------------------------------------------------------------
(***************************************************************************)
(* create_delegation_record: reads the delegator's card (and the           *)
(* delegate's, which must exist), verifies the token against what it read, *)
(* reads the parent record, and creates the new one.                       *)
(***************************************************************************)
Step(c, state) == creates' = [creates EXCEPT ![c] = state]

ReadCards(c, t) ==
  /\ creates[c].at = "idle"
  /\ Len(records) < MaxRecords
  /\ Step(c, [at |-> "read", token |-> t, card |-> status[t.delegator]])
  /\ verified' = 0
  /\ UNCHANGED <<clock, status, records, revokes, finished, slipped>>

VerifyToken(c) ==
  LET t == creates[c].token IN
  /\ creates[c].at = "read"
  /\ TokenValid(t, t.delegator, creates[c].card)
  /\ Step(c, [at |-> IF t.parent = NoParent THEN "allowed" ELSE "checked",
              token |-> t, parent |-> "none"])
  /\ verified' = 0
  /\ UNCHANGED <<clock, status, records, revokes, finished, slipped>>

\* Defect: the parent's status is not looked at.
ParentUsableRevoked(parent) == TRUE

ParentUsable(parent) == parent.status = "active"

\* Defect: off by one.
DepthLeftEqual(t, parent) == t.depth <= parent.token.depth

DepthLeft(t, parent) == t.depth < parent.token.depth

\* Neither the parent's expiry nor its delegate is compared here.
ReadParent(c) ==
  LET t == creates[c].token
      parent == records[t.parent]
  IN
  /\ creates[c].at = "checked"
  /\ ParentUsable(parent)
  /\ ValidSubset(t.caps, parent.token.caps)
  /\ DepthLeft(t, parent)
  /\ Step(c, [at |-> "allowed", token |-> t, parent |-> parent.status])
  /\ verified' = 0
  /\ UNCHANGED <<clock, status, records, revokes, finished, slipped>>

CreateRecord(c) ==
  LET t == creates[c].token IN
  /\ creates[c].at = "allowed"
  /\ Len(records) < MaxRecords
  /\ records' = Append(records, [token |-> t, status |-> "active"])
  /\ slipped' = IF /\ creates[c].parent = "active"
                   /\ records[t.parent].status = "revoked"
                THEN slipped \cup {Len(records) + 1} ELSE slipped
  /\ Step(c, Idle)
  /\ verified' = 0
  /\ UNCHANGED <<clock, status, revokes, finished>>

GiveUpCreate(c) ==
  /\ creates[c].at # "idle"
  /\ Step(c, Idle)
  /\ verified' = 0
  /\ UNCHANGED <<clock, status, records, revokes, finished, slipped>>

-----------------------------------------------------------------------------
(***************************************************************************)
(* revoke_delegation: marks the record, lists its children as they are     *)
(* then, and marks them one by one.  Their own children are not touched.   *)
(***************************************************************************)
Go(v, state) == revokes' = [revokes EXCEPT ![v] = state]

AuthorizeRevoke(v, i) ==
  /\ revokes[v].at = "idle"
  /\ Go(v, [at |-> "authorized", id |-> i])
  /\ verified' = 0
  /\ UNCHANGED <<clock, status, records, creates, finished, slipped>>

\* Defect: a status the other handlers do not know is written.
MarkInactive(i) == [records EXCEPT ![i].status = "inactive"]

MarkRevoked(i) == [records EXCEPT ![i].status = "revoked"]

UpdateStatus(v) ==
  /\ revokes[v].at = "authorized"
  /\ records' = MarkRevoked(revokes[v].id)
  /\ Go(v, [at |-> "updated", id |-> revokes[v].id])
  /\ verified' = 0
  /\ UNCHANGED <<clock, status, creates, finished, slipped>>

ChildrenOf(i) == {k \in DOMAIN records : records[k].token.parent = i}

ListChildren(v) ==
  /\ revokes[v].at = "updated"
  /\ Go(v, [at |-> "cascading", id |-> revokes[v].id,
            left |-> ChildrenOf(revokes[v].id)])
  /\ verified' = 0
  /\ UNCHANGED <<clock, status, records, creates, finished, slipped>>

RevokeChild(v, k) ==
  /\ revokes[v].at = "cascading"
  /\ k \in revokes[v].left
  /\ records' = MarkRevoked(k)
  /\ Go(v, [revokes[v] EXCEPT !.left = @ \ {k}])
  /\ verified' = 0
  /\ UNCHANGED <<clock, status, creates, finished, slipped>>

FinishRevoke(v) ==
  /\ revokes[v].at = "cascading" /\ revokes[v].left = {}
  /\ finished' = finished \cup {revokes[v].id}
  /\ Go(v, Idle)
  /\ verified' = 0
  /\ UNCHANGED <<clock, status, records, creates, slipped>>

RevokeFails(v) ==
  /\ revokes[v].at # "idle"
  /\ Go(v, Idle)
  /\ verified' = 0
  /\ UNCHANGED <<clock, status, records, creates, finished, slipped>>

-----------------------------------------------------------------------------
\* What a record's walk reads never changes but for its status, which the
\* walk ignores; so the walk is one step, at the read of the root card.
VerifyRecord(i) ==
  /\ ChainValid(i)
  /\ verified' = i
  /\ UNCHANGED <<clock, status, records, creates, revokes, finished, slipped>>

\* External: the agent registry revokes or supersedes a card.
Retire(c, to) ==
  /\ status[c] = "active"
  /\ status' = [status EXCEPT ![c] = to]
  /\ verified' = 0
  /\ UNCHANGED <<clock, records, creates, revokes, finished, slipped>>

Tick ==
  /\ clock < MaxClock
  /\ clock' = clock + 1
  /\ verified' = 0
  /\ UNCHANGED <<status, records, creates, revokes, finished, slipped>>

Under(req, parent) ==
  [delegator |-> req.delegator, delegate |-> req.delegate, caps |-> req.caps,
   exp |-> req.exp, parent |-> parent, depth |-> req.depth]

Next ==
  \/ \E c \in CreateCall :
       \/ \E req \in Requests, p \in {NoParent} \cup DOMAIN records :
            ReadCards(c, Under(req, p))
       \/ VerifyToken(c) \/ ReadParent(c) \/ CreateRecord(c) \/ GiveUpCreate(c)
  \/ \E v \in RevokeCall :
       \/ \E i \in DOMAIN records : AuthorizeRevoke(v, i) \/ RevokeChild(v, i)
       \/ UpdateStatus(v) \/ ListChildren(v) \/ FinishRevoke(v) \/ RevokeFails(v)
  \/ \E i \in DOMAIN records : VerifyRecord(i)
  \/ \E c \in Card, to \in {"revoked", "superseded"} : Retire(c, to)
  \/ Tick

Spec == Init /\ [][Next]_vars

-----------------------------------------------------------------------------
(* "Revoke a delegation and all child delegations": once a revocation has  *)
(* come to its end, a child that is still active was created by a call     *)
(* that had found the parent active before.  No other race, and no order   *)
(* of two revocations, leaves one.  (Grandchildren stay active.)           *)
CascadeReachesChildren ==
  \A k \in DOMAIN records :
    records[k].token.parent \in finished /\ records[k].status = "active"
      => k \in slipped

(* Every stored record narrows all the records above it, and there are at  *)
(* most as many below a root as its max_redelegation_depth allows, though  *)
(* create_delegation_record compares it with its parent only.              *)
StoredNarrows ==
  \A i \in DOMAIN records : \A a \in Above[i] \ {i} :
    /\ a < i
    /\ ValidSubset(records[i].token.caps, records[a].token.caps)
    /\ records[i].token.depth + Cardinality(Above[i] \ Above[a])
         <= records[a].token.depth

(* When the verify endpoint vouches for a record, the effective            *)
(* capabilities it reports lie within the card the chain starts from, that *)
(* card is neither expired nor retired, and no record above has expired,   *)
(* although the endpoint that stored it compared no parent's expiry.       *)
VerifiedWithinGrant ==
  verified # 0 =>
    LET root == records[RootOf(verified)].token.delegator IN
    /\ ValidSubset(records[verified].token.caps, CardCaps[root])
    /\ CardValid(root, status[root])
    /\ \A a \in Above[verified] : clock <= records[a].token.exp
=============================================================================
