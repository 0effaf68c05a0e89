------------------------------ MODULE Receipts ------------------------------
(***************************************************************************)
(* Receipts of tool calls: create_receipt, post_receipt over a network     *)
(* that loses and delays, and the server (external, as RECEIPTS_V2.md has  *)
(* it) that stores one receipt once.                                       *)
(*                                                                         *)
(* Of the FIELDS of a receipt the model has its id, the call it reports    *)
(* (tool_id, args_hash, result_hash), its status and its key.  call_hash   *)
(* is the fields it was computed from; a signature is the key and the hash *)
(* it was made with, and only who holds the key can make it.               *)
(***************************************************************************)
EXTENDS Naturals, FiniteSets

CONSTANTS
  ToolCall,   \* the calls of tools
  AgentKey,   \* the agent's registered key
  OtherKey,   \* a key of somebody else
  Null,       \* no key, no signature, no receipt
  MaxPosts    \* bound: how often each receipt is posted

ASSUME ReceiptsAssumption ==
  /\ AgentKey # OtherKey /\ AgentKey # Null /\ OtherKey # Null
  /\ MaxPosts \in Nat

VARIABLES
  receipts,   \* the receipt created of each call
  posts,      \* how often each was posted, and whether a post waits
  sent,       \* the posts under way, those the sender has given up included
  rows,       \* the receipts of version 2 on the server
  v2,         \* whether the server knows that version
  acked       \* the calls of whose receipt post_receipt has answered True

receiptVars == <<receipts, posts, sent, rows, v2, acked>>

FIELDS(r) ==
  [receipt_id |-> r.receipt_id, call |-> r.call, status |-> r.status,
   public_key |-> r.public_key]

Sign(key, hash) == [by |-> key, hash |-> hash]

create_receipt(call, status, key) ==
  LET fields == [receipt_id |-> <<call, 0>>, call |-> call, status |-> status,
                 public_key |-> key] IN
  [receipt_id |-> fields.receipt_id, call |-> call, status |-> status,
   public_key |-> key, call_hash |-> fields,
   signature |-> IF key = Null THEN Null ELSE Sign(key, fields)]

\* receipt_payload raises otherwise.
WellFormed(r) == (r.signature = Null) <=> (r.public_key = Null)

\* Defect: as before version 2, the hash binds the call only.
HashHoldsOfCall(r) == r.call_hash.call = r.call

HashHolds(r) == r.call_hash = FIELDS(r)

validate_receipt(r, pinned) ==
  /\ WellFormed(r)
  /\ HashHolds(r)
  /\ pinned # Null => pinned = r.public_key
  /\ r.signature # Null => r.signature = Sign(r.public_key, r.call_hash)

verify_receipt(r, pinned) == r.signature # Null /\ validate_receipt(r, pinned)

Expected(r) == IF r.signature # Null THEN "verified_v2" ELSE "unsigned_v2"

-----------------------------------------------------------------------------
ReceiptsTypeOK ==
  /\ DOMAIN receipts = ToolCall
  /\ \A c \in ToolCall : receipts[c] = Null \/ validate_receipt(receipts[c], Null)
  /\ posts \in [ToolCall -> [made : 0 .. MaxPosts, waiting : BOOLEAN]]
  /\ \A p \in sent : p.call \in ToolCall /\ p.n \in 1 .. posts[p.call].made
  /\ v2 \in BOOLEAN
  /\ acked \subseteq ToolCall

ReceiptsInit ==
  /\ receipts = [c \in ToolCall |-> Null]
  /\ posts = [c \in ToolCall |-> [made |-> 0, waiting |-> FALSE]]
  /\ sent = {}
  /\ rows = {}
  /\ v2 \in BOOLEAN
  /\ acked = {}

\* create_receipt validates what it returns.
Created(call, status, key) ==
  LET r == create_receipt(call, status, key)
  IN  validate_receipt(r, Null) /\ receipts' = [receipts EXCEPT ![call] = r]

\* Defect: a retry posts a receipt made anew.
ToPostAnew(c) == [receipts[c] EXCEPT !.receipt_id = <<c, posts[c].made>>]

\* "Persist and retry this same object."
ToPost(c) == receipts[c]

Post(c) ==
  /\ receipts[c] # Null /\ c \notin acked
  /\ ~posts[c].waiting /\ posts[c].made < MaxPosts
  /\ posts' = [posts EXCEPT ![c] = [made |-> @.made + 1, waiting |-> TRUE]]
  /\ sent' = sent \cup
       {[call |-> c, n |-> posts[c].made + 1, receipt |-> ToPost(c)]}
  /\ UNCHANGED <<receipts, rows, v2, acked>>

\* What the answer to a post is True for.
Acknowledged(reply, r) == reply.ok /\ reply.verification_status = Expected(r)

Waits(p) == posts[p.call].waiting /\ posts[p.call].made = p.n

\* The sender, if it still waits, has the reply; posting returns.
Reply(p, reply) ==
  /\ acked' = IF Waits(p) /\ Acknowledged(reply, p.receipt)
              THEN acked \cup {p.call} ELSE acked
  /\ posts' = IF Waits(p) THEN [posts EXCEPT ![p.call].waiting = FALSE]
              ELSE posts

\* External: stored unless a receipt with its id is there, and answered for.
\* A server of before version 2 answers without a verification status.
Ingest(p) ==
  /\ p \in sent
  /\ sent' = sent \ {p}
  /\ rows' = IF v2 /\ \A row \in rows : row.receipt_id # p.receipt.receipt_id
             THEN rows \cup {p.receipt} ELSE rows
  /\ Reply(p, [ok |-> TRUE,
               verification_status |-> IF v2 THEN Expected(p.receipt) ELSE "none"])
  /\ UNCHANGED <<receipts, v2>>

\* External: refused, or an answer that is no answer.
Refuse(p) ==
  /\ p \in sent
  /\ sent' = sent \ {p}
  /\ Reply(p, [ok |-> FALSE, verification_status |-> "none"])
  /\ UNCHANGED <<receipts, rows, v2>>

\* The timeout, or any other exception; the request may still arrive.
GiveUp(c) ==
  /\ posts[c].waiting
  /\ posts' = [posts EXCEPT ![c].waiting = FALSE]
  /\ UNCHANGED <<receipts, sent, rows, v2, acked>>

\* External: the server is upgraded, or rolled back.
Redeploy ==
  /\ v2' = ~v2
  /\ UNCHANGED <<receipts, posts, sent, rows, acked>>

ReceiptStep ==
  \/ \E c \in ToolCall : Post(c) \/ GiveUp(c)
  \/ \E p \in sent : Ingest(p) \/ Refuse(p)
  \/ Redeploy

-----------------------------------------------------------------------------
(* What is on the server is the Evidence the receipts promise: retries and *)
(* late arrivals put a call on record once, and post_receipt answers True  *)
(* only of a call on record, whatever server it reaches.                   *)
Promise == INSTANCE Evidence WITH
  Call <- ToolCall,
  records <- [c \in ToolCall |-> Cardinality({row \in rows : row.call = c})],
  acknowledged <- acked

EvidenceKept == Promise!Spec

\* What somebody without the agent's key can make of a receipt.
Altered(r) ==
  {[receipt_id |-> r.receipt_id, call |-> c, status |-> s, public_key |-> k,
    call_hash |-> r.call_hash, signature |-> r.signature] :
     c \in ToolCall, s \in {"ok", "error"}, k \in {r.public_key, OtherKey, Null}}

Rehashed(r) ==
  UNION {{a, [a EXCEPT !.call_hash = FIELDS(a)]} : a \in Altered(r)}

Forgeries(r) ==
  UNION {{h, [h EXCEPT !.signature = Null],
          [h EXCEPT !.signature = Sign(OtherKey, h.call_hash)]} :
           h \in Rehashed(r)}

(* "v2 signs a hash of the complete canonical envelope": under the agent's *)
(* pinned key nothing verifies but what the agent created.                 *)
VerifiedIsIssued ==
  \A c \in ToolCall :
    receipts[c] # Null =>
      \A f \in Forgeries(receipts[c]) :
        verify_receipt(f, AgentKey) => f = receipts[c]
=============================================================================
