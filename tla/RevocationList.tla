--------------------------- MODULE RevocationList ---------------------------
(***************************************************************************)
(* The signed revocation list: GET /revocations, which answers from an     *)
(* in-process cache, GET /revocations/{agent_id}, which reads the records, *)
(* and RevocationCache.is_revoked in a client whose threads share one      *)
(* cache, over the registry of AgentRegistry.                              *)
(*                                                                         *)
(* A request may take up to RequestTimeout ticks (then requests.get        *)
(* raises), so that two threads' responses arrive in either order.  A      *)
(* list arrives as it was signed or is refused, which is a failed request. *)
(* A refresh that raises answers nothing and leaves the cache alone.       *)
(***************************************************************************)
EXTENDS AgentRegistry

CONSTANTS
  Thread,               \* the client's threads
  Watched,              \* bound: the agents they ask about
  CRL_CACHE_SECONDS,    \* how long the server answers with the same list
  ListTTL,              \* ttl_minutes: how long a list is valid
  TTL,                  \* ttl_seconds: how long the client caches a list
  RequestTimeout        \* the timeout given to requests.get

ASSUME RevocationAssumption ==
  /\ CRL_CACHE_SECONDS \in Nat /\ ListTTL \in Nat
  /\ TTL \in Nat /\ RequestTimeout \in Nat

VARIABLES
  crl,      \* the server's list, and until when it is served again
  cache,    \* the client's revoked ids, and until when it trusts them
  threads,  \* where each thread's is_revoked call stands
  reply     \* what the last step's is_revoked or check_revocation answered

listVars == <<crl, cache, threads, reply>>
vars == <<registryVars, listVars>>

NoReply == [agent |-> None, revoked |-> FALSE]

CRL == [revoked : SUBSET (1 .. MaxCards), valid_until : Nat]

ThreadState ==
  [at : {"idle"}]
  \cup [at : {"asking"}, agent : 1 .. MaxCards, sent : 0 .. MaxClock]
  \cup [at : {"receiving"}, agent : 1 .. MaxCards, sent : 0 .. MaxClock, list : CRL]
  \cup [at : {"refreshed"}, agent : 1 .. MaxCards]

TypeOK ==
  /\ RegistryTypeOK
  /\ crl.list \in CRL /\ crl.until \in Nat
  /\ cache \in CRL
  /\ threads \in [Thread -> ThreadState]
  /\ reply \in [agent : 0 .. MaxCards, revoked : BOOLEAN]

Nothing == [revoked |-> {}, valid_until |-> 0]

Init ==
  /\ RegistryInit
  /\ crl = [list |-> Nothing, until |-> 0]
  /\ cache = Nothing
  /\ threads = [t \in Thread |-> [at |-> "idle"]]
  /\ reply = NoReply

-----------------------------------------------------------------------------
Revoked == {i \in DOMAIN cards : cards[i].status = "revoked"}

\* _build_revocation_list
Built == [revoked |-> Revoked, valid_until |-> clock + ListTTL]

Lesser(m, n) == IF m <= n THEN m ELSE n

Contains(list, agent) == agent \in list.revoked

Now(t, state) == threads' = [threads EXCEPT ![t] = state]

\* is_revoked answers at once while time.time() <= _valid_until.  The
\* initial cache is of the epoch, long past.
Stale == cache = Nothing \/ clock > cache.valid_until

AnswerFromCache(t, agent) ==
  /\ threads[t].at = "idle"
  /\ ~Stale
  /\ reply' = [agent |-> agent, revoked |-> Contains(cache, agent)]
  /\ NoAnswers
  /\ UNCHANGED <<clock, cards, calls, torn, crl, cache, threads>>

Quietly ==
  /\ reply' = NoReply
  /\ NoAnswers
  /\ UNCHANGED <<clock, cards, calls, torn>>

AskForList(t, agent) ==
  /\ threads[t].at = "idle"
  /\ Stale
  /\ Now(t, [at |-> "asking", agent |-> agent, sent |-> clock])
  /\ Quietly /\ UNCHANGED <<crl, cache>>

\* get_revocation_list: the list of the last CRL_CACHE_SECONDS, or a new one.
ServeList(t) ==
  LET fresh == clock < crl.until
      list == IF fresh THEN crl.list ELSE Built
  IN
  /\ threads[t].at = "asking"
  /\ Now(t, [at |-> "receiving", agent |-> threads[t].agent,
             sent |-> threads[t].sent, list |-> list])
  /\ crl' = IF fresh THEN crl
            ELSE [list |-> list, until |-> clock + CRL_CACHE_SECONDS]
  /\ Quietly /\ UNCHANGED cache

\* Defect: the server's valid_until is taken, however far away.
TrustedUntilServer(list) == list.valid_until

TrustedUntil(list) == Lesser(list.valid_until, clock + TTL)

\* refresh: whichever list arrives is applied.
ReceiveList(t) ==
  /\ threads[t].at = "receiving"
  /\ clock <= threads[t].sent + RequestTimeout
  /\ cache' = [revoked |-> threads[t].list.revoked,
               valid_until |-> TrustedUntil(threads[t].list)]
  /\ Now(t, [at |-> "refreshed", agent |-> threads[t].agent])
  /\ Quietly /\ UNCHANGED crl

RefreshFails(t) ==
  /\ threads[t].at \in {"asking", "receiving"}
  /\ Now(t, [at |-> "idle"])
  /\ Quietly /\ UNCHANGED <<crl, cache>>

\* By now another thread may have put an older list in the cache.
AnswerRefreshed(t) ==
  /\ threads[t].at = "refreshed"
  /\ reply' = [agent |-> threads[t].agent,
               revoked |-> Contains(cache, threads[t].agent)]
  /\ Now(t, [at |-> "idle"])
  /\ NoAnswers
  /\ UNCHANGED <<clock, cards, calls, torn, crl, cache>>

\* GET /revocations/{agent_id} goes past both caches.
check_revocation(t, agent) ==
  /\ threads[t].at = "idle"
  /\ reply' = [agent |-> agent, revoked |-> agent \in Revoked]
  /\ NoAnswers
  /\ UNCHANGED <<clock, cards, calls, torn, crl, cache, threads>>

\* A thread does not sleep between the end of refresh() and its answer.
Tick ==
  /\ RegistryTick
  /\ \A t \in Thread : threads[t].at # "refreshed"
  /\ reply' = NoReply
  /\ UNCHANGED <<crl, cache, threads>>

Next ==
  \/ RegistryStep /\ reply' = NoReply /\ UNCHANGED <<crl, cache, threads>>
  \/ \E t \in Thread :
       \/ \E i \in Watched \cap DOMAIN cards :
            \/ AnswerFromCache(t, i) \/ AskForList(t, i)
            \/ check_revocation(t, i)
       \/ ServeList(t) \/ ReceiveList(t) \/ RefreshFails(t)
       \/ AnswerRefreshed(t)
  \/ Tick

Spec == Init /\ [][Next]_vars

-----------------------------------------------------------------------------
(* The ages of the two caches add up, and a list may overtake a newer one; *)
(* yet a client that answers "not revoked" for a card that is revoked is   *)
(* late by no more than the server's cache, the request and its own TTL    *)
(* together.                                                               *)
StalenessBounded ==
  reply.agent # None /\ ~reply.revoked /\ cards[reply.agent].status = "revoked"
    => clock - cards[reply.agent].revoked_at <=
         CRL_CACHE_SECONDS + RequestTimeout + TTL
=============================================================================
