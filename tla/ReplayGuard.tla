----------------------------- MODULE ReplayGuard -----------------------------
(***************************************************************************)
(* Replay protection of delegation tokens under concurrent verification.   *)
(*                                                                         *)
(* Any number of threads call verify_delegation or verify_delegation_chain *)
(* with one shared InMemoryNonceRegistry.  A call reads the clock once, at *)
(* its start, makes every check with that reading, and only then marks the *)
(* nonces of its links one by one.  Each mark is atomic (the registry's    *)
(* lock); between the reading and a mark, and between two marks, other     *)
(* calls run and time passes.                                              *)
(*                                                                         *)
(* A definition marked "Defect" is a faulty variant of the one after it;   *)
(* no action uses it.  Put in the other's place, it breaks a property.     *)
(*                                                                         *)
(* A token stands for its registry key (delegator_card_id, nonce).  The    *)
(* chains presented here are the ones that pass the structural checks of   *)
(* verify_delegation_chain, which module Delegation models; a call to      *)
(* verify_delegation is a chain of one token.                              *)
(***************************************************************************)
EXTENDS Naturals, Sequences

CONSTANTS
  Call,       \* the calls ever made, each by some thread
  Token,      \* the tokens presented
  Exp,        \* the expiry of each token
  Chains,     \* the chains the calls present
  MaxClock,   \* bound: the clock stops here
  MaxClears,  \* bound: how often the host calls clear()
  NoCall      \* the marker of a nonce nobody has marked

ASSUME CallAssumption == NoCall \notin Call
ASSUME ExpAssumption == Exp \in [Token -> Nat]
ASSUME ChainsAssumption == Chains \subseteq Seq(Token) \ { <<>> }
ASSUME BoundsAssumption == MaxClock \in Nat /\ MaxClears \in Nat

VARIABLES
  clock,   \* the wall clock, datetime.now(timezone.utc)
  seen,    \* InMemoryNonceRegistry._seen, its keys (the value is Exp[t])
  phase,   \* where each call is
  now,     \* each call's reading of the clock: the local "current"
  chain,   \* the chain each call was given
  link,    \* the link each call marks next
  uses,    \* history: True results of check_and_mark since the last clear
  owner,   \* history: the call that last marked each nonce
  clears   \* history: how often the registry was cleared

vars == <<clock, seen, phase, now, chain, link, uses, owner, clears>>
callVars == <<phase, now, chain, link>>

Phases == {"idle", "marking", "accepted", "rejected"}

TypeOK ==
  /\ clock \in 0 .. MaxClock
  /\ seen \subseteq Token
  /\ phase \in [Call -> Phases]
  /\ now \in [Call -> Nat]
  /\ chain \in [Call -> Chains \cup { <<>> }]
  /\ link \in [Call -> Nat]
  /\ uses \in [Token -> Nat]
  /\ owner \in [Token -> Call \cup {NoCall}]
  /\ clears \in 0 .. MaxClears

Init ==
  /\ clock = 0
  /\ seen = {}
  /\ phase = [c \in Call |-> "idle"]
  /\ now = [c \in Call |-> 0]
  /\ chain = [c \in Call |-> <<>>]
  /\ link = [c \in Call |-> 1]
  /\ uses = [t \in Token |-> 0]
  /\ owner = [t \in Token |-> NoCall]
  /\ clears = 0

-----------------------------------------------------------------------------
(***************************************************************************)
(* A call's first part: read the clock and make every check that needs no  *)
(* registry.  Only the expiry check can fail here.                         *)
(***************************************************************************)
Expired(t, at) == at > Exp[t]

AnyExpired(ch, at) == \E i \in DOMAIN ch : Expired(ch[i], at)

Begin(c, ch) ==
  /\ phase[c] = "idle"
  /\ ~AnyExpired(ch, clock)
  /\ phase' = [phase EXCEPT ![c] = "marking"]
  /\ now' = [now EXCEPT ![c] = clock]
  /\ chain' = [chain EXCEPT ![c] = ch]
  /\ UNCHANGED <<clock, seen, link, uses, owner, clears>>

RejectExpired(c, ch) ==
  /\ phase[c] = "idle"
  /\ AnyExpired(ch, clock)
  /\ phase' = [phase EXCEPT ![c] = "rejected"]
  /\ now' = [now EXCEPT ![c] = clock]
  /\ chain' = [chain EXCEPT ![c] = ch]
  /\ UNCHANGED <<clock, seen, link, uses, owner, clears>>

(***************************************************************************)
(* check_and_mark, under the registry's lock, for the call's next link.    *)
(* The purge and the membership test use the call's reading of the clock.  *)
(***************************************************************************)
\* Defect: the purge drops a token in the very tick it expires.
UnpurgedTooFew(at) == {t \in seen : at < Exp[t]}

Unpurged(at) == {t \in seen : ~Expired(t, at)}

\* Defect: the chain is marked from the leaf up.
LeafFirst(c) == chain[c][Len(chain[c]) + 1 - link[c]]

RootFirst(c) == chain[c][link[c]]

MarkFresh(c) ==
  LET t == RootFirst(c) IN
  /\ phase[c] = "marking"
  /\ t \notin Unpurged(now[c])
  /\ seen' = Unpurged(now[c]) \cup {t}
  /\ uses' = [uses EXCEPT ![t] = @ + 1]
  /\ owner' = [owner EXCEPT ![t] = c]
  /\ link' = [link EXCEPT ![c] = @ + 1]
  /\ phase' = [phase EXCEPT ![c] =
                 IF link[c] = Len(chain[c]) THEN "accepted" ELSE "marking"]
  /\ UNCHANGED <<clock, now, chain, clears>>

MarkReplayed(c) ==
  LET t == RootFirst(c) IN
  /\ phase[c] = "marking"
  /\ t \in Unpurged(now[c])
  /\ seen' = Unpurged(now[c])
  /\ phase' = [phase EXCEPT ![c] = "rejected"]
  /\ UNCHANGED <<clock, now, chain, link, uses, owner, clears>>

Clear ==
  /\ clears < MaxClears
  /\ clears' = clears + 1
  /\ seen' = {}
  /\ uses' = [t \in Token |-> 0]
  /\ owner' = [t \in Token |-> NoCall]
  /\ UNCHANGED <<clock, callVars>>

Tick ==
  /\ clock < MaxClock
  /\ clock' = clock + 1
  /\ UNCHANGED <<seen, callVars, uses, owner, clears>>

Next ==
  \/ \E c \in Call, ch \in Chains : Begin(c, ch) \/ RejectExpired(c, ch)
  \/ \E c \in Call : MarkFresh(c) \/ MarkReplayed(c)
  \/ Clear
  \/ Tick

Spec == Init /\ [][Next]_vars

-----------------------------------------------------------------------------
(***************************************************************************)
(* Properties.                                                             *)
(***************************************************************************)

(* However calls interleave, however stale the clock a call purges with,   *)
(* check_and_mark answers True twice for one token only when the token has *)
(* expired in the meantime.                                                *)
AtMostOnceWhileLive == \A t \in Token : uses[t] > 1 => Expired(t, clock)

(* A chain is either accepted whole or leaves no live nonce burned: a call *)
(* that marks some links and is then told "replay_detected at link i" does *)
(* so only when the links it marked have expired (or the registry was      *)
(* cleared under it).  It needs RootedChains, and the TTL narrowing and    *)
(* root-first order of verify_delegation_chain that RootedChains records.  *)
NoPartialBurn ==
  clears = 0 =>
    \A t \in Token, c \in Call :
      owner[t] = c /\ phase[c] = "rejected" => Expired(t, clock)

\* Chains that start at a root delegation and follow parent_delegation_id:
\* a shared link means a shared root, no link occurs twice, expiries narrow.
RootedChains ==
  /\ \A ch1, ch2 \in Chains : \A i \in DOMAIN ch1, j \in DOMAIN ch2 :
       ch1[i] = ch2[j] => ch1[1] = ch2[1]
  /\ \A ch \in Chains : \A i, j \in DOMAIN ch :
       /\ i # j => ch[i] # ch[j]
       /\ i < j => Exp[ch[j]] <= Exp[ch[i]]

(***************************************************************************)
(* The inductive invariant behind both.  A used nonce stays in the         *)
(* registry until its token has expired by the wall clock, since no call   *)
(* purges with a reading that lies ahead of it; and a call that has begun  *)
(* to mark a chain still holds the chain's root, unless the root expired.  *)
(***************************************************************************)
(* No call's reading of the clock lies ahead of it.                        *)
ReadingsPast == \A c \in Call : now[c] <= clock

(* A nonce used since the last clear() is still held, or has expired.      *)
UsedIsSeen == \A t \in Token : uses[t] > 0 => t \in seen \/ Expired(t, clock)

(* A call that marks has a chain and a next link in it.                    *)
CallsWellFormed ==
  \A c \in Call :
    /\ phase[c] = "idle" => link[c] = 1
    /\ phase[c] # "idle" => chain[c] \in Chains
    /\ phase[c] = "marking" => link[c] \in DOMAIN chain[c]

(* Every held nonce was marked by a call as an earlier link of its chain.  *)
OwnersMarked ==
  \A t \in Token :
    /\ uses[t] > 0 <=> owner[t] # NoCall
    /\ t \in seen => owner[t] # NoCall
    /\ owner[t] # NoCall =>
         \E p \in DOMAIN chain[owner[t]] :
           p < link[owner[t]] /\ chain[owner[t]][p] = t

(* A call past its chain's root still holds the root, or the root expired. *)
RootHeld ==
  clears = 0 =>
    \A c \in Call :
      link[c] > 1 => owner[chain[c][1]] = c \/ Expired(chain[c][1], clock)

(* What every step of every call preserves, in the registry and in the     *)
(* record of who marked which nonce.                                       *)
IndInv ==
  /\ TypeOK
  /\ ReadingsPast
  /\ UsedIsSeen
  /\ CallsWellFormed
  /\ OwnersMarked
  /\ RootHeld

Promise == INSTANCE UseOnce

(* Seen from outside, the registry does what module UseOnce promises: each *)
(* True of check_and_mark is a permitted use, each clear() a Forget.       *)
PromiseKept == Promise!Spec
=============================================================================
