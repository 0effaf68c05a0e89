------------------------------ MODULE AsyncLog ------------------------------
(***************************************************************************)
(* The TypeScript SDK's epistemic log, whose calls overlap.                *)
(*                                                                         *)
(* record() and verifyIntegrity() are async.  They give way at every       *)
(* await, and since what they await is already settled, or settles in the  *)
(* next turn, each await costs exactly one trip through the event loop's   *)
(* queue of microtasks, which is first in, first out.  A turn runs one     *)
(* call from one await to the next and nothing interrupts it.  The host's  *)
(* own code may start a call at any moment between two turns.              *)
(*                                                                         *)
(* A call's stage is the await it waits in.  latestHash() is part of the   *)
(* call of record() that awaits it: "latestInit" is its own await, and     *)
(* "latestHash" that of its caller.                                        *)
(*                                                                         *)
(* Nobody alters the entries of a log in memory, so the hashes recomputed  *)
(* by verifyIntegrity() are as recorded; only their awaits matter here.    *)
(***************************************************************************)
EXTENDS HashChain

CONSTANTS
  Recorder,  \* the calls of record()
  Verifier,  \* the calls of verifyIntegrity()
  Said       \* what each call of record() records

Call == Recorder \cup Verifier

ASSUME CallAssumption == Recorder \cap Verifier = {}

VARIABLES
  ready,     \* the microtask queue: the calls whose await is over
  stage,     \* the await each call is in
  sequence,  \* local to record(): the entry's sequence number
  prevHash,  \* local to record(): the entry's prev_hash
  position,  \* local to verifyIntegrity(): the entry being checked
  valid,     \* what each call of verifyIntegrity() answered
  entries,   \* EpistemicLog._entries
  started,   \* history: the calls of record(), in the order they were made
  before     \* history: how many entries there were when each call was made

vars == <<ready, stage, sequence, prevHash, position, valid, entries,
          started, before>>
recording == <<sequence, prevHash, entries>>
verifying == <<position, valid>>
history == <<started, before>>

Stages == {"idle", "ensureInit", "latestInit", "latestHash", "dataHash",
           "entryHash", "done"}

Hash == Seq({Said[c] : c \in Recorder})

EpistemicEntry ==
  [by : Recorder, sequence : Nat, prev_hash : Hash, entry_hash : Hash]

TypeOK ==
  /\ ready \in Seq(Call)
  /\ stage \in [Call -> Stages]
  /\ sequence \in [Recorder -> Nat]
  /\ prevHash \in [Recorder -> Hash]
  /\ position \in [Verifier -> Nat]
  /\ valid \in [Verifier -> BOOLEAN]
  /\ entries \in Seq(EpistemicEntry)
  /\ started \in Seq(Recorder)
  /\ before \in [Call -> Nat]

Init ==
  /\ ready = <<>>
  /\ stage = [c \in Call |-> "idle"]
  /\ sequence = [c \in Recorder |-> 0]
  /\ prevHash = [c \in Recorder |-> GENESIS_HASH]
  /\ position = [v \in Verifier |-> 1]
  /\ valid = [v \in Verifier |-> FALSE]
  /\ entries = <<>>
  /\ started = <<>>
  /\ before = [c \in Call |-> 0]

-----------------------------------------------------------------------------
\* Both methods begin with "await this.ensureInit()".
Start(c) ==
  /\ stage[c] = "idle"
  /\ stage' = [stage EXCEPT ![c] = "ensureInit"]
  /\ ready' = Append(ready, c)
  /\ started' = IF c \in Recorder THEN Append(started, c) ELSE started
  /\ before' = [before EXCEPT ![c] = Len(entries)]
  /\ UNCHANGED <<recording, verifying>>

\* It is the call's turn, at the given await.
Turn(c, at) ==
  /\ ready # <<>>
  /\ Head(ready) = c
  /\ stage[c] = at
  /\ UNCHANGED history

Await(c, next) ==
  /\ stage' = [stage EXCEPT ![c] = next]
  /\ ready' = Append(Tail(ready), c)

Return(c) ==
  /\ stage' = [stage EXCEPT ![c] = "done"]
  /\ ready' = Tail(ready)

(***************************************************************************)
(* record().                                                               *)
(***************************************************************************)
ReadLength(c) ==
  /\ Turn(c, "ensureInit")
  /\ sequence' = [sequence EXCEPT ![c] = Len(entries) + 1]
  /\ Await(c, "latestInit")
  /\ UNCHANGED <<prevHash, entries, verifying>>

ReadLatestHash(c) ==
  /\ Turn(c, "latestInit")
  /\ prevHash' = [prevHash EXCEPT ![c] = LatestHash(entries)]
  /\ Await(c, "latestHash")
  /\ UNCHANGED <<sequence, entries, verifying>>

\* Defect: content that was recorded before is not hashed again.
FirstHashMemoised(c) ==
  IF \E k \in DOMAIN entries : Said[entries[k].by] = Said[c]
  THEN "entryHash" ELSE "dataHash"

FirstHash(c) == "dataHash"

HashData(c) ==
  /\ Turn(c, "latestHash")
  /\ Await(c, FirstHash(c))
  /\ UNCHANGED <<recording, verifying>>

HashEntry(c) ==
  /\ Turn(c, "dataHash")
  /\ Await(c, "entryHash")
  /\ UNCHANGED <<recording, verifying>>

\* Defect: the newest entry comes first.
Unshifted(entry) == <<entry>> \o entries

Pushed(entry) == Append(entries, entry)

Push(c) ==
  /\ Turn(c, "entryHash")
  /\ entries' = Pushed([by |-> c, sequence |-> sequence[c],
                        prev_hash |-> prevHash[c],
                        entry_hash |-> ComputeEntryHash(Said[c], prevHash[c])])
  /\ Return(c)
  /\ UNCHANGED <<sequence, prevHash, verifying>>

(***************************************************************************)
(* verifyIntegrity().  Its loop runs over the live array, so it also meets *)
(* entries that are pushed while it awaits.                                *)
(***************************************************************************)
\* Defect: it runs over a copy of the array.
AtEndOfCopy(v, k) == k > before[v]

AtEnd(v, k) == k > Len(entries)

\* From the head of the loop to the next await, or to the answer.
Visit(v, k) ==
  /\ position' = [position EXCEPT ![v] = k]
  /\ valid' = [valid EXCEPT ![v] = AtEnd(v, k)]
  /\ IF ~AtEnd(v, k) /\ Linked(entries, k)
     THEN Await(v, "dataHash")
     ELSE Return(v)

VisitFirst(v) ==
  /\ Turn(v, "ensureInit")
  /\ Visit(v, 1)
  /\ UNCHANGED recording

RehashData(v) ==
  /\ Turn(v, "dataHash")
  /\ Await(v, "entryHash")
  /\ UNCHANGED <<recording, verifying>>

\* Defect: it stays at the same entry.
SameEntry(v) == position[v]

NextEntry(v) == position[v] + 1

VisitNext(v) ==
  /\ Turn(v, "entryHash")
  /\ Visit(v, NextEntry(v))
  /\ UNCHANGED recording

RunCall ==
  \/ \E c \in Recorder :
       \/ ReadLength(c)
       \/ ReadLatestHash(c)
       \/ HashData(c)
       \/ HashEntry(c)
       \/ Push(c)
  \/ \E v \in Verifier :
       \/ VisitFirst(v)
       \/ RehashData(v)
       \/ VisitNext(v)

Next == RunCall \/ \E c \in Call : Start(c)

\* The event loop runs as long as its queue is not empty; whether calls are
\* made is up to the host.
Spec == Init /\ [][Next]_vars /\ WF_vars(RunCall)

-----------------------------------------------------------------------------
(***************************************************************************)
(* Properties.                                                             *)
(***************************************************************************)

(* Overlapping calls may fork the chain, but never reorder it: entries lie *)
(* in the order in which record() was called.                              *)
EntriesInCallOrder ==
  \A k \in DOMAIN entries : entries[k].by = started[k]

(* A call made when all calls before it had returned is chained to the     *)
(* last entry and numbered next, whatever calls overlap with it from then  *)
(* on, and however damaged the chain before it.                            *)
WaitedCallsChain ==
  \A k \in DOMAIN entries :
    before[entries[k].by] = k - 1 =>
      Linked(entries, k) /\ entries[k].sequence = k

(* The answer of verifyIntegrity() is right about the log as it is in the  *)
(* turn of the answer, entries pushed during the call included.            *)
AnswerIsCurrent ==
  [][\A v \in Verifier :
       stage[v] # "done" /\ stage'[v] = "done" =>
         (valid'[v] <=> \A k \in DOMAIN entries : Linked(entries, k))]_vars

(***************************************************************************)
(* The inductive invariant behind them.  Calls of record() move in step:   *)
(* one that was made earlier is always further on than a later one, or at  *)
(* the same await but ahead of it in the queue.                            *)
(***************************************************************************)
Pending(c) == stage[c] \notin {"idle", "done"}

(* The queue holds every call that was made and has not returned, once.    *)
QueueWellFormed ==
  /\ \A p, q \in DOMAIN ready : ready[p] = ready[q] => p = q
  /\ \A c \in Call : Pending(c) <=> \E p \in DOMAIN ready : ready[p] = c

(* The calls of record() that have returned are the first ones made, and   *)
(* each has pushed one entry.                                              *)
StartedWellFormed ==
  /\ \A i, j \in DOMAIN started : started[i] = started[j] => i = j
  /\ \A c \in Recorder :
       stage[c] # "idle" <=> \E i \in DOMAIN started : started[i] = c
  /\ Len(entries) <= Len(started)
  /\ \A i \in DOMAIN started : stage[started[i]] = "done" <=> i <= Len(entries)

Rank(await) == CASE await = "ensureInit" -> 1
                 [] await = "latestInit" -> 2
                 [] await = "latestHash" -> 3
                 [] await = "dataHash" -> 4
                 [] OTHER -> 5

(* Pending calls are ordered by their awaits, then by the queue.           *)
InStep ==
  \A i, j \in DOMAIN started, p, q \in DOMAIN ready :
    i < j /\ ready[p] = started[i] /\ ready[q] = started[j] =>
      \/ Rank(stage[ready[p]]) > Rank(stage[ready[q]])
      \/ Rank(stage[ready[p]]) = Rank(stage[ready[q]]) /\ p < q

(* As long as nothing has been pushed since a call was made, what it read  *)
(* is current.                                                             *)
LocalsCurrent ==
  \A c \in Recorder :
    /\ before[c] <= Len(entries)
    /\ Pending(c) /\ before[c] = Len(entries) =>
         /\ stage[c] # "ensureInit" => sequence[c] = Len(entries) + 1
         /\ stage[c] \notin {"ensureInit", "latestInit"} =>
              prevHash[c] = LatestHash(entries)

(* What a call of verifyIntegrity() has passed over is linked.             *)
PassedLinked ==
  \A v \in Verifier :
    stage[v] \in {"dataHash", "entryHash"} =>
      /\ position[v] \in DOMAIN entries
      /\ \A k \in 1 .. position[v] : Linked(entries, k)

(* What every turn preserves, of the queue, the log and the calls' locals. *)
IndInv ==
  /\ TypeOK
  /\ QueueWellFormed
  /\ StartedWellFormed
  /\ EntriesInCallOrder
  /\ InStep
  /\ LocalsCurrent
  /\ WaitedCallsChain
  /\ PassedLinked

(* Every call returns, although verifyIntegrity() chases entries as they   *)
(* are pushed (here: finitely many).                                       *)
CallsReturn == \A c \in Call : stage[c] # "idle" ~> stage[c] = "done"

(* "Monotonic sequence number": when verifyIntegrity() answers valid, the   *)
(* sequence numbers increase from entry to entry.                          *)
ValidLogsCountUp ==
  [][\A v \in Verifier :
       stage[v] # "done" /\ stage'[v] = "done" /\ valid'[v] =>
         \A k \in 2 .. Len(entries) :
           entries[k].sequence > entries[k - 1].sequence]_vars
=============================================================================
