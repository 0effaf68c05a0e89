---------------------------- MODULE EpistemicLog ----------------------------
(***************************************************************************)
(* The Python SDK's epistemic log and the document it is stored in.        *)
(*                                                                         *)
(* An agent records decisions; each entry is chained to the one before.    *)
(* The operator keeps the log as an exported document, from which the      *)
(* agent reconstructs it (from_json), after a restart say.  Storage is the *)
(* operator's: there, entries may be lost, repeated, exchanged or altered. *)
(*                                                                         *)
(* A decision stands for everything an entry hash covers but one field:    *)
(* the timestamp of a source, which the caller may leave out.  to_dict     *)
(* then reads the clock, each time it is called.                           *)
(***************************************************************************)
EXTENDS HashChain, SequencesExt, FiniteSetsExt

CONSTANTS
  Decision,    \* what agents record
  Given,       \* a source's timestamp, when the caller gives one
  Unset,       \* None, when the caller leaves it out
  Stamps,      \* which of the two callers do
  MaxClock,    \* bound: the clock stops here
  MaxRecords,  \* bound: how many hashes record() returns
  MaxDamage    \* bound: how often the stored document is damaged

ASSUME StampsAssumption == Stamps \subseteq {Given, Unset}
ASSUME UnsetAssumption == Given \notin Nat /\ Unset \notin Nat /\ Given # Unset
ASSUME BoundsAssumption ==
  MaxClock \in Nat /\ MaxRecords \in Nat /\ MaxDamage \in Nat

VARIABLES
  clock,     \* the wall clock
  log,       \* EpistemicLog._entries
  stored,    \* the entries of the exported document
  returned,  \* history: the entry hashes record() has returned
  damages    \* history: how often the document was damaged

vars == <<clock, log, stored, returned, damages>>

Content == [decision : Decision, stamp : {Given, Unset} \cup Nat]

Hash == Seq(Content)

EpistemicEntry ==
  [sequence : Nat, content : Content,
   data_hash : Content, prev_hash : Hash, entry_hash : Hash]

TypeOK ==
  /\ clock \in 0 .. MaxClock
  /\ log \in Seq(EpistemicEntry)
  /\ stored \in Seq(EpistemicEntry)
  /\ returned \subseteq Hash
  /\ damages \in 0 .. MaxDamage

Init ==
  /\ clock = 0
  /\ log = <<>>
  /\ stored = <<>>
  /\ returned = {}
  /\ damages = 0

-----------------------------------------------------------------------------
\* Defect: every source is stamped anew.
StampedAnew(content, at) == [content EXCEPT !.stamp = at]

\* Source.to_dict, called at a given time.
Stamped(content, at) ==
  [content EXCEPT !.stamp = IF @ = Unset THEN at ELSE @]

\* _compute_data_hash hashes what to_dict returns.
DataHash(content, at) == Stamped(content, at)

NewEntry(content) ==
  LET data_hash == DataHash(content, clock)
      prev_hash == LatestHash(log)
  IN  [sequence |-> Len(log) + 1, content |-> content,
       data_hash |-> data_hash, prev_hash |-> prev_hash,
       entry_hash |-> ComputeEntryHash(data_hash, prev_hash)]

Record(decision, stamp) ==
  LET entry == NewEntry([decision |-> decision, stamp |-> stamp]) IN
  /\ Cardinality(returned) < MaxRecords
  /\ log' = Append(log, entry)
  /\ returned' = returned \cup {entry.entry_hash}
  /\ UNCHANGED <<clock, stored, damages>>

(***************************************************************************)
(* verify_integrity, called at a given time: it stops at the first entry   *)
(* that fails a check.                                                     *)
(***************************************************************************)
Broken(entries, at) ==
  {k \in DOMAIN entries :
     ~ /\ Linked(entries, k)
       /\ Rehashes(entries[k], DataHash(entries[k].content, at))}

\* The entries it passed over before it stopped.
Passed(entries, at) ==
  {k \in DOMAIN entries : \A j \in 1 .. k : j \notin Broken(entries, at)}

\* to_dict stamps the exported sources, possibly later than they are hashed.
Export ==
  \E at \in clock .. MaxClock :
    /\ clock' = at
    /\ stored' = [k \in DOMAIN log |->
                    [log[k] EXCEPT !.content = Stamped(@, at)]]
    /\ UNCHANGED <<log, returned, damages>>

FromJson ==
  /\ log' = stored
  /\ UNCHANGED <<clock, stored, returned, damages>>

-----------------------------------------------------------------------------
\* What storage may do to a document: not part of the SDK.
Damaged(entries) ==
  {RemoveAt(entries, k) : k \in DOMAIN entries}
    \cup {InsertAt(entries, k, entries[j]) : k, j \in DOMAIN entries}
    \cup {[entries EXCEPT ![k] = entries[j], ![j] = entries[k]] :
            k, j \in DOMAIN entries}
    \cup {[entries EXCEPT ![k].content.decision = d] :
            k \in DOMAIN entries, d \in Decision}

Damage ==
  /\ damages < MaxDamage
  /\ damages' = damages + 1
  /\ stored' \in Damaged(stored)
  /\ UNCHANGED <<clock, log, returned>>

Tick ==
  /\ clock < MaxClock
  /\ clock' = clock + 1
  /\ UNCHANGED <<log, stored, returned, damages>>

Next ==
  \/ \E d \in Decision, s \in Stamps : Record(d, s)
  \/ Export
  \/ FromJson
  \/ Damage
  \/ Tick

Spec == Init /\ [][Next]_vars

-----------------------------------------------------------------------------
(***************************************************************************)
(* Properties.                                                             *)
(***************************************************************************)

(* Tamper evidence: the entries verify_integrity passes over say, in       *)
(* order, what some call of record() chained them to say when it returned  *)
(* the last one's hash.  Whatever was lost, repeated, exchanged or altered *)
(* in storage, and recorded upon since, shows at or before its place.      *)
PassedIsRecorded ==
  \A k \in Passed(log, clock) :
    \E h \in returned :
      /\ Len(h) = k
      /\ \A j \in 1 .. k : h[j].decision = log[j].content.decision

(* A log that storage left alone breaks only at entries one of whose       *)
(* sources had no timestamp, however often it is exported, reconstructed   *)
(* and recorded upon in between.                                           *)
StampedEntriesVerify ==
  damages = 0 =>
    \A k \in Broken(log, clock) : log[k].content.stamp # Given
=============================================================================
