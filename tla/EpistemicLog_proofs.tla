------------------------- MODULE EpistemicLog_proofs -------------------------
(***************************************************************************)
(* Proofs about EpistemicLog, for any decisions, lengths and damage.       *)
(***************************************************************************)
EXTENDS EpistemicLog, SequenceTheorems, WellFoundedInduction, TLAPS

\* The well-typed entries whose hash record() has returned.
Genuine == {e \in EpistemicEntry : e.entry_hash \in returned}

(* What every step preserves: every entry, in memory or in storage, still  *)
(* carries a hash that record() returned, whatever became of the rest.     *)
IndInv ==
  /\ clock \in 0 .. MaxClock
  /\ damages \in 0 .. MaxDamage
  /\ returned \subseteq Hash
  /\ log \in Seq(Genuine)
  /\ stored \in Seq(Genuine)

-----------------------------------------------------------------------------
(* Altering an entry's content leaves it genuine.                          *)
LEMMA AlteredGenuine ==
  ASSUME NEW e \in Genuine, NEW c \in Content
  PROVE  [e EXCEPT !.content = c] \in Genuine
BY DEF Genuine, EpistemicEntry

(* Source.to_dict turns a well-typed content into one.                     *)
LEMMA StampedContent ==
  ASSUME NEW c \in Content, NEW at \in Nat
  PROVE  Stamped(c, at) \in Content
BY DEF Content, Stamped

(* Whatever storage does to a document, its entries stay genuine.          *)
LEMMA DamagedGenuine ==
  ASSUME NEW s \in Seq(Genuine), NEW t \in Damaged(s)
  PROVE  t \in Seq(Genuine)
<1> DEFINE n == Len(s)
<1>1. n \in Nat /\ DOMAIN s = 1 .. n /\ \A k \in 1 .. n : s[k] \in Genuine
  OBVIOUS
<1>2. \A i, j \in Int : i >= 1 /\ j <= n => SubSeq(s, i, j) \in Seq(Genuine)
  <2> TAKE i, j \in Int
  <2> HAVE i >= 1 /\ j <= n
  <2>1. \A k \in i .. j : s[k] \in Genuine
    BY <1>1
  <2>2. QED
    BY <2>1, SubSeqProperties
<1>3. ASSUME NEW k \in DOMAIN s, t = RemoveAt(s, k)
      PROVE  t \in Seq(Genuine)
  <2>1. SubSeq(s, 1, k - 1) \in Seq(Genuine)
    BY <1>1, <1>2
  <2>2. SubSeq(s, k + 1, Len(s)) \in Seq(Genuine)
    BY <1>1, <1>2
  <2>3. QED
    BY <1>3, <2>1, <2>2, ConcatProperties DEF RemoveAt
<1>4. ASSUME NEW k \in DOMAIN s, NEW j \in DOMAIN s, t = InsertAt(s, k, s[j])
      PROVE  t \in Seq(Genuine)
  <2>1. SubSeq(s, 1, k - 1) \in Seq(Genuine)
    BY <1>1, <1>2
  <2>2. SubSeq(s, k, Len(s)) \in Seq(Genuine)
    BY <1>1, <1>2
  <2>3. <<s[j]>> \in Seq(Genuine)
    BY <1>1
  <2>4. QED
    BY <1>4, <2>1, <2>2, <2>3, ConcatProperties DEF InsertAt
<1>5. ASSUME NEW k \in DOMAIN s, NEW j \in DOMAIN s,
             t = [s EXCEPT ![k] = s[j], ![j] = s[k]]
      PROVE  t \in Seq(Genuine)
  <2>1. [s EXCEPT ![k] = s[j]] \in Seq(Genuine)
          /\ Len([s EXCEPT ![k] = s[j]]) = Len(s)
    BY <1>1, ExceptSeq
  <2>2. [[s EXCEPT ![k] = s[j]] EXCEPT ![j] = s[k]] \in Seq(Genuine)
    BY <1>1, <2>1, ExceptSeq
  <2>3. QED
    BY <1>5, <2>2
<1>6. ASSUME NEW k \in DOMAIN s, NEW d \in Decision,
             t = [s EXCEPT ![k].content.decision = d]
      PROVE  t \in Seq(Genuine)
  <2> DEFINE c == [s[k].content EXCEPT !.decision = d]
  <2>1. s[k] \in Genuine /\ s[k].content \in Content
    BY <1>1 DEF Genuine, EpistemicEntry
  <2>2. c \in Content
    BY <2>1 DEF Content
  <2>3. [s[k] EXCEPT !.content = c] \in Genuine
    BY <2>1, <2>2, AlteredGenuine
  <2>4. t = [s EXCEPT ![k] = [s[k] EXCEPT !.content = c]]
    BY <1>6
  <2>5. QED
    BY <1>1, <2>3, <2>4, ExceptSeq
<1>7. QED
  BY <1>3, <1>4, <1>5, <1>6 DEF Damaged

(* A genuine entry stays genuine as record() returns more hashes.          *)
LEMMA GenuineGrows ==
  ASSUME returned \subseteq returned'
  PROVE  Genuine \subseteq Genuine'
BY DEF Genuine, EpistemicEntry, Content, Hash

(* record() appends a genuine entry, once its hash is returned.            *)
LEMMA NewEntryTyped ==
  ASSUME IndInv, NEW c \in Content
  PROVE  NewEntry(c) \in EpistemicEntry
<1>1. clock \in Nat
  BY BoundsAssumption DEF IndInv
<1>2. DataHash(c, clock) \in Content
  BY <1>1, StampedContent DEF DataHash
<1>3. LatestHash(log) \in Hash
  <2>1. log # <<>> => log[Len(log)] \in Genuine
    BY DEF IndInv
  <2>2. QED
    BY <2>1 DEF LatestHash, GENESIS_HASH, Hash, Genuine, EpistemicEntry
<1>4. ComputeEntryHash(DataHash(c, clock), LatestHash(log)) \in Hash
  BY <1>2, <1>3 DEF ComputeEntryHash, Hash
<1>5. Len(log) + 1 \in Nat
  BY DEF IndInv
<1>6. QED
  BY <1>2, <1>3, <1>4, <1>5 DEF NewEntry, EpistemicEntry

(* The inductive invariant.                                                *)
THEOREM Inductive == Spec => []IndInv
<1>1. Init => IndInv
  BY BoundsAssumption DEF Init, IndInv
<1>2. IndInv /\ [Next]_vars => IndInv'
  <2> SUFFICES ASSUME IndInv, [Next]_vars PROVE IndInv'
    OBVIOUS
  <2>1. ASSUME NEW d \in Decision, NEW s \in Stamps, Record(d, s)
        PROVE  IndInv'
    <3> DEFINE c == [decision |-> d, stamp |-> s]
    <3>1. c \in Content
      BY StampsAssumption DEF Content
    <3>2. PICK e \in EpistemicEntry : e = NewEntry(c)
      BY <3>1, NewEntryTyped
    <3>3. /\ log' = Append(log, e)
          /\ returned' = returned \cup {e.entry_hash}
          /\ UNCHANGED <<clock, stored, damages>>
      BY <2>1, <3>2 DEF Record
    <3>4. Genuine \subseteq Genuine'
      BY <3>3, GenuineGrows
    <3>5. e \in Genuine'
      BY <3>2, <3>3 DEF Genuine, EpistemicEntry, Content, Hash
    <3>6. returned' \subseteq Hash
      BY <3>2, <3>3 DEF IndInv, EpistemicEntry
    <3>7. log \in Seq(Genuine') /\ stored \in Seq(Genuine')
      BY <3>4, SeqMonotonic DEF IndInv
    <3>8. log' \in Seq(Genuine') /\ stored' \in Seq(Genuine')
      BY <3>3, <3>5, <3>7, AppendProperties
    <3>9. QED
      BY <3>3, <3>6, <3>8 DEF IndInv, Hash, Content
  <2>2. CASE Export
    <3>1. PICK at \in clock .. MaxClock :
            /\ clock' = at
            /\ stored' = [k \in DOMAIN log |->
                            [log[k] EXCEPT !.content = Stamped(@, at)]]
            /\ UNCHANGED <<log, returned, damages>>
      BY <2>2 DEF Export
    <3>2. at \in Nat /\ at \in 0 .. MaxClock
      BY BoundsAssumption DEF IndInv
    <3>3. Genuine' = Genuine
      BY <3>1 DEF Genuine, EpistemicEntry, Content, Hash
    <3>4. \A k \in DOMAIN log :
            [log[k] EXCEPT !.content = Stamped(@, at)] \in Genuine
      <4> TAKE k \in DOMAIN log
      <4>1. log[k] \in Genuine /\ log[k].content \in Content
        BY DEF IndInv, Genuine, EpistemicEntry
      <4>2. [log[k] EXCEPT !.content = Stamped(log[k].content, at)]
              \in Genuine
        BY <3>2, <4>1, StampedContent, AlteredGenuine
      <4>3. QED
        BY <4>2
    <3>5. stored' \in Seq(Genuine)
      <4>1. DOMAIN log = 1 .. Len(log) /\ Len(log) \in Nat
        BY DEF IndInv
      <4>2. QED
        BY <3>1, <3>4, <4>1
    <3>6. QED
      BY <3>1, <3>2, <3>3, <3>5 DEF IndInv, Hash, Content
  <2>3. CASE FromJson
    BY <2>3 DEF FromJson, IndInv, Genuine, EpistemicEntry, Hash, Content
  <2>4. CASE Damage
    <3>1. stored' \in Seq(Genuine)
      BY <2>4, DamagedGenuine DEF Damage, IndInv
    <3>2. Genuine' = Genuine
      BY <2>4 DEF Damage, Genuine, EpistemicEntry, Content, Hash
    <3>3. damages' \in 0 .. MaxDamage
      BY <2>4, BoundsAssumption DEF Damage, IndInv
    <3>4. QED
      BY <2>4, <3>1, <3>2, <3>3 DEF Damage, IndInv, Hash, Content
  <2>5. CASE Tick
    <3>1. clock' \in 0 .. MaxClock
      BY <2>5, BoundsAssumption DEF Tick, IndInv
    <3>2. Genuine' = Genuine
      BY <2>5 DEF Tick, Genuine, EpistemicEntry, Hash, Content
    <3>3. QED
      BY <2>5, <3>1, <3>2 DEF Tick, IndInv, Hash, Content
  <2>6. CASE UNCHANGED vars
    BY <2>6 DEF vars, IndInv, Genuine, EpistemicEntry, Hash, Content
  <2>7. QED
    BY <2>1, <2>2, <2>3, <2>4, <2>5, <2>6 DEF Next
<1>3. QED
  BY <1>1, <1>2, PTL DEF Spec

(* Type correctness.                                                       *)
THEOREM TypeCorrect == Spec => []TypeOK
<1>1. IndInv => TypeOK
  <2>1. IndInv => log \in Seq(EpistemicEntry) /\ stored \in Seq(EpistemicEntry)
    BY SeqMonotonic DEF IndInv, Genuine
  <2>2. QED
    BY <2>1 DEF IndInv, TypeOK
<1>2. QED
  BY <1>1, Inductive, PTL

-----------------------------------------------------------------------------
LEMMA LeastElement ==
  ASSUME NEW T \in SUBSET Nat, T # {}
  PROVE  \E m \in T : \A n \in T : m <= n
<1>1. PICK m \in T : \A n \in T : ~ (<<n, m>> \in OpToRel(<, Nat))
  <2> HIDE DEF OpToRel
  <2>1. QED
    BY NatLessThanWellFounded, WFMin, Zenon
<1>2. \A n \in T : ~(n < m)
  BY <1>1 DEF OpToRel
<1>3. QED
  BY <1>2

(* The hash of an entry verify_integrity passed over is made of what the   *)
(* entries up to it say now.                                               *)
LEMMA HashSpellsPrefix ==
  ASSUME IndInv, NEW k \in Passed(log, clock)
  PROVE  /\ Len(log[k].entry_hash) = k
         /\ \A i \in 1 .. k :
              log[k].entry_hash[i].decision = log[i].content.decision
<1> DEFINE Good(j) ==
             /\ Len(log[j].entry_hash) = j
             /\ \A i \in 1 .. j :
                  log[j].entry_hash[i].decision = log[i].content.decision
           Bad == {j \in 1 .. k : ~Good(j)}
<1>1. /\ DOMAIN log = 1 .. Len(log) /\ Len(log) \in Nat
      /\ k \in 1 .. Len(log)
      /\ \A j \in 1 .. Len(log) : log[j] \in EpistemicEntry
  BY DEF IndInv, Genuine, Passed
<1>2. ASSUME NEW j \in 1 .. k
      PROVE  /\ Linked(log, j)
             /\ log[j].data_hash.decision = log[j].content.decision
             /\ log[j].entry_hash = Append(log[j].prev_hash, log[j].data_hash)
  <2>1. j \in DOMAIN log /\ j \notin Broken(log, clock)
    BY <1>1 DEF Passed
  <2>2. Linked(log, j) /\ Rehashes(log[j], DataHash(log[j].content, clock))
    BY <2>1 DEF Broken
  <2>3. log[j].content \in Content
    BY <1>1, <2>1 DEF EpistemicEntry
  <2>4. Stamped(log[j].content, clock).decision = log[j].content.decision
    BY <2>3 DEF Stamped, Content
  <2>5. QED
    BY <2>2, <2>4 DEF Rehashes, DataHash, ComputeEntryHash
<1>3. ASSUME NEW j \in 1 .. k, j = 1 \/ Good(j - 1)
      PROVE  Good(j)
  <2> DEFINE prev == log[j].prev_hash
             data == log[j].data_hash
  <2>1. j \in 1 .. Len(log) /\ log[j] \in EpistemicEntry
    BY <1>1
  <2>2. prev \in Seq(Content) /\ data \in Content
    BY <2>1 DEF EpistemicEntry, Hash
  <2>3. /\ Len(prev) = j - 1
        /\ \A i \in 1 .. (j - 1) : prev[i].decision = log[i].content.decision
    <3>1. CASE j = 1
      BY <1>2, <3>1 DEF Linked, GENESIS_HASH
    <3>2. CASE j # 1
      <4>1. prev = log[j - 1].entry_hash
        BY <1>2, <3>2 DEF Linked
      <4>2. QED
        BY <1>3, <3>2, <4>1
    <3>3. QED
      BY <3>1, <3>2
  <2>4. log[j].entry_hash = Append(prev, data)
    BY <1>2
  <2> HIDE DEF prev
  <2>5. Len(Append(prev, data)) = j
    BY <2>2, <2>3, AppendProperties
  <2>6. \A i \in 1 .. j : Append(prev, data)[i].decision
                            = log[i].content.decision
    <3> TAKE i \in 1 .. j
    <3>1. CASE i = j
      <4>1. Append(prev, data)[j] = data
        BY <2>2, <2>3, AppendProperties
      <4>2. QED
        BY <1>2, <3>1, <4>1
    <3>2. CASE i # j
      <4>1. i \in 1 .. Len(prev)
        BY <2>3, <3>2
      <4>2. Append(prev, data)[i] = prev[i]
        BY <2>2, <4>1, AppendProperties
      <4>3. QED
        BY <2>3, <3>2, <4>2
    <3>3. QED
      BY <3>1, <3>2
  <2>7. QED
    BY <2>4, <2>5, <2>6
<1> HIDE DEF Good
<1>4. Bad = {}
  <2> SUFFICES ASSUME Bad # {} PROVE FALSE
    OBVIOUS
  <2>1. Bad \in SUBSET Nat
    BY <1>1
  <2>2. PICK j \in Bad : \A m \in Bad : j <= m
    BY <2>1, LeastElement
  <2>3. j \in 1 .. k /\ ~Good(j)
    OBVIOUS
  <2>4. j # 1 => j - 1 \in 1 .. k /\ j - 1 \notin Bad
    BY <1>1, <2>2, <2>3
  <2>5. j = 1 \/ Good(j - 1)
    BY <2>4
  <2>6. QED
    BY <1>3, <2>3, <2>5
<1>5. QED
  BY <1>1, <1>4 DEF Good

(* Tamper evidence, for logs of any length and any amount of damage.       *)
THEOREM TamperEvident == Spec => []PassedIsRecorded
<1>1. IndInv => PassedIsRecorded
  <2> SUFFICES ASSUME IndInv, NEW k \in Passed(log, clock)
               PROVE  \E h \in returned :
                        /\ Len(h) = k
                        /\ \A j \in 1 .. k :
                             h[j].decision = log[j].content.decision
    BY DEF PassedIsRecorded
  <2>1. log[k].entry_hash \in returned
    BY DEF Passed, IndInv, Genuine
  <2>2. QED
    BY <2>1, HashSpellsPrefix
<1>2. QED
  BY <1>1, Inductive, PTL

-----------------------------------------------------------------------------
(***************************************************************************)
(* What nobody damaged is linked as it was recorded, and says what it was  *)
(* hashed from, up to sources that had no timestamp.                       *)
(***************************************************************************)
EntryWellMade(entries, k) ==
  /\ Linked(entries, k)
  /\ entries[k].entry_hash
       = ComputeEntryHash(entries[k].data_hash, entries[k].prev_hash)
  /\ entries[k].content.stamp = Given =>
       entries[k].data_hash = entries[k].content

WellMade(entries) == \A k \in DOMAIN entries : EntryWellMade(entries, k)

Undamaged == damages = 0 => WellMade(log) /\ WellMade(stored)

(* A source that has its timestamp is hashed as it is, at any time.        *)
LEMMA GivenHashed ==
  ASSUME NEW c \in Content, NEW at, c.stamp = Given
  PROVE  DataHash(c, at) = c
BY UnsetAssumption DEF DataHash, Stamped, Content

(* record() keeps a well-made log well made.                               *)
LEMMA RecordWellMade ==
  ASSUME IndInv, WellMade(log), NEW c \in Content
  PROVE  WellMade(Append(log, NewEntry(c)))
<1> DEFINE e == NewEntry(c)
           new == Append(log, e)
<1>1. e \in EpistemicEntry
  BY NewEntryTyped
<1>2. log \in Seq(EpistemicEntry)
  BY SeqMonotonic DEF IndInv, Genuine
<1>3. /\ e.prev_hash = LatestHash(log)
      /\ e.data_hash = DataHash(c, clock)
      /\ e.content = c
      /\ e.entry_hash = ComputeEntryHash(e.data_hash, e.prev_hash)
  BY DEF NewEntry
<1> HIDE DEF e
<1>4. /\ DOMAIN new = 1 .. (Len(log) + 1) /\ Len(log) \in Nat
      /\ \A k \in 1 .. Len(log) : new[k] = log[k]
      /\ new[Len(log) + 1] = e
  BY <1>1, <1>2, AppendProperties
<1>5. ASSUME NEW k \in 1 .. Len(log)
      PROVE  EntryWellMade(new, k)
  <2>1. EntryWellMade(log, k)
    BY <1>2 DEF WellMade
  <2>2. new[k] = log[k] /\ (k # 1 => new[k - 1] = log[k - 1])
    BY <1>4
  <2>3. QED
    BY <2>1, <2>2 DEF EntryWellMade, Linked
<1>6. EntryWellMade(new, Len(log) + 1)
  <2> DEFINE n == Len(log) + 1
  <2>1. Linked(new, n)
    <3>1. CASE Len(log) = 0
      <4>1. log = <<>> /\ n = 1
        BY <1>2, <3>1
      <4>2. QED
        BY <1>3, <1>4, <4>1 DEF Linked, LatestHash
    <3>2. CASE Len(log) # 0
      <4>1. log # <<>> /\ n # 1 /\ new[n - 1] = log[Len(log)]
        BY <1>2, <1>4, <3>2
      <4>2. QED
        BY <1>3, <1>4, <4>1 DEF Linked, LatestHash
    <3>3. QED
      BY <3>1, <3>2
  <2>2. e.content.stamp = Given => e.data_hash = e.content
    BY <1>3, GivenHashed
  <2>3. QED
    BY <1>3, <1>4, <2>1, <2>2 DEF EntryWellMade
<1>7. \A k \in DOMAIN new : k \in 1 .. Len(log) \/ k = Len(log) + 1
  BY <1>4
<1>8. WellMade(new)
  BY <1>5, <1>6, <1>7 DEF WellMade
<1>9. QED
  BY <1>8 DEF e

(* Nothing but damage makes a log or its document ill-made.                *)
LEMMA StaysWellMade == Spec => []Undamaged
<1>1. Init => Undamaged
  BY DEF Init, Undamaged, WellMade
<1>2. IndInv /\ Undamaged /\ [Next]_vars => Undamaged'
  <2> SUFFICES ASSUME IndInv, Undamaged, [Next]_vars, damages' = 0
               PROVE  WellMade(log') /\ WellMade(stored')
    BY DEF Undamaged, WellMade, EntryWellMade, Linked, ComputeEntryHash,
           GENESIS_HASH
  <2>1. ASSUME NEW d \in Decision, NEW s \in Stamps, Record(d, s)
        PROVE  WellMade(log') /\ WellMade(stored')
    <3>1. [decision |-> d, stamp |-> s] \in Content
      BY StampsAssumption DEF Content
    <3>2. damages = 0 /\ stored' = stored
            /\ log' = Append(log, NewEntry([decision |-> d, stamp |-> s]))
      BY <2>1 DEF Record
    <3>3. QED
      BY <3>1, <3>2, RecordWellMade DEF Undamaged
  <2>2. CASE Export
    <3>1. PICK at \in clock .. MaxClock :
            /\ stored' = [k \in DOMAIN log |->
                            [log[k] EXCEPT !.content = Stamped(@, at)]]
            /\ UNCHANGED <<log, returned, damages>>
      BY <2>2 DEF Export
    <3>2. WellMade(log) /\ log' = log
      BY <3>1 DEF Undamaged
    <3>3. at \in Nat
      BY BoundsAssumption DEF IndInv
    <3>4. DOMAIN log = 1 .. Len(log) /\ Len(log) \in Nat
            /\ \A k \in DOMAIN log : log[k] \in EpistemicEntry
      BY DEF IndInv, Genuine
    <3>5. ASSUME NEW k \in DOMAIN log
          PROVE  /\ stored'[k].prev_hash = log[k].prev_hash
                 /\ stored'[k].data_hash = log[k].data_hash
                 /\ stored'[k].entry_hash = log[k].entry_hash
                 /\ stored'[k].content = Stamped(log[k].content, at)
      BY <3>1, <3>4 DEF EpistemicEntry
    <3>6. ASSUME NEW k \in DOMAIN log
          PROVE  EntryWellMade(stored', k)
      <4>1. EntryWellMade(log, k)
        BY <3>2 DEF WellMade
      <4>2. k # 1 => k - 1 \in DOMAIN log
        BY <3>4
      <4>3. Linked(stored', k)
        BY <3>5, <4>1, <4>2 DEF EntryWellMade, Linked
      <4>4. log[k].content \in Content
        BY <3>4 DEF EpistemicEntry
      <4>5. Stamped(log[k].content, at).stamp = Given =>
              /\ log[k].content.stamp = Given
              /\ Stamped(log[k].content, at) = log[k].content
        <5>1. Stamped(log[k].content, at).stamp = Given =>
                log[k].content.stamp = Given
          BY <3>3, <4>4, UnsetAssumption DEF Stamped, Content
        <5>2. QED
          BY <4>4, <5>1, GivenHashed DEF DataHash
      <4>6. QED
        BY <3>5, <4>1, <4>3, <4>5 DEF EntryWellMade
    <3>7. DOMAIN stored' = DOMAIN log
      BY <3>1
    <3>8. QED
      BY <3>2, <3>6, <3>7 DEF WellMade
  <2>3. CASE FromJson
    BY <2>3 DEF FromJson, Undamaged
  <2>4. CASE Damage
    BY <2>4 DEF Damage, IndInv
  <2>5. CASE Tick
    BY <2>5 DEF Tick, Undamaged
  <2>6. CASE UNCHANGED vars
    BY <2>6 DEF vars, Undamaged
  <2>7. QED
    BY <2>1, <2>2, <2>3, <2>4, <2>5, <2>6 DEF Next
<1>3. QED
  BY <1>1, <1>2, Inductive, PTL DEF Spec

(* An undamaged log breaks only at sources that had no timestamp.          *)
THEOREM StampedVerify == Spec => []StampedEntriesVerify
<1>1. IndInv /\ Undamaged => StampedEntriesVerify
  <2> SUFFICES ASSUME IndInv, Undamaged, damages = 0,
                      NEW k \in DOMAIN log, log[k].content.stamp = Given
               PROVE  k \notin Broken(log, clock)
    BY DEF StampedEntriesVerify, Broken
  <2>1. EntryWellMade(log, k)
    BY DEF Undamaged, WellMade
  <2>2. log[k].content \in Content
    BY DEF IndInv, Genuine, EpistemicEntry
  <2>3. DataHash(log[k].content, clock) = log[k].content
    BY <2>2, GivenHashed
  <2>4. QED
    BY <2>1, <2>3 DEF EntryWellMade, Broken, Rehashes
<1>2. QED
  BY <1>1, Inductive, StaysWellMade, PTL
=============================================================================
