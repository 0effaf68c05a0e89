--------------------------- MODULE AsyncLog_proofs ---------------------------
(***************************************************************************)
(* Proofs about AsyncLog, for any number of overlapping calls.             *)
(***************************************************************************)
EXTENDS AsyncLog, SequenceTheorems, TLAPS

-----------------------------------------------------------------------------
(***************************************************************************)
(* The queue after each kind of step.                                      *)
(***************************************************************************)
(* Awaiting again takes a call from the head of the queue to its end.      *)
LEMMA QueueAfterAwait ==
  ASSUME ready \in Seq(Call), ready # <<>>, NEW c \in Call, Head(ready) = c,
         ready' = Append(Tail(ready), c)
  PROVE  /\ ready' \in Seq(Call)
         /\ DOMAIN ready' = DOMAIN ready
         /\ DOMAIN ready = 1 .. Len(ready) /\ Len(ready) \in Nat \ {0}
         /\ ready[1] = c
         /\ ready'[Len(ready)] = c
         /\ \A p \in 1 .. (Len(ready) - 1) : ready'[p] = ready[p + 1]
<1>1. /\ Tail(ready) \in Seq(Call) /\ Len(Tail(ready)) = Len(ready) - 1
      /\ \A p \in 1 .. Len(Tail(ready)) : Tail(ready)[p] = ready[p + 1]
  BY HeadTailProperties
<1>2. /\ Append(Tail(ready), c) \in Seq(Call)
      /\ Len(Append(Tail(ready), c)) = Len(Tail(ready)) + 1
      /\ \A p \in 1 .. Len(Tail(ready)) :
           Append(Tail(ready), c)[p] = Tail(ready)[p]
      /\ Append(Tail(ready), c)[Len(Tail(ready)) + 1] = c
  BY <1>1, AppendProperties
<1>3. Len(ready) \in Nat \ {0} /\ ready[1] = c /\ DOMAIN ready = 1 .. Len(ready)
  OBVIOUS
<1>4. DOMAIN ready' = 1 .. Len(ready')
  BY <1>2
<1>5. QED
  BY <1>1, <1>2, <1>3, <1>4

(* Returning takes it out.                                                 *)
LEMMA QueueAfterReturn ==
  ASSUME ready \in Seq(Call), ready # <<>>, NEW c \in Call, Head(ready) = c,
         ready' = Tail(ready)
  PROVE  /\ ready' \in Seq(Call)
         /\ DOMAIN ready = 1 .. Len(ready) /\ Len(ready) \in Nat \ {0}
         /\ DOMAIN ready' = 1 .. (Len(ready) - 1)
         /\ ready[1] = c
         /\ \A p \in 1 .. (Len(ready) - 1) : ready'[p] = ready[p + 1]
<1>1. /\ Tail(ready) \in Seq(Call) /\ Len(Tail(ready)) = Len(ready) - 1
      /\ \A p \in 1 .. Len(Tail(ready)) : Tail(ready)[p] = ready[p + 1]
  BY HeadTailProperties
<1>2. Len(ready) \in Nat \ {0} /\ ready[1] = c /\ DOMAIN ready = 1 .. Len(ready)
  OBVIOUS
<1>3. DOMAIN ready' = 1 .. Len(ready')
  BY <1>1
<1>4. QED
  BY <1>1, <1>2, <1>3

(* A rank is a number between 1 and 5.                                     *)
LEMMA RankRange == \A await : Rank(await) \in 1 .. 5
BY DEF Rank

\* Where the call that is p-th of n after such a step was before it.
Before(p, n) == IF p = n THEN 1 ELSE p + 1

(* No place is taken twice and none is left out.                           *)
LEMMA Rotation ==
  ASSUME NEW n \in Nat \ {0}
  PROVE  /\ \A p \in 1 .. n : Before(p, n) \in 1 .. n
         /\ \A p, q \in 1 .. n : Before(p, n) = Before(q, n) => p = q
         /\ \A r \in 1 .. n : \E p \in 1 .. n : r = Before(p, n)
         /\ \A p \in 1 .. n : p # n => p \in 1 .. (n - 1) /\ p < n
<1>1. \A r \in 1 .. n : \E p \in 1 .. n : r = Before(p, n)
  <2> TAKE r \in 1 .. n
  <2>1. CASE r = 1
    BY <2>1 DEF Before
  <2>2. CASE r # 1
    <3>1. r - 1 \in 1 .. n /\ Before(r - 1, n) = r
      BY <2>2 DEF Before
    <3>2. QED
      BY <3>1
  <2>3. QED
    BY <2>1, <2>2
<1>2. QED
  BY <1>1 DEF Before

-----------------------------------------------------------------------------
(***************************************************************************)
(* The order of the queue, whatever else a step does.                      *)
(***************************************************************************)
OrderInv == QueueWellFormed /\ StartedWellFormed /\ InStep

(* A call that awaits again keeps its place among the calls of record().   *)
LEMMA AwaitKeepsOrder ==
  ASSUME TypeOK, OrderInv, NEW c \in Call, NEW next,
         ready # <<>>, Head(ready) = c, Await(c, next),
         next \in Stages \ {"idle", "done"},
         c \in Recorder => Rank(next) = Rank(stage[c]) + 1,
         UNCHANGED <<entries, started>>
  PROVE  OrderInv'
<1>1. PICK n \in Nat \ {0} :
        /\ DOMAIN ready' = 1 .. n /\ DOMAIN ready = 1 .. n
        /\ ready[1] = c /\ ready'[n] = c
        /\ \A p \in 1 .. (n - 1) : ready'[p] = ready[p + 1]
  BY QueueAfterAwait DEF TypeOK, Await
<1> DEFINE Old(p) == Before(p, n)
<1>2. \A p \in 1 .. n : Old(p) \in 1 .. n /\ ready'[p] = ready[Old(p)]
  <2> TAKE p \in 1 .. n
  <2>1. Old(p) \in 1 .. n
    BY Rotation
  <2>2. CASE p = n
    BY <1>1, <2>1, <2>2 DEF Before
  <2>3. CASE p # n
    BY <1>1, <2>1, <2>3, Rotation DEF Before
  <2>4. QED
    BY <2>1, <2>2, <2>3
<1>3. \A p, q \in 1 .. n : Old(p) = Old(q) => p = q
  BY Rotation
<1>4. \A r \in 1 .. n : \E p \in 1 .. n : r = Old(p)
  BY Rotation
<1>5. /\ stage' = [stage EXCEPT ![c] = next]
      /\ stage \in [Call -> Stages]
      /\ stage'[c] = next
      /\ \A d \in Call : d # c => stage'[d] = stage[d]
  BY DEF Await, TypeOK
<1>6. Pending(c)
  BY <1>1 DEF OrderInv, QueueWellFormed
<1> HIDE DEF Old
<1>7. QueueWellFormed'
  <2>1. \A p, q \in 1 .. n : ready'[p] = ready'[q] => p = q
    BY <1>1, <1>2, <1>3 DEF OrderInv, QueueWellFormed
  <2>2. ASSUME NEW d \in Call
        PROVE  Pending(d)' <=> \E p \in 1 .. n : ready'[p] = d
    <3>1. Pending(d)' <=> Pending(d)
      BY <1>5, <1>6 DEF Pending
    <3>2. (\E p \in 1 .. n : ready'[p] = d) <=> \E p \in 1 .. n : ready[p] = d
      BY <1>2, <1>4
    <3>3. QED
      BY <1>1, <3>1, <3>2 DEF OrderInv, QueueWellFormed
  <2>3. QED
    BY <1>1, <2>1, <2>2 DEF QueueWellFormed
<1>8. StartedWellFormed'
  <2>1. \A d \in Call : /\ stage'[d] = "idle" <=> stage[d] = "idle"
                        /\ stage'[d] = "done" <=> stage[d] = "done"
    BY <1>5, <1>6 DEF Pending
  <2>2. \A i \in DOMAIN started : started[i] \in Call
    BY DEF TypeOK, Call
  <2>3. QED
    BY <2>1, <2>2 DEF OrderInv, StartedWellFormed, Call
<1>9. InStep'
  <2> SUFFICES ASSUME NEW i \in DOMAIN started, NEW j \in DOMAIN started,
                      NEW p \in 1 .. n, NEW q \in 1 .. n,
                      i < j, ready'[p] = started[i], ready'[q] = started[j]
               PROVE  \/ Rank(stage'[ready'[p]]) > Rank(stage'[ready'[q]])
                      \/ /\ Rank(stage'[ready'[p]]) = Rank(stage'[ready'[q]])
                         /\ p < q
    BY <1>1 DEF InStep
  <2>1. /\ Old(p) \in 1 .. n /\ Old(q) \in 1 .. n
        /\ ready[Old(p)] = ready'[p] /\ ready[Old(q)] = ready'[q]
    BY <1>2
  <2>2. \/ Rank(stage[ready'[p]]) > Rank(stage[ready'[q]])
        \/ /\ Rank(stage[ready'[p]]) = Rank(stage[ready'[q]])
           /\ Old(p) < Old(q)
    BY <1>1, <2>1 DEF OrderInv, InStep
  <2>3. ready'[p] # ready'[q] /\ p # q
    BY DEF OrderInv, StartedWellFormed, TypeOK
  <2>4. ready'[p] \in Recorder /\ ready'[q] \in Recorder
          /\ ready'[p] \in Call /\ ready'[q] \in Call
    BY DEF TypeOK, Call
  <2>5. /\ Rank(stage[ready'[p]]) \in 1 .. 5 /\ Rank(stage[ready'[q]]) \in 1 .. 5
        /\ Rank(stage'[ready'[p]]) \in 1 .. 5
        /\ Rank(stage'[ready'[q]]) \in 1 .. 5
    BY RankRange
  <2>6. CASE p = n
    <3>1. ready'[p] = c
      BY <1>1, <2>6
    <3>2. Rank(stage'[ready'[p]]) = Rank(stage[ready'[p]]) + 1
      BY <1>5, <2>4, <3>1
    <3>3. stage'[ready'[q]] = stage[ready'[q]]
      BY <1>5, <2>3, <2>4, <3>1
    <3>4. QED
      BY <2>2, <2>5, <3>2, <3>3
  <2>7. CASE q = n
    <3>1. ready'[q] = c /\ Old(q) = 1
      BY <1>1, <2>7 DEF Old, Before
    <3>2. Rank(stage'[ready'[q]]) = Rank(stage[ready'[q]]) + 1
      BY <1>5, <2>4, <3>1
    <3>3. stage'[ready'[p]] = stage[ready'[p]]
      BY <1>5, <2>3, <2>4, <3>1
    <3>4. Rank(stage[ready'[p]]) > Rank(stage[ready'[q]])
      BY <2>1, <2>2, <3>1
    <3>5. p < q
      BY <2>3, <2>7, Rotation
    <3>6. QED
      BY <2>5, <3>2, <3>3, <3>4, <3>5
  <2>8. CASE p # n /\ q # n
    <3>1. Old(p) = p + 1 /\ Old(q) = q + 1
      BY <2>8 DEF Old, Before
    <3>2. ready'[p] # c /\ ready'[q] # c
      <4>1. ready[Old(p)] # ready[1] /\ ready[Old(q)] # ready[1]
        BY <1>1, <2>1, <3>1 DEF OrderInv, QueueWellFormed
      <4>2. QED
        BY <1>1, <2>1, <4>1
    <3>3. stage'[ready'[p]] = stage[ready'[p]]
            /\ stage'[ready'[q]] = stage[ready'[q]]
      BY <1>5, <2>4, <3>2
    <3>4. Old(p) < Old(q) => p < q
      BY <3>1
    <3>5. QED
      BY <2>2, <3>3, <3>4
  <2>9. QED
    BY <2>6, <2>7, <2>8
<1>10. QED
  BY <1>7, <1>8, <1>9 DEF OrderInv

(* A call that returns leaves the others as they were.                     *)
LEMMA ReturnKeepsQueue ==
  ASSUME TypeOK, OrderInv, NEW c \in Call,
         ready # <<>>, Head(ready) = c, Return(c), UNCHANGED started
  PROVE  QueueWellFormed' /\ InStep'
<1>1. PICK n \in Nat \ {0} :
        /\ DOMAIN ready' = 1 .. (n - 1) /\ DOMAIN ready = 1 .. n
        /\ ready[1] = c
        /\ \A p \in 1 .. (n - 1) : ready'[p] = ready[p + 1]
  BY QueueAfterReturn DEF TypeOK, Return
<1>2. \A p \in 1 .. (n - 1) : p + 1 \in 1 .. n /\ p + 1 # 1
  OBVIOUS
<1>3. \A r \in 1 .. n : r # 1 => r - 1 \in 1 .. (n - 1) /\ r = (r - 1) + 1
  OBVIOUS
<1>4. /\ stage'[c] = "done"
      /\ \A d \in Call : d # c => stage'[d] = stage[d]
  BY DEF Return, TypeOK
<1>5. 1 \in 1 .. n
  OBVIOUS
<1>6. \A p \in 1 .. (n - 1) : ready'[p] # c
  BY <1>1, <1>2, <1>5 DEF OrderInv, QueueWellFormed
<1>7. QueueWellFormed'
  <2>1. \A p, q \in 1 .. (n - 1) : ready'[p] = ready'[q] => p = q
    <3> SUFFICES ASSUME NEW p \in 1 .. (n - 1), NEW q \in 1 .. (n - 1),
                        ready'[p] = ready'[q]
                 PROVE  p = q
      OBVIOUS
    <3>1. p + 1 = q + 1
      BY <1>1, <1>2 DEF OrderInv, QueueWellFormed
    <3>2. QED
      BY <3>1
  <2>2. ASSUME NEW d \in Call
        PROVE  Pending(d)' <=> \E p \in 1 .. (n - 1) : ready'[p] = d
    <3>1. CASE d = c
      BY <1>4, <1>6, <3>1 DEF Pending
    <3>2. CASE d # c
      <4>1. Pending(d)' <=> Pending(d)
        BY <1>4, <3>2 DEF Pending
      <4>2. (\E p \in 1 .. n : ready[p] = d)
              => \E p \in 1 .. (n - 1) : ready'[p] = d
        <5>1. SUFFICES ASSUME NEW r \in 1 .. n, ready[r] = d
                       PROVE  \E p \in 1 .. (n - 1) : ready'[p] = d
          OBVIOUS
        <5>2. r # 1
          BY <1>1, <3>2, <5>1
        <5>3. r - 1 \in 1 .. (n - 1) /\ ready'[r - 1] = d
          BY <1>1, <1>3, <5>1, <5>2
        <5>4. QED
          BY <5>3
      <4>3. (\E p \in 1 .. (n - 1) : ready'[p] = d)
              => \E p \in 1 .. n : ready[p] = d
        BY <1>1, <1>2
      <4>4. QED
        BY <1>1, <4>1, <4>2, <4>3 DEF OrderInv, QueueWellFormed
    <3>3. QED
      BY <3>1, <3>2
  <2>3. QED
    BY <1>1, <2>1, <2>2 DEF QueueWellFormed
<1>8. InStep'
  <2> SUFFICES ASSUME NEW i \in DOMAIN started, NEW j \in DOMAIN started,
                      NEW p \in 1 .. (n - 1), NEW q \in 1 .. (n - 1),
                      i < j, ready'[p] = started[i], ready'[q] = started[j]
               PROVE  \/ Rank(stage'[ready'[p]]) > Rank(stage'[ready'[q]])
                      \/ /\ Rank(stage'[ready'[p]]) = Rank(stage'[ready'[q]])
                         /\ p < q
    BY <1>1 DEF InStep
  <2>1. /\ p + 1 \in 1 .. n /\ q + 1 \in 1 .. n
        /\ ready[p + 1] = ready'[p] /\ ready[q + 1] = ready'[q]
    BY <1>1, <1>2
  <2>2. \/ Rank(stage[ready'[p]]) > Rank(stage[ready'[q]])
        \/ Rank(stage[ready'[p]]) = Rank(stage[ready'[q]]) /\ p + 1 < q + 1
    BY <1>1, <2>1 DEF OrderInv, InStep
  <2>3. ready'[p] \in Call /\ ready'[q] \in Call
    BY DEF TypeOK, Call
  <2>4. stage'[ready'[p]] = stage[ready'[p]]
          /\ stage'[ready'[q]] = stage[ready'[q]]
    BY <1>4, <1>6, <2>3
  <2>5. p + 1 < q + 1 => p < q
    OBVIOUS
  <2>6. QED
    BY <2>2, <2>4, <2>5
<1>9. QED
  BY <1>7, <1>8

(* The call of record() whose turn it is to push is the next one made.     *)
LEMMA NextToPush ==
  ASSUME TypeOK, OrderInv, NEW c \in Recorder, Turn(c, "entryHash")
  PROVE  /\ Len(entries) + 1 \in DOMAIN started
         /\ started[Len(entries) + 1] = c
<1> DEFINE m == Len(entries) + 1
<1>1. /\ Len(entries) \in Nat /\ Len(started) \in Nat
      /\ DOMAIN started = 1 .. Len(started)
      /\ \A i \in DOMAIN started : started[i] \in Recorder
  BY DEF TypeOK
<1>2. /\ DOMAIN ready = 1 .. Len(ready) /\ Len(ready) \in Nat \ {0}
      /\ 1 \in DOMAIN ready /\ ready[1] = c
  BY DEF TypeOK, Turn
<1>3. PICK j \in DOMAIN started : started[j] = c
  BY DEF Turn, OrderInv, StartedWellFormed
<1>4. j >= m
  <2>1. stage[started[j]] # "done"
    BY <1>3 DEF Turn
  <2>2. ~(j <= Len(entries))
    BY <2>1 DEF OrderInv, StartedWellFormed
  <2>3. QED
    BY <1>1, <2>2
<1>5. j = m
  <2> SUFFICES ASSUME j > m PROVE FALSE
    BY <1>1, <1>4
  <2>1. m \in DOMAIN started
    BY <1>1
  <2>2. stage[started[m]] # "done"
    <3>1. ~(m <= Len(entries))
      BY <1>1
    <3>2. QED
      BY <2>1, <3>1 DEF OrderInv, StartedWellFormed
  <2>3. Pending(started[m]) /\ started[m] \in Call
    BY <1>1, <2>1, <2>2 DEF OrderInv, StartedWellFormed, Pending, Call
  <2>4. PICK p \in DOMAIN ready : ready[p] = started[m]
    BY <2>3 DEF OrderInv, QueueWellFormed
  <2>5. \/ Rank(stage[ready[p]]) > Rank(stage[ready[1]])
        \/ p < 1
    BY <1>2, <1>3, <2>1, <2>4 DEF OrderInv, InStep
  <2>6. Rank(stage[ready[1]]) = 5
    BY <1>2 DEF Turn, Rank
  <2>7. Rank(stage[ready[p]]) \in 1 .. 5
    BY RankRange
  <2>8. p \in Nat /\ p >= 1
    BY <1>2
  <2>9. QED
    BY <2>5, <2>6, <2>7, <2>8
<1>6. QED
  BY <1>3, <1>5

(* Appending leaves the elements before the new one in place.              *)
LEMMA Appended ==
  ASSUME NEW S, NEW s \in Seq(S), NEW e \in S
  PROVE  \E n \in Nat : /\ n = Len(s) /\ DOMAIN s = 1 .. n
                        /\ Len(Append(s, e)) = n + 1
                        /\ DOMAIN Append(s, e) = 1 .. (n + 1)
                        /\ Append(s, e)[n + 1] = e
                        /\ \A p \in 1 .. n : Append(s, e)[p] = s[p]
<1>1. Len(s) \in Nat /\ DOMAIN s = 1 .. Len(s)
  OBVIOUS
<1>2. /\ Append(s, e) \in Seq(S) /\ Len(Append(s, e)) = Len(s) + 1
      /\ \A p \in 1 .. Len(s) : Append(s, e)[p] = s[p]
      /\ Append(s, e)[Len(s) + 1] = e
  BY AppendProperties
<1>3. DOMAIN Append(s, e) = 1 .. Len(Append(s, e))
  BY <1>2
<1>4. QED
  BY <1>1, <1>2, <1>3

(* A new call goes to the end of the queue, behind all that were made      *)
(* before it.                                                              *)
LEMMA StartKeepsOrder ==
  ASSUME TypeOK, OrderInv, NEW c \in Call, Start(c)
  PROVE  OrderInv'
<1>1. /\ ready \in Seq(Call) /\ started \in Seq(Recorder)
      /\ ready' = Append(ready, c) /\ entries' = entries
      /\ started' = IF c \in Recorder THEN Append(started, c) ELSE started
      /\ Len(entries) \in Nat
  BY DEF Start, TypeOK, recording
<1>2. PICK n \in Nat : /\ DOMAIN ready = 1 .. n
                       /\ DOMAIN ready' = 1 .. (n + 1)
                       /\ ready'[n + 1] = c
                       /\ \A p \in 1 .. n : ready'[p] = ready[p]
  BY <1>1, Appended
<1>3. /\ stage[c] = "idle" /\ stage'[c] = "ensureInit"
      /\ \A d \in Call : d # c => stage'[d] = stage[d]
  BY DEF Start, TypeOK
<1>4. \A p \in 1 .. n : ready[p] # c
  BY <1>2, <1>3 DEF OrderInv, QueueWellFormed, Pending
<1>5. \A p \in 1 .. (n + 1) : p \in 1 .. n \/ p = n + 1
  OBVIOUS
<1>6. QueueWellFormed'
  <2>1. \A p, q \in 1 .. (n + 1) : ready'[p] = ready'[q] => p = q
    BY <1>2, <1>4, <1>5 DEF OrderInv, QueueWellFormed
  <2>2. ASSUME NEW d \in Call
        PROVE  Pending(d)' <=> \E p \in 1 .. (n + 1) : ready'[p] = d
    <3>1. CASE d = c
      BY <1>2, <1>3, <3>1 DEF Pending
    <3>2. CASE d # c
      <4>1. Pending(d)' <=> Pending(d)
        BY <1>3, <3>2 DEF Pending
      <4>2. \A p \in 1 .. n : p \in 1 .. (n + 1)
        OBVIOUS
      <4>3. (\E p \in 1 .. (n + 1) : ready'[p] = d)
              <=> \E p \in 1 .. n : ready[p] = d
        BY <1>2, <1>5, <3>2, <4>2
      <4>4. QED
        BY <1>2, <4>1, <4>3 DEF OrderInv, QueueWellFormed
    <3>3. QED
      BY <3>1, <3>2
  <2>3. QED
    BY <1>2, <2>1, <2>2 DEF QueueWellFormed
<1>7. PICK m \in Nat :
        /\ DOMAIN started = 1 .. m /\ m = Len(started)
        /\ c \notin Recorder => started' = started
        /\ c \in Recorder => /\ DOMAIN started' = 1 .. (m + 1)
                             /\ Len(started') = m + 1
                             /\ started'[m + 1] = c
                             /\ \A i \in 1 .. m : started'[i] = started[i]
  <2>1. CASE c \notin Recorder
    BY <1>1, <2>1
  <2>2. CASE c \in Recorder
    <3>1. PICK m \in Nat :
            /\ m = Len(started) /\ DOMAIN started = 1 .. m
            /\ Len(Append(started, c)) = m + 1
            /\ DOMAIN Append(started, c) = 1 .. (m + 1)
            /\ Append(started, c)[m + 1] = c
            /\ \A i \in 1 .. m : Append(started, c)[i] = started[i]
      BY <1>1, <2>2, Appended
    <3>2. started' = Append(started, c)
      BY <1>1, <2>2
    <3>3. QED
      BY <2>2, <3>1, <3>2
  <2>3. QED
    BY <2>1, <2>2
<1>8. \A i \in 1 .. m : started[i] \in Recorder /\ started[i] # c
  <2> TAKE i \in 1 .. m
  <2>1. i \in DOMAIN started /\ started[i] \in Recorder
    <3>1. m = Len(started) /\ DOMAIN started = 1 .. m
      BY <1>7
    <3>2. QED
      BY <1>1, <3>1, ElementOfSeq
  <2>2. stage[started[i]] # "idle"
    BY <2>1 DEF OrderInv, StartedWellFormed
  <2>3. QED
    BY <1>3, <2>1, <2>2
<1>9. \A i \in 1 .. (m + 1) : i \in 1 .. m \/ i = m + 1
  OBVIOUS
<1>10. \A i \in 1 .. m : i \in 1 .. (m + 1)
  OBVIOUS
<1>11. Len(entries) <= m
  BY <1>7 DEF OrderInv, StartedWellFormed
<1>12. StartedWellFormed'
  <2>1. CASE c \notin Recorder
    <3>1. \A d \in Recorder : stage'[d] = stage[d]
      BY <1>3, <2>1 DEF Call
    <3>2. started' = started
      BY <1>7, <2>1
    <3>3. \A i \in DOMAIN started : stage'[started[i]] = stage[started[i]]
      BY <1>7, <1>8, <3>1
    <3>4. StartedWellFormed
      BY DEF OrderInv
    <3>5. QED
      BY <1>1, <3>1, <3>2, <3>3, <3>4 DEF StartedWellFormed
  <2>2. CASE c \in Recorder
    <3>1. \A i, j \in 1 .. (m + 1) : started'[i] = started'[j] => i = j
      BY <1>7, <1>8, <1>9, <2>2 DEF OrderInv, StartedWellFormed
    <3>2. ASSUME NEW d \in Recorder
          PROVE  stage'[d] # "idle" <=> \E i \in 1 .. (m + 1) : started'[i] = d
      <4>1. CASE d = c
        <5>1. m + 1 \in 1 .. (m + 1)
          OBVIOUS
        <5>2. QED
          BY <1>3, <1>7, <2>2, <4>1, <5>1
      <4>2. CASE d # c
        <5>1. stage'[d] = stage[d]
          BY <1>3, <4>2 DEF Call
        <5>2. (\E i \in 1 .. (m + 1) : started'[i] = d)
                <=> \E i \in 1 .. m : started[i] = d
          BY <1>7, <1>9, <1>10, <2>2, <4>2
        <5>3. QED
          BY <1>7, <5>1, <5>2 DEF OrderInv, StartedWellFormed
      <4>3. QED
        BY <4>1, <4>2
    <3>3. \A i \in 1 .. (m + 1) :
            stage'[started'[i]] = "done" <=> i <= Len(entries)
      <4> TAKE i \in 1 .. (m + 1)
      <4>1. CASE i \in 1 .. m
        BY <1>3, <1>7, <1>8, <2>2, <4>1 DEF OrderInv, StartedWellFormed, Call
      <4>2. CASE i = m + 1
        <5>1. ~(m + 1 <= Len(entries))
          BY <1>1, <1>11
        <5>2. stage'[started'[i]] = "ensureInit"
          BY <1>3, <1>7, <2>2, <4>2
        <5>3. QED
          BY <4>2, <5>1, <5>2
      <4>3. QED
        BY <1>9, <4>1, <4>2
    <3>4. Len(entries) <= m + 1
      BY <1>1, <1>11
    <3>5. DOMAIN started' = 1 .. (m + 1) /\ Len(started') = m + 1
            /\ entries' = entries
      BY <1>1, <1>7, <2>2
    <3>6. QED
      BY <3>1, <3>2, <3>3, <3>4, <3>5 DEF StartedWellFormed
  <2>3. QED
    BY <2>1, <2>2
<1>13. InStep'
  <2> SUFFICES ASSUME NEW i \in DOMAIN started', NEW j \in DOMAIN started',
                      NEW p \in 1 .. (n + 1), NEW q \in 1 .. (n + 1),
                      i < j, ready'[p] = started'[i], ready'[q] = started'[j]
               PROVE  \/ Rank(stage'[ready'[p]]) > Rank(stage'[ready'[q]])
                      \/ /\ Rank(stage'[ready'[p]]) = Rank(stage'[ready'[q]])
                         /\ p < q
    BY <1>2 DEF InStep
  <2>1. i \in 1 .. m /\ started'[i] = started[i]
    <3>1. CASE c \notin Recorder
      BY <1>7, <3>1
    <3>2. CASE c \in Recorder
      <4>1. i \in 1 .. (m + 1) /\ j \in 1 .. (m + 1)
        BY <1>7, <3>2
      <4>2. i \in 1 .. m
        BY <4>1
      <4>3. QED
        BY <1>7, <3>2, <4>2
    <3>3. QED
      BY <3>1, <3>2
  <2>2. ready'[p] # c /\ p \in 1 .. n
    BY <1>2, <1>5, <1>8, <2>1
  <2>3. ready[p] = started[i] /\ stage'[ready'[p]] = stage[ready[p]]
    BY <1>1, <1>2, <1>3, <2>1, <2>2 DEF Call
  <2>4. Rank(stage[ready[p]]) \in 1 .. 5
    BY RankRange
  <2>5. CASE ready'[q] = c
    <3>1. Rank(stage'[ready'[q]]) = 1
      BY <1>3, <2>5 DEF Rank
    <3>2. q = n + 1
      BY <1>2, <1>4, <1>5, <2>5
    <3>3. p < q
      BY <2>2, <3>2
    <3>4. QED
      BY <2>3, <2>4, <3>1, <3>3
  <2>6. CASE ready'[q] # c
    <3>1. q \in 1 .. n /\ ready[q] = ready'[q]
      BY <1>2, <1>5, <2>6
    <3>2. j \in 1 .. m /\ started'[j] = started[j]
      BY <1>7, <1>9, <2>6
    <3>3. stage'[ready'[q]] = stage[ready[q]]
      BY <1>3, <1>8, <2>6, <3>1, <3>2 DEF Call
    <3>4. QED
      BY <1>2, <1>7, <2>1, <2>2, <2>3, <3>1, <3>2, <3>3 DEF OrderInv, InStep
  <2>7. QED
    BY <2>5, <2>6
<1>14. QED
  BY <1>6, <1>12, <1>13 DEF OrderInv

-----------------------------------------------------------------------------
(***************************************************************************)
(* The types of the parts of a step.                                       *)
(***************************************************************************)
(* Waiting at another await, or returning, keeps the queue's type.         *)
LEMMA TurnTyped ==
  ASSUME TypeOK, NEW c \in Call, ready # <<>>,
         NEW next \in Stages, Await(c, next) \/ Return(c)
  PROVE  ready' \in Seq(Call) /\ stage' \in [Call -> Stages]
<1>1. Tail(ready) \in Seq(Call)
  BY HeadTailProperties DEF TypeOK
<1>2. Append(Tail(ready), c) \in Seq(Call)
  BY <1>1, AppendProperties
<1>3. QED
  BY <1>1, <1>2 DEF TypeOK, Await, Return, Stages

(* The latest hash of the log is a hash.                                   *)
LEMMA LatestHashTyped == TypeOK => LatestHash(entries) \in Hash
<1> SUFFICES ASSUME TypeOK PROVE LatestHash(entries) \in Hash
  OBVIOUS
<1>1. CASE entries = <<>>
  BY <1>1, EmptySeq DEF LatestHash, GENESIS_HASH, Hash
<1>2. CASE entries # <<>>
  <2>1. Len(entries) \in DOMAIN entries
    BY <1>2 DEF TypeOK
  <2>2. entries[Len(entries)] \in EpistemicEntry
    BY <2>1 DEF TypeOK
  <2>3. QED
    BY <1>2, <2>2 DEF LatestHash, EpistemicEntry
<1>3. QED
  BY <1>1, <1>2

(* The entry a call pushes is one.                                         *)
LEMMA PushTyped ==
  ASSUME TypeOK, NEW c \in Recorder
  PROVE  [by |-> c, sequence |-> sequence[c], prev_hash |-> prevHash[c],
          entry_hash |-> ComputeEntryHash(Said[c], prevHash[c])]
           \in EpistemicEntry
<1>1. prevHash[c] \in Hash /\ sequence[c] \in Nat
  BY DEF TypeOK
<1>2. Append(prevHash[c], Said[c]) \in Hash
  BY <1>1, AppendProperties DEF Hash
<1>3. QED
  BY <1>1, <1>2 DEF EpistemicEntry, ComputeEntryHash

(* An entry that stays where it is stays linked or not linked.             *)
LEMMA LinkedKept ==
  ASSUME NEW log, NEW longer, NEW n \in Nat, NEW k \in 1 .. n,
         \A p \in 1 .. n : longer[p] = log[p]
  PROVE  Linked(longer, k) <=> Linked(log, k)
<1>1. k = 1 \/ k - 1 \in 1 .. n
  OBVIOUS
<1>2. QED
  BY <1>1 DEF Linked

-----------------------------------------------------------------------------
(***************************************************************************)
(* Each action preserves the invariant.                                    *)
(***************************************************************************)
(* The turns of record() up to its push only touch the call's own locals.  *)
LEMMA RecordTurn ==
  ASSUME IndInv, NEW c \in Recorder,
         ReadLength(c) \/ ReadLatestHash(c) \/ HashData(c) \/ HashEntry(c)
  PROVE  IndInv'
<1>1. /\ TypeOK /\ QueueWellFormed /\ StartedWellFormed /\ InStep
      /\ EntriesInCallOrder /\ LocalsCurrent /\ WaitedCallsChain
      /\ PassedLinked
  BY DEF IndInv
<1>2. c \in Call
  BY DEF Call
<1>3. PICK next \in Stages \ {"idle", "done"} :
        Await(c, next) /\ Rank(next) = Rank(stage[c]) + 1
  <2>1. CASE ReadLength(c)
    BY <2>1 DEF ReadLength, Turn, Rank, Stages
  <2>2. CASE ReadLatestHash(c)
    BY <2>2 DEF ReadLatestHash, Turn, Rank, Stages
  <2>3. CASE HashData(c)
    BY <2>3 DEF HashData, FirstHash, Turn, Rank, Stages
  <2>4. CASE HashEntry(c)
    BY <2>4 DEF HashEntry, Turn, Rank, Stages
  <2>5. QED
    BY <2>1, <2>2, <2>3, <2>4
<1>4. /\ ready # <<>> /\ Head(ready) = c
      /\ UNCHANGED <<entries, started, before, position, valid>>
  BY DEF ReadLength, ReadLatestHash, HashData, HashEntry, Turn, history,
         recording, verifying
<1>5. OrderInv'
  BY <1>1, <1>2, <1>3, <1>4, AwaitKeepsOrder DEF OrderInv
<1>6. TypeOK'
  <2>1. ready' \in Seq(Call) /\ stage' \in [Call -> Stages]
    BY <1>1, <1>2, <1>3, <1>4, TurnTyped
  <2>2. sequence' \in [Recorder -> Nat]
    <3>1. Len(entries) + 1 \in Nat
      BY <1>1 DEF TypeOK
    <3>2. QED
      BY <1>1, <3>1 DEF ReadLength, ReadLatestHash, HashData, HashEntry,
                        recording, TypeOK
  <2>3. prevHash' \in [Recorder -> Hash]
    <3>1. LatestHash(entries) \in Hash
      BY <1>1, LatestHashTyped
    <3>2. QED
      BY <1>1, <3>1 DEF ReadLength, ReadLatestHash, HashData, HashEntry,
                        recording, TypeOK
  <2>4. QED
    BY <1>1, <1>4, <2>1, <2>2, <2>3 DEF TypeOK
<1>7. /\ stage'[c] = next
      /\ \A d \in Call : d # c => stage'[d] = stage[d]
  BY <1>1, <1>2, <1>3 DEF Await, TypeOK
<1>8. LocalsCurrent'
  <2> SUFFICES ASSUME NEW d \in Recorder
               PROVE  /\ before[d] <= Len(entries)
                      /\ Pending(d)' /\ before[d] = Len(entries) =>
                           /\ stage'[d] # "ensureInit" =>
                                sequence'[d] = Len(entries) + 1
                           /\ stage'[d] \notin {"ensureInit", "latestInit"} =>
                                prevHash'[d] = LatestHash(entries)
    BY <1>4 DEF LocalsCurrent
  <2>1. before[d] <= Len(entries)
    BY <1>1 DEF LocalsCurrent
  <2>2. CASE d # c
    <3>1. /\ stage'[d] = stage[d] /\ sequence'[d] = sequence[d]
          /\ prevHash'[d] = prevHash[d]
      BY <1>1, <1>7, <2>2 DEF ReadLength, ReadLatestHash, HashData, HashEntry,
                              recording, TypeOK, Call
    <3>2. QED
      BY <1>1, <2>1, <3>1 DEF LocalsCurrent, Pending
  <2>3. CASE d = c
    <3>1. CASE ReadLength(c)
      <4>1. stage'[c] = "latestInit" /\ sequence'[c] = Len(entries) + 1
        BY <1>1, <1>2, <3>1 DEF ReadLength, Await, TypeOK
      <4>2. QED
        BY <2>1, <2>3, <4>1
    <3>2. CASE ReadLatestHash(c)
      <4>1. /\ stage[c] = "latestInit" /\ prevHash'[c] = LatestHash(entries)
            /\ sequence'[c] = sequence[c]
        BY <1>1, <3>2 DEF ReadLatestHash, Turn, TypeOK
      <4>2. Pending(c)
        BY <4>1 DEF Pending
      <4>3. QED
        BY <1>1, <2>1, <2>3, <4>1, <4>2 DEF LocalsCurrent
    <3>3. CASE HashData(c) \/ HashEntry(c)
      <4>1. /\ stage[c] \in {"latestHash", "dataHash"}
            /\ sequence'[c] = sequence[c] /\ prevHash'[c] = prevHash[c]
        BY <3>3 DEF HashData, HashEntry, Turn, recording
      <4>2. Pending(c)
        BY <4>1 DEF Pending
      <4>3. QED
        BY <1>1, <2>1, <2>3, <4>1, <4>2 DEF LocalsCurrent
    <3>4. QED
      BY <3>1, <3>2, <3>3
  <2>4. QED
    BY <2>2, <2>3
<1>9. PassedLinked'
  <2>1. \A v \in Verifier : stage'[v] = stage[v]
    BY <1>7, CallAssumption DEF Call
  <2>2. QED
    BY <1>1, <1>4, <2>1 DEF PassedLinked
<1>10. EntriesInCallOrder' /\ WaitedCallsChain'
  BY <1>1, <1>4 DEF EntriesInCallOrder, WaitedCallsChain
<1>11. QED
  BY <1>5, <1>6, <1>8, <1>9, <1>10 DEF IndInv, OrderInv

(* A push changes nothing that was read before it, and what the pushing    *)
(* call read is current if nothing else was pushed since it was made.      *)
LEMMA PushKeeps ==
  ASSUME IndInv, NEW c \in Recorder, Push(c)
  PROVE  IndInv'
<1>1. /\ TypeOK /\ QueueWellFormed /\ StartedWellFormed /\ InStep
      /\ EntriesInCallOrder /\ LocalsCurrent /\ WaitedCallsChain
      /\ PassedLinked /\ OrderInv
  BY DEF IndInv, OrderInv
<1>2. c \in Call
  BY DEF Call
<1> DEFINE e == [by |-> c, sequence |-> sequence[c],
                 prev_hash |-> prevHash[c],
                 entry_hash |-> ComputeEntryHash(Said[c], prevHash[c])]
<1>3. /\ Turn(c, "entryHash") /\ Return(c) /\ entries' = Append(entries, e)
      /\ ready # <<>> /\ Head(ready) = c /\ stage[c] = "entryHash"
      /\ UNCHANGED <<sequence, prevHash, position, valid, started, before>>
  BY DEF Push, Pushed, Turn, history, verifying
<1>4. /\ e \in EpistemicEntry
      /\ e.by = c /\ e.sequence = sequence[c] /\ e.prev_hash = prevHash[c]
  BY <1>1, PushTyped
<1> HIDE DEF e
<1>5. PICK n \in Nat : /\ n = Len(entries) /\ DOMAIN entries = 1 .. n
                       /\ Len(entries') = n + 1
                       /\ DOMAIN entries' = 1 .. (n + 1)
                       /\ entries'[n + 1] = e
                       /\ \A p \in 1 .. n : entries'[p] = entries[p]
  BY <1>1, <1>3, <1>4, Appended DEF TypeOK
<1>6. /\ stage'[c] = "done"
      /\ \A d \in Call : d # c => stage'[d] = stage[d]
  BY <1>1, <1>2, <1>3 DEF Return, TypeOK
<1>7. n + 1 \in DOMAIN started /\ started[n + 1] = c
  BY <1>1, <1>3, <1>5, NextToPush
<1>8. \A k \in 1 .. (n + 1) : k \in 1 .. n \/ k = n + 1
  OBVIOUS
<1>9. TypeOK'
  <2>1. ready' \in Seq(Call) /\ stage' \in [Call -> Stages]
    BY <1>1, <1>2, <1>3, TurnTyped DEF Stages
  <2>2. entries' \in Seq(EpistemicEntry)
    BY <1>1, <1>3, <1>4, AppendProperties DEF TypeOK
  <2>3. QED
    BY <1>1, <1>3, <2>1, <2>2 DEF TypeOK
<1>10. QueueWellFormed' /\ InStep'
  BY <1>1, <1>2, <1>3, ReturnKeepsQueue
<1>11. StartedWellFormed'
  <2>1. \A i \in DOMAIN started : started[i] \in Recorder /\ started[i] \in Call
    BY <1>1 DEF TypeOK, Call
  <2>2. PICK m \in Nat : m = Len(started) /\ DOMAIN started = 1 .. m
    BY <1>1 DEF TypeOK
  <2>3. Len(entries') <= Len(started)
    BY <1>5, <1>7, <2>2
  <2>4. ASSUME NEW d \in Recorder
        PROVE  stage'[d] # "idle" <=> \E i \in DOMAIN started : started[i] = d
    <3>1. stage'[d] # "idle" <=> stage[d] # "idle"
      BY <1>3, <1>6 DEF Call
    <3>2. QED
      BY <1>1, <3>1 DEF StartedWellFormed
  <2>5. ASSUME NEW i \in DOMAIN started
        PROVE  stage'[started[i]] = "done" <=> i <= n + 1
    <3>1. i \in Nat
      BY <2>2
    <3>2. CASE i = n + 1
      BY <1>6, <1>7, <3>2
    <3>3. CASE i # n + 1
      <4>1. started[i] # c
        BY <1>1, <1>7, <3>3 DEF StartedWellFormed
      <4>2. stage'[started[i]] = "done" <=> i <= n
        BY <1>1, <1>5, <1>6, <2>1, <4>1 DEF StartedWellFormed
      <4>3. i <= n <=> i <= n + 1
        BY <3>1, <3>3
      <4>4. QED
        BY <4>2, <4>3
    <3>4. QED
      BY <3>2, <3>3
  <2>6. QED
    BY <1>1, <1>3, <1>5, <2>3, <2>4, <2>5 DEF StartedWellFormed
<1>12. EntriesInCallOrder'
  BY <1>1, <1>3, <1>4, <1>5, <1>7, <1>8 DEF EntriesInCallOrder
<1>13. \A d \in Recorder : before[d] \in Nat /\ before[d] <= n
  BY <1>1, <1>5 DEF LocalsCurrent, TypeOK, Call
<1>14. LocalsCurrent'
  <2>1. \A d \in Recorder : before[d] <= n + 1 /\ before[d] # n + 1
    BY <1>13
  <2>2. QED
    BY <1>3, <1>5, <2>1 DEF LocalsCurrent
<1>15. WaitedCallsChain'
  <2> SUFFICES ASSUME NEW k \in 1 .. (n + 1),
                      before[entries'[k].by] = k - 1
               PROVE  Linked(entries', k) /\ entries'[k].sequence = k
    BY <1>3, <1>5 DEF WaitedCallsChain
  <2>1. CASE k \in 1 .. n
    <3>1. Linked(entries, k) /\ entries[k].sequence = k
      BY <1>1, <1>5, <2>1 DEF WaitedCallsChain
    <3>2. Linked(entries', k)
      BY <1>5, <2>1, <3>1, LinkedKept
    <3>3. QED
      BY <1>5, <2>1, <3>1, <3>2
  <2>2. CASE k = n + 1
    <3>1. before[c] = Len(entries) /\ Pending(c)
      BY <1>3, <1>4, <1>5, <2>2 DEF Pending
    <3>2. sequence[c] = n + 1 /\ prevHash[c] = LatestHash(entries)
      BY <1>1, <1>3, <1>5, <3>1 DEF LocalsCurrent
    <3>3. Linked(entries', n + 1)
      <4>1. CASE n = 0
        BY <1>1, <1>4, <1>5, <3>2, <4>1 DEF Linked, LatestHash, TypeOK
      <4>2. CASE n # 0
        <5>1. entries # <<>> /\ n \in 1 .. n /\ n + 1 # 1 /\ (n + 1) - 1 = n
          BY <1>5, <4>2
        <5>2. QED
          BY <1>4, <1>5, <3>2, <5>1 DEF Linked, LatestHash
      <4>3. QED
        BY <4>1, <4>2
    <3>4. QED
      BY <1>4, <1>5, <2>2, <3>2, <3>3
  <2>3. QED
    BY <1>8, <2>1, <2>2
<1>16. PassedLinked'
  <2> SUFFICES ASSUME NEW v \in Verifier, stage'[v] \in {"dataHash", "entryHash"}
               PROVE  /\ position[v] \in 1 .. (n + 1)
                      /\ \A k \in 1 .. position[v] : Linked(entries', k)
    BY <1>3, <1>5 DEF PassedLinked
  <2>1. stage'[v] = stage[v]
    BY <1>6, CallAssumption DEF Call
  <2>2. /\ position[v] \in 1 .. n
        /\ \A k \in 1 .. position[v] : Linked(entries, k)
    BY <1>1, <1>5, <2>1 DEF PassedLinked
  <2>3. \A k \in 1 .. position[v] : k \in 1 .. n
    BY <2>2
  <2>4. \A k \in 1 .. position[v] : Linked(entries', k)
    BY <1>5, <2>2, <2>3, LinkedKept
  <2>5. QED
    BY <2>2, <2>4
<1>17. QED
  BY <1>9, <1>10, <1>11, <1>12, <1>14, <1>15, <1>16 DEF IndInv

(* A turn of verifyIntegrity() changes nothing of the calls of record().   *)
LEMMA VerifierTurnKeeps ==
  ASSUME IndInv, NEW v \in Verifier, TypeOK', OrderInv', PassedLinked',
         \A d \in Call : d # v => stage'[d] = stage[d],
         UNCHANGED <<recording, history>>
  PROVE  IndInv'
<1>1. \A d \in Recorder : stage'[d] = stage[d]
  BY CallAssumption DEF Call
<1>2. UNCHANGED <<sequence, prevHash, entries, started, before>>
  BY DEF recording, history
<1>3. EntriesInCallOrder' /\ WaitedCallsChain'
  BY <1>2 DEF IndInv, EntriesInCallOrder, WaitedCallsChain
<1>4. LocalsCurrent'
  BY <1>1, <1>2 DEF IndInv, LocalsCurrent, Pending
<1>5. QED
  BY <1>3, <1>4 DEF IndInv, OrderInv

(* At its position it either goes on, all entries up to there linked, or   *)
(* answers.                                                                *)
LEMMA VisitKeeps ==
  ASSUME IndInv, NEW v \in Verifier, NEW k \in Nat \ {0},
         \A i \in 1 .. (k - 1) : Linked(entries, i),
         ready # <<>>, Head(ready) = v, Pending(v),
         Visit(v, k), UNCHANGED <<recording, history>>
  PROVE  IndInv'
<1>1. /\ TypeOK /\ OrderInv /\ PassedLinked /\ v \in Call /\ v \notin Recorder
      /\ UNCHANGED <<sequence, prevHash, entries, started, before>>
  BY CallAssumption DEF IndInv, OrderInv, Call, recording, history
<1>2. /\ position' = [position EXCEPT ![v] = k]
      /\ valid' \in [Verifier -> BOOLEAN]
      /\ Return(v) \/ (~AtEnd(v, k) /\ Linked(entries, k) /\ Await(v, "dataHash"))
  BY <1>1 DEF Visit, AtEnd, TypeOK
<1>3. TypeOK'
  <2>1. ready' \in Seq(Call) /\ stage' \in [Call -> Stages]
    <3>1. "dataHash" \in Stages
      BY DEF Stages
    <3>2. QED
      BY <1>1, <1>2, <3>1, TurnTyped
  <2>2. QED
    BY <1>1, <1>2, <2>1 DEF TypeOK
<1>4. \A d \in Call : d # v => stage'[d] = stage[d]
  BY <1>1, <1>2 DEF Return, Await, TypeOK
<1>5. OrderInv'
  <2>1. CASE Return(v)
    <3>1. QueueWellFormed' /\ InStep'
      BY <1>1, <2>1, ReturnKeepsQueue
    <3>2. \A d \in Recorder : stage'[d] = stage[d]
      BY <1>1, <1>4 DEF Call
    <3>3. \A i \in DOMAIN started : started[i] \in Recorder
      BY <1>1 DEF TypeOK
    <3>4. StartedWellFormed'
      BY <1>1, <3>2, <3>3 DEF OrderInv, StartedWellFormed
    <3>5. QED
      BY <3>1, <3>4 DEF OrderInv
  <2>2. CASE Await(v, "dataHash")
    <3>1. "dataHash" \in Stages \ {"idle", "done"}
      BY DEF Stages
    <3>2. QED
      BY <1>1, <2>2, <3>1, AwaitKeepsOrder
  <2>3. QED
    BY <1>2, <2>1, <2>2
<1>6. PassedLinked'
  <2> SUFFICES ASSUME NEW w \in Verifier, stage'[w] \in {"dataHash", "entryHash"}
               PROVE  /\ position'[w] \in DOMAIN entries
                      /\ \A i \in 1 .. position'[w] : Linked(entries, i)
    BY <1>1 DEF PassedLinked
  <2>1. CASE w # v
    <3>1. stage'[w] = stage[w] /\ position'[w] = position[w]
      BY <1>1, <1>2, <1>4, <2>1 DEF Call, TypeOK
    <3>2. QED
      BY <1>1, <3>1 DEF PassedLinked
  <2>2. CASE w = v
    <3>1. ~Return(v)
      BY <1>1, <2>2 DEF Return, TypeOK
    <3>2. ~(k > Len(entries)) /\ Linked(entries, k) /\ position'[v] = k
      BY <1>1, <1>2, <3>1 DEF AtEnd, TypeOK
    <3>3. k \in DOMAIN entries
      BY <1>1, <3>2 DEF TypeOK
    <3>4. \A i \in 1 .. k : i \in 1 .. (k - 1) \/ i = k
      OBVIOUS
    <3>5. QED
      BY <2>2, <3>2, <3>3, <3>4
  <2>3. QED
    BY <2>1, <2>2
<1>7. QED
  BY <1>3, <1>4, <1>5, <1>6, VerifierTurnKeeps

(* verifyIntegrity() visits its entries from the first on.                 *)
LEMMA Visits ==
  ASSUME IndInv, NEW v \in Verifier, VisitFirst(v) \/ VisitNext(v)
  PROVE  \E k \in Nat \ {0} :
           /\ Visit(v, k)
           /\ \A i \in 1 .. (k - 1) : Linked(entries, i)
           /\ ready # <<>> /\ Head(ready) = v /\ Pending(v)
           /\ UNCHANGED <<recording, history>>
<1>1. CASE VisitFirst(v)
  <2>1. /\ Visit(v, 1) /\ ready # <<>> /\ Head(ready) = v /\ Pending(v)
        /\ UNCHANGED <<recording, history>>
    BY <1>1 DEF VisitFirst, Turn, Pending
  <2>2. 1 \in Nat \ {0} /\ \A i \in 1 .. (1 - 1) : Linked(entries, i)
    OBVIOUS
  <2>3. QED
    BY <2>1, <2>2
<1>2. CASE VisitNext(v)
  <2>1. /\ Visit(v, position[v] + 1) /\ ready # <<>> /\ Head(ready) = v
        /\ Pending(v) /\ stage[v] = "entryHash"
        /\ UNCHANGED <<recording, history>>
    BY <1>2 DEF VisitNext, NextEntry, Turn, Pending
  <2>2. position[v] \in Nat
    BY DEF IndInv, TypeOK
  <2>3. \A i \in 1 .. position[v] : Linked(entries, i)
    BY <2>1 DEF IndInv, PassedLinked
  <2>4. position[v] + 1 \in Nat \ {0} /\ (position[v] + 1) - 1 = position[v]
    BY <2>2
  <2>5. QED
    BY <2>1, <2>3, <2>4
<1>3. QED
  BY <1>1, <1>2

(* It keeps its position while it recomputes an entry's hashes.            *)
LEMMA RehashDataKeeps ==
  ASSUME IndInv, NEW v \in Verifier, RehashData(v)
  PROVE  IndInv'
<1>1. /\ TypeOK /\ OrderInv /\ PassedLinked /\ v \in Call /\ v \notin Recorder
  BY CallAssumption DEF IndInv, OrderInv, Call
<1>2. /\ ready # <<>> /\ Head(ready) = v /\ stage[v] = "dataHash"
      /\ Await(v, "entryHash") /\ UNCHANGED <<recording, verifying, history>>
      /\ UNCHANGED <<sequence, prevHash, entries, started, before, position,
                     valid>>
  BY DEF RehashData, Turn, recording, verifying, history
<1>3. "entryHash" \in Stages \ {"idle", "done"}
  BY DEF Stages
<1>4. TypeOK'
  <2>1. ready' \in Seq(Call) /\ stage' \in [Call -> Stages]
    BY <1>1, <1>2, <1>3, TurnTyped
  <2>2. QED
    BY <1>1, <1>2, <2>1 DEF TypeOK
<1>5. OrderInv'
  BY <1>1, <1>2, <1>3, AwaitKeepsOrder
<1>6. \A d \in Call : d # v => stage'[d] = stage[d]
  BY <1>1, <1>2 DEF Await, TypeOK
<1>7. PassedLinked'
  <2>1. \A w \in Verifier : stage'[w] \in {"dataHash", "entryHash"} =>
                              stage[w] \in {"dataHash", "entryHash"}
    BY <1>2, <1>6 DEF Call
  <2>2. QED
    BY <1>1, <1>2, <2>1 DEF PassedLinked
<1>8. QED
  BY <1>2, <1>4, <1>5, <1>6, <1>7, VerifierTurnKeeps

(* A new call has read nothing yet, and no entry is its own.               *)
LEMMA StartKeeps ==
  ASSUME IndInv, NEW c \in Call, Start(c)
  PROVE  IndInv'
<1>1. /\ TypeOK /\ OrderInv /\ StartedWellFormed /\ EntriesInCallOrder
      /\ LocalsCurrent /\ WaitedCallsChain /\ PassedLinked
  BY DEF IndInv, OrderInv
<1>2. /\ stage[c] = "idle" /\ stage' = [stage EXCEPT ![c] = "ensureInit"]
      /\ ready' = Append(ready, c)
      /\ started' = IF c \in Recorder THEN Append(started, c) ELSE started
      /\ before' = [before EXCEPT ![c] = Len(entries)]
      /\ UNCHANGED <<sequence, prevHash, entries, position, valid>>
  BY DEF Start, recording, verifying
<1>3. /\ stage'[c] = "ensureInit" /\ before'[c] = Len(entries)
      /\ \A d \in Call : d # c => stage'[d] = stage[d] /\ before'[d] = before[d]
  BY <1>1, <1>2 DEF TypeOK
<1>4. OrderInv'
  BY <1>1, StartKeepsOrder
<1>5. TypeOK'
  <2>1. ready' \in Seq(Call) /\ started' \in Seq(Recorder)
    BY <1>1, <1>2, AppendProperties DEF TypeOK
  <2>2. Len(entries) \in Nat /\ "ensureInit" \in Stages
    BY <1>1 DEF TypeOK, Stages
  <2>3. QED
    BY <1>1, <1>2, <2>1, <2>2 DEF TypeOK
<1>6. \A k \in DOMAIN entries :
        /\ k \in DOMAIN started /\ started'[k] = started[k]
        /\ started[k] \in Recorder /\ started[k] # c
  <2> TAKE k \in DOMAIN entries
  <2>1. PICK n \in Nat : n = Len(entries) /\ DOMAIN entries = 1 .. n
    BY <1>1 DEF TypeOK
  <2>2. PICK m \in Nat : m = Len(started) /\ DOMAIN started = 1 .. m
    BY <1>1 DEF TypeOK
  <2>3. k \in 1 .. m /\ k <= n
    BY <1>1, <2>1, <2>2 DEF StartedWellFormed
  <2>4. started[k] \in Recorder /\ stage[started[k]] = "done"
    BY <1>1, <2>1, <2>2, <2>3 DEF StartedWellFormed, TypeOK
  <2>5. started'[k] = started[k]
    <3>1. CASE c \in Recorder
      BY <1>1, <1>2, <2>2, <2>3, <3>1, Appended DEF TypeOK
    <3>2. CASE c \notin Recorder
      BY <1>2, <3>2
    <3>3. QED
      BY <3>1, <3>2
  <2>6. QED
    BY <1>2, <2>2, <2>3, <2>4, <2>5
<1>7. EntriesInCallOrder'
  BY <1>1, <1>2, <1>6 DEF EntriesInCallOrder
<1>8. WaitedCallsChain'
  <2>1. \A k \in DOMAIN entries : before'[entries[k].by] = before[entries[k].by]
    BY <1>1, <1>3, <1>6 DEF EntriesInCallOrder, Call
  <2>2. QED
    BY <1>1, <1>2, <2>1 DEF WaitedCallsChain
<1>9. LocalsCurrent'
  <2> SUFFICES ASSUME NEW d \in Recorder
               PROVE  /\ before'[d] <= Len(entries)
                      /\ Pending(d)' /\ before'[d] = Len(entries) =>
                           /\ stage'[d] # "ensureInit" =>
                                sequence[d] = Len(entries) + 1
                           /\ stage'[d] \notin {"ensureInit", "latestInit"} =>
                                prevHash[d] = LatestHash(entries)
    BY <1>2 DEF LocalsCurrent
  <2>1. CASE d = c
    <3>1. Len(entries) <= Len(entries)
      BY <1>1 DEF TypeOK
    <3>2. QED
      BY <1>3, <2>1, <3>1
  <2>2. CASE d # c
    BY <1>1, <1>3, <2>2 DEF LocalsCurrent, Pending, Call
  <2>3. QED
    BY <2>1, <2>2
<1>10. PassedLinked'
  <2>1. \A w \in Verifier : stage'[w] \in {"dataHash", "entryHash"} =>
                              stage[w] \in {"dataHash", "entryHash"}
    BY <1>3 DEF Call
  <2>2. QED
    BY <1>1, <1>2, <2>1 DEF PassedLinked
<1>11. QED
  BY <1>4, <1>5, <1>7, <1>8, <1>9, <1>10 DEF IndInv, OrderInv

-----------------------------------------------------------------------------
(***************************************************************************)
(* The theorems.                                                           *)
(***************************************************************************)
LEMMA InitHolds == Init => IndInv
<1> SUFFICES ASSUME Init PROVE IndInv
  OBVIOUS
<1>1. /\ ready = <<>> /\ entries = <<>> /\ started = <<>>
      /\ DOMAIN ready = {} /\ DOMAIN entries = {} /\ DOMAIN started = {}
      /\ Len(entries) = 0 /\ Len(started) = 0
      /\ \A c \in Call : stage[c] = "idle" /\ before[c] = 0
  BY DEF Init
<1>2. TypeOK
  <2>1. GENESIS_HASH \in Hash
    BY EmptySeq DEF GENESIS_HASH, Hash
  <2>2. /\ <<>> \in Seq(Call) /\ <<>> \in Seq(EpistemicEntry)
        /\ <<>> \in Seq(Recorder) /\ "idle" \in Stages
    BY EmptySeq DEF Stages
  <2>3. QED
    BY <2>1, <2>2 DEF Init, TypeOK
<1>3. QueueWellFormed /\ InStep /\ EntriesInCallOrder /\ WaitedCallsChain
  BY <1>1 DEF QueueWellFormed, InStep, EntriesInCallOrder, WaitedCallsChain,
              Pending
<1>4. StartedWellFormed /\ LocalsCurrent /\ PassedLinked
  BY <1>1 DEF StartedWellFormed, LocalsCurrent, PassedLinked, Pending, Call
<1>5. QED
  BY <1>2, <1>3, <1>4 DEF IndInv

LEMMA StepKeeps == IndInv /\ [Next]_vars => IndInv'
<1> SUFFICES ASSUME IndInv, [Next]_vars PROVE IndInv'
  OBVIOUS
<1>1. ASSUME NEW c \in Recorder,
             ReadLength(c) \/ ReadLatestHash(c) \/ HashData(c) \/ HashEntry(c)
      PROVE  IndInv'
  BY <1>1, RecordTurn
<1>2. ASSUME NEW c \in Recorder, Push(c)
      PROVE  IndInv'
  BY <1>2, PushKeeps
<1>3. ASSUME NEW v \in Verifier, VisitFirst(v) \/ VisitNext(v)
      PROVE  IndInv'
  BY <1>3, Visits, VisitKeeps
<1>4. ASSUME NEW v \in Verifier, RehashData(v)
      PROVE  IndInv'
  BY <1>4, RehashDataKeeps
<1>5. ASSUME NEW c \in Call, Start(c)
      PROVE  IndInv'
  BY <1>5, StartKeeps
<1>6. CASE UNCHANGED vars
  BY <1>6 DEF vars, IndInv, TypeOK, QueueWellFormed, StartedWellFormed,
              EntriesInCallOrder, InStep, LocalsCurrent, WaitedCallsChain,
              PassedLinked, Pending
<1>7. QED
  BY <1>1, <1>2, <1>3, <1>4, <1>5, <1>6 DEF Next, RunCall

(* However calls overlap, the turns of the event loop preserve the         *)
(* inductive invariant of the asynchronous log.                            *)
THEOREM Inductive == Spec => []IndInv
BY InitHolds, StepKeeps, PTL DEF Spec

(* The log, the queue and the calls' locals keep their types.              *)
THEOREM TypeCorrect == Spec => []TypeOK
<1>1. IndInv => TypeOK
  BY DEF IndInv
<1>2. QED
  BY <1>1, Inductive, PTL

(* However calls of record() overlap, they push their entries in the order *)
(* in which they were made.                                                *)
THEOREM OverlapKeepsOrder == Spec => []EntriesInCallOrder
<1>1. IndInv => EntriesInCallOrder
  BY DEF IndInv
<1>2. QED
  BY <1>1, Inductive, PTL

(* A call of record() that is made when those before it have returned      *)
(* extends the chain by one entry, whatever overlaps with it afterwards.   *)
THEOREM WaitingKeepsChain == Spec => []WaitedCallsChain
<1>1. IndInv => WaitedCallsChain
  BY DEF IndInv
<1>2. QED
  BY <1>1, Inductive, PTL

(* verifyIntegrity() answers for the log of the turn in which it answers,  *)
(* however many entries were pushed while it awaited.                      *)
THEOREM AnswersAreCurrent == Spec => AnswerIsCurrent
<1> DEFINE Current == \A v \in Verifier :
             stage[v] # "done" /\ stage'[v] = "done" =>
               (valid'[v] <=> \A k \in DOMAIN entries : Linked(entries, k))
<1>1. ASSUME IndInv, [Next]_vars, NEW v \in Verifier,
             stage[v] # "done", stage'[v] = "done"
      PROVE  valid'[v] <=> \A k \in DOMAIN entries : Linked(entries, k)
  <2>1. TypeOK /\ v \in Call /\ v \notin Recorder
    BY <1>1, CallAssumption DEF IndInv, Call
  <2>2. VisitFirst(v) \/ VisitNext(v)
    <3>1. ASSUME NEW c \in Call, stage'[c] = stage[c] \/ stage'[c] # "done",
                 \A d \in Call : d # c => stage'[d] = stage[d]
          PROVE  FALSE
      BY <1>1, <2>1, <3>1
    <3>2. ASSUME NEW c \in Call, Start(c) PROVE FALSE
      BY <2>1, <3>1, <3>2 DEF Start, TypeOK
    <3>3. ASSUME NEW c \in Call, NEW next, Await(c, next), next # "done"
          PROVE  FALSE
      BY <2>1, <3>1, <3>3 DEF Await, TypeOK
    <3>4. ASSUME NEW c \in Recorder, Push(c) PROVE FALSE
      BY <1>1, <2>1, <3>4 DEF Push, Return, TypeOK, Call
    <3>5. ASSUME NEW w \in Verifier, w # v, Visit(w, 1) \/ Visit(w, NextEntry(w))
          PROVE  FALSE
      BY <1>1, <2>1, <3>5 DEF Visit, Return, Await, TypeOK, Call
    <3>6. ~UNCHANGED vars
      BY <1>1 DEF vars
    <3>7. QED
      BY <1>1, <3>2, <3>3, <3>4, <3>5, <3>6
         DEF Next, RunCall, ReadLength, ReadLatestHash, HashData, HashEntry,
             FirstHash, VisitFirst, RehashData, VisitNext, Call
  <2>3. PICK k \in Nat \ {0} :
          Visit(v, k) /\ \A i \in 1 .. (k - 1) : Linked(entries, i)
    BY <1>1, <2>2, Visits
  <2>4. /\ valid'[v] = (k > Len(entries))
        /\ k > Len(entries) \/ ~Linked(entries, k)
    BY <1>1, <2>1, <2>3 DEF Visit, AtEnd, Await, TypeOK
  <2>5. PICK n \in Nat : n = Len(entries) /\ DOMAIN entries = 1 .. n
    BY <2>1 DEF TypeOK
  <2>6. CASE k > n
    <3>1. \A i \in 1 .. n : i \in 1 .. (k - 1)
      BY <2>6
    <3>2. QED
      BY <2>3, <2>4, <2>5, <2>6, <3>1
  <2>7. CASE ~(k > n)
    <3>1. k \in 1 .. n
      BY <2>7
    <3>2. QED
      BY <2>4, <2>5, <2>7, <3>1
  <2>8. QED
    BY <2>6, <2>7
<1>2. IndInv /\ [Next]_vars => [Current]_vars
  BY <1>1
<1>3. QED
  BY <1>2, Inductive, PTL DEF Spec, AnswerIsCurrent
=============================================================================
