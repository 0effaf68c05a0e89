----------------------- MODULE RevocationList_proofs -----------------------
(***************************************************************************)
(* The registry and its revocation list, for any number of owners, calls,  *)
(* cards and client threads, and for all values of the timing constants.   *)
(***************************************************************************)
EXTENDS RevocationList, FiniteSetTheorems, SequenceTheorems, TLAPS

(* What a registration in flight has read or written is still so: cards    *)
(* are never removed, and their owner and supersedes never change.         *)
CallSound(c) ==
  /\ calls[c].at \in {"checked", "created"} /\ calls[c].req.supersedes # None =>
       /\ calls[c].req.supersedes \in DOMAIN cards
       /\ cards[calls[c].req.supersedes].owner = calls[c].req.owner
  /\ calls[c].at = "created" =>
       /\ calls[c].req.supersedes # None
       /\ calls[c].new \in DOMAIN cards
       /\ cards[calls[c].new].supersedes = calls[c].req.supersedes

CallsSound == \A c \in Call : CallSound(c)

(* An entry of a history tells the truth about the fields of its card that *)
(* do not change, is of the lineage's owner, and names a successor that    *)
(* supersedes it, if it names one.                                         *)
EntrySound(e, asked) ==
  /\ e.id \in DOMAIN cards
  /\ e.owner = cards[e.id].owner
  /\ e.owner = cards[asked].owner
  /\ e.supersedes = cards[e.id].supersedes
  /\ Numbered => e.version = cards[e.id].version
  /\ e.superseded_by # None =>
       /\ e.superseded_by \in DOMAIN cards
       /\ cards[e.superseded_by].supersedes = e.id

(* The history gathered so far is an unbroken line through the card asked  *)
(* for, each entry the successor of the one before.                        *)
WalkSound ==
  walk.at # "idle" =>
    LET ch == walk.chain IN
    /\ ch # <<>> /\ walk.asked \in DOMAIN cards
    /\ \A k \in DOMAIN ch : EntrySound(ch[k], walk.asked)
    /\ \E k \in DOMAIN ch : ch[k].id = walk.asked
    /\ \A k \in 2 .. Len(ch) : ch[k].supersedes = ch[k - 1].id
    /\ walk.at # "walking" => ch[1].supersedes = None

RegistryInd ==
  /\ RegistryTypeOK
  /\ CallsSound
  /\ SuccessorPointsBack
  /\ TwoActiveOnlyIfTorn
  /\ WalkSound
  /\ HistoryFailsOnVersionsOnly

(* list does not tell of a revocation.                                     *)
Misses(list, i) == cards[i].status = "revoked" /\ i \notin list.revoked

ListTypeOK ==
  /\ crl \in [list : CRL, until : Nat]
  /\ cache \in CRL
  /\ threads \in [Thread -> ThreadState]
  /\ reply \in [agent : 0 .. MaxCards, revoked : BOOLEAN]

(* Wherever a list is, at the server, on its way or in the client's cache, *)
(* a revocation it misses is no older than the time the list has spent so  *)
(* far allows; and a client about to answer from a list it has just        *)
(* received, or another thread has, is within the request's time.          *)
ListsRecent ==
  /\ crl.until <= clock + CRL_CACHE_SECONDS
  /\ cache.valid_until <= clock + TTL
  /\ \A t \in Thread :
       /\ threads[t].at # "idle" => threads[t].agent \in DOMAIN cards
       /\ threads[t].at \in {"asking", "receiving"} => threads[t].sent <= clock
  /\ \A i \in DOMAIN cards :
       LET at == cards[i].revoked_at IN
       /\ Misses(crl.list, i) => crl.until <= at + CRL_CACHE_SECONDS
       /\ \A t \in Thread :
            threads[t].at = "receiving" /\ Misses(threads[t].list, i) =>
              threads[t].sent <= at + CRL_CACHE_SECONDS
       /\ Misses(cache, i) =>
            /\ cache.valid_until <=
                 at + CRL_CACHE_SECONDS + RequestTimeout + TTL
            /\ (\E t \in Thread : threads[t].at = "refreshed") =>
                 clock <= at + CRL_CACHE_SECONDS + RequestTimeout

ListInd == ListTypeOK /\ ListsRecent /\ StalenessBounded

IndInv == RegistryInd /\ ListInd

-----------------------------------------------------------------------------
(***************************************************************************)
(* The registry.  A step keeps the cards there are, and of each the fields *)
(* that calls in flight and histories have read.                           *)
(***************************************************************************)
Kept ==
  /\ DOMAIN cards \subseteq DOMAIN cards'
  /\ \A i \in DOMAIN cards :
       /\ cards'[i].owner = cards[i].owner
       /\ cards'[i].version = cards[i].version
       /\ cards'[i].supersedes = cards[i].supersedes

(* A history being gathered stays sound while other handlers take steps,   *)
(* and one that has been answered is forgotten.                            *)
LEMMA WalkUndisturbed ==
  ASSUME RegistryTypeOK, WalkSound, HistoryFailsOnVersionsOnly, Kept, NoAnswers
  PROVE  /\ verdict' \in [card : {None} \cup DOMAIN cards', reason : {"none"}]
         /\ walk' \in [at : {"idle", "walking"},
                       asked : {None} \cup DOMAIN cards', chain : Seq(Entry)]
         /\ WalkSound'
         /\ HistoryFailsOnVersionsOnly'
<1>1. CASE walk.at = "walking"
  <2>1. walk' = walk
    BY <1>1 DEF NoAnswers
  <2>2. /\ verdict' \in [card : {None} \cup DOMAIN cards', reason : {"none"}]
        /\ walk' \in [at : {"idle", "walking"},
                      asked : {None} \cup DOMAIN cards', chain : Seq(Entry)]
        /\ HistoryFailsOnVersionsOnly'
    BY <1>1, <2>1 DEF NoAnswers, NoVerdict, RegistryTypeOK, Kept,
                      HistoryFailsOnVersionsOnly
  <2>3. \A k \in DOMAIN walk.chain : EntrySound(walk.chain[k], walk.asked)'
    BY <1>1, <2>1 DEF EntrySound, WalkSound, Kept
  <2>4. QED
    BY <1>1, <2>1, <2>2, <2>3 DEF WalkSound, Kept
<1>2. CASE walk.at # "walking"
  BY <1>2 DEF NoAnswers, NoVerdict, NoWalk, RegistryTypeOK, WalkSound,
              HistoryFailsOnVersionsOnly
<1>3. QED
  BY <1>1, <1>2

(* What the calls in flight know is not disturbed by the steps of others.  *)
LEMMA CallUndisturbed ==
  ASSUME CallsSound, Kept, NEW c \in Call, calls'[c] = calls[c]
  PROVE  CallSound(c)'
BY DEF CallsSound, CallSound, Kept

LEMMA RegistryInitInd == RegistryInit => RegistryInd
BY RegistryAssumption
   DEF RegistryInit, RegistryInd, RegistryTypeOK, CallsSound, CallSound,
       SuccessorPointsBack, TwoActiveOnlyIfTorn, WalkSound,
       HistoryFailsOnVersionsOnly, CallState, NoVerdict, NoWalk

(* A superseded card is one of the cards.                                  *)
LEMMA SupersededIsCard ==
  ASSUME RegistryTypeOK, SuccessorPointsBack, NEW i \in DOMAIN cards,
         cards[i].supersedes # None
  PROVE  cards[i].supersedes \in DOMAIN cards
<1>1. /\ cards \in Seq(AgentCard) /\ cards[i] \in AgentCard
      /\ i \in Nat /\ cards[i].supersedes < i
  BY DEF RegistryTypeOK, SuccessorPointsBack
<1>2. cards[i].supersedes \in Nat \ {0}
  BY <1>1 DEF AgentCard, None
<1>3. QED
  BY <1>1, <1>2

(* Steps that leave the cards and the registrations alone.                 *)
LEMMA SilentInd ==
  ASSUME RegistryInd, NoAnswers, clock' \in 0 .. MaxClock,
         UNCHANGED <<cards, calls, torn>>
  PROVE  RegistryInd'
<1> USE DEF RegistryInd
<1>1. Kept
  BY DEF Kept
<1>2. RegistryTypeOK'
  BY <1>1, WalkUndisturbed DEF RegistryTypeOK
<1>3. CallsSound'
  BY <1>1, CallUndisturbed DEF CallsSound
<1>4. SuccessorPointsBack' /\ TwoActiveOnlyIfTorn'
  BY DEF SuccessorPointsBack, TwoActiveOnlyIfTorn
<1>5. QED
  BY <1>1, <1>2, <1>3, <1>4, WalkUndisturbed

LEMMA CheckRequestInd ==
  ASSUME RegistryInd, NEW c \in Call, NEW owner \in Owner,
         NEW old \in {None} \cup DOMAIN cards, NEW exp \in Expiries,
         CheckRequest(c, owner, old, exp)
  PROVE  RegistryInd'
<1> USE DEF RegistryInd
<1>1. Kept
  BY DEF Kept, CheckRequest
<1>2. PICK v \in Versions \cup {PreparedVersion(old)} :
        calls' = [calls EXCEPT ![c] =
                    [at |-> "checked",
                     req |-> [owner |-> owner, supersedes |-> old,
                              version |-> v, expires_at |-> exp]]]
  BY DEF CheckRequest
<1>3. v \in Nat \ {0} /\ old \in 0 .. MaxCards
  <2>1. cards \in Seq(AgentCard) /\ Len(cards) <= MaxCards /\ MaxCards \in Nat
    BY RegistryAssumption DEF RegistryTypeOK
  <2>2. old # None => old \in 1 .. Len(cards) /\ cards[old] \in AgentCard
    BY <2>1
  <2>3. PreparedVersion(old) \in Nat \ {0}
    BY <2>2 DEF PreparedVersion, AgentCard
  <2>4. QED
    BY <2>1, <2>2, <2>3, RegistryAssumption DEF None
<1>4. calls' \in [Call -> CallState]
  BY <1>2, <1>3 DEF RegistryTypeOK, CallState, Request
<1>5. RegistryTypeOK'
  BY <1>1, <1>4, WalkUndisturbed DEF RegistryTypeOK, CheckRequest
<1>6. CallsSound'
  <2>1. CallSound(c)'
    BY <1>2 DEF CheckRequest, CallSound, SameOwner, RegistryTypeOK
  <2>2. \A d \in Call \ {c} : CallSound(d)'
    BY <1>1, <1>2, CallUndisturbed DEF RegistryTypeOK
  <2>3. QED
    BY <2>1, <2>2 DEF CallsSound
<1>7. SuccessorPointsBack'
  BY DEF SuccessorPointsBack, CheckRequest
<1>8. TwoActiveOnlyIfTorn'
  <2>1. \A d \in Call : calls[d].at = "created" => calls'[d] = calls[d]
    BY <1>2 DEF CheckRequest, RegistryTypeOK
  <2>2. QED
    BY <2>1 DEF TwoActiveOnlyIfTorn, CheckRequest
<1>9. QED
  BY <1>1, <1>5, <1>6, <1>7, <1>8, WalkUndisturbed DEF CheckRequest

LEMMA CreateCardInd ==
  ASSUME RegistryInd, NEW c \in Call, CreateCard(c)
  PROVE  RegistryInd'
<1> USE DEF RegistryInd
<1> DEFINE n   == Len(cards) + 1
           req == calls[c].req
<1>1. /\ calls[c].at = "checked" /\ Len(cards) < MaxCards
      /\ cards' = Append(cards, NewCard(req))
      /\ NoAnswers /\ UNCHANGED <<clock, torn>>
  BY DEF CreateCard
<1>2. calls[c] \in CallState /\ cards \in Seq(AgentCard)
  BY DEF RegistryTypeOK
<1>3. req \in Request
  BY <1>1, <1>2 DEF CallState
<1>4. NewCard(req) \in AgentCard
  BY <1>3, RegistryAssumption DEF NewCard, AgentCard, Request, Status, None
<1>5. /\ cards' \in Seq(AgentCard) /\ Len(cards') = n
      /\ DOMAIN cards' = DOMAIN cards \cup {n} /\ n \notin DOMAIN cards
      /\ cards'[n] = NewCard(req)
      /\ \A i \in DOMAIN cards : cards'[i] = cards[i]
  BY <1>1, <1>2, <1>4
<1>6. Kept
  BY <1>5 DEF Kept
<1>7. /\ calls' = [calls EXCEPT ![c] =
                     IF req.supersedes = None THEN [at |-> "idle"]
                     ELSE [at |-> "created", req |-> req, new |-> n]]
      /\ n \in 1 .. MaxCards
  BY <1>1, <1>2, RegistryAssumption DEF CreateCard
<1>8. calls' \in [Call -> CallState]
  BY <1>3, <1>7 DEF RegistryTypeOK, CallState
<1>9. RegistryTypeOK'
  BY <1>1, <1>5, <1>6, <1>7, <1>8, WalkUndisturbed DEF RegistryTypeOK
<1>10. CallSound(c)
  BY DEF CallsSound
<1>11. CallsSound'
  <2>1. CallSound(c)'
    BY <1>1, <1>5, <1>7, <1>10 DEF CallSound, NewCard, RegistryTypeOK
  <2>2. \A d \in Call \ {c} : CallSound(d)'
    BY <1>6, <1>7, CallUndisturbed DEF RegistryTypeOK
  <2>3. QED
    BY <2>1, <2>2 DEF CallsSound
<1>12. SuccessorPointsBack'
  <2>1. ASSUME NEW i \in DOMAIN cards
        PROVE  /\ cards[i].supersedes # None =>
                    cards[i].supersedes \in DOMAIN cards
               /\ cards'[i] = cards[i]
    BY <1>5, SupersededIsCard
  <2>2. /\ cards'[n].supersedes = req.supersedes
        /\ cards'[n].owner = req.owner
        /\ cards'[n].superseded_by = None
    BY <1>5 DEF NewCard
  <2>3. req.supersedes # None =>
          /\ req.supersedes \in DOMAIN cards /\ req.supersedes < n
          /\ cards[req.supersedes].owner = req.owner
    BY <1>1, <1>2, <1>10 DEF CallSound
  <2>4. QED
    BY <1>5, <2>1, <2>2, <2>3 DEF SuccessorPointsBack
<1>13. TwoActiveOnlyIfTorn'
  <2>1. \A d \in Call : calls[d].at = "created" => calls'[d] = calls[d]
    BY <1>1, <1>7 DEF RegistryTypeOK
  <2>2. cards'[n].supersedes # None =>
          calls'[c].at = "created" /\ calls'[c].new = n
    BY <1>5, <1>7 DEF NewCard, RegistryTypeOK
  <2>3. \A i \in DOMAIN cards : cards[i].supersedes # None =>
          cards'[cards'[i].supersedes] = cards[cards[i].supersedes]
    BY <1>5, SupersededIsCard
  <2>4. ASSUME NEW i \in DOMAIN cards', cards'[i].supersedes # None,
               cards'[cards'[i].supersedes].status = "active", i \notin torn'
        PROVE  \E d \in Call : calls'[d].at = "created" /\ calls'[d].new = i
    <3>1. CASE i = n
      BY <2>2, <2>4, <3>1
    <3>2. CASE i \in DOMAIN cards
      <4>1. /\ cards[i].supersedes # None
            /\ cards[cards[i].supersedes].status = "active"
        BY <1>5, <2>3, <2>4, <3>2
      <4>2. PICK d \in Call : calls[d].at = "created" /\ calls[d].new = i
        BY <1>1, <2>4, <3>2, <4>1 DEF TwoActiveOnlyIfTorn
      <4>3. QED
        BY <2>1, <4>2
    <3>3. QED
      BY <1>5, <3>1, <3>2
  <2>5. QED
    BY <2>4 DEF TwoActiveOnlyIfTorn
<1>14. QED
  BY <1>1, <1>6, <1>9, <1>11, <1>12, <1>13, WalkUndisturbed

LEMMA SupersedeOldInd ==
  ASSUME RegistryInd, NEW c \in Call, SupersedeOld(c)
  PROVE  RegistryInd'
<1> USE DEF RegistryInd
<1> DEFINE old == calls[c].req.supersedes
           new == calls[c].new
<1>1. /\ calls[c].at = "created" /\ NoAnswers /\ UNCHANGED <<clock, torn>>
      /\ cards' = [cards EXCEPT ![old].status = "superseded",
                               ![old].superseded_by = new]
      /\ calls' = [calls EXCEPT ![c] = [at |-> "idle"]]
  BY DEF SupersedeOld, Marked
<1>2. calls[c] \in CallState /\ cards \in Seq(AgentCard) /\ CallSound(c)
  BY DEF RegistryTypeOK, CallsSound
<1>3. /\ old \in DOMAIN cards /\ new \in DOMAIN cards /\ new \in Nat
      /\ cards[new].supersedes = old
  BY <1>1, <1>2 DEF CallSound
<1>4. /\ DOMAIN cards' = DOMAIN cards /\ Len(cards') = Len(cards)
      /\ cards'[old] = [cards[old] EXCEPT !.status = "superseded",
                                         !.superseded_by = new]
      /\ \A i \in DOMAIN cards \ {old} : cards'[i] = cards[i]
  BY <1>1, <1>2, <1>3
<1>5. cards[old] \in AgentCard
  BY <1>2, <1>3
<1>6. /\ cards'[old] \in AgentCard
      /\ cards'[old].owner = cards[old].owner
      /\ cards'[old].version = cards[old].version
      /\ cards'[old].supersedes = cards[old].supersedes
      /\ cards'[old].status = "superseded"
      /\ cards'[old].superseded_by = new
  BY <1>3, <1>4, <1>5 DEF AgentCard, Status
<1>7. cards' \in Seq(AgentCard)
  BY <1>1, <1>2, <1>3, <1>4, <1>6, ExceptSeq
<1>8. Kept
  BY <1>4, <1>6 DEF Kept
<1>9. RegistryTypeOK'
  <2>1. calls' \in [Call -> CallState]
    BY <1>1 DEF RegistryTypeOK, CallState
  <2>2. QED
    BY <1>1, <1>4, <1>7, <1>8, <2>1, WalkUndisturbed DEF RegistryTypeOK
<1>10. CallsSound'
  <2>1. CallSound(c)'
    BY <1>1 DEF CallSound, RegistryTypeOK
  <2>2. \A d \in Call \ {c} : CallSound(d)'
    BY <1>1, <1>8, CallUndisturbed DEF RegistryTypeOK
  <2>3. QED
    BY <2>1, <2>2 DEF CallsSound
<1>11. SuccessorPointsBack'
  <2>1. \A i \in DOMAIN cards : cards[i].supersedes # None =>
          cards[i].supersedes \in DOMAIN cards
    BY SupersededIsCard
  <2>2. \A i \in DOMAIN cards : cards'[i].supersedes = cards[i].supersedes
                               /\ cards'[i].owner = cards[i].owner
    BY <1>8 DEF Kept
  <2>3. \A i \in DOMAIN cards \ {old} :
          /\ cards'[i].superseded_by = cards[i].superseded_by
          /\ cards'[i].status = cards[i].status
    BY <1>4
  <2>4. ASSUME NEW i \in DOMAIN cards', cards'[i].supersedes # None
        PROVE  /\ cards'[i].supersedes < i
               /\ cards'[cards'[i].supersedes].owner = cards'[i].owner
    BY <1>4, <2>1, <2>2, <2>4 DEF SuccessorPointsBack
  <2>5. ASSUME NEW i \in DOMAIN cards', cards'[i].superseded_by # None
        PROVE  /\ cards'[i].superseded_by \in DOMAIN cards'
               /\ cards'[cards'[i].superseded_by].supersedes = i
               /\ cards'[i].status # "active"
    <3>1. CASE i = old
      BY <1>3, <1>4, <1>6, <2>2, <3>1
    <3>2. CASE i \in DOMAIN cards \ {old}
      BY <1>4, <2>2, <2>3, <2>5, <3>2 DEF SuccessorPointsBack
    <3>3. QED
      BY <1>4, <3>1, <3>2
  <2>6. QED
    BY <2>4, <2>5 DEF SuccessorPointsBack
<1>12. TwoActiveOnlyIfTorn'
  <2>1. \A d \in Call \ {c} : calls'[d] = calls[d]
    BY <1>1 DEF RegistryTypeOK
  <2>2. ASSUME NEW i \in DOMAIN cards', cards'[i].supersedes # None,
               cards'[cards'[i].supersedes].status = "active", i \notin torn'
        PROVE  \E d \in Call : calls'[d].at = "created" /\ calls'[d].new = i
    <3>1. i \in DOMAIN cards /\ cards'[i].supersedes = cards[i].supersedes
      BY <1>4, <1>8 DEF Kept
    <3>2. cards[i].supersedes \in DOMAIN cards
      BY <2>2, <3>1, SupersededIsCard
    <3>3. cards[i].supersedes # old
      BY <1>6, <2>2, <3>1
    <3>4. cards[cards[i].supersedes].status = "active"
      BY <1>4, <2>2, <3>1, <3>2, <3>3
    <3>5. PICK d \in Call : calls[d].at = "created" /\ calls[d].new = i
      BY <1>1, <2>2, <3>1, <3>4 DEF TwoActiveOnlyIfTorn
    <3>6. d # c
      BY <1>3, <3>3, <3>5
    <3>7. QED
      BY <2>1, <3>5, <3>6
  <2>3. QED
    BY <2>2 DEF TwoActiveOnlyIfTorn
<1>13. QED
  BY <1>1, <1>8, <1>9, <1>10, <1>11, <1>12, WalkUndisturbed

LEMMA CallFailsInd ==
  ASSUME RegistryInd, NEW c \in Call, CallFails(c)
  PROVE  RegistryInd'
<1> USE DEF RegistryInd
<1>1. /\ calls' = [calls EXCEPT ![c] = [at |-> "idle"]]
      /\ NoAnswers /\ UNCHANGED <<clock, cards>>
      /\ torn' = IF calls[c].at = "created" THEN torn \cup {calls[c].new}
                                            ELSE torn
  BY DEF CallFails
<1>2. Kept
  BY <1>1 DEF Kept
<1>3. CallSound(c)
  BY DEF CallsSound
<1>4. RegistryTypeOK'
  <2>1. calls' \in [Call -> CallState]
    BY <1>1 DEF RegistryTypeOK, CallState
  <2>2. torn' \subseteq DOMAIN cards'
    BY <1>1, <1>3 DEF RegistryTypeOK, CallSound
  <2>3. QED
    BY <1>1, <1>2, <2>1, <2>2, WalkUndisturbed DEF RegistryTypeOK
<1>5. CallsSound'
  <2>1. CallSound(c)'
    BY <1>1 DEF CallSound, RegistryTypeOK
  <2>2. \A d \in Call \ {c} : CallSound(d)'
    BY <1>1, <1>2, CallUndisturbed DEF RegistryTypeOK
  <2>3. QED
    BY <2>1, <2>2 DEF CallsSound
<1>6. SuccessorPointsBack'
  BY <1>1 DEF SuccessorPointsBack
<1>7. TwoActiveOnlyIfTorn'
  <2>1. \A d \in Call \ {c} : calls'[d] = calls[d]
    BY <1>1 DEF RegistryTypeOK
  <2>2. torn \subseteq torn' /\ (calls[c].at = "created" => calls[c].new \in torn')
    BY <1>1
  <2>3. QED
    BY <1>1, <2>1, <2>2 DEF TwoActiveOnlyIfTorn
<1>8. QED
  BY <1>1, <1>2, <1>4, <1>5, <1>6, <1>7, WalkUndisturbed

LEMMA RevokeCardInd ==
  ASSUME RegistryInd, NEW j \in DOMAIN cards, RevokeCard(j)
  PROVE  RegistryInd'
<1> USE DEF RegistryInd
<1>1. /\ NoAnswers /\ UNCHANGED <<clock, calls, torn>>
      /\ cards' = [cards EXCEPT ![j].status = "revoked",
                               ![j].revoked_at = clock]
  BY DEF RevokeCard
<1>2. cards \in Seq(AgentCard) /\ clock \in Nat /\ cards[j] \in AgentCard
  BY RegistryAssumption DEF RegistryTypeOK
<1>3. /\ DOMAIN cards' = DOMAIN cards /\ Len(cards') = Len(cards)
      /\ cards'[j] = [cards[j] EXCEPT !.status = "revoked",
                                     !.revoked_at = clock]
      /\ \A i \in DOMAIN cards \ {j} : cards'[i] = cards[i]
  BY <1>1, <1>2
<1>4. /\ cards'[j] \in AgentCard
      /\ cards'[j].owner = cards[j].owner
      /\ cards'[j].version = cards[j].version
      /\ cards'[j].supersedes = cards[j].supersedes
      /\ cards'[j].superseded_by = cards[j].superseded_by
      /\ cards'[j].status = "revoked"
  BY <1>2, <1>3 DEF AgentCard, Status
<1>5. cards' \in Seq(AgentCard)
  <2> DEFINE revoked == [cards[j] EXCEPT !.status = "revoked",
                                         !.revoked_at = clock]
  <2>1. cards' = [cards EXCEPT ![j] = revoked]
    BY <1>1
  <2>2. revoked \in AgentCard /\ j \in 1 .. Len(cards)
    BY <1>2, <1>3, <1>4
  <2> HIDE DEF revoked
  <2>3. QED
    BY <1>2, <2>1, <2>2, ExceptSeq
<1>6. Kept
  BY <1>3, <1>4 DEF Kept
<1>7. RegistryTypeOK'
  BY <1>1, <1>3, <1>5, <1>6, WalkUndisturbed DEF RegistryTypeOK
<1>8. CallsSound'
  BY <1>1, <1>6, CallUndisturbed DEF CallsSound
<1>9. \A i \in DOMAIN cards :
        /\ cards'[i].owner = cards[i].owner
        /\ cards'[i].supersedes = cards[i].supersedes
        /\ cards'[i].superseded_by = cards[i].superseded_by
        /\ cards'[i].status \in {cards[i].status, "revoked"}
  BY <1>3, <1>4
<1>10. \A i \in DOMAIN cards : cards[i].supersedes # None =>
         cards[i].supersedes \in DOMAIN cards
  BY SupersededIsCard
<1>11. SuccessorPointsBack'
  BY <1>3, <1>9, <1>10 DEF SuccessorPointsBack
<1>12. TwoActiveOnlyIfTorn'
  BY <1>1, <1>3, <1>9, <1>10 DEF TwoActiveOnlyIfTorn
<1>13. QED
  BY <1>1, <1>6, <1>7, <1>8, <1>11, <1>12, WalkUndisturbed

-----------------------------------------------------------------------------
(***************************************************************************)
(* Verification and version history, which change no card.                 *)
(***************************************************************************)
LEMMA VerifyAgentInd ==
  ASSUME RegistryInd, NEW i \in DOMAIN cards, VerifyAgent(i)
  PROVE  RegistryInd'
<1> USE DEF RegistryInd
<1>1. /\ verdict' = [card |-> i, reason |-> Reason(cards[i])]
      /\ UNCHANGED <<clock, cards, calls, torn, walk>>
  BY DEF VerifyAgent
<1>2. Reason(cards[i]) \in {"card_superseded", "card_revoked",
                           "card_expired", "verified"}
  BY DEF Reason
<1>3. RegistryTypeOK'
  BY <1>1, <1>2 DEF RegistryTypeOK
<1>4. CallsSound' /\ SuccessorPointsBack' /\ TwoActiveOnlyIfTorn'
  BY <1>1 DEF CallsSound, CallSound, SuccessorPointsBack, TwoActiveOnlyIfTorn
<1>5. WalkSound' /\ HistoryFailsOnVersionsOnly'
  BY <1>1 DEF WalkSound, EntrySound, HistoryFailsOnVersionsOnly
<1>6. QED
  BY <1>3, <1>4, <1>5

(* Only the walk, and with it the answer to a verification, changes.       *)
LEMMA WalkStepInd ==
  ASSUME RegistryInd, NEW at, NEW asked, NEW chain, Walk(at, asked, chain),
         walk' \in [at : {"walking", "answered", "failed"},
                    asked : DOMAIN cards, chain : Seq(Entry)],
         WalkSound', HistoryFailsOnVersionsOnly'
  PROVE  RegistryInd'
<1> USE DEF RegistryInd
<1>1. verdict' = NoVerdict /\ UNCHANGED <<clock, cards, calls, torn>>
  BY DEF Walk
<1>2. RegistryTypeOK'
  BY <1>1 DEF RegistryTypeOK, NoVerdict
<1>3. CallsSound' /\ SuccessorPointsBack' /\ TwoActiveOnlyIfTorn'
  BY <1>1 DEF CallsSound, CallSound, SuccessorPointsBack, TwoActiveOnlyIfTorn
<1>4. QED
  BY <1>2, <1>3

(* The entry made of a card is sound in any history of the same owner.     *)
LEMMA FromCardSound ==
  ASSUME RegistryInd, NEW i \in DOMAIN cards, NEW asked,
         cards[i].owner = cards[asked].owner
  PROVE  FromCard(i) \in Entry /\ EntrySound(FromCard(i), asked)
<1> USE DEF RegistryInd
<1>1. /\ cards \in Seq(AgentCard) /\ Len(cards) <= MaxCards
      /\ cards[i] \in AgentCard /\ MaxCards \in Nat
  BY RegistryAssumption DEF RegistryTypeOK
<1>2. i \in 1 .. MaxCards
  BY <1>1
<1>3. /\ cards[i].supersedes \in 0 .. MaxCards
      /\ cards[i].superseded_by \in {None} \cup DOMAIN cards
  <2>1. cards[i].supersedes \in Nat
    BY <1>1 DEF AgentCard
  <2>2. cards[i].supersedes # None => cards[i].supersedes < i
    BY DEF SuccessorPointsBack
  <2>3. cards[i].superseded_by \in {None} \cup DOMAIN cards
    BY DEF SuccessorPointsBack
  <2>4. QED
    BY <1>1, <1>2, <2>1, <2>2, <2>3 DEF None
<1>4. cards[i].superseded_by \in 0 .. MaxCards
  BY <1>1, <1>3 DEF None
<1>5. cards[i].owner \in Owner /\ cards[i].version \in Nat
  BY <1>1 DEF AgentCard
<1>6. FromCard(i) \in Entry
  BY <1>2, <1>3, <1>4, <1>5 DEF FromCard, Entry
<1>7. EntrySound(FromCard(i), asked)
  BY <1>3 DEF EntrySound, FromCard, SuccessorPointsBack
<1>8. QED
  BY <1>6, <1>7

LEMMA AskHistoryInd ==
  ASSUME RegistryInd, NEW i \in DOMAIN cards, AskHistory(i)
  PROVE  RegistryInd'
<1>1. /\ Walk("walking", i, << FromCard(i) >>) /\ UNCHANGED cards
      /\ walk' = [at |-> "walking", asked |-> i, chain |-> << FromCard(i) >>]
  BY DEF AskHistory, Walk
<1>2. FromCard(i) \in Entry /\ EntrySound(FromCard(i), i)
  BY FromCardSound
<1>3. FromCard(i).id = i
  BY DEF FromCard
<1>4. \A e, asked : EntrySound(e, asked)' <=> EntrySound(e, asked)
  BY <1>1 DEF EntrySound
<1>5. WalkSound' /\ HistoryFailsOnVersionsOnly'
  <2>1. WalkSound'
    BY <1>1, <1>2, <1>3, <1>4 DEF WalkSound
  <2>2. HistoryFailsOnVersionsOnly'
    BY <1>1 DEF HistoryFailsOnVersionsOnly
  <2>3. QED
    BY <2>1, <2>2
<1>6. << FromCard(i) >> \in Seq(Entry)
  BY <1>2
<1>7. QED
  BY <1>1, <1>5, <1>6, WalkStepInd

LEMMA WalkBackwardInd ==
  ASSUME RegistryInd, WalkBackward
  PROVE  RegistryInd'
<1> USE DEF RegistryInd
<1> DEFINE ch  == walk.chain
           old == ch[1].supersedes
           new == << FromCard(old) >> \o ch
<1>1. /\ walk.at = "walking" /\ old # None /\ Walk("walking", walk.asked, new)
      /\ walk' = [at |-> "walking", asked |-> walk.asked, chain |-> new]
      /\ UNCHANGED cards
  BY DEF WalkBackward, Walk, First
<1>2. /\ ch \in Seq(Entry) /\ ch # <<>> /\ walk.asked \in DOMAIN cards
      /\ \A k \in DOMAIN ch : EntrySound(ch[k], walk.asked)
  BY <1>1 DEF RegistryTypeOK, WalkSound
<1>3. 1 \in DOMAIN ch
  BY <1>2
<1>4. /\ ch[1].id \in DOMAIN cards /\ old = cards[ch[1].id].supersedes
      /\ cards[ch[1].id].owner = cards[walk.asked].owner
  BY <1>2, <1>3 DEF EntrySound
<1>5. old \in DOMAIN cards /\ cards[old].owner = cards[walk.asked].owner
  BY <1>1, <1>4, SupersededIsCard DEF SuccessorPointsBack
<1>6. FromCard(old) \in Entry /\ EntrySound(FromCard(old), walk.asked)
  BY <1>2, <1>5, FromCardSound
<1>7. FromCard(old).id = old
  BY DEF FromCard
<1>8. /\ new \in Seq(Entry) /\ Len(new) = Len(ch) + 1 /\ new[1] = FromCard(old)
      /\ \A k \in DOMAIN ch : k + 1 \in DOMAIN new /\ new[k + 1] = ch[k]
      /\ \A k \in DOMAIN new \ {1} : k - 1 \in DOMAIN ch /\ new[k] = ch[k - 1]
  BY <1>2, <1>6
<1> HIDE DEF new
<1>9. WalkSound'
  <2>1. \A k \in DOMAIN new : EntrySound(new[k], walk.asked)
    BY <1>2, <1>6, <1>8
  <2>2. \E k \in DOMAIN new : new[k].id = walk.asked
    BY <1>1, <1>8 DEF WalkSound
  <2>3. \A k \in 2 .. Len(new) : new[k].supersedes = new[k - 1].id
    <3>1. new[2].supersedes = new[1].id
      BY <1>3, <1>7, <1>8
    <3>2. ASSUME NEW k \in 3 .. Len(new)
          PROVE  new[k].supersedes = new[k - 1].id
      <4>1. /\ k - 1 \in 2 .. Len(ch) /\ k - 2 \in DOMAIN ch
            /\ (k - 1) - 1 = k - 2
        BY <1>2, <1>8
      <4>2. new[k] = ch[k - 1] /\ new[k - 1] = ch[k - 2]
        BY <1>2, <1>8, <4>1
      <4>3. ch[k - 1].supersedes = ch[k - 2].id
        BY <1>1, <4>1 DEF WalkSound
      <4>4. QED
        BY <4>2, <4>3
    <3>3. QED
      BY <1>2, <1>8, <3>1, <3>2
  <2>4. new # <<>>
    BY <1>2, <1>8
  <2>5. \A e, asked : EntrySound(e, asked)' <=> EntrySound(e, asked)
    BY <1>1 DEF EntrySound
  <2>6. QED
    BY <1>1, <1>2, <2>1, <2>2, <2>3, <2>4, <2>5 DEF WalkSound
<1>10. HistoryFailsOnVersionsOnly'
  BY <1>1 DEF HistoryFailsOnVersionsOnly
<1>11. QED
  BY <1>1, <1>2, <1>8, <1>9, <1>10, WalkStepInd

LEMMA WalkForwardInd ==
  ASSUME RegistryInd, WalkForward
  PROVE  RegistryInd'
<1> USE DEF RegistryInd
<1> DEFINE ch   == walk.chain
           n    == Len(ch)
           next == ch[n].superseded_by
           new  == Append(ch, FromCard(next))
<1>1. /\ walk.at = "walking" /\ next # None /\ Walk("walking", walk.asked, new)
      /\ walk' = [at |-> "walking", asked |-> walk.asked, chain |-> new]
      /\ UNCHANGED cards
  BY DEF WalkForward, Walk, Successor, Last
<1>2. /\ ch \in Seq(Entry) /\ ch # <<>> /\ walk.asked \in DOMAIN cards
      /\ \A k \in DOMAIN ch : EntrySound(ch[k], walk.asked)
  BY <1>1 DEF RegistryTypeOK, WalkSound
<1>3. n \in DOMAIN ch
  BY <1>2
<1>4. /\ ch[n].id \in DOMAIN cards /\ ch[n].id # None
      /\ next \in DOMAIN cards /\ cards[next].supersedes = ch[n].id
      /\ cards[ch[n].id].owner = cards[walk.asked].owner
  BY <1>1, <1>2, <1>3 DEF EntrySound, RegistryTypeOK, None
<1>5. cards[next].owner = cards[walk.asked].owner
  BY <1>4 DEF SuccessorPointsBack
<1>6. FromCard(next) \in Entry /\ EntrySound(FromCard(next), walk.asked)
  BY <1>2, <1>4, <1>5, FromCardSound
<1>7. FromCard(next).supersedes = ch[n].id
  BY <1>4 DEF FromCard
<1>8. /\ new \in Seq(Entry) /\ Len(new) = n + 1 /\ new[n + 1] = FromCard(next)
      /\ \A k \in DOMAIN ch : k \in DOMAIN new /\ new[k] = ch[k]
      /\ DOMAIN new = DOMAIN ch \cup {n + 1}
  BY <1>2, <1>6
<1> HIDE DEF new
<1>9. WalkSound'
  <2>1. \A k \in DOMAIN new : EntrySound(new[k], walk.asked)
    BY <1>2, <1>6, <1>8
  <2>2. \E k \in DOMAIN new : new[k].id = walk.asked
    BY <1>1, <1>8 DEF WalkSound
  <2>3. ASSUME NEW k \in 2 .. Len(new)
        PROVE  new[k].supersedes = new[k - 1].id
    <3>1. CASE k = n + 1
      BY <1>2, <1>3, <1>7, <1>8, <3>1
    <3>2. CASE k # n + 1
      <4>1. k \in 2 .. n /\ k - 1 \in DOMAIN ch /\ k \in DOMAIN ch
        BY <1>2, <1>8, <3>2
      <4>2. QED
        BY <1>1, <1>8, <4>1 DEF WalkSound
    <3>3. QED
      BY <3>1, <3>2
  <2>4. new # <<>>
    BY <1>2, <1>8
  <2>5. \A e, asked : EntrySound(e, asked)' <=> EntrySound(e, asked)
    BY <1>1 DEF EntrySound
  <2>6. QED
    BY <1>1, <1>2, <2>1, <2>2, <2>3, <2>4, <2>5 DEF WalkSound
<1>10. HistoryFailsOnVersionsOnly'
  BY <1>1 DEF HistoryFailsOnVersionsOnly
<1>11. QED
  BY <1>1, <1>2, <1>8, <1>9, <1>10, WalkStepInd

(* A complete history can fail only the checks that look at versions: the  *)
(* walk has made sure of the others.                                       *)
LEMMA OnlyVersionsCanFail ==
  ASSUME RegistryInd, walk.at = "walking", Numbered,
         walk.chain[1].supersedes = None, ~ValidVersionChain(walk.chain)
  PROVE  ~VersionsIncrease(walk.chain) \/ ~OriginalIsLowest(walk.chain)
<1> USE DEF RegistryInd
<1> DEFINE ch == walk.chain
<1>1. /\ ch \in Seq(Entry) /\ ch # <<>>
      /\ \A k \in DOMAIN ch : EntrySound(ch[k], walk.asked)
      /\ \A k \in 2 .. Len(ch) : ch[k].supersedes = ch[k - 1].id
  BY DEF RegistryTypeOK, WalkSound
<1>2. Comparable(ch)
  <2>1. ASSUME NEW k \in DOMAIN ch
        PROVE  ch[k].version \in Nat
    <3>1. /\ ch[k].id \in DOMAIN cards
          /\ ch[k].version = cards[ch[k].id].version
      BY <1>1 DEF EntrySound
    <3>2. cards[ch[k].id] \in AgentCard
      BY <3>1 DEF RegistryTypeOK
    <3>3. QED
      BY <3>1, <3>2 DEF AgentCard
  <2>2. QED
    BY <2>1, NoNumberAssumption DEF Comparable
<1>3. OneOwner(ch)
  BY <1>1 DEF OneOwner, EntrySound
<1>4. OneOriginal(ch)
  <2>1. \A k \in 2 .. Len(ch) : ch[k].supersedes # None
    <3>1. ASSUME NEW k \in 2 .. Len(ch)
          PROVE  ch[k].supersedes # None
      <4>1. k - 1 \in DOMAIN ch /\ ch[k - 1] \in Entry
        BY <1>1
      <4>2. ch[k - 1].id \in 1 .. MaxCards
        BY <4>1 DEF Entry
      <4>3. QED
        BY <1>1, <4>2, RegistryAssumption DEF None
    <3>2. QED
      BY <3>1
  <2>2. {k \in DOMAIN ch : ch[k].supersedes = None} = {1}
    BY <1>1, <2>1
  <2>3. QED
    BY <2>2, FS_Singleton DEF OneOriginal
<1>5. PredecessorsPresent(ch)
  <2>1. ASSUME NEW k \in DOMAIN ch, k # 1
        PROVE  k \in 2 .. Len(ch) /\ k - 1 \in DOMAIN ch
    BY <1>1, <2>1
  <2>2. QED
    BY <1>1, <2>1 DEF PredecessorsPresent
<1>6. QED
  BY <1>2, <1>3, <1>4, <1>5 DEF ValidVersionChain

LEMMA AnswerHistoryInd ==
  ASSUME RegistryInd, AnswerHistory
  PROVE  RegistryInd'
<1> USE DEF RegistryInd
<1> DEFINE at == IF ValidVersionChain(walk.chain) THEN "answered" ELSE "failed"
<1>1. /\ walk.at = "walking" /\ walk.chain[1].supersedes = None
      /\ Walk(at, walk.asked, walk.chain)
      /\ walk' = [at |-> at, asked |-> walk.asked, chain |-> walk.chain]
      /\ UNCHANGED cards
  BY DEF AnswerHistory, Walk, First
<1>2. walk.chain \in Seq(Entry) /\ walk.asked \in DOMAIN cards
  BY <1>1 DEF RegistryTypeOK, WalkSound
<1>3. \A e, asked : EntrySound(e, asked)' <=> EntrySound(e, asked)
  BY <1>1 DEF EntrySound
<1>4. WalkSound'
  BY <1>1, <1>3 DEF WalkSound
<1>5. HistoryFailsOnVersionsOnly'
  BY <1>1, OnlyVersionsCanFail DEF HistoryFailsOnVersionsOnly
<1>6. QED
  BY <1>1, <1>2, <1>4, <1>5, WalkStepInd

-----------------------------------------------------------------------------
(***************************************************************************)
(* The registry's invariant, alone and under the revocation list, whose    *)
(* own steps leave the registry alone.                                     *)
(***************************************************************************)
LEMMA RegistryStepInd ==
  ASSUME RegistryInd, RegistryStep \/ RegistryTick
  PROVE  RegistryInd'
<1>1. CASE \E c \in Call, owner \in Owner, exp \in Expiries,
              old \in {None} \cup DOMAIN cards : CheckRequest(c, owner, old, exp)
  BY <1>1, CheckRequestInd
<1>2. CASE \E c \in Call : CreateCard(c) \/ SupersedeOld(c) \/ CallFails(c)
  BY <1>2, CreateCardInd, SupersedeOldInd, CallFailsInd
<1>3. CASE \E i \in DOMAIN cards : RevokeCard(i) \/ VerifyAgent(i) \/ AskHistory(i)
  BY <1>3, RevokeCardInd, VerifyAgentInd, AskHistoryInd
<1>4. CASE WalkBackward \/ WalkForward \/ AnswerHistory
  BY <1>4, WalkBackwardInd, WalkForwardInd, AnswerHistoryInd
<1>5. CASE RegistryTick
  <2>1. clock' \in 0 .. MaxClock
    BY <1>5, RegistryAssumption DEF RegistryTick, RegistryInd, RegistryTypeOK
  <2>2. QED
    BY <1>5, <2>1, SilentInd DEF RegistryTick
<1>6. QED
  BY <1>1, <1>2, <1>3, <1>4, <1>5 DEF RegistryStep

LEMMA RegistryStutterInd ==
  ASSUME RegistryInd, UNCHANGED registryVars
  PROVE  RegistryInd'
BY DEF registryVars, RegistryInd, RegistryTypeOK, CallsSound, CallSound,
       SuccessorPointsBack, TwoActiveOnlyIfTorn, WalkSound, EntrySound,
       HistoryFailsOnVersionsOnly

(* A step of the system is one of the registry, or silent about it.        *)
LEMMA StepOfRegistry ==
  ASSUME [Next]_vars
  PROVE  \/ RegistryStep \/ RegistryTick
         \/ NoAnswers /\ UNCHANGED <<clock, cards, calls, torn>>
         \/ UNCHANGED registryVars
BY DEF Next, vars, Tick, AnswerFromCache, AskForList, ServeList, ReceiveList,
       RefreshFails, AnswerRefreshed, check_revocation, Quietly

(* The invariant of the registry, for any clients of the revocation list.  *)
THEOREM RegistryInductive == Spec => []RegistryInd
<1>1. Init => RegistryInd
  BY RegistryInitInd DEF Init
<1>2. ASSUME RegistryInd, [Next]_vars PROVE RegistryInd'
  <2>1. CASE RegistryStep \/ RegistryTick
    BY <1>2, <2>1, RegistryStepInd
  <2>2. CASE NoAnswers /\ UNCHANGED <<clock, cards, calls, torn>>
    <3>1. clock' \in 0 .. MaxClock
      BY <1>2, <2>2 DEF RegistryInd, RegistryTypeOK
    <3>2. QED
      BY <1>2, <2>2, <3>1, SilentInd
  <2>3. CASE UNCHANGED registryVars
    BY <1>2, <2>3, RegistryStutterInd
  <2>4. QED
    BY <1>2, <2>1, <2>2, <2>3, StepOfRegistry
<1>3. QED
  BY <1>1, <1>2, PTL DEF Spec

(* However registrations overlap, fork or fail, a successor is a newer     *)
(* card of the same owner that supersedes the card, which is not active.   *)
THEOREM SuccessorsPointBack == Spec => []SuccessorPointsBack
BY RegistryInductive, PTL DEF RegistryInd

(* Two cards of a lineage are active together only while a registration is *)
(* between its two writes, or has failed there.                            *)
THEOREM NoForkUnlessTorn == Spec => []TwoActiveOnlyIfTorn
BY RegistryInductive, PTL DEF RegistryInd

(* A history read while cards are registered, superseded and revoked is an *)
(* unbroken line through the card asked for, whatever the interleaving.    *)
THEOREM HistoriesAreLineages == Spec => []HistoryIsLineage
<1>1. ASSUME RegistryInd, walk.at # "idle"
      PROVE  LET ch == walk.chain IN
             /\ \E k \in DOMAIN ch : ch[k].id = walk.asked
             /\ \A k \in 2 .. Len(ch) : cards[ch[k].id].supersedes = ch[k - 1].id
             /\ walk.at = "answered" => cards[ch[1].id].supersedes = None
  <2> USE DEF RegistryInd
  <2> DEFINE ch == walk.chain
  <2>1. /\ ch \in Seq(Entry) /\ ch # <<>>
        /\ \A k \in DOMAIN ch : EntrySound(ch[k], walk.asked)
        /\ \E k \in DOMAIN ch : ch[k].id = walk.asked
        /\ \A k \in 2 .. Len(ch) : ch[k].supersedes = ch[k - 1].id
        /\ walk.at # "walking" => ch[1].supersedes = None
    BY <1>1 DEF RegistryTypeOK, WalkSound
  <2>2. \A k \in DOMAIN ch : cards[ch[k].id].supersedes = ch[k].supersedes
    BY <2>1 DEF EntrySound
  <2>3. 1 \in DOMAIN ch /\ \A k \in 2 .. Len(ch) : k \in DOMAIN ch
    BY <2>1
  <2>4. QED
    BY <2>1, <2>2, <2>3
<1>2. RegistryInd => HistoryIsLineage
  BY <1>1 DEF HistoryIsLineage
<1>3. QED
  BY <1>2, RegistryInductive, PTL

(* When versions are returned as numbers, a history fails only for the     *)
(* versions callers made up, never for a race with a registration.         *)
THEOREM HistoriesFailOnVersions == Spec => []HistoryFailsOnVersionsOnly
BY RegistryInductive, PTL DEF RegistryInd

-----------------------------------------------------------------------------
(***************************************************************************)
(* Standing: cards are issued once, retired for good and vouched for only  *)
(* in between.                                                             *)
(***************************************************************************)
(* Of a step that answers no verification and changes the standing of one  *)
(* card at most, it is enough to know the latter.                          *)
LEMMA StandingChanges ==
  ASSUME verdict' = NoVerdict, NEW i \in 1 .. MaxCards,
         \A j \in (1 .. MaxCards) \ {i} : StandingOf(j)' = StandingOf(j),
         \/ StandingOf(i)' = StandingOf(i)
         \/ StandingOf(i) = "unissued" /\ StandingOf(i)' = "active"
         \/ StandingOf(i) = "active" /\ StandingOf(i)' = "retired"
  PROVE  Promise!Next
<1> DEFINE standing == [j \in 1 .. MaxCards |-> StandingOf(j)]
           vouched  == {j \in {verdict.card} : verdict.reason = "verified"}
<1>1. vouched' = {}
  BY DEF NoVerdict
<1>2. CASE StandingOf(i)' = StandingOf(i)
  <2>1. standing' = standing
    BY <1>2
  <2>2. QED
    BY <1>1, <2>1 DEF Promise!Next, Promise!Silence
<1>3. CASE StandingOf(i) = "unissued" /\ StandingOf(i)' = "active"
  <2>1. standing' = [standing EXCEPT ![i] = "active"]
    <3>1. \A j \in 1 .. MaxCards :
            StandingOf(j)' = IF j = i THEN "active" ELSE StandingOf(j)
      BY <1>3
    <3>2. QED
      BY <3>1
  <2>2. QED
    BY <1>1, <1>3, <2>1 DEF Promise!Next, Promise!Issue
<1>4. CASE StandingOf(i) = "active" /\ StandingOf(i)' = "retired"
  <2>1. standing' = [standing EXCEPT ![i] = "retired"]
    BY <1>4
  <2>2. QED
    BY <1>1, <1>4, <2>1 DEF Promise!Next, Promise!Retire
<1>5. QED
  BY <1>2, <1>3, <1>4

(* ... and of one that leaves the cards alone, that it answers nothing.    *)
LEMMA StandingSilent ==
  ASSUME verdict' = NoVerdict, UNCHANGED cards
  PROVE  Promise!Next
BY DEF NoVerdict, StandingOf, Promise!Next, Promise!Silence

LEMMA StepPromise ==
  ASSUME RegistryInd, [Next]_vars
  PROVE  [Promise!Next]_(Promise!vars)
<1> USE DEF RegistryInd
<1>1. /\ cards \in Seq(AgentCard) /\ Len(cards) <= MaxCards /\ MaxCards \in Nat
      /\ \A i \in DOMAIN cards : i \in 1 .. MaxCards /\ cards[i] \in AgentCard
  BY RegistryAssumption DEF RegistryTypeOK
<1>2. ASSUME NEW c \in Call, CreateCard(c)
      PROVE  Promise!Next
  <2>0. PICK n : n = Len(cards) + 1
    OBVIOUS
  <2>1. /\ n \in 1 .. MaxCards /\ n \notin DOMAIN cards
        /\ DOMAIN cards' = DOMAIN cards \cup {n}
        /\ cards'[n].status = "active"
        /\ \A j \in DOMAIN cards : cards'[j] = cards[j]
    BY <1>1, <1>2, <2>0 DEF CreateCard, NewCard
  <2>2. verdict' = NoVerdict
    BY <1>2 DEF CreateCard, NoAnswers
  <2>3. StandingOf(n) = "unissued" /\ StandingOf(n)' = "active"
    BY <2>1 DEF StandingOf
  <2>4. \A j \in (1 .. MaxCards) \ {n} : StandingOf(j)' = StandingOf(j)
    BY <2>1 DEF StandingOf
  <2>5. QED
    BY <2>1, <2>2, <2>3, <2>4, StandingChanges
<1>3. ASSUME NEW i \in DOMAIN cards, cards[i].status \in Status,
             verdict' = NoVerdict, DOMAIN cards' = DOMAIN cards,
             cards'[i].status \in {"superseded", "revoked"},
             \A j \in DOMAIN cards \ {i} : cards'[j] = cards[j]
      PROVE  Promise!Next
  <2>1. \/ StandingOf(i)' = StandingOf(i)
        \/ StandingOf(i) = "active" /\ StandingOf(i)' = "retired"
    BY <1>3 DEF StandingOf, Status
  <2>2. \A j \in (1 .. MaxCards) \ {i} : StandingOf(j)' = StandingOf(j)
    BY <1>3 DEF StandingOf
  <2>3. QED
    BY <1>1, <1>3, <2>1, <2>2, StandingChanges
<1>4. ASSUME NEW c \in Call, SupersedeOld(c)
      PROVE  Promise!Next
  <2> DEFINE old == calls[c].req.supersedes
  <2>1. old \in DOMAIN cards
    BY <1>4 DEF SupersedeOld, CallsSound, CallSound
  <2>2. /\ DOMAIN cards' = DOMAIN cards
        /\ cards'[old].status = "superseded"
        /\ \A j \in DOMAIN cards \ {old} : cards'[j] = cards[j]
    BY <1>1, <1>4, <2>1 DEF SupersedeOld, Marked, AgentCard
  <2>3. verdict' = NoVerdict /\ cards[old].status \in Status
    BY <1>1, <1>4, <2>1 DEF SupersedeOld, NoAnswers, AgentCard
  <2>4. QED
    BY <1>3, <2>1, <2>2, <2>3
<1>5. ASSUME NEW i \in DOMAIN cards, RevokeCard(i)
      PROVE  Promise!Next
  <2>1. /\ DOMAIN cards' = DOMAIN cards
        /\ cards'[i].status = "revoked"
        /\ \A j \in DOMAIN cards \ {i} : cards'[j] = cards[j]
    BY <1>1, <1>5 DEF RevokeCard, AgentCard
  <2>2. verdict' = NoVerdict /\ cards[i].status \in Status
    BY <1>1, <1>5 DEF RevokeCard, NoAnswers, AgentCard
  <2>3. QED
    BY <1>3, <2>1, <2>2
<1>6. ASSUME NEW i \in DOMAIN cards, VerifyAgent(i)
      PROVE  Promise!Next
  <2>1. verdict' = [card |-> i, reason |-> Reason(cards[i])] /\ cards' = cards
    BY <1>6 DEF VerifyAgent
  <2> DEFINE standing == [j \in 1 .. MaxCards |-> StandingOf(j)]
             vouched  == {j \in {verdict.card} : verdict.reason = "verified"}
  <2>2. standing' = standing
    BY <2>1 DEF StandingOf
  <2>3. CASE Reason(cards[i]) = "verified"
    <3>1. cards[i].status = "active"
      BY <1>1, <2>3 DEF Reason, AgentCard, Status
    <3>2. standing[i] = "active" /\ i \in 1 .. MaxCards
      BY <1>1, <3>1 DEF StandingOf
    <3>3. vouched' = {i}
      BY <2>1, <2>3
    <3>4. QED
      BY <2>2, <3>2, <3>3 DEF Promise!Next, Promise!Vouch
  <2>4. CASE Reason(cards[i]) # "verified"
    <3>1. vouched' = {}
      BY <2>1, <2>4
    <3>2. QED
      BY <2>2, <3>1 DEF Promise!Next, Promise!Silence
  <2>5. QED
    BY <2>3, <2>4
<1>7. CASE RegistryStep
  <2>1. CASE \E c \in Call, owner \in Owner, exp \in Expiries,
                old \in {None} \cup DOMAIN cards :
                  CheckRequest(c, owner, old, exp)
    BY <2>1, StandingSilent DEF CheckRequest, NoAnswers
  <2>2. CASE \E c \in Call : CallFails(c)
    BY <2>2, StandingSilent DEF CallFails, NoAnswers
  <2>3. CASE \E i \in DOMAIN cards : AskHistory(i)
    BY <2>3, StandingSilent DEF AskHistory, Walk
  <2>4. CASE WalkBackward \/ WalkForward \/ AnswerHistory
    BY <2>4, StandingSilent DEF WalkBackward, WalkForward, AnswerHistory, Walk
  <2>5. QED
    BY <1>2, <1>4, <1>5, <1>6, <1>7, <2>1, <2>2, <2>3, <2>4 DEF RegistryStep
<1>8. CASE RegistryTick \/ (NoAnswers /\ UNCHANGED <<clock, cards, calls, torn>>)
  BY <1>8, StandingSilent DEF RegistryTick, NoAnswers
<1>9. CASE UNCHANGED registryVars
  BY <1>9 DEF registryVars, Promise!vars, StandingOf
<1>10. QED
  BY <1>7, <1>8, <1>9, StepOfRegistry

(* The registry does what module Standing promises: a card once revoked or *)
(* superseded is never vouched for again.                                  *)
THEOREM StandingIsKept == Spec => StandingKept
<1>1. Init => Promise!Init
  BY DEF Init, RegistryInit, NoVerdict, StandingOf, Promise!Init
<1>2. QED
  BY <1>1, StepPromise, RegistryInductive, PTL
     DEF Spec, StandingKept, Promise!Spec

-----------------------------------------------------------------------------
(***************************************************************************)
(* The revocation list: how old the list may be that a client answers      *)
(* from.                                                                   *)
(***************************************************************************)
LEMMA ListTypes ==
  ASSUME RegistryInd, ListTypeOK
  PROVE  /\ clock \in Nat /\ crl.until \in Nat /\ cache.valid_until \in Nat
         /\ \A i \in DOMAIN cards : i \in 1 .. MaxCards /\ cards[i].revoked_at \in Nat
         /\ \A t \in Thread :
              /\ threads[t].at \in {"asking", "receiving"} =>
                   threads[t].sent \in 0 .. MaxClock
              /\ threads[t].at # "idle" => threads[t].agent \in 1 .. MaxCards
              /\ threads[t].at = "receiving" => threads[t].list \in CRL
<1>1. /\ clock \in Nat /\ cards \in Seq(AgentCard)
      /\ Len(cards) <= MaxCards /\ MaxCards \in Nat
  BY RegistryAssumption DEF RegistryInd, RegistryTypeOK
<1>2. ASSUME NEW i \in DOMAIN cards
      PROVE  i \in 1 .. MaxCards /\ cards[i].revoked_at \in Nat
  <2>1. cards[i] \in AgentCard /\ i \in 1 .. MaxCards
    BY <1>1
  <2>2. QED
    BY <2>1 DEF AgentCard
<1>3. ASSUME NEW t \in Thread
      PROVE  /\ threads[t].at \in {"asking", "receiving"} =>
                  threads[t].sent \in 0 .. MaxClock
             /\ threads[t].at # "idle" => threads[t].agent \in 1 .. MaxCards
             /\ threads[t].at = "receiving" => threads[t].list \in CRL
  <2>1. threads[t] \in ThreadState
    BY DEF ListTypeOK
  <2>2. QED
    BY <2>1 DEF ThreadState
<1>4. QED
  BY <1>1, <1>2, <1>3 DEF ListTypeOK, CRL

LEMMA ListInitInd == Init => ListInd
BY RevocationAssumption, RegistryAssumption
   DEF Init, RegistryInit, ListInd, ListTypeOK, ListsRecent, Misses,
       StalenessBounded, CRL, ThreadState, Nothing, NoReply, None

(* A step of the registry keeps the cards, and a card that is revoked      *)
(* after it was so before, or is so since now.                             *)
LEMMA RevocationDates ==
  ASSUME RegistryInd, RegistryStep
  PROVE  /\ clock' = clock /\ DOMAIN cards \subseteq DOMAIN cards'
         /\ \A i \in DOMAIN cards' : cards'[i].status = "revoked" =>
              \/ cards'[i].revoked_at = clock
              \/ /\ i \in DOMAIN cards /\ cards[i].status = "revoked"
                 /\ cards'[i].revoked_at = cards[i].revoked_at
<1> USE DEF RegistryInd
<1>1. cards \in Seq(AgentCard) /\ \A i \in DOMAIN cards : cards[i] \in AgentCard
  BY DEF RegistryTypeOK
<1>2. ASSUME NEW c \in Call, CreateCard(c)
      PROVE  /\ UNCHANGED clock /\ DOMAIN cards' = DOMAIN cards \cup {Len(cards) + 1}
             /\ cards'[Len(cards) + 1].status = "active"
             /\ \A i \in DOMAIN cards : cards'[i] = cards[i]
  BY <1>1, <1>2 DEF CreateCard, NewCard
<1>3. ASSUME NEW c \in Call, SupersedeOld(c)
      PROVE  /\ UNCHANGED clock /\ DOMAIN cards' = DOMAIN cards
             /\ cards'[calls[c].req.supersedes].status = "superseded"
             /\ \A i \in DOMAIN cards \ {calls[c].req.supersedes} :
                  cards'[i] = cards[i]
  <2>1. calls[c].req.supersedes \in DOMAIN cards
    BY <1>3 DEF SupersedeOld, CallsSound, CallSound
  <2>2. QED
    BY <1>1, <1>3, <2>1 DEF SupersedeOld, Marked, AgentCard
<1>4. ASSUME NEW j \in DOMAIN cards, RevokeCard(j)
      PROVE  /\ UNCHANGED clock /\ DOMAIN cards' = DOMAIN cards
             /\ cards'[j].revoked_at = clock
             /\ \A i \in DOMAIN cards \ {j} : cards'[i] = cards[i]
  BY <1>1, <1>4 DEF RevokeCard, AgentCard
<1>5. CASE \E c \in Call : CreateCard(c) \/ SupersedeOld(c)
  BY <1>2, <1>3, <1>5
<1>6. CASE \E j \in DOMAIN cards : RevokeCard(j)
  BY <1>4, <1>6
<1>7. CASE UNCHANGED <<clock, cards>>
  BY <1>7
<1>8. QED
  BY <1>5, <1>6, <1>7
     DEF RegistryStep, CheckRequest, CallFails, VerifyAgent, AskHistory,
         WalkBackward, WalkForward, AnswerHistory, Walk

LEMMA RegistryStepList ==
  ASSUME RegistryInd, RegistryInd', ListInd, RegistryStep, reply' = NoReply,
         UNCHANGED <<crl, cache, threads>>
  PROVE  ListInd'
<1> USE DEF ListInd
<1>1. ListTypeOK'
  BY RegistryAssumption DEF ListTypeOK, NoReply, None
<1>2. ASSUME NEW i \in DOMAIN cards', NEW list, Misses(list, i)'
      PROVE  \/ cards'[i].revoked_at = clock
             \/ /\ i \in DOMAIN cards /\ Misses(list, i)
                /\ cards'[i].revoked_at = cards[i].revoked_at
  BY <1>2, RevocationDates DEF Misses
<1>3. clock' = clock /\ DOMAIN cards \subseteq DOMAIN cards'
  BY RevocationDates
<1>4. ListsRecent'
  <2>1. /\ clock \in Nat /\ crl.until \in Nat /\ cache.valid_until \in Nat
        /\ \A t \in Thread : threads[t].at = "receiving" => threads[t].sent \in Nat
    BY ListTypes
  <2>2. /\ crl'.until <= clock' + CRL_CACHE_SECONDS
        /\ cache'.valid_until <= clock' + TTL
        /\ \A t \in Thread :
             /\ threads'[t].at # "idle" => threads'[t].agent \in DOMAIN cards'
             /\ threads'[t].at \in {"asking", "receiving"} =>
                  threads'[t].sent <= clock'
    BY <1>3 DEF ListsRecent
  <2>3. ASSUME NEW i \in DOMAIN cards', Misses(crl.list, i)'
        PROVE  crl.until <= cards'[i].revoked_at + CRL_CACHE_SECONDS
    BY <1>2, <2>3 DEF ListsRecent
  <2>4. ASSUME NEW i \in DOMAIN cards', NEW t \in Thread,
               threads[t].at = "receiving", Misses(threads[t].list, i)'
        PROVE  threads[t].sent <= cards'[i].revoked_at + CRL_CACHE_SECONDS
    BY <1>2, <2>1, <2>4, RevocationAssumption DEF ListsRecent
  <2>5. ASSUME NEW i \in DOMAIN cards', Misses(cache, i)'
        PROVE  /\ cache.valid_until <= cards'[i].revoked_at
                    + CRL_CACHE_SECONDS + RequestTimeout + TTL
               /\ (\E t \in Thread : threads[t].at = "refreshed") =>
                    clock <= cards'[i].revoked_at
                      + CRL_CACHE_SECONDS + RequestTimeout
    BY <1>2, <2>1, <2>5, RevocationAssumption DEF ListsRecent
  <2>6. QED
    BY <1>3, <2>2, <2>3, <2>4, <2>5 DEF ListsRecent, Misses
<1>5. StalenessBounded'
  BY DEF StalenessBounded, NoReply
<1>6. QED
  BY <1>1, <1>4, <1>5

LEMMA TickList ==
  ASSUME RegistryInd, ListInd, Tick
  PROVE  ListInd'
<1> USE DEF ListInd
<1>1. /\ clock' = clock + 1 /\ reply' = NoReply
      /\ UNCHANGED <<cards, crl, cache, threads>>
      /\ \A t \in Thread : threads[t].at # "refreshed"
  BY DEF Tick, RegistryTick
<1>2. ListTypeOK'
  BY <1>1, RegistryAssumption DEF ListTypeOK, NoReply, None
<1>3. ListsRecent'
  <2>1. /\ clock \in Nat /\ crl.until \in Nat /\ cache.valid_until \in Nat
        /\ \A t \in Thread : threads[t].at \in {"asking", "receiving"} =>
              threads[t].sent \in 0 .. MaxClock
    BY ListTypes
  <2>2. QED
    BY <1>1, <2>1, RevocationAssumption, RegistryAssumption
       DEF ListsRecent, Misses
<1>4. StalenessBounded'
  BY <1>1 DEF StalenessBounded, NoReply
<1>5. QED
  BY <1>2, <1>3, <1>4

(* Of the steps of a thread, those that change no list and no time.        *)
LEMMA AnswerList ==
  ASSUME RegistryInd, ListInd, NEW t \in Thread, NEW agent \in DOMAIN cards,
         \/ AnswerFromCache(t, agent) \/ check_revocation(t, agent)
         \/ AnswerRefreshed(t) /\ agent = threads[t].agent
  PROVE  ListInd'
<1> USE DEF ListInd
<1>1. /\ UNCHANGED <<clock, cards, crl, cache>>
      /\ reply' = [agent |-> agent, revoked |-> reply'.revoked]
      /\ reply'.revoked \in BOOLEAN
      /\ \/ threads' = threads
         \/ threads' = [threads EXCEPT ![t] = [at |-> "idle"]]
  <2>1. /\ UNCHANGED <<clock, cards, crl, cache>>
        /\ \/ threads' = threads
           \/ threads' = [threads EXCEPT ![t] = [at |-> "idle"]]
    BY DEF AnswerFromCache, check_revocation, AnswerRefreshed, Now
  <2>2. /\ reply' = [agent |-> agent, revoked |-> reply'.revoked]
        /\ reply'.revoked \in BOOLEAN
    <3>1. /\ Contains(cache, agent) \in BOOLEAN
          /\ (agent \in Revoked) \in BOOLEAN
      BY DEF Contains
    <3>2. \/ reply' = [agent |-> agent, revoked |-> Contains(cache, agent)]
          \/ reply' = [agent |-> agent, revoked |-> agent \in Revoked]
      BY DEF AnswerFromCache, check_revocation, AnswerRefreshed
    <3>3. \E b \in BOOLEAN : reply' = [agent |-> agent, revoked |-> b]
      BY <3>1, <3>2, Zenon
    <3>4. QED
      BY <3>3
  <2>3. QED
    BY <2>1, <2>2
<1>2. /\ clock \in Nat /\ agent \in 1 .. MaxCards
      /\ cards[agent].revoked_at \in Nat /\ cache.valid_until \in Nat
  BY ListTypes
<1>3. ListTypeOK'
  <2>1. threads' \in [Thread -> ThreadState]
    BY <1>1 DEF ListTypeOK, ThreadState
  <2>2. reply' \in [agent : 0 .. MaxCards, revoked : BOOLEAN]
    BY <1>1, <1>2, RegistryAssumption
  <2>3. QED
    BY <1>1, <2>1, <2>2 DEF ListTypeOK
<1>4. ListsRecent'
  <2>1. \A u \in Thread : threads'[u] = threads[u] \/ threads'[u] = [at |-> "idle"]
    BY <1>1 DEF ListTypeOK
  <2>2. QED
    BY <1>1, <2>1 DEF ListsRecent, Misses
<1>5. ASSUME ~reply'.revoked, cards[agent].status = "revoked"
      PROVE  clock - cards[agent].revoked_at <=
               CRL_CACHE_SECONDS + RequestTimeout + TTL
  <2>1. CASE check_revocation(t, agent)
    BY <1>5, <2>1 DEF check_revocation, Revoked
  <2>2. CASE AnswerFromCache(t, agent)
    <3>1. Misses(cache, agent) /\ clock <= cache.valid_until
      <4>1. reply'.revoked = (agent \in cache.revoked)
        BY <2>2, Zenon DEF AnswerFromCache, Contains
      <4>2. ~(clock > cache.valid_until)
        BY <2>2 DEF AnswerFromCache, Stale
      <4>3. Misses(cache, agent)
        BY <1>5, <4>1, Zenon DEF Misses
      <4>4. QED
        BY <1>2, <4>2, <4>3
    <3>2. cache.valid_until <= cards[agent].revoked_at
            + CRL_CACHE_SECONDS + RequestTimeout + TTL
      BY <3>1 DEF ListsRecent
    <3>3. QED
      BY <1>2, <3>1, <3>2, RevocationAssumption
  <2>3. CASE AnswerRefreshed(t) /\ agent = threads[t].agent
    <3>1. Misses(cache, agent) /\ threads[t].at = "refreshed"
      BY <1>5, <2>3 DEF AnswerRefreshed, Contains, Misses
    <3>2. clock <= cards[agent].revoked_at + CRL_CACHE_SECONDS + RequestTimeout
      BY <3>1 DEF ListsRecent
    <3>3. QED
      BY <1>2, <3>2, RevocationAssumption
  <2>4. QED
    BY <2>1, <2>2, <2>3
<1>6. StalenessBounded'
  BY <1>1, <1>5 DEF StalenessBounded
<1>7. QED
  BY <1>3, <1>4, <1>6

LEMMA AskForListInd ==
  ASSUME RegistryInd, ListInd, NEW t \in Thread, NEW agent \in DOMAIN cards,
         AskForList(t, agent)
  PROVE  ListInd'
<1> USE DEF ListInd
<1>1. /\ threads' = [threads EXCEPT ![t] =
                       [at |-> "asking", agent |-> agent, sent |-> clock]]
      /\ reply' = NoReply /\ UNCHANGED <<clock, cards, crl, cache>>
  BY DEF AskForList, Now, Quietly
<1>2. agent \in 1 .. MaxCards /\ clock \in 0 .. MaxClock /\ clock \in Nat
  BY ListTypes, RegistryAssumption DEF RegistryInd, RegistryTypeOK
<1>3. ListTypeOK'
  BY <1>1, <1>2, RegistryAssumption DEF ListTypeOK, ThreadState, NoReply, None
<1>4. ListsRecent'
  <2>1. /\ threads'[t] = [at |-> "asking", agent |-> agent, sent |-> clock]
        /\ \A u \in Thread \ {t} : threads'[u] = threads[u]
    BY <1>1 DEF ListTypeOK
  <2>2. QED
    BY <1>1, <1>2, <2>1 DEF ListsRecent, Misses
<1>5. StalenessBounded'
  BY <1>1 DEF StalenessBounded, NoReply
<1>6. QED
  BY <1>3, <1>4, <1>5

(* A list served from the server's cache misses only what was revoked      *)
(* since it was built; one built now misses nothing.                       *)
LEMMA ServeListInd ==
  ASSUME RegistryInd, ListInd, NEW t \in Thread, ServeList(t)
  PROVE  ListInd'
<1> USE DEF ListInd
<1> DEFINE fresh == clock < crl.until
           list  == IF fresh THEN crl.list ELSE Built
           state == [at |-> "receiving", agent |-> threads[t].agent,
                     sent |-> threads[t].sent, list |-> list]
<1>1. /\ threads[t].at = "asking" /\ threads' = [threads EXCEPT ![t] = state]
      /\ crl' = IF fresh THEN crl
                ELSE [list |-> list, until |-> clock + CRL_CACHE_SECONDS]
      /\ reply' = NoReply /\ UNCHANGED <<clock, cards, cache>>
  BY DEF ServeList, Now, Quietly
<1>2. /\ clock \in Nat /\ crl.until \in Nat /\ crl.list \in CRL
      /\ threads[t].agent \in 1 .. MaxCards /\ threads[t].sent \in 0 .. MaxClock
      /\ threads[t].agent \in DOMAIN cards /\ threads[t].sent <= clock
      /\ \A i \in DOMAIN cards : i \in 1 .. MaxCards /\ cards[i].revoked_at \in Nat
  BY <1>1, ListTypes DEF ListTypeOK, ListsRecent
<1>3. Built \in CRL /\ \A i \in DOMAIN cards : ~Misses(Built, i)
  BY <1>2, RevocationAssumption DEF Built, Revoked, CRL, Misses
<1>4. list \in CRL
  BY <1>2, <1>3
<1>5. ASSUME NEW i \in DOMAIN cards, Misses(list, i)
      PROVE  /\ fresh /\ Misses(crl.list, i)
             /\ threads[t].sent <= cards[i].revoked_at + CRL_CACHE_SECONDS
  <2>1. fresh /\ Misses(crl.list, i)
    BY <1>3, <1>5
  <2>2. crl.until <= cards[i].revoked_at + CRL_CACHE_SECONDS
    BY <2>1 DEF ListsRecent
  <2>3. QED
    BY <1>2, <2>1, <2>2, RevocationAssumption, RegistryAssumption
<1> HIDE DEF list
<1>6. ListTypeOK'
  BY <1>1, <1>2, <1>4, RegistryAssumption, RevocationAssumption
     DEF ListTypeOK, ThreadState, NoReply, None
<1>7. ListsRecent'
  <2>1. /\ threads'[t] = state /\ \A u \in Thread \ {t} : threads'[u] = threads[u]
    BY <1>1 DEF ListTypeOK
  <2>2. /\ crl'.until <= clock + CRL_CACHE_SECONDS
        /\ \A i \in DOMAIN cards : Misses(crl'.list, i) =>
              crl'.until <= cards[i].revoked_at + CRL_CACHE_SECONDS
    <3>1. CASE fresh
      BY <1>1, <3>1 DEF ListsRecent
    <3>2. CASE ~fresh
      BY <1>1, <1>2, <1>5, <3>2, RevocationAssumption
    <3>3. QED
      BY <3>1, <3>2
  <2>3. \A u \in Thread :
          /\ threads'[u].at # "idle" => threads'[u].agent \in DOMAIN cards
          /\ threads'[u].at \in {"asking", "receiving"} => threads'[u].sent <= clock
    BY <1>2, <2>1 DEF ListsRecent
  <2>4. \A i \in DOMAIN cards, u \in Thread :
          threads'[u].at = "receiving" /\ Misses(threads'[u].list, i) =>
            threads'[u].sent <= cards[i].revoked_at + CRL_CACHE_SECONDS
    BY <1>5, <2>1 DEF ListsRecent
  <2>5. ASSUME NEW u \in Thread, threads'[u].at = "refreshed"
        PROVE  threads[u].at = "refreshed"
    BY <2>1, <2>5
  <2>6. \A i \in DOMAIN cards : Misses(cache, i) =>
          /\ cache.valid_until <= cards[i].revoked_at
               + CRL_CACHE_SECONDS + RequestTimeout + TTL
          /\ (\E u \in Thread : threads'[u].at = "refreshed") =>
               clock <= cards[i].revoked_at + CRL_CACHE_SECONDS + RequestTimeout
    BY <2>5 DEF ListsRecent
  <2>7. QED
    BY <1>1, <2>2, <2>3, <2>4, <2>6 DEF ListsRecent, Misses
<1>8. StalenessBounded'
  BY <1>1 DEF StalenessBounded, NoReply
<1>9. QED
  BY <1>6, <1>7, <1>8

(* A list that arrives in time becomes the cache, even an older one than   *)
(* the cache had; its time at the server and on its way add up.            *)
LEMMA ReceiveListInd ==
  ASSUME RegistryInd, ListInd, NEW t \in Thread, ReceiveList(t)
  PROVE  ListInd'
<1> USE DEF ListInd
<1> DEFINE list  == threads[t].list
           state == [at |-> "refreshed", agent |-> threads[t].agent]
<1>1. /\ threads[t].at = "receiving" /\ clock <= threads[t].sent + RequestTimeout
      /\ cache' = [revoked |-> list.revoked, valid_until |-> TrustedUntil(list)]
      /\ threads' = [threads EXCEPT ![t] = state]
      /\ reply' = NoReply /\ UNCHANGED <<clock, cards, crl>>
  BY DEF ReceiveList, Now, Quietly
<1>2. /\ clock \in Nat /\ list \in CRL /\ threads[t].sent \in Nat
      /\ threads[t].agent \in 1 .. MaxCards /\ threads[t].agent \in DOMAIN cards
      /\ \A i \in DOMAIN cards : cards[i].revoked_at \in Nat
  BY <1>1, ListTypes DEF ListsRecent
<1>3. TrustedUntil(list) \in Nat /\ TrustedUntil(list) <= clock + TTL
  BY <1>2, RevocationAssumption DEF TrustedUntil, Lesser, CRL
<1>4. ASSUME NEW i \in DOMAIN cards, Misses(list, i)
      PROVE  clock <= cards[i].revoked_at + CRL_CACHE_SECONDS + RequestTimeout
  <2>1. threads[t].sent <= cards[i].revoked_at + CRL_CACHE_SECONDS
    BY <1>1, <1>4 DEF ListsRecent
  <2>2. QED
    BY <1>1, <1>2, <2>1, RevocationAssumption
<1>5. ListTypeOK'
  <2>1. cache' \in CRL
    BY <1>1, <1>2, <1>3 DEF CRL
  <2>2. threads' \in [Thread -> ThreadState]
    BY <1>1, <1>2 DEF ListTypeOK, ThreadState
  <2>3. QED
    BY <1>1, <2>1, <2>2, RegistryAssumption DEF ListTypeOK, NoReply, None
<1>6. ListsRecent'
  <2>1. /\ threads'[t] = state /\ \A u \in Thread \ {t} : threads'[u] = threads[u]
    BY <1>1 DEF ListTypeOK
  <2>2. /\ cache'.valid_until \in Nat /\ cache'.valid_until <= clock + TTL
        /\ \A i \in DOMAIN cards : Misses(cache', i) => Misses(list, i)
    BY <1>1, <1>3 DEF Misses
  <2>3. \A i \in DOMAIN cards : Misses(cache', i) =>
          /\ clock <= cards[i].revoked_at + CRL_CACHE_SECONDS + RequestTimeout
          /\ cache'.valid_until <= cards[i].revoked_at
               + CRL_CACHE_SECONDS + RequestTimeout + TTL
    BY <1>2, <1>4, <2>2, RevocationAssumption
  <2>4. /\ \A u \in Thread :
             /\ threads'[u].at # "idle" => threads'[u].agent \in DOMAIN cards
             /\ threads'[u].at \in {"asking", "receiving"} =>
                  threads'[u].sent <= clock
        /\ \A i \in DOMAIN cards, u \in Thread :
             threads'[u].at = "receiving" /\ Misses(threads'[u].list, i) =>
               threads'[u].sent <= cards[i].revoked_at + CRL_CACHE_SECONDS
    BY <1>2, <2>1 DEF ListsRecent
  <2>5. QED
    BY <1>1, <2>2, <2>3, <2>4 DEF ListsRecent, Misses
<1>7. StalenessBounded'
  BY <1>1 DEF StalenessBounded, NoReply
<1>8. QED
  BY <1>5, <1>6, <1>7

LEMMA RefreshFailsInd ==
  ASSUME RegistryInd, ListInd, NEW t \in Thread, RefreshFails(t)
  PROVE  ListInd'
<1> USE DEF ListInd
<1>1. /\ threads' = [threads EXCEPT ![t] = [at |-> "idle"]]
      /\ reply' = NoReply /\ UNCHANGED <<clock, cards, crl, cache>>
  BY DEF RefreshFails, Now, Quietly
<1>2. ListTypeOK'
  BY <1>1, RegistryAssumption DEF ListTypeOK, ThreadState, NoReply, None
<1>3. ListsRecent'
  <2>1. /\ threads'[t] = [at |-> "idle"]
        /\ \A u \in Thread \ {t} : threads'[u] = threads[u]
    BY <1>1 DEF ListTypeOK
  <2>2. QED
    BY <1>1, <2>1 DEF ListsRecent, Misses
<1>4. StalenessBounded'
  BY <1>1 DEF StalenessBounded, NoReply
<1>5. QED
  BY <1>2, <1>3, <1>4

LEMMA ListStepInd ==
  ASSUME IndInv, [Next]_vars
  PROVE  ListInd'
<1> USE DEF IndInv
<1>1. CASE RegistryStep /\ reply' = NoReply /\ UNCHANGED <<crl, cache, threads>>
  BY <1>1, RegistryStepInd, RegistryStepList
<1>2. ASSUME NEW t \in Thread, NEW i \in Watched \cap DOMAIN cards,
             \/ AnswerFromCache(t, i) \/ AskForList(t, i)
             \/ check_revocation(t, i)
      PROVE  ListInd'
  BY <1>2, AnswerList, AskForListInd
<1>3. ASSUME NEW t \in Thread, AnswerRefreshed(t)
      PROVE  ListInd'
  <2>1. threads[t].agent \in DOMAIN cards
    BY <1>3 DEF AnswerRefreshed, ListInd, ListsRecent
  <2>2. QED
    BY <1>3, <2>1, AnswerList
<1>4. CASE \E t \in Thread : ServeList(t) \/ ReceiveList(t) \/ RefreshFails(t)
  BY <1>4, ServeListInd, ReceiveListInd, RefreshFailsInd
<1>5. CASE Tick
  BY <1>5, TickList
<1>6. CASE UNCHANGED vars
  BY <1>6 DEF vars, registryVars, listVars, ListInd, ListTypeOK, ListsRecent,
              Misses, StalenessBounded
<1>7. QED
  BY <1>1, <1>2, <1>3, <1>4, <1>5, <1>6 DEF Next

(* The invariant of the registry and its revocation list together.         *)
THEOREM Inductive == Spec => []IndInv
<1>1. Init => IndInv
  BY RegistryInitInd, ListInitInd DEF Init, IndInv
<1>2. RegistryInd' /\ IndInv /\ [Next]_vars => IndInv'
  BY ListStepInd DEF IndInv
<1>3. QED
  BY <1>1, <1>2, RegistryInductive, PTL DEF Spec

(* The state of registry, server and client is of its types.               *)
THEOREM TypeCorrect == Spec => []TypeOK
<1>1. IndInv => TypeOK
  BY DEF IndInv, RegistryInd, ListInd, ListTypeOK, TypeOK
<1>2. QED
  BY <1>1, Inductive, PTL

(* A client that calls a revoked card not revoked is late by no more than  *)
(* the server's cache, the request and its own cache together, whatever    *)
(* order lists arrive in and however long each lives.                      *)
THEOREM StalenessIsBounded == Spec => []StalenessBounded
BY Inductive, PTL DEF IndInv, ListInd
=============================================================================
