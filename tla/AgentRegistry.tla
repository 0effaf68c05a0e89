--------------------------- MODULE AgentRegistry ---------------------------
(***************************************************************************)
(* ARIA's registry of agent cards: registration with supersedes, verify    *)
(* and version history, as coroutines that give way at every await of the  *)
(* database, and the revocation of cards by their owners or the registry.  *)
(*                                                                         *)
(* A card's id is its position in cards; the database (external) hands ids *)
(* out, applies each call at once and never deletes.  An await that raises *)
(* ends its handler where it stands.  A handler that answers with an HTTP  *)
(* error before it has changed anything is a step that is not enabled.     *)
(***************************************************************************)
EXTENDS Expiry, VersionChain, Sequences

CONSTANTS
  Owner,      \* owners' public keys
  Call,       \* registration calls that can be in flight together
  Versions,   \* the card_version arguments callers make up themselves
  Expiries,   \* the expires_at arguments they pass
  Numbered,   \* whether the database returns card_version as "version", as
              \* the renaming ARIA_ENDPOINT_CHANGES.py describes, or "version"
              \* as register_agent stores it: a semver string or None
  Queried,    \* bound: the ids whose verification and history are asked for
  MaxCards,   \* bound: how many cards are registered
  MaxClock    \* bound: the clock stops here

ASSUME RegistryAssumption ==
  /\ Versions \subseteq Nat \ {0}
  /\ Expiries \subseteq RawExpiry
  /\ Numbered \in BOOLEAN
  /\ MaxCards \in Nat /\ MaxClock \in Nat

VARIABLES
  clock,     \* the wall clock
  cards,     \* the cards registered so far
  calls,     \* where each registration call stands
  torn,      \* history: cards whose registration failed after creating them
  verdict,   \* what the last step's verify call answered
  walk       \* the version history request in progress

registryVars == <<clock, cards, calls, torn, verdict, walk>>

Status == {"active", "superseded", "revoked"}

AgentCard ==
  [owner : Owner, version : Nat \ {0}, supersedes : Nat, superseded_by : Nat,
   expires_at : Expiries, status : Status, revoked_at : Nat]

Request == [owner : Owner, supersedes : 0 .. MaxCards, version : Nat \ {0},
            expires_at : Expiries]

CallState == [at : {"idle"}] \cup [at : {"checked"}, req : Request]
               \cup [at : {"created"}, req : Request, new : 1 .. MaxCards]

Entry == [id : 1 .. MaxCards, owner : Owner, version : Nat \cup {NoNumber},
          supersedes : 0 .. MaxCards, superseded_by : 0 .. MaxCards]

NoVerdict == [card |-> None, reason |-> "none"]
NoWalk == [at |-> "idle", asked |-> None, chain |-> <<>>]

RegistryTypeOK ==
  /\ clock \in 0 .. MaxClock
  /\ cards \in Seq(AgentCard) /\ Len(cards) <= MaxCards
  /\ calls \in [Call -> CallState]
  /\ torn \subseteq DOMAIN cards
  /\ verdict \in [card : {None} \cup DOMAIN cards,
                  reason : {"none", "card_superseded", "card_revoked",
                            "card_expired", "verified"}]
  /\ walk \in [at : {"idle", "walking", "answered", "failed"},
               asked : {None} \cup DOMAIN cards, chain : Seq(Entry)]

RegistryInit ==
  /\ clock = 0
  /\ cards = <<>>
  /\ calls = [c \in Call |-> [at |-> "idle"]]
  /\ torn = {}
  /\ verdict = NoVerdict
  /\ walk = NoWalk

\* No answer is given; those of the last step are history.
NoAnswers ==
  /\ verdict' = NoVerdict
  /\ walk' = IF walk.at = "walking" THEN walk ELSE NoWalk

-----------------------------------------------------------------------------
(***************************************************************************)
(* register_agent: the superseded card is read and its owner compared;     *)
(* the new card is created; the old one is marked.  Other handlers run in  *)
(* between, and the old card is not looked at again.                       *)
(***************************************************************************)
\* Defect: versions start at 0, which "card_version: int = Field(ge=1)" bars.
PreparedVersionFromZero(old) ==
  IF old = None THEN 0 ELSE cards[old].version + 1

\* prepare_version_fields, by which callers choose card_version
PreparedVersion(old) == IF old = None THEN 1 ELSE cards[old].version + 1

\* Defect: the owners are not compared.
SameOwnerUnchecked(owner, old) == TRUE

\* validate_supersedes_registration
SameOwner(owner, old) == cards[old].owner = owner

CheckRequest(c, owner, old, exp) ==
  /\ calls[c].at = "idle"
  /\ old # None => SameOwner(owner, old)
  /\ \E v \in Versions \cup {PreparedVersion(old)} :
       calls' = [calls EXCEPT ![c] =
                   [at |-> "checked",
                    req |-> [owner |-> owner, supersedes |-> old,
                             version |-> v, expires_at |-> exp]]]
  /\ NoAnswers
  /\ UNCHANGED <<clock, cards, torn>>

NewCard(req) ==
  [owner |-> req.owner, version |-> req.version, supersedes |-> req.supersedes,
   superseded_by |-> None, expires_at |-> req.expires_at,
   status |-> "active", revoked_at |-> 0]

CreateCard(c) ==
  /\ calls[c].at = "checked"
  /\ Len(cards) < MaxCards
  /\ cards' = Append(cards, NewCard(calls[c].req))
  /\ calls' = [calls EXCEPT ![c] =
                 IF @.req.supersedes = None THEN [at |-> "idle"]
                 ELSE [at |-> "created", req |-> @.req, new |-> Len(cards) + 1]]
  /\ NoAnswers
  /\ UNCHANGED <<clock, torn>>

\* Defect: the newest card is taken for the one this call created.
MarkedByNewest(old, new) ==
  [cards EXCEPT ![old].status = "superseded",
                ![old].superseded_by = Len(cards)]

\* Defect: the card registered before the new one is taken for the old.
MarkedPrevious(old, new) ==
  [cards EXCEPT ![new - 1].status = "superseded",
                ![new - 1].superseded_by = new]

Marked(old, new) ==
  [cards EXCEPT ![old].status = "superseded", ![old].superseded_by = new]

SupersedeOld(c) ==
  /\ calls[c].at = "created"
  /\ cards' = Marked(calls[c].req.supersedes, calls[c].new)
  /\ calls' = [calls EXCEPT ![c] = [at |-> "idle"]]
  /\ NoAnswers
  /\ UNCHANGED <<clock, torn>>

CallFails(c) ==
  /\ calls[c].at # "idle"
  /\ torn' = IF calls[c].at = "created" THEN torn \cup {calls[c].new} ELSE torn
  /\ calls' = [calls EXCEPT ![c] = [at |-> "idle"]]
  /\ NoAnswers
  /\ UNCHANGED <<clock, cards>>

\* External: the status of a card becomes "revoked" in the database.
RevokeCard(i) ==
  /\ cards[i].status # "revoked"
  /\ cards' = [cards EXCEPT ![i].status = "revoked", ![i].revoked_at = clock]
  /\ NoAnswers
  /\ UNCHANGED <<clock, calls, torn>>

-----------------------------------------------------------------------------
\* Defect: only the revoked are turned away.
ReasonIgnoringSuperseded(card) ==
  CASE card.status = "revoked" -> "card_revoked"
    [] card.status # "revoked" /\ is_expired(card.expires_at, clock) ->
         "card_expired"
    [] OTHER -> "verified"

Reason(card) ==
  CASE card.status = "superseded" -> "card_superseded"
    [] card.status = "revoked" -> "card_revoked"
    [] card.status = "active"
         /\ ~validate_expiry_for_verify(card.expires_at, clock).passed ->
         "card_expired"
    [] OTHER -> "verified"

VerifyAgent(i) ==
  /\ i \in Queried
  /\ verdict' = [card |-> i, reason |-> Reason(cards[i])]
  /\ UNCHANGED <<clock, cards, calls, torn, walk>>

-----------------------------------------------------------------------------
(***************************************************************************)
(* get_version_history: back along supersedes from the card asked for,     *)
(* then forward along superseded_by from that same card, as it was when it *)
(* was read.  One request at a time is walked; it only reads.              *)
(***************************************************************************)
\* VersionEntry.from_card
FromCard(i) ==
  [id |-> i, owner |-> cards[i].owner,
   version |-> IF Numbered THEN cards[i].version ELSE NoNumber,
   supersedes |-> cards[i].supersedes,
   superseded_by |-> cards[i].superseded_by]

Walk(at, asked, chain) ==
  /\ walk' = [at |-> at, asked |-> asked, chain |-> chain]
  /\ verdict' = NoVerdict
  /\ UNCHANGED <<clock, cards, calls, torn>>

First(chain) == chain[1]
Last(chain) == chain[Len(chain)]

AskHistory(i) ==
  /\ walk.at = "idle"
  /\ i \in Queried
  /\ Walk("walking", i, << FromCard(i) >>)

WalkBackward ==
  /\ walk.at = "walking"
  /\ First(walk.chain).supersedes # None
  /\ Walk("walking", walk.asked,
          << FromCard(First(walk.chain).supersedes) >> \o walk.chain)

Successor(chain) == Last(chain).superseded_by

WalkForward ==
  /\ walk.at = "walking"
  /\ First(walk.chain).supersedes = None
  /\ Successor(walk.chain) # None
  /\ Walk("walking", walk.asked,
          Append(walk.chain, FromCard(Successor(walk.chain))))

AnswerHistory ==
  /\ walk.at = "walking"
  /\ First(walk.chain).supersedes = None
  /\ Successor(walk.chain) = None
  /\ Walk(IF ValidVersionChain(walk.chain) THEN "answered" ELSE "failed",
          walk.asked, walk.chain)

-----------------------------------------------------------------------------
RegistryTick ==
  /\ clock < MaxClock
  /\ clock' = clock + 1
  /\ NoAnswers
  /\ UNCHANGED <<cards, calls, torn>>

RegistryStep ==
  \/ \E c \in Call, owner \in Owner, exp \in Expiries,
        old \in {None} \cup DOMAIN cards : CheckRequest(c, owner, old, exp)
  \/ \E c \in Call : CreateCard(c) \/ SupersedeOld(c) \/ CallFails(c)
  \/ \E i \in DOMAIN cards : RevokeCard(i) \/ VerifyAgent(i) \/ AskHistory(i)
  \/ WalkBackward \/ WalkForward \/ AnswerHistory

RegistryNext == RegistryStep \/ RegistryTick

RegistrySpec == RegistryInit /\ [][RegistryNext]_registryVars

-----------------------------------------------------------------------------
(* Whatever registrations overlap, fork or fail: superseded_by, once set,  *)
(* names a newer card of the same owner that supersedes this one, so the   *)
(* lineage is a forest and "successor" in a verify answer leads on.        *)
SuccessorPointsBack ==
  \A i \in DOMAIN cards :
    /\ cards[i].supersedes # None =>
         /\ cards[i].supersedes < i
         /\ cards[cards[i].supersedes].owner = cards[i].owner
    /\ cards[i].superseded_by # None =>
         /\ cards[i].superseded_by \in DOMAIN cards
         /\ cards[cards[i].superseded_by].supersedes = i
    /\ cards[i].superseded_by # None => cards[i].status # "active"

(* A card stays active beside a card that supersedes it only while the     *)
(* registration of the latter is between its two writes, or if it failed   *)
(* there.  Only a database error leaves two versions active.               *)
TwoActiveOnlyIfTorn ==
  \A i \in DOMAIN cards :
    LET old == cards[i].supersedes IN
    old # None /\ cards[old].status = "active" =>
      \/ i \in torn
      \/ \E c \in Call : calls[c].at = "created" /\ calls[c].new = i

(* A history is put together from reads at different times, while cards    *)
(* are registered, superseded and revoked.  Still, what has been gathered  *)
(* at any time is an unbroken line through the card asked for, each card   *)
(* superseding the one before, and what is answered starts with an         *)
(* original.                                                               *)
HistoryIsLineage ==
  walk.at # "idle" =>
    LET ch == walk.chain IN
    /\ \E k \in DOMAIN ch : ch[k].id = walk.asked
    /\ \A k \in 2 .. Len(ch) : cards[ch[k].id].supersedes = ch[k - 1].id
    /\ walk.at = "answered" => cards[ch[1].id].supersedes = None

(* When the database returns card_version as "version", a history fails    *)
(* only because of the versions callers made up: two cards of the line     *)
(* share one, or the original does not have the lowest.  Races with        *)
(* registrations never make it fail.                                       *)
HistoryFailsOnVersionsOnly ==
  walk.at = "failed" /\ Numbered =>
    \/ ~VersionsIncrease(walk.chain)
    \/ ~OriginalIsLowest(walk.chain)

(* The registry keeps the promise of Standing: a card once revoked or      *)
(* superseded is never vouched for again, though superseding overwrites a  *)
(* revocation and the two are checked one after the other.                 *)
StandingOf(i) ==
  IF i \notin DOMAIN cards THEN "unissued"
  ELSE IF cards[i].status = "active" THEN "active" ELSE "retired"

Promise ==
  INSTANCE Standing WITH
    Id <- 1 .. MaxCards,
    standing <- [i \in 1 .. MaxCards |-> StandingOf(i)],
    vouched <- {i \in {verdict.card} : verdict.reason = "verified"}

StandingKept == Promise!Spec

(* "Return the full supersedes chain for an agent lineage": a request for  *)
(* the history of a registered card is not answered with an error.         *)
HistoryAnswers == walk.at # "failed"
=============================================================================
