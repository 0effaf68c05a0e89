# Carapace, modelled in TLA+

Carapace gives software agents identity cards and lets an agent's card holder
delegate capabilities to other agents; ARIA is the registry the cards live in.
This directory holds TLA+ models of the parts of the repository that decide
something over time, the TLC configurations that check them on small instances,
and TLAPS proofs of their main properties for every value of the constants.

`src/carapace` is the Python SDK and most of the code modelled here. Beside it are
modelled `src/aria` and `src/v020` (ARIA's endpoints and the client of its
revocation list), `src/typescript` (a port of the SDK) and `src/v030` (an earlier
snapshot of it, still what ARIA's delegation endpoints are written for) where they
decide differently. `src/python/carapace` is a second copy of the SDK, identical
but for `__init__.py`.

    tlc -workers 2 -config MCDelegation_verify.cfg MCDelegation.tla
    tlapm Delegation_proofs.tla

`PROJECT.json` lists the components, runs, mutants, findings, hazards and
theorems, and maps each definition to the lines it models.

## Inventory

| Part | State | Operations | What makes it hard | What makes it correct |
|---|---|---|---|---|
| Capability matching (`delegation.py:326`, `enforce.py:112`) | none | `validate_capability_subset`, `has_capability`, `_has_delegated_capability` | two matchers with different wildcard rules, applied hop by hop | narrowing is transitive; enforcement never exceeds what was narrowed |
| Delegation tokens (`delegation.py`, its port, `v030`) | signed tokens in their holders' hands; cards and their statuses | `create_delegation`, `redelegate`, `verify_delegation`, `verify_delegation_chain`, `enforce_delegated` | each call sees its parent or its neighbour only; time passes and cards are retired between calls; hosts are handed links in any order; agents and hosts run different SDKs | capabilities, expiry and depth narrow end to end; accepted chains are whole lineages |
| Replay protection (`delegation.py:185-321`) | the registry of used nonces | `check_and_mark`, `clear` | concurrent verifications with clock readings of different ages, marking several nonces one at a time | a live token is used once; a rejected chain burns nothing that lives |
| Expiry (`expiry.py`) | none | `make_expires_at`, `parse_expires_at`, `check_expiry`, `validate_expiry_for_verify` | values that do not parse, and readers that disagree about them | no reader that lets a card pass is laxer than verification |
| Card enforcement (`enforce.py`) | none | `enforce`, `enforce_all`, `enforce_any`, `EnforcementPolicy` | a boundary that differs from verification's (`>=` against `>`) | a card verification calls expired passes none |
| Compliance (`compliance.py`, its port) | none | `evaluate_compliance` | judged once, relied on later | what a profile limits at admission still holds when tools run |
| Escalation (`escalation.py`, its port) | requests and their status | triggers, approve, deny | wildcards on both sides, combinations, delegates | nothing a trigger names is exercised without an approval |
| Protected paths (`protected_paths.py`, its port) | approvals, a bounded audit log, sinks | check a write, audit it, register a sink, clear | sinks run outside the lock, in threads, and raise; two pattern languages | the log keeps the newest; a sink misses no decision; where patterns have only stars, the ports protect alike |
| Agent registry and card versions (`endpoints_v02.py`, `versioning.py`) | cards, status, `supersedes` / `superseded_by` | register, revoke, verify, history | reads and writes separated by awaits; two writes without a transaction; a history read while it changes | lineages are forests; a retired card is never vouched for again; histories are unbroken lines |
| Delegation records (`endpoints_v03.py`) | records, status, parent | create, verify, revoke with cascade | the cascade lists children while children are created; the parent is read before the record is written | records narrow along every line; the cascade misses only what slipped in before it |
| Revocation list (`aria_revocation.py`) | the server's cached signed list; each client's cache | publish, check, refresh, `is_revoked` | two caches in a row, responses out of order | a bound on how long a revocation goes unseen |
| Receipts (`receipt.py`, `receipt_protocol.py`) | receipts, posts under way | create, validate, verify, post | lost acknowledgements, late arrivals, a server of before version 2 | stored once, acknowledged only if stored, nothing forged |
| Catalog and gates (`catalog.py`) | a snapshot with its ETag | `fetch_catalog`, `run_gate_check` | 304 answers, bodies that cannot be read, fetches that fail | the gates read what the last good fetch confirmed |
| Tool host (external: `README.md`) | the call in progress | admit, gate, enforce, escalate, execute, report | each check reads another clock, card or snapshot | what holds of each part holds of their composition |
| Epistemic log (`epistemic.py`) | a hash-chained list; the document it was exported to | `record`, `verify_integrity`, `export_json`, `from_json` | storage belongs to the operator; the log outlives the process | whatever verifies was recorded; what was recorded verifies |
| Epistemic log in TypeScript (`epistemic.ts`) | the same list; calls in progress | `record()`, `verifyIntegrity()`, `exportAuditTrail()` | `async` methods that read the log, await and then write it | overlapping calls keep the log ordered, verification answers for the log as it is |

How they interact: minting and verification read cards, whose status the registry
changes; verification calls the capability matcher and, if given one, the nonce
registry; enforcement, compliance and escalation call the matcher and read the
card's expiry; the registry's records endpoints call the delegation library;
clients learn of revocations through the list; a host puts the checks around each
tool call. The log and the protected paths stand alone.

## Modules

    Capabilities --+-- Delegation ---- Interop ---- MCDelegation
        |          |                      Delegation_proofs
        |          +-- DelegationRecords ---------- MCDelegationRecords
    Capabilities_  |       DelegationRecords_proofs
        proofs     +-- Enforcement ---- Compliance --+
                   |       |                         +-- ToolHost ---- MCToolHost
                   +-- Escalation -------------------+      ToolHost_proofs
                           |             Catalog ----+
    Expiry ----------------+    Evidence = Receipts -+
        |
        +---- AgentRegistry ---- RevocationList ---- MCRegistry
                |   = Standing       RevocationList_proofs
            VersionChain

    UseOnce = ReplayGuard ---- MCReplayGuard
                     \
                      Guards_proofs
                     /
    Glob ---- ProtectedPaths ---- MCProtectedPaths

    HashChain --+-- EpistemicLog ---- MCEpistemicLog
                |       EpistemicLog_proofs
                +-- AsyncLog -------- MCAsyncLog
                        AsyncLog_proofs

A line joins a module with one that EXTENDS it; `A = B` says that B is shown to
implement the abstract specification A. A module `X_proofs` holds the theorems
about X and the modules it extends; Guards_proofs is about two modules that share
nothing. The proofs of Delegation, DelegationRecords and ToolHost use the lemmas
of Capabilities_proofs. A definition marked "Defect" is a faulty
variant of the one that follows it. No action uses it; put in the other's place,
it makes a property fail, which is how each property is shown to depend on the
code. Names are the source's; where a module has both ports, names in TypeScript's
case are the TypeScript port's, and names that end in `v030` or `V030` are v0.3's.

### Capabilities

Identifiers are sequences of segments. The three matchers are translated branch
by branch, including the branch that answers a wildcard requirement before the
declared wildcards are looked at. The header says why the string tests
(`endswith(":*")`, `startswith(cap[:-1])`) are exactly these sequence tests.

### Delegation

State: the clock, each card's status, all tokens ever minted (a token's position
is its id), and the positive answer the last step's call gave. `lineage` is a
history variable: the ancestors of each token and the card its root delegation
came from. Actions: `Delegate` and `Redelegate` (the two ways through
`create_delegation`), `VerifyDelegation`, `VerifyDelegationChain`,
`EnforceDelegated`, `Retire` (what the registry does to a card) and `Tick`.
Calls that raise or answer "invalid" change nothing and are steps that are not
enabled.

- Calls are atomic: without a replay checker, the default, they touch no shared
  state. ReplayGuard is the model with one.
- A signature is the fact that the token was signed when it was minted. Runs mint
  signed tokens only; the theorems hold with `allow_unsigned` too.
- Hosts are handed tokens the SDK minted, unaltered, in any order and number.
- `Never` is an expiry for which `parse_expires_at` returns None: a card without
  one, or a token given a value that does not parse. TTLs and depths are
  non-negative, and the clock does not go back.
- Nothing checks that a parent token was issued to the re-delegating card, so
  neither does `Redelegate`.
- `GrantableCaps`, `ParentBound` and `ParentDepths` keep three habits of the code
  that a reader may not expect. A wildcard requirement is not monotone: a delegate
  with one concrete id passes `read:*` where its delegator, who declares only
  `carapace:*`, does not. With a parent token the parent's expiry replaces the
  card's, so a re-delegation may outlive the re-delegator's card. And
  `DEFAULT_MAX_TTL` is a default, not a maximum, under a card that has no expiry.
  Chain verification asks for the root card's status only.

### Interop

The same tokens in a fleet that is not of one mind. Any agent may mint through the
TypeScript port, which bounds a re-delegation by the parent's expiry alone; agents
in `Legacy` also mint with v0.3, signed or not. Any host may verify and enforce
with either. What differs: the port lets a wildcard requirement that no capability
is under fall through to the declared wildcards; v0.3 has no strict mode and skips
a signature that is not there. `InteropSpec` has all of Delegation's steps beside
these, and the same properties. The theorems are about `InteropSpec`, and
`PresentIsAMixture` carries them over to Delegation's `Spec`.

### ReplayGuard and UseOnce

Each call reads the clock, checks expiry with that reading, then marks the nonces
of its links one by one; a mark purges and tests the registry in one step, under
its lock. Other calls, ticks and `clear()` run in between. A token stands for its
registry key, a chain for one that passed the structural checks. UseOnce is the
abstract promise, "once, or again when it has expired", over the clock and the
number of uses alone; `PromiseKept` says that ReplayGuard implements it. As in
this model it fails exactly when `AtMostOnceWhileLive` does, it is proved and no
run checks it beside that one.

### HashChain, EpistemicLog

A hash is modelled by what it was computed from, so two hashes are equal exactly
when their inputs are: SHA-256 is taken to have no collisions. `Record` appends,
`Export` writes the document, `FromJson` replaces the log by the stored document,
and `Damage` is the operator's storage, outside the SDK: it drops, repeats,
exchanges entries or alters what one says, hashes left as they are. A decision
stands for all the hashed fields but one, the timestamp of a source, which
`to_dict` fills in from the clock when it is missing. What no hash covers
(`sequence`, `confidence_level`, `metadata`) is not damaged in the model.

### AsyncLog

The same chain in TypeScript, where each `await` is of a promise that is settled
or settles in the next turn (`sha256` computes synchronously and is async only in
name), so it costs one trip through the microtask queue, first in, first out. A
call's `stage` is the await it waits in, and an action is one turn: from one
await to the next. The host may start calls between any two turns. Sources are
stored with their timestamps here, so recomputed hashes are as recorded and only
the awaits of verification matter.

### Expiry, Enforcement, Compliance, Escalation

Operators, translated rule by rule. A card's `expires_at` is a number, `Never` or
`Garbage`, which does not parse: `check_expiry` calls that "no expiry",
`_check_expiry` of `enforce.py` calls it expired. A trigger is a record of at most
one capability, at most one combination and the requests its predicate accepts;
an empty combination matches nothing in Python and everything in the port. A
profile's optional rules are sets with at most one member. The port reads a
missing `card_version` as 1.

### VersionChain, AgentRegistry and Standing

`register_agent` is three steps, one for each stretch between awaits: read the old
card and compare the owners (`CheckRequest`), create the new card (`CreateCard`),
mark the old one (`SupersedeOld`). `CallFails` ends a call at any await;
`torn` remembers the cards whose second write was never made. `RevokeCard` is the
operators', since no endpoint revokes. `VerifyAgent` is one step, since it reads
one card. The history is walked one read at a time, each as the database is
then; VersionChain then says whether the list is a chain, as
`validate_version_chain` does. `Numbered` says which of the two fields the
database returns as `"version"`: as the code stores it, a semver string or None,
or as `ARIA_ENDPOINT_CHANGES.py` considers renaming it, the number.

Standing is the abstract promise: a card is issued, retired for good, and vouched
for only in between. `StandingKept` says that the registry implements it, which is
less than obvious as superseding overwrites a revocation, and a lineage may fork.

### RevocationList

On top of AgentRegistry. The server answers with a list up to `CRL_CACHE_SECONDS`
old; a client's threads share one cache, each asks when it is stale, and applies
whatever comes back, in any order, up to `RequestTimeout` after it asked.
`check_revocation` reads the records directly. `revoked_at` is the time of the
revocation the property measures from. A card that was revoked and then superseded
drops off the list, as the code has it; the property speaks of those still
revoked.

### DelegationRecords

`create_delegation_record` is four steps and `revoke_delegation` a mark, a listing
and one step for each child. `slipped` remembers the records whose parent was
revoked after it had been checked, the one way to escape a cascade.
The endpoints pass no signature function to the library. The v0.3 library then
checks none; the present one, in its strict mode, refuses every token, so with
`Strict` nothing is ever recorded. The verify endpoint ignores the records'
status: a revoked record still verifies, as long as its root card does, and the
cascade stops at the children.

### Glob and ProtectedPaths

A check is four steps: the decision, the entry appended and the log trimmed under
the lock, one call for each sink outside of it, and the return. Its specification
is `GuardSpec`, its type invariant `GuardTypeOK`. An approval is never used up: it
authorises every write in its scope until it expires.

Glob has the two ports' pattern matching: a path matches if it can be cut into one
piece for each glyph of the pattern that the glyph takes. In `fnmatch`, Python's,
a star of either kind takes anything, `?` one character and a bracket expression one of its
members. The port's makes a regular expression of the pattern: a star stops at
slashes; two stars take at least one character and no line break; brackets stand for
themselves; and `?`, which it leaves alone, makes the character before it
optional, means nothing after a star or another such `?`, and elsewhere makes
`new RegExp` raise (`Compiles`, `portRaises`). So of the patterns and scopes that callers pass,

- `keys[0-9].json` protects `keys1.json` in Python only;
- `secret?.json` protects or covers `secret1.json` in Python only and
  `secret.json` in the port only;
- with a pattern that begins with `?` the port raises SyntaxError instead of
  answering, unless an earlier pattern matches.

`PortsProtectAlike` says what the ports do share. Where patterns have no glyph but
stars, the port protects nothing that Python does not. The defaults have stars at
the end only and list each directory with one star and with two; for patterns of
that shape the port protects what Python does but for paths with a line break
and `HalfStarred` ones, of the defaults those below a directory named like
`.env.*`, and approves no write that Python blocks, as long as the approval's scope
has no glyph but stars either. Characters that JavaScript counts as two, and
Windows, where Python ignores case, are left out.

### Receipts and Evidence, Catalog

A receipt's hash is the fields it was computed from, a signature the key and the
hash. Posts may be lost, refused or arrive after the sender gave up, and the
server (external, as `docs/RECEIPTS_V2.md` describes it) may be of before version
2, which answers without a verification status. Evidence is the abstract promise:
a call is on record at most once, and for good once its report was acknowledged.
Catalog has ARIA publish versions, a fetch that sends the ETag it has, and answers
that are 304, a body, an unreadable body or nothing; `fresh` holds the versions
served since the last good fetch was made.

### ToolHost

The composition: a host admits a card under a profile, passes the gates, enforces
what the action requires (on the card or on a token delegated from it), asks the
escalation policy, calls the tool and reports the receipt, while time passes, the
catalog changes and operators answer late or twice. The host itself is external;
it does what `README.md` shows. Its tokens are those Delegation allows: narrower
than the card, and no longer-lived.

## Runs

| Run | Shows | Bounds and why they are enough |
|---|---|---|
| `mint` | types, `CapabilitiesNarrow`, `ExpiryNarrows`, `ChainDepthBounded` | `MaxTokens` 3: the shortest chain with a token that is neither root nor leaf; two cards, one a wildcard, one without expiry; depth requests above the cap, TTLs across a tick (`MaxClock` 1), an `expires_at` beyond what one card may grant |
| `verify` | `AcceptedChainIsLineage`, `EnforcementWithinGrant`, `AnswersWhileGrantLives` | Interop: three tokens, presented as every sequence of up to three (`MaxChain`); one agent on v0.3; a concrete requirement and a wildcard one on which the SDKs differ; `MaxClock` 1 passes one card's expiry and not the other's, and that of tokens given a shorter `expires_at`; each card may be revoked or superseded |
| `replay` | `IndInv`, `AtMostOnceWhileLive`, `NoPartialBurn` | three calls: one to mark, one with an old clock reading, one to purge between; chains that share a root and one that outlives them; `MaxClock` 3, `MaxClears` 1. Calls are symmetric |
| `log` | `PassedIsRecorded`, `StampedEntriesVerify` | `MaxRecords` 3, so that one entry lies between two; two decisions; `MaxDamage` 2, so that one can hide another; one tick between recording and verifying |
| `async` | `IndInv`, `EntriesInCallOrder`, `WaitedCallsChain`, `AnswerIsCurrent`, `CallsReturn` | three `record()` calls, two of equal content, and one `verifyIntegrity()`: one call to overlap with, one in between; every start and every turn in every order |
| `registry` | `SuccessorPointsBack`, `TwoActiveOnlyIfTorn`, `HistoryIsLineage`, `HistoryFailsOnVersionsOnly`, `StandingKept` | two registrations at once and `MaxCards` 3: a fork needs a card and two successors, a line of three its middle; two owners, one tick past expiry; any card is asked for (`Queried`). Owners and calls are symmetric |
| `revocations` | types, `StalenessBounded` | two threads, so that a response can be overtaken; each of the three delays 1 tick and `MaxClock` 4, one more than their sum; two cards, so that a revoked one can be superseded; one agent `Watched` |
| `records` | types, `CascadeReachesChildren`, `StoredNarrows`, `VerifiedWithinGrant` | one creation and one revocation in flight; `MaxRecords` 3: grandchildren; requests that narrow, outlive or widen their parent; cards retired and a tick at any await |
| `paths` | `GuardTypeOK`, `LogKeepsNewest`, `SinksMissNothing`, `PortsProtectAlike` | two threads, `MaxChecks` 3 over a log of 2 (10000 in the code), so that the log overflows; `MaxSinks` 2, registered at any time, each may raise; a default of each kind; extra patterns `a**`, `ca?`, `?a` and `[ac]`; scopes with one star, two, none and a `?`; paths at the top, below one directory and below two, by basename, and with a line break |
| `host` | types, `EnforcedIsVerified`, `ComplianceHolds`, `NoTriggerEvaded`, `GatesReadServed`, `VerifiedIsIssued`, `EvidenceKept` | five cards: each form, each kind of expiry, with and without version and framework; a profile like the built-in ones and one that has the other rules; a trigger of each kind; two versions of the catalog; `MaxPosts` 2 of one receipt; `MaxClock` 2, up to each card's end |

Two runs end in a violation. Each checks one sentence of the documentation or
source against what the code does.

| Run | Says | Does |
|---|---|---|
| `history` | "Return the full supersedes chain for an agent lineage" | `"version"` holds a semver string or None, which validation compares with 1: every request ends in an error. `registry` checks the rest with the number in its place |
| `numbers` | "Monotonic sequence number" | overlapping `record()` calls give two chained entries one number, and the log verifies |

Other places where the code and its documentation part, seen while modelling and
modelled as the code has it:

- `docs/DELEGATION_DESIGN.md` says a delegate never holds more than its delegator,
  that revoking a delegator invalidates all it issued, that a token with a parent
  is verified with its parents, that a token does not outlive its delegator's card
  and that without a card expiry 24 hours are the most. The section on Delegation
  says what holds instead.
- The usage example of `epistemic.py` asserts `verify_integrity()` after recording
  sources without timestamps; each hash stamps such a source anew, so the log
  fails to verify at any later time. `StampedEntriesVerify` is about the others.
- `protected_paths.py` calls an approval one for a single write; it is reusable.
- `protected_paths.ts` describes its matching as fnmatch-style; the section on
  Glob says where it is not Python's.
- `min_approvals` and `timeout_seconds` of an escalation trigger are read by no
  code, and a decision may be overwritten by a later one.

`mint` and `verify` do not continue from a state that holds an answer
(`NothingAnswered`): no action reads the answer, so what can follow is what could
have followed without the call. The properties are checked in that state.

All runs switch deadlock checking off: every system here may come to rest, when
the clock has reached its bound, no call is in progress and no one makes another.

### Fairness

Only AsyncLog states a liveness property. It assumes weak fairness of `RunCall`,
a turn of whichever call heads the queue: the event loop runs until its queue is
empty. Starting calls is never forced, and no fairness among calls is assumed;
that each call returns follows from the queue's order and from there being
finitely many calls. The other modules have safety properties only and assume no
fairness: nobody has to call anything, a handler may fail at any await, and posting
a receipt again is up to the caller, whom no code of the repository makes retry.

## Theorems

Proved for all values of the constants, within the named assumptions of each
module, which TLC evaluates on every run. Most say what a constant is (that
expiries are numbers or `Never`, that `Star` is a segment, that a call is either
a recorder or a verifier). The ones with more to them are named below.

Every safety property of a passing run is stated by a theorem. The temporal part of
each is the same three lines: the initial states satisfy an invariant, each action
keeps it (one lemma or step per action), and it implies the property.

**Capabilities.** `CoveredIsCovers`: the three branches of the subset check amount
to one available capability covering the request. `ValidSubsetTransitive`:
narrowing composes. `ConcreteEnforcementMonotone`: a narrower set passes no
concrete requirement a wider one fails. (For wildcard requirements that is false;
see Delegation above.) `LeastElement` gives the least element of a non-empty
set of numbers, from the library's well-foundedness of Nat.

**Delegation, Interop.** The code compares a token with its parent only; the
properties speak of all ancestors. The inductive invariant is `TypeOK`,
`LineageWellFormed` (ancestors are older tokens, and the history says what
`parent_delegation_id` says), `CapabilitiesNarrow` and `ChainDepthBounded`. A new
token inherits its parent's facts through transitivity, whichever of the SDKs
minted it; the lemmas about minting are stated on what the SDKs have in common.
From it follow `TypeCorrect`, `DelegatesNeverWiden`, `DepthCapped`, and:
- `ChainVerificationSound`: an accepted chain's links are the last one's lineage,
  also when v0.3 verifies and skips a signature.
- `EnforcementSound`, by `ConcreteEnforcementMonotone`, for Python and the port.
- `ExpiryNeverExtended` and `AnswersSound` assume `ExpiriesParse`, that callers
  pass expiries that parse. Then every token is `Dated`: it has a numeric expiry
  below all its ancestors'. Without the assumption both are false.
- `WholeChainsAreRooted`: the chains that start at a root delegation and follow
  `parent_delegation_id`, which by lemma `AcceptedChainIsWhole` are the only ones
  verification accepts, have what ReplayGuard calls `RootedChains`: two that
  share a link share their root, none repeats a link, and expiries narrow.
- `PresentIsAMixture`: a step of Delegation is a step of Interop.

**ReplayGuard.** `IndInv`: no call's reading is ahead of the clock
(`ReadingsPast`), so a purge drops only what has expired; a used nonce is held or
expired (`UsedIsSeen`); each held nonce was marked by its owner as an earlier
link of its chain (`OwnersMarked`); a call past its root holds the root or the
root has expired (`RootHeld`). Hence `ReplayDetected`, `KeepsPromise` (the
refinement of UseOnce, which no run checks) and, for `RootedChains`, `ChainsBurnWhole`. With suffixes
of chains that premise, and the theorem, are false. `NoPartialBurn` is claimed as
long as no one calls `clear()`.

**ProtectedPaths.** `GuardInd` adds to the two properties that running checks have
entries of their own (`ChecksWellFormed`) and that a running check's id is in a
sink exactly if its loop has passed that sink (`SinksInTurn`). So when the loop
ends, every sink there was at the check's beginning has the id, once, though sinks
are registered and raise meanwhile: `EveryCheckReachesSinks`. `NewestAreKept`
holds for any number of threads because appending and trimming are one step.
`PortsAgree` is about matching alone. What a glyph of the port takes, the same
glyph takes in Python, if it is a star or a character (`StarTakesMore`), so the
same cut of the path serves. The other way, the characters before a star at the
end take one character each, by least counterexample (`LiteralsInPlace`), which
fixes the rest of the path for the star; if the port's star does not take it, the
other kind of star does (`TwinTakesRest`), and a pattern that ends in that one is
there, or the path is `HalfStarred`.

**AgentRegistry.** `RegistryInd` says that what a registration has read is still so
after its awaits: the old card is there and of the same owner, since neither is
ever changed (`CallsSound`); and that each entry of a history being gathered
tells the truth about the fields that do not change, names a successor that
supersedes it, and follows the entry before it (`WalkSound`). From there
`SuccessorsPointBack`, `NoForkUnlessTorn`, `HistoriesAreLineages` and
`HistoriesFailOnVersions`: the other errors of validation, a broken link or a
successor that does not match, would contradict `WalkSound`. `StandingIsKept` is
the refinement of Standing: a card is created active, every other write
retires or changes nothing, and no step vouches for a card whose status is not
active when it is read.

**RevocationList.** `ListsRecent` follows a revocation that a list misses to
wherever the list is. On the server it is served for at most
`CRL_CACHE_SECONDS` after the revocation. On its way it was asked for by then. In
the cache it is trusted for `TTL` more than a request may take, and a thread that
is about to answer is within the request's time itself. `StalenessIsBounded` is
the sum. With any number of threads, each may overwrite a newer list with an
older one; the bound holds for the oldest.

**DelegationRecords.** `StoredRecordsNarrow` is the argument of Delegation once
more, but over a record read two awaits earlier: `CreateSound` says that what was
found out of the parent stays so, since a record's token never changes. The
ancestors `Above` are a recursive function of the records: `AboveUnfolds` shows
that its equation has a solution, and `AboveStable`, by descent, that a new
record leaves the values at the older ones alone. `RootedOnce` adds that above
each record there is one root.
`CascadesReachChildren`, from `RevokeSound`: a child that is active while the
cascade runs is still on its list, or its creation had read the parent
before (`slipped`). `VerifiedIsWithinGrant`: that root's own card is the one
the endpoint checks, and the record narrows what was granted from it.

**ToolHost.** `IndInv` has a part for each component. The host's: what admission
established of the card it holds (`AdmissionSound`), what is known of the call
under way at each stage (`CallSound`), and that what the last call exercised
is held by an admitted card (`DoneSound`). Hence `EnforcedCardsVerify`,
`AdmissionLasts` and `TriggersAreMet`. The last two go through tokens: a token
narrows the card, so `ConcreteEnforcementMonotone` says that what it passes the
card passes too. `PolicyAssumption` asks that every action require something: a
host calls `enforce_delegated` once for each requirement, so it would let an action
without any pass even after the card's end, and `AdmissionLasts` be false.
`CatalogSound`: the ETag is the snapshot's, and an answer is of a version
served since it was asked for, which a 304 shows to be the one held; hence
`GatesReadWhatWasServed`. `ReceiptsSound`: a receipt is made once, and what is
posted or stored is that receipt. `IssuedAloneVerifies` needs no more than that
two keys differ, and rests on a hash being what it was computed from.
`ReceiptsAreEvidence` is the refinement of Evidence, by counting rows.

**EpistemicLog.** The invariant is that every entry, in memory or stored, however
damaged its content, carries a hash that `record` returned. Since a hash spells
out the chain it was computed from, an entry whose checks pass up to its place
agrees with that hash at every place before it: `TamperEvident`. `StampedVerify`
adds that undamaged entries with timestamps hash to what they hashed to.

**AsyncLog.** Calls of `record()` move in step: an earlier one is further on, or
at the same await and ahead in the queue (`InStep`). A turn takes the head of the
queue one await further and to the end, which keeps that order; so the call that
pushes is the oldest in progress, and entries lie in call order
(`OverlapKeepsOrder`). `LocalsCurrent` says what a call has read is current as
long as nothing was pushed since it was made: `WaitingKeepsChain`.
`AnswersAreCurrent` is an action property from `PassedLinked`.

Two things stay with TLC. `CallsReturn` is a liveness property, out of the
prover's reach. And that the hash of an entry is what a recursive computation
over the whole log gives is not stated at all: TLAPS cannot instantiate the
induction theorems of its library here, whose hypothesis is an operator. Where a
proof needs induction over positions (the links of a chain, the records above a
record), it takes the least counterexample, by `LeastElement`, and refutes it.

## Not modelled

- `exportAuditTrail()` of the TypeScript log, and `query` of either.
- ARIA's endpoints that only read and answer what they read (fetch a card, list
  delegations), its database, authentication and HTTP status codes.
- The conveniences of a version chain (`current`, `original`,
  `capabilities_diff`), and webhooks of the escalation policy.
- Of the TypeScript port: its nonce registry, receipts and catalog, which follow
  the Python ones step by step. Of v0.3: `enforce.py`, whose expiry check is the
  laxer one, and `versioning.py`, which is the present one.
- Token and receipt formats, canonical JSON, Ed25519 and SHA-256 themselves: a
  hash is what it was computed from, a signature who made it over what.
- The packaged copy, SQL migrations, schema guides, the capability taxonomy and
  the federation notes, which have no behaviour of their own.

## Plan

Done: every module above is model-checked, and every safety property of the runs is
a theorem. Left, in this order:

1. The composition of the tokens with the nonces: `WholeChainsAreRooted` and
   `ChainsBurnWhole` meet in words only, as ReplayGuard has its chains from a
   constant. A module that presents Delegation's own chains to the registry would
   join them.
2. Delegates in ToolHost are tokens Delegation allows (`Tokens`); that its tokens
   are among those of Delegation could be stated as a theorem.
3. The history walk ends: the line of versions is finite, so under weak fairness
   of its reads a request is answered or fails. A liveness property, for TLC.
4. `exportAuditTrail()` of the TypeScript log.
