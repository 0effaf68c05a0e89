----------------------------- MODULE Delegation -----------------------------
(***************************************************************************)
(* Delegation tokens: minting, re-delegation, verification, enforcement.   *)
(*                                                                         *)
(* Agents hold cards; a card's holder mints tokens for other agents with   *)
(* create_delegation, and a token's holder re-delegates from it with       *)
(* redelegate.  Hosts verify one token against its delegator's card        *)
(* (verify_delegation), a chain of them against the root delegator's card  *)
(* (verify_delegation_chain), and gate tool calls with enforce_delegated.  *)
(* Meanwhile time passes and the registry revokes or supersedes cards.     *)
(*                                                                         *)
(* Every token ever minted is in tokens, and its position there is its id. *)
(* Hosts are handed any of them, in any order, as they were minted and     *)
(* signed.  A call that raises or answers "invalid" changes nothing, so it *)
(* is a step that is not enabled.  Verification is modelled as it runs     *)
(* without a replay checker (the default); ReplayGuard models it with one. *)
(*                                                                         *)
(* A definition marked "Defect" is a faulty variant of the one after it;   *)
(* no action uses it.  Put in the other's place, it breaks a property.     *)
(***************************************************************************)
EXTENDS Capabilities, FiniteSets

CONSTANTS
  Card,           \* the agents' cards
  CardCaps,       \* the capability ids each card declares
  CardExp,        \* each card's expires_at, or Never if it has none
  Never,          \* an expiry for which parse_expires_at returns None
  CapRequests,    \* the "capabilities" arguments callers pass
  ExpRequests,    \* the "expires_at" arguments they pass
  TTLs,           \* the "ttl_hours" / "ttl_minutes" they pass, in ticks
  DepthRequests,  \* the "max_redelegation_depth" arguments they pass
  Signing,        \* {TRUE}, or BOOLEAN with allow_unsigned=True
  Requirements,   \* the capabilities tools require
  MAX_CHAIN_DEPTH, DEFAULT_REDELEGATION_DEPTH, DEFAULT_MAX_TTL,
  MaxClock,       \* bound: the clock stops here
  MaxTokens,      \* bound: how many tokens are minted
  MaxChain        \* bound: the length of the chains hosts are handed

ASSUME NeverAssumption == Never \notin Nat
ASSUME CardAssumption ==
  /\ CardCaps \in [Card -> SUBSET Capability]
  /\ CardExp \in [Card -> Nat \cup {Never}]
ASSUME RequestsAssumption ==
  /\ CapRequests \subseteq SUBSET Capability
  /\ ExpRequests \subseteq Nat \cup {Never}
  /\ TTLs \subseteq Nat
  /\ DepthRequests \subseteq Nat
  /\ Signing \subseteq BOOLEAN
  /\ Requirements \subseteq Capability
ASSUME LimitsAssumption ==
  /\ MAX_CHAIN_DEPTH \in Nat
  /\ DEFAULT_REDELEGATION_DEPTH \in Nat
  /\ DEFAULT_MAX_TTL \in Nat
  /\ MaxClock \in Nat /\ MaxTokens \in Nat /\ MaxChain \in Nat

VARIABLES
  clock,    \* the wall clock
  status,   \* each card's status in the registry
  tokens,   \* the tokens minted so far
  lineage,  \* history: each token's ancestors and the card it descends from
  answer    \* what the last step's call answered, if it was a positive one

vars == <<clock, status, tokens, lineage, answer>>

NoParent == 0

DelegationToken ==
  [delegator : Card, delegate : Card, caps : SUBSET Capability,
   exp : Nat \cup {Never}, parent : Nat, depth : Nat, signed : BOOLEAN]

Ancestry == [above : SUBSET Nat, origin : Card]

NoAnswer == [op |-> "none", ids |-> <<>>, required |-> <<>>]

TypeOK ==
  /\ clock \in 0 .. MaxClock
  /\ status \in [Card -> {"active", "revoked", "superseded"}]
  /\ tokens \in Seq(DelegationToken)
  /\ lineage \in Seq(Ancestry)
  /\ Len(lineage) = Len(tokens)
  /\ answer \in [op : {"none", "token", "chain", "enforce"},
                 ids : Seq(Nat), required : Capability \cup { <<>> }]

Init ==
  /\ clock = 0
  /\ status = [c \in Card |-> "active"]
  /\ tokens = <<>>
  /\ lineage = <<>>
  /\ answer = NoAnswer

-----------------------------------------------------------------------------
\* The comparisons skip an expiry that does not parse.
Past(exp, at) == exp # Never /\ at > exp

Exceeds(exp, bound) == exp # Never /\ bound # Never /\ exp > bound

\* Neither expired nor retired: what minting and verification ask of a card.
CardUsable(c) ==
  /\ ~Past(CardExp[c], clock)
  /\ status[c] \notin {"revoked", "superseded"}

(***************************************************************************)
(* create_delegation.  The expiry is the caller's absolute one, a TTL from *)
(* now, or by default the bound it is checked against; the depth is the    *)
(* caller's or the default, clamped to the hard cap.                       *)
(***************************************************************************)
Lesser(m, n) == IF m <= n THEN m ELSE n

\* Defect: a TTL or a default is never compared with the bound.
ResolvedExpiriesUnbounded(bound) ==
  {clock + d : d \in TTLs \cup {DEFAULT_MAX_TTL}}

ResolvedExpiries(bound) ==
  LET default == IF bound = Never THEN clock + DEFAULT_MAX_TTL ELSE bound
  IN  {e \in ExpRequests \cup {clock + d : d \in TTLs} \cup {default} :
         ~Exceeds(e, bound)}

Clamped(depths) == {Lesser(d, MAX_CHAIN_DEPTH) : d \in depths}

Mint(token, ancestry) ==
  /\ Len(tokens) < MaxTokens
  /\ tokens' = Append(tokens, token)
  /\ lineage' = Append(lineage, ancestry)
  /\ answer' = NoAnswer
  /\ UNCHANGED <<clock, status>>

Delegate(c, to, caps) ==
  /\ CardUsable(c)
  /\ ValidSubset(caps, CardCaps[c])
  /\ \E exp \in ResolvedExpiries(CardExp[c]),
        depth \in Clamped(DepthRequests \cup {DEFAULT_REDELEGATION_DEPTH}),
        signed \in Signing :
       Mint([delegator |-> c, delegate |-> to, caps |-> caps, exp |-> exp,
             parent |-> NoParent, depth |-> depth, signed |-> signed],
            [above |-> {}, origin |-> c])

\* Defect: a re-delegation is held to the re-delegator's card alone.
CardBound(parent, c) == CardExp[c]

\* With a parent token, its expiry takes the place of the card's, ...
ParentBound(parent, c) ==
  IF parent.exp # Never THEN parent.exp ELSE CardExp[c]

\* Defect: the depth is passed on undiminished.
ParentDepthsKept(parent) ==
  {Lesser(d, parent.depth) : d \in DepthRequests} \cup {parent.depth}

\* ... its depth less one bounds the depth, which must not be used up, ...
ParentDepths(parent) ==
  {Lesser(d, parent.depth - 1) : d \in DepthRequests} \cup {parent.depth - 1}

\* Defect: off by one.
MayRedelegateAtZero(parent) == parent.depth >= 0

MayRedelegate(parent) == parent.depth > 0

\* Defect: the re-delegator's own card is what narrows.
CardsCaps(parent, c) == CardCaps[c]

\* ... and its capabilities take the place of the card's.
GrantableCaps(parent, c) == parent.caps

\* Nothing asks whether the parent was issued to this card.
Redelegate(p, c, to, caps) ==
  /\ CardUsable(c)
  /\ MayRedelegate(tokens[p])
  /\ ValidSubset(caps, GrantableCaps(tokens[p], c))
  /\ \E exp \in ResolvedExpiries(ParentBound(tokens[p], c)),
        depth \in Clamped(ParentDepths(tokens[p])),
        signed \in Signing :
       Mint([delegator |-> c, delegate |-> to, caps |-> caps, exp |-> exp,
             parent |-> p, depth |-> depth, signed |-> signed],
            [above |-> lineage[p].above \cup {p},
             origin |-> lineage[p].origin])

-----------------------------------------------------------------------------
(***************************************************************************)
(* verify_delegation and verify_delegation_chain, in strict mode with a    *)
(* signature function: a token passes the signature check iff it was       *)
(* signed when minted.                                                     *)
(***************************************************************************)
TokenValid(i, card) ==
  LET t == tokens[i] IN
  /\ ~Past(t.exp, clock)
  /\ CardUsable(card)
  /\ t.delegator = card
  /\ ValidSubset(t.caps, CardCaps[card])
  /\ t.signed

\* Defect: parent_delegation_id is not compared with the previous link.
LinkValidUnparented(i, j) ==
  LET prev == tokens[i]
      t == tokens[j]
  IN
  /\ prev.delegate = t.delegator
  /\ ValidSubset(t.caps, prev.caps)
  /\ ~Exceeds(t.exp, prev.exp)
  /\ prev.depth > 0
  /\ ~Past(t.exp, clock)
  /\ t.signed

LinkValid(i, j) ==
  LET prev == tokens[i]
      t == tokens[j]
  IN
  /\ t.parent = i
  /\ prev.delegate = t.delegator
  /\ ValidSubset(t.caps, prev.caps)
  /\ ~Exceeds(t.exp, prev.exp)
  /\ prev.depth > 0
  /\ ~Past(t.exp, clock)
  /\ t.signed

ChainValid(ch, root) ==
  /\ ch # <<>>
  /\ TokenValid(ch[1], root)
  /\ tokens[ch[1]].parent = NoParent
  /\ \A k \in 2 .. Len(ch) : LinkValid(ch[k - 1], ch[k])

Answer(op, ids, required) ==
  /\ answer' = [op |-> op, ids |-> ids, required |-> required]
  /\ UNCHANGED <<clock, status, tokens, lineage>>

VerifyDelegation(i, card) ==
  TokenValid(i, card) /\ Answer("token", <<i>>, <<>>)

VerifyDelegationChain(ch, root) ==
  ChainValid(ch, root) /\ Answer("chain", ch, <<>>)

EnforceDelegated(i, required) ==
  /\ ~Past(tokens[i].exp, clock)
  /\ HasCapability(tokens[i].caps, required)
  /\ Answer("enforce", <<i>>, required)

-----------------------------------------------------------------------------
\* The registry revokes a card, or registers a newer one in its place.
Retire(c, to) ==
  /\ status[c] # to
  /\ status' = [status EXCEPT ![c] = to]
  /\ answer' = NoAnswer
  /\ UNCHANGED <<clock, tokens, lineage>>

Tick ==
  /\ clock < MaxClock
  /\ clock' = clock + 1
  /\ answer' = NoAnswer
  /\ UNCHANGED <<status, tokens, lineage>>

Presented == UNION {[1 .. n -> DOMAIN tokens] : n \in 1 .. MaxChain}

Next ==
  \/ \E c, to \in Card, caps \in CapRequests :
       \/ Delegate(c, to, caps)
       \/ \E p \in DOMAIN tokens : Redelegate(p, c, to, caps)
  \/ \E i \in DOMAIN tokens, c \in Card : VerifyDelegation(i, c)
  \/ \E ch \in Presented, c \in Card : VerifyDelegationChain(ch, c)
  \/ \E i \in DOMAIN tokens, r \in Requirements : EnforceDelegated(i, r)
  \/ \E c \in Card, to \in {"revoked", "superseded"} : Retire(c, to)
  \/ Tick

Spec == Init /\ [][Next]_vars

-----------------------------------------------------------------------------
(***************************************************************************)
(* Properties of minting.  The code compares a new token with its parent   *)
(* only; these compare it with everything it descends from.                *)
(***************************************************************************)

(* The recorded lineage is what parent_delegation_id says: a root token    *)
(* descends from its delegator's card alone, any other from an older token *)
(* and all that one descends from.                                         *)
LineageWellFormed ==
  \A i \in DOMAIN tokens :
    LET p == tokens[i].parent IN
    /\ lineage[i].above \subseteq 1 .. (i - 1)
    /\ p = NoParent => lineage[i] = [above |-> {}, origin |-> tokens[i].delegator]
    /\ p # NoParent =>
         /\ p \in 1 .. (i - 1)
         /\ lineage[i] = [above |-> lineage[p].above \cup {p},
                          origin |-> lineage[p].origin]

(* "Each link in the chain can only narrow, never widen": a token's        *)
(* capabilities are covered by every ancestor's and by the card of the     *)
(* agent that made the root delegation.                                    *)
CapabilitiesNarrow ==
  \A i \in DOMAIN tokens :
    /\ \A a \in lineage[i].above : ValidSubset(tokens[i].caps, tokens[a].caps)
    /\ ValidSubset(tokens[i].caps, CardCaps[lineage[i].origin])

(* No token outlives an ancestor or the root delegator's card, however     *)
(* late in its parent's life it is minted.  Holds as long as callers pass  *)
(* expiries that parse.                                                    *)
ExpiryNarrows ==
  \A i \in DOMAIN tokens :
    /\ \A a \in lineage[i].above : ~Exceeds(tokens[i].exp, tokens[a].exp)
    /\ ~Exceeds(tokens[i].exp, CardExp[lineage[i].origin])

(* MAX_CHAIN_DEPTH is the "hard cap on re-delegation depth": whatever      *)
(* depths callers ask for, no token has more than that many ancestors, and *)
(* what is left of its own depth fits under the cap with them.             *)
ChainDepthBounded ==
  \A i \in DOMAIN tokens :
    Cardinality(lineage[i].above) + tokens[i].depth <= MAX_CHAIN_DEPTH

(***************************************************************************)
(* Properties of verification and enforcement.                             *)
(***************************************************************************)

(* When verify_delegation_chain answers "valid", the chain it was handed   *)
(* is the last token's complete lineage, and the authority it reports is   *)
(* within the card of the agent the lineage starts from, which is neither  *)
(* expired nor retired.  No link can be left out and none spliced in.      *)
AcceptedChainIsLineage ==
  answer.op = "chain" =>
    LET ch == answer.ids
        leaf == ch[Len(ch)]
        root == lineage[leaf].origin
    IN
    /\ {ch[k] : k \in 1 .. (Len(ch) - 1)} = lineage[leaf].above
    /\ CardUsable(root)
    /\ ValidSubset(tokens[leaf].caps, CardCaps[root])

(* enforce_delegated sees one token only.  If it lets a concrete (not a    *)
(* wildcard) requirement through, every token above it and the root card   *)
(* would let it through too.                                               *)
EnforcementWithinGrant ==
  answer.op = "enforce" /\ ~IsWildcard(answer.required) =>
    LET from == lineage[answer.ids[1]] IN
    /\ \A a \in from.above : HasCapability(tokens[a].caps, answer.required)
    /\ HasCapability(CardCaps[from.origin], answer.required)

(* Whatever is asked of a token (verify_delegation, a chain ending in it,  *)
(* enforce_delegated), a positive answer comes only while every token it   *)
(* descends from is alive and the root delegator's card has not expired,   *)
(* though two of the three calls look at neither.                          *)
AnswersWhileGrantLives ==
  answer.op # "none" =>
    LET from == lineage[answer.ids[Len(answer.ids)]] IN
    /\ \A a \in from.above : ~Past(tokens[a].exp, clock)
    /\ ~Past(CardExp[from.origin], clock)
=============================================================================
