-------------------------- MODULE Delegation_proofs --------------------------
(***************************************************************************)
(* Delegation, for any cards, requests and number of tokens, and for any   *)
(* mixture of the present SDK, its TypeScript port and v0.3 among the      *)
(* agents and hosts.                                                       *)
(***************************************************************************)
EXTENDS Interop, Capabilities_proofs, FiniteSetTheorems

IndInv ==
  /\ TypeOK
  /\ LineageWellFormed
  /\ CapabilitiesNarrow
  /\ ChainDepthBounded

LEMMA InitInd == Init => IndInv
BY LimitsAssumption
   DEF Init, IndInv, TypeOK, LineageWellFormed, CapabilitiesNarrow,
       ChainDepthBounded, NoAnswer

-----------------------------------------------------------------------------
(***************************************************************************)
(* What minting does to the sequence of tokens.                            *)
(***************************************************************************)
LEMMA Element ==
  ASSUME NEW S, NEW s \in Seq(S), NEW i \in DOMAIN s
  PROVE  s[i] \in S /\ i \in Nat
OBVIOUS

LEMMA TokenTypes ==
  ASSUME TypeOK, NEW i \in DOMAIN tokens
  PROVE  /\ i \in Nat
         /\ tokens[i] \in DelegationToken
         /\ tokens[i].caps \in SUBSET Capability
         /\ tokens[i].depth \in Nat
         /\ tokens[i].exp \in Nat \cup {Never}
         /\ lineage[i] \in Ancestry
         /\ lineage[i].above \in SUBSET Nat
         /\ lineage[i].origin \in Card
<1>1. /\ tokens \in Seq(DelegationToken)
      /\ lineage \in Seq(Ancestry)
      /\ Len(lineage) = Len(tokens)
  BY DEF TypeOK
<1>2. i \in DOMAIN lineage
  BY <1>1
<1>3. i \in Nat /\ tokens[i] \in DelegationToken
  BY <1>1, Element
<1>4. lineage[i] \in Ancestry
  BY <1>1, <1>2, Element
<1>5. QED
  BY <1>3, <1>4 DEF DelegationToken, Ancestry

LEMMA MintAppends ==
  ASSUME TypeOK, NEW token \in DelegationToken,
         NEW ancestry \in Ancestry,
         Mint(token, ancestry)
  PROVE  /\ TypeOK'
         /\ Len(tokens) \in Nat
         /\ DOMAIN tokens = 1 .. Len(tokens)
         /\ DOMAIN tokens' = 1 .. (Len(tokens) + 1)
         /\ \A i \in DOMAIN tokens :
              tokens'[i] = tokens[i] /\ lineage'[i] = lineage[i]
         /\ tokens'[Len(tokens) + 1] = token
         /\ lineage'[Len(tokens) + 1] = ancestry
<1>1. tokens' = Append(tokens, token) /\ lineage' = Append(lineage, ancestry)
  BY DEF Mint
<1>2. tokens \in Seq(DelegationToken) /\ Len(lineage) = Len(tokens)
        /\ lineage \in Seq(Ancestry)
  BY DEF TypeOK
<1>3. tokens' \in Seq(DelegationToken) /\ Len(lineage') = Len(tokens')
        /\ lineage' \in Seq(Ancestry)
  BY <1>1, <1>2
<1>4. TypeOK'
  BY <1>3 DEF TypeOK, Mint, NoAnswer
<1>5. QED
  BY <1>1, <1>2, <1>4

(***************************************************************************)
(* Whichever SDK mints, a token is one of two kinds: a root token, within  *)
(* its delegator's card, or a child, within its parent.                    *)
(***************************************************************************)
ExpiriesParse == Never \notin ExpRequests

RootMint(c) ==
  \E token \in DelegationToken :
    /\ Mint(token, [above |-> {}, origin |-> c])
    /\ token.parent = NoParent
    /\ token.delegator = c
    /\ ValidSubset(token.caps, CardCaps[c])
    /\ token.depth <= MAX_CHAIN_DEPTH
    /\ ~Exceeds(token.exp, CardExp[c])
    /\ ExpiriesParse => token.exp \in Nat

ChildMint(p) ==
  \E token \in DelegationToken :
    /\ Mint(token, [above |-> lineage[p].above \cup {p},
                    origin |-> lineage[p].origin])
    /\ token.parent = p
    /\ ValidSubset(token.caps, tokens[p].caps)
    /\ token.depth < tokens[p].depth
    /\ ExpiriesParse /\ tokens[p].exp \in Nat =>
         token.exp \in Nat /\ ~Exceeds(token.exp, tokens[p].exp)

LEMMA ResolvedExpiriesType ==
  ASSUME TypeOK, NEW bound \in Nat \cup {Never},
         NEW exp \in ResolvedExpiries(bound)
  PROVE  /\ exp \in Nat \cup {Never} /\ ~Exceeds(exp, bound)
         /\ ExpiriesParse => exp \in Nat
BY RequestsAssumption, LimitsAssumption
   DEF ResolvedExpiries, TypeOK, ExpiriesParse

LEMMA MintsRoot ==
  ASSUME TypeOK, NEW c \in Card, NEW to \in Card, NEW caps \in CapRequests,
         ValidSubset(caps, CardCaps[c]),
         NEW exp \in ResolvedExpiries(CardExp[c]),
         NEW depth \in Clamped(DepthRequests \cup {DEFAULT_REDELEGATION_DEPTH}),
         NEW signed \in BOOLEAN,
         Mint([delegator |-> c, delegate |-> to, caps |-> caps, exp |-> exp,
               parent |-> NoParent, depth |-> depth, signed |-> signed],
              [above |-> {}, origin |-> c])
  PROVE  RootMint(c)
<1> DEFINE token == [delegator |-> c, delegate |-> to, caps |-> caps,
                     exp |-> exp, parent |-> NoParent, depth |-> depth,
                     signed |-> signed]
<1>1. /\ exp \in Nat \cup {Never} /\ ~Exceeds(exp, CardExp[c])
      /\ ExpiriesParse => exp \in Nat
  BY ResolvedExpiriesType, CardAssumption
<1>2. depth \in Nat /\ depth <= MAX_CHAIN_DEPTH
  <2>1. PICK d \in DepthRequests \cup {DEFAULT_REDELEGATION_DEPTH} :
          depth = Lesser(d, MAX_CHAIN_DEPTH)
    BY DEF Clamped
  <2>2. d \in Nat /\ MAX_CHAIN_DEPTH \in Nat
    BY RequestsAssumption, LimitsAssumption
  <2>3. QED
    BY <2>1, <2>2 DEF Lesser
<1>3. token \in DelegationToken
  BY <1>1, <1>2, RequestsAssumption DEF DelegationToken, NoParent
<1>4. /\ token.parent = NoParent /\ token.delegator = c /\ token.exp = exp
      /\ token.depth = depth /\ token.caps = caps
      /\ Mint(token, [above |-> {}, origin |-> c])
  OBVIOUS
<1> HIDE DEF token
<1>5. QED
  BY <1>1, <1>2, <1>3, <1>4 DEF RootMint

LEMMA MintsChild ==
  ASSUME TypeOK, NEW c \in Card, NEW to \in Card, NEW caps \in CapRequests,
         NEW p \in DOMAIN tokens, MayRedelegate(tokens[p]),
         ValidSubset(caps, tokens[p].caps),
         NEW exp \in Nat \cup {Never},
         ExpiriesParse /\ tokens[p].exp \in Nat =>
           exp \in Nat /\ ~Exceeds(exp, tokens[p].exp),
         NEW depth \in Clamped(ParentDepths(tokens[p])),
         NEW signed \in BOOLEAN,
         Mint([delegator |-> c, delegate |-> to, caps |-> caps, exp |-> exp,
               parent |-> p, depth |-> depth, signed |-> signed],
              [above |-> lineage[p].above \cup {p},
               origin |-> lineage[p].origin])
  PROVE  ChildMint(p)
<1> DEFINE parent == tokens[p]
           token == [delegator |-> c, delegate |-> to, caps |-> caps,
                     exp |-> exp, parent |-> p, depth |-> depth,
                     signed |-> signed]
<1>1. parent \in DelegationToken /\ p \in Nat
  BY TokenTypes
<1>2. depth \in Nat /\ depth < parent.depth
  <2>1. parent.depth \in Nat /\ parent.depth > 0
    BY <1>1 DEF DelegationToken, MayRedelegate
  <2>2. PICK d \in ParentDepths(parent) : depth = Lesser(d, MAX_CHAIN_DEPTH)
    BY DEF Clamped
  <2>3. d \in Nat /\ d < parent.depth
    <3>1. parent.depth - 1 \in Nat /\ parent.depth - 1 < parent.depth
      BY <2>1
    <3>2. CASE d = parent.depth - 1
      BY <3>1, <3>2
    <3>3. ASSUME NEW m \in DepthRequests, d = Lesser(m, parent.depth - 1)
          PROVE  d \in Nat /\ d < parent.depth
      <4>1. m \in Nat
        BY RequestsAssumption
      <4>2. QED
        BY <3>1, <3>3, <4>1, <2>1 DEF Lesser
    <3>4. QED
      BY <3>2, <3>3 DEF ParentDepths
  <2>4. QED
    BY <2>1, <2>2, <2>3, LimitsAssumption DEF Lesser
<1>3. token \in DelegationToken
  BY <1>1, <1>2, RequestsAssumption DEF DelegationToken
<1>4. /\ token.parent = p /\ token.exp = exp /\ token.depth = depth
      /\ token.caps = caps
      /\ Mint(token, [above |-> lineage[p].above \cup {p},
                      origin |-> lineage[p].origin])
  OBVIOUS
<1> HIDE DEF token
<1>5. QED
  BY <1>2, <1>3, <1>4 DEF ChildMint

(* A parent's expiry that parses is the bound of Python and of the port.   *)
LEMMA ParentBoundType ==
  ASSUME TypeOK, NEW c \in Card, NEW p \in DOMAIN tokens,
         NEW exp \in ResolvedExpiries(ParentBound(tokens[p], c))
                       \cup ResolvedExpiriesTS(tokens[p].exp)
  PROVE  /\ exp \in Nat \cup {Never}
         /\ ExpiriesParse /\ tokens[p].exp \in Nat =>
              exp \in Nat /\ ~Exceeds(exp, tokens[p].exp)
<1>1. tokens[p].exp \in Nat \cup {Never} /\ CardExp[c] \in Nat \cup {Never}
  BY TokenTypes, CardAssumption
<1>2. CASE exp \in ResolvedExpiries(ParentBound(tokens[p], c))
  <2> DEFINE bound == ParentBound(tokens[p], c)
  <2>1. /\ bound \in Nat \cup {Never}
        /\ tokens[p].exp \in Nat => bound = tokens[p].exp
    BY <1>1, NeverAssumption DEF ParentBound
  <2> HIDE DEF bound
  <2>2. /\ exp \in Nat \cup {Never} /\ ~Exceeds(exp, bound)
        /\ ExpiriesParse => exp \in Nat
    BY <1>2, <2>1, ResolvedExpiriesType DEF bound
  <2>3. QED
    BY <2>1, <2>2
<1>3. CASE exp \in ResolvedExpiriesTS(tokens[p].exp)
  <2>1. CASE tokens[p].exp # Never
    BY <1>1, <1>3, <2>1, ResolvedExpiriesType DEF ResolvedExpiriesTS
  <2>2. CASE tokens[p].exp = Never
    <3>1. exp \in ExpRequests \cup {clock + d : d \in TTLs} \cup {Never}
      BY <1>3, <2>2 DEF ResolvedExpiriesTS
    <3>2. \A d \in TTLs : clock + d \in Nat
      BY RequestsAssumption, LimitsAssumption DEF TypeOK
    <3>3. exp \in Nat \cup {Never}
      BY <3>1, <3>2, RequestsAssumption
    <3>4. tokens[p].exp \notin Nat
      BY <2>2, NeverAssumption
    <3>5. QED
      BY <3>3, <3>4
  <2>3. QED
    BY <2>1, <2>2
<1>4. QED
  BY <1>2, <1>3

(***************************************************************************)
(* Whichever SDK answers, a positive answer says at least this.            *)
(***************************************************************************)
ChainHolds(ch, root) ==
  /\ ch # <<>>
  /\ TokenValidV030(ch[1], root)
  /\ tokens[ch[1]].parent = NoParent
  /\ \A k \in 2 .. Len(ch) : LinkValidV030(ch[k - 1], ch[k])

Answered ==
  \/ \E i \in DOMAIN tokens :
       ~Past(tokens[i].exp, clock) /\ Answer("token", <<i>>, <<>>)
  \/ \E ch \in Seq(DOMAIN tokens), c \in Card :
       ChainHolds(ch, c) /\ Answer("chain", ch, <<>>)
  \/ \E i \in DOMAIN tokens, r \in Requirements :
       /\ ~Past(tokens[i].exp, clock)
       /\ ~IsWildcard(r) => HasCapability(tokens[i].caps, r)
       /\ Answer("enforce", <<i>>, r)

Elsewhere ==
  (\E c \in Card, to \in {"revoked", "superseded"} : Retire(c, to)) \/ Tick

LEMMA PresentedType ==
  ASSUME TypeOK, NEW ch \in Presented
  PROVE  /\ ch \in Seq(Nat) /\ ch \in Seq(DOMAIN tokens)
         /\ ch # <<>>
<1>1. PICK n \in 1 .. MaxChain : ch \in [1 .. n -> DOMAIN tokens]
  BY DEF Presented
<1>2. DOMAIN tokens \subseteq Nat
  BY DEF TypeOK
<1>3. QED
  BY <1>1, <1>2, LimitsAssumption

LEMMA StepCases ==
  ASSUME TypeOK, InteropNext
  PROVE  \/ \E c \in Card : RootMint(c)
         \/ \E p \in DOMAIN tokens : ChildMint(p)
         \/ Answered
         \/ Elsewhere
<1>1. NoParent \notin DOMAIN tokens
  BY DEF TypeOK, NoParent
<1>2. ASSUME NEW c \in Card, NEW to \in Card, NEW caps \in CapRequests,
             Delegate(c, to, caps) \/ create_delegation_v030(c, to, caps)
      PROVE  RootMint(c)
  <2>1. CASE Delegate(c, to, caps)
    BY <2>1, MintsRoot, RequestsAssumption DEF Delegate
  <2>2. CASE create_delegation_v030(c, to, caps)
    BY <2>2, MintsRoot DEF create_delegation_v030, MintV030, Descent
  <2>3. QED
    BY <1>2, <2>1, <2>2
<1>3. ASSUME NEW c \in Card, NEW to \in Card, NEW caps \in CapRequests,
             NEW p \in DOMAIN tokens,
             Redelegate(p, c, to, caps) \/ redelegate_v030(p, c, to, caps)
      PROVE  ChildMint(p)
  <2>1. CASE Redelegate(p, c, to, caps)
    BY <2>1, MintsChild, ParentBoundType, RequestsAssumption
       DEF Redelegate, GrantableCaps
  <2>2. CASE redelegate_v030(p, c, to, caps)
    BY <1>1, <2>2, MintsChild, ParentBoundType
       DEF redelegate_v030, MintV030, Descent, GrantableCaps
  <2>3. QED
    BY <1>3, <2>1, <2>2
<1>4. ASSUME NEW c \in Card, NEW to \in Card, NEW caps \in CapRequests,
             NEW p \in {NoParent} \cup DOMAIN tokens,
             createDelegation(p, c, to, caps)
      PROVE  RootMint(c) \/ (p \in DOMAIN tokens /\ ChildMint(p))
  <2>1. CASE p = NoParent
    BY <1>4, <2>1, MintsRoot, RequestsAssumption DEF createDelegation, Descent
  <2>2. CASE p # NoParent
    BY <1>4, <2>2, MintsChild, ParentBoundType, RequestsAssumption
       DEF createDelegation, Descent
  <2>3. QED
    BY <2>1, <2>2
<1>5. ASSUME NEW i \in DOMAIN tokens, NEW c \in Card,
             \/ VerifyDelegation(i, c)
             \/ verifyDelegation(i, c)
             \/ verify_delegation_v030(i, c)
      PROVE  Answered
  BY <1>5
     DEF VerifyDelegation, verifyDelegation, verify_delegation_v030, TokenValid,
         TokenValidV030, Answered
<1>6. ASSUME NEW ch \in Presented, NEW c \in Card,
             \/ VerifyDelegationChain(ch, c)
             \/ verifyDelegationChain(ch, c)
             \/ verify_delegation_chain_v030(ch, c)
      PROVE  Answered
  <2>1. ch \in Seq(DOMAIN tokens) /\ ch # <<>>
    BY PresentedType
  <2>2. ChainHolds(ch, c) /\ Answer("chain", ch, <<>>)
    BY <1>6, <2>1
       DEF VerifyDelegationChain, verifyDelegationChain, ChainValid,
           verify_delegation_chain_v030, TokenValid, TokenValidV030, LinkValid,
           LinkValidV030, ChainHolds
  <2>3. QED
    BY <2>1, <2>2 DEF Answered
<1>7. ASSUME NEW i \in DOMAIN tokens, NEW r \in Requirements,
             \/ EnforceDelegated(i, r)
             \/ enforceDelegated(i, r)
             \/ enforce_delegated_v030(i, r)
      PROVE  Answered
  BY <1>7
     DEF EnforceDelegated, enforceDelegated, enforce_delegated_v030, Answered,
         HasCapability, Covers
<1>8. QED
  BY <1>2, <1>3, <1>4, <1>5, <1>6, <1>7 DEF InteropNext, Next, Elsewhere

-----------------------------------------------------------------------------
(***************************************************************************)
(* A minted token extends the lineage of older ones and disturbs none.     *)
(***************************************************************************)
LineageOK(i) ==
  LET p == tokens[i].parent IN
  /\ lineage[i].above \subseteq 1 .. (i - 1)
  /\ p = NoParent => lineage[i] = [above |-> {}, origin |-> tokens[i].delegator]
  /\ p # NoParent =>
       /\ p \in 1 .. (i - 1)
       /\ lineage[i] = [above |-> lineage[p].above \cup {p},
                        origin |-> lineage[p].origin]

Narrow(i) ==
  /\ \A a \in lineage[i].above : ValidSubset(tokens[i].caps, tokens[a].caps)
  /\ ValidSubset(tokens[i].caps, CardCaps[lineage[i].origin])

Shallow(i) ==
  Cardinality(lineage[i].above) + tokens[i].depth <= MAX_CHAIN_DEPTH

LEMMA OlderLineage ==
  ASSUME IndInv, NEW i \in DOMAIN tokens
  PROVE  /\ lineage[i].above \subseteq DOMAIN tokens
         /\ i \notin lineage[i].above
         /\ tokens[i].parent # NoParent => tokens[i].parent \in DOMAIN tokens
<1>1. i \in Nat /\ DOMAIN tokens = 1 .. Len(tokens) /\ Len(tokens) \in Nat
  BY TokenTypes DEF IndInv, TypeOK
<1>2. lineage[i].above \subseteq 1 .. (i - 1)
  BY DEF IndInv, LineageWellFormed
<1>3. tokens[i].parent # NoParent => tokens[i].parent \in 1 .. (i - 1)
  BY DEF IndInv, LineageWellFormed
<1>4. QED
  BY <1>1, <1>2, <1>3

LEMMA RootMintInd ==
  ASSUME IndInv, NEW c \in Card, RootMint(c)
  PROVE  IndInv'
<1>0. PICK n : n = Len(tokens) + 1
  OBVIOUS
<1> DEFINE ancestry == [above |-> {}, origin |-> c]
<1>1. PICK token \in DelegationToken :
        /\ ancestry \in Ancestry
        /\ Mint(token, ancestry)
        /\ token.parent = NoParent
        /\ token.delegator = c
        /\ ValidSubset(token.caps, CardCaps[c])
        /\ token.depth <= MAX_CHAIN_DEPTH
  BY DEF RootMint, Ancestry
<1>2. /\ TypeOK'
      /\ Len(tokens) \in Nat
      /\ DOMAIN tokens = 1 .. Len(tokens)
      /\ DOMAIN tokens' = 1 .. n
      /\ \A i \in DOMAIN tokens :
           tokens'[i] = tokens[i] /\ lineage'[i] = lineage[i]
      /\ tokens'[n] = token
      /\ lineage'[n] = ancestry
  BY <1>0, <1>1, MintAppends DEF IndInv
<1>3. \A i \in DOMAIN tokens' : i \in DOMAIN tokens \/ i = n
  BY <1>0, <1>2
<1>4. LineageWellFormed'
  <2>1. ASSUME NEW i \in DOMAIN tokens
        PROVE  LineageOK(i)'
    <3>1. LineageOK(i)
      BY DEF IndInv, LineageWellFormed, LineageOK
    <3>2. tokens[i].parent # NoParent => tokens[i].parent \in DOMAIN tokens
      BY OlderLineage
    <3>3. QED
      BY <1>2, <3>1, <3>2 DEF LineageOK
  <2>2. LineageOK(n)'
    <3>1. tokens'[n].parent = NoParent /\ tokens'[n].delegator = c
      BY <1>1, <1>2
    <3>2. lineage'[n] = [above |-> {}, origin |-> c]
      BY <1>2
    <3>3. QED
      BY <3>1, <3>2 DEF LineageOK
  <2>3. QED
    BY <1>3, <2>1, <2>2 DEF LineageWellFormed, LineageOK
<1>5. CapabilitiesNarrow'
  <2>1. ASSUME NEW i \in DOMAIN tokens
        PROVE  Narrow(i)'
    BY <1>2, OlderLineage DEF IndInv, CapabilitiesNarrow, Narrow
  <2>2. Narrow(n)'
    BY <1>1, <1>2 DEF Narrow
  <2>3. QED
    BY <1>3, <2>1, <2>2 DEF CapabilitiesNarrow, Narrow
<1>6. ChainDepthBounded'
  <2>1. ASSUME NEW i \in DOMAIN tokens
        PROVE  Shallow(i)'
    BY <1>2 DEF IndInv, ChainDepthBounded, Shallow
  <2>2. Shallow(n)'
    <3>1. Cardinality(ancestry.above) = 0
      BY FS_EmptySet
    <3>2. token.depth \in Nat
      BY DEF DelegationToken
    <3>3. QED
      BY <1>1, <1>2, <3>1, <3>2 DEF Shallow
  <2>3. QED
    BY <1>3, <2>1, <2>2 DEF ChainDepthBounded, Shallow
<1>7. QED
  BY <1>2, <1>4, <1>5, <1>6 DEF IndInv

LEMMA ChildMintInd ==
  ASSUME IndInv, NEW p \in DOMAIN tokens, ChildMint(p)
  PROVE  IndInv'
<1>0. PICK n : n = Len(tokens) + 1
  OBVIOUS
<1> DEFINE ancestry == [above |-> lineage[p].above \cup {p},
                        origin |-> lineage[p].origin]
<1>1. PICK token \in DelegationToken :
        /\ ancestry \in Ancestry
        /\ Mint(token, ancestry)
        /\ token.parent = p
        /\ ValidSubset(token.caps, tokens[p].caps)
        /\ token.depth < tokens[p].depth
  <2>1. ancestry \in Ancestry
    BY TokenTypes DEF IndInv, Ancestry
  <2>2. QED
    BY <2>1 DEF ChildMint
<1>2. /\ TypeOK'
      /\ Len(tokens) \in Nat
      /\ DOMAIN tokens = 1 .. Len(tokens)
      /\ DOMAIN tokens' = 1 .. n
      /\ \A i \in DOMAIN tokens :
           tokens'[i] = tokens[i] /\ lineage'[i] = lineage[i]
      /\ tokens'[n] = token
      /\ lineage'[n] = ancestry
  BY <1>0, <1>1, MintAppends DEF IndInv
<1>3. \A i \in DOMAIN tokens' : i \in DOMAIN tokens \/ i = n
  BY <1>0, <1>2
<1>4. p \in 1 .. Len(tokens) /\ p < n /\ p # NoParent
  BY <1>0, <1>2 DEF NoParent
<1>5. /\ lineage[p].above \subseteq DOMAIN tokens
      /\ lineage[p].above \subseteq 1 .. (p - 1)
      /\ p \notin lineage[p].above
  BY OlderLineage DEF IndInv, LineageWellFormed
<1>6. LineageWellFormed'
  <2>1. ASSUME NEW i \in DOMAIN tokens
        PROVE  LineageOK(i)'
    <3>1. LineageOK(i)
      BY DEF IndInv, LineageWellFormed, LineageOK
    <3>2. tokens[i].parent # NoParent => tokens[i].parent \in DOMAIN tokens
      BY OlderLineage
    <3>3. QED
      BY <1>2, <3>1, <3>2 DEF LineageOK
  <2>2. LineageOK(n)'
    <3>1. tokens'[n].parent = p /\ p # NoParent /\ p \in 1 .. (n - 1)
      BY <1>0, <1>1, <1>2, <1>4
    <3>2. lineage'[n] = [above |-> lineage'[p].above \cup {p},
                         origin |-> lineage'[p].origin]
      BY <1>2
    <3>3. lineage'[n].above \subseteq 1 .. (n - 1)
      BY <1>0, <1>2, <1>5
    <3>4. QED
      BY <3>1, <3>2, <3>3 DEF LineageOK
  <2>3. QED
    BY <1>3, <2>1, <2>2 DEF LineageWellFormed, LineageOK
<1>7. CapabilitiesNarrow'
  <2>1. ASSUME NEW i \in DOMAIN tokens
        PROVE  Narrow(i)'
    BY <1>2, OlderLineage DEF IndInv, CapabilitiesNarrow, Narrow
  <2>2. token.caps \in SUBSET Capability /\ tokens[p].caps \in SUBSET Capability
    BY TokenTypes DEF IndInv, DelegationToken
  <2>3. ASSUME NEW a \in lineage[p].above
        PROVE  ValidSubset(token.caps, tokens[a].caps)
    <3>1. tokens[a].caps \in SUBSET Capability
      BY <1>5, TokenTypes DEF IndInv
    <3>2. ValidSubset(tokens[p].caps, tokens[a].caps)
      BY DEF IndInv, CapabilitiesNarrow
    <3>3. QED
      BY <1>1, <2>2, <3>1, <3>2, ValidSubsetTransitive
  <2>4. ValidSubset(token.caps, CardCaps[lineage[p].origin])
    <3>1. CardCaps[lineage[p].origin] \in SUBSET Capability
      BY TokenTypes, CardAssumption DEF IndInv
    <3>2. ValidSubset(tokens[p].caps, CardCaps[lineage[p].origin])
      BY DEF IndInv, CapabilitiesNarrow
    <3>3. QED
      BY <1>1, <2>2, <3>1, <3>2, ValidSubsetTransitive
  <2>5. Narrow(n)'
    BY <1>1, <1>2, <1>5, <2>3, <2>4 DEF Narrow
  <2>6. QED
    BY <1>3, <2>1, <2>5 DEF CapabilitiesNarrow, Narrow
<1>8. ChainDepthBounded'
  <2> DEFINE above == lineage[p].above
  <2>1. ASSUME NEW i \in DOMAIN tokens
        PROVE  Shallow(i)'
    BY <1>2 DEF IndInv, ChainDepthBounded, Shallow
  <2>2. IsFiniteSet(above)
    <3>1. IsFiniteSet(1 .. Len(tokens))
      BY <1>2, FS_Interval
    <3>2. QED
      BY <1>2, <1>5, <3>1, FS_Subset
  <2>3. /\ Cardinality(above) \in Nat
        /\ Cardinality(above \cup {p}) = Cardinality(above) + 1
    BY <1>5, <2>2, FS_AddElement, FS_CardinalityType
  <2>4. token.depth \in Nat /\ tokens[p].depth \in Nat
    BY TokenTypes DEF IndInv, DelegationToken
  <2>5. Cardinality(above) + tokens[p].depth <= MAX_CHAIN_DEPTH
    BY DEF IndInv, ChainDepthBounded
  <2>6. Cardinality(ancestry.above) + token.depth <= MAX_CHAIN_DEPTH
    BY <1>1, <2>3, <2>4, <2>5, LimitsAssumption
  <2>7. Shallow(n)'
    BY <1>2, <2>6 DEF Shallow
  <2>8. QED
    BY <1>3, <2>1, <2>7 DEF ChainDepthBounded, Shallow
<1>9. QED
  BY <1>2, <1>6, <1>7, <1>8 DEF IndInv

(***************************************************************************)
(* The other calls mint nothing.                                           *)
(***************************************************************************)
LEMMA AnsweredInd ==
  ASSUME IndInv, Answered
  PROVE  IndInv'
<1>1. PICK op \in {"token", "chain", "enforce"}, ids \in Seq(Nat),
           required \in Capability \cup { <<>> } : Answer(op, ids, required)
  <2>1. DOMAIN tokens \subseteq Nat
    BY DEF IndInv, TypeOK
  <2>2. /\ \A i \in DOMAIN tokens : <<i>> \in Seq(Nat)
        /\ \A ch \in Seq(DOMAIN tokens) : ch \in Seq(Nat)
    BY <2>1
  <2>3. QED
    BY <2>2, RequestsAssumption DEF Answered
<1>2. QED
  BY <1>1
     DEF Answer, IndInv, TypeOK, LineageWellFormed, CapabilitiesNarrow,
         ChainDepthBounded

LEMMA EnvironmentInd ==
  ASSUME IndInv, Elsewhere \/ UNCHANGED vars
  PROVE  IndInv'
<1>1. UNCHANGED <<tokens, lineage>>
  BY DEF Elsewhere, Retire, Tick, vars
<1>2. TypeOK'
  <2>1. CASE \E c \in Card, to \in {"revoked", "superseded"} : Retire(c, to)
    BY <2>1 DEF IndInv, TypeOK, Retire, NoAnswer
  <2>2. CASE Tick
    BY <2>2, LimitsAssumption DEF IndInv, TypeOK, Tick, NoAnswer
  <2>3. CASE UNCHANGED vars
    BY <2>3 DEF IndInv, TypeOK, vars
  <2>4. QED
    BY <2>1, <2>2, <2>3 DEF Elsewhere
<1>3. QED
  BY <1>1, <1>2 DEF IndInv, LineageWellFormed, CapabilitiesNarrow,
                    ChainDepthBounded

LEMMA StepInd == IndInv /\ [InteropNext]_vars => IndInv'
BY StepCases, RootMintInd, ChildMintInd, AnsweredInd, EnvironmentInd DEF IndInv

(***************************************************************************)
(* For any cards, requests and bounds: tokens are well typed, each one     *)
(* descends from older ones, and narrowing and depth hold against every    *)
(* ancestor, not only against the parent the code looks at.                *)
(***************************************************************************)
THEOREM Inductive == InteropSpec => []IndInv
BY InitInd, StepInd, PTL DEF InteropSpec

(* Every token create_delegation and redelegate mint has the fields' types: *)
(* above all, no re-delegation drives max_redelegation_depth below zero.    *)
THEOREM TypeCorrect == InteropSpec => []TypeOK
<1>1. IndInv => TypeOK
  BY DEF IndInv
<1>2. QED
  BY <1>1, Inductive, PTL

(***************************************************************************)
(* A token's capabilities are covered by all it descends from, although    *)
(* create_delegation compares them with its parent's alone.                *)
(***************************************************************************)
THEOREM DelegatesNeverWiden == InteropSpec => []CapabilitiesNarrow
<1>1. IndInv => CapabilitiesNarrow
  BY DEF IndInv
<1>2. QED
  BY <1>1, Inductive, PTL

(***************************************************************************)
(* MAX_CHAIN_DEPTH bounds every chain, whatever depths callers ask for.    *)
(***************************************************************************)
THEOREM DepthCapped == InteropSpec => []ChainDepthBounded
<1>1. IndInv => ChainDepthBounded
  BY DEF IndInv
<1>2. QED
  BY <1>1, Inductive, PTL

(***************************************************************************)
(* The present SDK alone is one of the mixtures: each of its steps is one  *)
(* of theirs, so every theorem here holds of it too.                       *)
(***************************************************************************)
THEOREM PresentIsAMixture == Spec => InteropSpec
<1>1. [Next]_vars => [InteropNext]_vars
  BY DEF InteropNext
<1>2. QED
  BY <1>1, PTL DEF Spec, InteropSpec

-----------------------------------------------------------------------------
(***************************************************************************)
(* If the expiries callers pass parse, every token's does, and bounds      *)
(* those of its descendants.                                               *)
(***************************************************************************)
Dated(i) ==
  /\ tokens[i].exp \in Nat
  /\ \A a \in lineage[i].above : ~Exceeds(tokens[i].exp, tokens[a].exp)
  /\ ~Exceeds(tokens[i].exp, CardExp[lineage[i].origin])

AllDated == \A i \in DOMAIN tokens : Dated(i)

LEMMA ExceedsTransitive ==
  ASSUME NEW x \in Nat, NEW y \in Nat, NEW z \in Nat \cup {Never},
         ~Exceeds(x, y), ~Exceeds(y, z)
  PROVE  ~Exceeds(x, z)
BY NeverAssumption DEF Exceeds

LEMMA DatedStep ==
  ASSUME ExpiriesParse, IndInv, AllDated, [InteropNext]_vars
  PROVE  AllDated'
<1>1. ASSUME UNCHANGED <<tokens, lineage>>
      PROVE  AllDated'
  BY <1>1 DEF AllDated, Dated
<1>2. ASSUME NEW token \in DelegationToken, NEW ancestry \in Ancestry,
             Mint(token, ancestry),
             token.exp \in Nat,
             ancestry.above \subseteq DOMAIN tokens,
             \A a \in ancestry.above : ~Exceeds(token.exp, tokens[a].exp),
             ~Exceeds(token.exp, CardExp[ancestry.origin])
      PROVE  AllDated'
  <2>1. PICK n : n = Len(tokens) + 1
    OBVIOUS
  <2>2. /\ Len(tokens) \in Nat
        /\ DOMAIN tokens = 1 .. Len(tokens)
        /\ DOMAIN tokens' = 1 .. n
        /\ \A i \in DOMAIN tokens :
             tokens'[i] = tokens[i] /\ lineage'[i] = lineage[i]
        /\ tokens'[n] = token
        /\ lineage'[n] = ancestry
    BY <1>2, <2>1, MintAppends DEF IndInv
  <2>3. ASSUME NEW i \in DOMAIN tokens
        PROVE  Dated(i)'
    BY <2>2, OlderLineage DEF AllDated, Dated
  <2>4. Dated(n)'
    BY <1>2, <2>2 DEF Dated
  <2>5. \A i \in DOMAIN tokens' : i \in DOMAIN tokens \/ i = n
    BY <2>1, <2>2
  <2>6. QED
    BY <2>3, <2>4, <2>5 DEF AllDated
<1>3. ASSUME NEW c \in Card, RootMint(c)
      PROVE  AllDated'
  <2> DEFINE ancestry == [above |-> {}, origin |-> c]
  <2>1. PICK token \in DelegationToken :
          /\ Mint(token, ancestry)
          /\ ~Exceeds(token.exp, CardExp[c])
          /\ token.exp \in Nat
    BY <1>3 DEF RootMint
  <2>2. ancestry \in Ancestry
    BY DEF Ancestry
  <2>3. QED
    BY <1>2, <2>1, <2>2
<1>4. ASSUME NEW p \in DOMAIN tokens, ChildMint(p)
      PROVE  AllDated'
  <2> DEFINE ancestry == [above |-> lineage[p].above \cup {p},
                          origin |-> lineage[p].origin]
  <2>1. Dated(p) /\ tokens[p].exp \in Nat
    BY DEF AllDated, Dated
  <2>2. PICK token \in DelegationToken :
          /\ Mint(token, ancestry)
          /\ token.exp \in Nat
          /\ ~Exceeds(token.exp, tokens[p].exp)
    BY <1>4, <2>1 DEF ChildMint
  <2>3. ancestry \in Ancestry
    BY TokenTypes DEF IndInv, Ancestry
  <2>4. ASSUME NEW a \in lineage[p].above
        PROVE  a \in DOMAIN tokens /\ ~Exceeds(token.exp, tokens[a].exp)
    <3>1. a \in DOMAIN tokens
      BY OlderLineage
    <3>2. tokens[a].exp \in Nat
      BY <3>1 DEF AllDated, Dated
    <3>3. QED
      BY <2>1, <2>2, <3>1, <3>2, ExceedsTransitive DEF Dated
  <2>5. ~Exceeds(token.exp, CardExp[lineage[p].origin])
    <3>1. CardExp[lineage[p].origin] \in Nat \cup {Never}
      BY TokenTypes, CardAssumption DEF IndInv
    <3>2. QED
      BY <2>1, <2>2, <3>1, ExceedsTransitive DEF Dated
  <2>6. QED
    BY <1>2, <2>2, <2>3, <2>4, <2>5
<1>5. CASE Answered \/ Elsewhere \/ UNCHANGED vars
  BY <1>1, <1>5 DEF Answered, Answer, Elsewhere, Retire, Tick, vars
<1>6. QED
  BY <1>3, <1>4, <1>5, StepCases DEF IndInv

LEMMA DatedAlways ==
  ASSUME ExpiriesParse
  PROVE  InteropSpec => []AllDated
<1>1. Init => AllDated
  BY DEF Init, AllDated
<1>2. IndInv /\ AllDated /\ [InteropNext]_vars => AllDated'
  BY DatedStep
<1>3. QED
  BY <1>1, <1>2, Inductive, PTL DEF InteropSpec

(***************************************************************************)
(* Provided callers pass expiries that parse, no token outlives a token it *)
(* descends from, or the root delegator's card.                            *)
(***************************************************************************)
THEOREM ExpiryNeverExtended ==
  ASSUME ExpiriesParse
  PROVE  InteropSpec => []ExpiryNarrows
<1>1. AllDated => ExpiryNarrows
  BY DEF AllDated, Dated, ExpiryNarrows
<1>2. QED
  BY <1>1, DatedAlways, PTL

-----------------------------------------------------------------------------
(***************************************************************************)
(* A chain that follows parent_delegation_id from a root token on is, link *)
(* by link, the lineage of its last token, and the ones                    *)
(* verify_delegation_chain accepts do.  The induction over the links is by *)
(* least counterexample.                                                   *)
(***************************************************************************)
WholeChains ==
  {ch \in Seq(DOMAIN tokens) :
     /\ ch # <<>>
     /\ tokens[ch[1]].parent = NoParent
     /\ \A k \in 2 .. Len(ch) : tokens[ch[k]].parent = ch[k - 1]}

LEMMA WholeChainIsLineage ==
  ASSUME IndInv, NEW ch \in WholeChains, NEW k \in DOMAIN ch
  PROVE  /\ {ch[m] : m \in 1 .. (k - 1)} = lineage[ch[k]].above
         /\ lineage[ch[k]].origin = tokens[ch[1]].delegator
<1> DEFINE root == tokens[ch[1]].delegator
           Good(j) == /\ {ch[m] : m \in 1 .. (j - 1)} = lineage[ch[j]].above
                      /\ lineage[ch[j]].origin = root
           Bad == {j \in DOMAIN ch : ~Good(j)}
<1>1. /\ ch \in Seq(DOMAIN tokens) /\ ch # <<>>
      /\ tokens[ch[1]].parent = NoParent
      /\ \A j \in 2 .. Len(ch) : tokens[ch[j]].parent = ch[j - 1]
  BY DEF WholeChains
<1>2. DOMAIN ch = 1 .. Len(ch) /\ Len(ch) \in Nat
        /\ \A j \in DOMAIN ch : ch[j] \in DOMAIN tokens
  BY <1>1
<1>3. Good(1)
  <2>1. ch[1] \in DOMAIN tokens
    BY <1>1
  <2>2. lineage[ch[1]] = [above |-> {}, origin |-> root]
    BY <1>1, <2>1 DEF IndInv, LineageWellFormed
  <2>3. QED
    BY <2>2
<1> HIDE DEF root
<1>4. ASSUME NEW j \in 2 .. Len(ch), Good(j - 1)
      PROVE  Good(j)
  <2>1. j \in DOMAIN ch /\ j - 1 \in DOMAIN ch
    BY <1>2
  <2>2. ch[j] \in DOMAIN tokens /\ ch[j - 1] \in DOMAIN tokens
    BY <1>2, <2>1
  <2>3. tokens[ch[j]].parent = ch[j - 1]
    BY <1>1
  <2>4. ch[j - 1] # NoParent
    BY <2>2 DEF IndInv, TypeOK, NoParent
  <2>5. lineage[ch[j]] = [above |-> lineage[ch[j - 1]].above \cup {ch[j - 1]},
                          origin |-> lineage[ch[j - 1]].origin]
    BY <2>2, <2>3, <2>4 DEF IndInv, LineageWellFormed
  <2>6. {ch[m] : m \in 1 .. (j - 1)}
          = {ch[m] : m \in 1 .. (j - 1 - 1)} \cup {ch[j - 1]}
    <3>1. \A m : m \in 1 .. (j - 1) <=> m \in 1 .. (j - 1 - 1) \/ m = j - 1
      OBVIOUS
    <3>2. QED
      BY <3>1
  <2>7. QED
    BY <1>4, <2>5, <2>6
<1> HIDE DEF Good
<1>5. Bad = {}
  <2> SUFFICES ASSUME Bad # {} PROVE FALSE
    OBVIOUS
  <2>1. Bad \in SUBSET Nat
    BY <1>2
  <2>2. PICK j \in Bad : \A m \in Bad : j <= m
    BY <2>1, LeastElement
  <2>3. j \in 2 .. Len(ch)
    BY <1>2, <1>3, <2>2
  <2>4. j - 1 \in DOMAIN ch /\ j - 1 \notin Bad
    BY <1>2, <2>1, <2>2, <2>3
  <2>5. QED
    BY <1>4, <2>2, <2>3, <2>4
<1>6. QED
  BY <1>5 DEF Good, root

LEMMA AcceptedChainIsWhole ==
  ASSUME NEW ch \in Seq(DOMAIN tokens), NEW c \in Card, ChainHolds(ch, c)
  PROVE  ch \in WholeChains /\ tokens[ch[1]].delegator = c
BY DEF ChainHolds, LinkValidV030, TokenValidV030, WholeChains

LEMMA ValidChainIsLineage ==
  ASSUME IndInv, NEW ch \in Seq(DOMAIN tokens), NEW root \in Card,
         ChainHolds(ch, root), NEW k \in DOMAIN ch
  PROVE  /\ {ch[m] : m \in 1 .. (k - 1)} = lineage[ch[k]].above
         /\ lineage[ch[k]].origin = root
BY AcceptedChainIsWhole, WholeChainIsLineage

(***************************************************************************)
(* A step after which answer is a positive one is the call that gave it:   *)
(* it names tokens that exist and changes nothing else.                    *)
(***************************************************************************)
LEMMA AnswerStep ==
  ASSUME IndInv, InteropNext, answer'.op # "none"
  PROVE  Answered
<1>1. ASSUME NEW token, NEW ancestry, Mint(token, ancestry)
      PROVE  FALSE
  BY <1>1 DEF Mint, NoAnswer
<1>2. ~ \E c \in Card : RootMint(c)
  BY <1>1 DEF RootMint
<1>3. ~ \E p \in DOMAIN tokens : ChildMint(p)
  BY <1>1 DEF ChildMint
<1>4. ~Elsewhere
  BY DEF Elsewhere, Retire, Tick, NoAnswer
<1>5. QED
  BY <1>2, <1>3, <1>4, StepCases DEF IndInv

(***************************************************************************)
(* verify_delegation_chain accepts exactly whole lineages, under a usable  *)
(* root card that covers what the last delegate may do.                    *)
(***************************************************************************)
THEOREM ChainVerificationSound == InteropSpec => []AcceptedChainIsLineage
<1>1. Init => AcceptedChainIsLineage
  BY DEF Init, NoAnswer, AcceptedChainIsLineage
<1>2. ASSUME IndInv, AcceptedChainIsLineage, [InteropNext]_vars
      PROVE  AcceptedChainIsLineage'
  <2>1. CASE UNCHANGED vars
    BY <1>2, <2>1 DEF vars, AcceptedChainIsLineage, CardUsable
  <2>2. CASE InteropNext /\ answer'.op = "chain"
    <3>1. Answered
      BY <1>2, <2>2, AnswerStep
    <3>2. PICK ch \in Seq(DOMAIN tokens), c \in Card :
            /\ ChainHolds(ch, c)
            /\ answer' = [op |-> "chain", ids |-> ch, required |-> <<>>]
            /\ UNCHANGED <<clock, status, tokens, lineage>>
      BY <2>2, <3>1 DEF Answered, Answer
    <3> DEFINE leaf == ch[Len(ch)]
    <3>3. Len(ch) \in DOMAIN ch /\ leaf \in DOMAIN tokens
      BY <3>2 DEF ChainHolds
    <3>4. /\ {ch[k] : k \in 1 .. (Len(ch) - 1)} = lineage[leaf].above
          /\ lineage[leaf].origin = c
      BY <1>2, <3>2, <3>3, ValidChainIsLineage
    <3>5. CardUsable(c)
      BY <3>2 DEF ChainHolds, TokenValidV030
    <3>6. ValidSubset(tokens[leaf].caps, CardCaps[c])
      BY <1>2, <3>3, <3>4 DEF IndInv, CapabilitiesNarrow
    <3>7. QED
      BY <3>2, <3>4, <3>5, <3>6 DEF AcceptedChainIsLineage, CardUsable
  <2>3. CASE answer'.op # "chain"
    BY <2>3 DEF AcceptedChainIsLineage
  <2>4. QED
    BY <1>2, <2>1, <2>2, <2>3
<1>3. QED
  BY <1>1, <1>2, Inductive, PTL DEF InteropSpec

(***************************************************************************)
(* enforce_delegated, which looks at one token, never lets through a       *)
(* concrete capability that the tokens above it or the root card lack.     *)
(***************************************************************************)
THEOREM EnforcementSound == InteropSpec => []EnforcementWithinGrant
<1>1. Init => EnforcementWithinGrant
  BY DEF Init, NoAnswer, EnforcementWithinGrant
<1>2. ASSUME IndInv, EnforcementWithinGrant, [InteropNext]_vars
      PROVE  EnforcementWithinGrant'
  <2>1. CASE UNCHANGED vars
    BY <1>2, <2>1 DEF vars, EnforcementWithinGrant
  <2>2. CASE InteropNext /\ answer'.op = "enforce" /\ ~IsWildcard(answer'.required)
    <3>1. Answered
      BY <1>2, <2>2, AnswerStep
    <3>2. PICK i \in DOMAIN tokens, r \in Requirements :
            /\ HasCapability(tokens[i].caps, r)
            /\ answer' = [op |-> "enforce", ids |-> <<i>>, required |-> r]
            /\ UNCHANGED <<tokens, lineage>>
      BY <2>2, <3>1 DEF Answered, Answer
    <3>3. r \in Capability /\ ~IsWildcard(r)
      BY <2>2, <3>2, RequestsAssumption
    <3>4. tokens[i].caps \in SUBSET Capability /\ lineage[i].origin \in Card
      BY <1>2, TokenTypes DEF IndInv
    <3>5. ASSUME NEW a \in lineage[i].above
          PROVE  HasCapability(tokens[a].caps, r)
      <4>1. tokens[a].caps \in SUBSET Capability
        BY <1>2, OlderLineage, TokenTypes DEF IndInv
      <4>2. ValidSubset(tokens[i].caps, tokens[a].caps)
        BY <1>2 DEF IndInv, CapabilitiesNarrow
      <4>3. QED
        BY <3>2, <3>3, <3>4, <4>1, <4>2, ConcreteEnforcementMonotone
    <3>6. HasCapability(CardCaps[lineage[i].origin], r)
      <4>1. CardCaps[lineage[i].origin] \in SUBSET Capability
        BY <3>4, CardAssumption
      <4>2. ValidSubset(tokens[i].caps, CardCaps[lineage[i].origin])
        BY <1>2 DEF IndInv, CapabilitiesNarrow
      <4>3. QED
        BY <3>2, <3>3, <3>4, <4>1, <4>2, ConcreteEnforcementMonotone
    <3>7. QED
      BY <3>2, <3>5, <3>6 DEF EnforcementWithinGrant
  <2>3. CASE ~(answer'.op = "enforce" /\ ~IsWildcard(answer'.required))
    BY <2>3 DEF EnforcementWithinGrant
  <2>4. QED
    BY <1>2, <2>1, <2>2, <2>3
<1>3. QED
  BY <1>1, <1>2, Inductive, PTL DEF InteropSpec

(***************************************************************************)
(* Provided expiries parse, no call answers positively about a token once  *)
(* anything it descends from has expired.                                  *)
(***************************************************************************)
THEOREM AnswersSound ==
  ASSUME ExpiriesParse
  PROVE  InteropSpec => []AnswersWhileGrantLives
<1>1. Init => AnswersWhileGrantLives
  BY DEF Init, NoAnswer, AnswersWhileGrantLives
<1>2. ASSUME IndInv, AllDated, AnswersWhileGrantLives, [InteropNext]_vars
      PROVE  AnswersWhileGrantLives'
  <2>1. CASE UNCHANGED vars
    BY <1>2, <2>1 DEF vars, AnswersWhileGrantLives
  <2>2. CASE InteropNext /\ answer'.op # "none"
    <3> DEFINE leaf == answer'.ids[Len(answer'.ids)]
    <3>1. Answered /\ UNCHANGED <<clock, tokens, lineage>>
      BY <1>2, <2>2, AnswerStep DEF Answered, Answer
    <3>2. leaf \in DOMAIN tokens /\ ~Past(tokens[leaf].exp, clock)
      <4>1. \/ \E i \in DOMAIN tokens :
                  ~Past(tokens[i].exp, clock) /\ answer'.ids = <<i>>
            \/ \E ch \in Seq(DOMAIN tokens), c \in Card :
                  ChainHolds(ch, c) /\ answer'.ids = ch
        BY <3>1 DEF Answered, Answer
      <4>2. CASE \E i \in DOMAIN tokens :
                   ~Past(tokens[i].exp, clock) /\ answer'.ids = <<i>>
        BY <4>2
      <4>3. CASE \E ch \in Seq(DOMAIN tokens), c \in Card :
                   ChainHolds(ch, c) /\ answer'.ids = ch
        <5>1. PICK ch \in Seq(DOMAIN tokens), c \in Card :
                ChainHolds(ch, c) /\ answer'.ids = ch
          BY <4>3
        <5>2. Len(ch) = 1 \/ Len(ch) \in 2 .. Len(ch)
          <6>1. Len(ch) \in Nat /\ Len(ch) # 0
            BY <5>1 DEF ChainHolds
          <6>2. \A n \in Nat : n # 0 => n = 1 \/ n \in 2 .. n
            OBVIOUS
          <6>3. QED
            BY <6>1, <6>2, Zenon
        <5>3. QED
          BY <5>1, <5>2 DEF ChainHolds, TokenValidV030, LinkValidV030
      <4>4. QED
        BY <4>1, <4>2, <4>3
    <3>3. Dated(leaf) /\ clock \in Nat /\ tokens[leaf].exp \in Nat
      BY <1>2, <3>2, LimitsAssumption DEF AllDated, Dated, IndInv, TypeOK
    <3>4. clock <= tokens[leaf].exp
      BY <3>2, <3>3, NeverAssumption DEF Past
    <3>5. ASSUME NEW x \in Nat \cup {Never}, ~Exceeds(tokens[leaf].exp, x)
          PROVE  ~Past(x, clock)
      BY <3>3, <3>4, <3>5, NeverAssumption DEF Past, Exceeds
    <3>6. \A a \in lineage[leaf].above : ~Past(tokens[a].exp, clock)
      BY <1>2, <3>2, <3>3, <3>5, OlderLineage, TokenTypes DEF Dated, IndInv
    <3>7. ~Past(CardExp[lineage[leaf].origin], clock)
      BY <1>2, <3>2, <3>3, <3>5, TokenTypes, CardAssumption DEF Dated, IndInv
    <3>8. QED
      BY <3>1, <3>6, <3>7 DEF AnswersWhileGrantLives
  <2>3. CASE answer'.op = "none"
    BY <2>3 DEF AnswersWhileGrantLives
  <2>4. QED
    BY <1>2, <2>1, <2>2, <2>3
<1>3. QED
  BY <1>1, <1>2, Inductive, DatedAlways, PTL DEF InteropSpec

-----------------------------------------------------------------------------
(***************************************************************************)
(* What ReplayGuard's RootedChains takes for granted of the chains whose   *)
(* nonces are marked: it follows from how tokens were minted.              *)
(***************************************************************************)
WholeChainsRooted ==
  /\ \A ch1, ch2 \in WholeChains : \A i \in DOMAIN ch1, j \in DOMAIN ch2 :
       ch1[i] = ch2[j] => ch1[1] = ch2[1]
  /\ \A ch \in WholeChains : \A i, j \in DOMAIN ch :
       /\ i # j => ch[i] # ch[j]
       /\ i < j => tokens[ch[j]].exp <= tokens[ch[i]].exp

(***************************************************************************)
(* Whole chains, which are all verify_delegation_chain accepts, are what   *)
(* ReplayGuard needs to burn no live nonce: two that share a link share    *)
(* their root, none has a link twice, and expiries narrow, provided those  *)
(* callers pass parse.                                                     *)
(***************************************************************************)
THEOREM WholeChainsAreRooted ==
  ASSUME ExpiriesParse
  PROVE  InteropSpec => []WholeChainsRooted
<1>1. ASSUME IndInv, AllDated PROVE WholeChainsRooted
  <2>1. ASSUME NEW ch \in WholeChains
        PROVE  /\ DOMAIN ch = 1 .. Len(ch) /\ Len(ch) \in Nat \ {0}
               /\ \A i \in DOMAIN ch : ch[i] \in DOMAIN tokens /\ ch[i] \in Nat
    <3>1. ch \in Seq(DOMAIN tokens) /\ ch # <<>> /\ DOMAIN tokens \subseteq Nat
      BY <1>1 DEF WholeChains, IndInv, TypeOK
    <3>2. QED
      BY <3>1
  <2>2. ASSUME NEW ch \in WholeChains, NEW i \in DOMAIN ch, NEW j \in DOMAIN ch,
               i < j
        PROVE  ch[i] \in lineage[ch[j]].above
    <3>1. i \in 1 .. (j - 1)
      BY <2>1, <2>2
    <3>2. QED
      BY <1>1, <3>1, WholeChainIsLineage
  <2>3. ASSUME NEW ch \in WholeChains, NEW i \in DOMAIN ch, NEW j \in DOMAIN ch
        PROVE  /\ i # j => ch[i] # ch[j]
               /\ i < j => tokens[ch[j]].exp <= tokens[ch[i]].exp
    <3>1. \A k \in DOMAIN ch : ch[k] \notin lineage[ch[k]].above
      BY <1>1, <2>1, OlderLineage
    <3>2. i < j => ch[i] # ch[j]
      BY <2>2, <3>1
    <3>3. j < i => ch[i] # ch[j]
      BY <2>2, <3>1
    <3>4. i < j \/ j < i \/ i = j
      BY <2>1
    <3>5. ASSUME i < j
          PROVE  tokens[ch[j]].exp <= tokens[ch[i]].exp
      <4>1. ch[i] \in DOMAIN tokens /\ ch[j] \in DOMAIN tokens
        BY <2>1
      <4>2. tokens[ch[i]].exp \in Nat /\ tokens[ch[j]].exp \in Nat
        BY <1>1, <4>1 DEF AllDated, Dated
      <4>3. ~Exceeds(tokens[ch[j]].exp, tokens[ch[i]].exp)
        BY <1>1, <2>2, <3>5, <4>1 DEF AllDated, Dated
      <4>4. QED
        BY <4>2, <4>3, NeverAssumption DEF Exceeds
    <3>6. QED
      BY <3>2, <3>3, <3>4, <3>5
  <2>4. ASSUME NEW ch1 \in WholeChains, NEW ch2 \in WholeChains,
               NEW i \in DOMAIN ch1, NEW j \in DOMAIN ch2, ch1[i] = ch2[j]
        PROVE  ch1[1] = ch2[1]
    <3>1. ch1[1] \in lineage[ch1[i]].above \cup {ch1[i]}
      <4>1. 1 \in DOMAIN ch1 /\ (i = 1 \/ 1 < i)
        BY <2>1
      <4>2. QED
        BY <2>2, <4>1
    <3>2. {ch2[m] : m \in 1 .. (j - 1)} = lineage[ch2[j]].above
      BY <1>1, WholeChainIsLineage
    <3>3. PICK m \in DOMAIN ch2 : ch1[1] = ch2[m]
      <4>1. 1 .. (j - 1) \subseteq DOMAIN ch2
        BY <2>1
      <4>2. QED
        BY <2>4, <3>1, <3>2, <4>1
    <3>4. tokens[ch2[m]].parent = NoParent
      BY <3>3 DEF WholeChains
    <3>5. m = 1 \/ m \in 2 .. Len(ch2)
      BY <2>1
    <3>6. m \notin 2 .. Len(ch2)
      <4>1. ASSUME m \in 2 .. Len(ch2)
            PROVE  FALSE
        <5>1. tokens[ch2[m]].parent = ch2[m - 1]
          BY <4>1 DEF WholeChains
        <5>2. ch2[m - 1] \in DOMAIN tokens
          BY <2>1, <4>1
        <5>3. QED
          BY <1>1, <3>4, <5>1, <5>2 DEF IndInv, TypeOK, NoParent
      <4>2. QED
        BY <4>1
    <3>7. QED
      BY <3>3, <3>5, <3>6
  <2>5. QED
    BY <2>3, <2>4 DEF WholeChainsRooted
<1>2. QED
  BY <1>1, Inductive, DatedAlways, PTL
=============================================================================
