------------------------------- MODULE Interop -------------------------------
(***************************************************************************)
(* Delegation among agents and hosts that run different SDKs: the present  *)
(* Python one (module Delegation), its TypeScript port, and v0.3, which    *)
(* some agents still run.  Any host may be handed any token.               *)
(***************************************************************************)
EXTENDS Delegation

CONSTANT Legacy   \* the agents that run v0.3

ASSUME LegacyAssumption == Legacy \subseteq Card

(***************************************************************************)
(* The TypeScript port.  Its re-delegations are bound by the parent's      *)
(* expiry alone, and by nothing when that does not parse.                  *)
(***************************************************************************)
ResolvedExpiriesTS(bound) ==
  IF bound # Never THEN ResolvedExpiries(bound)
  ELSE ExpRequests \cup {clock + d : d \in TTLs} \cup {Never}

Descent(p, c) ==
  IF p = NoParent THEN [above |-> {}, origin |-> c]
  ELSE [above |-> lineage[p].above \cup {p}, origin |-> lineage[p].origin]

createDelegation(p, c, to, caps) ==
  LET root == p = NoParent IN
  /\ CardUsable(c)
  /\ ~root => MayRedelegate(tokens[p])
  /\ ValidSubset(caps, IF root THEN CardCaps[c] ELSE tokens[p].caps)
  /\ \E exp \in IF root THEN ResolvedExpiries(CardExp[c])
                ELSE ResolvedExpiriesTS(tokens[p].exp),
        depth \in Clamped(IF root
                          THEN DepthRequests \cup {DEFAULT_REDELEGATION_DEPTH}
                          ELSE ParentDepths(tokens[p])),
        signed \in Signing :
       Mint([delegator |-> c, delegate |-> to, caps |-> caps, exp |-> exp,
             parent |-> p, depth |-> depth, signed |-> signed],
            Descent(p, c))

\* A wildcard requirement that no capability is under falls through to the
\* declared wildcards; in Python it is refused.
enforceDelegated(i, required) ==
  /\ ~Past(tokens[i].exp, clock)
  /\ \/ HasCapability(tokens[i].caps, required)
     \/ \E c \in tokens[i].caps : Covers(c, required)
  /\ Answer("enforce", <<i>>, required)

verifyDelegation(i, card) ==
  /\ tokens[i].signed
  /\ ~Past(tokens[i].exp, clock)
  /\ CardUsable(card)
  /\ tokens[i].delegator = card
  /\ ValidSubset(tokens[i].caps, CardCaps[card])
  /\ Answer("token", <<i>>, <<>>)

verifyDelegationChain(ch, root) ==
  /\ TokenValid(ch[1], root)
  /\ tokens[ch[1]].parent = NoParent
  /\ \A k \in 2 .. Len(ch) : LinkValid(ch[k - 1], ch[k])
  /\ Answer("chain", ch, <<>>)

-----------------------------------------------------------------------------
(***************************************************************************)
(* v0.3.  Minting leaves the signature out when there is no key, or no     *)
(* library for it, and verification, which knows no strict mode, skips a   *)
(* signature that is not there.  The rest is as it is today.               *)
(***************************************************************************)
MintV030(p, c, to, caps, exps, depths) ==
  \E exp \in exps, depth \in Clamped(depths), signed \in BOOLEAN :
    Mint([delegator |-> c, delegate |-> to, caps |-> caps, exp |-> exp,
          parent |-> p, depth |-> depth, signed |-> signed],
         Descent(p, c))

create_delegation_v030(c, to, caps) ==
  /\ CardUsable(c)
  /\ ValidSubset(caps, CardCaps[c])
  /\ MintV030(NoParent, c, to, caps, ResolvedExpiries(CardExp[c]),
              DepthRequests \cup {DEFAULT_REDELEGATION_DEPTH})

\* redelegate, which is create_delegation with a parent_delegation
redelegate_v030(p, c, to, caps) ==
  /\ CardUsable(c)
  /\ MayRedelegate(tokens[p])
  /\ ValidSubset(caps, GrantableCaps(tokens[p], c))
  /\ MintV030(p, c, to, caps, ResolvedExpiries(ParentBound(tokens[p], c)),
              ParentDepths(tokens[p]))

TokenValidV030(i, card) ==
  /\ ~Past(tokens[i].exp, clock)
  /\ CardUsable(card)
  /\ tokens[i].delegator = card
  /\ ValidSubset(tokens[i].caps, CardCaps[card])

LinkValidV030(i, j) ==
  LET prev == tokens[i]
      t == tokens[j]
  IN
  /\ t.parent = i
  /\ prev.delegate = t.delegator
  /\ ValidSubset(t.caps, prev.caps)
  /\ ~Exceeds(t.exp, prev.exp)
  /\ prev.depth > 0
  /\ ~Past(t.exp, clock)

verify_delegation_v030(i, card) ==
  TokenValidV030(i, card) /\ Answer("token", <<i>>, <<>>)

verify_delegation_chain_v030(ch, root) ==
  /\ TokenValidV030(ch[1], root)
  /\ tokens[ch[1]].parent = NoParent
  /\ \A k \in 2 .. Len(ch) : LinkValidV030(ch[k - 1], ch[k])
  /\ Answer("chain", ch, <<>>)

enforce_delegated_v030(i, required) ==
  /\ ~Past(tokens[i].exp, clock)
  /\ HasCapability(tokens[i].caps, required)
  /\ Answer("enforce", <<i>>, required)

-----------------------------------------------------------------------------
InteropNext ==
  \/ Next
  \/ \E c, to \in Card, caps \in CapRequests :
       \/ \E p \in {NoParent} \cup DOMAIN tokens : createDelegation(p, c, to, caps)
       \/ c \in Legacy /\ create_delegation_v030(c, to, caps)
       \/ \E p \in DOMAIN tokens :
            c \in Legacy /\ redelegate_v030(p, c, to, caps)
  \/ \E i \in DOMAIN tokens, c \in Card :
       verifyDelegation(i, c) \/ verify_delegation_v030(i, c)
  \/ \E ch \in Presented, c \in Card :
       verifyDelegationChain(ch, c) \/ verify_delegation_chain_v030(ch, c)
  \/ \E i \in DOMAIN tokens, r \in Requirements :
       enforceDelegated(i, r) \/ enforce_delegated_v030(i, r)

InteropSpec == Init /\ [][InteropNext]_vars
=============================================================================
