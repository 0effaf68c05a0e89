------------------------------ MODULE ToolHost ------------------------------
(***************************************************************************)
(* A host that puts the SDK's checks together around each tool call: the   *)
(* card it admits under a compliance profile, the catalog's gates, the     *)
(* enforcement of what the action requires (on the card, or on a token     *)
(* delegated from it), the escalation policy and the receipt.  The host is *)
(* external, the way README.md uses the SDK; what it calls is the code.    *)
(***************************************************************************)
EXTENDS Compliance, Escalation, Catalog, Receipts

CONSTANTS
  Cards,       \* the cards an agent may present
  Profiles,    \* compliance profiles
  Givens,      \* what is known when a card is evaluated
  Grants,      \* the capabilities a token may carry
  Triggers,    \* the escalation policy
  Rules,       \* what each action requires
  AnyOf,       \* the actions enforced with enforce_any
  Concrete,    \* the capabilities tools exercise
  Tool,        \* tool ids
  Revoked,     \* revoked_ids
  Outcomes,    \* the outcomes of tool calls, "ok" or "error"
  Operator,    \* who may answer an escalation
  MaxClock     \* bound: the clock stops here

ASSUME HostAssumption ==
  /\ MaxClock \in Nat
  /\ Concrete \subseteq {x \in Capability : ~IsWildcard(x)}
  /\ AnyOf \subseteq DOMAIN Rules
  /\ Outcomes \subseteq {"ok", "error"}

\* A host asks enforce_delegated for each capability an action requires: for
\* an action that requires none it would not ask at all.
ASSUME PolicyAssumption ==
  /\ \A action \in DOMAIN Rules :
       Rules[action] # {} /\ Rules[action] \subseteq Capability
  /\ Triggers \in Seq([capability : SUBSET Capability,
                       combination : SUBSET SUBSET Capability,
                       predicate : SUBSET SUBSET Capability])
  /\ Grants \subseteq SUBSET Capability

ASSUME CardAssumption ==
  /\ \A c \in Cards :
       /\ DOMAIN c = {"form", "capabilities", "expires_at", "card_version",
                      "framework"}
       /\ DOMAIN c.capabilities \subseteq Capability
       /\ c.expires_at \in RawExpiry
  /\ \A p \in Profiles : p.max_ttl_hours \subseteq Nat

VARIABLES
  clock,      \* the wall clock
  card,       \* the card presented
  profile,    \* the profile it is admitted under
  admitted,   \* when it was, or Never
  call,       \* where the host is with its tool call
  request,    \* the escalation request made last
  done        \* what the last tool call exercised

hostVars == <<clock, card, profile, admitted, call, request, done>>
vars == <<hostVars, catalogVars, receiptVars>>

NoCall == [at |-> "idle"]
NoRequest == EscalationRequest(NoTrigger)
NothingDone == [caps |-> {}, approved |-> FALSE]

\* Tokens verified down to the card, as Delegation has them: they narrow
\* it and do not outlive it.
Tokens ==
  {[caps |-> caps,
    expires_at |-> IF card.expires_at \in {Never, Garbage} THEN MaxClock
                   ELSE card.expires_at] :
     caps \in {g \in Grants : ValidSubset(g, CapabilityIds(card))}}

\* The token a call is made on: none, or one.
Token == {{}} \cup {{t} : t \in Tokens}

CallState ==
  {NoCall}
    \cup [at : {"gated"}, id : ToolCall, action : DOMAIN Rules, token : Token]
    \cup [at : {"enforced", "cleared", "escalated"}, id : ToolCall,
          action : DOMAIN Rules, token : Token, enforced : 0 .. clock]

TypeOK ==
  /\ clock \in 0 .. MaxClock
  /\ card \in Cards /\ profile \in Profiles
  /\ admitted \in 0 .. clock \cup {Never}
  /\ call \in CallState
  /\ request \in [triggered_by : DOMAIN Triggers \cup {NoTrigger},
                  status : {"pending", "approved", "denied"},
                  resolved_by : SUBSET Operator]
  /\ done \in [caps : SUBSET Concrete, approved : BOOLEAN]
  /\ CatalogTypeOK
  /\ ReceiptsTypeOK

Init ==
  /\ clock = 0
  /\ card \in Cards /\ profile \in Profiles
  /\ admitted = Never
  /\ call = NoCall
  /\ request = NoRequest
  /\ done = NothingDone
  /\ CatalogInit
  /\ ReceiptsInit

\* A host in Python evaluates compliance with the one, a host in
\* TypeScript with the other.
Admit(given) ==
  /\ admitted = Never
  /\ {} \in {evaluate_compliance(card, profile, given, clock),
             evaluateCompliance(card, profile, given, clock)}
  /\ admitted' = clock
  /\ UNCHANGED <<clock, card, profile, call, request, done, catalogVars,
                 receiptVars>>

\* The gates, for an action the card's audit lists or for a delegate.
PassGates(id, action, tool, token) ==
  /\ call = NoCall /\ admitted # Never /\ receipts[id] = Null
  /\ run_gate_check(tool, local.state, Revoked, {TRUE : t \in token}, TRUE)
  /\ token # {} \/ action \in AnyOf \cup audit_card(card, Rules)
  /\ call' = [at |-> "gated", id |-> id, action |-> action, token |-> token]
  /\ UNCHANGED <<clock, card, profile, admitted, request, done, catalogVars,
                 receiptVars>>

Allowed(action, token) ==
  \/ token = {} /\ action \notin AnyOf /\ PolicyEnforce(card, Rules, action, clock)
  \/ token = {} /\ action \in AnyOf /\ enforce_any(card, Rules[action], clock)
  \/ \E t \in token : \A r \in Rules[action] : enforce_delegated(t, r, clock)

Enforce ==
  /\ call.at = "gated"
  /\ Allowed(call.action, call.token)
  /\ call' = [at |-> "enforced", id |-> call.id, action |-> call.action,
              token |-> call.token, enforced |-> clock]
  /\ UNCHANGED <<clock, card, profile, admitted, request, done, catalogVars,
                 receiptVars>>

\* In Python or in TypeScript.
Escalate ==
  /\ call.at = "enforced"
  /\ \E i \in {check_escalation(Triggers, Rules[call.action]),
             checkEscalation(Triggers, Rules[call.action])} :
       /\ request' = EscalationRequest(i)
       /\ call' = [call EXCEPT !.at = IF i = NoTrigger THEN "cleared" ELSE "escalated"]
  /\ UNCHANGED <<clock, card, profile, admitted, done, catalogVars, receiptVars>>

\* EscalationRequest.approve and deny, called at any time, in any order.
Resolve(status, by) ==
  /\ request # NoRequest
  /\ request' = Resolved(request, status, by)
  /\ UNCHANGED <<clock, card, profile, admitted, call, done, catalogVars,
                 receiptVars>>

Held(token) ==
  IF token = {} THEN CapabilityIds(card) ELSE UNION {t.caps : t \in token}

\* Everything the action's requirement may stand for and the agent holds.
Exercised ==
  {x \in Concrete : HasCapability(Rules[call.action], x)
                      /\ HasCapability(Held(call.token), x)}

Execute(status, key) ==
  /\ \/ call.at = "cleared"
     \/ call.at = "escalated" /\ request.status = "approved"
  /\ done' = [caps |-> Exercised, approved |-> call.at = "escalated"]
  /\ Created(call.id, status, key)
  /\ call' = NoCall
  /\ UNCHANGED <<clock, card, profile, admitted, request, catalogVars, posts,
                 sent, rows, v2, acked>>

\* Denied, timed out or given up.
Abandon ==
  /\ call # NoCall
  /\ call' = NoCall
  /\ UNCHANGED <<clock, card, profile, admitted, request, done, catalogVars,
                 receiptVars>>

Tick ==
  /\ clock < MaxClock
  /\ clock' = clock + 1
  /\ UNCHANGED <<card, profile, admitted, call, request, done, catalogVars,
                 receiptVars>>

Next ==
  \/ \E given \in Givens : Admit(given)
  \/ \E id \in ToolCall, action \in DOMAIN Rules, tool \in Tool :
       \E token \in Token : PassGates(id, action, tool, token)
  \/ Enforce \/ Escalate \/ Abandon \/ Tick
  \/ \E status \in {"approved", "denied"}, by \in Operator : Resolve(status, by)
  \/ \E status \in Outcomes, key \in {AgentKey, Null} : Execute(status, key)
  \/ CatalogStep /\ UNCHANGED <<hostVars, receiptVars>>
  \/ ReceiptStep /\ UNCHANGED <<hostVars, catalogVars>>

Spec == Init /\ [][Next]_vars

-----------------------------------------------------------------------------
(* enforce reads a card's expiry more strictly than verification does: at  *)
(* the expiry instant, and when it does not parse.  So no card passes an   *)
(* enforcement that verification, asked at that moment, would call expired.*)
EnforcedIsVerified ==
  \A action \in DOMAIN Rules :
    \/ PolicyEnforce(card, Rules, action, clock)
    \/ enforce_any(card, Rules[action], clock)
    => validate_expiry_for_verify(card.expires_at, clock).passed

(* What admission under a profile buys later, as time passes and the card  *)
(* is delegated from: no call exercises a capability the profile forbids   *)
(* (by its concrete id), and with require_expiry and a max_ttl_hours, no   *)
(* enforcement passes later than that long after the admission.            *)
ComplianceHolds ==
  /\ done.caps \cap profile.forbidden_capabilities = {}
  /\ \A h \in profile.max_ttl_hours :
       profile.require_expiry /\ call.at \notin {"idle", "gated"}
         => call.enforced <= admitted + h

(* No trigger is evaded by asking for a wildcard, by a wildcard in the     *)
(* trigger, or by holding the capability through a token: a call that      *)
(* exercised what a trigger names had been approved when it ran.           *)
NoTriggerEvaded ==
  \A i \in DOMAIN Triggers :
    LET Exercises(cap) == \E x \in done.caps : HasCapability({cap}, x) IN
    \/ \E cap \in Triggers[i].capability : Exercises(cap)
    \/ \E combination \in Triggers[i].combination :
         combination # {} /\ \A cap \in combination : Exercises(cap)
    => done.approved

(* The snapshot the gates read was served by ARIA after the last fetch     *)
(* that succeeded was made, 304 answers, unreadable bodies and failures    *)
(* between included: the gates are no staler than that fetch.              *)
GatesReadServed == local.state # NoCatalog => local.state \in fresh
=============================================================================
