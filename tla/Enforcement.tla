---------------------------- MODULE Enforcement ----------------------------
(***************************************************************************)
(* The checks a host makes before it calls a tool: enforce, enforce_all,   *)
(* enforce_any and EnforcementPolicy on a card, enforce_delegated on a     *)
(* token.  An operator is TRUE when the call returns and FALSE when it     *)
(* raises.  A card's capabilities map an id to what stands for it in the   *)
(* dictionary form, "on" for every id of the list form.                    *)
(***************************************************************************)
EXTENDS Capabilities, Expiry

\* _extract_capability_ids
CapabilityIds(card) ==
  {id \in DOMAIN card.capabilities :
     card.capabilities[id] \notin {"false", "null"}}

\* Defect: the expiry of a card that is a dictionary is read as an attribute.
CardExpiredAttribute(card, now) ==
  /\ card.form = "object"
  /\ card.expires_at # Never
  /\ card.expires_at = Garbage \/ now >= card.expires_at

\* _check_expiry raises.
CardExpired(card, now) ==
  /\ card.expires_at # Never
  /\ card.expires_at = Garbage \/ now >= card.expires_at

has_capability(card, required) == HasCapability(CapabilityIds(card), required)

enforce(card, required, check, now) ==
  (check => ~CardExpired(card, now)) /\ has_capability(card, required)

enforce_all(card, required, now) ==
  /\ ~CardExpired(card, now)
  /\ \A r \in required : enforce(card, r, FALSE, now)

enforce_any(card, required, now) ==
  /\ ~CardExpired(card, now)
  /\ \E r \in required : has_capability(card, r)

\* EnforcementPolicy, rules being what each action requires
has_access(card, rules, action) ==
  /\ action \in DOMAIN rules
  /\ \A r \in rules[action] : has_capability(card, r)

audit_card(card, rules) ==
  {action \in DOMAIN rules : has_access(card, rules, action)}

PolicyEnforce(card, rules, action, now) ==
  action \in DOMAIN rules /\ enforce_all(card, rules[action], now)

enforce_delegated(token, required, now) ==
  ~is_expired(token.expires_at, now) /\ HasCapability(token.caps, required)
=============================================================================
