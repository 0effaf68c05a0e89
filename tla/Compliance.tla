----------------------------- MODULE Compliance -----------------------------
(***************************************************************************)
(* evaluate_compliance: the rules of a profile that a card breaks.         *)
(*                                                                         *)
(* A rule that may be absent is a set: empty when the profile does not     *)
(* have it, else with the one value it has.  What the caller knows of the  *)
(* delegation it judges, and of the attestations, is in given.             *)
(***************************************************************************)
EXTENDS Enforcement

Rule ==
  {"required_capability", "forbidden_capability", "require_expiry",
   "card_expired", "max_ttl", "min_version", "require_attestation_from",
   "require_attestation_type", "max_delegation_depth", "delegation_ttl",
   "allowed_frameworks"}

\* Defect: only an expiry that has passed breaks the rule.
ExpiryMissingNever(card, now) == FALSE

ExpiryMissing(card, now) == check_expiry(card.expires_at, now) = "no_expiry"

TooLong(card, hours, now) ==
  LET exp == parse_expires_at(card.expires_at)
  IN  exp # Never /\ exp > now + hours

Broken(rule, card, profile, given, now) ==
  CASE rule = "required_capability" ->
         \E c \in profile.required_capabilities : ~has_capability(card, c)
    [] rule = "forbidden_capability" ->
         \E c \in profile.forbidden_capabilities : has_capability(card, c)
    [] rule = "require_expiry" ->
         profile.require_expiry /\ ExpiryMissing(card, now)
    [] rule = "card_expired" ->
         profile.require_expiry /\ is_expired(card.expires_at, now)
    [] rule = "max_ttl" -> \E h \in profile.max_ttl_hours : TooLong(card, h, now)
    [] rule = "min_version" ->
         \E v \in profile.min_version :
           card.card_version # Never /\ card.card_version < v
    [] rule = "require_attestation_from" ->
         \E id \in profile.require_attestation_from :
           \A a \in given.attestations : a.attester_id # id
    [] rule = "require_attestation_type" ->
         \E type \in profile.require_attestation_types :
           \A a \in given.attestations : a.type # type
    [] rule = "max_delegation_depth" ->
         \E most \in profile.max_delegation_depth, d \in given.depth : d > most
    [] rule = "delegation_ttl" ->
         \E most \in profile.require_delegation_ttl_hours, h \in given.ttl :
           h > most
    [] rule = "allowed_frameworks" ->
         \E allowed \in profile.allowed_frameworks, f \in card.framework :
           f \notin allowed

evaluate_compliance(card, profile, given, now) ==
  {rule \in Rule : Broken(rule, card, profile, given, now)}

\* The port reads a card_version that is null as 1.
evaluateCompliance(card, profile, given, now) ==
  LET numbered ==
        IF card.card_version = Never THEN [card EXCEPT !.card_version = 1]
        ELSE card
  IN  evaluate_compliance(numbered, profile, given, now)
=============================================================================
