------------------------------- MODULE Expiry -------------------------------
(***************************************************************************)
(* The expires_at of cards: made by make_expires_at, read by check_expiry, *)
(* judged by validate_expiry_for_verify.  Times are ticks of the wall      *)
(* clock.  A caller's absolute string is kept as it is, so that a card may *)
(* carry one that does not parse: Garbage.  Definitions with a name in     *)
(* TypeScript's case are the TypeScript port's.                            *)
(***************************************************************************)
EXTENDS Integers

CONSTANTS
  Never,             \* no expires_at
  Garbage,           \* an expires_at that does not parse
  WarningThreshold   \* how long before its end a card is "expiring soon"

ASSUME ExpiryAssumption ==
  /\ Never \notin Int /\ Garbage \notin Int /\ Never # Garbage
  /\ WarningThreshold \in Nat

RawExpiry == Nat \cup {Never, Garbage}

\* What a call may return: nothing when it raises.
make_expires_at(absolute, ttl, now) ==
  IF absolute # Never THEN {absolute}
  ELSE IF ttl = Never THEN {Never}
  ELSE {now + d : d \in {n \in {ttl} : n > 0}}

makeExpiresAt(absolute, ttl, now) ==
  IF absolute # Never THEN {absolute}
  ELSE IF ttl \in {Never, 0} THEN {Never}
  ELSE {now + d : d \in {n \in {ttl} : n > 0}}

parse_expires_at(raw) == IF raw = Garbage THEN Never ELSE raw

check_expiry(raw, now) ==
  LET exp == parse_expires_at(raw) IN
  CASE exp = Never -> "no_expiry"
    [] exp # Never /\ now > exp -> "expired"
    [] exp # Never /\ now <= exp /\ now > exp - WarningThreshold ->
         "expiring_soon"
    [] OTHER -> "valid"

is_expired(raw, now) == check_expiry(raw, now) = "expired"

time_remaining(raw, now) ==
  LET exp == parse_expires_at(raw)
  IN  IF exp = Never THEN Never ELSE exp - now

validate_expiry_for_verify(raw, now) ==
  LET status == check_expiry(raw, now) IN
  [passed |-> status # "expired",
   status |-> status,
   remaining |-> IF status = "expiring_soon" THEN time_remaining(raw, now)
                                             ELSE Never]
=============================================================================
