----------------------------- MODULE Escalation -----------------------------
(***************************************************************************)
(* Escalation policies: which of its triggers a request touches, and the   *)
(* request for approval the first of them makes.  A trigger has at most    *)
(* one capability, at most one combination of capabilities, and the sets   *)
(* of requested capabilities its predicate says yes to.                    *)
(***************************************************************************)
EXTENDS Capabilities

\* Defect: a wildcard in the request is not looked for.
TouchesOneWay(req, cap) == Covers(cap, req)

Touches(req, cap) == Covers(cap, req) \/ Covers(req, cap)

AllTouched(requested, combination) ==
  \A cap \in combination : \E req \in requested : Touches(req, cap)

matches(trigger, requested) ==
  \/ \E cap \in trigger.capability, req \in requested : Touches(req, cap)
  \/ \E combination \in trigger.combination :
       combination # {} /\ AllTouched(requested, combination)
  \/ requested \in trigger.predicate

\* In the port a combination that is there and empty matches any request.
triggerMatches(trigger, requested) ==
  \/ \E cap \in trigger.capability, req \in requested : Touches(req, cap)
  \/ \E combination \in trigger.combination : AllTouched(requested, combination)
  \/ requested \in trigger.predicate

check_all_escalations(triggers, requested) ==
  {i \in DOMAIN triggers : matches(triggers[i], requested)}

checkAllEscalations(triggers, requested) ==
  {i \in DOMAIN triggers : triggerMatches(triggers[i], requested)}

NoTrigger == 0

First(matching) ==
  IF matching = {} THEN NoTrigger
  ELSE CHOOSE i \in matching : \A j \in matching : i <= j

\* The position of the first trigger that matches.
check_escalation(triggers, requested) ==
  First(check_all_escalations(triggers, requested))

checkEscalation(triggers, requested) ==
  First(checkAllEscalations(triggers, requested))

EscalationRequest(i) ==
  [triggered_by |-> i, status |-> "pending", resolved_by |-> {}]

\* Defect: the two arguments change places.
ResolvedSwapped(request, status, by) ==
  [request EXCEPT !.status = by, !.resolved_by = {status}]

\* approve and deny overwrite whatever was decided before.
Resolved(request, status, by) ==
  [request EXCEPT !.status = status, !.resolved_by = {by}]
=============================================================================
