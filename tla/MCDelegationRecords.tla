------------------------ MODULE MCDelegationRecords ------------------------
(***************************************************************************)
(* Instances of DelegationRecords for TLC: an orchestrator that declares a *)
(* wildcard and a worker that declares what it may be given.               *)
(***************************************************************************)
EXTENDS DelegationRecords, TLC

CONSTANTS orchestrator, worker, c1, v1

MCSegment == {"carapace", "read", "email", "*"}
AnyRead == <<"carapace", "read", "*">>
ReadEmail == <<"carapace", "read", "email">>

MCCard == {orchestrator, worker}
MCCardCaps ==
  [c \in Card |-> IF c = orchestrator THEN {AnyRead} ELSE {AnyRead, ReadEmail}]
MCCardExp == [c \in Card |-> 1]

Offer(from, to, caps, exp, depth) ==
  [delegator |-> from, delegate |-> to, caps |-> caps, exp |-> exp,
   depth |-> depth]

\* A delegation, and re-delegations of it that narrow, outlive or widen it.
MCRequests ==
  { Offer(orchestrator, worker, {AnyRead}, 1, 2),
    Offer(worker, orchestrator, {ReadEmail}, 0, 0),
    Offer(worker, orchestrator, {ReadEmail}, 2, 0),
    Offer(worker, worker, {AnyRead}, 1, 1) }

OneCreate == {c1}
OneRevoke == {v1}
=============================================================================
