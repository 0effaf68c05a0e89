---------------------------- MODULE MCDelegation ----------------------------
(***************************************************************************)
(* Instances of Interop for TLC: an orchestrator whose card declares a     *)
(* wildcard, a worker and a helper with one concrete capability each.      *)
(***************************************************************************)
EXTENDS Interop, TLC

CONSTANTS orchestrator, worker, helper

MCCard == {orchestrator, worker, helper}
TwoCards == {orchestrator, worker}
WithEndlessCard == {orchestrator, helper}
MCSegment == {"carapace", "read", "email", "files", "*"}

AnyAction == <<"carapace", "*">>
AnyRead == <<"carapace", "read", "*">>
ReadEmail == <<"carapace", "read", "email">>
ReadFiles == <<"carapace", "read", "files">>

MCCardCaps ==
  [c \in Card |-> CASE c = orchestrator -> {AnyAction}
                    [] OTHER -> {ReadEmail}]

\* The orchestrator's card outlives the worker's; the helper's has no expiry.
MCCardExp ==
  [c \in Card |-> CASE c = orchestrator -> 2
                    [] c = worker -> 1
                    [] OTHER -> Never]

ShortLived ==
  [c \in Card |-> IF c = orchestrator THEN 1 ELSE 0]

WideOrNarrow == { {AnyRead}, {ReadEmail} }
\* The port alone lets carapace:read:* answer for AnyFiles.
AnyFiles == <<"carapace", "read", "files", "*">>
TwoRequirements == {ReadFiles, AnyFiles}

NoneGiven == {}
\* An expires_at beyond what the orchestrator may grant.
LongGiven == {3}
\* One before the orchestrator's card ends.
ShortGiven == {0}
DepthsAsked == {4}
TTLsAsked == {1}
AlwaysSigned == {TRUE}

\* No action reads the answer and each sets it: what follows a call's answer
\* is what could have happened instead of the call.
NothingAnswered == answer = NoAnswer

\* The worker runs v0.3, or everyone the present SDK.
WorkerIsLegacy == {worker}
NoLegacy == {}
=============================================================================
