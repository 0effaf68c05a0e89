------------------------------ MODULE Evidence ------------------------------
(***************************************************************************)
(* What receipts promise of tool calls: a call is put on record at most    *)
(* once, however often it is reported, and one whose report was            *)
(* acknowledged is on record for good.                                     *)
(***************************************************************************)
EXTENDS Naturals

CONSTANT Call

VARIABLES
  records,       \* how many records of each call there are
  acknowledged   \* the calls whose report was acknowledged

vars == <<records, acknowledged>>

Init ==
  /\ records = [c \in Call |-> 0]
  /\ acknowledged = {}

\* A report that arrives; the reporter may get to know that it did.
Report(c, answered) ==
  /\ records' = [records EXCEPT ![c] = 1]
  /\ acknowledged' = IF answered THEN acknowledged \cup {c} ELSE acknowledged

Next == \E c \in Call, answered \in BOOLEAN : Report(c, answered)

Spec == Init /\ [][Next]_vars
=============================================================================
