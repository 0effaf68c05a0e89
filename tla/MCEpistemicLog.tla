--------------------------- MODULE MCEpistemicLog ---------------------------
(***************************************************************************)
(* Instances of EpistemicLog for TLC: two decisions, so that a log with    *)
(* entries exchanged differs from the one recorded.                        *)
(***************************************************************************)
EXTENDS EpistemicLog

CONSTANTS approve, refuse

MCDecision == {approve, refuse}
EitherWay == {Given, Unset}
=============================================================================
