---------------------------- MODULE MCReplayGuard ----------------------------
(***************************************************************************)
(* Instances of ReplayGuard for TLC.  ab is a root delegation, bc and bd   *)
(* two re-delegations of it, long a root delegation that outlives them, so *)
(* that a call can purge their nonces while another still marks them.      *)
(***************************************************************************)
EXTENDS ReplayGuard, TLC

CONSTANTS ab, bc, bd, long, c1, c2, c3

MCCall == {c1, c2, c3}
MCToken == {ab, bc, bd, long}
MCExp == (ab :> 2) @@ (bc :> 1) @@ (bd :> 2) @@ (long :> 3)

\* Hosts verify whole chains, and root delegations by themselves.
WholeChains == { <<ab>>, <<ab, bc>>, <<ab, bd>>, <<long>> }

CallSymmetry == Permutations(MCCall)
=============================================================================
