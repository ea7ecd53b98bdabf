---------------------------- MODULE MCSupervisor ----------------------------
(***************************************************************************)
(* Small instances of Supervisor for TLC.                                   *)
(***************************************************************************)
EXTENDS Supervisor, TLC

\* The slots for nudge goroutines are interchangeable.
NudgerSymmetry == Permutations(Nudgers)

=============================================================================
