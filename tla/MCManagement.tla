---------------------------- MODULE MCManagement ----------------------------
(***************************************************************************)
(* Small instances of Management for TLC: device a may run any executable   *)
(* and may be absent, device b runs x; the serving mode is one of Modes.    *)
(***************************************************************************)
EXTENDS Management

CONSTANTS a, b, x, y, z

AlpacaOnly == [alpaca |-> TRUE, indi |-> 0]
Both       == [alpaca |-> TRUE, indi |-> 1]

TwoModes == {AlpacaOnly, Both}

Draft(fa, ea, fb, m) ==
  [flag |-> [n \in Names |-> IF n = a THEN fa ELSE fb],
   exec |-> [n \in Names |-> IF n = a THEN ea ELSE x],
   mode |-> m]

\* Device a alone, with any executable: Build accepts x and z, x and y are found.
OneEdited == {Draft(fa, ea, "off", m) : fa \in {"off", "on"}, ea \in Execs, m \in Modes}

\* Devices a and b with the executable x, for the profiles.
ProfileDrafts ==
  {Draft(fa, x, fb, m) : fa \in {"off", "on"}, fb \in {"off", "on"}, m \in Modes}

=============================================================================
