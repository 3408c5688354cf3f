------------------------- MODULE MC_CallCoordinator -------------------------
(* Model values and symmetry for checking CallCoordinator with TLC.      *)
EXTENDS CallCoordinator, TLC

CONSTANTS u1, u2, i1, i2, i3

MCUsers == {u1, u2}
MCCallIds == {i1, i2, i3}

(* Users and ULIDs are interchangeable: no definition names one.         *)
MCSymmetry == Permutations(MCUsers) \cup Permutations(MCCallIds)

=============================================================================
