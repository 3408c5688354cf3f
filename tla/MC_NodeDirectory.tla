-------------------------- MODULE MC_NodeDirectory --------------------------
(* NodeDirectory for TLC: media nodes are model values; time is counted   *)
(* in ticks of 100 ms, fine enough for the 100 ms margin between the      *)
(* sweeper's 1000 ms sleep and the 1100 ms deadline.                      *)
EXTENDS NodeDirectory, TLC

CONSTANTS n1, n2

MCNodes == {n1, n2}
MCOneNode == {n1}
MCSymmetry == Permutations(MCNodes)
=============================================================================
