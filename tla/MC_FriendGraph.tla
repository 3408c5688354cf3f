--------------------------- MODULE MC_FriendGraph ---------------------------
(* FriendGraph for TLC: users are model values.                           *)
EXTENDS FriendGraph, TLC

CONSTANTS u1, u2, u3

MCUsers == {u1, u2, u3}
MCSymmetry == Permutations(MCUsers)
=============================================================================
