--------------------------- MODULE MC_RpcSession ---------------------------
(* Model-checking instances of RpcSession.                                *)
EXTENDS RpcSession, TLC

CONSTANTS c1, c2, u1, u2

MCOneConn == {c1}
MCUsers == {u1, u2}
=============================================================================
