---------------------------- MODULE MCSessionLog ----------------------------
(* A session small enough for TLC: one client (subscribers do not touch one    *)
(* another), a channel of one event beyond its replay and a ring of two, so    *)
(* that replay, overflow, trim and reuse of a seq all happen in four events.   *)
EXTENDS SessionLog

CONSTANT c1
=============================================================================
