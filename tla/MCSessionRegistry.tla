-------------------------- MODULE MCSessionRegistry --------------------------
(* Two sessions, one of which may be in the table already, and enough callers   *)
(* and objects for a revival with a waiter to meet a close or a second revival. *)
EXTENDS SessionRegistry

CONSTANTS p1, p2, p3, s1, s2, o1, o2, o3
=============================================================================
