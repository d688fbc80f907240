---------------------------- MODULE MCCodexEngine ----------------------------
(* Two engines, so that one can die while its successor is there; two starters, *)
(* one of which is held up; two sessions, which may be of one thread.            *)
EXTENDS CodexEngine

CONSTANTS c1, c2, o1, o2, t1, t2
=============================================================================
