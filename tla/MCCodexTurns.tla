--------------------------- MODULE MCCodexTurns ---------------------------
(* Two turns, three calls and a channel of two events: calls overlap, answers   *)
(* are late, events are dropped, and a request is answered from both sides.     *)
EXTENDS CodexTurns, TLC

Symmetry == Permutations(Clients)
=============================================================================
