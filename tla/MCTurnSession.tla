---------------------------- MODULE MCTurnSession ----------------------------
(* A channel of one event and processes of one line: emit, task.done and Close *)
(* all get to wait for the pump, and three turns follow one another.            *)
EXTENDS TurnSession
=============================================================================
