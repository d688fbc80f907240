---------------------------- MODULE MCAccounts ----------------------------
(* Two accounts, not imported yet, and three operations of any kind, two at a   *)
(* time.                                                                        *)
EXTENDS Accounts, TLC

Symmetry == Permutations(Accounts) \cup Permutations(Slots)
=============================================================================
