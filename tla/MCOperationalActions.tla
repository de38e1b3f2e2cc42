-------------------------- MODULE MCOperationalActions --------------------------
(* Symmetry for TLC: calls are interchangeable.                            *)
EXTENDS OperationalActions, TLC

Symmetry == Permutations(Calls)
===============================================================================
