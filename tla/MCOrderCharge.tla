----------------------------- MODULE MCOrderCharge -----------------------------
EXTENDS OrderCharge, TLC

(* Tasks are interchangeable.                                              *)
Symmetry == Permutations(Tasks)
===============================================================================
