----------------------------- MODULE MCPersonRisk -----------------------------
EXTENDS PersonRisk, TLC

(* Tasks are interchangeable.                                              *)
Symmetry == Permutations(Tasks)
===============================================================================
