---------------------------- MODULE MCChargePayment ----------------------------
EXTENDS ChargePayment, TLC

(* Charges, requests, editors and client keys are interchangeable.         *)
Symmetry == Permutations(Charges) \cup Permutations(Requests) \cup Permutations(Editors)
            \cup Permutations(ClientKeys)
===============================================================================
