-------------------------- MODULE MCWhatsAppDispatch --------------------------
(* Instances of WhatsAppDispatch for TLC.                                  *)
EXTENDS WhatsAppDispatch, TLC

(* Attempts and request slots are interchangeable; messages are ordered.   *)
Symmetry == Permutations(Attempts) \cup Permutations(Requests)
===============================================================================
