------------------------------- MODULE MCOutbox -------------------------------
EXTENDS Outbox, TLC

(* Runs and replay requests are interchangeable.                           *)
Symmetry == Permutations(Runs) \cup Permutations(Replays)
===============================================================================
