----------------------------- MODULE EventDelivery -----------------------------
(***************************************************************************)
(* What the outbox promises about an operational event: once the business  *)
(* transaction has committed it, it stays open until either every endpoint *)
(* that was active all along has its delivery handed over, or it is given  *)
(* up.  Both ends are final.  A delivery may be handed over at any time,   *)
(* also by a worker that is late, and is never taken back.                 *)
(***************************************************************************)
CONSTANTS Events, Endpoints

VARIABLES
    fact,     \* the state of each event
    owed,     \* endpoints active ever since the event was committed
    handed    \* deliveries that have been handed over

vars == <<fact, owed, handed>>

Init ==
    /\ fact = [e \in Events |-> "none"]
    /\ owed = [e \in Events |-> {}]
    /\ handed = {}

Commit(e) ==
    /\ fact[e] = "none"
    /\ fact' = [fact EXCEPT ![e] = "open"]
    /\ \E eps \in SUBSET Endpoints : owed' = [owed EXCEPT ![e] = eps]
    /\ UNCHANGED handed

Deactivate(ep) ==
    /\ owed' = [e \in Events |-> owed[e] \ {ep}]
    /\ UNCHANGED <<fact, handed>>

HandOver(d) ==
    /\ handed' = handed \cup {d}
    /\ UNCHANGED <<fact, owed>>

Finish(e) ==
    /\ fact[e] = "open"
    /\ \A ep \in owed[e] : <<e, ep>> \in handed
    /\ fact' = [fact EXCEPT ![e] = "done"]
    /\ UNCHANGED <<owed, handed>>

GiveUp(e) ==
    /\ fact[e] = "open"
    /\ fact' = [fact EXCEPT ![e] = "given up"]
    /\ UNCHANGED <<owed, handed>>

Next ==
    \/ \E e \in Events : Commit(e) \/ Finish(e) \/ GiveUp(e)
    \/ \E ep \in Endpoints : Deactivate(ep)
    \/ \E d \in Events \X Endpoints : HandOver(d)

Spec == Init /\ [][Next]_vars
===============================================================================
