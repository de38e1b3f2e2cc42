------------------------------ MODULE SendLedger ------------------------------
(***************************************************************************)
(* What outbound WhatsApp delivery promises to the people who use it: the  *)
(* provider never accepts a message more often than somebody asked for it. *)
(*                                                                         *)
(* A message holds at most one permit to be sent.  A permit is granted by  *)
(* whoever enqueues the message, or by an operator who puts it back in the *)
(* queue; a dispatcher spends it by starting a send.  A send in flight     *)
(* ends in a copy accepted by the provider, in an explicit rejection that  *)
(* gives the permit back, or in nothing that anybody may act upon.         *)
(***************************************************************************)
EXTENDS Naturals

CONSTANT Messages

VARIABLES granted,   \* permits ever granted to a message
          permit,    \* 1 while the message holds a permit nobody spent
          inFlight,  \* sends started that the provider may still accept
          copies     \* copies the provider has accepted

vars == <<granted, permit, inFlight, copies>>

Init ==
    /\ granted  = [m \in Messages |-> 0]
    /\ permit   = [m \in Messages |-> 0]
    /\ inFlight = [m \in Messages |-> 0]
    /\ copies   = [m \in Messages |-> 0]

Grant(m) ==
    /\ granted' = [granted EXCEPT ![m] = @ + 1]
    /\ permit'  = [permit EXCEPT ![m] = 1]
    /\ UNCHANGED <<inFlight, copies>>

Revoke(m) ==
    /\ permit[m] = 1
    /\ permit' = [permit EXCEPT ![m] = 0]
    /\ UNCHANGED <<granted, inFlight, copies>>

Start(m) ==
    /\ permit[m] = 1
    /\ permit'   = [permit EXCEPT ![m] = 0]
    /\ inFlight' = [inFlight EXCEPT ![m] = @ + 1]
    /\ UNCHANGED <<granted, copies>>

Accept(m) ==
    /\ inFlight[m] > 0
    /\ inFlight' = [inFlight EXCEPT ![m] = @ - 1]
    /\ copies'   = [copies EXCEPT ![m] = @ + 1]
    /\ UNCHANGED <<granted, permit>>

GiveBack(m) ==
    /\ inFlight[m] > 0
    /\ permit[m] = 0
    /\ inFlight' = [inFlight EXCEPT ![m] = @ - 1]
    /\ permit'   = [permit EXCEPT ![m] = 1]
    /\ UNCHANGED <<granted, copies>>

Drop(m) ==
    /\ inFlight[m] > 0
    /\ inFlight' = [inFlight EXCEPT ![m] = @ - 1]
    /\ UNCHANGED <<granted, permit, copies>>

Next ==
    \E m \in Messages :
        Grant(m) \/ Revoke(m) \/ Start(m) \/ Accept(m) \/ GiveBack(m) \/ Drop(m)

Spec == Init /\ [][Next]_vars

(* Copies never outnumber the permits; the sum is what makes it inductive. *)
Accounted ==
    \A m \in Messages : copies[m] + inFlight[m] + permit[m] <= granted[m]
===============================================================================
