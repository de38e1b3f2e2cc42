----------------------------- MODULE ChargeLedger -----------------------------
(***************************************************************************)
(* What charges promise to those who owe them and to those who keep the    *)
(* books: money is booked and announced in one step, on a charge that is   *)
(* open, and what is paid or canceled is settled for good.                 *)
(***************************************************************************)
EXTENDS Sequences

CONSTANTS Charges, Amounts

VARIABLES state,   \* of each charge: "open", "PAID" or "CANCELED"
          booked,  \* the amounts booked on it
          told     \* charges whose payment has been announced

vars == <<state, booked, told>>

Init ==
    /\ state = [c \in Charges |-> "open"]
    /\ booked = [c \in Charges |-> <<>>]
    /\ told = {}

Pay(c) ==
    /\ state[c] = "open"
    /\ state' = [state EXCEPT ![c] = "PAID"]
    /\ \E a \in Amounts : booked' = [booked EXCEPT ![c] = <<a>>]
    /\ told' = told \cup {c}

Cancel(c) ==
    /\ state[c] = "open"
    /\ state' = [state EXCEPT ![c] = "CANCELED"]
    /\ UNCHANGED <<booked, told>>

Next == \E c \in Charges : Pay(c) \/ Cancel(c)

Spec == Init /\ [][Next]_vars
===============================================================================
