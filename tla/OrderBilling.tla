----------------------------- MODULE OrderBilling -----------------------------
(***************************************************************************)
(* What service orders promise to whoever bills for them: an order is done *)
(* once, at a price that stands from then on, it is announced in that very *)
(* step or not at all, and only an order that is done is billed.           *)
(***************************************************************************)
EXTENDS Naturals, Sequences

CONSTANTS Orders, Amounts, None

VARIABLES price,   \* of each order: None until it is done
          told,    \* how often the completion of each order was announced
          bills    \* amounts billed for each order

vars == <<price, told, bills>>

Init ==
    /\ price = [o \in Orders |-> None]
    /\ told = [o \in Orders |-> 0]
    /\ bills = [o \in Orders |-> <<>>]

Finish(o) ==
    /\ price[o] = None
    /\ \E a \in Amounts : price' = [price EXCEPT ![o] = a]
    /\ told' = [told EXCEPT ![o] = @ + 1] \/ UNCHANGED told
    /\ UNCHANGED bills

Bill(o) ==
    /\ price[o] # None
    /\ \E a \in Amounts : bills' = [bills EXCEPT ![o] = Append(@, a)]
    /\ UNCHANGED <<price, told>>

Next == \E o \in Orders : Finish(o) \/ Bill(o)

Spec == Init /\ [][Next]_vars
===============================================================================
