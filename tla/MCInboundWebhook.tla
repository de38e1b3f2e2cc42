---------------------------- MODULE MCInboundWebhook ----------------------------
(***************************************************************************)
(* An instance of InboundWebhook for TLC: the provider's calls carry two   *)
(* messages of one customer.                                               *)
(***************************************************************************)
EXTENDS InboundWebhook

CONSTANTS batch, m1, m2, ana

MCItems == [e \in Events |-> <<m1, m2>>]
MCFrom  == [m \in Messages |-> ana]
===============================================================================
