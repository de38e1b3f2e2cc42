----------------------------- MODULE ActionRequests -----------------------------
(***************************************************************************)
(* What operational actions promise to whoever requests them: one request  *)
(* stands at a time, behind all earlier ones; it is withdrawn or taken up, *)
(* and then for good; once it is taken up its action is called at most     *)
(* once, and it is shown as executed only if that took effect.             *)
(***************************************************************************)
EXTENDS Naturals

CONSTANT Requests   \* numbered in the order they are made

VARIABLES state,    \* of each request: "none", "standing", "withdrawn" or "taken"
          calls,    \* how often the action of each request was called
          effect,   \* requests whose action took effect
          shown     \* requests that are shown as executed

vars == <<state, calls, effect, shown>>

Init ==
    /\ state = [x \in Requests |-> "none"]
    /\ calls = [x \in Requests |-> 0]
    /\ effect = {}
    /\ shown = {}

Make(x) ==
    /\ \A y \in Requests : state[y] # "standing" /\ (state[y] = "none" <=> y >= x)
    /\ state' = [state EXCEPT ![x] = "standing"]
    /\ UNCHANGED <<calls, effect, shown>>

Decide(x) ==
    /\ state[x] = "standing"
    /\ \E outcome \in {"withdrawn", "taken"} : state' = [state EXCEPT ![x] = outcome]
    /\ UNCHANGED <<calls, effect, shown>>

Carry(x) ==
    /\ state[x] = "taken" /\ calls[x] = 0
    /\ calls' = [calls EXCEPT ![x] = 1]
    /\ effect' \in {effect, effect \cup {x}}
    /\ UNCHANGED <<state, shown>>

Show(x) ==
    /\ x \in effect
    /\ shown' = shown \cup {x}
    /\ UNCHANGED <<state, calls, effect>>

(* What was shown may be noted as a failure after all.                     *)
Retract(x) ==
    /\ shown' = shown \ {x}
    /\ UNCHANGED <<state, calls, effect>>

Next == \E x \in Requests : Make(x) \/ Decide(x) \/ Carry(x) \/ Show(x) \/ Retract(x)

Spec == Init /\ [][Next]_vars
===============================================================================
