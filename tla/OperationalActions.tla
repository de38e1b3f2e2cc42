--------------------------- MODULE OperationalActions ---------------------------
(***************************************************************************)
(* Actions an administrator requests on the dashboard and has executed     *)
(* (operational-actions.service.ts): a row for each request, executed,     *)
(* canceled or, when its execution hangs, recovered by hand, over several  *)
(* HTTP calls that may overlap.                                            *)
(*                                                                         *)
(* The rows are those of one organisation and one logical key, which is    *)
(* what every statement but recovery selects by; they are numbered in the  *)
(* order of createdAt.  Left out: what the four kinds of action do         *)
(* (WhatsAppDispatch and PersonRisk have two of them), the timeline events *)
(* and the diagnostics.                                                    *)
(***************************************************************************)
EXTENDS Naturals

CONSTANTS
    Executions,     \* OperationalActionExecution rows
    Calls,          \* HTTP calls in progress at the same time
    None

ASSUME ActionsAssumption ==
    /\ Executions \subseteq Nat
    /\ None \notin Executions

VARIABLES
    row,      \* the rows
    call,     \* request, execute and cancel between their statements
    begun,    \* how often the action of a row was called (history)
    done      \* rows whose action took effect (history)

vars == <<row, call, begun, done>>

Statuses == {"ABSENT", "REQUESTED", "EXECUTING", "EXECUTED", "FAILED", "CANCELED"}
Row == [status : Statuses, stuck : BOOLEAN]
Call == [phase : {"idle", "create", "reserve", "act", "note", "log", "fail", "cancel"},
         of : Executions \cup {None}]

Idle == [phase |-> "idle", of |-> None]

Init ==
    /\ row = [x \in Executions |-> [status |-> "ABSENT", stuck |-> FALSE]]
    /\ call = [c \in Calls |-> Idle]
    /\ begun = [x \in Executions |-> 0]
    /\ done = {}


(* Mutation: updatedAt is not refreshed.                                   *)
BecomesStale(x, status) == row' = [row EXCEPT ![x].status = status]

(* Every write of a row renews updatedAt.                                  *)
Becomes(x, status) == row' = [row EXCEPT ![x] = [status |-> status, stuck |-> FALSE]]

Goes(c, phase) == call' = [call EXCEPT ![c].phase = phase]
Ends(c) == call' = [call EXCEPT ![c] = Idle]

Requested(x) == row[x].status = "REQUESTED"

(* findExecution: the row created last.                                    *)
Latest(x) ==
    /\ row[x].status # "ABSENT"
    /\ \A y \in Executions : y > x => row[y].status = "ABSENT"

-------------------------------------------------------------------------------
(* request: unless a row is REQUESTED already, which is then the answer.   *)
RequestRead(c) ==
    /\ call[c].phase = "idle"
    /\ \A x \in Executions : ~ Requested(x)
    /\ Goes(c, "create")
    /\ UNCHANGED <<row, begun, done>>

(* Mutation: the partial unique index is missing.                          *)
InsertableAlways == TRUE

(* OperationalActionExecution_unique_requested_per_key.                    *)
Insertable == \A x \in Executions : ~ Requested(x)

RequestCreate(c) ==
    /\ call[c].phase = "create"
    /\ \/ /\ Insertable
          /\ \E x \in Executions :
                /\ \A y \in Executions : row[y].status = "ABSENT" <=> y >= x
                /\ Becomes(x, "REQUESTED")
       \/ ~ Insertable /\ UNCHANGED row
    /\ Ends(c)
    /\ UNCHANGED <<begun, done>>

-------------------------------------------------------------------------------
(* execute and cancel look for the latest row and refuse what is not       *)
(* REQUESTED.                                                              *)
ExecuteRead(c) ==
    /\ call[c].phase = "idle"
    /\ \E x \in Executions :
          /\ Latest(x) /\ Requested(x)
          /\ call' = [call EXCEPT ![c] = [phase |-> "reserve", of |-> x]]
    /\ UNCHANGED <<row, begun, done>>

CancelRead(c) ==
    /\ call[c].phase = "idle"
    /\ \E x \in Executions :
          /\ Latest(x) /\ Requested(x)
          /\ call' = [call EXCEPT ![c] = [phase |-> "cancel", of |-> x]]
    /\ UNCHANGED <<row, begun, done>>

(* Mutation: the reservation forgets that others may have moved the row.   *)
ReservableById(x) == row[x].status # "ABSENT"

Reservable(x) == Requested(x)

(* updateMany ... status: 'REQUESTED'; a call that loses gets a conflict.  *)
Reserve(c) ==
    /\ call[c].phase = "reserve"
    /\ \/ Reservable(call[c].of) /\ Becomes(call[c].of, "EXECUTING") /\ Goes(c, "act")
       \/ ~ Reservable(call[c].of) /\ Ends(c) /\ UNCHANGED row
    /\ UNCHANGED <<begun, done>>

Cancel(c) ==
    /\ call[c].phase = "cancel"
    /\ \/ Requested(call[c].of) /\ Becomes(call[c].of, "CANCELED")
       \/ ~ Requested(call[c].of) /\ UNCHANGED row
    /\ Ends(c)
    /\ UNCHANGED <<begun, done>>

(* Mutation: an action that throws is noted as executed.                   *)
AfterActSwallowed(applied) == {"note", "fail"}

(* The action may be refused, and it may throw after it took effect.       *)
AfterAct(applied) == IF applied THEN {"note", "fail"} ELSE {"fail"}

(* The call of the action, however long it takes.                          *)
Act(c) ==
    /\ call[c].phase = "act"
    /\ begun' = [begun EXCEPT ![call[c].of] = @ + 1]
    /\ \E applied \in BOOLEAN :
          /\ done' = IF applied THEN done \cup {call[c].of} ELSE done
          /\ \E phase \in AfterAct(applied) : Goes(c, phase)
    /\ UNCHANGED row

(* EXECUTED, by id: whatever the row has become meanwhile.  The write, or  *)
(* its answer, may be lost.                                                *)
NoteExecuted(c) ==
    /\ call[c].phase = "note"
    /\ \/ Becomes(call[c].of, "EXECUTED") /\ (Goes(c, "log") \/ Goes(c, "fail"))
       \/ UNCHANGED row /\ Goes(c, "fail")
    /\ UNCHANGED <<begun, done>>

(* The timeline event is written inside the try.                           *)
LogExecuted(c) ==
    /\ call[c].phase = "log"
    /\ Ends(c) \/ Goes(c, "fail")
    /\ UNCHANGED <<row, begun, done>>

(* The catch: FAILED, by id.                                               *)
NoteFailed(c) ==
    /\ call[c].phase = "fail"
    /\ Becomes(call[c].of, "FAILED") \/ UNCHANGED row
    /\ Ends(c)
    /\ UNCHANGED <<begun, done>>

(* The process stops, or a statement outside the try throws.               *)
Abandon(c) ==
    /\ call[c].phase # "idle"
    /\ Ends(c)
    /\ UNCHANGED <<row, begun, done>>

-------------------------------------------------------------------------------
(* updatedAt gets older than STUCK_EXECUTING_THRESHOLD_MS.                 *)
Age(x) ==
    /\ row[x].status = "EXECUTING" /\ ~ row[x].stuck
    /\ row' = [row EXCEPT ![x].stuck = TRUE]
    /\ UNCHANGED <<call, begun, done>>

(* recoverStuckExecution: its read checks what its updateMany checks.      *)
Recover(x) ==
    /\ row[x].status = "EXECUTING" /\ row[x].stuck
    /\ Becomes(x, "FAILED")
    /\ UNCHANGED <<call, begun, done>>

-------------------------------------------------------------------------------
CallStep(c) ==
    \/ RequestRead(c)
    \/ RequestCreate(c)
    \/ ExecuteRead(c)
    \/ CancelRead(c)
    \/ Reserve(c)
    \/ Cancel(c)
    \/ Act(c)
    \/ NoteExecuted(c)
    \/ LogExecuted(c)
    \/ NoteFailed(c)
    \/ Abandon(c)

Next ==
    \/ \E c \in Calls : CallStep(c)
    \/ \E x \in Executions : Age(x) \/ Recover(x)

Spec == Init /\ [][Next]_vars

-------------------------------------------------------------------------------
TypeOK ==
    /\ row \in [Executions -> Row]
    /\ call \in [Calls -> Call]
    /\ begun \in [Executions -> Nat]
    /\ done \subseteq Executions
    /\ \A x \in Executions : row[x].stuck => row[x].status = "EXECUTING"

(* "execute duplicado não chama ação real duas vezes"                      *)
(* (operational-actions.service.spec.ts:20), and recovery "não reexecuta   *)
(* ação assistida" (docs/operational-actions-rollout.md:210): the action   *)
(* of a request is called once at most, whatever executes, cancels, hangs  *)
(* or is recovered at the same time, and never once it is canceled.        *)
CarriedOnce ==
    \A x \in Executions : /\ begun[x] <= 1
                          /\ row[x].status = "CANCELED" => begun[x] = 0

(* EXECUTED can be believed: the action of that very row took effect, also *)
(* when the row had been recovered as FAILED in between.                   *)
ExecutedIsDone == \A x \in Executions : row[x].status = "EXECUTED" => x \in done

(* A request that stands can be reached: execute and cancel look at the    *)
(* latest row alone, and request answers with the standing one, so one     *)
(* hidden behind a newer row would block its key for ever.                 *)
StandsInFront == \A x \in Executions : Requested(x) => Latest(x)

(* A row as the request it stands for.                                     *)
State(x) ==
    IF row[x].status = "ABSENT" THEN "none"
    ELSE IF Requested(x) THEN "standing"
    ELSE IF row[x].status = "CANCELED" THEN "withdrawn"
    ELSE "taken"

Actions == INSTANCE ActionRequests WITH
    Requests <- Executions,
    state    <- [x \in Executions |-> State(x)],
    calls    <- begun,
    effect   <- done,
    shown    <- {x \in Executions : row[x].status = "EXECUTED"}

(* All of this together implements what is promised about a request: it is *)
(* taken up by one call or withdrawn, its action is called once at most,   *)
(* and whatever hangs, is recovered or comes late, EXECUTED is true.       *)
ActionsSpec == Actions!Spec
===============================================================================
