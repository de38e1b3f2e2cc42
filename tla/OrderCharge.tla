------------------------------- MODULE OrderCharge -------------------------------
(***************************************************************************)
(* From a service order to its charge (service-orders.service.ts,          *)
(* execution.service.ts, execution.runner.ts, finance.service.ts).  HTTP   *)
(* requests change an order, bring it to DONE or ask for its charge; the   *)
(* execution runner charges what the requests have left uncharged.  All of *)
(* them end in ensureChargeForServiceOrderDone, which is guarded by an     *)
(* idempotency key but by no unique index.                                 *)
(*                                                                         *)
(* Left out: titles, people, schedules and notes of orders, the other      *)
(* seven actions of the runner, the gates it passes before it counts       *)
(* failures and before it reserves (mode, policy, context, governance,     *)
(* plan, rate limit: a closed gate is a candidate it does not consider),   *)
(* its local cooldown, what follows the charge (automation, messages,      *)
(* audit; their failure is RequestError), and charges entered by hand,     *)
(* which look for no other: what is said of the charges of an order is     *)
(* said of those that ensureChargeForServiceOrderDone makes.  The mode of  *)
(* execution does not change: it is part of the key of the throttle.       *)
(***************************************************************************)
EXTENDS Naturals, Sequences, FiniteSets

CONSTANTS
    Orders,
    Amounts,       \* amountCents; 0 is an order without amount
    Tasks,         \* HTTP requests and cycles of the runner at the same time
    MaxRetries,    \* policy.maxRetries
    MaxEvents,     \* bound: execution events of an order in the throttle window
    MaxFaults,     \* bound: errors and crashes
    None

ASSUME OrderAssumption ==
    /\ Amounts \subseteq Nat
    /\ None \notin Amounts
    /\ IsFiniteSet(Tasks)
    /\ MaxRetries \in Nat \ {0}
    /\ MaxFaults \in Nat

(* The key of ensureChargeForServiceOrderDone: order, amount and whether   *)
(* there is a due date in it.  The payload is the same.                    *)
ChargeKeys == Orders \X Amounts \X BOOLEAN

(* The payload of mark_done: order and amount (the transition is always    *)
(* IN_PROGRESS -> DONE); its key is made of the order.                     *)
DonePayloads == Orders \X Amounts

VARIABLES
    order,       \* the ServiceOrder rows
    charges,     \* amounts of the Charge rows of each order
    completed,   \* SERVICE_ORDER_COMPLETED events in the outbox, per order
    chargeKey,   \* IdempotencyRecord rows, scope ensure_charge_for_service_order_done
    doneKey,     \* IdempotencyRecord rows, scope service_orders.mark_done
    window,      \* execution events of each order in the throttle window, oldest first
    task,
    faults

vars == <<order, charges, completed, chargeKey, doneKey, window, task, faults>>

ChargeKey == INSTANCE Idempotency WITH Keys <- ChargeKeys, Payloads <- ChargeKeys,
                                       record <- chargeKey
DoneKey   == INSTANCE Idempotency WITH Keys <- Orders, Payloads <- DonePayloads,
                                       record <- doneKey

Active   == {"OPEN", "ASSIGNED", "IN_PROGRESS"}
Statuses == Active \cup {"DONE", "CANCELED"}

Order == [status : Statuses, amount : Amounts, due : BOOLEAN]

(* "undated" is a change to DONE without expectedUpdatedAt.                *)
Operations == {"none", "edit", "done", "undated", "start", "complete", "generate", "run"}

Phases == {"idle", "read", "begin", "reclaim", "write", "finish", "failing", "reserve",
           "charge", "charge reclaim", "look", "create", "created", "charge failing"}

Task == [op : Operations, phase : Phases, of : Orders \cup {None},
         to : Statuses, amount : Amounts \cup {None}, due : BOOLEAN,
         fresh : BOOLEAN]    \* expectedUpdatedAt is the updatedAt of the row

IdleTask == [op |-> "none", phase |-> "idle", of |-> None, to |-> "OPEN", amount |-> None,
             due |-> FALSE, fresh |-> FALSE]

Events == {"started", "executed", "failed", "throttled"}

TypeOK ==
    /\ order \in [Orders -> Order]
    /\ charges \in [Orders -> Seq(Amounts)]
    /\ completed \in [Orders -> Nat]
    /\ ChargeKey!IdempotencyTypeOK
    /\ DoneKey!IdempotencyTypeOK
    /\ window \in [Orders -> Seq(Events)]
    /\ task \in [Tasks -> Task]
    /\ faults \in 0..MaxFaults

Init ==
    /\ order \in [Orders -> {[status |-> "OPEN", amount |-> a, due |-> d] :
                                a \in Amounts, d \in BOOLEAN}]
    /\ charges = [o \in Orders |-> <<>>]
    /\ completed = [o \in Orders |-> 0]
    /\ ChargeKey!IdempotencyInit
    /\ DoneKey!IdempotencyInit
    /\ window = [o \in Orders |-> <<>>]
    /\ task = [t \in Tasks |-> IdleTask]
    /\ faults = 0

keyVars == <<chargeKey, doneKey>>

Goes(t, phase) == task' = [task EXCEPT ![t].phase = phase]
Ends(t)        == task' = [task EXCEPT ![t] = IdleTask]

(* A write of an order changes its updatedAt.                              *)
Touched(o) ==
    [t \in Tasks |-> IF task[t].of = o THEN [task[t] EXCEPT !.fresh = FALSE] ELSE task[t]]

-------------------------------------------------------------------------------
(* PATCH /service-orders/:id.  serviceOrderTransitions; an order may also  *)
(* keep its status.                                                        *)
Transitions ==
    {<<"OPEN", "ASSIGNED">>, <<"ASSIGNED", "IN_PROGRESS">>, <<"IN_PROGRESS", "DONE">>}
        \cup (Active \X {"CANCELED"})

(* update reads the order; a terminal one is refused.  The client sends    *)
(* the updatedAt of the row it has loaded, which may be an older one; the  *)
(* amount is that of the request, or else that of the order.               *)
Asked(q, o, to, a, op, fresh) ==
    /\ task[q].phase = "idle"
    /\ order[o].status \in Active
    /\ to = order[o].status \/ <<order[o].status, to>> \in Transitions
    /\ op = "edit" <=> to # "DONE"
    /\ task' = [task EXCEPT ![q] =
          [op |-> op, phase |-> IF op = "edit" THEN "read" ELSE "begin", of |-> o, to |-> to,
           amount |-> a, due |-> FALSE, fresh |-> fresh]]
    /\ UNCHANGED <<order, charges, completed, keyVars, window, faults>>

Read(q) ==
    \E o \in Orders, to \in Statuses, a \in Amounts, op \in {"edit", "done", "undated"},
       fresh \in BOOLEAN : Asked(q, o, to, a, op, fresh)

(* Mutation: the update goes by id alone.                                  *)
UnchangedSinceAlways(q) == TRUE

(* WHERE "updatedAt" = expectedUpdatedAt.                                  *)
UnchangedSince(q) == task[q].fresh

(* A change of anything but to DONE; a conflict is a RequestEnd.           *)
EditWrite(q) ==
    LET o == task[q].of
    IN  /\ task[q].phase = "read"
        /\ task[q].op = "edit"
        /\ UnchangedSince(q)
        /\ order' = [order EXCEPT ![o].status = task[q].to, ![o].amount = task[q].amount]
        /\ task' = [Touched(o) EXCEPT ![q] = IdleTask]
        /\ UNCHANGED <<charges, completed, keyVars, window, faults>>

(* The change to DONE runs under an idempotency record.                    *)
DonePayload(q) == <<task[q].of, task[q].amount>>

(* expectedUpdatedAt is looked at after begin and outside of the try: a    *)
(* request without it throws and leaves the record in progress.            *)
Begun(q) == IF task[q].op = "undated" THEN Ends(q) ELSE Goes(q, "write")

DoneBegin(q) ==
    /\ task[q].phase = "begin"
    /\ \/ DoneKey!Create(task[q].of, DonePayload(q)) /\ Begun(q)
       \/ /\ DoneKey!Exists(task[q].of)
          /\ IF DoneKey!Verdict(task[q].of, DonePayload(q)) = "reclaim"
             THEN Goes(q, "reclaim") ELSE Ends(q)
          /\ UNCHANGED doneKey
    /\ UNCHANGED <<order, charges, completed, chargeKey, window, faults>>

DoneReclaim(q) ==
    /\ task[q].phase = "reclaim"
    /\ DoneKey!Reclaim(task[q].of)
    /\ Begun(q)
    /\ UNCHANGED <<order, charges, completed, chargeKey, window, faults>>

(* The transaction: status and updatedAt are compared, the event goes to   *)
(* the outbox with the update.  The status seen was IN_PROGRESS.           *)
DoneWrite(q) ==
    LET o == task[q].of
    IN  /\ task[q].phase = "write"
        /\ order[o].status = "IN_PROGRESS"
        /\ UnchangedSince(q)
        /\ order' = [order EXCEPT ![o].status = "DONE", ![o].amount = task[q].amount]
        /\ completed' = [completed EXCEPT ![o] = @ + 1]
        /\ task' = [Touched(o) EXCEPT ![q].fresh = FALSE,
                                      ![q].phase = IF task[q].amount > 0 THEN "charge" ELSE "finish"]
        /\ UNCHANGED <<charges, keyVars, window, faults>>

(* Mutation: a miss is taken for an order that is DONE already.            *)
AlreadyDoneAlways(o) == TRUE

AlreadyDone(o) == order[o].status = "DONE"

(* The update found nothing: done by somebody else, or a conflict.         *)
DoneMissed(q) ==
    /\ task[q].phase = "write"
    /\ order[task[q].of].status # "IN_PROGRESS" \/ ~ UnchangedSince(q)
    /\ Goes(q, IF AlreadyDone(task[q].of) THEN "finish" ELSE "failing")
    /\ UNCHANGED <<order, charges, completed, keyVars, window, faults>>

DoneComplete(q) ==
    /\ task[q].phase = "finish"
    /\ DoneKey!Complete(task[q].of)
    /\ Ends(q)
    /\ UNCHANGED <<order, charges, completed, chargeKey, window, faults>>

DoneFail(q) ==
    /\ task[q].phase = "failing"
    /\ DoneKey!Failed(task[q].of)
    /\ Ends(q)
    /\ UNCHANGED <<order, charges, completed, chargeKey, window, faults>>

-------------------------------------------------------------------------------
(* ExecutionService: start and complete read the order and then update it  *)
(* by status; complete goes on to the charge.                              *)
ExecutionRead(q) ==
    \E o \in Orders, op \in {"start", "complete"} :
        /\ task[q].phase = "idle"
        /\ order[o].status \in Active
        /\ task' = [task EXCEPT ![q] = [IdleTask EXCEPT !.op = op, !.phase = "read", !.of = o]]
        /\ UNCHANGED <<order, charges, completed, keyVars, window, faults>>

StartWrite(q) ==
    LET o == task[q].of
    IN  /\ task[q].op = "start"
        /\ task[q].phase = "read"
        /\ order[o].status \in Active
        /\ order' = [order EXCEPT ![o].status = "IN_PROGRESS"]
        /\ task' = [Touched(o) EXCEPT ![q] = IdleTask]
        /\ UNCHANGED <<charges, completed, keyVars, window, faults>>

(* WHERE status <> 'DONE'; then the row is read again and charged.         *)
CompleteWrite(q) ==
    LET o == task[q].of
    IN  /\ task[q].op = "complete"
        /\ task[q].phase = "read"
        /\ order[o].status # "DONE"
        /\ order' = [order EXCEPT ![o].status = "DONE"]
        /\ task' = [Touched(o) EXCEPT ![q] =
              IF order[o].amount = 0 THEN IdleTask
              ELSE [task[q] EXCEPT !.phase = "charge", !.amount = order[o].amount,
                                   !.due = order[o].due]]
        /\ UNCHANGED <<charges, completed, keyVars, window, faults>>

(* POST /service-orders/:id/generate-charge takes the order as it is.      *)
Generate(q) ==
    \E o \in Orders :
        /\ task[q].phase = "idle"
        /\ order[o].amount > 0
        /\ task' = [task EXCEPT ![q] =
              [IdleTask EXCEPT !.op = "generate", !.phase = "charge", !.of = o,
                               !.amount = order[o].amount, !.due = order[o].due]]
        /\ UNCHANGED <<order, charges, completed, keyVars, window, faults>>

-------------------------------------------------------------------------------
(* The execution runner: of the cron of any process, or run by a request.  *)
Recent(o)   == \E i \in 1..Len(window[o]) : window[o][i] \in {"started", "executed"}
Failures(o) == Len(SelectSeq(window[o], LAMBDA e : e \in {"failed", "throttled"}))

Log(o, e) == window' = [window EXCEPT ![o] = Append(@, e)]

Room(o) == Len(window[o]) < MaxEvents

(* Mutation: only orders with a due date are looked for.                   *)
CandidateDated(o) ==
    order[o].status = "DONE" /\ order[o].amount > 0 /\ charges[o] = <<>> /\ order[o].due

(* loadGenerateChargeCandidates.                                           *)
Candidate(o) == order[o].status = "DONE" /\ order[o].amount > 0 /\ charges[o] = <<>>

(* An order is a candidate, nothing of it was started in the window, and   *)
(* there are retries left.                                                 *)
Consider(t) ==
    \E o \in Orders :
        /\ task[t].phase = "idle"
        /\ Candidate(o)
        /\ ~ Recent(o)
        /\ Failures(o) < MaxRetries
        /\ task' = [task EXCEPT ![t] =
              [IdleTask EXCEPT !.op = "run", !.phase = "reserve", !.of = o,
                               !.amount = order[o].amount, !.due = order[o].due]]
        /\ UNCHANGED <<order, charges, completed, keyVars, window, faults>>

(* retry_limit_reached is recorded as throttled, and counts itself.        *)
Throttle(t) ==
    \E o \in Orders :
        /\ task[t].phase = "idle"
        /\ Candidate(o)
        /\ ~ Recent(o)
        /\ Failures(o) >= MaxRetries
        /\ Room(o)
        /\ Log(o, "throttled")
        /\ UNCHANGED <<order, charges, completed, keyVars, task, faults>>

(* Mutation: the window is not looked at again under the lock.             *)
FreeToStartAlways(o) == TRUE

FreeToStart(o) == ~ Recent(o)

(* Under an advisory lock the window is read again and STARTED recorded.   *)
Reserve(t) ==
    LET o == task[t].of
    IN  /\ task[t].phase = "reserve"
        /\ IF FreeToStart(o)
           THEN Room(o) /\ Log(o, "started") /\ Goes(t, "charge")
           ELSE Ends(t) /\ UNCHANGED window
        /\ UNCHANGED <<order, charges, completed, keyVars, faults>>

(* An event becomes older than throttleWindowMs.                           *)
Expire(o) ==
    /\ window[o] # <<>>
    /\ window' = [window EXCEPT ![o] = Tail(@)]
    /\ UNCHANGED <<order, charges, completed, keyVars, task, faults>>

-------------------------------------------------------------------------------
(* ensureChargeForServiceOrderDone.                                        *)
Key(t) == <<task[t].of, task[t].amount, task[t].due>>

(* Back in the caller: update goes on to complete or fail its own record,  *)
(* the runner records the outcome, ExecutionService swallows an error and  *)
(* generate-charge passes it on.                                           *)
Returns(t, outcome) ==
    CASE task[t].op = "done" ->
            Goes(t, IF outcome = "executed" THEN "finish" ELSE "failing") /\ UNCHANGED window
      [] task[t].op = "run" ->
            Ends(t) /\ Room(task[t].of) /\ Log(task[t].of, outcome)
      [] OTHER -> Ends(t) /\ UNCHANGED window

(* Keys of COMPLETED records are answered with the stored result, a key in *)
(* progress is a ConflictException.                                        *)
ChargeBegin(t) ==
    LET verdict == ChargeKey!Verdict(Key(t), Key(t))
    IN  /\ task[t].phase = "charge"
        /\ \/ ChargeKey!Create(Key(t), Key(t)) /\ Goes(t, "look") /\ UNCHANGED window
           \/ /\ ChargeKey!Exists(Key(t))
              /\ IF verdict = "reclaim"
                 THEN Goes(t, "charge reclaim") /\ UNCHANGED window
                 ELSE Returns(t, IF verdict = "replay" THEN "executed" ELSE "failed")
              /\ UNCHANGED chargeKey
        /\ UNCHANGED <<order, charges, completed, doneKey, faults>>

ChargeReclaim(t) ==
    /\ task[t].phase = "charge reclaim"
    /\ ChargeKey!Reclaim(Key(t))
    /\ Goes(t, "look")
    /\ UNCHANGED <<order, charges, completed, doneKey, window, faults>>

(* Mutation: any order may be charged.                                     *)
EligibleAlways(o) == TRUE

(* assertServiceOrderEligibleForCharge.                                    *)
Eligible(o) == order[o].status = "DONE"

(* Mutation: the key alone protects from a second charge.                  *)
UnchargedAlways(o) == TRUE

Uncharged(o) == charges[o] = <<>>

(* The order is read and then its charges (DONE is final: reading both at  *)
(* once misses nothing).                                                   *)
Look(t) ==
    LET o == task[t].of
    IN  /\ task[t].phase = "look"
        /\ Goes(t, IF ~ Eligible(o) THEN "charge failing"
                   ELSE IF Uncharged(o) THEN "create" ELSE "created")
        /\ UNCHANGED <<order, charges, completed, keyVars, window, faults>>

CreateCharge(t) ==
    LET o == task[t].of
    IN  /\ task[t].phase = "create"
        /\ charges' = [charges EXCEPT ![o] = Append(@, task[t].amount)]
        /\ Goes(t, "created")
        /\ UNCHANGED <<order, completed, keyVars, window, faults>>

ChargeComplete(t) ==
    /\ task[t].phase = "created"
    /\ ChargeKey!Complete(Key(t))
    /\ Returns(t, "executed")
    /\ UNCHANGED <<order, charges, completed, doneKey, faults>>

ChargeFail(t) ==
    /\ task[t].phase = "charge failing"
    /\ ChargeKey!Failed(Key(t))
    /\ Returns(t, "failed")
    /\ UNCHANGED <<order, charges, completed, doneKey, faults>>

-------------------------------------------------------------------------------
(* Faults.  A statement of ensureCharge fails (a create perhaps after it   *)
(* was applied, begin and fail() without another word to the record).      *)
ChargeError(t) ==
    LET o == task[t].of
    IN  /\ faults < MaxFaults
        /\ \/ /\ task[t].phase \in {"look", "create", "created"}
              /\ Goes(t, "charge failing")
              /\ UNCHANGED <<charges, window>>
           \/ /\ task[t].phase = "create"
              /\ Goes(t, "charge failing")
              /\ charges' = [charges EXCEPT ![o] = Append(@, task[t].amount)]
              /\ UNCHANGED window
           \/ /\ task[t].phase \in {"charge", "charge reclaim", "charge failing"}
              /\ Returns(t, "failed")
              /\ UNCHANGED charges
        /\ faults' = faults + 1
        /\ UNCHANGED <<order, completed, keyVars>>

(* The transaction of update fails, or is committed and reported as an     *)
(* error, or what comes after the charge fails.                            *)
RequestError(q) ==
    /\ faults < MaxFaults
    /\ task[q].op = "done"
    /\ task[q].phase \in {"write", "charge", "finish"}
    /\ Goes(q, "failing")
    /\ faults' = faults + 1
    /\ UNCHANGED <<order, charges, completed, keyVars, window>>

(* The process stops.                                                      *)
Crash(t) ==
    /\ faults < MaxFaults
    /\ task[t].phase # "idle"
    /\ Ends(t)
    /\ faults' = faults + 1
    /\ UNCHANGED <<order, charges, completed, keyVars, window>>

(* Requests that are refused or find a conflict leave no trace.            *)
RequestEnd(q) ==
    /\ task[q].phase = "read"
    /\ Ends(q)
    /\ UNCHANGED <<order, charges, completed, keyVars, window, faults>>

-------------------------------------------------------------------------------
(* What a request or a runner does once it is under way.                   *)
ChargeStep(t) ==
    \/ ChargeBegin(t)
    \/ ChargeReclaim(t)
    \/ Look(t)
    \/ CreateCharge(t)
    \/ ChargeComplete(t)
    \/ ChargeFail(t)

DoneStep(q) ==
    \/ DoneBegin(q)
    \/ DoneReclaim(q)
    \/ DoneWrite(q)
    \/ DoneMissed(q)
    \/ DoneComplete(q)
    \/ DoneFail(q)

RequestStep(q) ==
    \/ Read(q)
    \/ EditWrite(q)
    \/ DoneStep(q)
    \/ ExecutionRead(q)
    \/ StartWrite(q)
    \/ CompleteWrite(q)
    \/ Generate(q)
    \/ RequestEnd(q)
    \/ RequestError(q)

RunnerStep(t) == Consider(t) \/ Throttle(t) \/ Reserve(t)

Next ==
    \/ \E t \in Tasks : RequestStep(t) \/ RunnerStep(t) \/ ChargeStep(t) \/ ChargeError(t) \/ Crash(t)
    \/ \E o \in Orders : Expire(o)

Spec == Init /\ [][Next]_vars

(* The cron starts cycles for ever, whatever is under way goes on, time    *)
(* passes.  The cron does not wait for requests: Consider is strongly fair *)
(* because in the model they take each other's places.                     *)
Fairness ==
    /\ SF_vars(\E t \in Tasks : Consider(t))
    /\ \A t \in Tasks : WF_vars(DoneStep(t) \/ Reserve(t) \/ ChargeStep(t) \/ RequestEnd(t))
    /\ \A o \in Orders : WF_vars(Expire(o))

FairSpec == Spec /\ Fairness

-------------------------------------------------------------------------------
(* finance.service.ts:173: only an order that is DONE has charges, however *)
(* long ago the request looked at it.                                      *)
ChargedIsDone == \A o \in Orders : charges[o] # <<>> => order[o].status = "DONE"

(* Whoever is answered from a COMPLETED record, of the charge or of the    *)
(* completion, is told the truth: there is a charge, the order is DONE.    *)
(* complete() and fail() write by id and look at nothing.                  *)
RecordsTellTheTruth ==
    /\ \A k \in ChargeKeys : chargeKey[k].status = "COMPLETED" => charges[k[1]] # <<>>
    /\ \A o \in Orders : doneKey[o].status = "COMPLETED" => order[o].status = "DONE"

(* SERVICE_ORDER_COMPLETED is announced for orders that are DONE, once,    *)
(* although requests retry, repeat each other and lose their records.      *)
AnnouncedOnce ==
    \A o \in Orders : completed[o] <= (IF order[o].status = "DONE" THEN 1 ELSE 0)

Billing == INSTANCE OrderBilling WITH
    price <- [o \in Orders |-> IF order[o].status = "DONE" THEN order[o].amount ELSE None],
    told  <- completed,
    bills <- charges

(* Requests, runners, records and errors implement what an order promises: *)
(* DONE is for ever and freezes the amount, the announcement goes with it, *)
(* charges come afterwards and stay.                                       *)
BillingSpec == Billing!Spec

(* An order is started at most once in a throttle window, whichever        *)
(* process's runner starts it.                                             *)
OneStartPerWindow ==
    \A o \in Orders : \A i, j \in 1..Len(window[o]) :
        window[o][i] = "started" /\ window[o][j] = "started" => i = j

(* A task between begin and the complete or fail that belongs to it.       *)
Charging(t, k) ==
    Key(t) = k /\ task[t].phase \in {"look", "create", "created", "charge failing"}

(* A key in progress that nobody works on any more.                        *)
Orphaned(o) ==
    \E k \in ChargeKeys :
        k[1] = o /\ chargeKey[k].status = "PROCESSING" /\ \A t \in Tasks : ~ Charging(t, k)

(* An order that is DONE and has an amount is charged in the end: if the   *)
(* request that completed it does not get there, the runner does, unless a *)
(* crash has left its key in progress or the retry limit was reached.      *)
DoneCharged ==
    \A o \in Orders :
        (order[o].status = "DONE" /\ order[o].amount > 0)
            ~> (charges[o] # <<>> \/ Orphaned(o) \/ Failures(o) >= MaxRetries)

(* Two callers that overlap may both create a charge, but an order never   *)
(* gets more charges than callers can overlap, however often keys are      *)
(* reclaimed, runners retry and creates are reported as errors.            *)
ChargesBounded == \A o \in Orders : Len(charges[o]) <= Cardinality(Tasks)

(* service-orders.controller.ts:104 "Idempotente: se já existe cobrança    *)
(* para a OS": an order has one charge.                                    *)
OneCharge == \A o \in Orders : Len(charges[o]) <= 1

(* No two callers are between looking for a charge of an order and         *)
(* creating one.                                                           *)
CreatorsExclude ==
    \A o \in Orders : \A t, u \in Tasks :
        /\ task[t].phase = "create" /\ task[t].of = o
        /\ task[u].phase = "create" /\ task[u].of = o
        => t = u

(* No process stops, and no fail() is lost, while the key is in progress.  *)
NoStopAtCharge ==
    [][\A t \in Tasks, k \in ChargeKeys :
          Charging(t, k) /\ chargeKey[k].status = "PROCESSING"
              => ~ Crash(t) /\ ~ (task[t].phase = "charge failing" /\ ChargeError(t))]_vars

NoneOrphaned == \A o \in Orders : ~ Orphaned(o)
===============================================================================
