---------------------------- MODULE OrderChargeProofs ----------------------------
(***************************************************************************)
(* Proofs about OrderCharge, for any number of orders, amounts, requests   *)
(* and runners.                                                            *)
(***************************************************************************)
EXTENDS OrderCharge, FiniteSetTheorems, TLAPS

DonePhases   == {"begin", "reclaim", "write", "finish", "failing"}
ChargePhases == {"charge", "charge reclaim", "look", "create", "created", "charge failing"}

(* What a task that is under way knows of its order.                       *)
WorksWell(t) ==
    task[t].phase # "idle" =>
        /\ task[t].of \in Orders
        /\ task[t].op \in {"edit", "done", "undated"} => task[t].amount \in Amounts
        /\ task[t].op = "edit" => task[t].to # "DONE"
        /\ task[t].phase \in DonePhases => task[t].op \in {"done", "undated"}
        /\ task[t].phase = "reserve" => task[t].op = "run"
        /\ task[t].phase \in ChargePhases \cup {"reserve"} => task[t].amount \in Amounts
        /\ \/ task[t].phase \in {"create", "finish"}
           \/ task[t].phase \in ChargePhases /\ task[t].op = "done"
           => order[task[t].of].status = "DONE"
        /\ task[t].phase = "created" => charges[task[t].of] # <<>>

Working == \A t \in Tasks : WorksWell(t)

(* An edit whose updatedAt is still that of the row has seen its status.   *)
SeenActive(t) ==
    task[t].phase = "read" /\ task[t].op = "edit" /\ task[t].fresh =>
        /\ task[t].of \in Orders
        /\ order[task[t].of].status \in Active

Editing == \A t \in Tasks : SeenActive(t)

IInv ==
    /\ TypeOK
    /\ ChargedIsDone
    /\ RecordsTellTheTruth
    /\ AnnouncedOnce
    /\ OneStartPerWindow
    /\ Working
    /\ Editing

(* DONE is final and charges stay.                                         *)
Final ==
    \A o \in Orders :
        /\ order[o].status = "DONE" => order'[o].status = "DONE"
        /\ charges[o] # <<>> => charges'[o] # <<>>

-------------------------------------------------------------------------------
(* Type correctness.                                                       *)
LEMMA TypeInit == Init => TypeOK
<1> SUFFICES ASSUME Init PROVE TypeOK
  OBVIOUS
<1> USE DEF Init
<1>1. order \in [Orders -> Order]
  BY DEF Order, Statuses, Active
<1>2. charges \in [Orders -> Seq(Amounts)] /\ window \in [Orders -> Seq(Events)]
  OBVIOUS
<1>3. completed \in [Orders -> Nat] /\ faults \in 0..MaxFaults
  BY OrderAssumption
<1>4. ChargeKey!IdempotencyTypeOK
  BY DEF ChargeKey!IdempotencyTypeOK, ChargeKey!IdempotencyInit, ChargeKey!Record
<1>5. DoneKey!IdempotencyTypeOK
  BY DEF DoneKey!IdempotencyTypeOK, DoneKey!IdempotencyInit, DoneKey!Record
<1>6. task \in [Tasks -> Task]
  BY DEF IdleTask, Task, Operations, Phases, Statuses, Active
<1> QED
  BY <1>1, <1>2, <1>3, <1>4, <1>5, <1>6 DEF TypeOK

LEMMA IdleType == IdleTask \in Task
  BY DEF IdleTask, Task, Operations, Phases, Statuses, Active

LEMMA GoesType ==
    ASSUME TypeOK, NEW t \in Tasks, NEW phase \in Phases, Goes(t, phase)
    PROVE  task' \in [Tasks -> Task]
  BY DEF TypeOK, Goes, Task

LEMMA EndsType ==
    ASSUME TypeOK, NEW t \in Tasks, Ends(t)
    PROVE  task' \in [Tasks -> Task]
  BY IdleType DEF TypeOK, Ends

LEMMA TouchedType ==
    ASSUME TypeOK, NEW o
    PROVE  Touched(o) \in [Tasks -> Task]
  BY DEF TypeOK, Touched, Task

LEMMA LogType ==
    ASSUME TypeOK, NEW o \in Orders, NEW e \in Events, Log(o, e)
    PROVE  window' \in [Orders -> Seq(Events)]
  BY DEF TypeOK, Log

(* Back in the caller, with any outcome.                                   *)
LEMMA ReturnsType ==
    ASSUME TypeOK, Working, NEW t \in Tasks, task[t].phase # "idle",
           NEW outcome \in {"executed", "failed"}, Returns(t, outcome)
    PROVE  task' \in [Tasks -> Task] /\ window' \in [Orders -> Seq(Events)]
<1>1. CASE task[t].op = "done"
  <2>1. PICK phase \in {"finish", "failing"} : Goes(t, phase)
    BY <1>1 DEF Returns
  <2> QED
    BY <1>1, <2>1, GoesType DEF Returns, Phases, TypeOK
<1>2. CASE task[t].op = "run"
  <2>1. task[t].of \in Orders
    BY DEF Working, WorksWell
  <2> QED
    BY <1>2, <2>1, EndsType, LogType DEF Returns, Events
<1>3. CASE task[t].op \notin {"done", "run"}
  BY <1>3, EndsType DEF Returns, TypeOK
<1> QED
  BY <1>1, <1>2, <1>3

LEMMA KeyType ==
    ASSUME TypeOK, Working, NEW t \in Tasks, task[t].phase \in ChargePhases
    PROVE  Key(t) \in ChargeKeys
  BY DEF TypeOK, Working, WorksWell, Key, ChargeKeys, Task, ChargePhases

LEMMA ChargeRecordType ==
    ASSUME TypeOK, NEW k \in ChargeKeys,
           ChargeKey!Create(k, k) \/ ChargeKey!Reclaim(k) \/ ChargeKey!Complete(k) \/ ChargeKey!Failed(k)
    PROVE  ChargeKey!IdempotencyTypeOK'
  BY DEF TypeOK, ChargeKey!IdempotencyTypeOK, ChargeKey!Create, ChargeKey!Reclaim,
         ChargeKey!Complete, ChargeKey!Failed, ChargeKey!Record

LEMMA DoneRecordType ==
    ASSUME TypeOK, NEW o \in Orders, NEW p \in DonePayloads,
           DoneKey!Create(o, p) \/ DoneKey!Reclaim(o) \/ DoneKey!Complete(o) \/ DoneKey!Failed(o)
    PROVE  DoneKey!IdempotencyTypeOK'
<1> USE DEF DoneKey!Record
<1>1. doneKey \in [Orders -> DoneKey!Record]
  BY DEF TypeOK, DoneKey!IdempotencyTypeOK
<1>2. CASE DoneKey!Create(o, p)
  BY <1>1, <1>2 DEF DoneKey!IdempotencyTypeOK, DoneKey!Create
<1>3. CASE DoneKey!Reclaim(o) \/ DoneKey!Complete(o) \/ DoneKey!Failed(o)
  BY <1>1, <1>3 DEF DoneKey!IdempotencyTypeOK, DoneKey!Reclaim, DoneKey!Complete, DoneKey!Failed
<1> QED
  BY <1>2, <1>3

LEMMA DonePayloadType ==
    ASSUME TypeOK, Working, NEW q \in Tasks, task[q].phase \in DonePhases
    PROVE  task[q].of \in Orders /\ DonePayload(q) \in DonePayloads
  BY DEF Working, WorksWell, DonePayload, DonePayloads, DonePhases

(* Records untouched keep their types.                                     *)
LEMMA KeysKept ==
    ASSUME TypeOK
    PROVE  /\ UNCHANGED chargeKey => ChargeKey!IdempotencyTypeOK'
           /\ UNCHANGED doneKey => DoneKey!IdempotencyTypeOK'
  BY DEF TypeOK, ChargeKey!IdempotencyTypeOK, DoneKey!IdempotencyTypeOK

LEMMA TypeStep ==
    ASSUME TypeOK, Working, [Next]_vars
    PROVE  TypeOK'
<1>0. order \in [Orders -> Order] /\ task \in [Tasks -> Task]
  BY DEF TypeOK
<1>1. ASSUME NEW q \in Tasks, Read(q) PROVE TypeOK'
  <2>1. task' \in [Tasks -> Task]
    <3>1. PICK o \in Orders, to \in Statuses, a \in Amounts,
               op \in {"edit", "done", "undated"}, fresh \in BOOLEAN : Asked(q, o, to, a, op, fresh)
      BY <1>1 DEF Read
    <3>2. [op |-> op, phase |-> IF op = "edit" THEN "read" ELSE "begin", of |-> o, to |-> to,
           amount |-> a, due |-> FALSE, fresh |-> fresh] \in Task
      BY DEF Task, Operations, Phases
    <3> QED
      BY <1>0, <3>1, <3>2 DEF Asked
  <2> QED
    BY <1>1, <2>1, KeysKept DEF Read, Asked, TypeOK, keyVars
<1>2. ASSUME NEW q \in Tasks, EditWrite(q) PROVE TypeOK'
  <2>1. PICK o \in Orders : task[q].of = o
    BY <1>2 DEF EditWrite, Working, WorksWell
  <2>2. task[q].amount \in Amounts /\ task[q].to \in Statuses
    BY <1>0, <1>2 DEF EditWrite, Working, WorksWell, Task
  <2>3. order' \in [Orders -> Order]
    BY <1>0, <1>2, <2>1, <2>2 DEF EditWrite, Order
  <2>4. task' \in [Tasks -> Task]
    BY <1>2, <2>1, TouchedType, IdleType DEF EditWrite
  <2> QED
    BY <1>2, <2>3, <2>4, KeysKept DEF EditWrite, TypeOK, keyVars
<1>3. ASSUME NEW q \in Tasks, DoneBegin(q) PROVE TypeOK'
  <2>1. task[q].of \in Orders /\ DonePayload(q) \in DonePayloads
    BY <1>3, DonePayloadType DEF DoneBegin, DonePhases
  <2>2. task' \in [Tasks -> Task]
    BY <1>3, GoesType, EndsType DEF DoneBegin, Begun, Phases
  <2>3. DoneKey!IdempotencyTypeOK'
    BY <1>3, <2>1, DoneRecordType, KeysKept DEF DoneBegin
  <2> QED
    BY <1>3, <2>2, <2>3, KeysKept DEF DoneBegin, TypeOK
<1>4. ASSUME NEW q \in Tasks, DoneReclaim(q) \/ DoneComplete(q) \/ DoneFail(q) PROVE TypeOK'
  <2>1. task[q].of \in Orders /\ DonePayload(q) \in DonePayloads
    BY <1>4, DonePayloadType DEF DoneReclaim, DoneComplete, DoneFail, DonePhases
  <2>2. task' \in [Tasks -> Task]
    BY <1>4, GoesType, EndsType DEF DoneReclaim, DoneComplete, DoneFail, Begun, Phases
  <2>3. DoneKey!IdempotencyTypeOK'
    BY <1>4, <2>1, DoneRecordType DEF DoneReclaim, DoneComplete, DoneFail
  <2> QED
    BY <1>4, <2>2, <2>3, KeysKept DEF DoneReclaim, DoneComplete, DoneFail, TypeOK
<1>5. ASSUME NEW q \in Tasks, DoneWrite(q) PROVE TypeOK'
  <2>1. PICK o \in Orders : task[q].of = o
    BY <1>5, DonePayloadType DEF DoneWrite, DonePhases
  <2>2. task[q].amount \in Amounts
    BY <1>5 DEF DoneWrite, Working, WorksWell, DonePhases
  <2>3. order' \in [Orders -> Order]
    BY <1>0, <1>5, <2>1, <2>2 DEF DoneWrite, Order, Statuses
  <2>4. completed' \in [Orders -> Nat]
    BY <1>5, <2>1 DEF DoneWrite, TypeOK
  <2>5. task' \in [Tasks -> Task]
    <3>1. Touched(o) \in [Tasks -> Task]
      BY TouchedType
    <3>2. PICK phase \in Phases : task' = [Touched(o) EXCEPT ![q].fresh = FALSE, ![q].phase = phase]
      BY <1>5, <2>1 DEF DoneWrite, Phases
    <3> QED
      BY <3>1, <3>2 DEF Task
  <2> QED
    BY <1>5, <2>3, <2>4, <2>5, KeysKept DEF DoneWrite, TypeOK, keyVars
<1>6. ASSUME NEW q \in Tasks, DoneMissed(q) PROVE TypeOK'
  <2>1. task' \in [Tasks -> Task]
    BY <1>6, GoesType DEF DoneMissed, Phases
  <2> QED
    BY <1>6, <2>1, KeysKept DEF DoneMissed, TypeOK, keyVars
<1>7. ASSUME NEW q \in Tasks, ExecutionRead(q) PROVE TypeOK'
  <2>1. task' \in [Tasks -> Task]
    <3>1. PICK o \in Orders, op \in Operations :
              task' = [task EXCEPT ![q] = [IdleTask EXCEPT !.op = op, !.phase = "read", !.of = o]]
      BY <1>7 DEF ExecutionRead, Operations
    <3> QED
      BY <1>0, <3>1, IdleType DEF Task, Phases
  <2> QED
    BY <1>7, <2>1, KeysKept DEF ExecutionRead, TypeOK, keyVars
<1>8. ASSUME NEW q \in Tasks, StartWrite(q) PROVE TypeOK'
  <2>1. PICK o \in Orders : task[q].of = o
    BY <1>8 DEF StartWrite, Working, WorksWell
  <2>2. order' \in [Orders -> Order]
    BY <1>0, <1>8, <2>1 DEF StartWrite, Order, Statuses, Active
  <2>3. task' \in [Tasks -> Task]
    BY <1>8, <2>1, TouchedType, IdleType DEF StartWrite
  <2> QED
    BY <1>8, <2>2, <2>3, KeysKept DEF StartWrite, TypeOK, keyVars
<1>9. ASSUME NEW q \in Tasks, CompleteWrite(q) PROVE TypeOK'
  <2>1. PICK o \in Orders : task[q].of = o
    BY <1>9 DEF CompleteWrite, Working, WorksWell
  <2>2. order' \in [Orders -> Order]
    BY <1>0, <1>9, <2>1 DEF CompleteWrite, Order, Statuses
  <2>3. [task[q] EXCEPT !.phase = "charge", !.amount = order[o].amount, !.due = order[o].due] \in Task
    BY <1>0 DEF Task, Order, Phases
  <2>4. task' \in [Tasks -> Task]
    BY <1>9, <2>1, <2>3, TouchedType, IdleType DEF CompleteWrite
  <2> QED
    BY <1>9, <2>2, <2>4, KeysKept DEF CompleteWrite, TypeOK, keyVars
<1>10. ASSUME NEW q \in Tasks, Generate(q) \/ Consider(q) PROVE TypeOK'
  <2>1. PICK o \in Orders, op \in Operations, phase \in Phases :
           task' = [task EXCEPT ![q] = [IdleTask EXCEPT !.op = op, !.phase = phase, !.of = o,
                                            !.amount = order[o].amount, !.due = order[o].due]]
    BY <1>10 DEF Generate, Consider, Operations, Phases
  <2>2. [IdleTask EXCEPT !.op = op, !.phase = phase, !.of = o,
                         !.amount = order[o].amount, !.due = order[o].due] \in Task
    BY <1>0, IdleType DEF Task, Order
  <2>3. task' \in [Tasks -> Task]
    BY <1>0, <2>1, <2>2
  <2> QED
    BY <1>10, <2>3, KeysKept DEF Generate, Consider, TypeOK, keyVars
<1>11. ASSUME NEW t \in Tasks, Throttle(t) PROVE TypeOK'
  <2>1. window' \in [Orders -> Seq(Events)]
    BY <1>11, LogType DEF Throttle, Events
  <2> QED
    BY <1>11, <2>1, KeysKept DEF Throttle, TypeOK, keyVars
<1>12. ASSUME NEW t \in Tasks, Reserve(t) PROVE TypeOK'
  <2>1. task[t].of \in Orders
    BY <1>12 DEF Reserve, Working, WorksWell
  <2>2. task' \in [Tasks -> Task]
    BY <1>12, GoesType, EndsType DEF Reserve, Phases
  <2>3. window' \in [Orders -> Seq(Events)]
    BY <1>12, <2>1, LogType DEF Reserve, Events, TypeOK
  <2> QED
    BY <1>12, <2>2, <2>3, KeysKept DEF Reserve, TypeOK, keyVars
<1>13. ASSUME NEW o \in Orders, Expire(o) PROVE TypeOK'
  <2>1. window' \in [Orders -> Seq(Events)]
    BY <1>13 DEF Expire, TypeOK
  <2> QED
    BY <1>13, <2>1, KeysKept DEF Expire, TypeOK, keyVars
<1>14. ASSUME NEW t \in Tasks, ChargeBegin(t) PROVE TypeOK'
  <2>1. Key(t) \in ChargeKeys
    BY <1>14, KeyType DEF ChargeBegin, ChargePhases
  <2>2. ChargeKey!IdempotencyTypeOK'
    BY <1>14, <2>1, ChargeRecordType, KeysKept DEF ChargeBegin
  <2>3. task' \in [Tasks -> Task] /\ window' \in [Orders -> Seq(Events)]
    <3>1. CASE UNCHANGED window /\ (Goes(t, "look") \/ Goes(t, "charge reclaim"))
      BY <3>1, GoesType DEF Phases, TypeOK
    <3>2. CASE Returns(t, "executed") \/ Returns(t, "failed")
      BY <1>14, <3>2, ReturnsType DEF ChargeBegin
    <3> QED
      BY <1>14, <3>1, <3>2 DEF ChargeBegin
  <2> QED
    BY <1>14, <2>2, <2>3, KeysKept DEF ChargeBegin, TypeOK
<1>15. ASSUME NEW t \in Tasks, ChargeReclaim(t) PROVE TypeOK'
  <2>1. ChargeKey!IdempotencyTypeOK'
    BY <1>15, KeyType, ChargeRecordType DEF ChargeReclaim, ChargePhases
  <2>2. task' \in [Tasks -> Task]
    BY <1>15, GoesType DEF ChargeReclaim, Phases
  <2> QED
    BY <1>15, <2>1, <2>2, KeysKept DEF ChargeReclaim, TypeOK
<1>16. ASSUME NEW t \in Tasks, Look(t) PROVE TypeOK'
  <2>1. task' \in [Tasks -> Task]
    BY <1>16, GoesType DEF Look, Phases
  <2> QED
    BY <1>16, <2>1, KeysKept DEF Look, TypeOK, keyVars
<1>17. ASSUME NEW t \in Tasks, CreateCharge(t) PROVE TypeOK'
  <2>1. task[t].of \in Orders /\ task[t].amount \in Amounts
    BY <1>17 DEF CreateCharge, Working, WorksWell, ChargePhases
  <2>2. charges' \in [Orders -> Seq(Amounts)]
    BY <1>17, <2>1 DEF CreateCharge, TypeOK
  <2>3. task' \in [Tasks -> Task]
    BY <1>17, GoesType DEF CreateCharge, Phases
  <2> QED
    BY <1>17, <2>2, <2>3, KeysKept DEF CreateCharge, TypeOK, keyVars
<1>18. ASSUME NEW t \in Tasks, ChargeComplete(t) \/ ChargeFail(t) PROVE TypeOK'
  <2>1. ChargeKey!IdempotencyTypeOK'
    BY <1>18, KeyType, ChargeRecordType DEF ChargeComplete, ChargeFail, ChargePhases
  <2>2. task' \in [Tasks -> Task] /\ window' \in [Orders -> Seq(Events)]
    BY <1>18, ReturnsType DEF ChargeComplete, ChargeFail
  <2> QED
    BY <1>18, <2>1, <2>2, KeysKept DEF ChargeComplete, ChargeFail, TypeOK
<1>19. ASSUME NEW t \in Tasks, ChargeError(t) PROVE TypeOK'
  <2>1. task[t].of \in Orders /\ task[t].amount \in Amounts
    BY <1>19 DEF ChargeError, Working, WorksWell, ChargePhases
  <2>2. charges' \in [Orders -> Seq(Amounts)]
    <3>1. CASE charges' = [charges EXCEPT ![task[t].of] = Append(@, task[t].amount)]
      BY <2>1, <3>1 DEF TypeOK
    <3>2. CASE UNCHANGED charges
      BY <3>2 DEF TypeOK
    <3> QED
      BY <1>19, <3>1, <3>2 DEF ChargeError
  <2>3. task' \in [Tasks -> Task] /\ window' \in [Orders -> Seq(Events)]
    <3>1. CASE UNCHANGED window /\ Goes(t, "charge failing")
      BY <3>1, GoesType DEF Phases, TypeOK
    <3>2. CASE Returns(t, "failed") /\ task[t].phase # "idle"
      BY <3>2, ReturnsType
    <3> QED
      BY <1>19, <3>1, <3>2 DEF ChargeError
  <2>4. faults' \in 0..MaxFaults
    <3>1. faults < MaxFaults /\ faults' = faults + 1
      BY <1>19 DEF ChargeError
    <3> QED
      BY <3>1, OrderAssumption DEF TypeOK
  <2> QED
    BY <1>19, <2>2, <2>3, <2>4, KeysKept DEF ChargeError, TypeOK, keyVars
<1>20. ASSUME NEW t \in Tasks, RequestError(t) \/ Crash(t) PROVE TypeOK'
  <2>1. task' \in [Tasks -> Task]
    BY <1>20, GoesType, EndsType DEF RequestError, Crash, Phases
  <2>2. faults' \in 0..MaxFaults
    BY <1>20, OrderAssumption DEF RequestError, Crash, TypeOK
  <2> QED
    BY <1>20, <2>1, <2>2, KeysKept DEF RequestError, Crash, TypeOK, keyVars
<1>21. ASSUME NEW q \in Tasks, RequestEnd(q) PROVE TypeOK'
  <2>1. task' \in [Tasks -> Task]
    BY <1>21, EndsType DEF RequestEnd
  <2> QED
    BY <1>21, <2>1, KeysKept DEF RequestEnd, TypeOK, keyVars
<1>22. CASE UNCHANGED vars
  BY <1>22, KeysKept DEF vars, TypeOK
<1> QED
  BY <1>1, <1>2, <1>3, <1>4, <1>5, <1>6, <1>7, <1>8, <1>9, <1>10, <1>11, <1>12, <1>13, <1>14,
     <1>15, <1>16, <1>17, <1>18, <1>19, <1>20, <1>21, <1>22
     DEF Next, RequestStep, RunnerStep, ChargeStep, DoneStep

-------------------------------------------------------------------------------
LEMMA Longer ==
    ASSUME NEW S, NEW s \in Seq(S), NEW e \in S
    PROVE  Append(s, e) # <<>>
<1>1. Append(s, e)[Len(s) + 1] = e /\ Len(Append(s, e)) = Len(s) + 1 /\ Len(s) \in Nat
  OBVIOUS
<1>2. Len(Append(s, e)) # 0
  BY <1>1
<1>3. Len(<< >>) = 0
  OBVIOUS
<1> QED
  BY <1>2, <1>3, Zenon

(* What no step undoes.                                                    *)
LEMMA FinalStep ==
    ASSUME TypeOK, Working, Editing, [Next]_vars
    PROVE  Final
<1>0. order \in [Orders -> Order] /\ charges \in [Orders -> Seq(Amounts)]
  BY DEF TypeOK
<1>1. ASSUME NEW q \in Tasks, EditWrite(q) PROVE Final
  <2>1. PICK o \in Orders : task[q].of = o /\ order[o].status \in Active
    BY <1>1 DEF EditWrite, UnchangedSince, Editing, SeenActive
  <2>2. \A p \in Orders \ {o} : order'[p] = order[p]
    BY <1>0, <1>1, <2>1 DEF EditWrite
  <2>3. UNCHANGED charges
    BY <1>1 DEF EditWrite
  <2> QED
    BY <2>1, <2>2, <2>3 DEF Final, Active
<1>2. ASSUME NEW q \in Tasks, DoneWrite(q) \/ StartWrite(q) \/ CompleteWrite(q) PROVE Final
  <2>1. PICK o \in Orders : task[q].of = o
    BY <1>2, DonePayloadType DEF DoneWrite, StartWrite, CompleteWrite, Working, WorksWell
  <2>2. order[o].status # "DONE" /\ \A p \in Orders \ {o} : order'[p] = order[p]
    BY <1>0, <1>2, <2>1 DEF DoneWrite, StartWrite, CompleteWrite, Active
  <2>3. UNCHANGED charges
    BY <1>2 DEF DoneWrite, StartWrite, CompleteWrite
  <2> QED
    BY <2>2, <2>3 DEF Final
<1>3. ASSUME NEW t \in Tasks, CreateCharge(t) \/ ChargeError(t) PROVE Final
  <2>1. task[t].of \in Orders /\ task[t].amount \in Amounts
    BY <1>3 DEF CreateCharge, ChargeError, Working, WorksWell, ChargePhases
  <2>2. CASE charges' = [charges EXCEPT ![task[t].of] = Append(@, task[t].amount)]
    <3>1. /\ charges'[task[t].of] = Append(charges[task[t].of], task[t].amount)
          /\ \A p \in Orders \ {task[t].of} : charges'[p] = charges[p]
      BY <1>0, <2>1, <2>2
    <3>2. UNCHANGED order
      BY <1>3 DEF CreateCharge, ChargeError
    <3>3. Append(charges[task[t].of], task[t].amount) # <<>>
      BY <1>0, <2>1, Longer
    <3> QED
      BY <3>1, <3>2, <3>3 DEF Final
  <2>3. CASE UNCHANGED charges
    BY <1>3, <2>3 DEF Final, CreateCharge, ChargeError
  <2> QED
    BY <1>3, <2>2, <2>3 DEF CreateCharge, ChargeError
<1>4. CASE UNCHANGED <<order, charges>>
  BY <1>4 DEF Final
<1>5. ASSUME NEW t \in Tasks, RunnerStep(t) \/ Crash(t) \/ RequestError(t) \/ RequestEnd(t)
      PROVE  UNCHANGED <<order, charges>>
  BY <1>5 DEF RunnerStep, Consider, Throttle, Reserve, Crash, RequestError, RequestEnd
<1>6. ASSUME NEW t \in Tasks, ChargeStep(t) PROVE UNCHANGED <<order, charges>> \/ CreateCharge(t)
  BY <1>6 DEF ChargeStep, ChargeBegin, ChargeReclaim, Look, ChargeComplete, ChargeFail
<1>7. ASSUME NEW t \in Tasks, DoneStep(t) PROVE UNCHANGED <<order, charges>> \/ DoneWrite(t)
  BY <1>7 DEF DoneStep, DoneBegin, DoneReclaim, DoneMissed, DoneComplete, DoneFail
<1>8. ASSUME NEW t \in Tasks, Read(t) \/ ExecutionRead(t) \/ Generate(t)
      PROVE  UNCHANGED <<order, charges>>
  BY <1>8 DEF Read, Asked, ExecutionRead, Generate
<1>9. ASSUME NEW o \in Orders, Expire(o) PROVE UNCHANGED <<order, charges>>
  BY <1>9 DEF Expire
<1> QED
  BY <1>1, <1>2, <1>3, <1>4, <1>5, <1>6, <1>7, <1>8, <1>9 DEF Next, RequestStep, vars

-------------------------------------------------------------------------------
(* Tasks.                                                                  *)

(* A task nobody moves goes on knowing what it knows.                      *)
LEMMA Unmoved ==
    ASSUME TypeOK, Working, Final, NEW u \in Tasks,
           task'[u].op = task[u].op, task'[u].phase = task[u].phase, task'[u].of = task[u].of,
           task'[u].to = task[u].to, task'[u].amount = task[u].amount
    PROVE  WorksWell(u)'
  BY DEF Working, WorksWell, Final

LEMMA Ended ==
    ASSUME TypeOK, NEW t \in Tasks, Ends(t)
    PROVE  WorksWell(t)'
  BY DEF Ends, IdleTask, WorksWell, TypeOK

LEMMA MovedOn ==
    ASSUME TypeOK, Working, Final, NEW t \in Tasks, NEW phase, task[t].phase # "idle",
           Goes(t, phase),
           phase \in {"begin", "reclaim", "write", "finish", "failing"} => task[t].op \in {"done", "undated"},
           phase # "reserve",
           phase \in ChargePhases => task[t].amount \in Amounts,
           (phase \in {"create", "finish"} \/ (phase \in ChargePhases /\ task[t].op = "done"))
                => order'[task[t].of].status = "DONE",
           phase = "created" => charges'[task[t].of] # <<>>
    PROVE  WorksWell(t)'
<1>1. task'[t] = [task[t] EXCEPT !.phase = phase]
  BY DEF Goes, TypeOK
<1>2. /\ task'[t].op = task[t].op /\ task'[t].of = task[t].of /\ task'[t].to = task[t].to
      /\ task'[t].amount = task[t].amount /\ task'[t].phase = phase
  BY <1>1 DEF TypeOK, Task
<1>3. /\ task[t].of \in Orders
      /\ task[t].op \in {"edit", "done", "undated"} => task[t].amount \in Amounts
      /\ task[t].op = "edit" => task[t].to # "DONE"
  BY DEF Working, WorksWell
<1>4. task'[t].phase \in DonePhases => task'[t].op \in {"done", "undated"}
  BY <1>2 DEF DonePhases
<1>5. \/ task'[t].phase \in {"create", "finish"}
      \/ task'[t].phase \in ChargePhases /\ task'[t].op = "done"
      => order'[task'[t].of].status = "DONE"
  BY <1>2
<1>6. task'[t].phase = "created" => charges'[task'[t].of] # <<>>
  BY <1>2
<1> QED
  BY <1>2, <1>3, <1>4, <1>5, <1>6 DEF WorksWell

LEMMA Others ==
    ASSUME TypeOK, NEW t \in Tasks, NEW u \in Tasks \ {t}, (\E phase : Goes(t, phase)) \/ Ends(t)
    PROVE  task'[u] = task[u]
  BY DEF TypeOK, Goes, Ends

LEMMA TouchedSame ==
    ASSUME TypeOK, NEW u \in Tasks, NEW o
    PROVE  /\ Touched(o)[u].op = task[u].op
           /\ Touched(o)[u].phase = task[u].phase
           /\ Touched(o)[u].of = task[u].of
           /\ Touched(o)[u].to = task[u].to
           /\ Touched(o)[u].amount = task[u].amount
<1>1. Touched(o)[u] = task[u] \/ Touched(o)[u] = [task[u] EXCEPT !.fresh = FALSE]
  BY DEF Touched
<1>2. task[u] \in Task
  BY DEF TypeOK
<1> QED
  BY <1>1, <1>2 DEF Task

(* The caller is told that the order is charged, or not.                   *)
LEMMA ReturnsWell ==
    ASSUME TypeOK, Working, Final, NEW t \in Tasks, task[t].phase \in ChargePhases,
           NEW outcome, Returns(t, outcome)
    PROVE  \A u \in Tasks : WorksWell(u)'
<1>0. task[t].phase # "idle"
  BY DEF ChargePhases
<1>1. ASSUME NEW u \in Tasks \ {t} PROVE WorksWell(u)'
  <2>1. (\E phase : Goes(t, phase)) \/ Ends(t)
    BY DEF Returns
  <2> QED
    BY <1>1, <2>1, Others, Unmoved
<1>2. CASE task[t].op = "done"
  <2>1. PICK phase \in {"finish", "failing"} : Goes(t, phase)
    BY <1>2 DEF Returns
  <2>2. order'[task[t].of].status = "DONE"
    BY <1>0, <1>2 DEF Working, WorksWell, Final
  <2>3. WorksWell(t)'
    BY <1>0, <1>2, <2>1, <2>2, MovedOn DEF ChargePhases
  <2> QED
    BY <1>1, <2>3
<1>3. CASE task[t].op # "done"
  <2>1. Ends(t)
    BY <1>3 DEF Returns
  <2> QED
    BY <1>1, <2>1, Ended
<1> QED
  BY <1>2, <1>3

LEMMA TouchedWell ==
    ASSUME TypeOK, Working, Final, NEW u \in Tasks, NEW o, task'[u] = Touched(o)[u]
    PROVE  WorksWell(u)'
  BY TouchedSame, Unmoved

(* A task that is new or is at an end: everybody else is where he was.     *)
LEMMA StartedWell ==
    ASSUME TypeOK, Working, Final, NEW t \in Tasks, NEW x,
           task' = [task EXCEPT ![t] = x],
           x.of \in Orders, x.phase \in {"read", "begin", "reserve", "charge"},
           x.amount \in Amounts \/ (x.phase = "read" /\ x.op \in {"start", "complete"}),
           x.op = "edit" => x.to # "DONE",
           x.phase = "begin" => x.op \in {"done", "undated"},
           x.phase = "reserve" => x.op = "run",
           x.phase = "charge" => x.op # "done"
    PROVE  \A u \in Tasks : WorksWell(u)'
<1>1. ASSUME NEW u \in Tasks \ {t} PROVE WorksWell(u)'
  BY <1>1, Unmoved DEF TypeOK
<1>2. task'[t] = x
  BY DEF TypeOK
<1>3. WorksWell(t)'
  BY <1>2 DEF WorksWell, DonePhases, ChargePhases
<1> QED
  BY <1>1, <1>3

LEMMA WorkingStep ==
    ASSUME TypeOK, ChargedIsDone, RecordsTellTheTruth, Working, Editing, [Next]_vars
    PROVE  Working'
<1>0. Final /\ task \in [Tasks -> Task]
  BY FinalStep DEF TypeOK
<1>1. SUFFICES \A u \in Tasks : WorksWell(u)'
  BY <1>1 DEF Working, WorksWell
<1>2. ASSUME NEW q \in Tasks, Read(q) PROVE \A u \in Tasks : WorksWell(u)'
  <2>1. PICK o \in Orders, to \in Statuses, a \in Amounts,
             op \in {"edit", "done", "undated"}, fresh \in BOOLEAN : Asked(q, o, to, a, op, fresh)
    BY <1>2 DEF Read
  <2> DEFINE x == [op |-> op, phase |-> IF op = "edit" THEN "read" ELSE "begin", of |-> o,
                   to |-> to, amount |-> a, due |-> FALSE, fresh |-> fresh]
  <2>2. task' = [task EXCEPT ![q] = x] /\ (op = "edit" => to # "DONE")
    BY <2>1 DEF Asked
  <2>3. /\ x.of \in Orders /\ x.phase \in {"read", "begin"} /\ x.amount \in Amounts
        /\ x.op = "edit" => x.to # "DONE"
        /\ x.phase = "begin" => x.op \in {"done", "undated"}
    BY <2>2
  <2> HIDE DEF x
  <2> QED
    BY <1>0, <2>2, <2>3, StartedWell
<1>3. ASSUME NEW q \in Tasks, ExecutionRead(q) PROVE \A u \in Tasks : WorksWell(u)'
  <2>1. PICK o \in Orders, op \in {"start", "complete"} :
            task' = [task EXCEPT ![q] = [IdleTask EXCEPT !.op = op, !.phase = "read", !.of = o]]
    BY <1>3 DEF ExecutionRead
  <2> DEFINE x == [IdleTask EXCEPT !.op = op, !.phase = "read", !.of = o]
  <2>2. x.of \in Orders /\ x.phase = "read" /\ x.op \in {"start", "complete"}
    BY DEF IdleTask
  <2>3. task' = [task EXCEPT ![q] = x]
    BY <2>1
  <2> HIDE DEF x
  <2> QED
    BY <1>0, <2>2, <2>3, StartedWell
<1>4. ASSUME NEW q \in Tasks, Generate(q) \/ Consider(q) PROVE \A u \in Tasks : WorksWell(u)'
  <2>1. PICK o \in Orders, op \in {"generate", "run"}, phase \in {"charge", "reserve"} :
           /\ phase = "reserve" => op = "run"
           /\ task' = [task EXCEPT ![q] = [IdleTask EXCEPT !.op = op, !.phase = phase, !.of = o,
                                               !.amount = order[o].amount, !.due = order[o].due]]
    BY <1>4 DEF Generate, Consider
  <2> DEFINE x == [IdleTask EXCEPT !.op = op, !.phase = phase, !.of = o,
                                   !.amount = order[o].amount, !.due = order[o].due]
  <2>2. /\ x.of \in Orders /\ x.phase \in {"charge", "reserve"} /\ x.op \in {"generate", "run"}
        /\ x.phase = "reserve" => x.op = "run"
        /\ x.amount \in Amounts
    BY <2>1 DEF IdleTask, TypeOK, Order
  <2>3. task' = [task EXCEPT ![q] = x]
    BY <2>1
  <2> HIDE DEF x
  <2> QED
    BY <1>0, <2>2, <2>3, StartedWell
<1>5. ASSUME NEW q \in Tasks, EditWrite(q) \/ StartWrite(q) PROVE \A u \in Tasks : WorksWell(u)'
  <2>1. task' = [Touched(task[q].of) EXCEPT ![q] = IdleTask]
    BY <1>5 DEF EditWrite, StartWrite
  <2>2. task'[q] = IdleTask /\ \A u \in Tasks \ {q} : task'[u] = Touched(task[q].of)[u]
    BY <2>1 DEF Touched
  <2>3. WorksWell(q)'
    BY <2>2 DEF WorksWell, IdleTask
  <2> QED
    BY <1>0, <2>2, <2>3, TouchedWell
<1>6. ASSUME NEW q \in Tasks, CompleteWrite(q) PROVE \A u \in Tasks : WorksWell(u)'
  <2>1. PICK o \in Orders : task[q].of = o
    BY <1>6 DEF CompleteWrite, Working, WorksWell
  <2>2. \A u \in Tasks \ {q} : task'[u] = Touched(o)[u]
    BY <1>6, <2>1 DEF CompleteWrite, Touched
  <2>3. ASSUME task'[q] = IdleTask PROVE WorksWell(q)'
    BY <2>3 DEF WorksWell, IdleTask
  <2>4. ASSUME task'[q] = [task[q] EXCEPT !.phase = "charge", !.amount = order[o].amount,
                                          !.due = order[o].due]
        PROVE  WorksWell(q)'
    <3>1. task[q] \in Task /\ order[o].amount \in Amounts /\ task[q].op = "complete"
      BY <1>0, <1>6 DEF CompleteWrite, TypeOK, Order
    <3>2. /\ task'[q].of = o /\ task'[q].op = "complete" /\ task'[q].phase = "charge"
          /\ task'[q].amount = order[o].amount
      BY <2>1, <2>4, <3>1 DEF Task
    <3> QED
      BY <3>1, <3>2 DEF WorksWell, DonePhases
  <2>5. WorksWell(q)'
    BY <1>6, <2>1, <2>3, <2>4 DEF CompleteWrite, Touched
  <2> QED
    BY <1>0, <2>2, <2>5, TouchedWell
<1>7. ASSUME NEW q \in Tasks, DoneWrite(q) PROVE \A u \in Tasks : WorksWell(u)'
  <2>1. PICK o \in Orders : task[q].of = o
    BY <1>7, DonePayloadType DEF DoneWrite, DonePhases
  <2>2. task[q].amount \in Amounts /\ task[q].op \in {"done", "undated"}
    BY <1>7 DEF DoneWrite, Working, WorksWell, DonePhases
  <2>3. order'[o].status = "DONE"
    BY <1>7, <2>1 DEF DoneWrite, TypeOK, Order
  <2>4. PICK phase \in {"charge", "finish"} :
            task' = [Touched(o) EXCEPT ![q].fresh = FALSE, ![q].phase = phase]
    BY <1>7, <2>1 DEF DoneWrite
  <2>5. Touched(o) \in [Tasks -> Task]
    BY TouchedType
  <2>6. /\ task'[q].of = o /\ task'[q].op = task[q].op /\ task'[q].amount = task[q].amount
        /\ task'[q].phase = phase
    BY <2>1, <2>4, <2>5, TouchedSame DEF Task
  <2>7. WorksWell(q)'
    BY <2>2, <2>3, <2>6 DEF WorksWell, DonePhases
  <2>8. \A u \in Tasks \ {q} : task'[u] = Touched(o)[u]
    BY <2>4, <2>5
  <2> QED
    BY <1>0, <2>7, <2>8, TouchedWell
<1>8. ASSUME NEW q \in Tasks, NEW phase, Goes(q, phase), task[q].phase # "idle", WorksWell(q)'
      PROVE  \A u \in Tasks : WorksWell(u)'
  BY <1>0, <1>8, Others, Unmoved
<1>9. ASSUME NEW q \in Tasks, Ends(q) PROVE \A u \in Tasks : WorksWell(u)'
  BY <1>0, <1>9, Others, Unmoved, Ended
<1>10. ASSUME NEW q \in Tasks, DoneBegin(q) \/ DoneReclaim(q) PROVE \A u \in Tasks : WorksWell(u)'
  <2>1. task[q].phase # "idle" /\ task[q].op \in {"done", "undated"}
    BY <1>10 DEF DoneBegin, DoneReclaim, Working, WorksWell, DonePhases
  <2>2. CASE Goes(q, "write")
    BY <1>0, <1>8, <2>1, <2>2, MovedOn DEF ChargePhases
  <2>3. CASE Goes(q, "reclaim")
    BY <1>0, <1>8, <2>1, <2>3, MovedOn DEF ChargePhases
  <2> QED
    BY <1>9, <1>10, <2>2, <2>3 DEF DoneBegin, DoneReclaim, Begun
<1>11. ASSUME NEW q \in Tasks, DoneMissed(q) PROVE \A u \in Tasks : WorksWell(u)'
  <2>1. task[q].phase # "idle" /\ task[q].op \in {"done", "undated"}
    BY <1>11 DEF DoneMissed, Working, WorksWell, DonePhases
  <2>2. UNCHANGED order
    BY <1>11 DEF DoneMissed
  <2>3. CASE Goes(q, "finish") /\ AlreadyDone(task[q].of)
    BY <1>0, <1>8, <2>1, <2>2, <2>3, MovedOn DEF ChargePhases, AlreadyDone
  <2>4. CASE Goes(q, "failing")
    BY <1>0, <1>8, <2>1, <2>4, MovedOn DEF ChargePhases
  <2> QED
    BY <1>11, <2>3, <2>4 DEF DoneMissed
<1>12. ASSUME NEW q \in Tasks, RequestError(q) PROVE \A u \in Tasks : WorksWell(u)'
  BY <1>0, <1>8, <1>12, MovedOn DEF RequestError, ChargePhases
<1>13. ASSUME NEW t \in Tasks, Reserve(t) PROVE \A u \in Tasks : WorksWell(u)'
  <2>1. task[t].amount \in Amounts /\ task[t].phase # "idle"
    BY <1>13 DEF Reserve, Working, WorksWell
  <2>2. CASE Goes(t, "charge")
    <3>1. task[t].op # "done"
      BY <1>13 DEF Reserve, Working, WorksWell
    <3> QED
      BY <1>0, <1>8, <2>1, <2>2, <3>1, MovedOn DEF ChargePhases
  <2> QED
    BY <1>9, <1>13, <2>2 DEF Reserve
<1>14. ASSUME NEW t \in Tasks, NEW phase \in {"charge reclaim", "look", "charge failing"},
              task[t].phase \in ChargePhases, Goes(t, phase)
       PROVE  \A u \in Tasks : WorksWell(u)'
  <2>1. /\ task[t].phase # "idle" /\ task[t].amount \in Amounts
        /\ task[t].op = "done" => order'[task[t].of].status = "DONE"
    BY <1>0, <1>14 DEF Working, WorksWell, ChargePhases, Final
  <2> QED
    BY <1>0, <1>8, <1>14, <2>1, MovedOn
<1>15. ASSUME NEW t \in Tasks, NEW outcome, task[t].phase \in ChargePhases, Returns(t, outcome)
       PROVE  \A u \in Tasks : WorksWell(u)'
  BY <1>0, <1>15, ReturnsWell
<1>16. ASSUME NEW t \in Tasks, ChargeBegin(t) \/ ChargeReclaim(t) PROVE \A u \in Tasks : WorksWell(u)'
  <2>1. task[t].phase \in ChargePhases
    BY <1>16 DEF ChargeBegin, ChargeReclaim, ChargePhases
  <2>2. (\E phase \in {"charge reclaim", "look"} : Goes(t, phase)) \/ \E outcome : Returns(t, outcome)
    BY <1>16 DEF ChargeBegin, ChargeReclaim
  <2> QED
    BY <1>14, <1>15, <2>1, <2>2
<1>17. ASSUME NEW t \in Tasks, Look(t) PROVE \A u \in Tasks : WorksWell(u)'
  <2>1. /\ task[t].phase # "idle" /\ task[t].amount \in Amounts /\ task[t].of \in Orders
        /\ UNCHANGED <<order, charges>>
    BY <1>17 DEF Look, Working, WorksWell, ChargePhases
  <2>2. CASE Goes(t, "charge failing")
    BY <1>14, <1>17, <2>2 DEF Look, ChargePhases
  <2>3. CASE Goes(t, "create") /\ Eligible(task[t].of)
    BY <1>0, <1>8, <2>1, <2>3, MovedOn DEF Eligible
  <2>4. CASE Goes(t, "created") /\ charges[task[t].of] # <<>>
    <3>1. order'[task[t].of].status = "DONE"
      BY <2>1, <2>4 DEF ChargedIsDone
    <3> QED
      BY <1>0, <1>8, <2>1, <2>4, <3>1, MovedOn
  <2> QED
    BY <1>17, <2>2, <2>3, <2>4 DEF Look, Uncharged
<1>18. ASSUME NEW t \in Tasks, CreateCharge(t) PROVE \A u \in Tasks : WorksWell(u)'
  <2>1. /\ task[t].phase # "idle" /\ task[t].amount \in Amounts /\ task[t].of \in Orders
        /\ order'[task[t].of].status = "DONE"
    BY <1>18 DEF CreateCharge, Working, WorksWell, ChargePhases
  <2>2. charges'[task[t].of] # <<>>
    BY <1>18, <2>1, Longer DEF CreateCharge, TypeOK
  <2> QED
    BY <1>0, <1>8, <1>18, <2>1, <2>2, MovedOn DEF CreateCharge
<1>19. ASSUME NEW t \in Tasks, ChargeComplete(t) \/ ChargeFail(t) \/ ChargeError(t)
       PROVE  \A u \in Tasks : WorksWell(u)'
  <2>1. task[t].phase \in ChargePhases
    BY <1>19 DEF ChargeComplete, ChargeFail, ChargeError, ChargePhases
  <2>2. Goes(t, "charge failing") \/ \E outcome : Returns(t, outcome)
    BY <1>19 DEF ChargeComplete, ChargeFail, ChargeError
  <2> QED
    BY <1>14, <1>15, <2>1, <2>2
<1>20. CASE UNCHANGED task
  BY <1>0, <1>20, Unmoved
<1>21. ASSUME NEW q \in Tasks, DoneStep(q) PROVE \A u \in Tasks : WorksWell(u)'
  BY <1>7, <1>9, <1>10, <1>11, <1>21 DEF DoneStep, DoneComplete, DoneFail
<1>22. ASSUME NEW t \in Tasks, ChargeStep(t) \/ ChargeError(t) PROVE \A u \in Tasks : WorksWell(u)'
  BY <1>16, <1>17, <1>18, <1>19, <1>22 DEF ChargeStep
<1>23. ASSUME NEW t \in Tasks, RunnerStep(t) PROVE \A u \in Tasks : WorksWell(u)'
  BY <1>4, <1>13, <1>20, <1>23 DEF RunnerStep, Throttle
<1>24. ASSUME NEW q \in Tasks, RequestStep(q) \/ Crash(q) PROVE \A u \in Tasks : WorksWell(u)'
  BY <1>2, <1>3, <1>4, <1>5, <1>6, <1>9, <1>12, <1>21, <1>24 DEF RequestStep, RequestEnd, Crash
<1> QED
  BY <1>1, <1>20, <1>22, <1>23, <1>24 DEF Next, Expire, vars

LEMMA EditingStep ==
    ASSUME TypeOK, Working, Editing, [Next]_vars
    PROVE  Editing'
<1>0. order \in [Orders -> Order] /\ task \in [Tasks -> Task]
  BY DEF TypeOK
<1>1. SUFFICES ASSUME NEW u \in Tasks PROVE SeenActive(u)'
  BY <1>1 DEF Editing, SeenActive
<1>2. ASSUME UNCHANGED order, task'[u] = task[u] PROVE SeenActive(u)'
  BY <1>2 DEF Editing, SeenActive
<1>3. ASSUME task'[u].phase # "read" \/ task'[u].op # "edit" PROVE SeenActive(u)'
  BY <1>3 DEF SeenActive
<1>4. ASSUME NEW o \in Orders, task'[u] = Touched(o)[u],
             \A p \in Orders \ {o} : order'[p] = order[p]
      PROVE  SeenActive(u)'
  <2>1. CASE task[u].of = o
    <3>1. task'[u].fresh = FALSE
      BY <1>0, <1>4, <2>1 DEF Touched, Task
    <3> QED
      BY <3>1 DEF SeenActive
  <2>2. CASE task[u].of # o
    <3>1. task'[u] = task[u]
      BY <1>4, <2>2 DEF Touched
    <3> QED
      BY <1>4, <2>2, <3>1 DEF SeenActive, Editing
  <2> QED
    BY <2>1, <2>2
<1>5. ASSUME NEW t \in Tasks, NEW phase, phase # "read", Goes(t, phase), UNCHANGED order
      PROVE  SeenActive(u)'
  <2>1. CASE u = t
    <3>1. task'[u].phase = phase
      BY <1>0, <1>5, <2>1 DEF Goes, Task
    <3> QED
      BY <1>3, <1>5, <3>1
  <2>2. CASE u # t
    BY <1>2, <1>5, <2>2, Others
  <2> QED
    BY <2>1, <2>2
<1>6. ASSUME NEW t \in Tasks, Ends(t), UNCHANGED order PROVE SeenActive(u)'
  <2>1. CASE u = t
    BY <1>0, <1>3, <1>6, <2>1 DEF Ends, IdleTask
  <2>2. CASE u # t
    BY <1>2, <1>6, <2>2, Others
  <2> QED
    BY <2>1, <2>2
<1>7. ASSUME NEW q \in Tasks, Read(q) PROVE SeenActive(u)'
  <2>1. PICK o \in Orders, to \in Statuses, a \in Amounts,
             op \in {"edit", "done", "undated"}, fresh \in BOOLEAN : Asked(q, o, to, a, op, fresh)
    BY <1>7 DEF Read
  <2>2. CASE u = q
    <3>1. task'[u].of = o /\ order'[o].status \in Active
      BY <1>0, <2>1, <2>2 DEF Asked
    <3> QED
      BY <3>1 DEF SeenActive
  <2>3. CASE u # q
    BY <1>0, <1>2, <2>1, <2>3 DEF Asked
  <2> QED
    BY <2>2, <2>3
<1>8. ASSUME NEW q \in Tasks, ExecutionRead(q) \/ Generate(q) \/ Consider(q) PROVE SeenActive(u)'
  <2>1. UNCHANGED order
    BY <1>8 DEF ExecutionRead, Generate, Consider
  <2>2. CASE u = q
    <3>1. task'[u].op # "edit"
      BY <1>0, <1>8, <2>2 DEF ExecutionRead, Generate, Consider, IdleTask
    <3> QED
      BY <1>3, <3>1
  <2>3. CASE u # q
    BY <1>0, <1>2, <1>8, <2>1, <2>3 DEF ExecutionRead, Generate, Consider
  <2> QED
    BY <2>2, <2>3
<1>9. ASSUME NEW q \in Tasks,
             EditWrite(q) \/ StartWrite(q) \/ CompleteWrite(q) \/ DoneWrite(q)
      PROVE  SeenActive(u)'
  <2>1. PICK o \in Orders : task[q].of = o
    BY <1>9, DonePayloadType DEF EditWrite, StartWrite, CompleteWrite, DoneWrite, Working,
       WorksWell, DonePhases
  <2>2. \A p \in Orders \ {o} : order'[p] = order[p]
    BY <1>0, <1>9, <2>1 DEF EditWrite, StartWrite, CompleteWrite, DoneWrite
  <2>3. CASE u # q
    <3>1. task'[u] = Touched(o)[u]
      BY <1>9, <2>1, <2>3 DEF EditWrite, StartWrite, CompleteWrite, DoneWrite, Touched
    <3> QED
      BY <1>4, <2>2, <3>1
  <2>4. CASE u = q /\ ~ DoneWrite(q)
    <3>1. task'[q].op # "edit"
      <4>1. task'[q] = IdleTask \/ task'[q] = [task[q] EXCEPT !.phase = "charge",
                                      !.amount = order[o].amount, !.due = order[o].due]
        BY <1>9, <2>1, <2>4 DEF EditWrite, StartWrite, CompleteWrite, Touched
      <4>2. CASE task'[q] = IdleTask
        BY <4>2 DEF IdleTask
      <4>3. CASE task'[q] # IdleTask
        <5>1. task[q].op = "complete"
          BY <1>9, <2>1, <2>4, <4>3 DEF EditWrite, StartWrite, CompleteWrite, Touched
        <5> QED
          BY <1>0, <4>1, <4>3, <5>1 DEF Task
      <4> QED
        BY <4>2, <4>3
    <3> QED
      BY <1>3, <2>4, <3>1
  <2>5. CASE u = q /\ DoneWrite(q)
    <3>1. PICK phase \in {"charge", "finish"} :
              task' = [Touched(o) EXCEPT ![q].fresh = FALSE, ![q].phase = phase]
      BY <2>1, <2>5 DEF DoneWrite
    <3>2. task'[q].phase = phase
      BY <3>1, TouchedType DEF Task
    <3> QED
      BY <1>3, <2>5, <3>2
  <2> QED
    BY <2>3, <2>4, <2>5
<1>10. ASSUME NEW q \in Tasks, DoneStep(q), ~ DoneWrite(q) PROVE SeenActive(u)'
  BY <1>5, <1>6, <1>10 DEF DoneStep, DoneBegin, DoneReclaim, Begun, DoneMissed, DoneComplete, DoneFail
<1>11. ASSUME NEW t \in Tasks, NEW outcome, Returns(t, outcome), UNCHANGED order PROVE SeenActive(u)'
  BY <1>5, <1>6, <1>11 DEF Returns
<1>12. ASSUME NEW t \in Tasks, ChargeStep(t) \/ ChargeError(t) PROVE SeenActive(u)'
  BY <1>5, <1>11, <1>12 DEF ChargeStep, ChargeBegin, ChargeReclaim, Look, CreateCharge,
     ChargeComplete, ChargeFail, ChargeError
<1>13. ASSUME NEW t \in Tasks, Reserve(t) \/ RequestError(t) \/ Crash(t) \/ RequestEnd(t)
       PROVE  SeenActive(u)'
  BY <1>5, <1>6, <1>13 DEF Reserve, RequestError, Crash, RequestEnd
<1>14. CASE UNCHANGED <<order, task>>
  BY <1>2, <1>14
<1> QED
  BY <1>7, <1>8, <1>9, <1>10, <1>12, <1>13, <1>14
     DEF Next, RequestStep, RunnerStep, Throttle, Expire, vars

-------------------------------------------------------------------------------
(* The properties.                                                         *)
LEMMA ChargedIsDoneStep ==
    ASSUME TypeOK, ChargedIsDone, Working, Editing, [Next]_vars
    PROVE  ChargedIsDone'
<1>0. Final /\ charges \in [Orders -> Seq(Amounts)]
  BY FinalStep DEF TypeOK
<1>1. CASE UNCHANGED charges
  BY <1>0, <1>1 DEF Final, ChargedIsDone
<1>2. ASSUME NEW t \in Tasks, CreateCharge(t) \/ ChargeError(t),
             charges' = [charges EXCEPT ![task[t].of] = Append(@, task[t].amount)],
             task[t].phase = "create"
      PROVE  ChargedIsDone'
  <2>1. task[t].of \in Orders /\ order[task[t].of].status = "DONE"
    BY <1>2 DEF Working, WorksWell
  <2>2. \A o \in Orders \ {task[t].of} : charges'[o] = charges[o]
    BY <1>0, <1>2
  <2> QED
    BY <1>0, <2>1, <2>2 DEF Final, ChargedIsDone
<1>3. ASSUME NEW t \in Tasks, CreateCharge(t) \/ ChargeError(t) PROVE ChargedIsDone'
  BY <1>1, <1>2, <1>3 DEF CreateCharge, ChargeError
<1>4. ASSUME NEW t \in Tasks, ChargeStep(t) PROVE ChargedIsDone'
  BY <1>1, <1>3, <1>4 DEF ChargeStep, ChargeBegin, ChargeReclaim, Look, ChargeComplete, ChargeFail
<1>5. ASSUME NEW t \in Tasks, DoneStep(t) PROVE UNCHANGED charges
  BY <1>5 DEF DoneStep, DoneBegin, DoneReclaim, DoneWrite, DoneMissed, DoneComplete, DoneFail
<1>6. ASSUME NEW t \in Tasks, RequestStep(t) \/ RunnerStep(t) \/ Crash(t) PROVE UNCHANGED charges
  BY <1>5, <1>6 DEF RequestStep, Read, Asked, EditWrite, ExecutionRead, StartWrite, CompleteWrite,
     Generate, RequestEnd, RequestError, RunnerStep, Consider, Throttle, Reserve, Crash
<1> QED
  BY <1>1, <1>3, <1>4, <1>6 DEF Next, Expire, vars

(* A record is written by one of these, or not at all.                     *)
LEMMA ChargeRecords ==
    ASSUME [Next]_vars
    PROVE  \/ UNCHANGED chargeKey
           \/ \E t \in Tasks :
                 \/ task[t].phase \in ChargePhases /\ ChargeKey!Create(Key(t), Key(t))
                 \/ task[t].phase \in ChargePhases /\ ChargeKey!Reclaim(Key(t))
                 \/ task[t].phase = "created" /\ ChargeKey!Complete(Key(t))
                 \/ task[t].phase \in ChargePhases /\ ChargeKey!Failed(Key(t))
<1>1. ASSUME NEW t \in Tasks, ChargeStep(t)
      PROVE  \/ UNCHANGED chargeKey
             \/ task[t].phase \in ChargePhases /\ ChargeKey!Create(Key(t), Key(t))
             \/ task[t].phase \in ChargePhases /\ ChargeKey!Reclaim(Key(t))
             \/ task[t].phase = "created" /\ ChargeKey!Complete(Key(t))
             \/ task[t].phase \in ChargePhases /\ ChargeKey!Failed(Key(t))
  <2>1. CASE ChargeBegin(t)
    BY <2>1 DEF ChargeBegin, ChargePhases
  <2>2. CASE ChargeReclaim(t) \/ ChargeComplete(t) \/ ChargeFail(t)
    BY <2>2 DEF ChargeReclaim, ChargeComplete, ChargeFail, ChargePhases
  <2>3. CASE Look(t) \/ CreateCharge(t)
    BY <2>3 DEF Look, CreateCharge, keyVars
  <2> QED
    BY <1>1, <2>1, <2>2, <2>3 DEF ChargeStep
<1>2. ASSUME NEW t \in Tasks, DoneStep(t) PROVE UNCHANGED chargeKey
  BY <1>2 DEF DoneStep, DoneBegin, DoneReclaim, DoneWrite, DoneMissed, DoneComplete, DoneFail, keyVars
<1>3. ASSUME NEW t \in Tasks, RequestStep(t) \/ RunnerStep(t) \/ ChargeError(t) \/ Crash(t)
      PROVE  UNCHANGED chargeKey
  BY <1>2, <1>3 DEF RequestStep, Read, Asked, EditWrite, ExecutionRead, StartWrite, CompleteWrite,
     Generate, RequestEnd, RequestError, RunnerStep, Consider, Throttle, Reserve, ChargeError, Crash,
     keyVars
<1>4. ASSUME NEW o \in Orders, Expire(o) PROVE UNCHANGED chargeKey
  BY <1>4 DEF Expire, keyVars
<1> QED
  BY <1>1, <1>3, <1>4 DEF Next, vars

LEMMA DoneRecords ==
    ASSUME [Next]_vars
    PROVE  \/ UNCHANGED doneKey
           \/ \E q \in Tasks :
                 /\ task[q].phase \in DonePhases
                 /\ \/ DoneKey!Create(task[q].of, DonePayload(q))
                    \/ DoneKey!Reclaim(task[q].of)
                    \/ task[q].phase = "finish" /\ DoneKey!Complete(task[q].of)
                    \/ DoneKey!Failed(task[q].of)
<1>1. ASSUME NEW q \in Tasks, DoneStep(q)
      PROVE  \/ UNCHANGED doneKey
             \/ /\ task[q].phase \in DonePhases
                /\ \/ DoneKey!Create(task[q].of, DonePayload(q))
                   \/ DoneKey!Reclaim(task[q].of)
                   \/ task[q].phase = "finish" /\ DoneKey!Complete(task[q].of)
                   \/ DoneKey!Failed(task[q].of)
  <2>1. CASE DoneBegin(q)
    BY <2>1 DEF DoneBegin, DonePhases
  <2>2. CASE DoneReclaim(q) \/ DoneComplete(q) \/ DoneFail(q)
    BY <2>2 DEF DoneReclaim, DoneComplete, DoneFail, DonePhases
  <2>3. CASE DoneWrite(q) \/ DoneMissed(q)
    BY <2>3 DEF DoneWrite, DoneMissed, keyVars
  <2> QED
    BY <1>1, <2>1, <2>2, <2>3 DEF DoneStep
<1>2. ASSUME NEW t \in Tasks, ChargeStep(t) \/ ChargeError(t) \/ RunnerStep(t) \/ Crash(t)
      PROVE  UNCHANGED doneKey
  BY <1>2 DEF ChargeStep, ChargeBegin, ChargeReclaim, Look, CreateCharge, ChargeComplete, ChargeFail,
     ChargeError, RunnerStep, Consider, Throttle, Reserve, Crash, keyVars
<1>3. ASSUME NEW t \in Tasks, RequestStep(t), ~ DoneStep(t) PROVE UNCHANGED doneKey
  BY <1>3 DEF RequestStep, Read, Asked, EditWrite, ExecutionRead, StartWrite, CompleteWrite,
     Generate, RequestEnd, RequestError, keyVars
<1>4. ASSUME NEW o \in Orders, Expire(o) PROVE UNCHANGED doneKey
  BY <1>4 DEF Expire, keyVars
<1> QED
  BY <1>1, <1>2, <1>3, <1>4 DEF Next, vars

LEMMA RecordsStep ==
    ASSUME TypeOK, RecordsTellTheTruth, Working, Editing, [Next]_vars
    PROVE  RecordsTellTheTruth'
<1>0. /\ Final
      /\ chargeKey \in [ChargeKeys -> ChargeKey!Record] /\ doneKey \in [Orders -> DoneKey!Record]
  BY FinalStep DEF TypeOK, ChargeKey!IdempotencyTypeOK, DoneKey!IdempotencyTypeOK
<1>1. ASSUME NEW k \in ChargeKeys, chargeKey'[k].status = "COMPLETED" PROVE charges'[k[1]] # <<>>
  <2>0. k[1] \in Orders
    BY DEF ChargeKeys
  <2>1. CASE chargeKey'[k] = chargeKey[k]
    BY <1>0, <1>1, <2>0, <2>1 DEF RecordsTellTheTruth, Final
  <2>2. CASE chargeKey'[k] # chargeKey[k]
    <3>1. PICK t \in Tasks :
             /\ task[t].phase \in ChargePhases
             /\ \/ ChargeKey!Create(Key(t), Key(t))
                \/ ChargeKey!Reclaim(Key(t))
                \/ task[t].phase = "created" /\ ChargeKey!Complete(Key(t))
                \/ ChargeKey!Failed(Key(t))
      BY <2>2, ChargeRecords DEF ChargePhases
    <3>2. Key(t) \in ChargeKeys
      BY <3>1, KeyType
    <3>3. k = Key(t)
      BY <1>0, <2>2, <3>1, <3>2 DEF ChargeKey!Create, ChargeKey!Reclaim, ChargeKey!Complete,
         ChargeKey!Failed
    <3>4. task[t].phase = "created"
      BY <1>0, <1>1, <3>1, <3>2, <3>3 DEF ChargeKey!Create, ChargeKey!Reclaim, ChargeKey!Failed,
         ChargeKey!Record
    <3>5. charges[task[t].of] # <<>> /\ task[t].of \in Orders
      BY <3>4 DEF Working, WorksWell
    <3> QED
      BY <1>0, <3>3, <3>5 DEF Final, Key
  <2> QED
    BY <2>1, <2>2
<1>2. ASSUME NEW o \in Orders, doneKey'[o].status = "COMPLETED" PROVE order'[o].status = "DONE"
  <2>1. CASE doneKey'[o] = doneKey[o]
    BY <1>0, <1>2, <2>1 DEF RecordsTellTheTruth, Final
  <2>2. CASE doneKey'[o] # doneKey[o]
    <3>1. PICK q \in Tasks :
             /\ task[q].phase \in DonePhases
             /\ \/ DoneKey!Create(task[q].of, DonePayload(q))
                \/ DoneKey!Reclaim(task[q].of)
                \/ task[q].phase = "finish" /\ DoneKey!Complete(task[q].of)
                \/ DoneKey!Failed(task[q].of)
      BY <2>2, DoneRecords
    <3>2. task[q].of \in Orders
      BY <3>1, DonePayloadType
    <3>3. o = task[q].of
      BY <1>0, <2>2, <3>1, <3>2 DEF DoneKey!Create, DoneKey!Reclaim, DoneKey!Complete, DoneKey!Failed
    <3>4. task[q].phase = "finish"
      BY <1>0, <1>2, <3>1, <3>3 DEF DoneKey!Create, DoneKey!Reclaim, DoneKey!Failed, DoneKey!Record
    <3>5. order[o].status = "DONE"
      BY <3>3, <3>4 DEF Working, WorksWell
    <3> QED
      BY <1>0, <3>5 DEF Final
  <2> QED
    BY <2>1, <2>2
<1> QED
  BY <1>1, <1>2 DEF RecordsTellTheTruth

LEMMA AnnouncedOnceStep ==
    ASSUME TypeOK, AnnouncedOnce, Working, Editing, [Next]_vars
    PROVE  AnnouncedOnce'
<1>0. /\ Final /\ completed \in [Orders -> Nat] /\ order \in [Orders -> Order]
  BY FinalStep DEF TypeOK
<1>1. CASE UNCHANGED completed
  <2>1. SUFFICES ASSUME NEW o \in Orders
                 PROVE  completed[o] <= (IF order'[o].status = "DONE" THEN 1 ELSE 0)
    BY <1>1, <2>1 DEF AnnouncedOnce
  <2>2. completed[o] \in Nat /\ completed[o] <= (IF order[o].status = "DONE" THEN 1 ELSE 0)
    BY <1>0 DEF AnnouncedOnce
  <2>3. order[o].status = "DONE" => order'[o].status = "DONE"
    BY <1>0 DEF Final
  <2> QED
    BY <2>2, <2>3
<1>2. ASSUME NEW q \in Tasks, DoneWrite(q) PROVE AnnouncedOnce'
  <2>1. PICK o \in Orders : task[q].of = o
    BY <1>2, DonePayloadType DEF DoneWrite, DonePhases
  <2>2. order[o].status = "IN_PROGRESS" /\ order'[o].status = "DONE"
    BY <1>0, <1>2, <2>1 DEF DoneWrite, Order
  <2>3. completed[o] = 0
    BY <1>0, <2>2 DEF AnnouncedOnce
  <2>4. /\ completed'[o] = completed[o] + 1
        /\ \A p \in Orders \ {o} : completed'[p] = completed[p] /\ order'[p] = order[p]
    BY <1>0, <1>2, <2>1 DEF DoneWrite
  <2> QED
    BY <2>2, <2>3, <2>4 DEF AnnouncedOnce
<1>3. ASSUME NEW t \in Tasks, ChargeStep(t) \/ ChargeError(t) \/ RunnerStep(t) \/ Crash(t)
      PROVE  UNCHANGED completed
  BY <1>3 DEF ChargeStep, ChargeBegin, ChargeReclaim, Look, CreateCharge, ChargeComplete, ChargeFail,
     ChargeError, RunnerStep, Consider, Throttle, Reserve, Crash
<1>4. ASSUME NEW q \in Tasks, RequestStep(q), ~ DoneStep(q) PROVE UNCHANGED completed
  BY <1>4 DEF RequestStep, Read, Asked, EditWrite, ExecutionRead, StartWrite, CompleteWrite,
     Generate, RequestEnd, RequestError
<1>5. ASSUME NEW q \in Tasks, DoneStep(q), ~ DoneWrite(q) PROVE UNCHANGED completed
  BY <1>5 DEF DoneStep, DoneBegin, DoneReclaim, DoneMissed, DoneComplete, DoneFail
<1> QED
  BY <1>1, <1>2, <1>3, <1>4, <1>5 DEF Next, Expire, vars

(* What is written to a window.                                            *)
LEMMA WindowSteps ==
    ASSUME TypeOK, Working, [Next]_vars
    PROVE  \/ UNCHANGED window
           \/ \E o \in Orders :
                 \/ \E e \in {"executed", "failed", "throttled"} : Log(o, e)
                 \/ FreeToStart(o) /\ Log(o, "started")
                 \/ window[o] # <<>> /\ window' = [window EXCEPT ![o] = Tail(@)]
<1>1. ASSUME NEW t \in Tasks, NEW outcome \in {"executed", "failed"}, Returns(t, outcome),
             task[t].phase \in ChargePhases
      PROVE  UNCHANGED window \/ \E o \in Orders : Log(o, outcome)
  <2>1. task[t].of \in Orders
    BY <1>1 DEF Working, WorksWell, ChargePhases
  <2> QED
    BY <1>1, <2>1 DEF Returns
<1>2. ASSUME NEW t \in Tasks, ChargeStep(t) \/ ChargeError(t)
      PROVE  UNCHANGED window \/ \E o \in Orders : \E e \in {"executed", "failed"} : Log(o, e)
  <2>1. CASE ChargeBegin(t)
    <3>1. UNCHANGED window \/ Returns(t, "executed") \/ Returns(t, "failed")
      BY <2>1 DEF ChargeBegin
    <3> QED
      BY <1>1, <2>1, <3>1 DEF ChargeBegin, ChargePhases
  <2>2. CASE ChargeComplete(t) \/ ChargeFail(t)
    BY <1>1, <2>2 DEF ChargeComplete, ChargeFail, ChargePhases
  <2>3. CASE ChargeError(t)
    <3>1. UNCHANGED window \/ Returns(t, "failed")
      BY <2>3 DEF ChargeError
    <3>2. task[t].phase \in ChargePhases
      BY <2>3 DEF ChargeError, ChargePhases
    <3> QED
      BY <1>1, <3>1, <3>2
  <2>4. CASE ChargeReclaim(t) \/ Look(t) \/ CreateCharge(t)
    BY <2>4 DEF ChargeReclaim, Look, CreateCharge
  <2> QED
    BY <1>2, <2>1, <2>2, <2>3, <2>4 DEF ChargeStep
<1>3. ASSUME NEW t \in Tasks, Reserve(t)
      PROVE  UNCHANGED window \/ \E o \in Orders : FreeToStart(o) /\ Log(o, "started")
  <2>1. task[t].of \in Orders
    BY <1>3 DEF Reserve, Working, WorksWell
  <2> QED
    BY <1>3, <2>1 DEF Reserve
<1>4. ASSUME NEW t \in Tasks, Consider(t) \/ Throttle(t) \/ Crash(t)
      PROVE  UNCHANGED window \/ \E o \in Orders : Log(o, "throttled")
  BY <1>4 DEF Consider, Throttle, Crash
<1>5. ASSUME NEW q \in Tasks, RequestStep(q), ~ DoneStep(q) PROVE UNCHANGED window
  BY <1>5 DEF RequestStep, Read, Asked, EditWrite, ExecutionRead, StartWrite, CompleteWrite,
     Generate, RequestEnd, RequestError
<1>6. ASSUME NEW q \in Tasks, DoneStep(q) PROVE UNCHANGED window
  BY <1>6 DEF DoneStep, DoneBegin, DoneReclaim, DoneWrite, DoneMissed, DoneComplete, DoneFail
<1>7. ASSUME NEW o \in Orders, Expire(o)
      PROVE  window[o] # <<>> /\ window' = [window EXCEPT ![o] = Tail(@)]
  BY <1>7 DEF Expire
<1> QED
  BY <1>2, <1>3, <1>4, <1>5, <1>6, <1>7 DEF Next, RunnerStep, vars

LEMMA OneStartStep ==
    ASSUME TypeOK, OneStartPerWindow, Working, [Next]_vars
    PROVE  OneStartPerWindow'
<1>0. window \in [Orders -> Seq(Events)]
  BY DEF TypeOK
<1>1. CASE UNCHANGED window
  BY <1>1 DEF OneStartPerWindow
<1>2. ASSUME NEW o \in Orders,
             \A p \in Orders \ {o} : window'[p] = window[p],
             \A i, j \in 1..Len(window'[o]) :
                window'[o][i] = "started" /\ window'[o][j] = "started" => i = j
      PROVE  OneStartPerWindow'
  BY <1>2 DEF OneStartPerWindow
<1>3. ASSUME NEW o \in Orders, NEW e \in Events, Log(o, e), e = "started" => FreeToStart(o)
      PROVE  OneStartPerWindow'
  <2> DEFINE n == Len(window[o])
  <2>1. n \in Nat /\ window[o] \in Seq(Events)
    BY <1>0
  <2>2. /\ Len(window'[o]) = n + 1 /\ window'[o][n + 1] = e
        /\ \A i \in 1..n : window'[o][i] = window[o][i]
        /\ \A p \in Orders \ {o} : window'[p] = window[p]
    BY <1>0, <1>3, <2>1 DEF Log
  <2>3. e = "started" => \A i \in 1..n : window[o][i] # "started"
    BY <1>3 DEF FreeToStart, Recent
  <2>4. \A i, j \in 1..n : window[o][i] = "started" /\ window[o][j] = "started" => i = j
    BY DEF OneStartPerWindow
  <2> HIDE DEF n
  <2>5. ASSUME NEW i \in 1..Len(window'[o]), NEW j \in 1..Len(window'[o]),
               window'[o][i] = "started", window'[o][j] = "started"
        PROVE  i = j
    <3>1. (i \in 1..n \/ i = n + 1) /\ (j \in 1..n \/ j = n + 1)
      BY <2>1, <2>2, <2>5
    <3> QED
      BY <2>1, <2>2, <2>3, <2>4, <2>5, <3>1
  <2> QED
    BY <1>2, <2>2, <2>5
<1>4. ASSUME NEW o \in Orders, window[o] # <<>>, window' = [window EXCEPT ![o] = Tail(@)]
      PROVE  OneStartPerWindow'
  <2>1. window[o] \in Seq(Events)
    BY <1>0
  <2>2. /\ Len(window[o]) \in Nat /\ Len(window'[o]) = Len(window[o]) - 1
        /\ \A i \in 1..Len(window'[o]) : window'[o][i] = window[o][i + 1]
        /\ \A p \in Orders \ {o} : window'[p] = window[p]
    BY <1>0, <1>4, <2>1
  <2>3. ASSUME NEW i \in 1..Len(window'[o]), NEW j \in 1..Len(window'[o]),
               window'[o][i] = "started", window'[o][j] = "started"
        PROVE  i = j
    <3>1. i + 1 \in 1..Len(window[o]) /\ j + 1 \in 1..Len(window[o])
      BY <2>2
    <3>2. window[o][i + 1] = "started" /\ window[o][j + 1] = "started"
      BY <2>2, <2>3
    <3>3. i + 1 = j + 1
      BY <3>1, <3>2 DEF OneStartPerWindow
    <3> QED
      BY <2>2, <3>3
  <2> QED
    BY <1>2, <2>2, <2>3
<1> QED
  BY <1>1, <1>3, <1>4, WindowSteps DEF Events

-------------------------------------------------------------------------------
(* IInv is an inductive invariant.                                         *)
LEMMA InvInit == Init => IInv
<1> SUFFICES ASSUME Init PROVE IInv
  OBVIOUS
<1>1. TypeOK
  BY TypeInit
<1>2. ChargedIsDone
  BY DEF Init, ChargedIsDone
<1>3. RecordsTellTheTruth
  BY DEF Init, RecordsTellTheTruth, ChargeKey!IdempotencyInit, DoneKey!IdempotencyInit
<1>4. AnnouncedOnce
  <2>1. \A o \in Orders : completed[o] = 0
    BY DEF Init
  <2>2. SUFFICES ASSUME NEW o \in Orders
                 PROVE  completed[o] <= (IF order[o].status = "DONE" THEN 1 ELSE 0)
    BY <2>2 DEF AnnouncedOnce
  <2>3. (IF order[o].status = "DONE" THEN 1 ELSE 0) \in {0, 1}
    OBVIOUS
  <2> QED
    BY <2>1, <2>3
<1>5. OneStartPerWindow
  BY DEF Init, OneStartPerWindow
<1>6. Working /\ Editing
  BY DEF Init, IdleTask, Working, WorksWell, Editing, SeenActive
<1> QED
  BY <1>1, <1>2, <1>3, <1>4, <1>5, <1>6 DEF IInv

LEMMA InvStep == IInv /\ [Next]_vars => IInv'
  BY TypeStep, ChargedIsDoneStep, RecordsStep, AnnouncedOnceStep, OneStartStep, WorkingStep,
     EditingStep DEF IInv

THEOREM Invariant == Spec => []IInv
  BY InvInit, InvStep, PTL DEF Spec

(* Orders, charges, records, windows and tasks keep their shape.           *)
THEOREM TypeCorrect == Spec => []TypeOK
  BY Invariant, PTL DEF IInv

(* Only orders that are DONE are charged, although the request looks       *)
(* before it creates (ensureChargeForServiceOrderDone).                    *)
THEOREM OnlyDoneIsCharged == Spec => []ChargedIsDone
  BY Invariant, PTL DEF IInv

(* A COMPLETED record speaks of a charge that exists, of an order that is  *)
(* DONE (complete and fail by id).                                         *)
THEOREM StoredAnswersAreTrue == Spec => []RecordsTellTheTruth
  BY Invariant, PTL DEF IInv

(* A completion goes to the outbox at most once per order (update's        *)
(* transaction), in every interleaving of requests.                        *)
THEOREM CompletionAnnouncedOnce == Spec => []AnnouncedOnce
  BY Invariant, PTL DEF IInv

(* However many runners there are, a window has at most one start of an    *)
(* order (reserveExecutionStart).                                          *)
THEOREM StartsExclude == Spec => []OneStartPerWindow
  BY Invariant, PTL DEF IInv

-------------------------------------------------------------------------------
(* What an order promises to whoever bills for it.                         *)
Price(o) == IF order[o].status = "DONE" THEN order[o].amount ELSE None

(* Everything else leaves orders, charges and announcements alone.         *)
LEMMA OrderSteps ==
    ASSUME [Next]_vars
    PROVE  \/ \E t \in Tasks : \/ EditWrite(t) \/ DoneWrite(t) \/ StartWrite(t)
                              \/ CompleteWrite(t) \/ CreateCharge(t) \/ ChargeError(t)
           \/ UNCHANGED <<order, charges, completed>>
<1>1. ASSUME NEW t \in Tasks, RunnerStep(t) \/ Crash(t) \/ RequestError(t) \/ RequestEnd(t)
      PROVE  UNCHANGED <<order, charges, completed>>
  BY <1>1 DEF RunnerStep, Consider, Throttle, Reserve, Crash, RequestError, RequestEnd
<1>2. ASSUME NEW t \in Tasks, ChargeStep(t)
      PROVE  UNCHANGED <<order, charges, completed>> \/ CreateCharge(t)
  BY <1>2 DEF ChargeStep, ChargeBegin, ChargeReclaim, Look, ChargeComplete, ChargeFail
<1>3. ASSUME NEW t \in Tasks, DoneStep(t)
      PROVE  UNCHANGED <<order, charges, completed>> \/ DoneWrite(t)
  BY <1>3 DEF DoneStep, DoneBegin, DoneReclaim, DoneMissed, DoneComplete, DoneFail
<1>4. ASSUME NEW t \in Tasks, Read(t) \/ ExecutionRead(t) \/ Generate(t)
      PROVE  UNCHANGED <<order, charges, completed>>
  BY <1>4 DEF Read, Asked, ExecutionRead, Generate
<1>5. ASSUME NEW o \in Orders, Expire(o) PROVE UNCHANGED <<order, charges, completed>>
  BY <1>5 DEF Expire
<1> QED
  BY <1>1, <1>2, <1>3, <1>4, <1>5 DEF Next, RequestStep, vars

LEMMA InitBilling == Init => Billing!Init
<1> SUFFICES ASSUME Init PROVE Billing!Init
  OBVIOUS
<1>1. ASSUME NEW o \in Orders PROVE order[o].status = "OPEN"
  BY DEF Init
<1>2. charges = [o \in Orders |-> <<>>] /\ completed = [o \in Orders |-> 0]
  BY DEF Init
<1> QED
  BY <1>1, <1>2 DEF Billing!Init

(* What keeps every price keeps the promise.                               *)
LEMMA SameBilling ==
    ASSUME UNCHANGED <<charges, completed>>, \A o \in Orders : Price(o)' = Price(o)
    PROVE  UNCHANGED Billing!vars
  BY DEF Billing!vars, Price

(* An order that becomes DONE gets its price.                              *)
LEMMA FinishBilling ==
    ASSUME NEW o \in Orders, order[o].status # "DONE",
           order'[o].status = "DONE", order'[o].amount \in Amounts,
           \A p \in Orders \ {o} : order'[p] = order[p],
           UNCHANGED charges,
           completed' = [completed EXCEPT ![o] = @ + 1] \/ UNCHANGED completed
    PROVE  Billing!Next
<1>1. Price(o) = None /\ Price(o)' = order'[o].amount
  BY DEF Price
<1>2. \A p \in Orders \ {o} : Price(p)' = Price(p)
  BY DEF Price
<1>3. [p \in Orders |-> Price(p)]' = [[p \in Orders |-> Price(p)] EXCEPT ![o] = order'[o].amount]
  BY <1>1, <1>2
<1>4. Billing!Finish(o)
  BY <1>1, <1>3 DEF Price, Billing!Finish
<1> QED
  BY <1>4 DEF Billing!Next

(* An order that is DONE is billed.                                        *)
LEMMA CreateBilling ==
    ASSUME TypeOK, Working, NEW t \in Tasks, task[t].phase = "create",
           charges' = [charges EXCEPT ![task[t].of] = Append(@, task[t].amount)],
           UNCHANGED <<order, completed>>
    PROVE  Billing!Next
<1>1. PICK o \in Orders, a \in Amounts :
          task[t].of = o /\ task[t].amount = a /\ order[o].status = "DONE"
  BY DEF Working, WorksWell, ChargePhases
<1>2. Price(o) # None
  BY <1>1, OrderAssumption DEF Price, TypeOK, Order
<1>3. Billing!Bill(o)
  BY <1>1, <1>2 DEF Billing!Bill, Price
<1> QED
  BY <1>3 DEF Billing!Next

LEMMA NextBilling ==
    ASSUME IInv, [Next]_vars
    PROVE  [Billing!Next]_Billing!vars
<1>0. order \in [Orders -> Order] /\ TypeOK /\ Working /\ Editing
  BY DEF IInv, TypeOK
<1>1. ASSUME NEW q \in Tasks, EditWrite(q) PROVE UNCHANGED Billing!vars
  <2>1. PICK o \in Orders : task[q].of = o /\ order[o].status \in Active
    BY <1>0, <1>1 DEF EditWrite, UnchangedSince, Editing, SeenActive
  <2>2. task[q].to # "DONE"
    BY <1>0, <1>1 DEF EditWrite, Working, WorksWell
  <2>3. /\ order'[o].status = task[q].to
        /\ \A p \in Orders \ {o} : order'[p] = order[p]
    BY <1>0, <1>1, <2>1 DEF EditWrite, Order
  <2>4. \A p \in Orders : Price(p)' = Price(p)
    BY <2>1, <2>2, <2>3 DEF Price, Active
  <2> QED
    BY <1>1, <2>4, SameBilling DEF EditWrite
<1>2. ASSUME NEW q \in Tasks, StartWrite(q) PROVE UNCHANGED Billing!vars
  <2>1. PICK o \in Orders : task[q].of = o
    BY <1>0, <1>2 DEF StartWrite, Working, WorksWell
  <2>2. /\ order[o].status # "DONE" /\ order'[o].status = "IN_PROGRESS"
        /\ \A p \in Orders \ {o} : order'[p] = order[p]
    BY <1>0, <1>2, <2>1 DEF StartWrite, Active, Order
  <2>3. \A p \in Orders : Price(p)' = Price(p)
    BY <2>2 DEF Price
  <2> QED
    BY <1>2, <2>3, SameBilling DEF StartWrite
<1>3. ASSUME NEW q \in Tasks, DoneWrite(q) PROVE Billing!Next
  <2>1. PICK o \in Orders, a \in Amounts : task[q].of = o /\ task[q].amount = a
    BY <1>0, <1>3 DEF DoneWrite, Working, WorksWell, DonePhases
  <2>2. order[o].status # "DONE" /\ order'[o].status = "DONE" /\ order'[o].amount = a
    BY <1>0, <1>3, <2>1 DEF DoneWrite, Order
  <2>3. \A p \in Orders \ {o} : order'[p] = order[p]
    BY <1>0, <1>3, <2>1 DEF DoneWrite
  <2>4. UNCHANGED charges /\ completed' = [completed EXCEPT ![o] = @ + 1]
    BY <1>3, <2>1 DEF DoneWrite
  <2> QED
    BY <2>2, <2>3, <2>4, FinishBilling
<1>4. ASSUME NEW q \in Tasks, CompleteWrite(q) PROVE Billing!Next
  <2>1. PICK o \in Orders : task[q].of = o
    BY <1>0, <1>4 DEF CompleteWrite, Working, WorksWell
  <2>2. /\ order[o].status # "DONE" /\ order'[o].status = "DONE"
        /\ order'[o].amount \in Amounts
    BY <1>0, <1>4, <2>1 DEF CompleteWrite, Order
  <2>3. \A p \in Orders \ {o} : order'[p] = order[p]
    BY <1>0, <1>4, <2>1 DEF CompleteWrite
  <2>4. UNCHANGED <<charges, completed>>
    BY <1>4 DEF CompleteWrite
  <2> QED
    BY <2>2, <2>3, <2>4, FinishBilling
<1>5. CASE UNCHANGED <<order, charges, completed>>
  BY <1>5, SameBilling DEF Price
<1>6. ASSUME NEW t \in Tasks, CreateCharge(t) \/ ChargeError(t) PROVE [Billing!Next]_Billing!vars
  BY <1>0, <1>5, <1>6, CreateBilling DEF CreateCharge, ChargeError
<1> QED
  BY <1>1, <1>2, <1>3, <1>4, <1>5, <1>6, OrderSteps

(* Whatever requests, runners, errors and records do, an order is DONE     *)
(* once, its amount is frozen from then on (update, start and complete     *)
(* look at updatedAt or status), and charges only follow.                  *)
THEOREM ImplementsBilling == Spec => BillingSpec
  BY InitBilling, NextBilling, Invariant, PTL DEF Spec, BillingSpec, Billing!Spec

-------------------------------------------------------------------------------
(* Who is about to create a charge.                                        *)
Creating(o) == {t \in Tasks : task[t].phase = "create" /\ task[t].of = o}

(* Charges there are and charges about to be created.                      *)
RoomToCreate ==
    \A o \in Orders : Len(charges[o]) + Cardinality(Creating(o)) <= Cardinality(Tasks)

(* A task that moves, and not to the creation.                             *)
Stands(u) == task'[u].phase = task[u].phase /\ task'[u].of = task[u].of

LEMMA NoNewCreator ==
    ASSUME NEW t \in Tasks, \A u \in Tasks \ {t} : Stands(u), task'[t].phase # "create", NEW o
    PROVE  Creating(o)' \subseteq Creating(o) \ {t}
  BY DEF Creating, Stands

LEMMA GoneOn ==
    ASSUME TypeOK, NEW t \in Tasks, NEW phase, phase # "create",
           Goes(t, phase) \/ Ends(t)
    PROVE  (\A u \in Tasks \ {t} : Stands(u)) /\ task'[t].phase # "create"
  BY DEF TypeOK, Task, Goes, Ends, IdleTask, Stands

LEMMA ReturnedOn ==
    ASSUME TypeOK, NEW t \in Tasks, NEW outcome, Returns(t, outcome)
    PROVE  (\A u \in Tasks \ {t} : Stands(u)) /\ task'[t].phase # "create"
<1>1. Goes(t, "finish") \/ Goes(t, "failing") \/ Ends(t)
  BY DEF Returns
<1> QED
  BY <1>1, GoneOn

(* Charges and their creators, seen from one order: nothing happens, or a  *)
(* task has looked and found no charge, or a creator leaves with a charge. *)
LEMMA CreatorSteps ==
    ASSUME TypeOK, Working, [Next]_vars
    PROVE  \/ UNCHANGED charges /\ \A o \in Orders : Creating(o)' \subseteq Creating(o)
           \/ \E t \in Tasks, p \in Orders :
                 /\ charges[p] = <<>> /\ UNCHANGED charges
                 /\ \A o \in Orders \ {p} : Creating(o)' \subseteq Creating(o)
           \/ \E t \in Tasks, p \in Orders, a \in Amounts :
                 /\ t \in Creating(p)
                 /\ charges' = [charges EXCEPT ![p] = Append(@, a)]
                 /\ \A o \in Orders : Creating(o)' \subseteq Creating(o) \ {t}
<1>0. task \in [Tasks -> Task]
  BY DEF TypeOK
<1> DEFINE Idles(t) == (\A u \in Tasks \ {t} : Stands(u)) /\ task'[t].phase # "create"
<1>1. ASSUME NEW t \in Tasks, Idles(t), UNCHANGED charges
      PROVE  UNCHANGED charges /\ \A o \in Orders : Creating(o)' \subseteq Creating(o)
  BY <1>1, NoNewCreator
<1> HIDE DEF Idles
<1>2. ASSUME NEW t \in Tasks, Look(t), ~ Idles(t)
      PROVE  \E p \in Orders :
                 /\ charges[p] = <<>> /\ UNCHANGED charges
                 /\ \A o \in Orders \ {p} : Creating(o)' \subseteq Creating(o)
  <2>1. task[t].of \in Orders
    BY <1>2 DEF Look, Working, WorksWell
  <2>2. Goes(t, "create") /\ charges[task[t].of] = <<>> /\ UNCHANGED charges
    BY <1>2, GoneOn DEF Look, Uncharged, Idles
  <2>3. \A u \in Tasks : task'[u].of = task[u].of /\ (u # t => Stands(u))
    BY <1>0, <2>2 DEF Goes, Task, Stands
  <2>4. \A o \in Orders \ {task[t].of} : Creating(o)' \subseteq Creating(o)
    BY <2>3 DEF Creating, Stands
  <2> QED
    BY <2>1, <2>2, <2>4
<1>3. ASSUME NEW t \in Tasks, task[t].phase = "create", Idles(t),
             charges' = [charges EXCEPT ![task[t].of] = Append(@, task[t].amount)]
      PROVE  \E p \in Orders, a \in Amounts :
                 /\ t \in Creating(p)
                 /\ charges' = [charges EXCEPT ![p] = Append(@, a)]
                 /\ \A o \in Orders : Creating(o)' \subseteq Creating(o) \ {t}
  <2>1. task[t].of \in Orders /\ task[t].amount \in Amounts
    BY <1>3 DEF Working, WorksWell, ChargePhases
  <2>2. t \in Creating(task[t].of)
    BY <1>3 DEF Creating
  <2>3. \A o \in Orders : Creating(o)' \subseteq Creating(o) \ {t}
    BY <1>3, NoNewCreator DEF Idles
  <2> QED
    BY <1>3, <2>1, <2>2, <2>3
<1>4. ASSUME NEW t \in Tasks, ChargeBegin(t) \/ ChargeComplete(t) \/ ChargeFail(t)
      PROVE  Idles(t) /\ UNCHANGED charges
  BY <1>4, GoneOn, ReturnedOn DEF ChargeBegin, ChargeComplete, ChargeFail, Idles
<1>5. ASSUME NEW t \in Tasks,
             \/ ChargeReclaim(t) \/ DoneBegin(t) \/ DoneReclaim(t) \/ DoneMissed(t)
             \/ DoneComplete(t) \/ DoneFail(t) \/ RequestEnd(t) \/ RequestError(t)
             \/ Reserve(t) \/ Crash(t)
      PROVE  Idles(t) /\ UNCHANGED charges
  <2>1. /\ UNCHANGED charges
        /\ \E phase \in {"look", "write", "reclaim", "finish", "failing", "charge"} :
              Goes(t, phase) \/ Ends(t)
    BY <1>5 DEF ChargeReclaim, DoneBegin, Begun, DoneReclaim, DoneMissed, DoneComplete,
       DoneFail, RequestEnd, RequestError, Reserve, Crash
  <2> QED
    BY <2>1, GoneOn DEF Idles
<1>6. ASSUME NEW t \in Tasks, CreateCharge(t) PROVE Idles(t)
  BY <1>6, GoneOn DEF CreateCharge, Idles
<1>7. ASSUME NEW t \in Tasks, ChargeError(t)
      PROVE  /\ Idles(t)
             /\ \/ UNCHANGED charges
                \/ /\ task[t].phase = "create"
                   /\ charges' = [charges EXCEPT ![task[t].of] = Append(@, task[t].amount)]
  BY <1>7, GoneOn, ReturnedOn DEF ChargeError, Idles
<1>8. ASSUME NEW t \in Tasks, Read(t) \/ ExecutionRead(t) \/ Generate(t) \/ Consider(t)
      PROVE  Idles(t) /\ UNCHANGED charges
  <2>1. PICK x \in [op : Operations, phase : {"read", "begin", "charge", "reserve"},
                    of : Orders, to : Statuses, amount : Amounts \cup {None},
                    due : BOOLEAN, fresh : BOOLEAN] : task' = [task EXCEPT ![t] = x]
    <3>1. CASE Read(t)
      <4>1. PICK o \in Orders, to \in Statuses, a \in Amounts,
                 op \in {"edit", "done", "undated"}, fresh \in BOOLEAN :
                    Asked(t, o, to, a, op, fresh)
        BY <3>1 DEF Read
      <4>2. [op |-> op, phase |-> IF op = "edit" THEN "read" ELSE "begin", of |-> o, to |-> to,
             amount |-> a, due |-> FALSE, fresh |-> fresh]
                \in [op : Operations, phase : {"read", "begin", "charge", "reserve"},
                    of : Orders, to : Statuses, amount : Amounts \cup {None},
                    due : BOOLEAN, fresh : BOOLEAN]
        BY DEF Operations
      <4> QED
        BY <4>1, <4>2 DEF Asked
    <3>2. CASE ExecutionRead(t)
      BY <3>2 DEF ExecutionRead, IdleTask, Operations, Statuses, Active
    <3>3. CASE Generate(t) \/ Consider(t)
      <4>1. \A o \in Orders : order[o].amount \in Amounts /\ order[o].due \in BOOLEAN
        BY DEF TypeOK, Order
      <4> QED
        BY <3>3, <4>1 DEF Generate, Consider, IdleTask, Operations, Statuses, Active
    <3> QED
      BY <1>8, <3>1, <3>2, <3>3
  <2>2. task'[t] = x /\ \A u \in Tasks \ {t} : task'[u] = task[u]
    BY <1>0, <2>1
  <2>3. UNCHANGED charges
    BY <1>8 DEF Read, Asked, ExecutionRead, Generate, Consider
  <2> QED
    BY <2>2, <2>3 DEF Stands, Idles
<1>9. ASSUME NEW t \in Tasks, EditWrite(t) \/ StartWrite(t) \/ CompleteWrite(t) \/ DoneWrite(t)
      PROVE  Idles(t) /\ UNCHANGED charges
  <2>1. \A u \in Tasks \ {t} : \E o : task'[u] = Touched(o)[u]
    BY <1>9 DEF EditWrite, StartWrite, CompleteWrite, DoneWrite, Touched
  <2>2. \A u \in Tasks \ {t} : Stands(u)
    BY <2>1, TouchedSame DEF Stands
  <2>3. \A o : Touched(o) \in [Tasks -> Task]
    BY TouchedType
  <2>4. ASSUME EditWrite(t) \/ StartWrite(t) PROVE task'[t].phase # "create"
    <3>1. task'[t] = IdleTask
      BY <2>3, <2>4 DEF EditWrite, StartWrite
    <3> QED
      BY <3>1 DEF IdleTask
  <2>5. ASSUME CompleteWrite(t) PROVE task'[t].phase # "create"
    <3>1. \/ task'[t] = IdleTask
          \/ task'[t] = [task[t] EXCEPT !.phase = "charge", !.amount = order[task[t].of].amount,
                                        !.due = order[task[t].of].due]
      BY <2>3, <2>5 DEF CompleteWrite
    <3>2. task[t] \in Task
      BY <1>0
    <3>3. [task[t] EXCEPT !.phase = "charge", !.amount = order[task[t].of].amount,
                          !.due = order[task[t].of].due].phase = "charge"
      BY <3>2 DEF Task
    <3>4. IdleTask.phase = "idle"
      BY DEF IdleTask
    <3>5. CASE task'[t] = IdleTask
      BY <3>4, <3>5
    <3>6. CASE task'[t] # IdleTask
      BY <3>1, <3>3, <3>6
    <3> QED
      BY <3>5, <3>6
  <2>6. ASSUME DoneWrite(t) PROVE task'[t].phase # "create"
    <3>1. PICK phase \in {"charge", "finish"} :
              task' = [Touched(task[t].of) EXCEPT ![t].fresh = FALSE, ![t].phase = phase]
      BY <2>6 DEF DoneWrite
    <3>2. Touched(task[t].of) \in [Tasks -> Task]
      BY TouchedType
    <3>3. task'[t].phase = phase
      BY <3>1, <3>2 DEF Task
    <3> QED
      BY <3>3
  <2>7. UNCHANGED charges
    BY <1>9 DEF EditWrite, StartWrite, CompleteWrite, DoneWrite
  <2> QED
    BY <1>9, <2>2, <2>4, <2>5, <2>6, <2>7 DEF Idles
<1>10. CASE UNCHANGED <<charges, task>>
  BY <1>10 DEF Creating
<1>11. ASSUME NEW t \in Tasks, Throttle(t) PROVE UNCHANGED <<charges, task>>
  BY <1>11 DEF Throttle
<1>12. ASSUME NEW t \in Tasks, CreateCharge(t)
       PROVE  /\ task[t].phase = "create"
              /\ charges' = [charges EXCEPT ![task[t].of] = Append(@, task[t].amount)]
  BY <1>12 DEF CreateCharge
<1>13. ASSUME NEW t \in Tasks, Look(t) PROVE UNCHANGED charges
  BY <1>13 DEF Look
<1> QED
  BY <1>1, <1>2, <1>3, <1>4, <1>5, <1>6, <1>7, <1>8, <1>9, <1>10, <1>11, <1>12, <1>13
     DEF Next, RequestStep, DoneStep, RunnerStep, ChargeStep, Expire, vars

LEMMA CreatingFinite ==
    ASSUME NEW o
    PROVE  /\ IsFiniteSet(Creating(o)) /\ Cardinality(Creating(o)) \in Nat
           /\ Cardinality(Creating(o)) <= Cardinality(Tasks)
           /\ Cardinality(Tasks) \in Nat
<1>1. Creating(o) \subseteq Tasks
  BY DEF Creating
<1> QED
  BY <1>1, OrderAssumption, FS_Subset, FS_CardinalityType

(* A charge more is a creator less, and creators join only while there is  *)
(* no charge.                                                              *)
LEMMA RoomStep ==
    ASSUME TypeOK, TypeOK', Working, RoomToCreate, [Next]_vars
    PROVE  RoomToCreate'
<1> SUFFICES ASSUME NEW o \in Orders
             PROVE  Len(charges'[o]) + Cardinality(Creating(o)') <= Cardinality(Tasks)
  BY DEF RoomToCreate
<1>0. /\ charges \in [Orders -> Seq(Amounts)]
      /\ Len(charges[o]) \in Nat /\ Len(charges'[o]) \in Nat
  BY DEF TypeOK
<1>1. Creating(o)' \subseteq Tasks
  BY DEF Creating
<1>2. Cardinality(Creating(o)') \in Nat /\ Cardinality(Creating(o)') <= Cardinality(Tasks)
  BY <1>1, OrderAssumption, FS_Subset, FS_CardinalityType
<1>3. ASSUME charges'[o] = charges[o], Creating(o)' \subseteq Creating(o)
      PROVE  Len(charges'[o]) + Cardinality(Creating(o)') <= Cardinality(Tasks)
  <2>1. Cardinality(Creating(o)') <= Cardinality(Creating(o))
    BY <1>3, CreatingFinite, FS_Subset
  <2> QED
    BY <1>0, <1>2, <1>3, <2>1, CreatingFinite DEF RoomToCreate
<1>4. ASSUME charges'[o] = charges[o], charges[o] = <<>>
      PROVE  Len(charges'[o]) + Cardinality(Creating(o)') <= Cardinality(Tasks)
  <2>1. Len(charges'[o]) = 0
    BY <1>4
  <2> QED
    BY <1>2, <2>1
<1>5. ASSUME NEW t \in Creating(o), NEW a \in Amounts, charges'[o] = Append(charges[o], a),
             Creating(o)' \subseteq Creating(o) \ {t}
      PROVE  Len(charges'[o]) + Cardinality(Creating(o)') <= Cardinality(Tasks)
  <2>1. Len(charges'[o]) = Len(charges[o]) + 1
    BY <1>0, <1>5
  <2>2. Cardinality(Creating(o) \ {t}) = Cardinality(Creating(o)) - 1
    BY CreatingFinite, FS_RemoveElement
  <2>3. Cardinality(Creating(o)') <= Cardinality(Creating(o) \ {t})
    BY <1>5, CreatingFinite, FS_Subset
  <2>4. Len(charges[o]) + Cardinality(Creating(o)) <= Cardinality(Tasks)
    BY DEF RoomToCreate
  <2> QED
    BY <1>0, <1>2, <2>1, <2>2, <2>3, <2>4, CreatingFinite
<1>6. CASE UNCHANGED charges /\ \A p \in Orders : Creating(p)' \subseteq Creating(p)
  BY <1>3, <1>6
<1>7. ASSUME NEW p \in Orders, charges[p] = <<>>, UNCHANGED charges,
             \A q \in Orders \ {p} : Creating(q)' \subseteq Creating(q)
      PROVE  Len(charges'[o]) + Cardinality(Creating(o)') <= Cardinality(Tasks)
  BY <1>3, <1>4, <1>7
<1>8. ASSUME NEW p \in Orders, NEW t \in Creating(p), NEW a \in Amounts,
             charges' = [charges EXCEPT ![p] = Append(@, a)],
             \A q \in Orders : Creating(q)' \subseteq Creating(q) \ {t}
      PROVE  Len(charges'[o]) + Cardinality(Creating(o)') <= Cardinality(Tasks)
  <2>1. CASE p = o
    BY <1>0, <1>5, <1>8, <2>1
  <2>2. CASE p # o
    BY <1>0, <1>3, <1>8, <2>2
  <2> QED
    BY <2>1, <2>2
<1> QED
  BY <1>6, <1>7, <1>8, CreatorSteps

(* An order never gets more charges from ensureChargeForServiceOrderDone   *)
(* than callers overlap, whatever keys are reclaimed and however often a   *)
(* create is reported as an error after it was applied.                    *)
THEOREM FewCharges == Spec => []ChargesBounded
<1>1. Init => RoomToCreate
  <2> SUFFICES ASSUME Init, NEW o \in Orders
               PROVE  Len(charges[o]) + Cardinality(Creating(o)) <= Cardinality(Tasks)
    BY DEF RoomToCreate
  <2>1. Len(charges[o]) = 0
    BY DEF Init
  <2> QED
    BY <2>1, CreatingFinite
<1>2. IInv /\ IInv' /\ RoomToCreate /\ [Next]_vars => RoomToCreate'
  BY RoomStep DEF IInv
<1>3. IInv /\ RoomToCreate => ChargesBounded
  <2> SUFFICES ASSUME IInv, RoomToCreate, NEW o \in Orders
               PROVE  Len(charges[o]) <= Cardinality(Tasks)
    BY DEF ChargesBounded
  <2>1. Len(charges[o]) \in Nat
    BY DEF IInv, TypeOK
  <2> QED
    BY <2>1, CreatingFinite DEF RoomToCreate
<1> QED
  BY <1>1, <1>2, <1>3, Invariant, PTL DEF Spec

(* While at most one caller is between its look and its create, creators   *)
(* have seen the truth.                                                    *)
SeenNone ==
    \A o \in Orders :
        /\ Len(charges[o]) <= 1
        /\ Creating(o) # {} => charges[o] = <<>>

(* The window between look and create is the only way to a second charge:  *)
(* if no two callers are in it for the same order, there is one charge,    *)
(* whatever their keys, their errors and their retries.                    *)
THEOREM OneChargeIfExclusive == Spec /\ []CreatorsExclude => []OneCharge
<1>1. Init => SeenNone
  BY DEF Init, SeenNone, Creating, IdleTask
<1>2. IInv /\ SeenNone /\ CreatorsExclude /\ [Next]_vars => SeenNone'
  <2> SUFFICES ASSUME IInv, SeenNone, CreatorsExclude, [Next]_vars, NEW o \in Orders
               PROVE  /\ Len(charges'[o]) <= 1
                      /\ Creating(o)' # {} => charges'[o] = <<>>
    BY DEF SeenNone
  <2>0. charges \in [Orders -> Seq(Amounts)]
    BY DEF IInv, TypeOK
  <2>1. CASE UNCHANGED charges /\ \A p \in Orders : Creating(p)' \subseteq Creating(p)
    BY <2>1 DEF SeenNone
  <2>2. ASSUME NEW p \in Orders, charges[p] = <<>>, UNCHANGED charges,
               \A q \in Orders \ {p} : Creating(q)' \subseteq Creating(q)
        PROVE  /\ Len(charges'[o]) <= 1
               /\ Creating(o)' # {} => charges'[o] = <<>>
    BY <2>2 DEF SeenNone
  <2>3. ASSUME NEW p \in Orders, NEW t \in Creating(p), NEW a \in Amounts,
               charges' = [charges EXCEPT ![p] = Append(@, a)],
               \A q \in Orders : Creating(q)' \subseteq Creating(q) \ {t}
        PROVE  /\ Len(charges'[o]) <= 1
               /\ Creating(o)' # {} => charges'[o] = <<>>
    <3>1. CASE p = o
      <4>1. Creating(o) = {t}
        BY <2>3, <3>1 DEF CreatorsExclude, Creating
      <4>2. charges[o] = <<>> /\ Len(charges[o]) = 0
        BY <4>1 DEF SeenNone
      <4>3. Len(charges'[o]) = 1
        BY <2>0, <2>3, <3>1, <4>2
      <4>4. Creating(o)' \subseteq Creating(o) \ {t}
        BY <2>3
      <4>5. Creating(o)' = {}
        BY <4>1, <4>4
      <4> QED
        BY <4>3, <4>5
    <3>2. CASE p # o
      BY <2>0, <2>3, <3>2 DEF SeenNone
    <3> QED
      BY <3>1, <3>2
  <2> QED
    BY <2>1, <2>2, <2>3, CreatorSteps DEF IInv
<1>3. SeenNone => OneCharge
  BY DEF SeenNone, OneCharge
<1> QED
  BY <1>1, <1>2, <1>3, Invariant, PTL DEF Spec

-------------------------------------------------------------------------------
(* A step of one task does not take the place or the key of another.       *)
LEMMA StepOfOne ==
    ASSUME TypeOK, NEW q \in Tasks, NEW t \in Tasks \ {q},
           RequestStep(q) \/ RunnerStep(q) \/ ChargeStep(q) \/ ChargeError(q) \/ Crash(q)
    PROVE  task'[t].phase = task[t].phase /\ Key(t)' = Key(t)
<1>0. task \in [Tasks -> Task]
  BY DEF TypeOK
<1>1. CASE EditWrite(q) \/ StartWrite(q) \/ CompleteWrite(q) \/ DoneWrite(q)
  <2>1. \E o : task'[t] = Touched(o)[t]
    BY <1>1 DEF EditWrite, StartWrite, CompleteWrite, DoneWrite, Touched
  <2>2. PICK o : task'[t] = IF task[t].of = o THEN [task[t] EXCEPT !.fresh = FALSE] ELSE task[t]
    BY <2>1 DEF Touched
  <2>3. /\ task'[t].phase = task[t].phase /\ task'[t].of = task[t].of
        /\ task'[t].amount = task[t].amount /\ task'[t].due = task[t].due
    BY <1>0, <2>2 DEF Task
  <2> QED
    BY <2>3 DEF Key
<1>2. CASE task'[t] = task[t]
  BY <1>2 DEF Key
<1>3. ASSUME NEW outcome, Returns(q, outcome) PROVE task'[t] = task[t]
  BY <1>0, <1>3 DEF Returns, Goes, Ends
<1>4. ASSUME ChargeStep(q) \/ ChargeError(q) PROVE task'[t] = task[t]
  BY <1>0, <1>3, <1>4 DEF ChargeStep, ChargeBegin, ChargeReclaim, Look, CreateCharge,
     ChargeComplete, ChargeFail, ChargeError, Goes
<1>5. ASSUME RunnerStep(q) \/ Crash(q) PROVE task'[t] = task[t]
  BY <1>0, <1>5 DEF RunnerStep, Consider, Throttle, Reserve, Crash, Goes, Ends
<1>6. ASSUME DoneStep(q), ~ DoneWrite(q) PROVE task'[t] = task[t]
  BY <1>0, <1>6 DEF DoneStep, DoneBegin, Begun, DoneReclaim, DoneMissed, DoneComplete, DoneFail,
     Goes, Ends
<1>7. ASSUME Read(q) \/ ExecutionRead(q) \/ Generate(q) \/ RequestEnd(q) \/ RequestError(q)
      PROVE  task'[t] = task[t]
  BY <1>0, <1>7 DEF Read, Asked, ExecutionRead, Generate, RequestEnd, RequestError, Goes, Ends
<1> QED
  BY <1>1, <1>2, <1>4, <1>5, <1>6, <1>7 DEF RequestStep

(* A task at work on a charge goes on with it, ends it by writing a record *)
(* that is not in progress, or stops.                                      *)
LEMMA ChargingSteps ==
    ASSUME IInv, [Next]_vars, NEW k \in ChargeKeys, NEW t \in Tasks, Charging(t, k),
           chargeKey[k].status = "PROCESSING"
    PROVE  \/ Charging(t, k)'
           \/ chargeKey'[k].status # "PROCESSING"
           \/ Crash(t)
           \/ task[t].phase = "charge failing" /\ ChargeError(t)
<1>0. TypeOK /\ task[t] \in Task
  BY DEF IInv, TypeOK
<1>1. ASSUME NEW phase \in {"look", "create", "created", "charge failing"}, Goes(t, phase)
      PROVE  Charging(t, k)'
  <2>1. task'[t] = [task[t] EXCEPT !.phase = phase]
    BY <1>0, <1>1 DEF Goes, TypeOK
  <2>2. /\ task'[t].phase = phase /\ task'[t].of = task[t].of
        /\ task'[t].amount = task[t].amount /\ task'[t].due = task[t].due
    BY <1>0, <2>1 DEF Task
  <2> QED
    BY <2>2 DEF Charging, Key
<1>2. CASE Look(t) \/ CreateCharge(t)
  BY <1>1, <1>2 DEF Look, CreateCharge
<1>3. CASE ChargeComplete(t) \/ ChargeFail(t)
  <2>1. chargeKey' = [chargeKey EXCEPT ![k].status = "COMPLETED"]
          \/ chargeKey' = [chargeKey EXCEPT ![k].status = "FAILED"]
    BY <1>3 DEF ChargeComplete, ChargeFail, ChargeKey!Complete, ChargeKey!Failed, Charging
  <2> QED
    BY <1>0, <2>1 DEF TypeOK, ChargeKey!IdempotencyTypeOK, ChargeKey!Record
<1>4. CASE ChargeError(t)
  BY <1>1, <1>4 DEF ChargeError, Charging
<1>5. CASE task'[t].phase = task[t].phase /\ Key(t)' = Key(t)
  BY <1>5 DEF Charging
<1>6. CASE \E q \in Tasks \ {t} : RequestStep(q) \/ RunnerStep(q) \/ ChargeStep(q)
                                    \/ ChargeError(q) \/ Crash(q)
  BY <1>0, <1>5, <1>6, StepOfOne
<1>7. CASE RequestStep(t) \/ RunnerStep(t) \/ ChargeBegin(t) \/ ChargeReclaim(t)
  BY <1>5, <1>7 DEF Charging, RequestStep, Read, Asked, EditWrite, DoneStep, DoneBegin, DoneReclaim,
     DoneWrite, DoneMissed, DoneComplete, DoneFail, ExecutionRead, StartWrite, CompleteWrite,
     Generate, RequestEnd, RequestError, RunnerStep, Consider, Throttle, Reserve, ChargeBegin,
     ChargeReclaim
<1>8. CASE UNCHANGED task
  BY <1>8 DEF Charging, Key
<1> QED
  BY <1>2, <1>3, <1>4, <1>6, <1>7, <1>8 DEF Next, ChargeStep, Expire, vars

(* Whoever puts the key of a charge in progress is at work on it.          *)
LEMMA ChargeKeyTaken ==
    ASSUME IInv, [Next]_vars, NEW k \in ChargeKeys, chargeKey[k].status # "PROCESSING",
           chargeKey'[k].status = "PROCESSING"
    PROVE  \E t \in Tasks : Charging(t, k)'
<1>0. TypeOK /\ Working
  BY DEF IInv
<1>1. ASSUME NEW t \in Tasks, ChargeBegin(t) \/ ChargeReclaim(t), chargeKey' # chargeKey
      PROVE  Charging(t, k)'
  <2>1. Key(t) \in ChargeKeys
    BY <1>0, <1>1, KeyType DEF ChargeBegin, ChargeReclaim, ChargePhases
  <2>2. Goes(t, "look") /\ (ChargeKey!Create(Key(t), Key(t)) \/ ChargeKey!Reclaim(Key(t)))
    BY <1>1 DEF ChargeBegin, ChargeReclaim
  <2>3. Key(t) = k
    BY <1>0, <2>1, <2>2 DEF TypeOK, ChargeKey!IdempotencyTypeOK, ChargeKey!Record,
       ChargeKey!Create, ChargeKey!Reclaim
  <2>4. /\ task'[t].phase = "look" /\ task'[t].of = task[t].of
        /\ task'[t].amount = task[t].amount /\ task'[t].due = task[t].due
    BY <1>0, <2>2 DEF Goes, TypeOK, Task
  <2> QED
    BY <2>3, <2>4 DEF Charging, Key
<1>2. ASSUME NEW t \in Tasks, ChargeComplete(t) \/ ChargeFail(t) PROVE FALSE
  BY <1>0, <1>2 DEF ChargeComplete, ChargeFail, ChargeKey!Complete, ChargeKey!Failed,
     TypeOK, ChargeKey!IdempotencyTypeOK, ChargeKey!Record
<1>3. ASSUME NEW t \in Tasks, Look(t) \/ CreateCharge(t) \/ RequestStep(t) \/ RunnerStep(t)
                                \/ ChargeError(t) \/ Crash(t)
      PROVE  chargeKey' = chargeKey
  BY <1>3 DEF Look, CreateCharge, RequestStep, Read, Asked, EditWrite, DoneStep, DoneBegin,
     DoneReclaim, DoneWrite, DoneMissed, DoneComplete, DoneFail, ExecutionRead, StartWrite,
     CompleteWrite, Generate, RequestEnd, RequestError, RunnerStep, Consider, Throttle, Reserve,
     ChargeError, Crash, keyVars
<1>4. chargeKey' # chargeKey
  OBVIOUS
<1> QED
  BY <1>1, <1>2, <1>3, <1>4 DEF Next, ChargeStep, Expire, keyVars, vars

(* The first excuse of DoneCharged: a key is left in progress only by a    *)
(* process that stops between begin and complete or fail, or a fail() that *)
(* is lost.  Reclaims by id, two owners of one key, errors of the charge   *)
(* and of its caller do not leave one.                                     *)
THEOREM OnlyAStopOrphansAKey == Spec /\ NoStopAtCharge => []NoneOrphaned
<1> DEFINE NoStop == \A t \in Tasks, k \in ChargeKeys :
                        Charging(t, k) /\ chargeKey[k].status = "PROCESSING"
                            => ~ Crash(t) /\ ~ (task[t].phase = "charge failing" /\ ChargeError(t))
           WorkedOn == \A k \in ChargeKeys : chargeKey[k].status = "PROCESSING"
                            => \E t \in Tasks : Charging(t, k)
<1>1. Init => WorkedOn
  BY DEF Init, ChargeKey!IdempotencyInit
<1>2. IInv /\ WorkedOn /\ [Next]_vars /\ [NoStop]_vars => WorkedOn'
  <2> SUFFICES ASSUME IInv, WorkedOn, [Next]_vars, [NoStop]_vars,
                      NEW k \in ChargeKeys, chargeKey'[k].status = "PROCESSING"
               PROVE  \E t \in Tasks : Charging(t, k)'
    OBVIOUS
  <2>1. CASE chargeKey[k].status # "PROCESSING"
    BY <2>1, ChargeKeyTaken
  <2>2. CASE chargeKey[k].status = "PROCESSING"
    <3>1. PICK t \in Tasks : Charging(t, k)
      BY <2>2
    <3>2. CASE NoStop
      BY <2>2, <3>1, <3>2, ChargingSteps
    <3>3. CASE UNCHANGED vars
      BY <3>1, <3>3 DEF vars, Charging, Key
    <3> QED
      BY <3>2, <3>3
  <2> QED
    BY <2>1, <2>2
<1>3. WorkedOn => NoneOrphaned
  BY DEF NoneOrphaned, Orphaned
<1> QED
  BY <1>1, <1>2, <1>3, Invariant, PTL DEF Spec, NoStopAtCharge
===============================================================================
