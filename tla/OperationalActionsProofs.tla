------------------------ MODULE OperationalActionsProofs ------------------------
(***************************************************************************)
(* Proofs about OperationalActions, for any rows and calls.                *)
(***************************************************************************)
EXTENDS OperationalActions, TLAPS

Phases == {"idle", "create", "reserve", "act", "note", "log", "fail", "cancel"}

(* A call past the reservation owns the row, whatever becomes of it.       *)
Owns(c, x) == call[c].phase \in {"act", "note", "log", "fail"} /\ call[c].of = x

(* Beyond its read, a call has a row.                                      *)
Aimed == \A c \in Calls : call[c].phase \notin {"idle", "create"} => call[c].of \in Executions

(* The owner has called the action unless it is about to, and only what    *)
(* took effect is on its way to EXECUTED.                                  *)
Working ==
    \A c \in Calls, x \in Executions : Owns(c, x) =>
        /\ row[x].status \in {"EXECUTING", "EXECUTED", "FAILED"}
        /\ call[c].phase = "act" => begun[x] = 0
        /\ call[c].phase \in {"note", "log"} => x \in done

OneOwner ==
    \A c, d \in Calls : \A x \in Executions : Owns(c, x) /\ Owns(d, x) => c = d

Begun ==
    \A x \in Executions :
        /\ begun[x] <= 1
        /\ row[x].status \in {"ABSENT", "REQUESTED", "CANCELED"} => begun[x] = 0

IInv ==
    /\ TypeOK
    /\ Aimed
    /\ Working
    /\ OneOwner
    /\ Begun
    /\ ExecutedIsDone
    /\ StandsInFront

-------------------------------------------------------------------------------
(* What the elementary updates do.                                         *)
CallMoves(c, phase, x) ==
    /\ call' \in [Calls -> Call]
    /\ call'[c].phase = phase /\ call'[c].of = x
    /\ \A d \in Calls : d # c => call'[d] = call[d]

LEMMA Going ==
    ASSUME TypeOK, NEW c \in Calls, NEW phase \in Phases, Goes(c, phase)
    PROVE  CallMoves(c, phase, call[c].of)
<1> DEFINE new == [call[c] EXCEPT !.phase = phase]
<1>1. call[c] \in Call
  BY DEF TypeOK
<1>2. new \in Call /\ new.phase = phase /\ new.of = call[c].of
  BY <1>1 DEF Call, Phases
<1>3. call' = [call EXCEPT ![c] = new]
  BY DEF Goes, TypeOK
<1> HIDE DEF new
<1> QED
  BY <1>2, <1>3 DEF CallMoves, TypeOK

LEMMA Ending ==
    ASSUME TypeOK, NEW c \in Calls, Ends(c)
    PROVE  CallMoves(c, "idle", None)
<1>1. Idle \in Call /\ Idle.phase = "idle" /\ Idle.of = None
  BY DEF Idle, Call
<1> QED
  BY <1>1 DEF Ends, CallMoves, TypeOK

LEMMA Aiming ==
    ASSUME TypeOK, NEW c \in Calls, NEW phase \in Phases, NEW x \in Executions,
           call' = [call EXCEPT ![c] = [phase |-> phase, of |-> x]]
    PROVE  CallMoves(c, phase, x)
  BY DEF CallMoves, TypeOK, Call, Phases

RowMoves(x, status) ==
    /\ row' \in [Executions -> Row]
    /\ row'[x].status = status /\ ~ row'[x].stuck
    /\ \A y \in Executions : y # x => row'[y] = row[y]

LEMMA Becoming ==
    ASSUME TypeOK, NEW x \in Executions, NEW status \in Statuses, Becomes(x, status)
    PROVE  RowMoves(x, status)
  BY DEF Becomes, RowMoves, TypeOK, Row

(* A row that was there already moves on, not to REQUESTED.                *)
LEMMA FrontStays ==
    ASSUME StandsInFront, NEW x \in Executions, NEW status \in Statuses,
           row[x].status # "ABSENT", status \notin {"ABSENT", "REQUESTED"}, RowMoves(x, status)
    PROVE  StandsInFront'
  BY DEF StandsInFront, Requested, Latest, RowMoves

(* Steps of a call that owns nothing afterwards and change no row.         *)
LEMMA OnlyCall ==
    ASSUME IInv, NEW c \in Calls, NEW phase \in Phases, NEW x, CallMoves(c, phase, x),
           phase \notin {"act", "note", "log"},
           phase = "fail" => Owns(c, x),
           phase \in {"reserve", "cancel"} => x \in Executions,
           UNCHANGED <<row, begun, done>>
    PROVE  IInv'
<1>1. TypeOK'
  BY DEF IInv, TypeOK, CallMoves
<1>2. \A d \in Calls, y \in Executions :
         Owns(d, y)' => /\ Owns(d, y)
                        /\ \/ d # c /\ call'[d] = call[d]
                           \/ call'[d].phase = "fail"
  BY DEF CallMoves, Owns
<1>3. Aimed'
  BY DEF IInv, Aimed, CallMoves, Owns, Phases
<1>4. Working'
  BY <1>2 DEF IInv, Working
<1>5. OneOwner'
  BY <1>2 DEF IInv, OneOwner
<1>6. Begun' /\ ExecutedIsDone' /\ StandsInFront'
  BY DEF IInv, Begun, ExecutedIsDone, StandsInFront, Requested, Latest
<1> QED
  BY <1>1, <1>3, <1>4, <1>5, <1>6 DEF IInv

-------------------------------------------------------------------------------
LEMMA InitInv == Init => IInv
<1> SUFFICES ASSUME Init PROVE IInv
  OBVIOUS
<1>1. TypeOK
  BY DEF Init, TypeOK, Row, Statuses, Call, Idle
<1>2. Aimed /\ Working /\ OneOwner
  BY DEF Init, Aimed, Working, OneOwner, Owns, Idle
<1>3. Begun /\ ExecutedIsDone /\ StandsInFront
  BY DEF Init, Begun, ExecutedIsDone, StandsInFront, Requested
<1> QED
  BY <1>1, <1>2, <1>3 DEF IInv

LEMMA ReadInv ==
    ASSUME IInv, NEW c \in Calls, RequestRead(c) \/ ExecuteRead(c) \/ CancelRead(c)
    PROVE  IInv'
<1>0. TypeOK
  BY DEF IInv
<1>1. CASE RequestRead(c)
  <2>1. CallMoves(c, "create", call[c].of)
    BY <1>0, <1>1, Going DEF RequestRead, Phases
  <2> QED
    BY <1>1, <2>1, OnlyCall DEF RequestRead, Phases
<1>2. CASE ExecuteRead(c)
  <2>1. PICK x \in Executions : call' = [call EXCEPT ![c] = [phase |-> "reserve", of |-> x]]
    BY <1>2 DEF ExecuteRead
  <2>2. CallMoves(c, "reserve", x)
    BY <1>0, <2>1, Aiming DEF Phases
  <2> QED
    BY <1>2, <2>2, OnlyCall DEF ExecuteRead, Phases
<1>3. CASE CancelRead(c)
  <2>1. PICK x \in Executions : call' = [call EXCEPT ![c] = [phase |-> "cancel", of |-> x]]
    BY <1>3 DEF CancelRead
  <2>2. CallMoves(c, "cancel", x)
    BY <1>0, <2>1, Aiming DEF Phases
  <2> QED
    BY <1>3, <2>2, OnlyCall DEF CancelRead, Phases
<1> QED
  BY <1>1, <1>2, <1>3

LEMMA EndInv ==
    ASSUME IInv, NEW c \in Calls, Ends(c), UNCHANGED <<row, begun, done>>
    PROVE  IInv'
<1>1. CallMoves(c, "idle", None)
  BY Ending DEF IInv
<1> QED
  BY <1>1, OnlyCall DEF Phases

(* A call that owns no row ends with a write of a row nobody owns.         *)
LEMMA WriteInv ==
    ASSUME IInv, NEW c \in Calls, NEW x \in Executions, NEW status \in {"REQUESTED", "CANCELED"},
           RowMoves(x, status), Ends(c), UNCHANGED <<begun, done>>,
           row[x].status \in {"ABSENT", "REQUESTED"}, StandsInFront'
    PROVE  IInv'
<1>1. CallMoves(c, "idle", None)
  BY Ending DEF IInv
<1>2. \A d \in Calls, y \in Executions :
         Owns(d, y)' => Owns(d, y) /\ call'[d] = call[d] /\ y # x
  BY <1>1 DEF CallMoves, Owns, IInv, Working
<1>3. TypeOK'
  BY <1>1 DEF IInv, TypeOK, CallMoves, RowMoves
<1>4. Aimed'
  BY <1>1 DEF IInv, Aimed, CallMoves
<1>5. Working' /\ OneOwner'
  BY <1>2 DEF IInv, Working, OneOwner, RowMoves
<1>6. Begun' /\ ExecutedIsDone'
  BY DEF IInv, Begun, ExecutedIsDone, RowMoves
<1> QED
  BY <1>3, <1>4, <1>5, <1>6 DEF IInv

LEMMA RequestCreateInv == ASSUME IInv, NEW c \in Calls, RequestCreate(c) PROVE IInv'
<1>1. CASE ~ Insertable /\ UNCHANGED row
  BY <1>1, EndInv DEF RequestCreate
<1>2. CASE Insertable /\ ~ UNCHANGED row
  <2>1. PICK x \in Executions : /\ \A y \in Executions : row[y].status = "ABSENT" <=> y >= x
                                /\ Becomes(x, "REQUESTED")
    BY <1>2 DEF RequestCreate
  <2>2. RowMoves(x, "REQUESTED")
    BY <2>1, Becoming DEF IInv, Statuses
  <2>3. row[x].status = "ABSENT"
    BY <2>1, ActionsAssumption
  <2>4. StandsInFront'
    <3> SUFFICES ASSUME NEW z \in Executions, Requested(z)' PROVE Latest(z)'
      BY DEF StandsInFront
    <3>1. z = x
      BY <1>2, <2>2 DEF Insertable, Requested, RowMoves
    <3>2. \A y \in Executions : y > x => row'[y].status = "ABSENT"
      BY <2>1, <2>2, ActionsAssumption DEF RowMoves
    <3> QED
      BY <2>2, <3>1, <3>2 DEF Latest, RowMoves
  <2> QED
    BY <2>2, <2>3, <2>4, WriteInv DEF RequestCreate
<1>3. CASE Insertable /\ UNCHANGED row
  BY <1>3, EndInv DEF RequestCreate
<1> QED
  BY <1>1, <1>2, <1>3 DEF RequestCreate

LEMMA CancelInv == ASSUME IInv, NEW c \in Calls, Cancel(c) PROVE IInv'
<1> DEFINE x == call[c].of
<1>1. x \in Executions
  BY DEF Cancel, IInv, Aimed
<1>2. CASE Requested(x) /\ Becomes(x, "CANCELED")
  <2>1. RowMoves(x, "CANCELED")
    BY <1>1, <1>2, Becoming DEF IInv, Statuses
  <2>2. StandsInFront'
    BY <1>1, <1>2, <2>1, FrontStays DEF IInv, Statuses, Requested
  <2> QED
    BY <1>1, <1>2, <2>1, <2>2, WriteInv DEF Cancel, Requested
<1>3. CASE ~ Requested(x) /\ UNCHANGED row
  BY <1>3, EndInv DEF Cancel
<1> QED
  BY <1>2, <1>3 DEF Cancel

(* The compare-and-set makes the call the only owner of the row.           *)
LEMMA ReserveInv == ASSUME IInv, NEW c \in Calls, Reserve(c) PROVE IInv'
<1> DEFINE x == call[c].of
<1>1. x \in Executions /\ call[c].phase = "reserve"
  BY DEF Reserve, IInv, Aimed
<1>2. CASE ~ Reservable(x) /\ Ends(c) /\ UNCHANGED row
  BY <1>2, EndInv DEF Reserve
<1>3. CASE Reservable(x) /\ Becomes(x, "EXECUTING") /\ Goes(c, "act")
  <2>1. RowMoves(x, "EXECUTING") /\ CallMoves(c, "act", x) /\ row[x].status = "REQUESTED"
    BY <1>1, <1>3, Becoming, Going DEF IInv, Statuses, Phases, Reservable, Requested
  <2>2. UNCHANGED <<begun, done>>
    BY DEF Reserve
  <2> HIDE DEF x
  <2>3. \A d \in Calls : ~ Owns(d, x)
    BY <1>1, <2>1 DEF IInv, Working
  <2>4. \A d \in Calls, y \in Executions :
           Owns(d, y)' => \/ d = c /\ y = x
                          \/ d # c /\ y # x /\ Owns(d, y) /\ call'[d] = call[d]
    BY <2>1, <2>3 DEF CallMoves, Owns
  <2>5. TypeOK'
    BY <2>1, <2>2 DEF IInv, TypeOK, CallMoves, RowMoves
  <2>6. Aimed'
    BY <1>1, <2>1 DEF IInv, Aimed, CallMoves
  <2>7. begun[x] = 0
    BY <1>1, <2>1 DEF IInv, Begun
  <2>8. Working'
    BY <2>1, <2>2, <2>4, <2>7 DEF IInv, Working, CallMoves, RowMoves
  <2>9. OneOwner'
    BY <2>4 DEF IInv, OneOwner
  <2>10. Begun' /\ ExecutedIsDone'
    BY <2>1, <2>2 DEF IInv, Begun, ExecutedIsDone, RowMoves
  <2>11. StandsInFront'
    BY <1>1, <2>1, FrontStays DEF IInv, Statuses
  <2> QED
    BY <2>5, <2>6, <2>8, <2>9, <2>10, <2>11 DEF IInv
<1> QED
  BY <1>2, <1>3 DEF Reserve

-------------------------------------------------------------------------------
(* The owner of a row x goes on as its owner, or stops owning it.          *)
LEMMA OwnerOnly ==
    ASSUME IInv, NEW c \in Calls, NEW x \in Executions, Owns(c, x), NEW phase \in Phases,
           CallMoves(c, phase, x) \/ CallMoves(c, "idle", None)
    PROVE  /\ call' \in [Calls -> Call]
           /\ \A d \in Calls, y \in Executions :
                 d # c => /\ Owns(d, y)' <=> Owns(d, y)
                          /\ call'[d] = call[d]
                          /\ Owns(d, y) => y # x
           /\ \A y \in Executions : Owns(c, y)' => y = x /\ call'[c].phase = phase
           /\ OneOwner'
<1>1. \A d \in Calls : d # c => call'[d] = call[d]
  BY DEF CallMoves
<1>2. \A d \in Calls, y \in Executions : d # c => (Owns(d, y)' <=> Owns(d, y))
  BY <1>1 DEF Owns
<1>3. \A d \in Calls : d # c => ~ Owns(d, x)
  BY DEF IInv, OneOwner
<1>4. \A y \in Executions : Owns(c, y)' => y = x /\ call'[c].phase = phase
  BY DEF CallMoves, Owns
<1>5. OneOwner'
  BY <1>2, <1>3, <1>4 DEF IInv, OneOwner
<1> QED
  BY <1>1, <1>2, <1>3, <1>4, <1>5 DEF CallMoves

LEMMA ActInv == ASSUME IInv, NEW c \in Calls, Act(c) PROVE IInv'
<1> DEFINE x == call[c].of
<1>1. x \in Executions /\ Owns(c, x) /\ call[c].phase = "act"
  BY DEF Act, IInv, Aimed, Owns
<1>2. PICK applied \in BOOLEAN :
         /\ done' = IF applied THEN done \cup {x} ELSE done
         /\ \E phase \in AfterAct(applied) : Goes(c, phase)
  BY DEF Act
<1>3. PICK phase \in AfterAct(applied) : Goes(c, phase)
  BY <1>2
<1>4. phase \in {"note", "fail"} /\ (phase = "note" => applied)
  BY <1>3 DEF AfterAct
<1>5. CallMoves(c, phase, x)
  BY <1>3, <1>4, Going DEF IInv, Phases
<1>6. row' = row /\ begun' = [begun EXCEPT ![x] = @ + 1]
  BY DEF Act
<1> HIDE DEF x
<1>7. begun[x] = 0 /\ row[x].status \in {"EXECUTING", "EXECUTED", "FAILED"}
  BY <1>1 DEF IInv, Working
<1>8. /\ begun' \in [Executions -> Nat] /\ begun'[x] = 1
      /\ \A y \in Executions : y # x => begun'[y] = begun[y]
  BY <1>1, <1>6, <1>7 DEF IInv, TypeOK
<1>9. done' \subseteq Executions /\ done \subseteq done' /\ (phase = "note" => x \in done')
  BY <1>1, <1>2, <1>4 DEF IInv, TypeOK
<1>10. phase \in Phases
  BY <1>4 DEF Phases
<1>11. TypeOK' /\ OneOwner'
  BY <1>1, <1>5, <1>6, <1>8, <1>9, <1>10, OwnerOnly DEF IInv, TypeOK
<1>12. Aimed'
  BY <1>1, <1>5 DEF IInv, Aimed, CallMoves
<1>13. Working'
  <2> SUFFICES ASSUME NEW d \in Calls, NEW y \in Executions, Owns(d, y)'
               PROVE  /\ row'[y].status \in {"EXECUTING", "EXECUTED", "FAILED"}
                      /\ call'[d].phase = "act" => begun'[y] = 0
                      /\ call'[d].phase \in {"note", "log"} => y \in done'
    BY DEF Working
  <2>1. CASE d = c
    <3>1. y = x /\ call'[d].phase = phase
      BY <2>1, <1>1, <1>5, <1>10, OwnerOnly
    <3> QED
      BY <3>1, <1>4, <1>6, <1>7, <1>9
  <2>2. CASE d # c
    <3>1. Owns(d, y) /\ call'[d] = call[d] /\ y # x
      BY <2>2, <1>1, <1>5, <1>10, OwnerOnly
    <3> QED
      BY <3>1, <1>6, <1>8, <1>9 DEF IInv, Working
  <2> QED
    BY <2>1, <2>2
<1>14. Begun' /\ ExecutedIsDone'
  BY <1>6, <1>7, <1>8, <1>9 DEF IInv, Begun, ExecutedIsDone
<1>15. StandsInFront'
  BY <1>6 DEF IInv, StandsInFront, Requested, Latest
<1> QED
  BY <1>11, <1>12, <1>13, <1>14, <1>15 DEF IInv

(* The owner writes an outcome by id: EXECUTED when the action took        *)
(* effect, or FAILED.                                                      *)
LEMMA OutcomeInv ==
    ASSUME IInv, NEW c \in Calls, NEW x \in Executions, Owns(c, x), call[c].phase # "act",
           NEW status \in {"EXECUTED", "FAILED"}, NEW phase \in {"log", "fail"},
           status = "EXECUTED" \/ phase = "log" => x \in done,
           Becomes(x, status), CallMoves(c, phase, x) \/ CallMoves(c, "idle", None),
           UNCHANGED <<begun, done>>
    PROVE  IInv'
<1>1. RowMoves(x, status)
  BY Becoming DEF IInv, Statuses
<1>2. row[x].status \in {"EXECUTING", "EXECUTED", "FAILED"}
  BY DEF IInv, Working
<1>3. phase \in Phases
  BY DEF Phases
<1>4. TypeOK' /\ OneOwner'
  BY <1>1, <1>3, OwnerOnly DEF IInv, TypeOK, RowMoves
<1>5. Aimed'
  BY DEF IInv, Aimed, CallMoves
<1>6. Working'
  <2> SUFFICES ASSUME NEW d \in Calls, NEW y \in Executions, Owns(d, y)'
               PROVE  /\ row'[y].status \in {"EXECUTING", "EXECUTED", "FAILED"}
                      /\ call'[d].phase = "act" => begun'[y] = 0
                      /\ call'[d].phase \in {"note", "log"} => y \in done'
    BY DEF Working
  <2>1. CASE d = c
    <3>1. y = x /\ call'[d].phase = phase
      BY <2>1, <1>3, OwnerOnly
    <3> QED
      BY <3>1, <1>1 DEF RowMoves
  <2>2. CASE d # c
    <3>1. Owns(d, y) /\ call'[d] = call[d] /\ y # x
      BY <2>2, <1>3, OwnerOnly
    <3> QED
      BY <3>1, <1>1 DEF IInv, Working, RowMoves
  <2> QED
    BY <2>1, <2>2
<1>7. Begun' /\ ExecutedIsDone'
  BY <1>1 DEF IInv, Begun, ExecutedIsDone, RowMoves
<1>8. StandsInFront'
  BY <1>1, <1>2, FrontStays DEF IInv, Statuses
<1> QED
  BY <1>4, <1>5, <1>6, <1>7, <1>8 DEF IInv

LEMMA NoteInv ==
    ASSUME IInv, NEW c \in Calls, NoteExecuted(c) \/ LogExecuted(c) \/ NoteFailed(c)
    PROVE  IInv'
<1> DEFINE x == call[c].of
<1>1. x \in Executions /\ Owns(c, x) /\ call[c].phase \in {"note", "log", "fail"}
  BY DEF NoteExecuted, LogExecuted, NoteFailed, IInv, Aimed, Owns
<1>2. UNCHANGED <<begun, done>>
  BY DEF NoteExecuted, LogExecuted, NoteFailed
<1>3. ASSUME Goes(c, "fail"), UNCHANGED row PROVE IInv'
  <2>1. CallMoves(c, "fail", x)
    BY <1>3, Going DEF IInv, Phases
  <2> HIDE DEF x
  <2> QED
    BY <1>1, <1>2, <1>3, <2>1, OnlyCall DEF Phases
<1>4. CASE NoteExecuted(c)
  <2>1. x \in done
    BY <1>1, <1>4 DEF NoteExecuted, IInv, Working
  <2>2. ASSUME Becomes(x, "EXECUTED"), NEW phase \in {"log", "fail"}, Goes(c, phase)
        PROVE  IInv'
    <3>1. CallMoves(c, phase, x)
      BY <2>2, Going DEF IInv, Phases
    <3> HIDE DEF x
    <3>2. call[c].phase # "act"
      BY <1>1
    <3> QED
      BY <1>1, <1>2, <2>1, <2>2, <3>1, <3>2, OutcomeInv
  <2> QED
    BY <1>3, <1>4, <2>2 DEF NoteExecuted
<1>5. CASE LogExecuted(c)
  BY <1>3, <1>5, EndInv DEF LogExecuted
<1>6. CASE NoteFailed(c)
  <2>1. CallMoves(c, "idle", None)
    BY <1>6, Ending DEF NoteFailed, IInv
  <2>2. ASSUME Becomes(x, "FAILED") PROVE IInv'
    <3> HIDE DEF x
    <3>1. call[c].phase # "act"
      BY <1>1
    <3> QED
      BY <1>1, <1>2, <2>1, <2>2, <3>1, OutcomeInv
  <2> QED
    BY <1>6, <2>2, EndInv DEF NoteFailed
<1> QED
  BY <1>4, <1>5, <1>6

-------------------------------------------------------------------------------
(* Age and Recover: the row keeps its owner, if it has one.                *)
LEMMA ClockInv ==
    ASSUME IInv, NEW x \in Executions, Age(x) \/ Recover(x)
    PROVE  IInv'
<1>1. UNCHANGED <<call, begun, done>> /\ row[x].status = "EXECUTING"
  BY DEF Age, Recover
<1>2. /\ row' \in [Executions -> Row] /\ row'[x].status \in {"EXECUTING", "FAILED"}
      /\ row'[x].stuck => row'[x].status = "EXECUTING"
      /\ \A y \in Executions : y # x => row'[y] = row[y]
  <2>1. CASE Recover(x)
    BY <2>1, Becoming DEF Recover, IInv, RowMoves, Statuses
  <2>2. CASE Age(x)
    <3> DEFINE new == [row[x] EXCEPT !.stuck = TRUE]
    <3>1. new \in Row /\ new.status = "EXECUTING"
      BY <1>1 DEF IInv, TypeOK, Row
    <3>2. row' = [row EXCEPT ![x] = new]
      BY <2>2 DEF Age, IInv, TypeOK
    <3> HIDE DEF new
    <3> QED
      BY <3>1, <3>2 DEF IInv, TypeOK
  <2> QED
    BY <2>1, <2>2
<1>3. TypeOK'
  BY <1>1, <1>2 DEF IInv, TypeOK
<1>4. Aimed' /\ OneOwner' /\ Working'
  BY <1>1, <1>2 DEF IInv, Aimed, OneOwner, Working, Owns
<1>5. Begun' /\ ExecutedIsDone'
  BY <1>1, <1>2 DEF IInv, Begun, ExecutedIsDone
<1>6. StandsInFront'
  BY <1>1, <1>2 DEF IInv, StandsInFront, Requested, Latest
<1> QED
  BY <1>3, <1>4, <1>5, <1>6 DEF IInv

LEMMA NextInv == IInv /\ [Next]_vars => IInv'
<1> SUFFICES ASSUME IInv, [Next]_vars PROVE IInv'
  OBVIOUS
<1>1. ASSUME NEW c \in Calls, CallStep(c) PROVE IInv'
  <2>1. ASSUME Abandon(c) PROVE IInv'
    BY <2>1, EndInv DEF Abandon
  <2> QED
    BY <1>1, <2>1, ReadInv, RequestCreateInv, ReserveInv, CancelInv, ActInv, NoteInv DEF CallStep
<1>2. ASSUME NEW x \in Executions, Age(x) \/ Recover(x) PROVE IInv'
  BY <1>2, ClockInv
<1>3. ASSUME UNCHANGED vars PROVE IInv'
  BY <1>3 DEF vars, IInv, TypeOK, Aimed, Working, OneOwner, Owns, Begun, ExecutedIsDone,
              StandsInFront, Requested, Latest
<1> QED
  BY <1>1, <1>2, <1>3 DEF Next

(* The inductive invariant: an execution has one owner, which calls its    *)
(* action once, and every reachable state has all the parts of IInv.       *)
THEOREM Invariant == Spec => []IInv
  BY InitInv, NextInv, PTL DEF Spec

(* Rows and calls keep their types, and only an EXECUTING row is stuck.    *)
THEOREM TypeCorrect == Spec => []TypeOK
<1>1. IInv => TypeOK
  BY DEF IInv
<1> QED
  BY Invariant, <1>1, PTL

(* execute calls the action of a request once at most, and never once the  *)
(* request is canceled, with any number of calls and recoveries.           *)
THEOREM ActionsAreCarriedOutOnce == Spec => []CarriedOnce
<1>1. IInv => CarriedOnce
  BY DEF IInv, Begun, CarriedOnce
<1> QED
  BY Invariant, <1>1, PTL

(* EXECUTED is only written for an action that took effect.                *)
THEOREM ExecutedCanBeBelieved == Spec => []ExecutedIsDone
<1>1. IInv => ExecutedIsDone
  BY DEF IInv
<1> QED
  BY Invariant, <1>1, PTL

(* No standing request is ever hidden behind a newer row of its key.       *)
THEOREM RequestsCanBeReached == Spec => []StandsInFront
<1>1. IInv => StandsInFront
  BY DEF IInv
<1> QED
  BY Invariant, <1>1, PTL

-------------------------------------------------------------------------------
(* The refinement of ActionRequests: requests and the rows that stand for  *)
(* them.                                                                   *)
States == [x \in Executions |-> State(x)]
Shown  == {x \in Executions : row[x].status = "EXECUTED"}

LEMMA SameRows ==
    ASSUME \A x \in Executions : row'[x].status = row[x].status, UNCHANGED <<begun, done>>
    PROVE  UNCHANGED Actions!vars
<1>1. \A x \in Executions : State(x)' = State(x)
  BY DEF State, Requested
<1>2. States' = States /\ Shown' = Shown
  BY <1>1 DEF States, Shown
<1> QED
  BY <1>2 DEF States, Shown, Actions!vars

(* A write of one row, as its request sees it.                             *)
LEMMA RowStep ==
    ASSUME TypeOK, NEW x \in Executions, NEW status \in Statuses, RowMoves(x, status)
    PROVE  /\ States' = [States EXCEPT ![x] = State(x)']
           /\ Shown' = IF status = "EXECUTED" THEN Shown \cup {x} ELSE Shown \ {x}
<1>1. \A y \in Executions : y # x => State(y)' = State(y)
  BY DEF RowMoves, State, Requested
<1>2. \A y \in Executions : row'[y].status = "EXECUTED" <=>
         IF y = x THEN status = "EXECUTED" ELSE row[y].status = "EXECUTED"
  BY DEF RowMoves
<1> QED
  BY <1>1, <1>2 DEF States, Shown

LEMMA DecideStep ==
    ASSUME TypeOK, NEW x \in Executions, NEW status \in {"CANCELED", "EXECUTING"},
           Requested(x), RowMoves(x, status), UNCHANGED <<begun, done>>
    PROVE  Actions!Next
<1>1. State(x) = "standing" /\ State(x)' \in {"withdrawn", "taken"}
  BY DEF State, Requested, RowMoves
<1>2. x \notin Shown
  BY DEF Requested, Shown
<1>3. States' = [States EXCEPT ![x] = State(x)'] /\ Shown' = Shown
  BY <1>2, RowStep DEF Statuses
<1>4. Actions!Decide(x)
  BY <1>1, <1>3 DEF States, Shown, Actions!Decide
<1> QED
  BY <1>4 DEF Actions!Next

LEMMA OutcomeStep ==
    ASSUME TypeOK, NEW x \in Executions, NEW status \in {"EXECUTED", "FAILED"},
           row[x].status \in {"EXECUTING", "EXECUTED", "FAILED"},
           status = "EXECUTED" => x \in done,
           RowMoves(x, status), UNCHANGED <<begun, done>>
    PROVE  Actions!Next
<1>1. State(x)' = State(x)
  BY DEF State, Requested, RowMoves
<1>2. States' = States /\ Shown' = IF status = "EXECUTED" THEN Shown \cup {x} ELSE Shown \ {x}
  BY <1>1, RowStep DEF States, Statuses
<1>3. Actions!Show(x) \/ Actions!Retract(x)
  BY <1>2 DEF States, Shown, Actions!Show, Actions!Retract
<1> QED
  BY <1>3 DEF Actions!Next

LEMMA CreateStep ==
    ASSUME IInv, NEW c \in Calls, RequestCreate(c), ~ UNCHANGED row PROVE Actions!Next
<1>1. PICK x \in Executions : /\ \A y \in Executions : row[y].status = "ABSENT" <=> y >= x
                              /\ Becomes(x, "REQUESTED")
  BY DEF RequestCreate
<1>2. RowMoves(x, "REQUESTED")
  BY <1>1, Becoming DEF IInv, Statuses
<1>3. \A y \in Executions : State(y) # "standing"
  BY DEF RequestCreate, Insertable, State, Requested
<1>4. \A y \in Executions : State(y) = "none" <=> y >= x
  BY <1>1 DEF State
<1>5. State(x)' = "standing"
  BY <1>2 DEF State, Requested, RowMoves
<1>6. x \notin Shown
  BY <1>1, ActionsAssumption DEF Shown
<1>7. States' = [States EXCEPT ![x] = "standing"] /\ Shown' = Shown
  BY <1>2, <1>5, <1>6, RowStep DEF IInv, Statuses
<1>8. UNCHANGED <<begun, done>>
  BY DEF RequestCreate
<1>9. Actions!Make(x)
  BY <1>3, <1>4, <1>7, <1>8 DEF States, Shown, Actions!Make
<1> QED
  BY <1>9 DEF Actions!Next

LEMMA ActStep == ASSUME IInv, NEW c \in Calls, Act(c) PROVE Actions!Next
<1> DEFINE x == call[c].of
<1>1. x \in Executions /\ Owns(c, x) /\ call[c].phase = "act"
  BY DEF Act, IInv, Aimed, Owns
<1>2. begun[x] = 0 /\ State(x) = "taken"
  BY <1>1 DEF IInv, Working, State, Requested
<1>3. /\ done' \in {done, done \cup {x}} /\ row' = row
      /\ begun' = [begun EXCEPT ![x] = @ + 1]
  BY DEF Act
<1> HIDE DEF x
<1>4. begun' = [begun EXCEPT ![x] = 1]
  BY <1>1, <1>2, <1>3 DEF IInv, TypeOK
<1>5. States' = States /\ Shown' = Shown
  BY <1>3 DEF States, State, Requested, Shown
<1>6. Actions!Carry(x)
  BY <1>1, <1>2, <1>3, <1>4, <1>5 DEF States, Shown, Actions!Carry
<1> QED
  BY <1>1, <1>6 DEF Actions!Next

LEMMA InitActions == Init => Actions!Init
<1> SUFFICES ASSUME Init PROVE Actions!Init
  OBVIOUS
<1>1. States = [x \in Executions |-> "none"] /\ Shown = {}
  BY DEF Init, States, State, Shown
<1> QED
  BY <1>1 DEF Init, States, Shown, Actions!Init

LEMMA NextActions == IInv /\ [Next]_vars => [Actions!Next]_(Actions!vars)
<1> SUFFICES ASSUME IInv, [Next]_vars PROVE Actions!Next \/ UNCHANGED Actions!vars
  OBVIOUS
<1> DEFINE Goal == Actions!Next \/ UNCHANGED Actions!vars
<1>0. TypeOK
  BY DEF IInv
<1>1. CASE UNCHANGED <<row, begun, done>>
  BY <1>1, SameRows
<1>2. ASSUME NEW c \in Calls, RequestCreate(c) PROVE Goal
  BY <1>1, <1>2, CreateStep DEF RequestCreate
<1>3. ASSUME NEW c \in Calls, Reserve(c) \/ Cancel(c) PROVE Goal
  <2> DEFINE x == call[c].of
  <2>1. x \in Executions /\ UNCHANGED <<begun, done>>
    BY <1>3 DEF Reserve, Cancel, IInv, Aimed
  <2>2. ASSUME NEW status \in {"CANCELED", "EXECUTING"}, Requested(x), Becomes(x, status)
        PROVE  Goal
    <3> HIDE DEF x
    <3>1. RowMoves(x, status)
      BY <1>0, <2>1, <2>2, Becoming DEF Statuses
    <3> QED
      BY <1>0, <2>1, <2>2, <3>1, DecideStep
  <2> QED
    BY <1>1, <1>3, <2>1, <2>2 DEF Reserve, Reservable, Cancel
<1>4. ASSUME NEW c \in Calls, Act(c) PROVE Goal
  BY <1>4, ActStep
<1>5. ASSUME NEW c \in Calls, NoteExecuted(c) \/ NoteFailed(c) PROVE Goal
  <2> DEFINE x == call[c].of
  <2>1. /\ x \in Executions /\ UNCHANGED <<begun, done>>
        /\ row[x].status \in {"EXECUTING", "EXECUTED", "FAILED"}
        /\ NoteExecuted(c) => x \in done
    BY <1>5 DEF NoteExecuted, NoteFailed, IInv, Aimed, Working, Owns
  <2>2. ASSUME NEW status \in {"EXECUTED", "FAILED"}, Becomes(x, status),
               status = "EXECUTED" => x \in done
        PROVE  Goal
    <3> HIDE DEF x
    <3>1. RowMoves(x, status)
      BY <1>0, <2>1, <2>2, Becoming DEF Statuses
    <3> QED
      BY <1>0, <2>1, <2>2, <3>1, OutcomeStep
  <2> QED
    BY <1>1, <1>5, <2>1, <2>2 DEF NoteExecuted, NoteFailed
<1>6. ASSUME NEW x \in Executions, Recover(x) PROVE Goal
  <2>1. RowMoves(x, "FAILED")
    BY <1>0, <1>6, Becoming DEF Recover, Statuses
  <2> QED
    BY <1>0, <1>6, <2>1, OutcomeStep DEF Recover
<1>7. ASSUME NEW x \in Executions, Age(x) PROVE Goal
  <2>1. \A y \in Executions : row'[y].status = row[y].status
    BY <1>7 DEF Age, IInv, TypeOK, Row
  <2> QED
    BY <1>7, <2>1, SameRows DEF Age
<1> QED
  BY <1>1, <1>2, <1>3, <1>4, <1>5, <1>6, <1>7
  DEF Next, CallStep, RequestRead, ExecuteRead, CancelRead, LogExecuted, Abandon, vars

(* Rows, calls, recoveries and late owners together do what is promised    *)
(* about a request: one decision, one call of its action, and EXECUTED     *)
(* only for what took effect.                                              *)
THEOREM ImplementsRequests == Spec => ActionsSpec
  BY InitInv, NextInv, InitActions, NextActions, PTL DEF Spec, ActionsSpec, Actions!Spec
===============================================================================
