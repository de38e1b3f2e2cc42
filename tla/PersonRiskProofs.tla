---------------------------- MODULE PersonRiskProofs ----------------------------
(***************************************************************************)
(* Proofs about PersonRisk, for any number of people and of evaluations at *)
(* the same time, and for facts of any weight.                             *)
(***************************************************************************)
EXTENDS PersonRisk, FiniteSetTheorems, TLAPS

(* A task that is under way is some evaluation of a person.                *)
Working ==
    \A t \in Tasks : task[t].phase # "idle" => task[t].of \in Persons /\ task[t].kind # "none"

(* The enforcements about to open a corrective action of p.                *)
Creating(p) == {t \in Tasks : task[t].phase = "create" /\ task[t].of = p}

(* They, and the actions that are open, are no more than the tasks: nobody *)
(* joins them once an action is open.                                      *)
RoomToCreate ==
    \A p \in Persons : open[p] + Cardinality(Creating(p)) <= Cardinality(Tasks)

(* A decision that may still be written has seen what the row has seen.    *)
Decided(t) ==
    /\ task[t].kind # "service"
    /\ task[t].fresh
    /\ task[t].phase \notin {"idle", "score", "snapshot"}

NothingOverlooked ==
    /\ \A p \in Persons : person[p].asOf <= changes
    /\ \A t \in Tasks : task[t].asOf <= changes
    /\ \A t \in Tasks : Decided(t) => person[task[t].of].asOf <= task[t].asOf

IInv ==
    /\ TypeOK
    /\ Working
    /\ RowMatchesEvidence
    /\ RoomToCreate
    /\ NothingOverlooked

-------------------------------------------------------------------------------
(* The operators.                                                          *)
LEMMA DeriveType == ASSUME NEW n \in Int PROVE Derive(n) \in States
  BY DEF Derive, States

LEMMA ClampType == ASSUME NEW n \in Int PROVE Clamp(n) \in 0..100
  BY DEF Clamp

LEMMA ScoreType == ASSUME TypeOK, NEW p \in Persons PROVE Score(p) \in 0..100
<1>1. CorrectivePoints(open[p]) \in Int
  BY DEF TypeOK, CorrectivePoints
<1>2. base[p] \in Int /\ critical[p] \in Int
  BY DEF TypeOK
<1>3. base[p] + CorrectivePoints(open[p]) + 5 * critical[p] \in Int
  BY <1>1, <1>2
<1> QED
  BY <1>3, ClampType DEF Score

LEMMA UnratedType == Unrated \in Person
  BY RiskAssumption DEF Unrated, Person, States

LEMMA IdleType == IdleTask \in Task
  BY UnratedType, RiskAssumption DEF IdleTask, Task, Kinds, Phases

-------------------------------------------------------------------------------
(* What a step of a task leaves alone.                                     *)
Untouched(t) ==
    \A u \in Tasks \ {t} :
        /\ task'[u].phase = task[u].phase
        /\ task'[u].of = task[u].of
        /\ task'[u].kind = task[u].kind
        /\ task'[u].asOf = task[u].asOf
        /\ task'[u].fresh => task[u].fresh

LEMMA GoesTo ==
    ASSUME TypeOK, NEW t \in Tasks, NEW phase \in Phases, Goes(t, phase)
    PROVE  /\ task' \in [Tasks -> Task]
           /\ Untouched(t)
           /\ task'[t] = [task[t] EXCEPT !.phase = phase]
  BY DEF TypeOK, Goes, Task, Untouched

LEMMA EndsTo ==
    ASSUME TypeOK, NEW t \in Tasks, Ends(t)
    PROVE  /\ task' \in [Tasks -> Task]
           /\ Untouched(t)
           /\ task'[t] = IdleTask
  BY IdleType DEF TypeOK, Ends, Untouched

(* A task ends, or goes on to one of some phases.                          *)
Moves(t, phases) ==
    \/ task'[t] = IdleTask
    \/ \E phase \in phases : task'[t] = [task[t] EXCEPT !.phase = phase]

LEMMA ReturnsTo ==
    ASSUME TypeOK, NEW t \in Tasks, Returns(t)
    PROVE  task' \in [Tasks -> Task] /\ Untouched(t) /\ Moves(t, {"enforced"})
<1>1. Goes(t, "enforced") \/ Ends(t)
  BY DEF Returns
<1> QED
  BY <1>1, GoesTo, EndsTo DEF Moves, Phases

LEMMA TransitionTo ==
    ASSUME TypeOK, NEW t \in Tasks, Transition(t)
    PROVE  task' \in [Tasks -> Task] /\ Untouched(t) /\ Moves(t, {"enforced", "observe"})
<1>1. Goes(t, "observe") \/ Returns(t)
  BY DEF Transition
<1> QED
  BY <1>1, GoesTo, ReturnsTo DEF Moves, Phases

(* The task of a claim: nobody's snapshot of the row is fresh any more.    *)
LEMMA AfterTo ==
    ASSUME TypeOK, NEW t \in Tasks, task' = After(t)
    PROVE  /\ task' \in [Tasks -> Task]
           /\ Untouched(t)
           /\ task'[t] = IdleTask \/ (task'[t].phase = "enforced" /\ task'[t].of = task[t].of
                                        /\ task'[t].asOf = task[t].asOf
                                        /\ task'[t].kind = task[t].kind)
           /\ \A u \in Tasks : task[u].of = task[t].of => ~ task'[u].fresh
<1>1. \A u \in Tasks : task[u] \in Task /\ [task[u] EXCEPT !.fresh = FALSE] \in Task
  <2> TAKE u \in Tasks
  <2>1. task[u] \in Task
    BY DEF TypeOK
  <2>2. [task[u] EXCEPT !.fresh = FALSE] \in Task
    BY <2>1 DEF Task
  <2> QED
    BY <2>1, <2>2
<1>2. \A u \in Tasks : Written(t)[u] = IF task[u].of = task[t].of THEN [task[u] EXCEPT !.fresh = FALSE]
                                       ELSE task[u]
  BY DEF Written
<1>3. Written(t) \in [Tasks -> Task]
  BY <1>1 DEF Written
<1>4. \A u \in Tasks :
         /\ Written(t)[u].phase = task[u].phase
         /\ Written(t)[u].of = task[u].of
         /\ Written(t)[u].kind = task[u].kind
         /\ Written(t)[u].asOf = task[u].asOf
         /\ Written(t)[u].fresh => task[u].fresh
         /\ task[u].of = task[t].of => ~ Written(t)[u].fresh
  BY <1>1, <1>2 DEF Task
<1>5. \/ task' = [Written(t) EXCEPT ![t].phase = "enforced"]
      \/ task' = [Written(t) EXCEPT ![t] = IdleTask]
  BY DEF After
<1>6. task' \in [Tasks -> Task]
  BY <1>3, <1>5, IdleType DEF Task, Phases
<1>7. \A u \in Tasks \ {t} : task'[u] = Written(t)[u]
  BY <1>3, <1>5
<1>8. Untouched(t)
  BY <1>4, <1>7 DEF Untouched
<1>9. \/ task'[t] = IdleTask
      \/ task'[t] = [Written(t)[t] EXCEPT !.phase = "enforced"]
  BY <1>3, <1>5
<1>10. /\ task'[t] = IdleTask \/ (task'[t].phase = "enforced" /\ task'[t].of = task[t].of
                                     /\ task'[t].asOf = task[t].asOf
                                     /\ task'[t].kind = task[t].kind)
       /\ ~ task'[t].fresh
  <2>1. Written(t)[t] \in Task
    BY <1>3
  <2>2. CASE task'[t] = IdleTask
    BY <2>2 DEF IdleTask
  <2>3. CASE task'[t] = [Written(t)[t] EXCEPT !.phase = "enforced"]
    BY <1>4, <2>1, <2>3 DEF Task
  <2> QED
    BY <1>9, <2>2, <2>3
<1> QED
  BY <1>4, <1>6, <1>7, <1>8, <1>10

-------------------------------------------------------------------------------
(* Type correctness.                                                       *)
LEMMA TypeInit == Init => TypeOK
<1> SUFFICES ASSUME Init PROVE TypeOK
  OBVIOUS
<1>1. person \in [Persons -> Person]
  BY UnratedType DEF Init
<1>2. task \in [Tasks -> Task]
  BY IdleType DEF Init
<1>3. changes \in 0..MaxChanges
  BY RiskAssumption DEF Init
<1>5. base \in [Persons -> Int]
  <2>1. base \in [Persons -> Points] /\ Points \subseteq Int
    BY RiskAssumption DEF Init
  <2> QED
    BY <2>1
<1>4. critical \in [Persons -> 0..4] /\ open \in [Persons -> Nat]
  BY DEF Init
<1> QED
  BY <1>1, <1>2, <1>3, <1>4, <1>5 DEF Init, TypeOK

LEMMA NextStateType ==
    ASSUME TypeOK, NEW t \in Tasks
    PROVE  NextState(t) \in States
<1>1. task[t].score \in Int
  BY DEF TypeOK, Task
<1> QED
  BY <1>1, DeriveType DEF NextState

LEMMA LoggedType ==
    ASSUME TypeOK, NEW p \in Persons, Logged(p)
    PROVE  critical' \in [Persons -> 0..4]
  BY DEF TypeOK, Logged

LEMMA ClaimType ==
    ASSUME TypeOK, Working, NEW t \in Tasks, Claim(t)
    PROVE  TypeOK'
<1> DEFINE p == task[t].of
<1>1. p \in Persons /\ task[t] \in Task
  BY DEF Working, Claim, TypeOK
<1>2. [state |-> NextState(t), score |-> task[t].score, dated |-> TRUE, asOf |-> task[t].asOf] \in Person
  BY <1>1, NextStateType DEF Person, Task
<1>3. person' \in [Persons -> Person]
  BY <1>1, <1>2 DEF Claim, TypeOK
<1>4. last' \in [Persons -> States \cup {None}] /\ critical' \in [Persons -> 0..4]
  BY <1>1, NextStateType, LoggedType DEF Claim, TypeOK
<1>5. task' \in [Tasks -> Task]
  BY AfterTo DEF Claim
<1> QED
  BY <1>3, <1>4, <1>5 DEF Claim, TypeOK

LEMMA StartType ==
    ASSUME TypeOK, NEW t \in Tasks, NEW p \in Persons, NEW kind \in Kinds \ {"none"}, Start(t, p, kind)
    PROVE  TypeOK' /\ Untouched(t) /\ task'[t].of = p /\ task'[t].phase \in {"score", "snapshot"}
           /\ task'[t].asOf = 0 /\ task'[t].kind = kind
<1>1. PICK phase \in {"score", "snapshot"} :
         task' = [task EXCEPT ![t] = [IdleTask EXCEPT !.kind = kind, !.of = p, !.phase = phase]]
  BY DEF Start
<1>2. [IdleTask EXCEPT !.kind = kind, !.of = p, !.phase = phase] \in Task
  BY IdleType DEF Task, Phases
<1>3. task' \in [Tasks -> Task]
  BY <1>1, <1>2 DEF TypeOK
<1>4. task'[t] = [IdleTask EXCEPT !.kind = kind, !.of = p, !.phase = phase]
  BY <1>1 DEF TypeOK
<1>5. /\ task'[t].of = p /\ task'[t].phase \in {"score", "snapshot"} /\ task'[t].asOf = 0
      /\ task'[t].kind = kind
  BY <1>4 DEF IdleTask
<1>6. Untouched(t)
  BY <1>1 DEF TypeOK, Untouched
<1> QED
  BY <1>3, <1>5, <1>6 DEF TypeOK, Start, facts

LEMMA CalculateType ==
    ASSUME TypeOK, Working, NEW t \in Tasks, Calculate(t)
    PROVE  TypeOK' /\ Untouched(t) /\ task'[t].of = task[t].of /\ task'[t].asOf = changes
           /\ task'[t].phase \in {"snapshot", "observe"} /\ task'[t].kind = task[t].kind
<1>1. Score(task[t].of) \in 0..100 /\ changes \in 0..MaxChanges
  BY ScoreType DEF Working, Calculate, TypeOK
<1>2. PICK phase \in {"snapshot", "observe"}, n \in 0..100, a \in 0..MaxChanges :
         /\ task' = [task EXCEPT ![t].score = n, ![t].asOf = a, ![t].phase = phase]
         /\ a = changes
  BY <1>1 DEF Calculate
<1>3. task' \in [Tasks -> Task]
  <2>1. task[t] \in Task
    BY DEF TypeOK
  <2>2. [task[t] EXCEPT !.score = n, !.asOf = a, !.phase = phase] \in Task
    BY <2>1 DEF Task, Phases
  <2>3. task' = [task EXCEPT ![t] = [task[t] EXCEPT !.score = n, !.asOf = a, !.phase = phase]]
    BY <1>2 DEF TypeOK
  <2> QED
    BY <2>2, <2>3 DEF TypeOK
<1>4. /\ Untouched(t) /\ task'[t].of = task[t].of /\ task'[t].asOf = changes
      /\ task'[t].phase = phase /\ task'[t].kind = task[t].kind
  BY <1>2 DEF TypeOK, Task, Untouched
<1> QED
  BY <1>3, <1>4 DEF TypeOK, Calculate, facts

LEMMA SnapshotType ==
    ASSUME TypeOK, Working, NEW t \in Tasks, Snapshot(t)
    PROVE  /\ TypeOK' /\ Untouched(t) /\ task'[t].of = task[t].of /\ task'[t].kind = task[t].kind
           /\ task'[t].phase \in {"observe", "score", "decide"}
           /\ task'[t].asOf \in {task[t].asOf, person[task[t].of].asOf}
           /\ task[t].kind \in {"job", "risk"} => task'[t].phase = "score"
           /\ task[t].kind = "enforcement" => task'[t].asOf = person[task[t].of].asOf
<1>1. task[t].of \in Persons
  BY DEF Working, Snapshot
<1>2. person[task[t].of] \in Person /\ task[t] \in Task
  BY <1>1 DEF TypeOK
<1>3. PICK phase \in {"observe", "score", "decide"}, n \in {task[t].score, person[task[t].of].score},
           a \in {task[t].asOf, person[task[t].of].asOf} :
         /\ task' = [task EXCEPT ![t].snap = person[task[t].of], ![t].fresh = TRUE,
                                 ![t].score = n, ![t].asOf = a, ![t].phase = phase]
         /\ task[t].kind \in {"job", "risk"} => phase = "score"
         /\ task[t].kind = "enforcement" => a = person[task[t].of].asOf
  BY DEF Snapshot
<1>4. task' \in [Tasks -> Task]
  BY <1>2, <1>3 DEF TypeOK, Task, Phases, Person
<1>5. /\ Untouched(t) /\ task'[t].of = task[t].of /\ task'[t].phase = phase
      /\ task'[t].kind = task[t].kind /\ task'[t].asOf = a
  BY <1>3 DEF TypeOK, Task, Untouched
<1> QED
  BY <1>3, <1>4, <1>5 DEF TypeOK, Snapshot, facts

(* Steps of a task that only move it on.                                   *)
LEMMA MovesType ==
    ASSUME TypeOK, NEW t \in Tasks,
           Observe(t) \/ Lose(t) \/ Decide(t) \/ Warn(t) \/ LookForCorrective(t)
              \/ CreateCorrective(t) \/ LogEnforced(t) \/ Abandon(t)
    PROVE  /\ task' \in [Tasks -> Task]
           /\ Untouched(t)
           /\ \/ Moves(t, Phases \ {"idle", "score", "snapshot", "create"})
              \/ LookForCorrective(t) /\ NoCorrective(task[t].of) /\ Goes(t, "create")
<1> DEFINE later == Phases \ {"idle", "score", "snapshot", "create"}
<1>1. ASSUME NEW phase \in later, Goes(t, phase)
      PROVE  task' \in [Tasks -> Task] /\ Untouched(t) /\ Moves(t, later)
  BY <1>1, GoesTo DEF Moves
<1>2. ASSUME Ends(t)
      PROVE  task' \in [Tasks -> Task] /\ Untouched(t) /\ Moves(t, later)
  BY <1>2, EndsTo DEF Moves
<1>3. ASSUME Returns(t)
      PROVE  task' \in [Tasks -> Task] /\ Untouched(t) /\ Moves(t, later)
  BY <1>3, ReturnsTo DEF Moves, Phases
<1>4. ASSUME Transition(t)
      PROVE  task' \in [Tasks -> Task] /\ Untouched(t) /\ Moves(t, later)
  BY <1>4, TransitionTo DEF Moves, Phases
<1>5. CASE Observe(t)
  BY <1>1, <1>3, <1>5 DEF Observe, Phases
<1>6. CASE Lose(t)
  BY <1>3, <1>6 DEF Lose
<1>7. CASE Decide(t)
  BY <1>1, <1>2, <1>7 DEF Decide, Phases
<1>8. CASE Warn(t) \/ CreateCorrective(t)
  BY <1>4, <1>8 DEF Warn, CreateCorrective
<1>9. CASE LookForCorrective(t)
  <2>1. CASE NoCorrective(task[t].of)
    <3>1. Goes(t, "create")
      BY <1>9, <2>1 DEF LookForCorrective
    <3> QED
      BY <1>9, <2>1, <3>1, GoesTo DEF Phases
  <2>2. CASE ~ NoCorrective(task[t].of)
    BY <1>4, <1>9, <2>2 DEF LookForCorrective
  <2> QED
    BY <2>1, <2>2
<1>10. CASE LogEnforced(t) \/ Abandon(t)
  BY <1>2, <1>10 DEF LogEnforced, Abandon
<1> QED
  BY <1>5, <1>6, <1>7, <1>8, <1>9, <1>10

LEMMA EvaluateType ==
    ASSUME TypeOK, Working, NEW t \in Tasks,
           Observe(t) \/ Lose(t) \/ Decide(t) \/ Warn(t) \/ LookForCorrective(t)
              \/ CreateCorrective(t) \/ LogEnforced(t) \/ Abandon(t)
    PROVE  TypeOK'
<1>1. task' \in [Tasks -> Task]
  BY MovesType
<1>2. task[t].of \in Persons
  BY DEF Working, Observe, Lose, Decide, Warn, LookForCorrective, CreateCorrective, LogEnforced,
         Abandon
<1>3. CASE Observe(t) \/ Lose(t) \/ Decide(t) \/ LookForCorrective(t)
  BY <1>1, <1>3 DEF TypeOK, Observe, Lose, Decide, LookForCorrective, facts
<1>4. CASE Warn(t) \/ LogEnforced(t)
  BY <1>1, <1>2, <1>4, LoggedType DEF TypeOK, Warn, LogEnforced
<1>5. CASE CreateCorrective(t)
  BY <1>1, <1>2, <1>5 DEF TypeOK, CreateCorrective
<1>6. CASE Abandon(t)
  BY <1>1, <1>6, RiskAssumption DEF TypeOK, Abandon, Change
<1> QED
  BY <1>3, <1>4, <1>5, <1>6

LEMMA FactsType ==
    ASSUME TypeOK, NEW p \in Persons, FactsChange(p) \/ Resolve(p)
    PROVE  TypeOK'
<1>1. changes' \in 0..MaxChanges
  BY RiskAssumption DEF TypeOK, FactsChange, Resolve, Change
<1>2. CASE FactsChange(p)
  <2>1. base' \in [Persons -> Int] /\ critical' \in [Persons -> 0..4]
    BY <1>2, RiskAssumption DEF TypeOK, FactsChange
  <2> QED
    BY <1>1, <1>2, <2>1 DEF TypeOK, FactsChange
<1>3. CASE Resolve(p)
  <2>1. open' \in [Persons -> Nat]
    BY <1>3 DEF TypeOK, Resolve
  <2> QED
    BY <1>1, <1>3, <2>1 DEF TypeOK, Resolve
<1> QED
  BY <1>2, <1>3

-------------------------------------------------------------------------------
(* One group of steps per way in which they change the tasks.              *)
MoveOn(t) ==
    \/ Observe(t) \/ Lose(t) \/ Decide(t) \/ Warn(t)
    \/ LookForCorrective(t) \/ CreateCorrective(t) \/ LogEnforced(t) \/ Abandon(t)

LEMMA NextCases ==
    ASSUME Next
    PROVE  \/ \E t \in Tasks : MoveOn(t)
           \/ \E t \in Tasks : Calculate(t)
           \/ \E t \in Tasks : Snapshot(t)
           \/ \E t \in Tasks : Claim(t)
           \/ \E t \in Tasks, p \in Persons, kind \in Kinds \ {"none"} : Start(t, p, kind)
           \/ \E p \in Persons : FactsChange(p) \/ Resolve(p)
<1>1. ASSUME NEW t \in Tasks, Evaluate(t) \/ Abandon(t)
      PROVE  MoveOn(t) \/ Calculate(t) \/ Snapshot(t) \/ Claim(t)
  BY <1>1 DEF MoveOn, Evaluate
<1> QED
  BY <1>1 DEF Next

LEMMA NextType == TypeOK /\ Working /\ Next => TypeOK'
<1> SUFFICES ASSUME TypeOK, Working, Next PROVE TypeOK'
  OBVIOUS
<1>1. CASE \E t \in Tasks : MoveOn(t)
  BY <1>1, EvaluateType DEF MoveOn
<1>2. CASE \E t \in Tasks : Calculate(t) \/ Snapshot(t) \/ Claim(t)
  BY <1>2, CalculateType, SnapshotType, ClaimType
<1>3. CASE \E t \in Tasks, p \in Persons, kind \in Kinds \ {"none"} : Start(t, p, kind)
  BY <1>3, StartType
<1>4. CASE \E p \in Persons : FactsChange(p) \/ Resolve(p)
  BY <1>4, FactsType
<1> QED
  BY <1>1, <1>2, <1>3, <1>4, NextCases

(* The person of a task that is under way.                                 *)
LEMMA WorkingKept ==
    ASSUME Working, NEW t \in Tasks, Untouched(t),
           task'[t].phase # "idle" => (task'[t].of \in Persons /\ task'[t].kind # "none")
    PROVE  Working'
  BY DEF Working, Untouched

LEMMA NextWorking == TypeOK /\ Working /\ Next => Working'
<1> SUFFICES ASSUME TypeOK, Working, Next PROVE Working'
  OBVIOUS
<1>1. ASSUME NEW t \in Tasks, MoveOn(t) PROVE Working'
  <2>1. task[t].phase # "idle" /\ task[t] \in Task
    BY <1>1 DEF MoveOn, Observe, Lose, Decide, Warn, LookForCorrective, CreateCorrective,
                LogEnforced, Abandon, TypeOK
  <2>2. Untouched(t) /\ (task'[t] = IdleTask \/ (task'[t].of = task[t].of /\ task'[t].kind = task[t].kind))
    <3>1. task' \in [Tasks -> Task] /\ Untouched(t)
      BY <1>1, MovesType DEF MoveOn
    <3>2. task'[t] = IdleTask
             \/ \E phase \in Phases : task'[t] = [task[t] EXCEPT !.phase = phase]
      BY <1>1, MovesType, GoesTo DEF MoveOn, Moves, Phases
    <3> QED
      BY <2>1, <3>1, <3>2 DEF Task
  <2>3. task[t].of \in Persons /\ task[t].kind # "none"
    BY <2>1 DEF Working
  <2> QED
    BY <2>2, <2>3, WorkingKept DEF IdleTask
<1>2. ASSUME NEW t \in Tasks, Calculate(t) \/ Snapshot(t) PROVE Working'
  <2>1. task[t].of \in Persons /\ task[t].kind # "none"
    BY <1>2 DEF Working, Calculate, Snapshot
  <2> QED
    BY <1>2, <2>1, CalculateType, SnapshotType, WorkingKept
<1>3. ASSUME NEW t \in Tasks, Claim(t) PROVE Working'
  <2>1. task[t].of \in Persons /\ task[t].kind # "none"
    BY <1>3 DEF Working, Claim
  <2> QED
    BY <1>3, <2>1, AfterTo, WorkingKept DEF Claim, IdleTask
<1>4. CASE \E t \in Tasks, p \in Persons, kind \in Kinds \ {"none"} : Start(t, p, kind)
  BY <1>4, StartType, WorkingKept
<1>5. CASE \E p \in Persons : FactsChange(p) \/ Resolve(p)
  BY <1>5 DEF FactsChange, Resolve, Working
<1> QED
  BY <1>1, <1>2, <1>3, <1>4, <1>5, NextCases

-------------------------------------------------------------------------------
(* Only a claim writes the row and its evidence.                           *)
LEMMA RowsKept ==
    ASSUME Next, ~ \E t \in Tasks : Claim(t)
    PROVE  UNCHANGED <<person, last>>
<1>1. ASSUME NEW t \in Tasks, MoveOn(t) PROVE UNCHANGED <<person, last>>
  BY <1>1 DEF MoveOn, Observe, Lose, Decide, Warn, LookForCorrective, CreateCorrective, LogEnforced,
              Abandon
<1>2. ASSUME NEW t \in Tasks, Calculate(t) \/ Snapshot(t) PROVE UNCHANGED <<person, last>>
  BY <1>2 DEF Calculate, Snapshot
<1>3. CASE \E t \in Tasks, p \in Persons, kind \in Kinds \ {"none"} : Start(t, p, kind)
  BY <1>3 DEF Start
<1>4. CASE \E p \in Persons : FactsChange(p) \/ Resolve(p)
  BY <1>4 DEF FactsChange, Resolve
<1> QED
  BY <1>1, <1>2, <1>3, <1>4, NextCases

LEMMA NextRows == TypeOK /\ Working /\ RowMatchesEvidence /\ Next => RowMatchesEvidence'
<1> SUFFICES ASSUME TypeOK, Working, RowMatchesEvidence, Next
             PROVE  RowMatchesEvidence'
  OBVIOUS
<1>1. ASSUME NEW t \in Tasks, Claim(t) PROVE RowMatchesEvidence'
  <2> DEFINE p == task[t].of
  <2>1. p \in Persons
    BY <1>1 DEF Working, Claim
  <2>2. /\ person' = [person EXCEPT ![p] = [state |-> NextState(t), score |-> task[t].score,
                                            dated |-> TRUE, asOf |-> task[t].asOf]]
        /\ last' = [last EXCEPT ![p] = NextState(t)] \/ (last' = last /\ last[p] = NextState(t))
    BY <1>1 DEF Claim, EvidenceDiffers
  <2>3. person'[p].state = NextState(t) /\ person'[p].score = task[t].score /\ last'[p] = NextState(t)
    BY <2>1, <2>2 DEF TypeOK
  <2>4. NextState(t) = Derive(person'[p].score)
    BY <2>3 DEF NextState
  <2>5. \A q \in Persons \ {p} : person'[q] = person[q] /\ last'[q] = last[q]
    BY <2>1, <2>2 DEF TypeOK
  <2> QED
    BY <2>3, <2>4, <2>5 DEF RowMatchesEvidence
<1>2. CASE ~ \E t \in Tasks : Claim(t)
  BY <1>2, RowsKept DEF RowMatchesEvidence
<1> QED
  BY <1>1, <1>2

-------------------------------------------------------------------------------
(* Corrective actions.                                                     *)
LEMMA CreatingFinite ==
    ASSUME NEW p
    PROVE  /\ IsFiniteSet(Creating(p))
           /\ Cardinality(Creating(p)) \in Nat
           /\ Cardinality(Creating(p)) <= Cardinality(Tasks)
           /\ Cardinality(Tasks) \in Nat
<1>1. Creating(p) \subseteq Tasks /\ IsFiniteSet(Tasks)
  BY RiskAssumption DEF Creating
<1> QED
  BY <1>1, FS_Subset, FS_CardinalityType

(* Nobody new is about to create, and no action is new.                    *)
LEMMA RoomKept ==
    ASSUME TypeOK, TypeOK', RoomToCreate, NEW p \in Persons,
           Creating(p)' \subseteq Creating(p), open'[p] <= open[p]
    PROVE  open'[p] + Cardinality(Creating(p)') <= Cardinality(Tasks)
<1>1. Cardinality(Creating(p)') <= Cardinality(Creating(p)) /\ Cardinality(Creating(p)') \in Nat
  BY CreatingFinite, FS_Subset, FS_CardinalityType
<1>2. open'[p] \in Nat /\ open[p] \in Nat
  BY DEF TypeOK
<1> QED
  BY <1>1, <1>2, CreatingFinite DEF RoomToCreate

(* A task moves, and not to the creation.                                  *)
LEMMA NoNewCreator ==
    ASSUME NEW t \in Tasks, Untouched(t), task'[t].phase # "create", NEW p
    PROVE  Creating(p)' \subseteq Creating(p) \ {t}
  BY DEF Creating, Untouched

LEMMA NextRoom ==
    TypeOK /\ TypeOK' /\ Working /\ RoomToCreate /\ Next => RoomToCreate'
<1> SUFFICES ASSUME TypeOK, TypeOK', Working, RoomToCreate, Next, NEW p \in Persons
             PROVE  open'[p] + Cardinality(Creating(p)') <= Cardinality(Tasks)
  BY DEF RoomToCreate
<1>0. open \in [Persons -> Nat]
  BY DEF TypeOK
<1>1. ASSUME NEW t \in Tasks, MoveOn(t)
      PROVE  open'[p] + Cardinality(Creating(p)') <= Cardinality(Tasks)
  <2>1. task' \in [Tasks -> Task] /\ Untouched(t)
    BY <1>1, MovesType DEF MoveOn
  <2>2. CASE LookForCorrective(t) /\ NoCorrective(task[t].of) /\ Goes(t, "create")
    <3>1. open' = open
      BY <2>2 DEF LookForCorrective, facts
    <3>2. CASE task[t].of = p
      <4>1. open'[p] = 0
        BY <2>2, <3>1, <3>2 DEF NoCorrective
      <4>2. Creating(p)' \subseteq Tasks /\ IsFiniteSet(Tasks)
        BY RiskAssumption DEF Creating
      <4>3. Cardinality(Creating(p)') <= Cardinality(Tasks) /\ Cardinality(Creating(p)') \in Nat
        BY <4>2, FS_Subset, FS_CardinalityType
      <4> QED
        BY <4>1, <4>3
    <3>3. CASE task[t].of # p
      <4>1. task'[t].of # p
        BY <2>2, <3>3, GoesTo DEF TypeOK, Task, Phases
      <4>2. Creating(p)' \subseteq Creating(p)
        BY <2>1, <4>1 DEF Creating, Untouched
      <4> QED
        BY <1>0, <3>1, <4>2, RoomKept
    <3> QED
      BY <3>2, <3>3
  <2>3. CASE Moves(t, Phases \ {"idle", "score", "snapshot", "create"})
    <3>1. task'[t].phase # "create"
      BY <2>3 DEF Moves, IdleTask, TypeOK, Task
    <3>2. Creating(p)' \subseteq Creating(p) \ {t}
      BY <2>1, <3>1, NoNewCreator
    <3>3. CASE CreateCorrective(t) /\ task[t].of = p
      <4>1. open'[p] = open[p] + 1 /\ t \in Creating(p)
        BY <1>0, <3>3 DEF CreateCorrective, Creating
      <4>2. Cardinality(Creating(p) \ {t}) = Cardinality(Creating(p)) - 1
               /\ IsFiniteSet(Creating(p) \ {t})
        BY <4>1, CreatingFinite, FS_RemoveElement
      <4>3. Cardinality(Creating(p)') <= Cardinality(Creating(p) \ {t})
               /\ Cardinality(Creating(p)') \in Nat
        BY <3>2, <4>2, FS_Subset, FS_CardinalityType
      <4> QED
        BY <1>0, <4>1, <4>2, <4>3, CreatingFinite DEF RoomToCreate
    <3>4. CASE CreateCorrective(t) /\ task[t].of # p
      <4>1. open'[p] = open[p]
        BY <1>0, <3>4 DEF CreateCorrective
      <4> QED
        BY <1>0, <3>2, <4>1, RoomKept
    <3>5. CASE ~ CreateCorrective(t)
      <4>1. open' = open
        BY <1>1, <3>5 DEF MoveOn, Observe, Lose, Decide, Warn, LookForCorrective, LogEnforced,
                          Abandon, facts
      <4> QED
        BY <1>0, <3>2, <4>1, RoomKept
    <3> QED
      BY <3>3, <3>4, <3>5
  <2> QED
    BY <1>1, <2>2, <2>3, MovesType DEF MoveOn
<1>2. ASSUME NEW t \in Tasks, Calculate(t) \/ Snapshot(t) \/ Claim(t)
                               \/ \E q \in Persons, kind \in Kinds \ {"none"} : Start(t, q, kind)
      PROVE  open'[p] + Cardinality(Creating(p)') <= Cardinality(Tasks)
  <2>1. Untouched(t) /\ task'[t].phase # "create"
    BY <1>2, CalculateType, SnapshotType, AfterTo, StartType DEF Claim, IdleTask
  <2>2. open' = open
    BY <1>2 DEF Calculate, Snapshot, Claim, Start, facts
  <2> QED
    BY <1>0, <2>1, <2>2, NoNewCreator, RoomKept
<1>3. ASSUME NEW q \in Persons, FactsChange(q) \/ Resolve(q)
      PROVE  open'[p] + Cardinality(Creating(p)') <= Cardinality(Tasks)
  <2>1. task' = task
    BY <1>3 DEF FactsChange, Resolve
  <2>2. open'[p] <= open[p]
    BY <1>0, <1>3 DEF FactsChange, Resolve
  <2> QED
    BY <2>1, <2>2, RoomKept DEF Creating
<1> QED
  BY <1>1, <1>2, <1>3, NextCases

-------------------------------------------------------------------------------
(* The facts that a decision and a row have seen.                          *)
LEMMA NextSeen ==
    TypeOK /\ TypeOK' /\ Working /\ NothingOverlooked /\ Next => NothingOverlooked'
<1> SUFFICES ASSUME TypeOK, TypeOK', Working, NothingOverlooked, Next
             PROVE  NothingOverlooked'
  OBVIOUS
<1>0. /\ changes \in Nat /\ changes' \in Nat /\ changes <= changes'
      /\ \A p \in Persons : person[p].asOf \in Nat /\ person'[p].asOf \in Nat
      /\ \A t \in Tasks : task[t].asOf \in Nat /\ task'[t].asOf \in Nat
  <2>1. changes \in Nat /\ changes' \in Nat
    BY RiskAssumption DEF TypeOK
  <2>2. \A p \in Persons : person[p] \in Person /\ person'[p] \in Person
    BY DEF TypeOK
  <2>3. \A t \in Tasks : task[t] \in Task /\ task'[t] \in Task
    BY DEF TypeOK
  <2>4. changes' = changes \/ changes' = changes + 1
    BY NextCases DEF MoveOn, Observe, Lose, Decide, Warn, LookForCorrective, CreateCorrective,
         LogEnforced, Abandon, Calculate, Snapshot, Claim, Start, FactsChange, Resolve, Change, facts
  <2> QED
    BY <2>1, <2>2, <2>3, <2>4, RiskAssumption DEF Person, Task
<1>1. ASSUME NEW t \in Tasks, Untouched(t), person' = person,
             task'[t].asOf <= changes',
             Decided(t)' => person[task'[t].of].asOf <= task'[t].asOf
      PROVE  NothingOverlooked'
  <2>1. \A u \in Tasks : task'[u].asOf <= changes'
    BY <1>0, <1>1 DEF Untouched, NothingOverlooked
  <2>2. \A u \in Tasks \ {t} : Decided(u)' => Decided(u)
    BY <1>1 DEF Decided, Untouched
  <2>3. \A u \in Tasks : Decided(u)' => person'[task'[u].of].asOf <= task'[u].asOf
    BY <1>1, <2>2 DEF Untouched, NothingOverlooked
  <2>4. \A p \in Persons : person'[p].asOf <= changes'
    BY <1>0, <1>1 DEF NothingOverlooked
  <2> QED
    BY <2>1, <2>3, <2>4 DEF NothingOverlooked
<1>2. ASSUME NEW t \in Tasks, MoveOn(t) PROVE NothingOverlooked'
  <2>1. Untouched(t) /\ task[t] \in Task
    BY <1>2, MovesType DEF MoveOn, TypeOK
  <2>2. \/ task'[t] = IdleTask
        \/ \E phase \in Phases : task'[t] = [task[t] EXCEPT !.phase = phase]
    BY <1>2, MovesType, GoesTo DEF MoveOn, Moves, Phases
  <2>3. task[t].phase \notin {"idle", "score", "snapshot"}  \/ Abandon(t)
    BY <1>2 DEF MoveOn, Observe, Lose, Decide, Warn, LookForCorrective, CreateCorrective, LogEnforced
  <2>4. task'[t].asOf <= changes'
    <3>1. CASE task'[t] = IdleTask
      BY <1>0, <3>1 DEF IdleTask
    <3>2. task[t].asOf <= changes
      BY DEF NothingOverlooked
    <3>3. CASE task'[t].asOf = task[t].asOf
      BY <1>0, <3>2, <3>3
    <3>4. task'[t] = IdleTask \/ task'[t].asOf = task[t].asOf
      BY <2>1, <2>2 DEF Task
    <3> QED
      BY <3>1, <3>3, <3>4
  <2>5. Decided(t)' => person[task'[t].of].asOf <= task'[t].asOf
    <3>1. CASE task'[t] = IdleTask
      BY <3>1 DEF Decided, IdleTask
    <3>2. CASE Abandon(t)
      BY <3>2, EndsTo DEF Abandon, Decided, IdleTask
    <3>3. CASE task[t].phase \notin {"idle", "score", "snapshot"} /\ task'[t] # IdleTask
      BY <2>1, <2>2, <3>3 DEF Decided, Task, NothingOverlooked
    <3> QED
      BY <2>3, <3>1, <3>2, <3>3
  <2>6. person' = person
    BY <1>2 DEF MoveOn, Observe, Lose, Decide, Warn, LookForCorrective, CreateCorrective,
                LogEnforced, Abandon
  <2> QED
    BY <1>1, <2>1, <2>4, <2>5, <2>6
<1>3. ASSUME NEW t \in Tasks, Calculate(t) PROVE NothingOverlooked'
  <2>1. Untouched(t) /\ task'[t].of = task[t].of /\ task'[t].asOf = changes
    BY <1>3, CalculateType
  <2>2. person' = person /\ changes' = changes /\ task[t].of \in Persons
    BY <1>3 DEF Calculate, Working, facts
  <2>3. person[task'[t].of].asOf <= task'[t].asOf
    BY <2>1, <2>2 DEF NothingOverlooked
  <2> QED
    BY <1>0, <1>1, <2>1, <2>2, <2>3
<1>4. ASSUME NEW t \in Tasks, Snapshot(t) PROVE NothingOverlooked'
  <2>1. /\ Untouched(t) /\ task'[t].of = task[t].of
        /\ task'[t].asOf \in {task[t].asOf, person[task[t].of].asOf}
    BY <1>4, SnapshotType
  <2>2. person' = person /\ changes' = changes /\ task[t].of \in Persons
    BY <1>4 DEF Snapshot, Working, facts
  <2>3. task'[t].asOf <= changes'
    BY <2>1, <2>2 DEF NothingOverlooked
  <2>4. Decided(t)' => person[task'[t].of].asOf <= task'[t].asOf
    <3>1. CASE task[t].kind \in {"job", "risk"}
      BY <1>4, <3>1, SnapshotType DEF Decided
    <3>2. CASE task[t].kind = "enforcement"
      BY <1>0, <1>4, <2>1, <2>2, <3>2, SnapshotType
    <3>3. CASE task[t].kind = "service"
      BY <1>4, <3>3, SnapshotType DEF Decided
    <3>4. CASE task[t].kind = "none"
      BY <1>4, <3>4 DEF Snapshot, Working
    <3> QED
      BY <3>1, <3>2, <3>3, <3>4 DEF TypeOK, Task, Kinds
  <2> QED
    BY <1>1, <2>1, <2>2, <2>3, <2>4
<1>5. ASSUME NEW t \in Tasks, Claim(t) PROVE NothingOverlooked'
  <2> DEFINE p == task[t].of
  <2>1. p \in Persons /\ changes' = changes
    BY <1>5 DEF Claim, Working
  <2>2. person'[p].asOf = task[t].asOf /\ \A q \in Persons \ {p} : person'[q] = person[q]
    BY <1>5, <2>1 DEF Claim, TypeOK
  <2>3. Untouched(t)
    BY <1>5, AfterTo DEF Claim
  <2>4. \A q \in Persons : person'[q].asOf <= changes'
    BY <2>1, <2>2 DEF NothingOverlooked
  <2>5. \A u \in Tasks : task'[u].asOf <= changes'
    BY <1>0, <1>5, <2>1, <2>3, AfterTo DEF Claim, Untouched, NothingOverlooked, IdleTask
  <2>6. ASSUME NEW u \in Tasks, Decided(u)' PROVE person'[task'[u].of].asOf <= task'[u].asOf
    <3>1. task'[u].fresh
      BY <2>6 DEF Decided
    <3>2. task[u].of # p
      BY <1>5, <3>1, AfterTo DEF Claim
    <3>3. u # t
      BY <3>2
    <3>4. Decided(u) /\ task'[u].of = task[u].of /\ task'[u].asOf = task[u].asOf
      BY <2>3, <2>6, <3>3 DEF Untouched, Decided
    <3>5. task[u].of \in Persons
      BY <3>4 DEF Decided, Working
    <3> QED
      BY <2>2, <3>2, <3>4, <3>5 DEF NothingOverlooked
  <2> QED
    BY <2>4, <2>5, <2>6 DEF NothingOverlooked
<1>6. ASSUME NEW t \in Tasks, NEW p \in Persons, NEW kind \in Kinds \ {"none"}, Start(t, p, kind)
      PROVE  NothingOverlooked'
  <2>1. Untouched(t) /\ task'[t].asOf = 0 /\ ~ Decided(t)'
    BY <1>6, StartType DEF Decided
  <2>2. person' = person
    BY <1>6 DEF Start
  <2> QED
    BY <1>0, <1>1, <2>1, <2>2
<1>7. CASE \E p \in Persons : FactsChange(p) \/ Resolve(p)
  <2>1. person' = person /\ task' = task
    BY <1>7 DEF FactsChange, Resolve
  <2> QED
    BY <1>0, <2>1 DEF NothingOverlooked, Decided
<1> QED
  BY <1>2, <1>3, <1>4, <1>5, <1>6, <1>7, NextCases

-------------------------------------------------------------------------------
(* The invariant.                                                          *)
LEMMA InitIInv == Init => IInv
<1> SUFFICES ASSUME Init PROVE IInv
  OBVIOUS
<1>1. TypeOK
  BY TypeInit
<1>2. Working /\ RowMatchesEvidence /\ NothingOverlooked
  BY RiskAssumption
     DEF Init, Working, RowMatchesEvidence, NothingOverlooked, Decided, IdleTask, Unrated
<1>3. ASSUME NEW p \in Persons PROVE open[p] + Cardinality(Creating(p)) <= Cardinality(Tasks)
  <2>1. open[p] = 0
    BY DEF Init
  <2> QED
    BY <2>1, CreatingFinite
<1> QED
  BY <1>1, <1>2, <1>3 DEF IInv, RoomToCreate

LEMMA Stutter == IInv /\ UNCHANGED vars => IInv'
<1> SUFFICES ASSUME IInv, UNCHANGED vars PROVE IInv'
  OBVIOUS
<1> USE DEF IInv, vars
<1>1. TypeOK' /\ Working'
  BY DEF TypeOK, Working
<1>2. RowMatchesEvidence' /\ RoomToCreate'
  BY DEF RowMatchesEvidence, RoomToCreate, Creating
<1>3. NothingOverlooked'
  BY DEF NothingOverlooked, Decided
<1> QED
  BY <1>1, <1>2, <1>3

(* The invariant of every behaviour; the other theorems follow from it.    *)
THEOREM Invariant == Spec => []IInv
<1>1. IInv /\ [Next]_vars => IInv'
  <2> SUFFICES ASSUME IInv, Next PROVE IInv'
    BY Stutter
  <2> QED
    BY NextType, NextWorking, NextRows, NextRoom, NextSeen DEF IInv
<1> QED
  BY <1>1, InitIInv, PTL DEF Spec

(* Every variable has its type; the score stays within 0 and 100.          *)
THEOREM TypeCorrect == Spec => []TypeOK
<1>1. IInv => TypeOK
  BY DEF IInv
<1> QED
  BY <1>1, Invariant, PTL

(* The row of an evaluated person, its score and the latest evidence agree *)
(* about the state.                                                        *)
THEOREM EvidenceAgrees == Spec => []RowMatchesEvidence
<1>1. IInv => RowMatchesEvidence
  BY DEF IInv
<1> QED
  BY <1>1, Invariant, PTL

(* Overlapping enforcements open at most one corrective action each.       *)
THEOREM FewCorrectives == Spec => []CorrectivesBounded
<1>1. IInv => CorrectivesBounded
  <2> SUFFICES ASSUME IInv, NEW p \in Persons
               PROVE  open[p] <= Cardinality(Tasks)
    BY DEF CorrectivesBounded
  <2>1. open[p] \in Nat /\ open[p] + Cardinality(Creating(p)) <= Cardinality(Tasks)
    BY DEF IInv, TypeOK, RoomToCreate
  <2> QED
    BY <2>1, CreatingFinite
<1> QED
  BY <1>1, Invariant, PTL

(* An evaluation that read the row before the facts never replaces one of  *)
(* later facts.                                                            *)
THEOREM DecisionsGoForward == Spec => NoStepBack
<1> DEFINE Forward ==
       \A t \in Tasks :
          task[t].kind # "service" /\ task[t].phase = "claim" /\ task'[t].phase # "claim"
              => \A p \in Persons : person'[p].asOf >= person[p].asOf
<1>1. IInv /\ IInv' /\ [Next]_vars => [Forward]_vars
  <2> SUFFICES ASSUME IInv, IInv', Next,
                      NEW t \in Tasks, task[t].kind # "service", task[t].phase = "claim",
                      task'[t].phase # "claim", NEW p \in Persons
               PROVE  person'[p].asOf >= person[p].asOf
    OBVIOUS
  <2>1. person[p].asOf \in Nat
    <3>1. person[p] \in Person
      BY DEF IInv, TypeOK
    <3> QED
      BY <3>1, RiskAssumption DEF Person
  <2>2. ASSUME NEW u \in Tasks, Claim(u) PROVE person'[p].asOf >= person[p].asOf
    <3>1. u = t
      BY <2>2, AfterTo DEF IInv, Claim, Untouched
    <3>2. task[t].of \in Persons /\ Decided(t)
      BY <2>2, <3>1 DEF Claim, Unchanged, Decided, IInv, Working
    <3>3. /\ person'[task[t].of].asOf = task[t].asOf
          /\ \A q \in Persons \ {task[t].of} : person'[q] = person[q]
      BY <2>2, <3>1, <3>2 DEF Claim, IInv, TypeOK
    <3>4. person[task[t].of].asOf <= task[t].asOf
      BY <3>2 DEF IInv, NothingOverlooked
    <3>5. task[t].asOf \in Nat
      <4>1. task[t] \in Task
        BY DEF IInv, TypeOK
      <4> QED
        BY <4>1, RiskAssumption DEF Task
    <3> QED
      BY <2>1, <3>3, <3>4, <3>5
  <2>3. CASE ~ \E u \in Tasks : Claim(u)
    BY <2>1, <2>3, RowsKept
  <2> QED
    BY <2>2, <2>3
<1>2. Spec => [][Forward]_vars
  BY <1>1, Invariant, PTL DEF Spec
<1> QED
  BY <1>2 DEF NoStepBack

-------------------------------------------------------------------------------
(* The evaluations that read the facts first.                              *)
Informed ==
    \A t \in Tasks :
        /\ task[t].kind = "service"
        /\ task[t].phase = "snapshot" \/ (task[t].fresh /\ task[t].phase \notin {"idle", "score"})
        => person[task[t].of].asOf <= task[t].asOf

LEMMA InitInformed == Init => Informed
  BY DEF Init, Informed, IdleTask

LEMMA MovedInformed ==
    ASSUME TypeOK, Informed, NEW t \in Tasks, MoveOn(t)
    PROVE  Informed'
<1>1. Untouched(t) /\ person' = person /\ task[t] \in Task
  BY MovesType DEF MoveOn, TypeOK, Observe, Lose, Decide, Warn, LookForCorrective,
                   CreateCorrective, LogEnforced, Abandon
<1>2. \/ task'[t] = IdleTask
      \/ \E phase \in Phases : task'[t] = [task[t] EXCEPT !.phase = phase]
  BY MovesType, GoesTo DEF MoveOn, Moves, Phases
<1>3. task[t].phase \notin {"idle", "score", "snapshot"} \/ task'[t] = IdleTask
  BY EndsTo DEF MoveOn, Observe, Lose, Decide, Warn, LookForCorrective, CreateCorrective,
                LogEnforced, Abandon
<1>4. task'[t].kind = "service"
        /\ (task'[t].phase = "snapshot" \/ (task'[t].fresh /\ task'[t].phase \notin {"idle", "score"}))
      => person'[task'[t].of].asOf <= task'[t].asOf
  <2>1. CASE task'[t] = IdleTask
    BY <2>1 DEF IdleTask
  <2>2. CASE task'[t] # IdleTask
    <3>1. task'[t].phase # "snapshot"
      <4>1. \/ \E phase \in Phases \ {"idle", "score", "snapshot", "create"} :
                  task'[t] = [task[t] EXCEPT !.phase = phase]
            \/ task'[t] = [task[t] EXCEPT !.phase = "create"]
        BY <2>2, MovesType, GoesTo DEF MoveOn, Moves, Phases
      <4> QED
        BY <1>1, <4>1 DEF Task
    <3>2. /\ task'[t].kind = task[t].kind /\ task'[t].of = task[t].of
          /\ task'[t].asOf = task[t].asOf /\ task'[t].fresh = task[t].fresh
      BY <1>1, <1>2, <2>2 DEF Task
    <3> QED
      BY <1>1, <1>3, <2>2, <3>1, <3>2 DEF Informed
  <2> QED
    BY <2>1, <2>2
<1> QED
  BY <1>1, <1>4 DEF Informed, Untouched

LEMMA ClaimInformed ==
    ASSUME TypeOK, Working, Informed, NEW t \in Tasks, Claim(t),
           \A u \in Tasks : task[u].kind = "service" /\ task[u].phase = "snapshot"
                              => person'[task[u].of] = person[task[u].of]
    PROVE  Informed'
<1> DEFINE p == task[t].of
<1>1. p \in Persons /\ \A q \in Persons \ {p} : person'[q] = person[q]
  BY DEF Claim, Working, TypeOK
<1>2. Untouched(t) /\ \A u \in Tasks : task[u].of = p => ~ task'[u].fresh
  BY AfterTo DEF Claim
<1>3. task'[t] = IdleTask \/ (task'[t].phase = "enforced" /\ ~ task'[t].fresh)
  BY <1>2, AfterTo DEF Claim
<1>4. ASSUME NEW u \in Tasks \ {t}, task'[u].kind = "service",
             task'[u].phase = "snapshot" \/ (task'[u].fresh /\ task'[u].phase \notin {"idle", "score"})
      PROVE  person'[task'[u].of].asOf <= task'[u].asOf
  <2>1. /\ task'[u].of = task[u].of /\ task'[u].asOf = task[u].asOf /\ task[u].kind = "service"
        /\ task'[u].phase = task[u].phase
        /\ task'[u].fresh => task[u].fresh
    BY <1>2, <1>4 DEF Untouched
  <2>2. person[task[u].of].asOf <= task[u].asOf
    BY <1>4, <2>1 DEF Informed
  <2>3. task[u].of \in Persons
    BY <1>4, <2>1 DEF Working
  <2>4. CASE task[u].phase = "snapshot"
    BY <2>1, <2>2, <2>4
  <2>5. CASE task[u].phase # "snapshot"
    BY <1>1, <1>2, <1>4, <2>1, <2>2, <2>3, <2>5
  <2> QED
    BY <2>4, <2>5
<1> QED
  BY <1>3, <1>4 DEF Informed, IdleTask

LEMMA NextInformed ==
    ASSUME TypeOK, Working, NothingOverlooked, Informed, Next,
           \A u \in Tasks : task[u].kind = "service" /\ task[u].phase = "snapshot"
                              => person'[task[u].of] = person[task[u].of]
    PROVE  Informed'
<1>1. ASSUME NEW t \in Tasks, Calculate(t) PROVE Informed'
  <2>1. Untouched(t) /\ task'[t].of = task[t].of /\ task'[t].asOf = changes
    BY <1>1, CalculateType
  <2>2. person' = person /\ task[t].of \in Persons
    BY <1>1 DEF Calculate, Working
  <2> QED
    BY <2>1, <2>2 DEF Informed, Untouched, NothingOverlooked
<1>2. ASSUME NEW t \in Tasks, Snapshot(t) PROVE Informed'
  <2>1. Untouched(t) /\ task'[t].of = task[t].of /\ task'[t].kind = task[t].kind
    BY <1>2, SnapshotType
  <2>2. task[t].kind = "service" => task'[t].asOf = task[t].asOf
    <3>1. task[t] \in Task /\ (task[t].kind = "service" =>
            \E phase \in Phases : task' = [task EXCEPT ![t].snap = person[task[t].of], ![t].fresh = TRUE,
                    ![t].score = task[t].score, ![t].asOf = task[t].asOf, ![t].phase = phase])
      BY <1>2 DEF Snapshot, TypeOK, Phases
    <3> QED
      BY <3>1 DEF TypeOK, Task
  <2>3. person' = person /\ task[t].phase = "snapshot"
    BY <1>2 DEF Snapshot
  <2> QED
    BY <2>1, <2>2, <2>3 DEF Informed, Untouched
<1>3. ASSUME NEW t \in Tasks, NEW p \in Persons, NEW kind \in Kinds \ {"none"}, Start(t, p, kind)
      PROVE  Informed'
  <2>1. Untouched(t) /\ task'[t].kind = kind
    BY <1>3, StartType
  <2>3. person' = person
    BY <1>3 DEF Start
  <2>2. kind = "service" => task'[t].phase = "score"
    BY <1>3 DEF Start, TypeOK, IdleTask
  <2> QED
    BY <2>1, <2>2, <2>3 DEF Informed, Untouched
<1>4. CASE \E p \in Persons : FactsChange(p) \/ Resolve(p)
  BY <1>4 DEF FactsChange, Resolve, Informed
<1> QED
  BY <1>1, <1>2, <1>3, <1>4, MovedInformed, ClaimInformed, NextCases

(* syncAndLogStateChange reads the facts before the row.  A claim of       *)
(* somebody else between the two is the only way in which an evaluation is *)
(* replaced by one of older facts: where none falls there, every write of  *)
(* a row, of whatever kind, has seen what the row has seen.                *)
THEOREM OnlyAClaimBetween == Spec /\ NoClaimBetween => NewerFactsStay
<1> DEFINE Apart   == \A t \in Tasks : task[t].kind = "service" /\ task[t].phase = "snapshot"
                                         => person'[task[t].of] = person[task[t].of]
           Forward == \A p \in Persons : person'[p].asOf >= person[p].asOf
<1>1. IInv /\ Informed /\ [Next]_vars /\ [Apart]_vars => Informed'
  <2>1. CASE UNCHANGED vars
    BY <2>1 DEF Informed, vars
  <2>2. CASE ~ UNCHANGED vars
    BY <2>2, NextInformed DEF IInv
  <2> QED
    BY <2>1, <2>2
<1>2. IInv /\ Informed /\ [Next]_vars => [Forward]_vars
  <2> SUFFICES ASSUME IInv, Informed, Next, NEW p \in Persons
               PROVE  person'[p].asOf >= person[p].asOf
    OBVIOUS
  <2>1. person[p].asOf \in Nat
    <3>1. person[p] \in Person
      BY DEF IInv, TypeOK
    <3> QED
      BY <3>1, RiskAssumption DEF Person
  <2>2. ASSUME NEW t \in Tasks, Claim(t) PROVE person'[p].asOf >= person[p].asOf
    <3>1. task[t].of \in Persons /\ task[t].fresh /\ task[t].phase = "claim"
      BY <2>2 DEF Claim, Unchanged, IInv, Working
    <3>2. /\ person'[task[t].of].asOf = task[t].asOf
          /\ \A q \in Persons \ {task[t].of} : person'[q] = person[q]
      BY <2>2, <3>1 DEF Claim, IInv, TypeOK
    <3>3. person[task[t].of].asOf <= task[t].asOf
      BY <3>1 DEF IInv, NothingOverlooked, Decided, Informed
    <3>4. task[t].asOf \in Nat
      <4>1. task[t] \in Task
        BY DEF IInv, TypeOK
      <4> QED
        BY <4>1, RiskAssumption DEF Task
    <3> QED
      BY <2>1, <3>2, <3>3, <3>4
  <2>3. CASE ~ \E t \in Tasks : Claim(t)
    BY <2>1, <2>3, RowsKept
  <2> QED
    BY <2>2, <2>3
<1>3. Spec /\ [][Apart]_vars => [][Forward]_vars
  BY <1>1, <1>2, Invariant, InitInformed, PTL DEF Spec
<1> QED
  BY <1>3 DEF NoClaimBetween, NewerFactsStay
===============================================================================
