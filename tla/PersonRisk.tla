------------------------------- MODULE PersonRisk -------------------------------
(***************************************************************************)
(* The risk score of people and the operational state that follows from it *)
(* (people/operational-state.*, risk/risk.service.ts, risk/temporal-risk-  *)
(* .service.ts, governance/enforcement-*.ts, corrective-actions.service).  *)
(* Four kinds of evaluation, in any process and at the same time, end in   *)
(* one compare-and-set of the person, which writes the official evidence   *)
(* in the same transaction.  What they write is among what they evaluate:  *)
(* state changes, warnings and open corrective actions count as risk.      *)
(*                                                                         *)
(* Left out: people who are not active, the twenty factors of the score    *)
(* that nothing here changes (they are the base), the corrective actions   *)
(* that critical assessments open, exceptions as rows (an enforcement      *)
(* finds one or none), the older column riskScore (a recalculation may     *)
(* find it different), RiskSnapshot rows, webhooks, and what a             *)
(* recalculation answers.  The queries of one calculation, and of one      *)
(* transaction, are one step.                                              *)
(***************************************************************************)
EXTENDS Integers, FiniteSets

CONSTANTS
    Persons,
    Points,        \* what the facts may add up to, mitigations included
    Tasks,         \* evaluations at the same time, of any process
    MaxChanges,    \* bound: changes of the facts and failures
    None

ASSUME RiskAssumption ==
    /\ Points \subseteq Int
    /\ MaxChanges \in Nat
    /\ IsFiniteSet(Tasks)

States == {"NORMAL", "WARNING", "RESTRICTED", "SUSPENDED"}

(* deriveOperationalStateFromRiskScore.                                    *)
Derive(score) ==
    CASE score >= 90 -> "SUSPENDED"
      [] score >= 70 /\ score < 90 -> "RESTRICTED"
      [] score >= 50 /\ score < 70 -> "WARNING"
      [] score < 50  -> "NORMAL"

VARIABLES
    person,      \* the Person rows
    last,        \* the state in the latest OPERATIONAL_STATE_CHANGED event
    critical,    \* critical timeline events in the window of 90 days, at most 4
    open,        \* OPEN corrective actions
    base,        \* points of everything else
    changes,     \* changes of the facts and failures so far
    task

vars  == <<person, last, critical, open, base, changes, task>>
facts == <<critical, open, base, changes>>

(* asOf is not stored: the changes that the stored score has seen.         *)
Person == [state : States, score : 0..100, dated : BOOLEAN, asOf : 0..MaxChanges]

Kinds == {"none", "service", "job", "risk", "enforcement"}

Phases == {"idle", "score", "snapshot", "observe", "claim",
           "decide", "warn", "look", "create", "enforced"}

Task == [kind : Kinds, phase : Phases, of : Persons \cup {None},
         snap : Person,        \* the row the decision starts from
         fresh : BOOLEAN,      \* the row is still that
         score : 0..100, asOf : 0..MaxChanges]

Unrated == [state |-> "NORMAL", score |-> 0, dated |-> FALSE, asOf |-> 0]

IdleTask == [kind |-> "none", phase |-> "idle", of |-> None, snap |-> Unrated,
             fresh |-> FALSE, score |-> 0, asOf |-> 0]

TypeOK ==
    /\ person \in [Persons -> Person]
    /\ last \in [Persons -> States \cup {None}]
    /\ critical \in [Persons -> 0..4]
    /\ open \in [Persons -> Nat]
    /\ base \in [Persons -> Int]
    /\ changes \in 0..MaxChanges
    /\ task \in [Tasks -> Task]

(* People without an evaluation in their row; evidence may be older than   *)
(* the columns.                                                            *)
Init ==
    /\ person = [p \in Persons |-> Unrated]
    /\ last \in [Persons -> States \cup {None}]
    /\ critical = [p \in Persons |-> 0]
    /\ open = [p \in Persons |-> 0]
    /\ base \in [Persons -> Points]
    /\ changes = 0
    /\ task = [t \in Tasks |-> IdleTask]

-------------------------------------------------------------------------------
(* calculateDetailed.                                                      *)
CorrectivePoints(n) == CASE n = 0 -> 0 [] n \in 1..2 -> 20 [] n > 2 -> 40

Clamp(score) == CASE score < 0 -> 0 [] score \in 0..100 -> score [] score > 100 -> 100

Score(p) == Clamp(base[p] + CorrectivePoints(open[p]) + 5 * critical[p])

(* Mutation: events count without an end.                                  *)
LoggedForEver(p) == critical' = [critical EXCEPT ![p] = @ + 1]

(* An event more: OPERATIONAL_STATE_CHANGED, and its aliases               *)
(* OPERATIONAL_WARNING_RAISED and OPERATIONAL_STATE_ENFORCED.  They stop   *)
(* counting at 20 points.                                                  *)
Logged(p) == critical' = [critical EXCEPT ![p] = IF @ < 4 THEN @ + 1 ELSE 4]

Goes(t, phase) == task' = [task EXCEPT ![t].phase = phase]
Ends(t)        == task' = [task EXCEPT ![t] = IdleTask]

(* syncAndLogStateChange calculates first and reads the row afterwards;    *)
(* the job and recalculatePersonRisk read the row first; the enforcement   *)
(* reads the row and takes the score from it.                              *)
Start(t, p, kind) ==
    /\ task[t].phase = "idle"
    /\ task' = [task EXCEPT ![t] =
          [IdleTask EXCEPT !.kind = kind, !.of = p,
                           !.phase = IF kind = "service" THEN "score" ELSE "snapshot"]]
    /\ UNCHANGED <<person, last, facts>>

Calculate(t) ==
    /\ task[t].phase = "score"
    /\ task' = [task EXCEPT ![t].score = Score(task[t].of), ![t].asOf = changes,
                            ![t].phase = IF task[t].kind = "service" THEN "snapshot" ELSE "observe"]
    /\ UNCHANGED <<person, last, facts>>

Snapshot(t) ==
    LET p == task[t].of
    IN  /\ task[t].phase = "snapshot"
        /\ task' = [task EXCEPT ![t].snap = person[p], ![t].fresh = TRUE,
              ![t].score = IF task[t].kind = "enforcement" THEN person[p].score ELSE @,
              ![t].asOf  = IF task[t].kind = "enforcement" THEN person[p].asOf ELSE @,
              ![t].phase = CASE task[t].kind = "service"         -> "observe"
                             [] task[t].kind \in {"job", "risk"} -> "score"
                             [] OTHER                            -> "decide"]
        /\ UNCHANGED <<person, last, facts>>

-------------------------------------------------------------------------------
(* persistOperationalStateTransition.                                      *)
NextState(t) == Derive(task[t].score)

(* Mutation: evidence alone decides that there is nothing to do.           *)
EvidenceOnly(t) == last[task[t].of] = NextState(t)

(* The evidence and the row that was read say what is to be said.          *)
UpToDate(t) ==
    /\ last[task[t].of] = NextState(t)
    /\ task[t].snap.state = NextState(t)
    /\ task[t].snap.score = task[t].score
    /\ task[t].snap.dated

(* The enforcement of a restriction has an event to write afterwards.      *)
Returns(t) ==
    IF task[t].kind = "enforcement" /\ NextState(t) \in {"RESTRICTED", "SUSPENDED"}
    THEN Goes(t, "enforced") ELSE Ends(t)

Observe(t) ==
    /\ task[t].phase = "observe"
    /\ \/ UpToDate(t) /\ Returns(t)
       \/ /\ ~ UpToDate(t) \/ task[t].kind = "risk"    \* whose riskScore may differ
          /\ Goes(t, "claim")
    /\ UNCHANGED <<person, last, facts>>

(* Mutation: the update goes by id alone.                                  *)
UnchangedAlways(t) == TRUE

(* WHERE state, score and date are those of the snapshot.                  *)
Unchanged(t) == task[t].fresh

(* Mutation: evidence is written when the row changes.                     *)
RowDiffers(t) == task[t].snap.state # NextState(t)

(* The latest evidence, read again in the transaction.                     *)
EvidenceDiffers(t) == last[task[t].of] # NextState(t)

(* Everybody else's snapshot of the row is out of date.                    *)
Written(t) ==
    [u \in Tasks |-> IF task[u].of = task[t].of THEN [task[u] EXCEPT !.fresh = FALSE]
                     ELSE task[u]]

After(t) ==
    IF task[t].kind = "enforcement" /\ NextState(t) \in {"RESTRICTED", "SUSPENDED"}
    THEN [Written(t) EXCEPT ![t].phase = "enforced"] ELSE [Written(t) EXCEPT ![t] = IdleTask]

Claim(t) ==
    LET p == task[t].of
    IN  /\ task[t].phase = "claim"
        /\ Unchanged(t)
        /\ person' = [person EXCEPT ![p] =
              [state |-> NextState(t), score |-> task[t].score, dated |-> TRUE,
               asOf |-> task[t].asOf]]
        /\ IF EvidenceDiffers(t)
           THEN last' = [last EXCEPT ![p] = NextState(t)] /\ Logged(p)
           ELSE UNCHANGED <<last, critical>>
        /\ task' = After(t)
        /\ UNCHANGED <<open, base, changes>>

(* Somebody else was faster.                                               *)
Lose(t) ==
    /\ task[t].phase = "claim"
    /\ ~ Unchanged(t)
    /\ Returns(t)
    /\ UNCHANGED <<person, last, facts>>

-------------------------------------------------------------------------------
(* EnforcementEngineService: what it does next once the event or the       *)
(* corrective action is there; the transition is left out when the row     *)
(* says that state already.                                                *)
Transition(t) ==
    CASE task[t].snap.state # NextState(t) -> Goes(t, "observe")
      [] OTHER                        -> Returns(t)

(* EnforcementPolicyService.decide; a person with an exception is left     *)
(* alone.                                                                  *)
Decide(t) ==
    /\ task[t].phase = "decide"
    /\ \/ Ends(t)
       \/ NextState(t) = "WARNING" /\ Goes(t, "warn")
       \/ NextState(t) \in {"RESTRICTED", "SUSPENDED"} /\ Goes(t, "look")
    /\ UNCHANGED <<person, last, facts>>

(* OPERATIONAL_WARNING_RAISED, in every cycle.                             *)
Warn(t) ==
    /\ task[t].phase = "warn"
    /\ Logged(task[t].of)
    /\ Transition(t)
    /\ UNCHANGED <<person, last, open, base, changes>>

(* Mutation: no look at the corrective actions there are.                  *)
NoCorrectiveAlways(p) == TRUE

NoCorrective(p) == open[p] = 0

(* ensureCorrectiveAction: a look and then a create.                       *)
LookForCorrective(t) ==
    /\ task[t].phase = "look"
    /\ IF NoCorrective(task[t].of) THEN Goes(t, "create") ELSE Transition(t)
    /\ UNCHANGED <<person, last, facts>>

CreateCorrective(t) ==
    /\ task[t].phase = "create"
    /\ open' = [open EXCEPT ![task[t].of] = @ + 1]
    /\ Transition(t)
    /\ UNCHANGED <<person, last, critical, base, changes>>

(* OPERATIONAL_STATE_ENFORCED, in every cycle.                             *)
LogEnforced(t) ==
    /\ task[t].phase = "enforced"
    /\ Logged(task[t].of)
    /\ Ends(t)
    /\ UNCHANGED <<person, last, open, base, changes>>

-------------------------------------------------------------------------------
(* Facts change: work is late or done, events enter or leave the window,   *)
(* a corrective action is resolved (CorrectiveActionsService.resolve; the  *)
(* recalculation that follows is a Start).                                 *)
Change == changes < MaxChanges /\ changes' = changes + 1

FactsChange(p) ==
    /\ Change
    /\ \/ \E b \in Points \ {base[p]} :
             base' = [base EXCEPT ![p] = b] /\ UNCHANGED critical
       \/ \E n \in {critical[p] - 1, critical[p] + 1} \cap (0..4) :
             critical' = [critical EXCEPT ![p] = n] /\ UNCHANGED base
    /\ UNCHANGED <<person, last, open, task>>

Resolve(p) ==
    /\ Change
    /\ open[p] > 0
    /\ open' = [open EXCEPT ![p] = @ - 1]
    /\ UNCHANGED <<person, last, critical, base, task>>

(* An evaluation fails or its process stops.                               *)
Abandon(t) ==
    /\ Change
    /\ task[t].phase # "idle"
    /\ Ends(t)
    /\ UNCHANGED <<person, last, critical, open, base>>

Evaluate(t) ==
    \/ Calculate(t)
    \/ Snapshot(t)
    \/ Observe(t)
    \/ Claim(t)
    \/ Lose(t)
    \/ Decide(t)
    \/ Warn(t)
    \/ LookForCorrective(t)
    \/ CreateCorrective(t)
    \/ LogEnforced(t)

Next ==
    \/ \E t \in Tasks : Evaluate(t) \/ Abandon(t)
    \/ \E t \in Tasks, p \in Persons, kind \in Kinds \ {"none"} : Start(t, p, kind)
    \/ \E p \in Persons : FactsChange(p) \/ Resolve(p)

Spec == Init /\ [][Next]_vars

(* The cron starts a job every five minutes, and what has been started     *)
(* goes on.  The cron does not wait for other evaluations: its start is    *)
(* strongly fair because in the model they take each other's places.       *)
Fairness ==
    /\ \A p \in Persons : SF_vars(\E t \in Tasks : Start(t, p, "job"))
    /\ \A t \in Tasks : WF_vars(Evaluate(t))

FairSpec == Spec /\ Fairness

-------------------------------------------------------------------------------
(* operational-state.transition.ts:204: the row and the official evidence  *)
(* become visible together.  Whoever has evaluated a person and whatever   *)
(* has raced it, the latest evidence names the state in the row, and the   *)
(* state is that of the score next to it.                                  *)
RowMatchesEvidence ==
    \A p \in Persons : person[p].dated =>
        last[p] = person[p].state /\ person[p].state = Derive(person[p].score)

(* Enforcements that overlap (the manual one takes no lock) may each open  *)
(* a corrective action, and not one more, however often they run.          *)
CorrectivesBounded == \A p \in Persons : open[p] <= Cardinality(Tasks)

(* operational-state.transition.ts:86: whoever reads the row before the    *)
(* facts never replaces an evaluation by one of older facts.               *)
NoStepBack ==
    [][\A t \in Tasks :
          task[t].kind # "service" /\ task[t].phase = "claim" /\ task'[t].phase # "claim"
              => \A p \in Persons : person'[p].asOf >= person[p].asOf]_vars

(* Once the facts stop changing, the stored score comes to rest at the     *)
(* score of the facts: the events and corrective actions which evaluations *)
(* add to the facts themselves do not keep it moving.                      *)
Settles ==
    <>[](\A p \in Persons : person[p].score = Score(p) /\ person[p].state = Derive(Score(p)))

(* Nobody writes the row of a person while syncAndLogStateChange is        *)
(* between its calculation and its look at that row.                       *)
NoClaimBetween ==
    [][\A t \in Tasks :
          task[t].kind = "service" /\ task[t].phase = "snapshot"
              => person'[task[t].of] = person[task[t].of]]_vars

(* Nobody replaces an evaluation by one of older facts.                    *)
NewerFactsStay ==
    [][\A p \in Persons : person'[p].asOf >= person[p].asOf]_vars
===============================================================================
