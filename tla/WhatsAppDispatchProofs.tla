------------------------ MODULE WhatsAppDispatchProofs ------------------------
(***************************************************************************)
(* WhatsAppDispatch, proved for any set of messages, any finite pool of    *)
(* worker ids, any number of concurrent requests.                          *)
(***************************************************************************)
EXTENDS WhatsAppDispatch, FiniteSetTheorems, TLAPS

(* An attempt that has begun and a request past its read have a message.   *)
Assigned ==
    /\ \A a \in Attempts : attempt[a].phase # "free" => attempt[a].msg \in Messages
    /\ \A a \in Attempts : attempt[a].phase = "answered" => attempt[a].answer \in Answers
    /\ \A r \in Requests : request[r].kind # "idle" => request[r].msg \in Messages

(* What the provider did, and what the attempt has been told about it.     *)
Told ==
    /\ \A a \in accepted : attempt[a].phase \in {"answered", "spent"}
    /\ \A a \in Attempts : attempt[a].phase = "answered" =>
          /\ attempt[a].answer = "ok" => a \in accepted
          /\ attempt[a].answer \in {"fatal", "retryable"} => a \notin accepted

(* A job is active exactly while some attempt holds it, and a job that can *)
(* still run has attempts left.                                            *)
JobsRun ==
    \A mk \in Messages \X JobKinds :
        /\ job[mk].state = "active" <=> job[mk].holder # None
        /\ job[mk].state \in {"waiting", "active"} => job[mk].made < JobAttempts

IInv == TypeOK /\ Assigned /\ Told /\ JobsRun

-------------------------------------------------------------------------------
(* The initial state satisfies the invariant.                              *)
LEMMA InitIInv == ASSUME DispatchAssumption, Init PROVE IInv
<1>1. TypeOK
  BY DEF DispatchAssumption, Init, TypeOK, Row, Attempt, Job, Request, NoRow, Fresh, NoJob,
         Idle, Statuses, JobKinds
<1>2. Assigned /\ Told
  BY DEF Init, Assigned, Told, Fresh, Idle
<1>3. JobsRun
  BY DEF Init, JobsRun, NoJob
<1>4. QED
  BY <1>1, <1>2, <1>3 DEF IInv

(* Writing the status alone keeps a row a row.                             *)
LEMMA StatusWrite ==
    ASSUME TypeOK, NEW m \in Messages, NEW status \in Statuses
    PROVE  [row EXCEPT ![m].status = status] \in [Messages -> Row]
<1>1. row \in [Messages -> Row]
  BY DEF TypeOK
<1>2. QED
  BY <1>1 DEF Row

(* A job that stops running, by a failure or a stall, counts no more       *)
(* attempts than it may make.                                              *)
Stopped(j) == /\ j \in Job /\ j.state # "active" /\ j.holder = None
              /\ j.state = "waiting" => j.made < JobAttempts

LEMMA JobUpdates ==
    ASSUME DispatchAssumption, NEW j \in Job, j.made < JobAttempts
    PROVE  Stopped(AfterFailure(j)) /\ \A i \in AfterStall(j) : Stopped(i)
<1>1. AfterFailure(j) \in Job
  BY DEF DispatchAssumption, Job, AfterFailure
<1>2. Stopped(AfterFailure(j))
  BY <1>1 DEF DispatchAssumption, Job, AfterFailure, Stopped
<1>3. ASSUME NEW i \in AfterStall(j) PROVE Stopped(i)
  BY DEF DispatchAssumption, Job, AfterStall, Stopped
<1>4. QED
  BY <1>2, <1>3

LEMMA NoJobStopped == ASSUME DispatchAssumption PROVE Stopped(NoJob)
  BY DEF DispatchAssumption, NoJob, Job, Stopped

(* Putting a stopped job in the place of another disturbs no other job.    *)
LEMMA StoppedJobKeeps ==
    ASSUME IInv, NEW mk \in Messages \X JobKinds, NEW j, Stopped(j),
           job' = [job EXCEPT ![mk] = j]
    PROVE  job' \in [Messages \X JobKinds -> Job] /\ JobsRun'
  BY DEF IInv, TypeOK, JobsRun, Stopped

LEMMA SameJobs ==
    ASSUME IInv, UNCHANGED job
    PROVE  job' \in [Messages \X JobKinds -> Job] /\ JobsRun'
  BY DEF IInv, TypeOK, JobsRun

(* Adding a job disturbs no running one.                                   *)
LEMMA AddJobKeeps ==
    ASSUME DispatchAssumption, IInv, NEW m \in Messages, NEW k \in JobKinds, AddJob(m, k)
    PROVE  job' \in [Messages \X JobKinds -> Job] /\ JobsRun'
<1>1. Stopped([NoJob EXCEPT !.state = "waiting"])
  BY DEF DispatchAssumption, NoJob, Job, Stopped
<1>2. QED
  BY <1>1, StoppedJobKeeps, SameJobs DEF AddJob

(* The cron and the jobs both claim under a worker id of theirs.           *)
LEMMA ClaimsByWorkers ==
    ASSUME DispatchAssumption, IInv, NEW a \in Attempts, NEW m \in Messages
    PROVE  /\ Claim(a, m, "cron", a) => \E w \in Workers : Claim(a, m, "cron", w)
           /\ \A k \in JobKinds : JobClaim(a, m, k) => \E w \in Workers : Claim(a, m, k, w)
<1>1. Claim(a, m, "cron", a) => \E w \in Workers : Claim(a, m, "cron", w)
  BY DEF Workers
<1>2. ASSUME NEW k \in JobKinds, JobClaim(a, m, k) PROVE \E w \in Workers : Claim(a, m, k, w)
  <2>1. PICK n \in 1 .. JobAttempts : n = job[<<m, k>>].made + 1
    BY <1>2 DEF DispatchAssumption, JobClaim, IInv, TypeOK, Job, JobsRun
  <2>2. JobWorker(k, n) \in Workers
    BY DEF Workers
  <2>3. QED
    BY <1>2, <2>1, <2>2 DEF JobClaim
<1>3. QED
  BY <1>1, <1>2

LEMMA ClaimSteps ==
    ASSUME DispatchAssumption, IInv, NEW a \in Attempts,
           CronClaim(a) \/ \E m \in Messages, k \in JobKinds : JobClaim(a, m, k)
    PROVE  \E m \in Messages, s \in JobKinds \cup {"cron"}, w \in Workers : Claim(a, m, s, w)
<1>1. CASE CronClaim(a)
  BY <1>1, ClaimsByWorkers DEF CronClaim
<1>2. CASE \E m \in Messages, k \in JobKinds : JobClaim(a, m, k)
  BY <1>2, ClaimsByWorkers
<1>3. QED
  BY <1>1, <1>2

(* A claim, whoever makes it, keeps what rows and attempts promise.        *)
LEMMA ClaimKeeps ==
    ASSUME DispatchAssumption, IInv, NEW a \in Attempts, NEW m \in Messages,
           NEW source \in JobKinds \cup {"cron"}, NEW w \in Workers, Claim(a, m, source, w)
    PROVE  /\ row' \in [Messages -> Row]
           /\ attempt' \in [Attempts -> Attempt]
           /\ Assigned' /\ Told'
<1>1. row' \in [Messages -> Row]
  BY DEF IInv, TypeOK, Claim, Relocked, Row, Statuses
<1>2. attempt' \in [Attempts -> Attempt]
  BY DEF IInv, TypeOK, Claim, Attempt
<1>3. Assigned'
  BY DEF IInv, TypeOK, Claim, Attempt, Assigned
<1>4. Told'
  BY DEF IInv, TypeOK, Claim, Attempt, Told
<1>5. QED
  BY <1>1, <1>2, <1>3, <1>4

(* An attempt that ends keeps what attempts promise.                       *)
LEMMA EndKeeps ==
    ASSUME DispatchAssumption, IInv, NEW a \in Attempts,
           attempt[a].phase \in {"claimed", "answered"},
           attempt' = [attempt EXCEPT ![a] = Spent(attempt[a].msg)],
           UNCHANGED <<request, accepted>>
    PROVE  /\ attempt[a].msg \in Messages
           /\ attempt' \in [Attempts -> Attempt]
           /\ Assigned' /\ (a \in accepted => attempt[a].phase = "answered") /\ Told'
<1>1. attempt[a].msg \in Messages
  BY DEF IInv, Assigned
<1>2. attempt' \in [Attempts -> Attempt]
  BY <1>1 DEF IInv, TypeOK, Attempt, Spent, Fresh, JobKinds
<1>3. Assigned'
  BY <1>1 DEF IInv, TypeOK, Attempt, Spent, Fresh, Assigned
<1>4. (a \in accepted => attempt[a].phase = "answered") /\ Told'
  BY DEF IInv, TypeOK, Attempt, Spent, Fresh, Told
<1>5. QED
  BY <1>1, <1>2, <1>3, <1>4

(* The end of an attempt leaves its job as it is, or stopped.              *)
LEMMA JobEndKeeps ==
    ASSUME DispatchAssumption, IInv, NEW a \in Attempts, attempt[a].msg \in Messages,
           \/ UNCHANGED job
           \/ Holds(a) /\ FailJob(a)
           \/ Holds(a) /\ EndJob(a, NoJob)
    PROVE  job' \in [Messages \X JobKinds -> Job] /\ JobsRun'
<1>1. CASE UNCHANGED job
  BY <1>1, SameJobs
<1>2. CASE Holds(a) /\ (FailJob(a) \/ EndJob(a, NoJob))
  <2>1. PICK mk \in Messages \X JobKinds : mk = <<attempt[a].msg, attempt[a].via>>
    BY <1>2 DEF Holds, IInv, TypeOK, Attempt
  <2>2. job[mk] \in Job /\ job[mk].made < JobAttempts
    BY <1>2, <2>1 DEF DispatchAssumption, Workers, Holds, IInv, TypeOK, JobsRun
  <2>3. Stopped(AfterFailure(job[mk])) /\ Stopped(NoJob)
    BY <2>2, JobUpdates, NoJobStopped
  <2>4. PICK j : Stopped(j) /\ job' = [job EXCEPT ![mk] = j]
    BY <1>2, <2>1, <2>3 DEF FailJob, EndJob
  <2>5. QED
    BY <2>4, StoppedJobKeeps
<1>3. QED
  BY <1>1, <1>2

(* Every step of the dispatcher keeps the invariant.                       *)
LEMMA NextIInv == ASSUME DispatchAssumption, IInv, [Next]_vars PROVE IInv'
<1>1. ASSUME NEW m \in Messages, Enqueue(m) PROVE IInv'
  <2>1. job' \in [Messages \X JobKinds -> Job] /\ JobsRun'
    BY <1>1, AddJobKeeps DEF Enqueue, JobKinds
  <2>2. row' \in [Messages -> Row]
    BY <1>1, StatusWrite DEF IInv, Enqueue, Statuses
  <2>3. TypeOK'
    BY <1>1, <2>1, <2>2 DEF IInv, TypeOK, Enqueue
  <2>4. QED
    BY <1>1, <2>1, <2>3 DEF IInv, Enqueue, Assigned, Told
<1>2. ASSUME NEW m \in Messages, LockExpires(m) PROVE IInv'
  <2>1. TypeOK'
    BY <1>2 DEF IInv, TypeOK, LockExpires, Row
  <2>2. QED
    BY <1>2, <2>1 DEF IInv, LockExpires, Assigned, Told, JobsRun
<1>3. ASSUME NEW m \in Messages, ReconcileStaleSending(m) PROVE IInv'
  <2>1. TypeOK'
    BY <1>3 DEF IInv, TypeOK, ReconcileStaleSending, Relocked, ReconciledStatus, Row, Statuses
  <2>2. QED
    BY <1>3, <2>1 DEF IInv, ReconcileStaleSending, Assigned, Told, JobsRun
<1>4. ASSUME NEW m \in Messages, NEW k \in JobKinds, JobSkip(m, k) \/ Stall(m, k) PROVE IInv'
  <2>1. PICK j : Stopped(j) /\ job' = [job EXCEPT ![<<m, k>>] = j]
    <3>1. CASE JobSkip(m, k)
      BY <3>1, NoJobStopped DEF JobSkip
    <3>2. CASE Stall(m, k)
      <4>1. job[<<m, k>>] \in Job /\ job[<<m, k>>].made < JobAttempts
        BY <3>2 DEF Stall, IInv, TypeOK, JobsRun
      <4>2. QED
        BY <3>2, <4>1, JobUpdates DEF Stall
    <3>3. QED
      BY <1>4, <3>1, <3>2
  <2>2. job' \in [Messages \X JobKinds -> Job] /\ JobsRun'
    BY <2>1, StoppedJobKeeps
  <2>3. TypeOK'
    BY <1>4, <2>2 DEF IInv, TypeOK, JobSkip, Stall
  <2>4. QED
    BY <1>4, <2>2, <2>3 DEF IInv, JobSkip, Stall, Assigned, Told
<1>5. ASSUME NEW a \in Attempts, CronClaim(a) PROVE IInv'
  <2>1. PICK m \in Messages, w \in Workers : Claim(a, m, "cron", w) /\ UNCHANGED job
    BY <1>5, ClaimsByWorkers DEF CronClaim
  <2>2. QED
    BY <2>1, ClaimKeeps, SameJobs DEF IInv, TypeOK, Claim
<1>6. ASSUME NEW a \in Attempts, NEW m \in Messages, NEW k \in JobKinds, JobClaim(a, m, k)
      PROVE  IInv'
  <2>1. PICK w \in Workers : Claim(a, m, k, w)
    BY <1>6, ClaimsByWorkers
  <2>2. job' \in [Messages \X JobKinds -> Job] /\ JobsRun'
    <3> DEFINE j == [state |-> "active", made |-> job[<<m, k>>].made, holder |-> a]
    <3>1. job[<<m, k>>] \in Job /\ job[<<m, k>>].made < JobAttempts
      BY <1>6 DEF JobClaim, IInv, TypeOK, JobsRun
    <3>2. j \in Job /\ a # None
      BY <3>1 DEF DispatchAssumption, Workers, Job
    <3>3. job' = [job EXCEPT ![<<m, k>>] = j]
      BY <1>6 DEF JobClaim
    <3>4. QED
      BY <3>1, <3>2, <3>3 DEF IInv, TypeOK, JobsRun
  <2>3. TypeOK' /\ Assigned' /\ Told'
    BY <2>1, <2>2, ClaimKeeps DEF IInv, TypeOK, Claim
  <2>4. QED
    BY <2>2, <2>3 DEF IInv
<1>7. ASSUME NEW a \in Attempts, SendText(a) PROVE IInv'
  <2>1. PICK answer \in Answers :
           attempt' = [attempt EXCEPT ![a].phase = "answered", ![a].answer = answer]
    BY <1>7 DEF SendText
  <2>2. attempt[a] \in Attempt
    BY DEF IInv, TypeOK
  <2>3. attempt'[a] = [attempt[a] EXCEPT !.phase = "answered", !.answer = answer]
    BY <2>1 DEF IInv, TypeOK
  <2>4. attempt'[a] = [phase |-> "answered", msg |-> attempt[a].msg, via |-> attempt[a].via,
                       worker |-> attempt[a].worker, answer |-> answer]
    BY <2>2, <2>3 DEF Attempt
  <2>5. attempt' = [attempt EXCEPT ![a] = attempt'[a]]
    BY <2>1 DEF IInv, TypeOK
  <2>6. TypeOK' /\ Assigned'
    BY <1>7, <2>4, <2>5 DEF IInv, TypeOK, Attempt, Assigned, SendText
  <2>7. Told'
    BY <1>7 DEF IInv, TypeOK, Attempt, Told, SendText, Answers
  <2>8. JobsRun'
    BY <1>7 DEF IInv, TypeOK, Attempt, JobsRun, SendText
  <2>9. QED
    BY <2>6, <2>7, <2>8 DEF IInv
<1>8. ASSUME NEW a \in Attempts, Settle(a) PROVE IInv'
  <2>1. /\ attempt[a].msg \in Messages
        /\ attempt' \in [Attempts -> Attempt]
        /\ Assigned' /\ Told'
    BY <1>8, EndKeeps DEF Settle
  <2>2. row' \in [Messages -> Row]
    <3>1. SettledRow(a, attempt[a].msg) \in Row
      BY <2>1 DEF IInv, TypeOK, Row, SettledRow, Relocked, StatusAfter, Statuses
    <3>2. QED
      BY <1>8, <2>1, <3>1 DEF IInv, TypeOK, Settle
  <2>3. job' \in [Messages \X JobKinds -> Job] /\ JobsRun'
    BY <1>8, <2>1, JobEndKeeps DEF Settle
  <2>4. TypeOK'
    BY <1>8, <2>1, <2>2, <2>3 DEF IInv, TypeOK, Settle
  <2>5. QED
    BY <2>1, <2>3, <2>4 DEF IInv
<1>9. ASSUME NEW a \in Attempts, Lose(a) PROVE IInv'
  <2>1. /\ attempt[a].msg \in Messages
        /\ attempt' \in [Attempts -> Attempt]
        /\ Assigned' /\ Told'
    BY <1>9, EndKeeps DEF Lose
  <2>2. job' \in [Messages \X JobKinds -> Job] /\ JobsRun'
    BY <1>9, <2>1, JobEndKeeps DEF Lose
  <2>3. TypeOK'
    BY <1>9, <2>1, <2>2 DEF IInv, TypeOK, Lose
  <2>4. QED
    BY <2>1, <2>2, <2>3 DEF IInv
<1>10. ASSUME NEW a \in Attempts, Recycle(a) PROVE IInv'
  <2>1. TypeOK' /\ Assigned'
    BY <1>10 DEF IInv, TypeOK, Attempt, Assigned, Recycle, Fresh
  <2>2. Told' /\ JobsRun'
    BY <1>10 DEF IInv, TypeOK, Attempt, Told, JobsRun, Recycle, Fresh
  <2>3. QED
    BY <2>1, <2>2 DEF IInv
<1>11. ASSUME NEW r \in Requests, NEW m \in Messages, NEW s \in Statuses, ReadForUpdate(r, m, s)
       PROVE  IInv'
  BY <1>11 DEF IInv, TypeOK, Request, Assigned, Told, JobsRun, ReadForUpdate
<1>12. ASSUME NEW r \in Requests, StatusWebhook(r) \/ OperatorStatus(r) PROVE IInv'
  BY <1>11, <1>12 DEF DispatchAssumption, StatusWebhook, OperatorStatus, WebhookStatuses, Statuses
<1>13. ASSUME NEW r \in Requests, WriteStatus(r) PROVE IInv'
  <2>1. request[r].msg \in Messages /\ request[r].status \in Statuses
    BY <1>13 DEF IInv, TypeOK, Assigned, Request, WriteStatus
  <2>2. row' \in [Messages -> Row]
    BY <1>13, <2>1, StatusWrite DEF IInv, WriteStatus
  <2>3. TypeOK'
    BY <1>13, <2>1, <2>2 DEF IInv, TypeOK, Request, WriteStatus, Idle, Statuses
  <2>4. QED
    BY <1>13, <2>3 DEF IInv, TypeOK, Request, WriteStatus, Idle, Assigned, Told, JobsRun
<1>14. ASSUME NEW r \in Requests, RetryCheck(r) PROVE IInv'
  BY <1>14 DEF IInv, TypeOK, Request, Statuses, Assigned, Told, JobsRun, RetryCheck
<1>15. ASSUME NEW r \in Requests, RetryWrite(r) PROVE IInv'
  <2>1. request[r].msg \in Messages
    BY <1>15 DEF IInv, Assigned, RetryWrite
  <2>2. job' \in [Messages \X JobKinds -> Job] /\ JobsRun'
    BY <1>15, <2>1, AddJobKeeps DEF RetryWrite, JobKinds
  <2>3. row' \in [Messages -> Row]
    BY <1>15, <2>1, StatusWrite DEF IInv, RetryWrite, Statuses
  <2>4. TypeOK'
    BY <1>15, <2>1, <2>2, <2>3 DEF IInv, TypeOK, Request, RetryWrite, Idle, Statuses
  <2>5. QED
    BY <1>15, <2>2, <2>4 DEF IInv, TypeOK, Request, RetryWrite, Idle, Assigned, Told
<1>16. CASE UNCHANGED vars
  BY <1>16 DEF vars, IInv, TypeOK, Assigned, Told, JobsRun
<1>17. QED
  BY <1>1, <1>2, <1>3, <1>4, <1>5, <1>6, <1>7, <1>8, <1>9, <1>10, <1>12, <1>13, <1>14,
     <1>15, <1>16 DEF Next, MessageStep, AttemptStep, RequestStep

LEMMA Invariant == Spec => []IInv
<1>1. Init => IInv
  BY InitIInv, DispatchAssumption
<1>2. IInv /\ [Next]_vars => IInv'
  BY NextIInv, DispatchAssumption
<1>3. QED
  BY <1>1, <1>2, PTL DEF Spec

(* Rows, attempts, jobs and requests keep their types; in particular no    *)
(* job counts more attempts than JobAttempts.                              *)
THEOREM TypeCorrect == Spec => []TypeOK
<1>1. IInv => TypeOK
  BY DEF IInv
<1>2. QED
  BY Invariant, <1>1, PTL

-------------------------------------------------------------------------------
(* The refinement.  Each step changes the sets Live and Copies of at most  *)
(* one message, by one attempt at most; the lemmas say so set by set, and  *)
(* then the cardinalities that the ledger counts follow.                   *)
LEMMA Finite ==
    ASSUME DispatchAssumption, IInv, NEW m \in Messages
    PROVE  IsFiniteSet(Live(m)) /\ IsFiniteSet(Copies(m))
<1>1. Live(m) \subseteq Attempts /\ Copies(m) \subseteq Attempts
  BY DEF Live, Copies, IInv, TypeOK
<1>2. QED
  BY <1>1, FS_Subset DEF DispatchAssumption

(* A set that gains or loses one attempt is counted one up or one down.    *)
LEMMA CountUp ==
    ASSUME NEW S, IsFiniteSet(S), NEW a, a \notin S
    PROVE  Cardinality(S \cup {a}) = Cardinality(S) + 1
  BY FS_AddElement

LEMMA CountDown ==
    ASSUME NEW S, IsFiniteSet(S), NEW a \in S
    PROVE  /\ Cardinality(S \ {a}) = Cardinality(S) - 1
           /\ Cardinality(S) \in Nat
           /\ Cardinality(S) > 0
<1>1. Cardinality(S \ {a}) = Cardinality(S) - 1
  BY FS_RemoveElement
<1>2. Cardinality(S) \in Nat /\ Cardinality(S) # 0
  BY FS_CardinalityType, FS_EmptySet
<1>3. QED
  BY <1>1, <1>2

(* Nothing in flight, nothing accepted: no attempt changed its message,    *)
(* stopped or was accepted.                                                *)
LEMMA SameCounts ==
    ASSUME \A m \in Messages : Live(m)' = Live(m) /\ Copies(m)' = Copies(m)
    PROVE  InFlight' = InFlight /\ CopyCounts' = CopyCounts
  BY DEF InFlight, CopyCounts

LEMMA SameAttempts ==
    ASSUME UNCHANGED <<attempt, accepted>>
    PROVE  InFlight' = InFlight /\ CopyCounts' = CopyCounts
  BY SameCounts DEF Live, Copies

(* One attempt begins, is accepted, or ends.                               *)
LEMMA OneMoreInFlight ==
    ASSUME DispatchAssumption, IInv, NEW m \in Messages, NEW a, a \notin Live(m),
           Live(m)' = Live(m) \cup {a}, \A n \in Messages \ {m} : Live(n)' = Live(n)
    PROVE  InFlight' = [InFlight EXCEPT ![m] = @ + 1]
<1>1. Cardinality(Live(m)') = Cardinality(Live(m)) + 1
  BY Finite, CountUp
<1>2. QED
  BY <1>1 DEF InFlight

LEMMA OneLessInFlight ==
    ASSUME DispatchAssumption, IInv, NEW m \in Messages, NEW a \in Live(m),
           Live(m)' = Live(m) \ {a}, \A n \in Messages \ {m} : Live(n)' = Live(n)
    PROVE  InFlight[m] > 0 /\ InFlight' = [InFlight EXCEPT ![m] = @ - 1]
<1>1. Cardinality(Live(m)') = Cardinality(Live(m)) - 1 /\ Cardinality(Live(m)) > 0
  BY Finite, CountDown
<1>2. QED
  BY <1>1 DEF InFlight

LEMMA OneMoreCopy ==
    ASSUME DispatchAssumption, IInv, NEW m \in Messages, NEW a, a \notin Copies(m),
           Copies(m)' = Copies(m) \cup {a}, \A n \in Messages \ {m} : Copies(n)' = Copies(n)
    PROVE  CopyCounts' = [CopyCounts EXCEPT ![m] = @ + 1]
<1>1. Cardinality(Copies(m)') = Cardinality(Copies(m)) + 1
  BY Finite, CountUp
<1>2. QED
  BY <1>1 DEF CopyCounts

(* An attempt that ends was in flight unless the provider has its copy.    *)
LEMMA EndEffect ==
    ASSUME DispatchAssumption, IInv, NEW a \in Attempts,
           attempt[a].phase \in {"claimed", "answered"},
           attempt' = [attempt EXCEPT ![a] = Spent(attempt[a].msg)],
           UNCHANGED accepted
    PROVE  /\ CopyCounts' = CopyCounts
           /\ IF a \in accepted THEN InFlight' = InFlight
              ELSE /\ InFlight[attempt[a].msg] > 0
                   /\ InFlight' = [InFlight EXCEPT ![attempt[a].msg] = @ - 1]
<1>1. PICK m \in Messages : attempt[a].msg = m
  BY DEF IInv, Assigned
<1>2. \A b \in Attempts : attempt'[b].msg = attempt[b].msg
  BY DEF IInv, TypeOK, Spent, Fresh
<1>3. \A b \in Attempts \ {a} : attempt'[b] = attempt[b]
  BY DEF IInv, TypeOK
<1>4. attempt'[a].phase = "spent"
  BY DEF IInv, TypeOK, Spent, Fresh
<1>5. \A n \in Messages : Copies(n)' = Copies(n)
  BY <1>2 DEF IInv, TypeOK, Copies
<1>6. CASE a \in accepted
  <2>1. \A n \in Messages : Live(n)' = Live(n)
    BY <1>3, <1>6 DEF Live
  <2>2. QED
    BY <1>5, <1>6, <2>1, SameCounts
<1>7. CASE a \notin accepted
  <2>1. a \in Live(m)
    BY <1>1, <1>7 DEF Live
  <2>2. Live(m)' = Live(m) \ {a}
    BY <1>1, <1>2, <1>3, <1>4 DEF Live
  <2>3. \A n \in Messages \ {m} : Live(n)' = Live(n)
    BY <1>1, <1>2, <1>3, <1>4 DEF Live
  <2>4. InFlight[m] > 0 /\ InFlight' = [InFlight EXCEPT ![m] = @ - 1]
    BY <2>1, <2>2, <2>3, OneLessInFlight
  <2>5. CopyCounts' = CopyCounts
    BY <1>5 DEF CopyCounts
  <2>6. QED
    BY <1>1, <1>7, <2>4, <2>5
<1>8. QED
  BY <1>6, <1>7

(* Writing one row moves at most that row's permit.                        *)
LEMMA PermitOf ==
    ASSUME IInv, NEW m \in Messages, NEW new, row' = [row EXCEPT ![m] = new]
    PROVE  Permits' = [Permits EXCEPT ![m] = IF new.status = "QUEUED" THEN 1 ELSE 0]
  BY DEF IInv, TypeOK, Permits, Permit

LEMMA PermitOfStatus ==
    ASSUME IInv, NEW m \in Messages, NEW s, row' = [row EXCEPT ![m].status = s]
    PROVE  Permits' = [Permits EXCEPT ![m] = IF s = "QUEUED" THEN 1 ELSE 0]
<1> DEFINE new == [row[m] EXCEPT !.status = s]
<1>1. row \in [Messages -> Row] /\ row[m] \in Row
  BY DEF IInv, TypeOK
<1>2. new.status = s
  BY <1>1 DEF Row
<1>3. row' = [row EXCEPT ![m] = new]
  BY <1>1
<1> HIDE DEF new
<1>4. QED
  BY <1>2, <1>3, PermitOf

LEMMA SamePermit ==
    ASSUME NEW m \in Messages, NEW p, Permits[m] = p,
           Permits' = [Permits EXCEPT ![m] = p]
    PROVE  Permits' = Permits
  BY DEF Permits

(* A claim spends the permit of its message and starts one send.           *)
LEMMA ClaimStarts ==
    ASSUME DispatchAssumption, IInv, NEW a \in Attempts, NEW m \in Messages,
           NEW source \in JobKinds \cup {"cron"}, NEW w \in Workers, Claim(a, m, source, w)
    PROVE  Ledger!Start(m)
<1>1. a \notin accepted /\ \A n \in Messages : a \notin Live(n) /\ a \notin Copies(n)
  BY DEF Claim, IInv, Told, Live, Copies
<1>2. /\ attempt'[a].phase = "claimed" /\ attempt'[a].msg = m
      /\ \A b \in Attempts \ {a} : attempt'[b] = attempt[b]
      /\ accepted' = accepted
  BY DEF Claim, IInv, TypeOK
<1>3. Live(m)' = Live(m) \cup {a} /\ \A n \in Messages \ {m} : Live(n)' = Live(n)
  BY <1>1, <1>2 DEF Live
<1>4. \A n \in Messages : Copies(n)' = Copies(n)
  BY <1>1, <1>2 DEF IInv, TypeOK, Copies
<1>5. InFlight' = [InFlight EXCEPT ![m] = @ + 1]
  BY <1>1, <1>3, OneMoreInFlight
<1>6. CopyCounts' = CopyCounts
  BY <1>4 DEF CopyCounts
<1>7. Permits[m] = 1
  BY DEF Claim, Claimable, Permits, Permit
<1>8. Permits' = [Permits EXCEPT ![m] = 0]
  <2>1. row' = [row EXCEPT ![m] = Relocked(m, "SENDING", w)]
    BY DEF Claim
  <2>2. row'[m].status = "SENDING" /\ \A n \in Messages \ {m} : row'[n] = row[n]
    BY <2>1 DEF Relocked, IInv, TypeOK
  <2>3. QED
    BY <2>2 DEF Permits, Permit
<1>9. QED
  BY <1>5, <1>6, <1>7, <1>8 DEF Ledger!Start, Claim

(* Answering: the provider took the message, or the send is still open.    *)
LEMMA SendTextAccepts ==
    ASSUME DispatchAssumption, IInv, NEW a \in Attempts, SendText(a)
    PROVE  [Ledger!Next]_Ledger!vars
<1>1. PICK m \in Messages : attempt[a].msg = m
  BY DEF SendText, IInv, Assigned
<1>2. PICK answer \in Answers :
         /\ attempt' = [attempt EXCEPT ![a].phase = "answered", ![a].answer = answer]
         /\ accepted' = accepted \cup {a} \/ accepted' = accepted
  BY DEF SendText
<1>3. /\ attempt'[a].phase = "answered"
      /\ \A b \in Attempts : attempt'[b].msg = attempt[b].msg
      /\ \A b \in Attempts \ {a} : attempt'[b] = attempt[b]
  <2>1. attempt[a] \in Attempt
    BY DEF IInv, TypeOK
  <2>2. attempt'[a] = [attempt[a] EXCEPT !.phase = "answered", !.answer = answer]
    BY <1>2 DEF IInv, TypeOK
  <2>3. attempt'[a].phase = "answered" /\ attempt'[a].msg = attempt[a].msg
    BY <2>1, <2>2 DEF Attempt
  <2>4. \A b \in Attempts \ {a} : attempt'[b] = attempt[b]
    BY <1>2 DEF IInv, TypeOK
  <2>5. QED
    BY <2>3, <2>4
<1>4. a \notin accepted /\ a \in Live(m)
  BY <1>1 DEF SendText, IInv, Told, Live
<1>5. grants' = grants /\ Permits' = Permits
  BY DEF SendText, Permits, Permit
<1>6. CASE accepted' = accepted \cup {a}
  <2>1. Live(m)' = Live(m) \ {a} /\ \A n \in Messages \ {m} : Live(n)' = Live(n)
    BY <1>1, <1>3, <1>4, <1>6 DEF Live
  <2>2. /\ a \notin Copies(m) /\ Copies(m)' = Copies(m) \cup {a}
        /\ \A n \in Messages \ {m} : Copies(n)' = Copies(n)
    BY <1>1, <1>3, <1>4, <1>6 DEF IInv, TypeOK, Copies
  <2>3. InFlight[m] > 0 /\ InFlight' = [InFlight EXCEPT ![m] = @ - 1]
    BY <1>4, <2>1, OneLessInFlight
  <2>4. CopyCounts' = [CopyCounts EXCEPT ![m] = @ + 1]
    BY <2>2, OneMoreCopy
  <2>5. Ledger!Accept(m)
    BY <1>5, <2>3, <2>4 DEF Ledger!Accept
  <2>6. QED
    BY <2>5 DEF Ledger!Next
<1>7. CASE accepted' = accepted
  <2>1. \A n \in Messages : Live(n)' = Live(n)
    BY <1>3, <1>4, <1>7 DEF SendText, Live
  <2>2. \A n \in Messages : Copies(n)' = Copies(n)
    BY <1>3, <1>7 DEF IInv, TypeOK, Copies
  <2>3. QED
    BY <1>5, <2>1, <2>2, SameCounts DEF Ledger!vars
<1>8. QED
  BY <1>2, <1>6, <1>7

(* Settling a send the provider took changes nothing in the ledger; any    *)
(* other ends in nothing or, when refused under the fence, gives back.     *)
LEMMA SettleEnds ==
    ASSUME DispatchAssumption, IInv, NEW a \in Attempts, Settle(a)
    PROVE  [Ledger!Next]_Ledger!vars
<1>1. PICK m \in Messages : attempt[a].msg = m
  BY DEF Settle, IInv, Assigned
<1>2. /\ CopyCounts' = CopyCounts
      /\ IF a \in accepted THEN InFlight' = InFlight
         ELSE InFlight[m] > 0 /\ InFlight' = [InFlight EXCEPT ![m] = @ - 1]
  BY <1>1, EndEffect DEF Settle
<1>3. grants' = grants /\ row' = [row EXCEPT ![m] = SettledRow(a, m)]
  BY <1>1 DEF Settle
<1>4. attempt[a].answer \in Answers
  BY DEF Settle, IInv, Assigned
<1>5. CASE ~ Owns(a, m)
  <2>1. row' = row
    BY <1>3, <1>5 DEF SettledRow, IInv, TypeOK
  <2>2. Permits' = Permits
    BY <2>1 DEF Permits, Permit
  <2>3. QED
    BY <1>2, <1>3, <2>2 DEF Ledger!Next, Ledger!Drop, Ledger!vars
<1>6. CASE Owns(a, m)
  <2>1. Permits[m] = 0
    BY <1>6 DEF Owns, Permits, Permit
  <2>2. SettledRow(a, m).status = StatusAfter(attempt[a].answer)
    BY <1>6 DEF SettledRow, Relocked
  <2>3. row'[m].status = StatusAfter(attempt[a].answer)
        /\ \A n \in Messages \ {m} : row'[n] = row[n]
    BY <1>3, <2>2 DEF IInv, TypeOK
  <2>4. CASE attempt[a].answer = "retryable"
    <3>1. a \notin accepted
      BY <2>4 DEF Settle, IInv, Told
    <3>2. Permits' = [Permits EXCEPT ![m] = 1]
      BY <2>3, <2>4 DEF StatusAfter, Permits, Permit
    <3>3. Ledger!GiveBack(m)
      BY <1>2, <1>3, <2>1, <3>1, <3>2 DEF Ledger!GiveBack
    <3>4. QED
      BY <3>3 DEF Ledger!Next
  <2>5. CASE attempt[a].answer # "retryable"
    <3>1. row'[m].status # "QUEUED"
      BY <1>4, <2>3, <2>5 DEF StatusAfter, Answers
    <3>2. Permits' = Permits
      BY <2>1, <2>3, <3>1 DEF Permits, Permit
    <3>3. QED
      BY <1>2, <1>3, <3>2 DEF Ledger!Next, Ledger!Drop, Ledger!vars
  <2>6. QED
    BY <2>4, <2>5
<1>7. QED
  BY <1>5, <1>6

(* Ending an attempt without writing its outcome drops it.                 *)
LEMMA LoseDrops ==
    ASSUME DispatchAssumption, IInv, NEW a \in Attempts, Lose(a)
    PROVE  [Ledger!Next]_Ledger!vars
<1>1. PICK m \in Messages : attempt[a].msg = m
  BY DEF Lose, IInv, Assigned
<1>2. /\ CopyCounts' = CopyCounts
      /\ IF a \in accepted THEN InFlight' = InFlight
         ELSE InFlight[m] > 0 /\ InFlight' = [InFlight EXCEPT ![m] = @ - 1]
  BY <1>1, EndEffect DEF Lose
<1>3. grants' = grants /\ Permits' = Permits
  BY DEF Lose, Permits, Permit
<1>4. QED
  BY <1>2, <1>3 DEF Ledger!Next, Ledger!Drop, Ledger!vars

(* Status writes: to QUEUED is a grant, away from it a revocation.         *)
LEMMA StatusWriteMoves ==
    ASSUME DispatchAssumption, IInv, NEW m \in Messages, NEW s \in Statuses,
           row' = [row EXCEPT ![m].status = s],
           grants' = IF s = "QUEUED" THEN [grants EXCEPT ![m] = @ + 1] ELSE grants,
           UNCHANGED <<attempt, accepted>>
    PROVE  [Ledger!Next]_Ledger!vars
<1>1. InFlight' = InFlight /\ CopyCounts' = CopyCounts
  BY SameAttempts
<1>2. Permits' = [Permits EXCEPT ![m] = IF s = "QUEUED" THEN 1 ELSE 0]
  BY PermitOfStatus
<1>3. CASE s = "QUEUED"
  BY <1>1, <1>2, <1>3 DEF Ledger!Next, Ledger!Grant
<1>4. CASE s # "QUEUED" /\ Permits[m] = 1
  BY <1>1, <1>2, <1>4 DEF Ledger!Next, Ledger!Revoke
<1>5. CASE s # "QUEUED" /\ Permits[m] # 1
  <2>1. Permits[m] = 0
    BY <1>5 DEF Permits, Permit
  <2>2. Permits' = Permits
    BY <1>2, <1>5, <2>1, SamePermit
  <2>3. QED
    BY <1>1, <1>5, <2>2 DEF Ledger!vars
<1>6. QED
  BY <1>3, <1>4, <1>5

(* Every step of the dispatcher is a step of the ledger, or none.          *)
LEMMA NextLedger ==
    ASSUME DispatchAssumption, IInv, [Next]_vars PROVE [Ledger!Next]_Ledger!vars
<1>1. ASSUME NEW m \in Messages, Enqueue(m) PROVE [Ledger!Next]_Ledger!vars
  <2>1. "QUEUED" \in Statuses
    BY DEF Statuses
  <2>2. QED
    BY <1>1, <2>1, StatusWriteMoves DEF Enqueue
<1>2. ASSUME NEW m \in Messages, LockExpires(m) PROVE UNCHANGED Ledger!vars
  <2>1. Permits' = Permits
    BY <1>2 DEF LockExpires, IInv, TypeOK, Row, Permits, Permit
  <2>2. QED
    BY <1>2, <2>1, SameAttempts DEF LockExpires, Ledger!vars
<1>3. ASSUME NEW m \in Messages, ReconcileStaleSending(m) PROVE UNCHANGED Ledger!vars
  <2>1. row[m].status # "QUEUED" /\ row'[m].status # "QUEUED"
        /\ \A n \in Messages \ {m} : row'[n] = row[n]
    BY <1>3 DEF ReconcileStaleSending, Relocked, ReconciledStatus, IInv, TypeOK
  <2>2. Permits' = Permits
    BY <2>1 DEF Permits, Permit
  <2>3. QED
    BY <1>3, <2>2, SameAttempts DEF ReconcileStaleSending, Ledger!vars
<1>4. ASSUME NEW m \in Messages, NEW k \in JobKinds, JobSkip(m, k) \/ Stall(m, k)
      PROVE  UNCHANGED Ledger!vars
  BY <1>4, SameAttempts DEF JobSkip, Stall, Permits, Permit, Ledger!vars
<1>5. ASSUME NEW a \in Attempts, CronClaim(a) PROVE [Ledger!Next]_Ledger!vars
  <2>1. PICK m \in Messages, w \in Workers : Claim(a, m, "cron", w)
    BY <1>5, ClaimsByWorkers DEF CronClaim
  <2>2. Ledger!Start(m)
    BY <2>1, ClaimStarts
  <2>3. QED
    BY <2>2 DEF Ledger!Next
<1>6. ASSUME NEW a \in Attempts, NEW m \in Messages, NEW k \in JobKinds, JobClaim(a, m, k)
      PROVE  [Ledger!Next]_Ledger!vars
  <2>1. PICK w \in Workers : Claim(a, m, k, w)
    BY <1>6, ClaimsByWorkers
  <2>2. Ledger!Start(m)
    BY <2>1, ClaimStarts
  <2>3. QED
    BY <2>2 DEF Ledger!Next
<1>7. ASSUME NEW a \in Attempts, Recycle(a) PROVE UNCHANGED Ledger!vars
  <2>1. \A b \in Attempts \ {a} : attempt'[b] = attempt[b]
    BY <1>7 DEF Recycle, IInv, TypeOK
  <2>2. attempt'[a].phase = "free"
    BY <1>7 DEF Recycle, IInv, TypeOK, Fresh
  <2>3. \A n \in Messages : Live(n)' = Live(n) /\ Copies(n)' = Copies(n)
    BY <1>7, <2>1, <2>2 DEF Recycle, IInv, TypeOK, Live, Copies
  <2>4. QED
    BY <1>7, <2>3, SameCounts DEF Recycle, Permits, Permit, Ledger!vars
<1>8. ASSUME NEW r \in Requests, StatusWebhook(r) \/ OperatorStatus(r) \/ RetryCheck(r)
      PROVE  UNCHANGED Ledger!vars
  BY <1>8, SameAttempts DEF StatusWebhook, OperatorStatus, ReadForUpdate, RetryCheck,
     Permits, Permit, Ledger!vars
<1>9. ASSUME NEW r \in Requests, WriteStatus(r) PROVE [Ledger!Next]_Ledger!vars
  <2>1. PICK m \in Messages, s \in Statuses : request[r].msg = m /\ request[r].status = s
    BY <1>9 DEF WriteStatus, IInv, TypeOK, Request, Assigned
  <2>2. QED
    BY <1>9, <2>1, StatusWriteMoves DEF WriteStatus
<1>10. ASSUME NEW r \in Requests, RetryWrite(r) PROVE [Ledger!Next]_Ledger!vars
  <2>1. PICK m \in Messages : request[r].msg = m
    BY <1>10 DEF RetryWrite, IInv, Assigned
  <2>2. "QUEUED" \in Statuses
    BY DEF Statuses
  <2>3. QED
    BY <1>10, <2>1, <2>2, StatusWriteMoves DEF RetryWrite
<1>11. CASE UNCHANGED vars
  BY <1>11, SameAttempts DEF vars, Permits, Permit, Ledger!vars
<1>12. QED
  BY <1>1, <1>2, <1>3, <1>4, <1>5, <1>6, <1>7, <1>8, <1>9, <1>10, <1>11, SendTextAccepts,
     SettleEnds, LoseDrops DEF Next, MessageStep, AttemptStep, RequestStep

LEMMA InitLedger == ASSUME DispatchAssumption, Init PROVE Ledger!Init
<1>1. Permits = [m \in Messages |-> 0]
  BY DEF Init, NoRow, Permits, Permit
<1>2. \A m \in Messages : Live(m) = {} /\ Copies(m) = {}
  BY DEF Init, Fresh, Live, Copies
<1>3. InFlight = [m \in Messages |-> 0] /\ CopyCounts = [m \in Messages |-> 0]
  BY <1>2, FS_EmptySet DEF InFlight, CopyCounts
<1>4. QED
  BY <1>1, <1>3 DEF Init, Ledger!Init

(* The dispatcher implements the ledger of send permits: whatever crashes, *)
(* expires or is retried, a send starts from a permit, and only an         *)
(* explicit refusal or a person gives one back.                            *)
THEOREM ImplementsLedger == Spec => LedgerSpec
<1>1. Init => Ledger!Init
  BY InitLedger, DispatchAssumption
<1>2. IInv /\ [Next]_vars => [Ledger!Next]_Ledger!vars
  BY NextLedger, DispatchAssumption
<1>3. QED
  BY <1>1, <1>2, Invariant, PTL DEF Spec, LedgerSpec, Ledger!Spec

-------------------------------------------------------------------------------
(* What a ledger of numbers keeps accounted for, step by step.             *)
Numbers == /\ grants \in [Messages -> Nat] /\ Permits \in [Messages -> {0, 1}]
           /\ InFlight \in [Messages -> Nat] /\ CopyCounts \in [Messages -> Nat]

LEMMA LedgerNumbers == ASSUME DispatchAssumption, IInv PROVE Numbers
<1>1. grants \in [Messages -> Nat] /\ Permits \in [Messages -> {0, 1}]
  BY DEF IInv, TypeOK, Permits, Permit
<1>2. \A m \in Messages : Cardinality(Live(m)) \in Nat /\ Cardinality(Copies(m)) \in Nat
  BY Finite, FS_CardinalityType
<1>3. QED
  BY <1>1, <1>2 DEF Numbers, InFlight, CopyCounts

LEMMA AccountedStep ==
    ASSUME Numbers, Ledger!Accounted, [Ledger!Next]_Ledger!vars
    PROVE  Ledger!Accounted'
<1>1. CASE UNCHANGED Ledger!vars
  BY <1>1 DEF Ledger!vars, Ledger!Accounted
<1>2. ASSUME NEW m \in Messages,
             \/ Ledger!Grant(m) \/ Ledger!Revoke(m) \/ Ledger!Start(m)
             \/ Ledger!Accept(m) \/ Ledger!GiveBack(m) \/ Ledger!Drop(m)
      PROVE  Ledger!Accounted'
  BY <1>2 DEF Numbers, Ledger!Accounted, Ledger!Grant, Ledger!Revoke, Ledger!Start,
     Ledger!Accept, Ledger!GiveBack, Ledger!Drop
<1>3. QED
  BY <1>1, <1>2 DEF Ledger!Next

(* The provider never accepts a message more often than enqueueMessage and *)
(* operators asked for it, for any number of messages, worker ids and      *)
(* concurrent requests.                                                    *)
THEOREM NoAutomaticResend == Spec => []CopiesWithinGrants
<1>1. Init => Ledger!Accounted
  BY InitLedger, DispatchAssumption DEF Ledger!Init, Ledger!Accounted
<1>2. IInv /\ Ledger!Accounted /\ [Next]_vars => Ledger!Accounted'
  BY NextLedger, LedgerNumbers, AccountedStep, DispatchAssumption
<1>3. IInv /\ Ledger!Accounted => CopiesWithinGrants
  <2> SUFFICES ASSUME IInv, Ledger!Accounted, NEW m \in Messages
               PROVE  Cardinality(Copies(m)) <= grants[m]
    BY DEF CopiesWithinGrants
  <2>1. Numbers
    BY LedgerNumbers, DispatchAssumption
  <2>2. CopyCounts[m] + InFlight[m] + Permits[m] <= grants[m]
    BY DEF Ledger!Accounted
  <2>3. CopyCounts[m] <= grants[m]
    BY <2>1, <2>2 DEF Numbers
  <2>4. QED
    BY <2>3 DEF CopyCounts
<1>4. QED
  BY <1>1, <1>2, <1>3, Invariant, PTL DEF Spec

-------------------------------------------------------------------------------
(* Only the write of a status update or of a retry for that very row takes *)
(* a row out of UNCERTAIN: the claims want QUEUED, the fences and the      *)
(* reconciliation want SENDING.                                            *)
THEOREM UncertainStays == Spec => UncertainDecidedByRequest
<1> DEFINE Decided(m) ==
        row[m].status = "UNCERTAIN" /\ row'[m].status # "UNCERTAIN" =>
            \E r \in Requests : /\ request[r].kind # "idle"
                                /\ request[r].msg = m
                                /\ request'[r] = Idle
<1>1. ASSUME IInv, [Next]_vars, NEW m \in Messages PROVE Decided(m)
  <2>1. ASSUME NEW n \in Messages, MessageStep(n) PROVE Decided(m)
    <3>1. CASE Enqueue(n) \/ ReconcileStaleSending(n)
      BY <1>1, <3>1 DEF Enqueue, ReconcileStaleSending, IInv, TypeOK
    <3>2. CASE LockExpires(n)
      BY <1>1, <3>2 DEF LockExpires, IInv, TypeOK, Row
    <3>3. CASE \E k \in JobKinds : JobSkip(n, k) \/ Stall(n, k)
      BY <3>3 DEF JobSkip, Stall
    <3>4. QED
      BY <2>1, <3>1, <3>2, <3>3 DEF MessageStep
  <2>2. ASSUME NEW a \in Attempts, NEW n \in Messages, NEW s \in JobKinds \cup {"cron"},
               NEW w \in Workers, Claim(a, n, s, w)
        PROVE  Decided(m)
    BY <1>1, <2>2 DEF Claim, Claimable, IInv, TypeOK
  <2>3. ASSUME NEW a \in Attempts, Settle(a) PROVE Decided(m)
    <3>1. PICK n \in Messages : attempt[a].msg = n
      BY <1>1, <2>3 DEF Settle, IInv, Assigned
    <3>2. row' = [row EXCEPT ![n] = SettledRow(a, n)]
      BY <2>3, <3>1 DEF Settle
    <3>3. Owns(a, n) => row[n].status = "SENDING"
      BY DEF Owns
    <3>4. ~ Owns(a, n) => SettledRow(a, n) = row[n]
      BY DEF SettledRow
    <3>5. QED
      BY <1>1, <3>2, <3>3, <3>4 DEF IInv, TypeOK
  <2>4. ASSUME NEW a \in Attempts, SendText(a) \/ Lose(a) \/ Recycle(a) PROVE Decided(m)
    BY <2>4 DEF SendText, Lose, Recycle
  <2>5. ASSUME NEW r \in Requests, WriteStatus(r) \/ RetryWrite(r) PROVE Decided(m)
    <3>1. request'[r] = Idle /\ request[r].kind # "idle"
      BY <1>1, <2>5 DEF WriteStatus, RetryWrite, IInv, TypeOK
    <3>2. request[r].msg # m => row'[m] = row[m]
      BY <1>1, <2>5 DEF WriteStatus, RetryWrite, IInv, TypeOK
    <3>3. QED
      BY <3>1, <3>2
  <2>6. ASSUME NEW r \in Requests, StatusWebhook(r) \/ OperatorStatus(r) \/ RetryCheck(r)
        PROVE  Decided(m)
    BY <2>6 DEF StatusWebhook, OperatorStatus, ReadForUpdate, RetryCheck
  <2>7. CASE UNCHANGED vars
    BY <2>7 DEF vars
  <2>8. QED
    BY <1>1, <2>1, <2>2, <2>3, <2>4, <2>5, <2>6, <2>7, ClaimSteps,
       DispatchAssumption DEF Next, AttemptStep, RequestStep
<1>2. IInv /\ [Next]_vars =>
        [\A m \in Messages :
            row[m].status = "UNCERTAIN" /\ row'[m].status # "UNCERTAIN" =>
                \E r \in Requests : /\ request[r].kind # "idle"
                                    /\ request[r].msg = m
                                    /\ request'[r] = Idle]_vars
  BY <1>1
<1>3. QED
  BY <1>2, Invariant, PTL DEF Spec, UncertainDecidedByRequest

(* What no step takes back: an accepted attempt stays accepted for the     *)
(* same message.                                                           *)
LEMMA CopiesStay ==
    ASSUME IInv, [Next]_vars, NEW m \in Messages PROVE Copies(m) \subseteq Copies(m)'
<1>1. ASSUME NEW a \in Attempts, NEW n \in Messages, NEW s \in JobKinds \cup {"cron"},
             NEW w \in Workers, Claim(a, n, s, w)
      PROVE  Copies(m) \subseteq Copies(m)'
  BY <1>1 DEF Claim, IInv, TypeOK, Told, Copies
<1>2. ASSUME NEW a \in Attempts, SendText(a) PROVE Copies(m) \subseteq Copies(m)'
  <2>1. PICK answer \in Answers :
           attempt' = [attempt EXCEPT ![a].phase = "answered", ![a].answer = answer]
    BY <1>2 DEF SendText
  <2>2. a \notin accepted
    BY <1>2 DEF SendText, IInv, Told
  <2>3. \A b \in Attempts \ {a} : attempt'[b] = attempt[b]
    BY <2>1 DEF IInv, TypeOK
  <2>4. accepted \subseteq accepted'
    BY <1>2 DEF SendText
  <2>5. QED
    BY <2>2, <2>3, <2>4 DEF IInv, TypeOK, Copies
<1>3. ASSUME NEW a \in Attempts, Settle(a) \/ Lose(a) PROVE Copies(m) \subseteq Copies(m)'
  <2>1. attempt' = [attempt EXCEPT ![a] = Spent(attempt[a].msg)] /\ accepted' = accepted
    BY <1>3 DEF Settle, Lose
  <2>2. \A b \in Attempts : attempt'[b].msg = attempt[b].msg
    BY <2>1 DEF Spent, Fresh, IInv, TypeOK
  <2>3. QED
    BY <2>1, <2>2 DEF IInv, TypeOK, Copies
<1>4. ASSUME NEW a \in Attempts, Recycle(a) PROVE Copies(m) \subseteq Copies(m)'
  BY <1>4 DEF Recycle, IInv, TypeOK, Copies
<1>5. CASE UNCHANGED <<attempt, accepted>>
  BY <1>5 DEF Copies
<1>6. QED
  BY <1>1, <1>2, <1>3, <1>4, <1>5, ClaimSteps, DispatchAssumption
  DEF Next, MessageStep, AttemptStep, RequestStep, Enqueue, LockExpires, ReconcileStaleSending, JobSkip, Stall, StatusWebhook,
     OperatorStatus, ReadForUpdate, WriteStatus, RetryCheck, RetryWrite, vars

(* The id a row records is that of a copy of its own message, so a status  *)
(* event of the provider never reaches another message.                    *)
THEOREM ProviderIdSound == Spec => []ProviderIdIsACopy
<1>1. Init => ProviderIdIsACopy
  BY DEF Init, NoRow, ProviderIdIsACopy
<1>2. ASSUME IInv, ProviderIdIsACopy, [Next]_vars PROVE ProviderIdIsACopy'
  <2> SUFFICES ASSUME NEW m \in Messages, row'[m].providerMessageId # None
               PROVE  row'[m].providerMessageId \in Copies(m)'
    BY DEF ProviderIdIsACopy
  <2>1. CASE row'[m].providerMessageId = row[m].providerMessageId
    BY <1>2, <2>1, CopiesStay DEF ProviderIdIsACopy
  <2>2. CASE row'[m].providerMessageId # row[m].providerMessageId
    <3>1. ASSUME NEW n \in Messages, MessageStep(n) PROVE FALSE
      <4>1. CASE Enqueue(n)
        BY <1>2, <2>2, <4>1 DEF Enqueue, IInv, TypeOK, Row
      <4>2. CASE LockExpires(n)
        BY <1>2, <2>2, <4>2 DEF LockExpires, IInv, TypeOK, Row
      <4>3. CASE ReconcileStaleSending(n)
        BY <1>2, <2>2, <4>3 DEF ReconcileStaleSending, Relocked, IInv, TypeOK
      <4>4. CASE \E k \in JobKinds : JobSkip(n, k) \/ Stall(n, k)
        BY <2>2, <4>4 DEF JobSkip, Stall
      <4>5. QED
        BY <3>1, <4>1, <4>2, <4>3, <4>4 DEF MessageStep
    <3>2. ASSUME NEW a \in Attempts, NEW n \in Messages, NEW s \in JobKinds \cup {"cron"},
                 NEW w \in Workers, Claim(a, n, s, w)
          PROVE  FALSE
      BY <1>2, <2>2, <3>2 DEF Claim, Relocked, IInv, TypeOK
    <3>3. ASSUME NEW a \in Attempts, Settle(a) PROVE row'[m].providerMessageId \in Copies(m)'
      <4>1. PICK n \in Messages : attempt[a].msg = n
        BY <1>2, <3>3 DEF Settle, IInv, Assigned
      <4>2. row' = [row EXCEPT ![n] = SettledRow(a, n)]
        BY <3>3, <4>1 DEF Settle
      <4>3. n = m /\ row'[m] = SettledRow(a, m)
        BY <1>2, <2>2, <4>2 DEF IInv, TypeOK
      <4>4. attempt[a].answer = "ok" /\ row'[m].providerMessageId = a
        BY <2>2, <4>3 DEF SettledRow, Relocked
      <4>5. a \in accepted
        BY <1>2, <3>3, <4>4 DEF Settle, IInv, Told
      <4>6. QED
        BY <1>2, <4>1, <4>3, <4>4, <4>5, CopiesStay DEF Copies
    <3>4. ASSUME NEW r \in Requests, WriteStatus(r) \/ RetryWrite(r) PROVE FALSE
      <4>1. CASE WriteStatus(r)
        BY <1>2, <2>2, <4>1 DEF WriteStatus, IInv, TypeOK, Row
      <4>2. CASE RetryWrite(r)
        BY <1>2, <2>2, <4>2 DEF RetryWrite, IInv, TypeOK, Row
      <4>3. QED
        BY <3>4, <4>1, <4>2
    <3>5. CASE UNCHANGED row
      BY <2>2, <3>5
    <3>6. QED
      BY <1>2, <3>1, <3>2, <3>3, <3>4, <3>5, ClaimSteps, DispatchAssumption
      DEF Next, AttemptStep, RequestStep, SendText, Lose, Recycle, StatusWebhook, OperatorStatus, ReadForUpdate,
         RetryCheck, vars
  <2>3. QED
    BY <2>1, <2>2
<1>3. QED
  BY <1>1, <1>2, Invariant, PTL DEF Spec

-------------------------------------------------------------------------------
(* What a retry has checked: its message is FAILED.                        *)
Checked == \A r \in Requests : request[r].kind = "retry" => row[request[r].msg].status = "FAILED"

(* Only a request takes a message out of FAILED: no claim, no outcome and  *)
(* no reconciliation does.                                                 *)
LEMMA FailedLeftByRequest ==
    ASSUME DispatchAssumption, IInv, [Next]_vars, NEW m \in Messages,
           row[m].status = "FAILED", row'[m].status # "FAILED"
    PROVE  \E q \in Requests : (WriteStatus(q) \/ RetryWrite(q)) /\ request[q].msg = m
<1> DEFINE Written == \E q \in Requests : (WriteStatus(q) \/ RetryWrite(q)) /\ request[q].msg = m
<1>1. ASSUME NEW n \in Messages, MessageStep(n) PROVE Written
  <2>1. CASE Enqueue(n) \/ LockExpires(n)
    BY <2>1 DEF Enqueue, LockExpires, IInv, TypeOK, Row
  <2>2. CASE ReconcileStaleSending(n)
    BY <2>2 DEF ReconcileStaleSending, IInv, TypeOK
  <2>3. CASE UNCHANGED row
    BY <2>3
  <2> QED
    BY <1>1, <2>1, <2>2, <2>3 DEF MessageStep, JobSkip, Stall
<1>2. ASSUME NEW a \in Attempts, NEW n \in Messages, NEW s \in JobKinds \cup {"cron"},
             NEW w \in Workers, Claim(a, n, s, w)
      PROVE  Written
  BY <1>2 DEF Claim, Claimable, IInv, TypeOK
<1>3. ASSUME NEW a \in Attempts, Settle(a) PROVE Written
  <2>1. SettledRow(a, m) = row[m]
    BY DEF SettledRow, Owns
  <2> QED
    BY <1>3, <2>1 DEF Settle, IInv, TypeOK
<1>4. ASSUME NEW q \in Requests, WriteStatus(q) \/ RetryWrite(q) PROVE Written
  BY <1>4 DEF WriteStatus, RetryWrite, IInv, TypeOK
<1>5. CASE UNCHANGED row
  BY <1>5
<1> QED
  BY <1>1, <1>2, <1>3, <1>4, <1>5, ClaimSteps
  DEF Next, AttemptStep, RequestStep, SendText, Lose, Recycle, StatusWebhook, OperatorStatus,
      ReadForUpdate, RetryCheck, vars

(* A request that is a retry after a step was one before, about the same   *)
(* message, or has checked just now that its message is FAILED.            *)
LEMMA RetrySteps ==
    ASSUME DispatchAssumption, IInv, [Next]_vars, NEW r \in Requests,
           request'[r].kind = "retry"
    PROVE  \/ request'[r] = request[r]
           \/ row[request'[r].msg].status = "FAILED" /\ UNCHANGED row
<1>1. ASSUME NEW q \in Requests, RetryCheck(q)
      PROVE  \/ request'[r] = request[r]
             \/ row[request'[r].msg].status = "FAILED" /\ UNCHANGED row
  BY <1>1 DEF RetryCheck, IInv, TypeOK
<1>2. ASSUME NEW q \in Requests, StatusWebhook(q) \/ OperatorStatus(q)
      PROVE  request'[r] = request[r]
  BY <1>2 DEF StatusWebhook, OperatorStatus, ReadForUpdate, IInv, TypeOK
<1>3. ASSUME NEW q \in Requests, WriteStatus(q) \/ RetryWrite(q)
      PROVE  request'[r] = request[r]
  BY <1>3 DEF WriteStatus, RetryWrite, Idle, IInv, TypeOK
<1>4. CASE UNCHANGED request
  BY <1>4
<1> QED
  BY <1>1, <1>2, <1>3, <1>4, ClaimSteps
  DEF Next, MessageStep, AttemptStep, RequestStep, Enqueue, LockExpires,
      ReconcileStaleSending, JobSkip, Stall, Claim, SendText, Settle, Lose, Recycle, vars

(* The window between the check of retryFailedMessage and its update is    *)
(* the only way to send a message again that has been sent: if nobody      *)
(* writes the row in it, a retry finds it FAILED still.                    *)
THEOREM OnlyAWriteBetween == Spec /\ NoWriteBetween => SentNeverRetried
<1> DEFINE Alone ==
             \A r, q \in Requests :
                 /\ r # q
                 /\ request[r].kind = "retry" /\ request[q].kind # "idle"
                 /\ request[r].msg = request[q].msg
                 => request'[q] # Idle
           NotSent ==
             \A r \in Requests :
                 request[r].kind = "retry" /\ request'[r] = Idle =>
                     row[request[r].msg].status \notin {"SENT", "DELIVERED", "READ"}
<1>1. Init => Checked
  BY DEF Init, Checked, Idle
<1>2. IInv /\ Checked /\ [Next]_vars /\ [Alone]_vars => Checked'
  <2> SUFFICES ASSUME IInv, Checked, [Next]_vars, [Alone]_vars,
                      NEW r \in Requests, request'[r].kind = "retry"
               PROVE  row'[request'[r].msg].status = "FAILED"
    BY DEF Checked
  <2>1. CASE row[request'[r].msg].status = "FAILED" /\ UNCHANGED row
    BY <2>1
  <2>2. CASE request'[r] = request[r]
    <3>1. PICK m \in Messages : request[r].msg = m
      BY <2>2 DEF IInv, Assigned
    <3>2. row[m].status = "FAILED"
      BY <2>2, <3>1 DEF Checked
    <3>3. ASSUME NEW q \in Requests, WriteStatus(q) \/ RetryWrite(q), request[q].msg = m
          PROVE  FALSE
      <4>1. request'[q] = Idle /\ request[q].kind # "idle" /\ request' # request
        BY <3>3 DEF WriteStatus, RetryWrite, IInv, TypeOK, Idle
      <4>2. q # r
        BY <2>2, <4>1 DEF Idle
      <4> QED
        BY <2>2, <3>1, <3>3, <4>1, <4>2 DEF vars
    <3> QED
      BY <2>2, <3>1, <3>2, <3>3, FailedLeftByRequest, DispatchAssumption
  <2> QED
    BY <2>1, <2>2, RetrySteps, DispatchAssumption
<1>3. Checked => [NotSent]_vars
  BY DEF Checked
<1> QED
  BY <1>1, <1>2, <1>3, Invariant, PTL DEF Spec, NoWriteBetween, SentNeverRetried
===============================================================================
