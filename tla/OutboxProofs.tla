----------------------------- MODULE OutboxProofs -----------------------------
(***************************************************************************)
(* The outbox composed with its webhook deliveries, proved for any events, *)
(* endpoints, workers, runs and replay requests.                           *)
(*                                                                         *)
(* Deliveries come first: their part of the invariant, DInv, does not      *)
(* speak of events, and every action keeps it.  The outbox then needs only *)
(* one fact about what happens to a delivery, that it Moves: nothing of it *)
(* is ever taken back.                                                     *)
(***************************************************************************)
EXTENDS Outbox, TLAPS

(* Whoever is past the first step has a delivery to work on, and a job     *)
(* that may still run has attempts left.                                   *)
Aimed ==
    /\ \A r \in Runs : run[r].phase # "idle" => run[r].of \in Deliveries
    /\ \A p \in Replays : replay[p].phase # "idle" => replay[p].of \in Deliveries
    /\ \A d \in Deliveries : job[d].state \in {"waiting", "active"} => job[d].made < JobAttempts

(* A run that got a positive answer has reached the destination, and a     *)
(* replay under way has seen all attempts used up.                         *)
Evidence ==
    /\ \A r \in Runs : run[r].phase = "ok" => run[r].of \in received
    /\ \A p \in Replays : replay[p].phase \notin {"idle", "requested"} =>
          replay[p].attempts = JobAttempts

DInv == DeliveryTypeOK /\ Aimed /\ Evidence /\ FailedExhausted /\ SuccessReceived

(* A step of delivery d alone: a row once created stays, and so does the   *)
(* trace of a job.                                                         *)
Moves(d) ==
    /\ \A c \in Deliveries \ {d} :
          /\ delivery'[c] = delivery[c]
          /\ job'[c] = job[c]
          /\ c \in ended' <=> c \in ended
    /\ delivery[d].status # "ABSENT" => delivery'[d].status # "ABSENT"
    /\ job[d].state # "none" \/ d \in ended => job'[d].state # "none" \/ d \in ended'

LEMMA InitDInv == ASSUME DeliveryAssumption, DeliveryInit PROVE DInv
<1>1. DeliveryTypeOK
  BY DEF DeliveryAssumption, DeliveryInit, DeliveryTypeOK, Delivery, Job, Run, Replay,
         NoJob, IdleRun, IdleReplay
<1>2. Aimed /\ Evidence /\ FailedExhausted /\ SuccessReceived
  BY DEF DeliveryInit, Aimed, Evidence, FailedExhausted, SuccessReceived, IdleRun,
         IdleReplay, NoJob
<1>3. QED
  BY <1>1, <1>2 DEF DInv

-------------------------------------------------------------------------------
(* Steps that change one row of one variable.                              *)
LEMMA JobChanges ==
    ASSUME DeliveryAssumption, DInv, NEW d \in Deliveries, NEW j \in Job,
           j.state \in {"waiting", "active"} => j.made < JobAttempts,
           job' = [job EXCEPT ![d] = j],
           j.state = "none" => ended' = ended \cup {d},
           ended' \in {ended, ended \cup {d}},
           UNCHANGED delivery
    PROVE  /\ job' \in [Deliveries -> Job]
           /\ ended' \subseteq Deliveries
           /\ \A c \in Deliveries :
                 job'[c].state \in {"waiting", "active"} => job'[c].made < JobAttempts
           /\ Moves(d)
  BY DEF DInv, DeliveryTypeOK, Aimed, Moves, Job

LEMMA JobSteps ==
    ASSUME DeliveryAssumption, DInv, NEW d \in Deliveries, JobStep(d)
    PROVE  DInv' /\ Moves(d)
<1>1. UNCHANGED <<active, delivery, run, replay, received>>
  BY DEF JobStep, Skip, Stall, Evict
<1>2. job[d] \in Job /\ NoJob \in Job /\ NoJob.state = "none"
  BY DEF DInv, DeliveryTypeOK, DeliveryAssumption, NoJob, Job
<1>3. PICK j \in Job :
          /\ j.state \in {"waiting", "active"} => j.made < JobAttempts
          /\ job' = [job EXCEPT ![d] = j]
          /\ j.state = "none" => ended' = ended \cup {d}
          /\ ended' \in {ended, ended \cup {d}}
  <2>1. CASE Skip(d) \/ Evict(d)
    BY <1>2, <2>1 DEF Skip, Evict
  <2>2. CASE Stall(d)
    BY <1>2, <2>2 DEF Stall, Job, DInv, Aimed
  <2>3. QED
    BY <2>1, <2>2 DEF JobStep
<1>4. notice' \subseteq Notice
  <2>1. CASE Skip(d) \/ Evict(d)
    BY <2>1 DEF Skip, Evict, DInv, DeliveryTypeOK
  <2>2. CASE Stall(d)
    <3>1. job[d].made \in Nat /\ job[d].made < JobAttempts
      BY <1>2, <2>2 DEF Stall, Job, DInv, Aimed
    <3>2. QED
      BY <2>2, <3>1 DEF Stall, DInv, DeliveryTypeOK, Notice, DeliveryAssumption
  <2>3. QED
    BY <2>1, <2>2 DEF JobStep
<1>5. /\ job' \in [Deliveries -> Job]
      /\ ended' \subseteq Deliveries
      /\ \A c \in Deliveries : job'[c].state \in {"waiting", "active"} => job'[c].made < JobAttempts
      /\ Moves(d)
  BY <1>1, <1>3, JobChanges
<1>6. QED
  BY <1>1, <1>4, <1>5 DEF DInv, DeliveryTypeOK, Aimed, Evidence, FailedExhausted, SuccessReceived

-------------------------------------------------------------------------------
LEMMA RunSteps ==
    ASSUME DeliveryAssumption, DInv, NEW r \in Runs, RunStep(r)
    PROVE  DInv' /\ \E d \in Deliveries : Moves(d)
<1>1. run[r] \in Run /\ IdleRun \in Run
  BY DEF DInv, DeliveryTypeOK, Run, IdleRun, DeliveryAssumption
<1>2. ASSUME NEW d \in Deliveries, Take(r, d)
      PROVE  DInv' /\ Moves(d)
  <2>1. job[d].made \in Nat /\ job[d].made < JobAttempts
    BY <1>2 DEF Take, DInv, DeliveryTypeOK, Aimed, Job
  <2>2. DeliveryTypeOK'
    <3>1. [phase |-> "posting", of |-> d, attempt |-> job[d].made + 1] \in Run
      BY <2>1 DEF Run, DeliveryAssumption
    <3>2. [state |-> "active", made |-> job[d].made, holder |-> r] \in Job
      BY <2>1 DEF Job, DeliveryAssumption
    <3>3. QED
      BY <1>2, <3>1, <3>2 DEF Take, DInv, DeliveryTypeOK
  <2>3. Aimed'
    BY <1>2, <2>1 DEF Take, DInv, DeliveryTypeOK, Aimed
  <2>4. Evidence' /\ FailedExhausted' /\ SuccessReceived'
    BY <1>2 DEF Take, DInv, DeliveryTypeOK, Evidence, FailedExhausted, SuccessReceived
  <2>5. Moves(d)
    BY <1>2 DEF Take, DInv, DeliveryTypeOK, Moves
  <2>6. QED
    BY <2>2, <2>3, <2>4, <2>5 DEF DInv
<1>3. ASSUME run[r].phase # "idle"
      PROVE  run[r].of \in Deliveries
  BY <1>3 DEF DInv, Aimed
<1>4. CASE Post(r)
  <2>1. PICK d \in Deliveries : d = run[r].of
    BY <1>3, <1>4 DEF Post
  <2>2. DeliveryTypeOK'
    BY <1>4, <2>1 DEF Post, DInv, DeliveryTypeOK, Run
  <2>3. /\ \A q \in Runs \ {r} : run'[q] = run[q]
        /\ run'[r].of = d
        /\ run'[r].phase = "ok" => d \in received'
    BY <1>1, <1>4, <2>1 DEF Post, DInv, DeliveryTypeOK, Run
  <2>4. received \subseteq received' /\ UNCHANGED <<active, delivery, job, notice, replay, ended>>
    BY <1>4 DEF Post
  <2>5. Aimed' /\ Evidence'
    BY <2>3, <2>4 DEF DInv, Aimed, Evidence
  <2>6. FailedExhausted' /\ SuccessReceived'
    BY <2>4 DEF DInv, FailedExhausted, SuccessReceived
  <2>7. Moves(d)
    BY <2>4 DEF Moves
  <2>8. QED
    BY <2>2, <2>5, <2>6, <2>7 DEF DInv
<1>5. CASE Succeed(r)
  <2>1. PICK d \in Deliveries : d = run[r].of
    BY <1>3, <1>5 DEF Succeed
  <2>2. /\ delivery' = [delivery EXCEPT ![d] = [status |-> "SUCCESS", attempts |-> run[r].attempt]]
        /\ \/ job' = [job EXCEPT ![d] = NoJob] /\ ended' = ended \cup {d}
           \/ UNCHANGED <<job, ended>>
        /\ d \in received
        /\ UNCHANGED <<active, notice, replay, received>>
    BY <1>5, <2>1 DEF Succeed, Marked, DInv, Evidence
  <2>3. NoJob \in Job /\ NoJob.state = "none"
    BY DEF NoJob, Job, DeliveryAssumption
  <2>4. /\ run' \in [Runs -> Run]
        /\ \A q \in Runs \ {r} : run'[q] = run[q]
        /\ run'[r].phase # "ok"
        /\ run'[r].phase # "idle" => run'[r].of = d
    <3>1. CASE run' = [run EXCEPT ![r] = IdleRun]
      BY <1>1, <3>1 DEF IdleRun, DInv, DeliveryTypeOK
    <3>2. CASE run' = [run EXCEPT ![r].phase = "error"]
      BY <1>1, <2>1, <3>2 DEF Run, DInv, DeliveryTypeOK
    <3>3. QED
      BY <1>5, <3>1, <3>2 DEF Succeed
  <2>5. DeliveryTypeOK'
    <3>1. [status |-> "SUCCESS", attempts |-> run[r].attempt] \in Delivery
      BY <1>1 DEF Run, Delivery
    <3>2. QED
      BY <2>2, <2>3, <2>4, <3>1 DEF DInv, DeliveryTypeOK
  <2>6. Aimed' /\ Evidence'
    BY <2>2, <2>3, <2>4 DEF DInv, DeliveryTypeOK, Aimed, Evidence
  <2>7. FailedExhausted' /\ SuccessReceived'
    BY <2>2 DEF DInv, DeliveryTypeOK, FailedExhausted, SuccessReceived
  <2>8. Moves(d)
    BY <2>2 DEF DInv, DeliveryTypeOK, Moves
  <2>9. QED
    BY <2>5, <2>6, <2>7, <2>8 DEF DInv
<1>6. CASE Fail(r)
  <2>1. PICK d \in Deliveries : d = run[r].of
    BY <1>3, <1>6 DEF Fail
  <2>2. /\ run' = [run EXCEPT ![r] = IdleRun]
        /\ \/ /\ job' = [job EXCEPT ![d] = AfterFailure(run[r].attempt)]
              /\ notice' = notice \cup {[of |-> d, attempts |-> run[r].attempt]}
           \/ UNCHANGED <<job, notice>>
        /\ UNCHANGED <<active, delivery, replay, received, ended>>
    BY <1>6, <2>1 DEF Fail
  <2>3. /\ AfterFailure(run[r].attempt) \in Job
        /\ AfterFailure(run[r].attempt).state # "none"
        /\ AfterFailure(run[r].attempt).state \in {"waiting", "active"} =>
              AfterFailure(run[r].attempt).made < JobAttempts
    BY <1>1 DEF AfterFailure, Job, Run, DeliveryAssumption
  <2>4. DeliveryTypeOK'
    <3>1. [of |-> d, attempts |-> run[r].attempt] \in Notice
      BY <1>1 DEF Run, Notice
    <3>2. QED
      BY <1>1, <2>2, <2>3, <3>1 DEF DInv, DeliveryTypeOK
  <2>5. Aimed' /\ Evidence' /\ FailedExhausted' /\ SuccessReceived'
    BY <2>2, <2>3 DEF DInv, DeliveryTypeOK, Aimed, Evidence, FailedExhausted, SuccessReceived, IdleRun
  <2>6. Moves(d)
    BY <2>2, <2>3 DEF DInv, DeliveryTypeOK, Moves
  <2>7. QED
    BY <2>4, <2>5, <2>6 DEF DInv
<1>7. CASE Crash(r)
  <2>1. PICK d \in Deliveries : d = run[r].of
    BY <1>3, <1>7 DEF Crash
  <2>2. DInv'
    BY <1>1, <1>7 DEF Crash, DInv, DeliveryTypeOK, Aimed, Evidence, FailedExhausted,
                      SuccessReceived, IdleRun
  <2>3. Moves(d)
    BY <1>7 DEF Crash, Moves
  <2>4. QED
    BY <2>2, <2>3
<1>8. QED
  BY <1>2, <1>4, <1>5, <1>6, <1>7 DEF RunStep

-------------------------------------------------------------------------------
LEMMA NoticeSteps ==
    ASSUME DeliveryAssumption, DInv, NEW n \in notice, HandleFailed(n)
    PROVE  DInv' /\ \E d \in Deliveries : Moves(d)
<1>1. n.of \in Deliveries /\ n.attempts \in 0 .. JobAttempts
  BY DEF DInv, DeliveryTypeOK, Notice
<1>2. PICK d \in Deliveries : d = n.of
  BY <1>1
<1>3. PICK x \in Delivery :
          /\ delivery' \in {delivery, [delivery EXCEPT ![d] = x]}
          /\ x.status = "PENDING" \/ (x.status = "FAILED" /\ x.attempts = JobAttempts)
  <2>1. [status |-> StatusAfterFailure(n.attempts), attempts |-> n.attempts] \in Delivery
    BY <1>1 DEF StatusAfterFailure, Delivery
  <2>2. QED
    BY <1>1, <1>2, <2>1 DEF HandleFailed, Marked, StatusAfterFailure, DeliveryAssumption
<1>4. UNCHANGED <<active, job, run, replay, received, ended>> /\ notice' \subseteq notice
  BY DEF HandleFailed
<1>5. DeliveryTypeOK' /\ Aimed' /\ Evidence'
  BY <1>3, <1>4 DEF DInv, DeliveryTypeOK, Aimed, Evidence
<1>6. FailedExhausted' /\ SuccessReceived'
  BY <1>3, <1>4 DEF DInv, DeliveryTypeOK, FailedExhausted, SuccessReceived
<1>7. Moves(d)
  BY <1>3, <1>4 DEF DInv, DeliveryTypeOK, Moves
<1>8. QED
  BY <1>5, <1>6, <1>7 DEF DInv

(* A new job, also when it is already there.                               *)
LEMMA AddJobKeeps ==
    ASSUME DeliveryAssumption, DInv, NEW d \in Deliveries, AddJob(d) \/ UNCHANGED job,
           UNCHANGED <<delivery, ended>>
    PROVE  /\ job' \in [Deliveries -> Job]
           /\ \A c \in Deliveries :
                 job'[c].state \in {"waiting", "active"} => job'[c].made < JobAttempts
           /\ Moves(d)
  BY DEF DeliveryAssumption, DInv, DeliveryTypeOK, Aimed, AddJob, Job, Moves

LEMMA ReplaySteps ==
    ASSUME DeliveryAssumption, DInv, NEW p \in Replays, ReplayStep(p)
    PROVE  DInv' /\ \E d \in Deliveries : Moves(d)
<1>1. replay[p] \in Replay /\ IdleReplay \in Replay
  BY DEF DInv, DeliveryTypeOK, Replay, IdleReplay, DeliveryAssumption
<1>2. UNCHANGED <<active, run, notice, received, ended>>
  BY DEF ReplayStep, ReplayRead, ReplayLookAtJob, ReplayMark, ReplayAdd, ReplayRefused,
         ReplayRestore, ReplayAbort
<1>3. ASSUME NEW d \in Deliveries, ReplayRead(p, d)
      PROVE  DInv' /\ Moves(d)
  <2>1. delivery[d].attempts = JobAttempts
    BY <1>3 DEF ReplayRead, DInv, FailedExhausted
  <2>2. [phase |-> "read", of |-> d, attempts |-> delivery[d].attempts] \in Replay
    BY <2>1 DEF Replay, DeliveryAssumption
  <2>3. DInv'
    BY <1>3, <2>1, <2>2 DEF ReplayRead, DInv, DeliveryTypeOK, Aimed, Evidence,
                            FailedExhausted, SuccessReceived
  <2>4. QED
    BY <1>3, <2>3 DEF ReplayRead, Moves
<1>4. ASSUME replay[p].phase # "idle"
      PROVE  replay[p].of \in Deliveries
  BY <1>4 DEF DInv, Aimed
<1>5. CASE ReplayLookAtJob(p) \/ ReplayRefused(p)
  <2>1. PICK d \in Deliveries : d = replay[p].of
    BY <1>4, <1>5 DEF ReplayLookAtJob, ReplayRefused
  <2>2. DInv'
    BY <1>1, <1>5 DEF ReplayLookAtJob, ReplayRefused, DInv, DeliveryTypeOK, Replay, Aimed,
                      Evidence, FailedExhausted, SuccessReceived
  <2>3. QED
    BY <1>5, <2>2 DEF ReplayLookAtJob, ReplayRefused, Moves
<1>6. CASE ReplayMark(p) \/ ReplayRestore(p)
  <2>1. PICK d \in Deliveries : d = replay[p].of
    BY <1>4, <1>6 DEF ReplayMark, ReplayRestore
  <2>2. PICK x \in Delivery :
          /\ delivery' = [delivery EXCEPT ![d] = x]
          /\ x.status = "PENDING" \/ (x.status = "FAILED" /\ x.attempts = JobAttempts)
    <3>1. replay[p].attempts = JobAttempts
      BY <1>6 DEF ReplayMark, ReplayRestore, DInv, Evidence
    <3>2. \A s \in {"PENDING", "FAILED"} : [status |-> s, attempts |-> replay[p].attempts] \in Delivery
      BY <3>1 DEF Delivery, DeliveryAssumption
    <3>3. QED
      BY <1>6, <2>1, <3>1, <3>2 DEF ReplayMark, ReplayRestore, Marked
  <2>3. /\ job' = job
        /\ replay' \in [Replays -> Replay]
        /\ \A q \in Replays \ {p} : replay'[q] = replay[q]
        /\ replay'[p].phase # "idle" => replay'[p].of = d /\ replay'[p].attempts = replay[p].attempts
    <3>1. CASE ReplayMark(p)
      BY <1>1, <2>1, <3>1 DEF ReplayMark, Replay, DInv, DeliveryTypeOK
    <3>2. CASE ReplayRestore(p)
      BY <1>1, <3>2 DEF ReplayRestore, IdleReplay, DInv, DeliveryTypeOK
    <3>3. QED
      BY <1>6, <3>1, <3>2
  <2>4. replay[p].attempts = JobAttempts
    BY <1>6 DEF ReplayMark, ReplayRestore, DInv, Evidence
  <2>5. DInv'
    BY <1>2, <2>2, <2>3, <2>4 DEF DInv, DeliveryTypeOK, Aimed, Evidence, FailedExhausted,
                                  SuccessReceived
  <2>6. Moves(d)
    BY <1>2, <2>2, <2>3 DEF DInv, DeliveryTypeOK, Moves
  <2>7. QED
    BY <2>5, <2>6
<1>7. CASE ReplayAdd(p) \/ ReplayAbort(p)
  <2>1. PICK d \in Deliveries : d = replay[p].of
    BY <1>4, <1>7 DEF ReplayAdd, ReplayAbort
  <2>2. (AddJob(d) \/ UNCHANGED job) /\ UNCHANGED <<delivery, ended>>
    BY <1>7, <2>1 DEF ReplayAdd, ReplayAbort
  <2>3. /\ replay' \in [Replays -> Replay]
        /\ \A q \in Replays \ {p} : replay'[q] = replay[q]
        /\ replay'[p].phase # "idle" => replay'[p].of = d /\ replay'[p].phase = "requested"
    <3>1. CASE ReplayAdd(p)
      BY <1>1, <2>1, <3>1 DEF ReplayAdd, Replay, DInv, DeliveryTypeOK
    <3>2. CASE ReplayAbort(p)
      BY <1>1, <3>2 DEF ReplayAbort, IdleReplay, DInv, DeliveryTypeOK
    <3>3. QED
      BY <1>7, <3>1, <3>2
  <2>4. /\ job' \in [Deliveries -> Job]
        /\ \A c \in Deliveries : job'[c].state \in {"waiting", "active"} => job'[c].made < JobAttempts
        /\ Moves(d)
    BY <2>2, AddJobKeeps
  <2>5. DInv'
    BY <1>2, <2>2, <2>3, <2>4 DEF DInv, DeliveryTypeOK, Aimed, Evidence, FailedExhausted,
                                  SuccessReceived
  <2>6. QED
    BY <2>4, <2>5
<1>8. QED
  BY <1>3, <1>5, <1>6, <1>7 DEF ReplayStep

LEMMA DeliverySteps ==
    ASSUME DeliveryAssumption, DInv, DeliveryStep
    PROVE  DInv' /\ \E d \in Deliveries : Moves(d)
  BY JobSteps, RunSteps, NoticeSteps, ReplaySteps DEF DeliveryStep

-------------------------------------------------------------------------------
(* The outbox.  A worker only holds committed events and has nothing to do *)
(* for an endpoint without one or after an error; an endpoint active all   *)
(* along is active now.                                                    *)
OutboxTypeOK ==
    /\ event \in [Events -> Event]
    /\ worker \in [Workers -> Worker]
    /\ steady \in [Events -> SUBSET Endpoints]

Committed ==
    /\ \A w \in Workers :
          /\ \A e \in worker[w].batch : event[e].status # "ABSENT"
          /\ worker[w].current # None => event[worker[w].current].status # "ABSENT"
          /\ worker[w].threw \/ worker[w].current = None => worker[w].todo = {} /\ worker[w].open = None
    /\ \A e \in Events : steady[e] \subseteq active

(* What worker w has done of its current event: the open endpoint has its  *)
(* delivery, and all the endpoints that are neither open nor still to do   *)
(* have theirs handed over.                                                *)
Advanced(w) ==
    worker[w].current # None /\ ~ worker[w].threw =>
        /\ worker[w].open # None => delivery[<<worker[w].current, worker[w].open>>].status # "ABSENT"
        /\ \A ep \in steady[worker[w].current] \ worker[w].todo :
              ep # worker[w].open => HandedOver(<<worker[w].current, ep>>)

Progress == \A w \in Workers : Advanced(w)

IInv ==
    /\ OutboxTypeOK
    /\ DInv
    /\ Committed
    /\ Progress
    /\ ProcessedHandedOver
    /\ FailedAfterAttempts

(* Nothing of any delivery is taken back.                                  *)
Kept ==
    \A d \in Deliveries :
        /\ delivery[d].status # "ABSENT" => delivery'[d].status # "ABSENT"
        /\ HandedOver(d) => HandedOver(d)'

LEMMA MovesKeeps == ASSUME NEW d \in Deliveries, Moves(d) PROVE Kept
  BY DEF Moves, Kept, HandedOver

LEMMA InitIInv == ASSUME DeliveryAssumption, OutboxAssumption, Init PROVE IInv
<1>1. OutboxTypeOK
  BY DEF Init, OutboxTypeOK, OutboxAssumption, Event, Worker, NoEvent, IdleWorker
<1>2. Committed /\ Progress /\ ProcessedHandedOver /\ FailedAfterAttempts
  BY DEF Init, Committed, Progress, Advanced, ProcessedHandedOver, FailedAfterAttempts,
         NoEvent, IdleWorker
<1>3. QED
  BY <1>1, <1>2, InitDInv DEF Init, IInv

(* A step of the deliveries alone.                                         *)
LEMMA DeliveryStepIInv ==
    ASSUME DeliveryAssumption, OutboxAssumption, IInv, DInv', Kept, UNCHANGED outboxVars,
           active' = active
    PROVE  IInv'
<1>1. OutboxTypeOK' /\ Committed' /\ FailedAfterAttempts'
  BY DEF IInv, OutboxTypeOK, Committed, FailedAfterAttempts, outboxVars
<1>2. Progress'
  <2>1. SUFFICES ASSUME NEW w \in Workers PROVE Advanced(w)'
    BY DEF Progress
  <2>2. Advanced(w) /\ worker[w] \in Worker
    BY DEF IInv, Progress, OutboxTypeOK
  <2>3. ASSUME NEW e \in Events, NEW ep \in Endpoints
        PROVE  /\ delivery[<<e, ep>>].status # "ABSENT" => delivery'[<<e, ep>>].status # "ABSENT"
               /\ HandedOver(<<e, ep>>) => HandedOver(<<e, ep>>)'
    BY DEF Kept, Deliveries
  <2>4. CASE worker[w].current = None
    BY <2>4 DEF Advanced, outboxVars
  <2>5. CASE worker[w].current # None
    <3>1. PICK e \in Events : e = worker[w].current
      BY <2>2, <2>5 DEF Worker
    <3>2. steady[e] \subseteq Endpoints
      BY DEF IInv, OutboxTypeOK
    <3>3. worker[w].open \in Endpoints \cup {None}
      BY <2>2 DEF Worker
    <3>4. UNCHANGED <<event, worker, steady>>
      BY DEF outboxVars
    <3>5. QED
      BY <2>2, <2>3, <3>1, <3>2, <3>3, <3>4 DEF Advanced
  <2>6. QED
    BY <2>4, <2>5
<1>3. ProcessedHandedOver'
  BY DEF IInv, ProcessedHandedOver, Kept, Deliveries, OutboxTypeOK, outboxVars
<1>4. QED
  BY <1>1, <1>2, <1>3 DEF IInv

(* What an outbox step may do to the deliveries: switch an endpoint,       *)
(* create a row, add a job.                                                *)
LEMMA SameDeliveries ==
    ASSUME DInv, active' \subseteq Endpoints,
           UNCHANGED <<delivery, job, run, notice, replay, received, ended>>
    PROVE  DInv' /\ Kept
  BY DEF DInv, DeliveryTypeOK, Aimed, Evidence, FailedExhausted, SuccessReceived, Kept, HandedOver

LEMMA CreatePendingKeeps ==
    ASSUME DeliveryAssumption, DInv, NEW d \in Deliveries, CreatePending(d),
           UNCHANGED <<active, job, run, notice, replay, received, ended>>
    PROVE  DInv' /\ Kept /\ delivery'[d].status # "ABSENT"
<1>1. [status |-> "PENDING", attempts |-> 0] \in Delivery
  BY DEF Delivery, DeliveryAssumption
<1>2. DeliveryTypeOK' /\ Aimed' /\ Evidence'
  BY <1>1 DEF CreatePending, DInv, DeliveryTypeOK, Aimed, Evidence
<1>3. FailedExhausted' /\ SuccessReceived' /\ delivery'[d].status # "ABSENT"
  BY DEF CreatePending, DInv, DeliveryTypeOK, FailedExhausted, SuccessReceived
<1>4. Kept
  BY DEF CreatePending, DInv, DeliveryTypeOK, Kept, HandedOver
<1>5. QED
  BY <1>2, <1>3, <1>4 DEF DInv

LEMMA AddJobIsSafe ==
    ASSUME DeliveryAssumption, DInv, NEW d \in Deliveries, AddJob(d),
           UNCHANGED <<active, delivery, run, notice, replay, received, ended>>
    PROVE  DInv' /\ Moves(d) /\ Kept /\ job'[d].state # "none"
<1>1. /\ job' \in [Deliveries -> Job]
      /\ \A c \in Deliveries : job'[c].state \in {"waiting", "active"} => job'[c].made < JobAttempts
      /\ Moves(d)
  BY AddJobKeeps
<1>2. DInv'
  BY <1>1 DEF DInv, DeliveryTypeOK, Aimed, Evidence, FailedExhausted, SuccessReceived
<1>3. job'[d].state # "none"
  BY DEF AddJob, DInv, DeliveryTypeOK
<1>4. QED
  BY <1>1, <1>2, <1>3, MovesKeeps

(* A worker that does nothing keeps what it has achieved.                  *)
LEMMA OthersAdvanced ==
    ASSUME OutboxAssumption, IInv, Kept, NEW v \in Workers, worker'[v] = worker[v],
           \A e \in Events : event[e].status # "ABSENT" => steady'[e] \subseteq steady[e]
    PROVE  Advanced(v)'
<1>1. Advanced(v) /\ worker[v] \in Worker
  BY DEF IInv, Progress, OutboxTypeOK
<1>2. ASSUME NEW e \in Events, NEW ep \in Endpoints
      PROVE  /\ delivery[<<e, ep>>].status # "ABSENT" => delivery'[<<e, ep>>].status # "ABSENT"
             /\ HandedOver(<<e, ep>>) => HandedOver(<<e, ep>>)'
  BY DEF Kept, Deliveries
<1>3. CASE worker[v].current = None
  BY <1>3 DEF Advanced
<1>4. CASE worker[v].current # None
  <2>1. PICK e \in Events : e = worker[v].current
    BY <1>1, <1>4 DEF Worker
  <2>2. steady'[e] \subseteq steady[e] /\ steady[e] \subseteq Endpoints
    BY <1>4, <2>1 DEF IInv, Committed, OutboxTypeOK
  <2>3. worker[v].open \in Endpoints \cup {None}
    BY <1>1 DEF Worker
  <2>4. QED
    BY <1>1, <1>2, <2>1, <2>2, <2>3 DEF Advanced
<1>5. QED
  BY <1>3, <1>4

(* Finished events stay as they are, when nothing else becomes PROCESSED   *)
(* or FAILED.                                                              *)
LEMMA FinishedStay ==
    ASSUME IInv, Kept,
           \A e \in Events : event[e].status # "ABSENT" => steady'[e] \subseteq steady[e],
           \A e \in Events : event'[e].status \in {"PROCESSED", "FAILED"} => event'[e] = event[e]
    PROVE  ProcessedHandedOver' /\ FailedAfterAttempts'
<1>1. FailedAfterAttempts'
  BY DEF IInv, FailedAfterAttempts
<1>2. ASSUME NEW e \in Events, event'[e].status = "PROCESSED", NEW ep \in steady'[e]
      PROVE  HandedOver(<<e, ep>>)'
  <2>1. event[e].status = "PROCESSED" /\ ep \in steady[e] /\ ep \in Endpoints
    BY <1>2 DEF IInv, OutboxTypeOK
  <2>2. QED
    BY <2>1 DEF IInv, ProcessedHandedOver, Kept, Deliveries
<1>3. QED
  BY <1>1, <1>2 DEF ProcessedHandedOver

-------------------------------------------------------------------------------
LEMMA EnqueueStep ==
    ASSUME OutboxAssumption, IInv, NEW e \in Events, Enqueue(e)
    PROVE  IInv'
<1> DEFINE new == [NoEvent EXCEPT !.status = "PENDING"]
<1>1. /\ event[e].status = "ABSENT"
      /\ event' = [event EXCEPT ![e] = new]
      /\ steady' = [steady EXCEPT ![e] = active]
      /\ UNCHANGED <<worker, deliveryVars>>
  BY DEF Enqueue
<1>2. DInv' /\ Kept
  BY <1>1, SameDeliveries DEF IInv, DInv, DeliveryTypeOK, deliveryVars
<1>3. new \in Event /\ new.status = "PENDING"
  BY DEF NoEvent, Event
<1> HIDE DEF new
<1>4. OutboxTypeOK' /\ Committed'
  <2>1. active \subseteq Endpoints /\ active' = active
    BY <1>1 DEF IInv, DInv, DeliveryTypeOK, deliveryVars
  <2>2. OutboxTypeOK'
    BY <1>1, <1>3, <2>1 DEF IInv, OutboxTypeOK
  <2>3. \A c \in Events : event'[c].status = "ABSENT" => event[c].status = "ABSENT"
    BY <1>1, <1>3 DEF IInv, OutboxTypeOK
  <2>4. \A c \in Events : steady'[c] \subseteq active'
    BY <1>1, <2>1 DEF IInv, OutboxTypeOK, Committed
  <2>5. Committed'
    BY <1>1, <2>3, <2>4 DEF IInv, OutboxTypeOK, Committed, Worker
  <2>6. QED
    BY <2>2, <2>5
<1>5. Progress'
  BY <1>1, <1>2, OthersAdvanced DEF Progress, IInv, OutboxTypeOK
<1>6. ProcessedHandedOver' /\ FailedAfterAttempts'
  BY <1>1, <1>2, <1>3, FinishedStay DEF IInv, OutboxTypeOK
<1>7. QED
  BY <1>2, <1>4, <1>5, <1>6 DEF IInv

LEMMA EndpointStep ==
    ASSUME OutboxAssumption, IInv, NEW ep \in Endpoints, Activate(ep) \/ Deactivate(ep)
    PROVE  IInv'
<1>1. /\ \/ active' = active \cup {ep} /\ steady' = steady
         \/ active' = active \ {ep} /\ steady' = [e \in Events |-> steady[e] \ {ep}]
      /\ UNCHANGED <<event, worker, delivery, job, run, notice, replay, received, ended>>
  BY DEF Activate, Deactivate
<1>2. active' \subseteq Endpoints
  BY <1>1 DEF IInv, DInv, DeliveryTypeOK
<1>3. DInv' /\ Kept
  BY <1>1, <1>2, SameDeliveries DEF IInv
<1>4. OutboxTypeOK' /\ Committed' /\ \A e \in Events : steady'[e] \subseteq steady[e]
  BY <1>1 DEF IInv, OutboxTypeOK, Committed
<1>5. Progress'
  BY <1>1, <1>3, <1>4, OthersAdvanced DEF Progress
<1>6. ProcessedHandedOver' /\ FailedAfterAttempts'
  BY <1>1, <1>3, <1>4, FinishedStay
<1>7. QED
  BY <1>3, <1>4, <1>5, <1>6 DEF IInv

(* Every action of a worker leaves the active endpoints and the history of *)
(* the events alone; what is left to see is the worker itself.             *)
LEMMA WorkerStep ==
    ASSUME OutboxAssumption, IInv, NEW w \in Workers, NEW x \in Worker, DInv', Kept,
           worker' = [worker EXCEPT ![w] = x],
           UNCHANGED <<steady, active>>,
           event' \in [Events -> Event],
           \A e \in Events : event'[e].status = "ABSENT" => event[e].status = "ABSENT",
           \A e \in x.batch : event'[e].status # "ABSENT",
           x.current # None => event'[x.current].status # "ABSENT",
           x.threw \/ x.current = None => x.todo = {} /\ x.open = None,
           Advanced(w)', ProcessedHandedOver', FailedAfterAttempts'
    PROVE  IInv'
<1>1. OutboxTypeOK'
  BY DEF IInv, OutboxTypeOK
<1>2. Committed'
  BY DEF IInv, OutboxTypeOK, Committed, Worker
<1>3. Progress'
  <2>1. ASSUME NEW v \in Workers, v # w
        PROVE  Advanced(v)'
    BY <2>1, OthersAdvanced DEF IInv, OutboxTypeOK
  <2>2. QED
    BY <2>1 DEF Progress
<1>4. QED
  BY <1>1, <1>2, <1>3 DEF IInv

(* The same for actions that leave the events alone.                       *)
LEMMA WorkerOnlyStep ==
    ASSUME OutboxAssumption, IInv, NEW w \in Workers, NEW x \in Worker, DInv', Kept,
           worker' = [worker EXCEPT ![w] = x],
           UNCHANGED <<event, steady, active>>,
           x.batch \subseteq worker[w].batch,
           x.current \in worker[w].batch \cup {worker[w].current, None},
           x.threw \/ x.current = None => x.todo = {} /\ x.open = None,
           Advanced(w)'
    PROVE  IInv'
<1>1. ProcessedHandedOver' /\ FailedAfterAttempts'
  BY FinishedStay DEF IInv
<1>2. event' \in [Events -> Event]
  BY DEF IInv, OutboxTypeOK
<1>3. /\ \A e \in x.batch : event'[e].status # "ABSENT"
      /\ x.current # None => event'[x.current].status # "ABSENT"
  BY DEF IInv, Committed
<1>4. QED
  BY <1>1, <1>2, <1>3, WorkerStep

LEMMA ClaimBatchStep ==
    ASSUME OutboxAssumption, IInv, NEW w \in Workers, ClaimBatch(w)
    PROVE  IInv'
<1>1. PICK batch \in SUBSET {e \in Events : Claimable(e)} :
          /\ event' = [e \in Events |->
                          IF e \in batch
                          THEN [status |-> "PROCESSING", attempts |-> event[e].attempts + 1,
                                lockedBy |-> w, stale |-> FALSE]
                          ELSE event[e]]
          /\ worker' = [worker EXCEPT ![w] = [IdleWorker EXCEPT !.batch = batch]]
          /\ UNCHANGED <<steady, deliveryVars>>
  BY DEF ClaimBatch
<1>2. DInv' /\ Kept
  BY <1>1, SameDeliveries DEF IInv, DInv, DeliveryTypeOK, deliveryVars
<1>3. /\ [IdleWorker EXCEPT !.batch = batch] \in Worker
      /\ [IdleWorker EXCEPT !.batch = batch].batch = batch
      /\ [IdleWorker EXCEPT !.batch = batch].current = None
      /\ ~ [IdleWorker EXCEPT !.batch = batch].threw
      /\ [IdleWorker EXCEPT !.batch = batch].todo = {}
      /\ [IdleWorker EXCEPT !.batch = batch].open = None
  BY <1>1 DEF IdleWorker, Worker
<1>4. event' \in [Events -> Event]
  <2>1. ASSUME NEW e \in Events
        PROVE  [status |-> "PROCESSING", attempts |-> event[e].attempts + 1,
                lockedBy |-> w, stale |-> FALSE] \in Event
    BY DEF IInv, OutboxTypeOK, Event
  <2>2. QED
    BY <1>1, <2>1 DEF IInv, OutboxTypeOK
<1>5. /\ \A e \in Events : event'[e].status = "ABSENT" => event[e].status = "ABSENT"
      /\ \A e \in batch : event'[e].status # "ABSENT"
      /\ \A e \in Events : event'[e].status \in {"PROCESSED", "FAILED"} => event'[e] = event[e]
  BY <1>1
<1>6. Advanced(w)'
  BY <1>1, <1>3 DEF Advanced, IInv, OutboxTypeOK
<1>7. ProcessedHandedOver' /\ FailedAfterAttempts'
  BY <1>1, <1>2, <1>5, FinishedStay
<1>8. UNCHANGED <<steady, active>>
  BY <1>1 DEF deliveryVars
<1>9. QED
  BY <1>1, <1>2, <1>3, <1>4, <1>5, <1>6, <1>7, <1>8, WorkerStep

LEMMA BeginStep ==
    ASSUME OutboxAssumption, IInv, NEW w \in Workers, Begin(w)
    PROVE  IInv'
<1>1. PICK e \in worker[w].batch :
          /\ worker' = [worker EXCEPT ![w] = [batch |-> worker[w].batch \ {e}, current |-> e,
                                              todo |-> active, open |-> None, threw |-> FALSE]]
          /\ UNCHANGED <<event, steady, deliveryVars>>
  BY DEF Begin
<1>2. worker[w] \in Worker /\ active \subseteq Endpoints /\ e \in Events
  BY DEF IInv, OutboxTypeOK, DInv, DeliveryTypeOK, Worker
<1>3. e # None /\ [batch |-> worker[w].batch \ {e}, current |-> e, todo |-> active, open |-> None,
                    threw |-> FALSE] \in Worker
  BY <1>2 DEF Worker, OutboxAssumption
<1>4. DInv' /\ Kept
  BY <1>1, <1>2, SameDeliveries DEF IInv, deliveryVars
<1>5. Advanced(w)'
  <2>1. steady[e] \subseteq active
    BY <1>2 DEF IInv, Committed
  <2>2. /\ worker'[w].current = e /\ worker'[w].todo = active /\ worker'[w].open = None
        /\ steady' = steady
    BY <1>1 DEF IInv, OutboxTypeOK
  <2>3. QED
    BY <2>1, <2>2 DEF Advanced
<1>6. UNCHANGED <<event, steady, active>>
  BY <1>1 DEF deliveryVars
<1>7. QED
  BY <1>1, <1>3, <1>4, <1>5, <1>6, WorkerOnlyStep

LEMMA PersistStep ==
    ASSUME DeliveryAssumption, OutboxAssumption, IInv, NEW w \in Workers, Persist(w)
    PROVE  IInv'
<1>1. worker[w] \in Worker
  BY DEF IInv, OutboxTypeOK
<1>2. PICK e \in Events, ep \in worker[w].todo :
          /\ worker[w].current = e /\ worker[w].open = None
          /\ CreatePending(<<e, ep>>)
          /\ worker' = [worker EXCEPT ![w] = [batch |-> worker[w].batch, current |-> e,
                                              todo |-> worker[w].todo \ {ep}, open |-> ep,
                                              threw |-> FALSE]]
          /\ UNCHANGED <<event, steady, active, job, run, notice, replay, received, ended>>
  BY <1>1 DEF Persist, Worker
<1>3. ep \in Endpoints /\ <<e, ep>> \in Deliveries
  BY <1>1 DEF Worker, Deliveries
<1>4. [batch |-> worker[w].batch, current |-> e, todo |-> worker[w].todo \ {ep}, open |-> ep,
       threw |-> FALSE] \in Worker
  BY <1>1, <1>3 DEF Worker
<1> e # None
  BY DEF OutboxAssumption
<1>5. DInv' /\ Kept /\ delivery'[<<e, ep>>].status # "ABSENT"
  BY <1>2, <1>3, CreatePendingKeeps DEF IInv
<1>6. Advanced(w)'
  <2>1. /\ worker'[w].current = e /\ worker'[w].todo = worker[w].todo \ {ep}
        /\ worker'[w].open = ep
        /\ steady' = steady
    BY <1>2 DEF IInv, OutboxTypeOK
  <2>2. ASSUME NEW c \in steady[e] \ worker'[w].todo, c # ep, ~ worker'[w].threw
        PROVE  HandedOver(<<e, c>>)'
    <3>1. c \in Endpoints /\ c # None /\ c \notin worker[w].todo
      BY <2>1, <2>2 DEF IInv, OutboxTypeOK, OutboxAssumption
    <3>2. ~ worker[w].threw
      BY <1>2 DEF IInv, Committed
    <3>3. HandedOver(<<e, c>>)
      BY <1>2, <2>2, <3>1, <3>2 DEF IInv, Progress, Advanced, OutboxAssumption
    <3>4. QED
      BY <1>5, <3>1, <3>3 DEF Kept, Deliveries
  <2>3. QED
    BY <1>5, <2>1, <2>2 DEF Advanced
<1>7. QED
  BY <1>2, <1>4, <1>5, <1>6, WorkerOnlyStep

LEMMA HandOverStep ==
    ASSUME DeliveryAssumption, OutboxAssumption, IInv, NEW w \in Workers, HandOver(w)
    PROVE  IInv'
<1>1. worker[w] \in Worker /\ ~ worker[w].threw
  BY DEF IInv, OutboxTypeOK, Committed, HandOver
<1>2. worker[w].current # None
  BY DEF HandOver, IInv, Committed
<1>3. QED
  <2>1. PICK e \in Events, ep \in Endpoints : e = worker[w].current /\ ep = worker[w].open
    BY <1>1, <1>2 DEF HandOver, Worker
  <2>2. /\ AddJob(<<e, ep>>)
        /\ worker' = [worker EXCEPT ![w] = [worker[w] EXCEPT !.open = None]]
        /\ UNCHANGED <<event, steady, active, delivery, run, notice, replay, received, ended>>
    BY <2>1 DEF HandOver
  <2>3. <<e, ep>> \in Deliveries
    BY DEF Deliveries
  <2>4. DInv' /\ Kept /\ job'[<<e, ep>>].state # "none"
    BY <2>2, <2>3, AddJobIsSafe DEF IInv
  <2>5. /\ [worker[w] EXCEPT !.open = None] \in Worker
        /\ [worker[w] EXCEPT !.open = None].batch = worker[w].batch
        /\ [worker[w] EXCEPT !.open = None].current = e
        /\ [worker[w] EXCEPT !.open = None].todo = worker[w].todo
        /\ [worker[w] EXCEPT !.open = None].open = None
        /\ ~ [worker[w] EXCEPT !.open = None].threw
    BY <1>1, <2>1 DEF Worker
  <2>6. Advanced(w)'
    <3>1. worker'[w] = [worker[w] EXCEPT !.open = None] /\ steady' = steady
      BY <2>2 DEF IInv, OutboxTypeOK
    <3>2. ASSUME NEW c \in steady[e] \ worker[w].todo
          PROVE  HandedOver(<<e, c>>)'
      <4>1. CASE c = ep
        BY <1>1, <1>2, <2>1, <2>2, <2>4, <4>1 DEF IInv, Progress, Advanced, HandedOver, HandOver
      <4>2. CASE c # ep
        <5>1. HandedOver(<<e, c>>) /\ c \in Endpoints
          BY <1>1, <1>2, <2>1, <4>2 DEF IInv, Progress, Advanced, OutboxTypeOK
        <5>2. QED
          BY <2>4, <5>1 DEF Kept, Deliveries
      <4>3. QED
        BY <4>1, <4>2
    <3>3. QED
      BY <2>5, <3>1, <3>2 DEF Advanced
  <2>7. QED
    BY <2>1, <2>2, <2>4, <2>5, <2>6, WorkerOnlyStep

LEMMA ThrowStep ==
    ASSUME DeliveryAssumption, OutboxAssumption, IInv, NEW w \in Workers, Throw(w)
    PROVE  IInv'
<1>1. worker[w] \in Worker /\ worker[w].current # None
  BY DEF IInv, OutboxTypeOK, Throw
<1>2. PICK e \in Events : e = worker[w].current
  BY <1>1 DEF Worker
<1> DEFINE x == [batch |-> worker[w].batch, current |-> e, todo |-> {}, open |-> None, threw |-> TRUE]
<1>3. /\ worker' = [worker EXCEPT ![w] = x]
      /\ UNCHANGED job \/ (worker[w].open # None /\ AddJob(<<e, worker[w].open>>))
      /\ UNCHANGED <<event, steady, active, delivery, run, notice, replay, received, ended>>
  BY <1>2 DEF Throw
<1>4. x \in Worker
  BY <1>1 DEF Worker
<1>5. DInv' /\ Kept
  <2>1. CASE UNCHANGED job
    BY <1>3, <2>1, SameDeliveries DEF IInv, DInv, DeliveryTypeOK
  <2>2. CASE worker[w].open # None /\ AddJob(<<e, worker[w].open>>)
    <3>1. PICK ep \in Endpoints : ep = worker[w].open
      BY <1>1, <2>2 DEF Worker
    <3>2. <<e, ep>> \in Deliveries /\ AddJob(<<e, ep>>)
      BY <2>2, <3>1 DEF Deliveries
    <3>3. QED
      BY <1>3, <3>2, AddJobIsSafe DEF IInv
  <2>3. QED
    BY <1>3, <2>1, <2>2
<1>6. Advanced(w)'
  BY <1>3 DEF Advanced, IInv, OutboxTypeOK
<1>7. QED
  BY <1>1, <1>2, <1>3, <1>4, <1>5, <1>6, WorkerOnlyStep

(* The fence: what a worker writes goes to a row it still owns, or nowhere. *)
LEMMA SettledRow ==
    ASSUME OutboxTypeOK, NEW w \in Workers, NEW e \in Events,
           NEW status \in {"PROCESSED", "RETRY", "FAILED"},
           event' = [event EXCEPT ![e] = Settled(w, e, status)]
    PROVE  /\ event' \in [Events -> Event]
           /\ \A c \in Events \ {e} : event'[c] = event[c]
           /\ \/ event' = event
              \/ /\ event[e].status = "PROCESSING"
                 /\ event'[e].status = status
                 /\ event'[e].attempts = event[e].attempts
<1>1. event[e] \in Event
  BY DEF OutboxTypeOK
<1>2. CASE Owns(w, e)
  <2>1. /\ event'[e] = [status |-> status, attempts |-> event[e].attempts,
                         lockedBy |-> None, stale |-> FALSE]
        /\ event[e].status = "PROCESSING"
    BY <1>2 DEF Settled, Owns, OutboxTypeOK
  <2>2. event'[e] \in Event
    <3>1. event[e].attempts \in Nat /\ None \in Workers \cup {None} /\ FALSE \in BOOLEAN
      BY <1>1 DEF Event
    <3>2. [status |-> status, attempts |-> event[e].attempts, lockedBy |-> None,
           stale |-> FALSE] \in Event
      BY <3>1 DEF Event
    <3>3. QED
      BY <2>1, <3>2
  <2>3. QED
    BY <2>1, <2>2 DEF OutboxTypeOK
<1>3. CASE ~ Owns(w, e)
  BY <1>3 DEF Settled, OutboxTypeOK
<1>4. QED
  BY <1>2, <1>3

LEMMA MarkProcessedStep ==
    ASSUME OutboxAssumption, IInv, NEW w \in Workers, MarkProcessed(w)
    PROVE  IInv'
<1>1. worker[w] \in Worker /\ OutboxTypeOK
  BY DEF IInv, OutboxTypeOK
<1>2. PICK e \in Events : e = worker[w].current
  BY <1>1 DEF MarkProcessed, Worker
<1>3. PICK x \in Worker :
          /\ worker' = [worker EXCEPT ![w] = x]
          /\ x.batch = worker[w].batch
          /\ x.todo = {} /\ x.open = None
          /\ x.current = None \/ (x.current = e /\ x.threw)
  <2>1. /\ [worker[w] EXCEPT !.current = None] \in Worker
        /\ [worker[w] EXCEPT !.threw = TRUE] \in Worker
    BY <1>1 DEF Worker
  <2>2. worker[w].todo = {} /\ worker[w].open = None
    BY DEF MarkProcessed
  <2>3. CASE worker' = [worker EXCEPT ![w] = [worker[w] EXCEPT !.current = None]]
    BY <1>1, <2>1, <2>2, <2>3 DEF Worker
  <2>4. CASE worker' = [worker EXCEPT ![w] = [worker[w] EXCEPT !.threw = TRUE]]
    BY <1>1, <1>2, <2>1, <2>2, <2>4 DEF Worker
  <2>5. QED
    BY <1>2, <2>3, <2>4 DEF MarkProcessed
<1>4. event' = [event EXCEPT ![e] = Settled(w, e, "PROCESSED")] /\ UNCHANGED <<steady, deliveryVars>>
  BY <1>2 DEF MarkProcessed
<1>5. DInv' /\ Kept
  BY <1>4, SameDeliveries DEF IInv, DInv, DeliveryTypeOK, deliveryVars
<1>6. /\ event' \in [Events -> Event]
      /\ \A c \in Events \ {e} : event'[c] = event[c]
      /\ \/ event' = event
         \/ event[e].status = "PROCESSING" /\ event'[e].status = "PROCESSED"
  BY <1>1, <1>4, SettledRow
<1>7. ProcessedHandedOver' /\ FailedAfterAttempts'
  <2>1. CASE event' = event
    BY <1>4, <1>5, <2>1, FinishedStay
  <2>2. CASE event[e].status = "PROCESSING" /\ event'[e].status = "PROCESSED"
    <3>1. FailedAfterAttempts'
      BY <1>6, <2>2 DEF IInv, FailedAfterAttempts
    <3>2. ASSUME NEW c \in Events, event'[c].status = "PROCESSED", NEW ep \in steady[c]
          PROVE  HandedOver(<<c, ep>>)
      <4>1. ep \in Endpoints /\ ep # None
        BY DEF IInv, OutboxTypeOK, OutboxAssumption
      <4>2. CASE c = e
        BY <1>1, <1>2, <4>1, <4>2 DEF MarkProcessed, IInv, Progress, Advanced
      <4>3. CASE c # e
        BY <1>6, <3>2, <4>3 DEF IInv, ProcessedHandedOver
      <4>4. QED
        BY <4>2, <4>3
    <3>3. ASSUME NEW c \in Events, event'[c].status = "PROCESSED", NEW ep \in steady'[c]
          PROVE  HandedOver(<<c, ep>>)'
      <4>1. HandedOver(<<c, ep>>) /\ ep \in Endpoints
        BY <1>4, <3>2, <3>3 DEF IInv, OutboxTypeOK
      <4>2. QED
        BY <1>5, <4>1 DEF Kept, Deliveries
    <3>4. QED
      BY <3>1, <3>3 DEF ProcessedHandedOver
  <2>3. QED
    BY <1>6, <2>1, <2>2
<1>8. Advanced(w)'
  BY <1>3 DEF Advanced, IInv, OutboxTypeOK
<1>9. /\ \A c \in Events : event'[c].status = "ABSENT" => event[c].status = "ABSENT"
      /\ UNCHANGED <<steady, active>>
  BY <1>4, <1>6 DEF deliveryVars
<1>10. /\ \A c \in x.batch : event'[c].status # "ABSENT"
       /\ x.current # None => event'[x.current].status # "ABSENT"
  BY <1>1, <1>2, <1>3, <1>9 DEF IInv, Committed, Worker
<1>11. QED
  BY <1>3, <1>5, <1>6, <1>7, <1>8, <1>9, <1>10, WorkerStep

LEMMA MarkErrorStep ==
    ASSUME OutboxAssumption, IInv, NEW w \in Workers, MarkError(w)
    PROVE  IInv'
<1>1. worker[w] \in Worker /\ OutboxTypeOK
  BY DEF IInv, OutboxTypeOK
<1>2. PICK e \in Events : e = worker[w].current
  BY <1>1 DEF MarkError, Worker
<1>3. PICK x \in Worker :
          /\ worker' = [worker EXCEPT ![w] = x]
          /\ x.batch = worker[w].batch /\ x.current = None /\ x.todo = {} /\ x.open = None
  <2>1. [IdleWorker EXCEPT !.batch = worker[w].batch] \in Worker
    BY <1>1 DEF IdleWorker, Worker
  <2>2. QED
    BY <2>1 DEF MarkError, IdleWorker
<1>4. /\ event' = [event EXCEPT ![e] = Settled(w, e, StatusAfterError(e))]
      /\ UNCHANGED <<steady, deliveryVars>>
  BY <1>2 DEF MarkError
<1>5. DInv' /\ Kept
  BY <1>4, SameDeliveries DEF IInv, DInv, DeliveryTypeOK, deliveryVars
<1>6. /\ event' \in [Events -> Event]
      /\ \A c \in Events \ {e} : event'[c] = event[c]
      /\ \/ event' = event
         \/ /\ event[e].status = "PROCESSING"
            /\ event'[e].status = StatusAfterError(e)
            /\ event'[e].attempts = event[e].attempts
  <2>1. StatusAfterError(e) \in {"PROCESSED", "RETRY", "FAILED"}
    BY DEF StatusAfterError
  <2>2. QED
    BY <1>1, <1>4, <2>1, SettledRow
<1>7. ProcessedHandedOver' /\ FailedAfterAttempts'
  <2>1. FailedAfterAttempts'
    BY <1>6 DEF StatusAfterError, IInv, FailedAfterAttempts
  <2>2. \A c \in Events : event'[c].status = "PROCESSED" => event[c].status = "PROCESSED"
    BY <1>6 DEF StatusAfterError
  <2>3. ASSUME NEW c \in Events, event'[c].status = "PROCESSED", NEW ep \in steady'[c]
        PROVE  HandedOver(<<c, ep>>)'
    <3>1. HandedOver(<<c, ep>>) /\ ep \in Endpoints
      BY <1>4, <2>2, <2>3 DEF IInv, OutboxTypeOK, ProcessedHandedOver
    <3>2. QED
      BY <1>5, <3>1 DEF Kept, Deliveries
  <2>4. QED
    BY <2>1, <2>3 DEF ProcessedHandedOver
<1>8. Advanced(w)'
  BY <1>3 DEF Advanced, IInv, OutboxTypeOK
<1>9. /\ \A c \in Events : event'[c].status = "ABSENT" => event[c].status = "ABSENT"
      /\ UNCHANGED <<steady, active>>
  BY <1>4, <1>6 DEF deliveryVars, StatusAfterError
<1>10. \A c \in x.batch : event'[c].status # "ABSENT"
  BY <1>1, <1>3, <1>9 DEF IInv, Committed, Worker
<1>11. QED
  BY <1>3, <1>5, <1>6, <1>7, <1>8, <1>9, <1>10, WorkerStep

LEMMA CrashStep ==
    ASSUME OutboxAssumption, IInv, NEW w \in Workers, CrashWorker(w)
    PROVE  IInv'
<1>1. worker' = [worker EXCEPT ![w] = IdleWorker] /\ UNCHANGED <<event, steady, deliveryVars>>
  BY DEF CrashWorker
<1>2. /\ IdleWorker \in Worker
      /\ IdleWorker.batch = {} /\ IdleWorker.current = None
      /\ IdleWorker.todo = {} /\ IdleWorker.open = None
  BY DEF IdleWorker, Worker
<1>3. DInv' /\ Kept /\ active' = active
  BY <1>1, SameDeliveries DEF IInv, DInv, DeliveryTypeOK, deliveryVars
<1>4. Advanced(w)'
  BY <1>1, <1>2 DEF Advanced, IInv, OutboxTypeOK
<1>5. QED
  BY <1>1, <1>2, <1>3, <1>4, WorkerOnlyStep

LEMMA LockExpiresStep ==
    ASSUME OutboxAssumption, IInv, NEW e \in Events, LockExpires(e)
    PROVE  IInv'
<1>1. /\ event' = [event EXCEPT ![e] = [event[e] EXCEPT !.stale = TRUE]]
      /\ UNCHANGED <<worker, steady, deliveryVars>>
  BY DEF LockExpires
<1>2. /\ event' \in [Events -> Event]
      /\ \A c \in Events : /\ event'[c].status = event[c].status
                           /\ event'[c].attempts = event[c].attempts
  BY <1>1 DEF IInv, OutboxTypeOK, Event
<1>3. DInv' /\ Kept
  BY <1>1, SameDeliveries DEF IInv, DInv, DeliveryTypeOK, deliveryVars
<1>4. OutboxTypeOK' /\ FailedAfterAttempts'
  BY <1>1, <1>2 DEF IInv, OutboxTypeOK, FailedAfterAttempts
<1>5. Committed'
  BY <1>1, <1>2 DEF IInv, OutboxTypeOK, Committed, Worker, deliveryVars
<1>6. Progress'
  BY <1>1, <1>3, OthersAdvanced DEF Progress
<1>7. ProcessedHandedOver'
  <2>1. ASSUME NEW c \in Events, event'[c].status = "PROCESSED", NEW ep \in steady'[c]
        PROVE  HandedOver(<<c, ep>>)'
    <3>1. HandedOver(<<c, ep>>) /\ ep \in Endpoints
      BY <1>1, <1>2, <2>1 DEF IInv, OutboxTypeOK, ProcessedHandedOver
    <3>2. QED
      BY <1>3, <3>1 DEF Kept, Deliveries
  <2>2. QED
    BY <2>1 DEF ProcessedHandedOver
<1>8. QED
  BY <1>3, <1>4, <1>5, <1>6, <1>7 DEF IInv

-------------------------------------------------------------------------------
LEMMA StepIInv ==
    ASSUME DeliveryAssumption, OutboxAssumption, IInv, Next
    PROVE  IInv'
<1>1. CASE OutboxStep
  BY <1>1, EnqueueStep, LockExpiresStep, EndpointStep, ClaimBatchStep, BeginStep, PersistStep,
     HandOverStep, MarkProcessedStep, MarkErrorStep, ThrowStep, CrashStep
     DEF OutboxStep, WorkerAdvances
<1>2. CASE DeliveryStep /\ UNCHANGED outboxVars
  <2>1. DInv' /\ Kept
    BY <1>2, DeliverySteps, MovesKeeps DEF IInv
  <2>2. active' = active
    BY <1>2 DEF DeliveryStep, JobStep, Skip, Stall, Evict, RunStep, Take, Post, Succeed, Fail,
                Crash, HandleFailed, ReplayStep, ReplayRead, ReplayLookAtJob, ReplayMark,
                ReplayAdd, ReplayRefused, ReplayRestore, ReplayAbort
  <2>3. QED
    BY <1>2, <2>1, <2>2, DeliveryStepIInv
<1>3. QED
  BY <1>1, <1>2 DEF Next

LEMMA StutterIInv ==
    ASSUME DeliveryAssumption, OutboxAssumption, IInv, UNCHANGED vars
    PROVE  IInv'
<1>1. DInv' /\ Kept
  BY SameDeliveries DEF IInv, DInv, DeliveryTypeOK, vars, deliveryVars
<1>2. UNCHANGED outboxVars /\ active' = active
  BY DEF vars, outboxVars, deliveryVars
<1>3. QED
  BY <1>1, <1>2, DeliveryStepIInv

(* The inductive invariant, from which the theorems below follow.          *)
THEOREM Invariant == Spec => []IInv
<1>1. Init => IInv
  BY InitIInv, DeliveryAssumption, OutboxAssumption
<1>2. IInv /\ [Next]_vars => IInv'
  BY StepIInv, StutterIInv, DeliveryAssumption, OutboxAssumption
<1>3. QED
  BY <1>1, <1>2, PTL DEF Spec

(* Every variable keeps its shape: a job is never taken again after its    *)
(* last attempt, whoever crashed, stalled or replayed it.                  *)
THEOREM TypeCorrect == Spec => []TypeOK
<1>1. IInv => TypeOK
  BY DEF IInv, DInv, OutboxTypeOK, TypeOK
<1>2. QED
  BY <1>1, Invariant, PTL

(* A delivery is given up only after all its attempts.                     *)
THEOREM GivenUpExhausted == Spec => []FailedExhausted
<1>1. IInv => FailedExhausted
  BY DEF IInv, DInv
<1>2. QED
  BY <1>1, Invariant, PTL

(* A delivery shown as SUCCESS has reached its destination.                *)
THEOREM SuccessIsReceived == Spec => []SuccessReceived
<1>1. IInv => SuccessReceived
  BY DEF IInv, DInv
<1>2. QED
  BY <1>1, Invariant, PTL

(* A PROCESSED event has been handed over to every endpoint that was       *)
(* active since its commit, whatever workers lost their locks or crashed.  *)
THEOREM ProcessedIsHandedOver == Spec => []ProcessedHandedOver
<1>1. IInv => ProcessedHandedOver
  BY DEF IInv
<1>2. QED
  BY <1>1, Invariant, PTL

(* An event is given up only after OUTBOX_MAX_ATTEMPTS claims.             *)
THEOREM GivenUpAfterAttempts == Spec => []FailedAfterAttempts
<1>1. IInv => FailedAfterAttempts
  BY DEF IInv
<1>2. QED
  BY <1>1, Invariant, PTL

-------------------------------------------------------------------------------
(* The promise of EventDelivery.  First, what steps do to the deliveries   *)
(* that are handed over: at most one of them becomes so.                   *)
OneHandedOver(d) == Handed' \in {Handed, Handed \cup {d}}

LEMMA MovesHandOver == ASSUME NEW d \in Deliveries, Moves(d) PROVE OneHandedOver(d)
<1>1. \A c \in Deliveries \ {d} : HandedOver(c)' <=> HandedOver(c)
  BY DEF Moves, HandedOver
<1>2. HandedOver(d) => HandedOver(d)'
  BY DEF Moves, HandedOver
<1>3. QED
  BY <1>1, <1>2 DEF Handed, OneHandedOver

(* An abstract step that only hands over.                                  *)
LEMMA HandOverPromised ==
    ASSUME NEW d \in Deliveries, OneHandedOver(d), UNCHANGED <<event, steady>>
    PROVE  [Promise!Next]_<<Facts, steady, Handed>>
<1>1. Facts' = Facts
  BY DEF Facts, Fact
<1>2. CASE Handed' = Handed
  BY <1>1, <1>2
<1>3. CASE Handed' = Handed \cup {d}
  BY <1>1, <1>3 DEF Promise!Next, Promise!HandOver, Deliveries
<1>4. QED
  BY <1>2, <1>3 DEF OneHandedOver

(* Steps that leave the deliveries and their jobs alone.                   *)
LEMMA SameHanded == ASSUME UNCHANGED <<delivery, job, ended>> PROVE Handed' = Handed
  BY DEF Handed, HandedOver

LEMMA InitPromise == ASSUME Init PROVE Promise!Init
<1>1. Facts = [e \in Events |-> "none"]
  BY DEF Init, NoEvent, Facts, Fact
<1>2. Handed = {}
  BY DEF Init, DeliveryInit, Handed, HandedOver
<1>3. QED
  BY <1>1, <1>2 DEF Init, Promise!Init

LEMMA EnqueuePromised ==
    ASSUME IInv, NEW e \in Events, Enqueue(e)
    PROVE  Promise!Next
<1> DEFINE new == [NoEvent EXCEPT !.status = "PENDING"]
<1>1. /\ event[e].status = "ABSENT"
      /\ event' = [event EXCEPT ![e] = new]
      /\ steady' = [steady EXCEPT ![e] = active]
      /\ Handed' = Handed
  BY SameHanded DEF Enqueue, deliveryVars
<1>2. new.status = "PENDING"
  BY DEF NoEvent
<1> HIDE DEF new
<1>3. Facts[e] = "none"
  BY <1>1 DEF Facts, Fact
<1>4. Facts' = [Facts EXCEPT ![e] = "open"]
  BY <1>1, <1>2 DEF Facts, Fact, IInv, OutboxTypeOK
<1>5. active \in SUBSET Endpoints
  BY DEF IInv, DInv, DeliveryTypeOK
<1>6. Promise!Commit(e)
  BY <1>1, <1>3, <1>4, <1>5 DEF Promise!Commit
<1>7. QED
  BY <1>6 DEF Promise!Next

LEMMA EndpointPromised ==
    ASSUME IInv, NEW ep \in Endpoints, Activate(ep) \/ Deactivate(ep)
    PROVE  [Promise!Next]_<<Facts, steady, Handed>>
<1>1. Facts' = Facts /\ Handed' = Handed
  BY SameHanded DEF Activate, Deactivate, Facts, Fact
<1>2. CASE Activate(ep)
  BY <1>1, <1>2 DEF Activate
<1>3. CASE Deactivate(ep)
  BY <1>1, <1>3 DEF Deactivate, Promise!Next, Promise!Deactivate
<1>4. QED
  BY <1>2, <1>3

LEMMA SameFacts ==
    ASSUME \A e \in Events : Fact(event'[e].status) = Fact(event[e].status),
           UNCHANGED <<steady, delivery, job, ended>>
    PROVE  UNCHANGED <<Facts, steady, Handed>>
  BY SameHanded DEF Facts

LEMMA ClaimBatchPromised ==
    ASSUME IInv, NEW w \in Workers, ClaimBatch(w)
    PROVE  UNCHANGED <<Facts, steady, Handed>>
<1>1. PICK batch \in SUBSET {e \in Events : Claimable(e)} :
          /\ event' = [e \in Events |->
                          IF e \in batch
                          THEN [status |-> "PROCESSING", attempts |-> event[e].attempts + 1,
                                lockedBy |-> w, stale |-> FALSE]
                          ELSE event[e]]
          /\ UNCHANGED <<steady, deliveryVars>>
  BY DEF ClaimBatch
<1>2. \A e \in Events : Fact(event'[e].status) = Fact(event[e].status)
  BY <1>1 DEF Claimable, Fact
<1>3. QED
  BY <1>1, <1>2, SameFacts DEF deliveryVars

LEMMA MarkPromised ==
    ASSUME OutboxAssumption, IInv, NEW w \in Workers, MarkProcessed(w) \/ MarkError(w)
    PROVE  [Promise!Next]_<<Facts, steady, Handed>>
<1>1. worker[w] \in Worker /\ OutboxTypeOK
  BY DEF IInv, OutboxTypeOK
<1>2. PICK e \in Events : e = worker[w].current
  BY <1>1 DEF MarkProcessed, MarkError, Worker
<1>3. UNCHANGED <<steady, delivery, job, ended>> /\ Handed' = Handed
  BY SameHanded DEF MarkProcessed, MarkError, deliveryVars
<1>4. PICK status \in {"PROCESSED", "RETRY", "FAILED"} :
          /\ event' = [event EXCEPT ![e] = Settled(w, e, status)]
          /\ status = "PROCESSED" => MarkProcessed(w)
  BY <1>2 DEF MarkProcessed, MarkError, StatusAfterError
<1>5. /\ \A c \in Events \ {e} : event'[c] = event[c]
      /\ \/ event' = event
         \/ event[e].status = "PROCESSING" /\ event'[e].status = status
  BY <1>1, <1>4, SettledRow
<1>6. CASE event' = event
  BY <1>3, <1>6, SameFacts
<1>7. CASE event[e].status = "PROCESSING" /\ event'[e].status = status
  <2>1. Facts[e] = "open" /\ Facts' = [Facts EXCEPT ![e] = Fact(status)]
    BY <1>5, <1>7 DEF Facts, Fact
  <2>2. CASE status = "RETRY"
    BY <1>3, <1>5, <1>7, <2>2, SameFacts DEF Fact
  <2>3. CASE status = "FAILED"
    <3>1. Promise!GiveUp(e)
      BY <1>3, <2>1, <2>3 DEF Promise!GiveUp, Fact
    <3>2. QED
      BY <3>1 DEF Promise!Next
  <2>4. CASE status = "PROCESSED"
    <3>1. ASSUME NEW ep \in steady[e]
          PROVE  <<e, ep>> \in Handed
      <4>1. ep \in Endpoints /\ ep # None /\ e # None
        BY DEF IInv, OutboxTypeOK, OutboxAssumption
      <4>2. HandedOver(<<e, ep>>)
        BY <1>2, <1>4, <2>4, <4>1 DEF MarkProcessed, IInv, Progress, Advanced
      <4>3. QED
        BY <4>1, <4>2 DEF Handed, Deliveries
    <3>2. Promise!Finish(e)
      BY <1>3, <2>1, <2>4, <3>1 DEF Promise!Finish, Fact
    <3>3. QED
      BY <3>2 DEF Promise!Next
  <2>5. QED
    BY <2>2, <2>3, <2>4
<1>8. QED
  BY <1>5, <1>6, <1>7

(* The steps of a worker that touch deliveries.                            *)
LEMMA HandlingPromised ==
    ASSUME DeliveryAssumption, OutboxAssumption, IInv, NEW w \in Workers,
           Persist(w) \/ HandOver(w) \/ Throw(w)
    PROVE  [Promise!Next]_<<Facts, steady, Handed>>
<1>1. worker[w] \in Worker
  BY DEF IInv, OutboxTypeOK
<1>2. UNCHANGED <<event, steady>>
  BY DEF Persist, HandOver, Throw
<1>3. CASE UNCHANGED <<delivery, job, ended>>
  BY <1>2, <1>3, SameFacts
<1>4. CASE Persist(w)
  <2>1. PICK e \in Events, ep \in Endpoints :
            CreatePending(<<e, ep>>) /\ UNCHANGED <<job, ended>>
    BY <1>1, <1>4 DEF Persist, Worker
  <2>2. PICK d \in Deliveries : d = <<e, ep>>
    BY DEF Deliveries
  <2>3. Moves(d)
    BY <2>1, <2>2 DEF CreatePending, Moves, IInv, DInv, DeliveryTypeOK
  <2>4. QED
    BY <1>2, <2>3, MovesHandOver, HandOverPromised
<1>5. CASE worker[w].current # None /\ worker[w].open # None
           /\ AddJob(<<worker[w].current, worker[w].open>>)
           /\ UNCHANGED <<delivery, ended>>
  <2>1. PICK d \in Deliveries : d = <<worker[w].current, worker[w].open>>
    BY <1>1, <1>5 DEF Worker, Deliveries
  <2>2. Moves(d)
    BY <1>5, <2>1, AddJobKeeps DEF IInv
  <2>3. QED
    BY <1>2, <2>2, MovesHandOver, HandOverPromised
<1>6. QED
  BY <1>3, <1>4, <1>5 DEF HandOver, Throw, IInv, Committed

LEMMA StepPromised ==
    ASSUME DeliveryAssumption, OutboxAssumption, IInv, Next
    PROVE  [Promise!Next]_<<Facts, steady, Handed>>
<1>1. ASSUME NEW e \in Events, LockExpires(e)
      PROVE  UNCHANGED <<Facts, steady, Handed>>
  <2>1. event' = [event EXCEPT ![e] = [event[e] EXCEPT !.stale = TRUE]]
    BY <1>1 DEF LockExpires
  <2>2. \A c \in Events : event'[c].status = event[c].status
    BY <2>1 DEF IInv, OutboxTypeOK, Event
  <2>3. QED
    BY <1>1, <2>2, SameFacts DEF LockExpires, deliveryVars
<1>2. ASSUME NEW w \in Workers, Begin(w) \/ CrashWorker(w)
      PROVE  UNCHANGED <<Facts, steady, Handed>>
  BY <1>2, SameFacts DEF Begin, CrashWorker, deliveryVars
<1>3. CASE OutboxStep
  BY <1>1, <1>2, <1>3, EnqueuePromised, EndpointPromised, ClaimBatchPromised, MarkPromised,
     HandlingPromised DEF OutboxStep, WorkerAdvances
<1>4. CASE DeliveryStep /\ UNCHANGED outboxVars
  <2>1. PICK d \in Deliveries : Moves(d)
    BY <1>4, DeliverySteps DEF IInv
  <2>2. QED
    BY <1>4, <2>1, MovesHandOver, HandOverPromised DEF outboxVars
<1>5. QED
  BY <1>3, <1>4 DEF Next

(* The outbox and its deliveries implement the promise of EventDelivery:   *)
(* an event is done only when it has been handed over to everyone it is    *)
(* owed to, and both of its ends are final.                                *)
THEOREM PromiseKept == Spec => PromiseSpec
<1>1. Init => Promise!Init
  BY InitPromise
<1>2. IInv /\ [Next]_vars => [Promise!Next]_<<Facts, steady, Handed>>
  <2>1. ASSUME IInv, Next
        PROVE  [Promise!Next]_<<Facts, steady, Handed>>
    BY <2>1, StepPromised, DeliveryAssumption, OutboxAssumption
  <2>2. ASSUME UNCHANGED vars
        PROVE  UNCHANGED <<Facts, steady, Handed>>
    BY <2>2, SameFacts DEF vars, deliveryVars
  <2>3. QED
    BY <2>1, <2>2
<1>3. QED
  BY <1>1, <1>2, Invariant, PTL DEF Spec, PromiseSpec, Promise!Spec, Promise!vars
===============================================================================
