---------------------------- MODULE WebhookDelivery ----------------------------
(***************************************************************************)
(* Webhook deliveries: WebhookDelivery rows, the BullMQ job that posts     *)
(* each of them (webhook.processor.ts), the handler of its failures, which *)
(* runs outside the job, and the replay an operator asks for               *)
(* (webhook.service.ts).  Who creates deliveries is left to the module     *)
(* that extends this one.                                                  *)
(*                                                                         *)
(* Left out: the dead-letter job of a final failure (nothing here reads    *)
(* it), payloads and signatures, changes of an endpoint's URL, and the     *)
(* deletion of endpoints, which takes their deliveries along.              *)
(***************************************************************************)
EXTENDS Naturals, FiniteSets

CONSTANTS
    Events,        \* outbox events; a smaller number has an older createdAt
    Endpoints,     \* webhook endpoints of the organisation, all subscribed
    Runs,          \* executions of the job handler at the same time
    Replays,       \* replay requests at the same time
    JobAttempts,   \* "attempts" of webhook jobs
    None

(* idempotencyKey "outbox:<event>:endpoint:<endpoint>", one row for each.  *)
Deliveries == Events \X Endpoints
EndpointOf(d) == d[2]

ASSUME DeliveryAssumption ==
    /\ Events \subseteq Nat
    /\ JobAttempts \in Nat \ {0}
    /\ None \notin Deliveries
    /\ None \notin Runs

VARIABLES
    active,     \* endpoints with active = true
    delivery,   \* the WebhookDelivery rows
    job,        \* BullMQ job webhook-dispatch-<delivery>
    run,        \* executions of the job handler
    notice,     \* "failed" events whose handler has not written yet
    replay,     \* replayFailedDelivery calls
    received,   \* deliveries their destination has got (external)
    ended       \* deliveries of which a job came to an end (history)

deliveryVars == <<active, delivery, job, run, notice, replay, received, ended>>

Delivery == [status : {"ABSENT", "PENDING", "SUCCESS", "FAILED"}, attempts : 0 .. JobAttempts]
Job == [state : {"none", "waiting", "active", "failed"}, made : 0 .. JobAttempts,
        holder : Runs \cup {None}]
Run == [phase : {"idle", "posting", "ok", "error"}, of : Deliveries \cup {None},
        attempt : 0 .. JobAttempts]
Notice == [of : Deliveries, attempts : 0 .. JobAttempts]
Replay == [phase : {"idle", "read", "clear", "marked", "refused", "requested"},
           of : Deliveries \cup {None}, attempts : 0 .. JobAttempts]

NoJob      == [state |-> "none", made |-> 0, holder |-> None]
IdleRun    == [phase |-> "idle", of |-> None, attempt |-> 0]
IdleReplay == [phase |-> "idle", of |-> None, attempts |-> 0]

DeliveryTypeOK ==
    /\ active \subseteq Endpoints
    /\ delivery \in [Deliveries -> Delivery]
    /\ job \in [Deliveries -> Job]
    /\ run \in [Runs -> Run]
    /\ notice \subseteq Notice
    /\ replay \in [Replays -> Replay]
    /\ received \subseteq Deliveries
    /\ ended \subseteq Deliveries

DeliveryInit ==
    /\ active \in SUBSET Endpoints
    /\ delivery = [d \in Deliveries |-> [status |-> "ABSENT", attempts |-> 0]]
    /\ job = [d \in Deliveries |-> NoJob]
    /\ run = [r \in Runs |-> IdleRun]
    /\ notice = {}
    /\ replay = [p \in Replays |-> IdleReplay]
    /\ received = {}
    /\ ended = {}

-------------------------------------------------------------------------------
(* createPendingDelivery: an upsert that changes nothing when the row is   *)
(* there.                                                                  *)
CreatePending(d) ==
    delivery' = IF delivery[d].status = "ABSENT"
                THEN [delivery EXCEPT ![d] = [status |-> "PENDING", attempts |-> 0]]
                ELSE delivery

(* addJob: a job id that exists, in any state, makes it a no-op; a failed  *)
(* job is kept (removeOnFail).                                             *)
AddJob(d) ==
    job' = IF job[d].state = "none"
           THEN [job EXCEPT ![d] = [state |-> "waiting", made |-> 0, holder |-> None]]
           ELSE job

(* markDeliveryAttempt updates by id alone.                                *)
Marked(d, status, attempts) ==
    [delivery EXCEPT ![d] = [status |-> status, attempts |-> attempts]]

-------------------------------------------------------------------------------
(* A worker takes the job and loads delivery and endpoint; an inactive     *)
(* endpoint ends the job without a write.                                  *)
Take(r, d) ==
    /\ run[r].phase = "idle"
    /\ job[d].state = "waiting"
    /\ EndpointOf(d) \in active
    /\ job' = [job EXCEPT ![d] = [state |-> "active", made |-> job[d].made, holder |-> r]]
    /\ run' = [run EXCEPT ![r] = [phase |-> "posting", of |-> d, attempt |-> job[d].made + 1]]
    /\ UNCHANGED <<active, delivery, notice, replay, received, ended>>

Skip(d) ==
    /\ job[d].state = "waiting"
    /\ EndpointOf(d) \notin active
    /\ job' = [job EXCEPT ![d] = NoJob]
    /\ ended' = ended \cup {d}
    /\ UNCHANGED <<active, delivery, run, notice, replay, received>>

(* Mutation: the answer's status is not looked at.                         *)
PostUnchecked(r) ==
    /\ run[r].phase = "posting"
    /\ run' = [run EXCEPT ![r].phase = "ok"]
    /\ received' \in {received, received \cup {run[r].of}}
    /\ UNCHANGED <<active, delivery, job, notice, replay, ended>>

(* fetch with a timeout of 15 s; the status of the row is not checked      *)
(* first.  An error may hide a delivery that arrived, and writing SUCCESS  *)
(* may fail after one that did.                                            *)
Post(r) ==
    /\ run[r].phase = "posting"
    /\ \/ /\ run' = [run EXCEPT ![r].phase = "ok"]
          /\ received' = received \cup {run[r].of}
       \/ /\ run' = [run EXCEPT ![r].phase = "error"]
          /\ received' \in {received, received \cup {run[r].of}}
    /\ UNCHANGED <<active, delivery, job, notice, replay, ended>>

(* BullMQ lets only the worker that holds the job finish it.               *)
Holds(r) == job[run[r].of].holder = r

(* SUCCESS is written, then the job completes and is removed, unless the   *)
(* process stops in between, the job went to somebody else, or the write   *)
(* throws although it was applied.                                         *)
Succeed(r) ==
    LET d == run[r].of
    IN  /\ run[r].phase = "ok"
        /\ delivery' = Marked(d, "SUCCESS", run[r].attempt)
        /\ \/ /\ Holds(r)
              /\ job' = [job EXCEPT ![d] = NoJob]
              /\ ended' = ended \cup {d}
              /\ run' = [run EXCEPT ![r] = IdleRun]
           \/ /\ run' \in {[run EXCEPT ![r] = IdleRun], [run EXCEPT ![r].phase = "error"]}
              /\ UNCHANGED <<job, ended>>
        /\ UNCHANGED <<active, notice, replay, received>>

(* Mutation: the limit on attempts is forgotten.                           *)
AfterFailureNoLimit(made) == [state |-> "waiting", made |-> made, holder |-> None]

AfterFailure(made) ==
    [state |-> IF made >= JobAttempts THEN "failed" ELSE "waiting", made |-> made, holder |-> None]

(* The handler threw: BullMQ counts the attempt and emits "failed".        *)
Fail(r) ==
    LET d == run[r].of
    IN  /\ run[r].phase = "error"
        /\ run' = [run EXCEPT ![r] = IdleRun]
        /\ \/ /\ Holds(r)
              /\ job' = [job EXCEPT ![d] = AfterFailure(run[r].attempt)]
              /\ notice' = notice \cup {[of |-> d, attempts |-> run[r].attempt]}
           \/ ~ Holds(r) /\ UNCHANGED <<job, notice>>
        /\ UNCHANGED <<active, delivery, replay, received, ended>>

(* The process of a run stops.                                             *)
Crash(r) ==
    /\ run[r].phase # "idle"
    /\ run' = [run EXCEPT ![r] = IdleRun]
    /\ UNCHANGED <<active, delivery, job, notice, replay, received, ended>>

(* The lock of an active job was not renewed: it is handed out again, or   *)
(* fails with the attempts it has made (maxStalledCount).                  *)
Stall(d) ==
    /\ job[d].state = "active"
    /\ \/ /\ job' = [job EXCEPT ![d] = [state |-> "waiting", made |-> job[d].made, holder |-> None]]
          /\ UNCHANGED notice
       \/ /\ job' = [job EXCEPT ![d] = [state |-> "failed", made |-> job[d].made, holder |-> None]]
          /\ \E n \in {job[d].made, job[d].made + 1} :
                notice' = notice \cup {[of |-> d, attempts |-> n]}
    /\ UNCHANGED <<active, delivery, run, replay, received, ended>>

(* More than 2000 failed jobs: the oldest are removed.                     *)
Evict(d) ==
    /\ job[d].state = "failed"
    /\ job' = [job EXCEPT ![d] = NoJob]
    /\ ended' = ended \cup {d}
    /\ UNCHANGED <<active, delivery, run, notice, replay, received>>

(* Mutation: one attempt too early.                                        *)
StatusAfterFailureEarly(attempts) == IF attempts + 1 >= JobAttempts THEN "FAILED" ELSE "PENDING"

StatusAfterFailure(attempts) == IF attempts >= JobAttempts THEN "FAILED" ELSE "PENDING"

(* handleFailedJob writes whenever its turn comes, or never when the       *)
(* process stops first.                                                    *)
HandleFailed(n) ==
    /\ notice' = notice \ {n}
    /\ delivery' \in {delivery, Marked(n.of, StatusAfterFailure(n.attempts), n.attempts)}
    /\ UNCHANGED <<active, job, run, replay, received, ended>>

-------------------------------------------------------------------------------
(* replayFailedDelivery, one action per await.                             *)
ReplayRead(p, d) ==
    /\ replay[p].phase \in {"idle", "requested"}
    /\ delivery[d].status = "FAILED"
    /\ replay' = [replay EXCEPT ![p] = [phase |-> "read", of |-> d,
                                        attempts |-> delivery[d].attempts]]
    /\ UNCHANGED <<active, delivery, job, run, notice, received, ended>>

ReplayLookAtJob(p) ==
    /\ replay[p].phase = "read"
    /\ job[replay[p].of].state \notin {"waiting", "active"}
    /\ replay' = [replay EXCEPT ![p].phase = "clear"]
    /\ UNCHANGED <<active, delivery, job, run, notice, received, ended>>

ReplayMark(p) ==
    /\ replay[p].phase = "clear"
    /\ delivery' = Marked(replay[p].of, "PENDING", replay[p].attempts)
    /\ replay' = [replay EXCEPT ![p].phase = "marked"]
    /\ UNCHANGED <<active, job, run, notice, received, ended>>

ReplayAdd(p) ==
    /\ replay[p].phase = "marked"
    /\ AddJob(replay[p].of)
    /\ replay' = [replay EXCEPT ![p].phase = "requested"]
    /\ UNCHANGED <<active, delivery, run, notice, received, ended>>

(* Redis is known to be down: ServiceUnavailableException, FAILED is put   *)
(* back.                                                                   *)
ReplayRefused(p) ==
    /\ replay[p].phase = "marked"
    /\ replay' = [replay EXCEPT ![p].phase = "refused"]
    /\ UNCHANGED <<active, delivery, job, run, notice, received, ended>>

ReplayRestore(p) ==
    /\ replay[p].phase = "refused"
    /\ delivery' = Marked(replay[p].of, "FAILED", replay[p].attempts)
    /\ replay' = [replay EXCEPT ![p] = IdleReplay]
    /\ UNCHANGED <<active, job, run, notice, received, ended>>

(* A conflict, another error or the end of the process at any point; the   *)
(* add may have happened before its error.                                 *)
ReplayAbort(p) ==
    /\ replay[p].phase \notin {"idle", "requested"}
    /\ replay' = [replay EXCEPT ![p] = IdleReplay]
    /\ UNCHANGED job \/ (replay[p].phase = "marked" /\ AddJob(replay[p].of))
    /\ UNCHANGED <<active, delivery, run, notice, received, ended>>

-------------------------------------------------------------------------------
JobStep(d) == Skip(d) \/ Stall(d) \/ Evict(d)

RunStep(r) ==
    \/ \E d \in Deliveries : Take(r, d)
    \/ Post(r)
    \/ Succeed(r)
    \/ Fail(r)
    \/ Crash(r)

ReplayStep(p) ==
    \/ \E d \in Deliveries : ReplayRead(p, d)
    \/ ReplayLookAtJob(p)
    \/ ReplayMark(p)
    \/ ReplayAdd(p)
    \/ ReplayRefused(p)
    \/ ReplayRestore(p)
    \/ ReplayAbort(p)

DeliveryStep ==
    \/ \E d \in Deliveries : JobStep(d)
    \/ \E r \in Runs : RunStep(r)
    \/ \E n \in notice : HandleFailed(n)
    \/ \E p \in Replays : ReplayStep(p)

-------------------------------------------------------------------------------
(* A delivery is only given up after all its attempts, whichever of the    *)
(* late handlers and overlapping replays wrote last.                       *)
FailedExhausted ==
    \A d \in Deliveries : delivery[d].status = "FAILED" => delivery[d].attempts = JobAttempts

(* A delivery shown as SUCCESS has reached its destination, whatever       *)
(* stalled runs, retries and replays wrote before.                         *)
SuccessReceived ==
    \A d \in Deliveries : delivery[d].status = "SUCCESS" => d \in received
===============================================================================
