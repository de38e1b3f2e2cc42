-------------------------------- MODULE Outbox --------------------------------
(***************************************************************************)
(* The operational outbox: events committed with the business fact         *)
(* (outbox.service.ts), claimed in batches by the workers of several       *)
(* processes (outbox.repository.ts), handed over to the webhook deliveries *)
(* one endpoint after the other (outbox.worker.ts, webhook.dispatcher.ts)  *)
(* and settled under an ownership fence.  Composed with WebhookDelivery.   *)
(*                                                                         *)
(* Left out: the backoff of RETRY (availableAt) is time that passes, so a  *)
(* RETRY event may be claimed at any later moment.                         *)
(***************************************************************************)
EXTENDS WebhookDelivery

CONSTANTS
    Workers,        \* OutboxWorker instances, one for each process
    BatchSize,      \* OUTBOX_BATCH_SIZE
    MaxAttempts,    \* OUTBOX_MAX_ATTEMPTS
    MaxClaims       \* bound: no crash and no lost lock after this many claims

ASSUME OutboxAssumption ==
    /\ None \notin Workers
    /\ None \notin Events
    /\ None \notin Endpoints
    /\ BatchSize \in Nat \ {0}
    /\ MaxAttempts \in Nat \ {0}
    /\ MaxClaims \in Nat

VARIABLES
    event,     \* the OperationalOutboxEvent rows
    worker,    \* what each worker's tick is doing
    steady     \* endpoints active ever since each event's commit (history)

outboxVars == <<event, worker, steady>>
vars == <<event, worker, steady, deliveryVars>>

Event == [status : {"ABSENT", "PENDING", "PROCESSING", "RETRY", "PROCESSED", "FAILED"},
          attempts : Nat, lockedBy : Workers \cup {None}, stale : BOOLEAN]
Worker == [batch : SUBSET Events, current : Events \cup {None},
           todo : SUBSET Endpoints, open : Endpoints \cup {None}, threw : BOOLEAN]

NoEvent    == [status |-> "ABSENT", attempts |-> 0, lockedBy |-> None, stale |-> FALSE]
IdleWorker == [batch |-> {}, current |-> None, todo |-> {}, open |-> None, threw |-> FALSE]

TypeOK ==
    /\ event \in [Events -> Event]
    /\ worker \in [Workers -> Worker]
    /\ steady \in [Events -> SUBSET Endpoints]
    /\ DeliveryTypeOK

Init ==
    /\ event = [e \in Events |-> NoEvent]
    /\ worker = [w \in Workers |-> IdleWorker]
    /\ steady = [e \in Events |-> {}]
    /\ DeliveryInit

-------------------------------------------------------------------------------
(* enqueue, inside the transaction of the business fact.                   *)
Enqueue(e) ==
    /\ event[e].status = "ABSENT"
    /\ \A older \in Events : older < e => event[older].status # "ABSENT"
    /\ event' = [event EXCEPT ![e] = [NoEvent EXCEPT !.status = "PENDING"]]
    /\ steady' = [steady EXCEPT ![e] = active]
    /\ UNCHANGED <<worker, deliveryVars>>

(* updateEndpoint turns an endpoint on or off.                             *)
Activate(ep) ==
    /\ ep \notin active
    /\ active' = active \cup {ep}
    /\ UNCHANGED <<event, worker, steady, delivery, job, run, notice, replay, received, ended>>

Deactivate(ep) ==
    /\ ep \in active
    /\ active' = active \ {ep}
    /\ steady' = [e \in Events |-> steady[e] \ {ep}]
    /\ UNCHANGED <<event, worker, delivery, job, run, notice, replay, received, ended>>

(* Mutation: events of a dead worker are not claimed again.                *)
ClaimableOnce(e) == event[e].status \in {"PENDING", "RETRY"}

Claimable(e) ==
    \/ event[e].status \in {"PENDING", "RETRY"}
    \/ event[e].status = "PROCESSING" /\ event[e].stale

(* claimBatch: the oldest claimable events, as many as fit.                *)
ClaimBatch(w) ==
    \E batch \in SUBSET {e \in Events : Claimable(e)} :
        /\ worker[w] = IdleWorker
        /\ batch # {}
        /\ Cardinality(batch) <= BatchSize
        /\ \A e \in Events \ batch :
              Claimable(e) => /\ Cardinality(batch) = BatchSize
                              /\ \A b \in batch : b < e
        /\ event' = [e \in Events |->
                        IF e \in batch
                        THEN [status |-> "PROCESSING", attempts |-> event[e].attempts + 1,
                              lockedBy |-> w, stale |-> FALSE]
                        ELSE event[e]]
        /\ worker' = [worker EXCEPT ![w] = [IdleWorker EXCEPT !.batch = batch]]
        /\ UNCHANGED <<steady, deliveryVars>>

(* dispatchTimelineEvent lists the active endpoints of the next event.     *)
Begin(w) ==
    \E e \in worker[w].batch :
        /\ worker[w].current = None
        /\ worker' = [worker EXCEPT ![w] = [batch |-> worker[w].batch \ {e}, current |-> e,
                                            todo |-> active, open |-> None, threw |-> FALSE]]
        /\ UNCHANGED <<event, steady, deliveryVars>>

(* For each endpoint the delivery is persisted ...                         *)
Persist(w) ==
    \E ep \in worker[w].todo :
        /\ worker[w].current # None
        /\ worker[w].open = None
        /\ CreatePending(<<worker[w].current, ep>>)
        /\ worker' = [worker EXCEPT ![w] = [batch |-> worker[w].batch, current |-> worker[w].current,
                                            todo |-> worker[w].todo \ {ep}, open |-> ep,
                                            threw |-> FALSE]]
        /\ UNCHANGED <<event, steady, active, job, run, notice, replay, received, ended>>

(* Mutation: an addJob that fails is not noticed.                          *)
HandOverUnheard(w) ==
    /\ worker[w].open # None
    /\ AddJob(<<worker[w].current, worker[w].open>>) \/ UNCHANGED job
    /\ worker' = [worker EXCEPT ![w].open = None]
    /\ UNCHANGED <<event, steady, active, delivery, run, notice, replay, received, ended>>

(* ... and then its job is added.                                          *)
HandOver(w) ==
    /\ worker[w].open # None
    /\ AddJob(<<worker[w].current, worker[w].open>>)
    /\ worker' = [worker EXCEPT ![w].open = None]
    /\ UNCHANGED <<event, steady, active, delivery, run, notice, replay, received, ended>>

(* Mutation: the outcome is written by id alone.                           *)
OwnsAny(w, e) == TRUE

Owns(w, e) == event[e].status = "PROCESSING" /\ event[e].lockedBy = w

(* The event after markProcessed, markRetry or markFailed.                 *)
Settled(w, e, status) ==
    IF Owns(w, e)
    THEN [status |-> status, attempts |-> event[e].attempts, lockedBy |-> None, stale |-> FALSE]
    ELSE event[e]

(* Something throws: the payload has no timeline event, a statement or an  *)
(* addJob fails (perhaps after Redis took the job).                        *)
Throw(w) ==
    /\ worker[w].current # None
    /\ ~ worker[w].threw
    /\ worker' = [worker EXCEPT ![w] = [batch |-> worker[w].batch, current |-> worker[w].current,
                                        todo |-> {}, open |-> None, threw |-> TRUE]]
    /\ \/ UNCHANGED job
       \/ worker[w].open # None /\ AddJob(<<worker[w].current, worker[w].open>>)
    /\ UNCHANGED <<event, steady, active, delivery, run, notice, replay, received, ended>>

(* The write itself may throw after it was applied.                        *)
MarkProcessed(w) ==
    LET e == worker[w].current
    IN  /\ e # None
        /\ worker[w].todo = {}
        /\ worker[w].open = None
        /\ ~ worker[w].threw
        /\ event' = [event EXCEPT ![e] = Settled(w, e, "PROCESSED")]
        /\ \/ worker' = [worker EXCEPT ![w].current = None]
           \/ worker' = [worker EXCEPT ![w].threw = TRUE]
        /\ UNCHANGED <<steady, deliveryVars>>

(* Mutation: one attempt too early.                                        *)
StatusAfterErrorEarly(e) == IF event[e].attempts + 1 >= MaxAttempts THEN "FAILED" ELSE "RETRY"

(* The worker decides on the attempts it read with its claim; the fence    *)
(* makes them those of the row.                                            *)
StatusAfterError(e) == IF event[e].attempts >= MaxAttempts THEN "FAILED" ELSE "RETRY"

MarkError(w) ==
    LET e == worker[w].current
    IN  /\ e # None
        /\ worker[w].threw
        /\ event' = [event EXCEPT ![e] = Settled(w, e, StatusAfterError(e))]
        /\ worker' = [worker EXCEPT ![w] = [IdleWorker EXCEPT !.batch = worker[w].batch]]
        /\ UNCHANGED <<steady, deliveryVars>>

(* Bound: the events this worker holds have claims left.                   *)
ClaimsLeft(w) == \A e \in Events : event[e].lockedBy = w => event[e].attempts < MaxClaims

(* The process stops, also when writing a retry fails: the rejection of    *)
(* tick() is unhandled and main.ts exits.                                  *)
CrashWorker(w) ==
    /\ worker[w] # IdleWorker
    /\ ClaimsLeft(w)
    /\ worker' = [worker EXCEPT ![w] = IdleWorker]
    /\ UNCHANGED <<event, steady, deliveryVars>>

(* lockedAt falls behind OUTBOX_LOCK_TIMEOUT_MS, of a dead worker or of    *)
(* one that is still busy with the batch.                                  *)
LockExpires(e) ==
    /\ event[e].lockedBy # None
    /\ ~ event[e].stale
    /\ event[e].attempts < MaxClaims
    /\ event' = [event EXCEPT ![e].stale = TRUE]
    /\ UNCHANGED <<worker, steady, deliveryVars>>

-------------------------------------------------------------------------------
WorkerAdvances(w) ==
    Begin(w) \/ Persist(w) \/ HandOver(w) \/ MarkProcessed(w) \/ MarkError(w)

OutboxStep ==
    \/ \E e \in Events : Enqueue(e) \/ LockExpires(e)
    \/ \E ep \in Endpoints : Activate(ep) \/ Deactivate(ep)
    \/ \E w \in Workers : ClaimBatch(w) \/ WorkerAdvances(w) \/ Throw(w) \/ CrashWorker(w)

Next == OutboxStep \/ (DeliveryStep /\ UNCHANGED outboxVars)

Spec == Init /\ [][Next]_vars

(* Workers poll for ever and go on with what they hold, locks grow old;    *)
(* nothing is assumed of the deliveries.                                   *)
Fairness ==
    /\ \A w \in Workers : WF_vars(ClaimBatch(w)) /\ WF_vars(WorkerAdvances(w))
    /\ \A e \in Events : WF_vars(LockExpires(e))

FairSpec == Spec /\ Fairness

-------------------------------------------------------------------------------
(* The delivery exists and its job is in the queue, kept as failed, or has *)
(* come to an end.                                                         *)
HandedOver(d) == /\ delivery[d].status # "ABSENT"
                 /\ job[d].state # "none" \/ d \in ended

(* CONTRATO_EVENTOS_OPERACIONAIS.md:51: an event is PROCESSED only when    *)
(* every delivery is persisted and its job accepted, for every endpoint    *)
(* that was active from the commit on, also when a worker lost its lock    *)
(* half-way and another one finished the event.                            *)
ProcessedHandedOver ==
    \A e \in Events :
        event[e].status = "PROCESSED" => \A ep \in steady[e] : HandedOver(<<e, ep>>)

(* An event is given up only after OUTBOX_MAX_ATTEMPTS claims.             *)
FailedAfterAttempts ==
    \A e \in Events : event[e].status = "FAILED" => event[e].attempts >= MaxAttempts

(* The event, read as the promise of EventDelivery.                        *)
Fact(status) ==
    CASE status = "ABSENT"    -> "none"
      [] status = "PROCESSED" -> "done"
      [] status = "FAILED"    -> "given up"
      [] OTHER                -> "open"

Facts  == [e \in Events |-> Fact(event[e].status)]
Handed == {d \in Deliveries : HandedOver(d)}

Promise == INSTANCE EventDelivery WITH fact <- Facts, owed <- steady, handed <- Handed

(* The outbox and the deliveries together implement the promise: PROCESSED *)
(* and FAILED are final, and PROCESSED means handed over.                  *)
PromiseSpec == Promise!Spec

(* At least once: as long as processes do not crash for ever, every        *)
(* committed event ends PROCESSED or FAILED.                               *)
EventSettled ==
    \A e \in Events :
        (event[e].status = "PENDING") ~> (event[e].status \in {"PROCESSED", "FAILED"})
===============================================================================
