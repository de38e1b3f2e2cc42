--------------------------- MODULE WhatsAppDispatch ---------------------------
(***************************************************************************)
(* Outbound WhatsApp messages: WhatsAppMessage rows in PostgreSQL, claimed *)
(* by a cron (whatsapp.dispatcher.job.ts) or by BullMQ jobs                *)
(* (whatsapp.processor.ts), sent through an external provider, settled     *)
(* under an ownership fence, reconciled when the owner goes silent, and    *)
(* rewritten by provider status webhooks and by operators                  *)
(* (whatsapp.service.ts).  Each SQL statement is one action; whatever the  *)
(* code does between two statements can interleave with everything else.   *)
(*                                                                         *)
(* Left out: the timeline rows and the dead-letter jobs these handlers     *)
(* append (no guard here reads them), message text and phone numbers.      *)
(***************************************************************************)
EXTENDS Naturals, FiniteSets

CONSTANTS
    Messages,     \* outbound rows; a smaller number has an older createdAt
    Attempts,     \* dispatch attempts under way at the same time
    Requests,     \* API requests and webhook jobs running at the same time
    Overrides,    \* statuses operators write by hand (the code accepts all)
    JobAttempts,  \* "attempts" of QUEUE_DEFAULT_JOB_OPTIONS
    MaxGrants,    \* bound: operators stop asking for a message after this many
    None

Statuses == {"QUEUED", "SENDING", "UNCERTAIN", "SENT", "DELIVERED", "READ",
             "FAILED", "CANCELED"}

JobKinds == {"dispatch", "retry"}         \* whatsapp-dispatch-<id>, whatsapp-dispatch-retry-<id>
Answers  == {"ok", "ambiguous", "fatal", "retryable"}
WebhookStatuses == {"DELIVERED", "READ", "FAILED"}

(* Worker ids, as lockedBy records them: a cron run draws a random one, a  *)
(* job has "bullmq-<pid>-<jobId>-<attemptsMade + 1>".  The process id is   *)
(* left out: one process may run both attempts, and containers share pids. *)
JobWorker(k, n) == <<k, n>>
Workers == Attempts \cup {JobWorker(k, n) : k \in JobKinds, n \in 1 .. JobAttempts}

ASSUME DispatchAssumption ==
    /\ Messages \subseteq Nat
    /\ IsFiniteSet(Attempts)
    /\ None \notin Workers
    /\ Overrides \subseteq Statuses
    /\ JobAttempts \in Nat \ {0}
    /\ MaxGrants \in Nat

VARIABLES
    row,       \* the WhatsAppMessage rows
    attempt,   \* what each dispatch attempt is doing
    job,       \* BullMQ jobs by message and kind; who runs them, retries made
    request,   \* updateMessageStatus / retryFailedMessage calls past their read
    accepted,  \* attempts whose message the provider accepted (external)
    grants     \* how often enqueueing or an operator queued each message (history)

vars == <<row, attempt, job, request, accepted, grants>>

Row == [status : Statuses \cup {"ABSENT"}, lockedBy : Workers \cup {None},
        stale : BOOLEAN, providerMessageId : Attempts \cup {None}]
Attempt == [phase : {"free", "claimed", "answered", "spent"},
            msg : Messages \cup {None}, via : JobKinds \cup {"cron"},
            worker : Workers \cup {None}, answer : Answers \cup {None}]
Job == [state : {"none", "waiting", "active", "failed"}, made : 0 .. JobAttempts,
        holder : Attempts \cup {None}]
Request == [kind : {"idle", "status", "retry"}, msg : Messages \cup {None},
            status : Statuses]

NoRow == [status |-> "ABSENT", lockedBy |-> None, stale |-> FALSE,
          providerMessageId |-> None]
Fresh == [phase |-> "free", msg |-> None, via |-> "cron", worker |-> None, answer |-> None]
Spent(m) == [Fresh EXCEPT !.phase = "spent", !.msg = m]
NoJob == [state |-> "none", made |-> 0, holder |-> None]
Idle  == [kind |-> "idle", msg |-> None, status |-> "QUEUED"]

TypeOK ==
    /\ row \in [Messages -> Row]
    /\ attempt \in [Attempts -> Attempt]
    /\ job \in [Messages \X JobKinds -> Job]
    /\ request \in [Requests -> Request]
    /\ accepted \subseteq Attempts
    /\ grants \in [Messages -> Nat]

Init ==
    /\ row = [m \in Messages |-> NoRow]
    /\ attempt = [a \in Attempts |-> Fresh]
    /\ job = [mk \in Messages \X JobKinds |-> NoJob]
    /\ request = [r \in Requests |-> Idle]
    /\ accepted = {}
    /\ grants = [m \in Messages |-> 0]

-------------------------------------------------------------------------------
(* BullMQ.  A job id that still exists, in any state, makes add() a no-op: *)
(* a finally failed job stays (removeOnFail keeps 2000), a completed one   *)
(* is removed (removeOnComplete).  addJob may also fail, or the process    *)
(* stop before it.                                                         *)
AddJob(m, k) ==
    \/ UNCHANGED job
    \/ /\ job[<<m, k>>].state = "none"
       /\ job' = [job EXCEPT ![<<m, k>>] = [NoJob EXCEPT !.state = "waiting"]]

(* Mutation: the limit on attempts is forgotten.                           *)
AfterFailureNoLimit(j) == [state |-> "waiting", made |-> j.made + 1, holder |-> None]

(* The handler threw: retry with backoff until the attempts are used up.   *)
AfterFailure(j) ==
    [state |-> IF j.made + 1 >= JobAttempts THEN "failed" ELSE "waiting",
     made  |-> j.made + 1, holder |-> None]

(* The job's lock was not renewed, because its process died or only hung:  *)
(* it is handed out again, or given up (maxStalledCount).                  *)
AfterStall(j) == {[state |-> s, made |-> j.made, holder |-> None] : s \in {"waiting", "failed"}}

Stall(m, k) ==
    /\ job[<<m, k>>].state = "active"
    /\ \E j \in AfterStall(job[<<m, k>>]) : job' = [job EXCEPT ![<<m, k>>] = j]
    /\ UNCHANGED <<row, attempt, request, accepted, grants>>

-------------------------------------------------------------------------------
(* enqueueMessage: the row, then the job.                                  *)
Enqueue(m) ==
    /\ row[m].status = "ABSENT"
    /\ \A n \in Messages : n < m => row[n].status # "ABSENT"
    /\ row' = [row EXCEPT ![m].status = "QUEUED"]
    /\ grants' = [grants EXCEPT ![m] = @ + 1]
    /\ AddJob(m, "dispatch")
    /\ UNCHANGED <<attempt, request, accepted>>

(* WHERE of both claims: QUEUED with no lock, or with an expired one.      *)
Claimable(m) ==
    /\ row[m].status = "QUEUED"
    /\ row[m].lockedBy = None \/ row[m].stale

(* The row with a new status and a new lock, fresh or none.                *)
Relocked(m, status, owner) ==
    [status |-> status, lockedBy |-> owner, stale |-> FALSE,
     providerMessageId |-> row[m].providerMessageId]

Claim(a, m, source, worker) ==
    /\ attempt[a].phase = "free"
    /\ Claimable(m)
    /\ row' = [row EXCEPT ![m] = Relocked(m, "SENDING", worker)]
    /\ attempt' = [attempt EXCEPT ![a] = [phase |-> "claimed", msg |-> m, via |-> source,
                                          worker |-> worker, answer |-> None]]
    /\ UNCHANGED <<request, accepted, grants>>

(* Mutation: strict order, behind every older row that is not settled.     *)
CronClaimInOrder(a) ==
    \E m \in Messages :
        /\ \A n \in Messages : n < m => row[n].status \notin {"QUEUED", "SENDING", "UNCERTAIN"}
        /\ Claim(a, m, "cron", a)
        /\ UNCHANGED job

(* claimQueued with limit 1: the oldest claimable row, except that SKIP    *)
(* LOCKED passes over rows that a request is writing at that moment.       *)
BeingWritten == {request[r].msg : r \in {q \in Requests : request[q].kind # "idle"}}

CronClaim(a) ==
    \E m \in Messages :
        /\ \A n \in Messages : Claimable(n) => m <= n \/ n \in BeingWritten
        /\ Claim(a, m, "cron", a)
        /\ UNCHANGED job

(* processDispatchMessageJob up to the send.                               *)
JobClaim(a, m, k) ==
    LET j == job[<<m, k>>]
    IN  /\ j.state = "waiting"
        /\ Claim(a, m, k, JobWorker(k, j.made + 1))
        /\ job' = [job EXCEPT ![<<m, k>>] = [state |-> "active", made |-> j.made,
                                             holder |-> a]]

(* The claim returned null: the job completes without sending.             *)
JobSkip(m, k) ==
    /\ job[<<m, k>>].state = "waiting"
    /\ ~ Claimable(m)
    /\ job' = [job EXCEPT ![<<m, k>>] = NoJob]
    /\ UNCHANGED <<row, attempt, request, accepted, grants>>

(* provider.sendText: a network error or a timeout is "ambiguous", an      *)
(* HTTP error is a refusal, fatal or not.  Nothing checks the lock again   *)
(* before the call.                                                        *)
SendText(a) ==
    /\ attempt[a].phase = "claimed"
    /\ \E answer \in Answers :
        /\ attempt' = [attempt EXCEPT ![a].phase = "answered", ![a].answer = answer]
        /\ \/ answer \in {"ok", "ambiguous"} /\ accepted' = accepted \cup {a}
           \/ answer # "ok" /\ UNCHANGED accepted
    /\ UNCHANGED <<row, job, request, grants>>

(* Mutation: the outcome is written by id alone.                           *)
OwnsById(a, m) == row[m].status # "ABSENT"

Owns(a, m) == row[m].status = "SENDING" /\ row[m].lockedBy = attempt[a].worker

(* Mutation: an ambiguous answer is retried like a refusal.                *)
StatusAfterRetryAll(answer) ==
    CASE answer = "ok"    -> "SENT"
      [] answer = "fatal" -> "FAILED"
      [] OTHER            -> "QUEUED"

StatusAfter(answer) ==
    CASE answer = "ok"        -> "SENT"
      [] answer = "ambiguous" -> "UNCERTAIN"
      [] answer = "fatal"     -> "FAILED"
      [] OTHER                -> "QUEUED"

(* Mutation: every outcome stores the id of its attempt.                   *)
SettledRowAnyId(a, m) ==
    IF Owns(a, m)
    THEN [Relocked(m, StatusAfter(attempt[a].answer), None) EXCEPT !.providerMessageId = a]
    ELSE row[m]

(* markSent / markDeliveryUncertain / markFailedTerminal /                 *)
(* markFailedAndRequeue, all fenced.                                       *)
SettledRow(a, m) ==
    CASE ~ Owns(a, m) -> row[m]
      [] Owns(a, m) /\ attempt[a].answer = "ok" ->
            [status |-> StatusAfter("ok"), lockedBy |-> None, stale |-> FALSE,
             providerMessageId |-> a]
      [] Owns(a, m) /\ attempt[a].answer # "ok" ->
            Relocked(m, StatusAfter(attempt[a].answer), None)

(* BullMQ lets only the worker that holds the job finish it.               *)
Holds(a) == attempt[a].via # "cron" /\ job[<<attempt[a].msg, attempt[a].via>>].holder = a

EndJob(a, j) == job' = [job EXCEPT ![<<attempt[a].msg, attempt[a].via>>] = j]
FailJob(a)   == EndJob(a, AfterFailure(job[<<attempt[a].msg, attempt[a].via>>]))

(* The outcome is written; then the job completes, or throws: after a      *)
(* refusal always, otherwise when writing the timeline row fails.          *)
Settle(a) ==
    LET m == attempt[a].msg
    IN  /\ attempt[a].phase = "answered"
        /\ row' = [row EXCEPT ![m] = SettledRow(a, m)]
        /\ attempt' = [attempt EXCEPT ![a] = Spent(m)]
        /\ \/ ~ Holds(a) /\ UNCHANGED job
           \/ Holds(a) /\ FailJob(a)
           \/ Holds(a) /\ attempt[a].answer \in {"ok", "ambiguous"} /\ EndJob(a, NoJob)
        /\ UNCHANGED <<request, accepted, grants>>

(* The process dies, the send throws, or writing the outcome fails: the    *)
(* row stays SENDING under a lock nobody will use again.                   *)
Lose(a) ==
    /\ attempt[a].phase \in {"claimed", "answered"}
    /\ attempt' = [attempt EXCEPT ![a] = Spent(attempt[a].msg)]
    /\ UNCHANGED job \/ (Holds(a) /\ FailJob(a))
    /\ UNCHANGED <<row, request, accepted, grants>>

(* lockedAt falls behind the lock timeout (5 minutes).                     *)
LockExpires(m) ==
    /\ row[m].lockedBy # None
    /\ ~ row[m].stale
    /\ row' = [row EXCEPT ![m].stale = TRUE]
    /\ UNCHANGED <<attempt, job, request, accepted, grants>>

(* Mutation: abandoned sends go back to the queue.                         *)
ReconciledStatusRequeue == "QUEUED"

ReconciledStatus == "UNCERTAIN"

(* Mutation: only rows the provider already numbered are reconciled.       *)
ReconcileNumbered(m) ==
    /\ row[m].status = "SENDING"
    /\ row[m].providerMessageId # None
    /\ row[m].stale
    /\ row' = [row EXCEPT ![m] = Relocked(m, ReconciledStatus, None)]
    /\ UNCHANGED <<attempt, job, request, accepted, grants>>

(* reconcileStaleSending, cron of every minute.                            *)
ReconcileStaleSending(m) ==
    /\ row[m].status = "SENDING"
    /\ row[m].lockedBy # None
    /\ row[m].stale
    /\ row' = [row EXCEPT ![m] = Relocked(m, ReconciledStatus, None)]
    /\ UNCHANGED <<attempt, job, request, accepted, grants>>

-------------------------------------------------------------------------------
(* updateMessageStatus reads the row, returns early for a FAILED that      *)
(* comes after DELIVERED or READ and for a CANCELED row, and otherwise     *)
(* updates by id alone.                                                    *)
MayUpdate(m, status) ==
    /\ row[m].status # "ABSENT"
    /\ ~ (row[m].status \in {"DELIVERED", "READ"} /\ status = "FAILED")
    /\ row[m].status # "CANCELED"

ReadForUpdate(r, m, status) ==
    /\ request[r].kind = "idle"
    /\ MayUpdate(m, status)
    /\ request' = [request EXCEPT ![r] = [kind |-> "status", msg |-> m, status |-> status]]
    /\ UNCHANGED <<row, attempt, job, accepted, grants>>

(* processProviderMessageStatus: matched by providerMessageId, dropped     *)
(* when no row has it yet.  The provider repeats and reorders its events.  *)
StatusWebhook(r) ==
    \E a \in accepted, m \in Messages, status \in WebhookStatuses :
        /\ row[m].providerMessageId = a
        /\ ReadForUpdate(r, m, status)

(* PATCH messages/:id/status takes any status.                             *)
OperatorStatus(r) ==
    \E m \in Messages, status \in Overrides :
        /\ status = "QUEUED" => grants[m] < MaxGrants
        /\ ReadForUpdate(r, m, status)

WriteStatus(r) ==
    LET m == request[r].msg
    IN  /\ request[r].kind = "status"
        /\ row' = [row EXCEPT ![m].status = request[r].status]
        /\ grants' = IF request[r].status = "QUEUED"
                     THEN [grants EXCEPT ![m] = @ + 1] ELSE grants
        /\ request' = [request EXCEPT ![r] = Idle]
        /\ UNCHANGED <<attempt, job, accepted>>

(* retryFailedMessage: the check on FAILED, then an update by id alone,    *)
(* which leaves the lock and the provider id as they are.                  *)
RetryCheck(r) ==
    \E m \in Messages :
        /\ request[r].kind = "idle"
        /\ row[m].status = "FAILED"
        /\ grants[m] < MaxGrants
        /\ request' = [request EXCEPT ![r] = [kind |-> "retry", msg |-> m,
                                              status |-> "QUEUED"]]
        /\ UNCHANGED <<row, attempt, job, accepted, grants>>

RetryWrite(r) ==
    LET m == request[r].msg
    IN  /\ request[r].kind = "retry"
        /\ row' = [row EXCEPT ![m].status = "QUEUED"]
        /\ grants' = [grants EXCEPT ![m] = @ + 1]
        /\ AddJob(m, "retry")
        /\ request' = [request EXCEPT ![r] = Idle]
        /\ UNCHANGED <<attempt, accepted>>

(* Attempts are unlimited in the code; here one that left no trace is used *)
(* again, so that behaviours do not end when the pool does.                *)
Recycle(a) ==
    /\ attempt[a].phase = "spent"
    /\ a \notin accepted
    /\ \A m \in Messages : row[m].lockedBy # a
    /\ \A mk \in Messages \X JobKinds : job[mk].holder # a
    /\ attempt' = [attempt EXCEPT ![a] = Fresh]
    /\ UNCHANGED <<row, job, request, accepted, grants>>

-------------------------------------------------------------------------------
MessageStep(m) ==
    \/ Enqueue(m)
    \/ LockExpires(m)
    \/ ReconcileStaleSending(m)
    \/ \E k \in JobKinds : JobSkip(m, k) \/ Stall(m, k)

AttemptStep(a) ==
    \/ CronClaim(a)
    \/ \E m \in Messages, k \in JobKinds : JobClaim(a, m, k)
    \/ SendText(a)
    \/ Settle(a)
    \/ Lose(a)
    \/ Recycle(a)

RequestStep(r) ==
    \/ StatusWebhook(r)
    \/ OperatorStatus(r)
    \/ WriteStatus(r)
    \/ RetryCheck(r)
    \/ RetryWrite(r)

Next ==
    \/ \E m \in Messages : MessageStep(m)
    \/ \E a \in Attempts : AttemptStep(a)
    \/ \E r \in Requests : RequestStep(r)

Spec == Init /\ [][Next]_vars

(* The crons fire for ever, a started send or write comes to an end, a     *)
(* lock grows old, BullMQ looks for stalled jobs; nobody is obliged to     *)
(* enqueue, to answer or to ask.                                           *)
Fairness ==
    /\ \A m \in Messages : WF_vars(LockExpires(m)) /\ WF_vars(ReconcileStaleSending(m))
    /\ \A m \in Messages, k \in JobKinds : WF_vars(Stall(m, k))
    /\ WF_vars(\E a \in Attempts : CronClaim(a))
    /\ \A a \in Attempts : WF_vars(SendText(a)) /\ WF_vars(Settle(a)) /\ WF_vars(Recycle(a))
    /\ \A r \in Requests : WF_vars(WriteStatus(r)) /\ WF_vars(RetryWrite(r))

FairSpec == Spec /\ Fairness

-------------------------------------------------------------------------------
(* Attempts made for m that the provider has accepted, and attempts that   *)
(* have not ended and may still be accepted or be requeued.                *)
Copies(m) == {a \in accepted : attempt[a].msg = m}
Live(m)   == {a \in Attempts \ accepted : /\ attempt[a].msg = m
                                          /\ attempt[a].phase \in {"claimed", "answered"}}
Permit(m) == IF row[m].status = "QUEUED" THEN 1 ELSE 0

(* No automatic resend: the provider never accepts more copies of a        *)
(* message than enqueueMessage and operators asked for, whatever crashes,  *)
(* expired locks, retries of jobs and provider events come in between.     *)
CopiesWithinGrants == \A m \in Messages : Cardinality(Copies(m)) <= grants[m]

(* The dispatcher, read message by message, as the ledger of permits.      *)
Permits    == [m \in Messages |-> Permit(m)]
InFlight   == [m \in Messages |-> Cardinality(Live(m))]
CopyCounts == [m \in Messages |-> Cardinality(Copies(m))]

Ledger == INSTANCE SendLedger WITH
    granted <- grants, permit <- Permits, inFlight <- InFlight, copies <- CopyCounts

(* The detailed dispatcher implements the ledger of send permits: every    *)
(* claim spends one, and only an explicit refusal by the provider gives it *)
(* back without a person asking.                                           *)
LedgerSpec == Ledger!Spec

(* An UNCERTAIN message is only decided by evidence or by a person: a step *)
(* that takes a row out of UNCERTAIN is the write of a status update or of *)
(* a retry for that row, never a dispatcher that lost its lock.            *)
UncertainDecidedByRequest ==
    [][\A m \in Messages :
          row[m].status = "UNCERTAIN" /\ row'[m].status # "UNCERTAIN" =>
              \E r \in Requests : /\ request[r].kind # "idle"
                                  /\ request[r].msg = m
                                  /\ request'[r] = Idle]_vars

(* A row records as its provider id the attempt the provider accepted for  *)
(* that very message, so that a later status webhook can only reach the    *)
(* message it speaks of.                                                   *)
ProviderIdIsACopy ==
    \A m \in Messages :
        row[m].providerMessageId # None => row[m].providerMessageId \in Copies(m)

(* A crash never parks a message: a row that is SENDING under a lock       *)
(* leaves SENDING, through its owner or through the reconciliation.        *)
SendingResolved ==
    \A m \in Messages :
        (row[m].status = "SENDING" /\ row[m].lockedBy # None) ~> (row[m].status # "SENDING")

(* Attempts of the pool that cannot be used again: bound to a copy, or to  *)
(* a lock whose row was rewritten.                                         *)
Bound(a) == \/ a \in accepted
            \/ \E m \in Messages : row[m].lockedBy = a /\ row[m].status # "SENDING"

(* The cron needs no job: every queued message is taken up, also when its  *)
(* addJob failed or its job is used up, as long as the provider does not   *)
(* go on refusing an older message for ever (the cron always takes the     *)
(* oldest and ends its run after a refusal).  Only a finite pool of worker *)
(* ids that are all bound excuses it.                                      *)
QueuedTaken ==
    <>[](\A a \in Attempts : attempt[a].answer # "retryable") =>
        \A m \in Messages :
            (row[m].status = "QUEUED")
                ~> (row[m].status # "QUEUED" \/ \A a \in Attempts : Bound(a))

(* whatsapp.service.ts:330 says that only FAILED messages can be sent      *)
(* again: the write of a retry never requeues a message that has been sent *)
(* in the meantime.                                                        *)
SentNeverRetried ==
    [][\A r \in Requests :
          request[r].kind = "retry" /\ request'[r] = Idle =>
              row[request[r].msg].status \notin {"SENT", "DELIVERED", "READ"}]_vars

(* Nobody else writes the status of a message while a retry of it is       *)
(* between its check and its update.                                       *)
NoWriteBetween ==
    [][\A r, q \in Requests :
          /\ r # q
          /\ request[r].kind = "retry" /\ request[q].kind # "idle"
          /\ request[r].msg = request[q].msg
          => request'[q] # Idle]_vars
===============================================================================
