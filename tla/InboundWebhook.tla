----------------------------- MODULE InboundWebhook -----------------------------
(***************************************************************************)
(* Inbound WhatsApp: the provider's call is stored as a                    *)
(* WhatsAppWebhookEvent and handed to a BullMQ job                         *)
(* (whatsapp.controller.ts, whatsapp-webhook.service.ts); the job stores   *)
(* the messages in it and counts them in their conversations               *)
(* (whatsapp.processor.ts, whatsapp.service.ts); what fails for good is    *)
(* marked FAILED, and an operator may have it replayed.                    *)
(*                                                                         *)
(* Every event is authentic and belongs to one organisation.  Left out:    *)
(* status items (WhatsAppDispatch!StatusWebhook), items without a provider *)
(* id (they are never deduplicated), counters and error texts of the rows, *)
(* timeline events, the operational intelligence of a conversation and     *)
(* what operators do with it, the dead-letter queue.                       *)
(***************************************************************************)
EXTENDS Naturals, Sequences, FiniteSets

CONSTANTS
    Events,         \* WhatsAppWebhookEvent rows
    Messages,       \* messages of customers, by provider id
    Customers,      \* senders
    Conversations,  \* ids of WhatsAppConversation rows
    Items,          \* the messages in the payload of each event
    From,           \* the sender of each message
    Runs,           \* executions of the job handler at the same time
    JobAttempts,    \* "attempts" of the jobs
    MaxReplays,     \* replays of all events (bound of the model)
    None

(* Job <<e, 0>> is the controller's, <<e, n>> that of the n-th replay: each *)
(* replay has a job id of its own.                                         *)
Jobs == Events \X (0 .. MaxReplays)
EventOf(j) == j[1]

ASSUME InboundAssumption ==
    /\ IsFiniteSet(Messages)
    /\ Items \in [Events -> Seq(Messages) \ {<<>>}]
    /\ From \in [Messages -> Customers]
    /\ JobAttempts \in Nat \ {0}
    /\ MaxReplays \in Nat
    /\ None \notin Runs \cup Conversations \cup Customers \cup Jobs

VARIABLES
    event,         \* status of the rows
    call,          \* enqueueInboundWebhook, one call for each job
    job,           \* jobs in Redis
    run,           \* executions of processInboundWebhookJob
    notice,        \* final failures whose handler has not written yet
    conversation,  \* the conversation a message is stored in, or None
    owner,         \* the customer of a conversation row, or None
    unread,        \* unreadCount of the conversations
    cut            \* messages whose run ended before counting them (history)

vars == <<event, call, job, run, notice, conversation, owner, unread, cut>>

Statuses == {"ABSENT", "RECEIVED", "PROCESSING", "PROCESSED", "FAILED"}
Job == [state : {"none", "waiting", "active", "failed"}, made : 0 .. JobAttempts,
        stalled : BOOLEAN, holder : Runs \cup {None}]
Run == [phase : {"idle", "mark", "look", "open", "create", "touch", "complete"},
        job : Jobs \cup {None}, at : Nat, into : Conversations \cup {None}]

NoJob   == [state |-> "none", made |-> 0, stalled |-> FALSE, holder |-> None]
IdleRun == [phase |-> "idle", job |-> None, at |-> 1, into |-> None]

Init ==
    /\ event = [e \in Events |-> "ABSENT"]
    /\ call = [j \in Jobs |-> "none"]
    /\ job = [j \in Jobs |-> NoJob]
    /\ run = [r \in Runs |-> IdleRun]
    /\ notice = {}
    /\ conversation = [m \in Messages |-> None]
    /\ owner = [c \in Conversations |-> None]
    /\ unread = [c \in Conversations |-> 0]
    /\ cut = {}

Stored(m) == conversation[m] # None

-------------------------------------------------------------------------------
(* The provider calls the webhook: createWebhookEvent.                     *)
Receive(e) ==
    /\ event[e] = "ABSENT"
    /\ event' = [event EXCEPT ![e] = "RECEIVED"]
    /\ call' = [call EXCEPT ![<<e, 0>>] = "add"]
    /\ UNCHANGED <<job, run, notice, conversation, owner, unread, cut>>

(* replayWebhookEvents asks for FAILED, or force.                          *)
Replayable(e, force) == event[e] = "FAILED" \/ (force /\ event[e] # "ABSENT")

Replay(e, n, force) ==
    /\ Replayable(e, force)
    /\ call[<<e, n>>] = "none"
    /\ Cardinality({j \in Jobs : j[2] # 0 /\ call[j] # "none"}) < MaxReplays
    /\ call' = [call EXCEPT ![<<e, n>>] = "add"]
    /\ UNCHANGED <<event, job, run, notice, conversation, owner, unread, cut>>

(* addJob.  A call that stays at "add" has ended without a job, with the   *)
(* process or with an error; "lost" is a job whose caller got no 200 (what *)
(* an operator is told makes no difference).                               *)
Add(j) ==
    /\ call[j] = "add"
    /\ \E answer \in IF j[2] = 0 THEN {"acknowledged", "lost"} ELSE {"acknowledged"} :
          call' = [call EXCEPT ![j] = answer]
    /\ job' = [job EXCEPT ![j] = [NoJob EXCEPT !.state = "waiting"]]
    /\ UNCHANGED <<event, run, notice, conversation, owner, unread, cut>>

(* Redis is known to be away (ServiceUnavailableException): RECEIVED       *)
(* becomes FAILED.                                                         *)
AddRefused(j) ==
    /\ call[j] = "add"
    /\ call' = [call EXCEPT ![j] = "refused"]
    /\ event' = [event EXCEPT ![EventOf(j)] = IF @ = "RECEIVED" THEN "FAILED" ELSE @]
    /\ UNCHANGED <<job, run, notice, conversation, owner, unread, cut>>

-------------------------------------------------------------------------------
Item(r) == Items[EventOf(run[r].job)][run[r].at]

(* Mutation: the last item is forgotten.                                   *)
LastEarly(r) == run[r].at + 1 >= Len(Items[EventOf(run[r].job)])

Last(r) == run[r].at = Len(Items[EventOf(run[r].job)])
Holds(r) == job[run[r].job].holder = r

(* Mutation: whatever has been begun is taken for done.                    *)
SettledBegun(e) == event[e] # "RECEIVED"

Settled(e) == event[e] = "PROCESSED"

(* Which of the idle workers takes a job makes no difference, nor which    *)
(* new id a conversation gets.                                             *)
NextRun          == CHOOSE r \in Runs : run[r].phase = "idle"
NextConversation == CHOOSE c \in Conversations : owner[c] = None

(* A worker takes a job and reads its event; when it is settled, the job   *)
(* completes and is removed.                                               *)
Take(r, j) ==
    /\ run[r].phase = "idle" /\ r = NextRun
    /\ job[j].state = "waiting"
    /\ ~ Settled(EventOf(j))
    /\ job' = [job EXCEPT ![j].state = "active", ![j].holder = r]
    /\ run' = [run EXCEPT ![r] = [IdleRun EXCEPT !.phase = "mark", !.job = j]]
    /\ UNCHANGED <<event, call, notice, conversation, owner, unread, cut>>

Skip(j) ==
    /\ job[j].state = "waiting"
    /\ Settled(EventOf(j))
    /\ job' = [job EXCEPT ![j] = NoJob]
    /\ UNCHANGED <<event, call, run, notice, conversation, owner, unread, cut>>

(* PROCESSING, by id.                                                      *)
Mark(r) ==
    /\ run[r].phase = "mark"
    /\ event' = [event EXCEPT ![EventOf(run[r].job)] = "PROCESSING"]
    /\ run' = [run EXCEPT ![r].phase = "look"]
    /\ UNCHANGED <<call, job, notice, conversation, owner, unread, cut>>

(* The next item, or the end of the payload.                               *)
Advanced(r) ==
    IF Last(r) THEN [run EXCEPT ![r].phase = "complete", ![r].into = None]
    ELSE [run EXCEPT ![r].phase = "look", ![r].at = @ + 1, ![r].into = None]

(* The item is a duplicate, or a conversation of its sender is looked for: *)
(* the one updated last, which can be any of several.  One step, because   *)
(* whoever stores the message in between makes the insert fail.            *)
Look(r) ==
    /\ run[r].phase = "look"
    /\ \/ Stored(Item(r)) /\ run' = Advanced(r)
       \/ /\ ~ Stored(Item(r))
          /\ \E c \in Conversations :
                /\ owner[c] = From[Item(r)]
                /\ run' = [run EXCEPT ![r].phase = "create", ![r].into = c]
       \/ /\ ~ Stored(Item(r))
          /\ \A c \in Conversations : owner[c] # From[Item(r)]
          /\ run' = [run EXCEPT ![r].phase = "open"]
    /\ UNCHANGED <<event, call, job, notice, conversation, owner, unread, cut>>

(* No unique index stands behind the creation of a conversation.           *)
Open(r) ==
    /\ run[r].phase = "open"
    /\ \E c \in Conversations :
          /\ owner[c] = None /\ c = NextConversation
          /\ owner' = [owner EXCEPT ![c] = From[Item(r)]]
          /\ run' = [run EXCEPT ![r].phase = "create", ![r].into = c]
    /\ UNCHANGED <<event, call, job, notice, conversation, unread, cut>>

(* Mutation: the unique index on the provider id is missing.               *)
InsertableAlways(m) == TRUE

Insertable(m) == ~ Stored(m)

Create(r) ==
    /\ run[r].phase = "create"
    /\ Insertable(Item(r))
    /\ conversation' = [conversation EXCEPT ![Item(r)] = run[r].into]
    /\ run' = [run EXCEPT ![r].phase = "touch"]
    /\ UNCHANGED <<event, call, job, notice, owner, unread, cut>>

(* touchConversation increments unreadCount, outside any transaction.      *)
Touch(r) ==
    /\ run[r].phase = "touch"
    /\ unread' = [unread EXCEPT ![run[r].into] = @ + 1]
    /\ run' = Advanced(r)
    /\ UNCHANGED <<event, call, job, notice, conversation, owner, cut>>

(* Mutation: one attempt too early.                                        *)
ExhaustedEarly(made) == made + 1 >= JobAttempts

(* handleFailedJob: only an exhausted job is dead-lettered.                *)
Exhausted(made) == made >= JobAttempts

JobFails(j, made, state) ==
    /\ job' = [job EXCEPT ![j] = [@ EXCEPT !.state = state, !.made = made, !.holder = None]]
    /\ notice' = IF state = "failed" /\ Exhausted(made) THEN notice \cup {j} ELSE notice

(* Mutation: the limit on attempts is forgotten.                           *)
StateAfterNoLimit(made) == "waiting"

StateAfter(made) == IF made >= JobAttempts THEN "failed" ELSE "waiting"

(* The handler throws; BullMQ counts the attempt of the job's holder.      *)
Throws(r) ==
    LET j    == run[r].job
        made == job[j].made + 1
    IN  IF Holds(r)
        THEN JobFails(j, made, StateAfter(made))
        ELSE UNCHANGED <<job, notice>>

(* PROCESSED, by id; the job completes, unless the process stops in        *)
(* between or the write is reported as failed.                             *)
Complete(r) ==
    /\ run[r].phase = "complete"
    /\ event' = [event EXCEPT ![EventOf(run[r].job)] = "PROCESSED"]
    /\ \/ /\ job' = IF Holds(r) THEN [job EXCEPT ![run[r].job] = NoJob] ELSE job
          /\ UNCHANGED notice
       \/ UNCHANGED <<job, notice>>
       \/ Throws(r)
    /\ run' = [run EXCEPT ![r] = IdleRun]
    /\ UNCHANGED <<call, conversation, owner, unread, cut>>

Ended(r) ==
    /\ run' = [run EXCEPT ![r] = IdleRun]
    /\ cut' = IF run[r].phase = "touch" THEN cut \cup {Item(r)} ELSE cut
    /\ UNCHANGED <<event, call, conversation, owner, unread>>

(* The insert violates the unique index: nothing catches that.             *)
Reject(r) ==
    /\ run[r].phase = "create"
    /\ ~ Insertable(Item(r))
    /\ Throws(r)
    /\ Ended(r)

(* Any statement may throw, also one that was applied.                     *)
Throw(r) ==
    /\ run[r].phase # "idle"
    /\ Throws(r)
    /\ Ended(r)

(* The process of a run stops.                                             *)
Crash(r) ==
    /\ run[r].phase # "idle"
    /\ Ended(r)
    /\ UNCHANGED <<job, notice>>

(* The lock of an active job was not renewed: once it is handed out again, *)
(* the second time it fails (maxStalledCount = 1).                         *)
Stall(j) ==
    /\ job[j].state = "active"
    /\ \/ /\ ~ job[j].stalled
          /\ job' = [job EXCEPT ![j] = [@ EXCEPT !.state = "waiting", !.stalled = TRUE,
                                                 !.holder = None]]
          /\ UNCHANGED notice
       \/ /\ job[j].stalled
          /\ \E made \in {job[j].made, job[j].made + 1} : JobFails(j, made, "failed")
    /\ UNCHANGED <<event, call, run, conversation, owner, unread, cut>>

(* handleFailedJob writes FAILED by id whenever its turn comes, or never   *)
(* when the process stops first.                                           *)
DeadLetter(j) ==
    /\ j \in notice
    /\ notice' = notice \ {j}
    /\ event' = [event EXCEPT ![EventOf(j)] = "FAILED"]
    /\ UNCHANGED <<call, job, run, conversation, owner, unread, cut>>

-------------------------------------------------------------------------------
EventStep(e) ==
    \/ Receive(e)
    \/ \E n \in 1 .. MaxReplays, force \in BOOLEAN : Replay(e, n, force)

CallStep(j) == Add(j) \/ AddRefused(j)

Begin(j) == Skip(j) \/ \E r \in Runs : Take(r, j)

Proceed(r) ==
    \/ Mark(r)
    \/ Look(r)
    \/ Open(r)
    \/ Create(r)
    \/ Reject(r)
    \/ Touch(r)
    \/ Complete(r)

Next ==
    \/ \E e \in Events : EventStep(e)
    \/ \E j \in Jobs : CallStep(j) \/ Begin(j) \/ Stall(j) \/ DeadLetter(j)
    \/ \E r \in Runs : Proceed(r) \/ Throw(r) \/ Crash(r)

Spec == Init /\ [][Next]_vars

(* Some worker goes on, some job is begun, some stalled job is found       *)
(* (BullMQ looks every 30 s): jobs are few enough for that to reach all.   *)
Fairness ==
    /\ WF_vars(\E r \in Runs : Proceed(r))
    /\ WF_vars(\E j \in Jobs : Begin(j))
    /\ WF_vars(\E j \in Jobs : Stall(j))

FairSpec == Spec /\ Fairness

-------------------------------------------------------------------------------
TypeOK ==
    /\ event \in [Events -> Statuses]
    /\ call \in [Jobs -> {"none", "add", "acknowledged", "lost", "refused"}]
    /\ job \in [Jobs -> Job]
    /\ run \in [Runs -> Run]
    /\ notice \subseteq Jobs
    /\ conversation \in [Messages -> Conversations \cup {None}]
    /\ owner \in [Conversations -> Customers \cup {None}]
    /\ unread \in [Conversations -> Nat]
    /\ cut \subseteq Messages

(* PROCESSED can be believed (an operator needs force to replay it,        *)
(* whatsapp-webhook.service.ts:96): every message of the payload is        *)
(* stored, whatever repeated, hung or stale runs have done with it.        *)
ProcessedStored ==
    \A e \in Events : event[e] = "PROCESSED" =>
        \A i \in 1 .. Len(Items[e]) : Stored(Items[e][i])

(* "inbound cria mensagem e não duplica webhook repetido"                  *)
(* (whatsapp.service.spec.ts:27), for what the inbox shows: a conversation *)
(* counts each of its messages once, however often the provider, the queue *)
(* and operators repeat it.  A message is only left out when its run ended *)
(* between the insert and the counter.                                     *)
Touching(m) == \E r \in Runs : run[r].phase = "touch" /\ Item(r) = m
Counted(c) == {m \in Messages : conversation[m] = c /\ m \notin cut /\ ~ Touching(m)}
CountedOnce == \A c \in Conversations : unread[c] = Cardinality(Counted(c))

(* The webhook, read message by message, as the inbox it fills.            *)
Messaged == [e \in Events |-> {Items[e][i] : i \in 1 .. Len(Items[e])}]

Inbox == INSTANCE Inbox WITH
    Calls    <- Events,
    Contents <- Messaged,
    filed    <- conversation,
    pending  <- {m \in Messages : Touching(m)},
    done     <- {e \in Events : event[e] = "PROCESSED"}

(* All of this together implements the inbox: repeated calls, stalled jobs *)
(* and replays file every message once, under its sender, count it once at *)
(* most, and a call is PROCESSED only when all it brought is filed.        *)
InboxSpec == Inbox!Spec

(* FAILED is what an operator may replay without force: it is only reached *)
(* when a job of the event has used up its attempts or a call found no     *)
(* queue.                                                                  *)
FailedForGood ==
    \A e \in Events : event[e] = "FAILED" =>
        \E j \in Jobs : /\ EventOf(j) = e
                        /\ \/ job[j].state = "failed" /\ job[j].made = JobAttempts
                           \/ call[j] = "refused"

(* What was acknowledged to the provider nobody sends again: its messages  *)
(* are stored, or its job is kept as a failed one.                         *)
AcknowledgedStored ==
    \A e \in Events : call[<<e, 0>>] = "acknowledged" ~>
        \/ \A i \in 1 .. Len(Items[e]) : Stored(Items[e][i])
        \/ job[<<e, 0>>].state = "failed"
===============================================================================
