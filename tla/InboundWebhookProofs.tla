-------------------------- MODULE InboundWebhookProofs --------------------------
(***************************************************************************)
(* Proofs about InboundWebhook, for any events, payloads, senders and      *)
(* numbers of runs, attempts and replays.                                  *)
(***************************************************************************)
EXTENDS InboundWebhook, FiniteSetTheorems, TLAPS

(* A job that may still run has attempts left, only an active job has a    *)
(* holder, and no job exists before its call has ended.                    *)
JobsRun ==
    \A j \in Jobs :
        /\ job[j].state \in {"waiting", "active"} => job[j].made < JobAttempts
        /\ job[j].holder # None => job[j].state = "active"
        /\ call[j] \in {"none", "add", "refused"} => job[j].state = "none"

(* Nobody enqueues an event before it is stored.                           *)
NotYet == \A e \in Events : event[e] = "ABSENT" => call[<<e, 0>>] = "none"

(* A failure is only announced when the attempts are used up, for good.    *)
Announced == \A j \in notice : job[j].state = "failed" /\ job[j].made = JobAttempts

(* The item a run x is at.                                                 *)
ItemOf(x) == Items[EventOf(x.job)][x.at]

(* What a run x may rely on, given where messages are stored and which     *)
(* were cut: all items before its own are stored, and the one it is about  *)
(* to count is stored where it will be counted.                            *)
Sound(x, conv, ended) ==
    x.phase # "idle" =>
        /\ x.job \in Jobs
        /\ x.at \in 1 .. Len(Items[EventOf(x.job)])
        /\ \A i \in 1 .. Len(Items[EventOf(x.job)]) :
              i < x.at \/ x.phase = "complete" => conv[Items[EventOf(x.job)][i]] # None
        /\ x.phase \in {"create", "touch"} => x.into \in Conversations
        /\ x.phase = "touch" => conv[ItemOf(x)] = x.into /\ ItemOf(x) \notin ended

Working == \A r \in Runs : Sound(run[r], conversation, cut)

(* Only the run that stored a message is going to count it.                *)
Touches(r, m) == run[r].phase = "touch" /\ ItemOf(run[r]) = m

OneCounts ==
    \A r, q \in Runs : \A m \in Messages : Touches(r, m) /\ Touches(q, m) => r = q

CutStored == \A m \in cut : Stored(m)

IInv ==
    /\ TypeOK
    /\ JobsRun
    /\ NotYet
    /\ Announced
    /\ Working
    /\ OneCounts
    /\ CutStored
    /\ ProcessedStored
    /\ CountedOnce
    /\ FailedForGood

-------------------------------------------------------------------------------
(* The operators.                                                          *)
LEMMA ItemsType ==
    ASSUME NEW e \in Events
    PROVE  /\ Len(Items[e]) \in Nat /\ Len(Items[e]) >= 1
           /\ \A i \in 1 .. Len(Items[e]) : Items[e][i] \in Messages
<1>1. Items[e] \in Seq(Messages) /\ Items[e] # <<>>
  BY InboundAssumption
<1> QED
  BY <1>1

LEMMA JobsType ==
    /\ \A j \in Jobs : EventOf(j) \in Events
    /\ \A e \in Events : <<e, 0>> \in Jobs
    /\ \A e \in Events, n \in 1 .. MaxReplays : <<e, n>> \in Jobs
    /\ \A e \in Events, n \in 0 .. MaxReplays : EventOf(<<e, n>>) = e
  BY InboundAssumption DEF Jobs, EventOf

LEMMA NoJobType == NoJob \in Job
  BY InboundAssumption DEF NoJob, Job

LEMMA IdleType == IdleRun \in Run /\ IdleRun.phase = "idle"
  BY InboundAssumption DEF IdleRun, Run

LEMMA WorkingItem ==
    ASSUME NEW x, NEW conv, NEW ended, Sound(x, conv, ended), x.phase # "idle"
    PROVE  /\ x.job \in Jobs /\ EventOf(x.job) \in Events
           /\ x.at \in 1 .. Len(Items[EventOf(x.job)])
           /\ ItemOf(x) \in Messages
<1>1. x.job \in Jobs /\ x.at \in 1 .. Len(Items[EventOf(x.job)])
  BY DEF Sound
<1>2. EventOf(x.job) \in Events
  BY <1>1, JobsType
<1> QED
  BY <1>1, <1>2, ItemsType DEF ItemOf

-------------------------------------------------------------------------------
(* What no step undoes.                                                    *)
Grows == \A m \in Messages : Stored(m) => conversation'[m] = conversation[m]

(* A run that does not move stays sound.                                   *)
LEMMA StaysSound ==
    ASSUME NEW x, Sound(x, conversation, cut), Grows,
           x.phase = "touch" => ItemOf(x) \notin cut'
    PROVE  Sound(x, conversation', cut')
<1> SUFFICES ASSUME x.phase # "idle" PROVE Sound(x, conversation', cut')
  BY DEF Sound
<1>1. EventOf(x.job) \in Events /\ ItemOf(x) \in Messages
  BY WorkingItem
<1>2. \A i \in 1 .. Len(Items[EventOf(x.job)]) :
         conversation[Items[EventOf(x.job)][i]] # None =>
             conversation'[Items[EventOf(x.job)][i]] # None
  BY <1>1, ItemsType DEF Grows, Stored
<1>3. ASSUME x.phase = "touch" PROVE conversation'[ItemOf(x)] = x.into
  <2>1. conversation[ItemOf(x)] = x.into /\ x.into # None
    BY <1>3, InboundAssumption DEF Sound
  <2> QED
    BY <2>1, <1>1 DEF Grows, Stored
<1> QED
  BY <1>2, <1>3 DEF Sound

(* Counting is the same when the same messages are stored, cut and about   *)
(* to be counted.                                                          *)
Pending == {m \in Messages : \E r \in Runs : Touches(r, m)}

LEMMA CountedIs ==
    \A c : Counted(c) = {m \in Messages : conversation[m] = c /\ m \notin cut /\ m \notin Pending}
  BY DEF Counted, Touching, Touches, Pending, Item, ItemOf

LEMMA CountedIsNext ==
    \A c : Counted(c)' = {m \in Messages : conversation'[m] = c /\ m \notin cut' /\ m \notin Pending'}
  BY DEF Counted, Touching, Touches, Pending, Item, ItemOf

LEMMA SameCount ==
    ASSUME CountedOnce, unread' = unread,
           \A m \in Messages : \A c \in Conversations :
               (conversation'[m] = c /\ m \notin cut' /\ m \notin Pending')
                   <=> (conversation[m] = c /\ m \notin cut /\ m \notin Pending)
    PROVE  CountedOnce'
<1> SUFFICES ASSUME NEW c \in Conversations PROVE unread'[c] = Cardinality(Counted(c)')
  BY DEF CountedOnce
<1>1. Counted(c)' = Counted(c)
  BY CountedIs, CountedIsNext
<1> QED
  BY <1>1 DEF CountedOnce

(* Nothing that is stored and no status of an event changes for the worse. *)
LEMMA StillProcessed ==
    ASSUME ProcessedStored, Grows,
           \A e \in Events : event'[e] = "PROCESSED" => event[e] = "PROCESSED"
    PROVE  ProcessedStored'
<1> SUFFICES ASSUME NEW e \in Events, event'[e] = "PROCESSED",
                    NEW i \in 1 .. Len(Items[e])
             PROVE  conversation'[Items[e][i]] # None
  BY DEF ProcessedStored, Stored
<1>1. Stored(Items[e][i])
  BY DEF ProcessedStored
<1> QED
  BY <1>1, ItemsType DEF Grows, Stored

LEMMA StillForGood ==
    ASSUME FailedForGood,
           \A e \in Events : event'[e] = "FAILED" => event[e] = "FAILED",
           \A j \in Jobs : /\ job[j].state = "failed" => job'[j] = job[j]
                           /\ call[j] = "refused" => call'[j] = "refused"
    PROVE  FailedForGood'
  BY DEF FailedForGood

(* Steps that touch no run and no message.                                 *)
LEMMA RunsRest ==
    ASSUME IInv, UNCHANGED <<run, conversation, unread, cut>>
    PROVE  /\ Grows /\ Working' /\ OneCounts' /\ CutStored' /\ CountedOnce'
<1>1. Grows
  BY DEF Grows
<1>2. Working' /\ OneCounts' /\ CutStored'
  BY DEF IInv, Working, OneCounts, CutStored, Touches, Stored
<1>3. CountedOnce'
  <2>1. Pending' = Pending
    BY DEF Pending, Touches
  <2> QED
    BY <2>1, SameCount DEF IInv
<1> QED
  BY <1>1, <1>2, <1>3

-------------------------------------------------------------------------------
LEMMA InitInv == Init => IInv
<1> SUFFICES ASSUME Init PROVE IInv
  OBVIOUS
<1> USE DEF Init
<1>1. TypeOK
  BY NoJobType, IdleType, InboundAssumption DEF TypeOK, Statuses
<1>2. JobsRun /\ NotYet /\ Announced
  BY JobsType DEF JobsRun, NotYet, Announced, NoJob
<1>3. Working /\ OneCounts /\ CutStored
  BY IdleType DEF Working, Sound, OneCounts, CutStored, Touches
<1>4. ProcessedStored /\ FailedForGood
  BY DEF ProcessedStored, FailedForGood
<1>5. CountedOnce
  <2>1. \A c \in Conversations : Counted(c) = {}
    BY InboundAssumption DEF Counted
  <2> QED
    BY <2>1, FS_EmptySet DEF CountedOnce
<1> QED
  BY <1>1, <1>2, <1>3, <1>4, <1>5 DEF IInv

-------------------------------------------------------------------------------
(* Steps of the calls, of BullMQ and of the failure handler.               *)
LEMMA ReceiveInv == ASSUME IInv, NEW e \in Events, Receive(e) PROVE IInv'
<1> USE DEF Receive
<1>1. <<e, 0>> \in Jobs /\ call[<<e, 0>>] = "none"
  BY JobsType DEF IInv, NotYet
<1>2. TypeOK'
  BY <1>1 DEF IInv, TypeOK, Statuses
<1>3. \A j \in Jobs : call'[j] = call[j] \/ (call[j] = "none" /\ call'[j] = "add")
  BY <1>1 DEF IInv, TypeOK
<1>4. \A f \in Events : f # e => event'[f] = event[f] /\ call'[<<f, 0>>] = call[<<f, 0>>]
  BY <1>1, JobsType DEF IInv, TypeOK
<1>5. event'[e] = "RECEIVED"
  BY DEF IInv, TypeOK
<1>6. JobsRun' /\ NotYet' /\ Announced'
  BY <1>3, <1>4, <1>5 DEF IInv, JobsRun, NotYet, Announced
<1>7. ProcessedStored' /\ FailedForGood'
  BY <1>3, <1>4, <1>5, RunsRest, StillProcessed, StillForGood DEF IInv
<1> QED
  BY <1>2, <1>6, <1>7, RunsRest DEF IInv

LEMMA ReplayInv ==
    ASSUME IInv, NEW e \in Events, NEW n \in 1 .. MaxReplays, NEW force \in BOOLEAN,
           Replay(e, n, force)
    PROVE  IInv'
<1> USE DEF Replay
<1>1. <<e, n>> \in Jobs /\ call[<<e, n>>] = "none"
  BY JobsType
<1>2. TypeOK'
  BY <1>1 DEF IInv, TypeOK
<1>3. \A j \in Jobs : call'[j] = call[j] \/ (call[j] = "none" /\ call'[j] = "add")
  BY <1>1 DEF IInv, TypeOK
<1>4. \A f \in Events : call'[<<f, 0>>] = call[<<f, 0>>]
  <2>1. n # 0
    BY InboundAssumption
  <2>2. \A f \in Events : <<f, 0>> # <<e, n>> /\ <<f, 0>> \in Jobs
    BY <2>1, JobsType
  <2> QED
    BY <1>1, <2>2 DEF IInv, TypeOK
<1>6. JobsRun' /\ NotYet' /\ Announced'
  BY <1>3, <1>4 DEF IInv, JobsRun, NotYet, Announced
<1>7. ProcessedStored' /\ FailedForGood'
  BY <1>3, RunsRest, StillProcessed, StillForGood DEF IInv
<1> QED
  BY <1>2, <1>6, <1>7, RunsRest DEF IInv

LEMMA AddInv == ASSUME IInv, NEW j \in Jobs, Add(j) PROVE IInv'
<1> USE DEF Add
<1>1. PICK answer \in {"acknowledged", "lost"} : call' = [call EXCEPT ![j] = answer]
  OBVIOUS
<1> DEFINE new == [NoJob EXCEPT !.state = "waiting"]
<1>3. new \in Job /\ new.state = "waiting" /\ new.made = 0 /\ new.holder = None
  <2>1. new \in Job
    BY NoJobType DEF Job
  <2>2. new.state = "waiting" /\ new.made = 0 /\ new.holder = None
    BY DEF NoJob
  <2> QED
    BY <2>1, <2>2
<1>4. job' = [job EXCEPT ![j] = new]
  OBVIOUS
<1>5. job[j].state = "none"
  BY DEF IInv, JobsRun
<1> HIDE DEF new
<1>6. TypeOK'
  BY <1>1, <1>3, <1>4 DEF IInv, TypeOK
<1>7. job'[j] = new /\ call'[j] = answer /\ \A k \in Jobs : k # j => job'[k] = job[k] /\ call'[k] = call[k]
  BY <1>1, <1>4 DEF IInv, TypeOK
<1>8. JobsRun'
  <2>1. 0 < JobAttempts
    BY InboundAssumption
  <2>2. answer \notin {"none", "add", "refused"}
    BY <1>1
  <2> QED
    BY <1>3, <1>7, <2>1, <2>2 DEF IInv, JobsRun
<1>9. Announced'
  BY <1>5, <1>7 DEF IInv, Announced, TypeOK
<1>10. NotYet'
  BY <1>7, JobsType DEF IInv, NotYet
<1>11. ProcessedStored' /\ FailedForGood'
  BY <1>5, <1>7, RunsRest, StillProcessed, StillForGood DEF IInv
<1> QED
  BY <1>6, <1>8, <1>9, <1>10, <1>11, RunsRest DEF IInv

LEMMA AddRefusedInv == ASSUME IInv, NEW j \in Jobs, AddRefused(j) PROVE IInv'
<1> USE DEF AddRefused
<1> DEFINE e == EventOf(j)
<1>1. e \in Events
  BY JobsType
<1>2. TypeOK'
  BY <1>1 DEF IInv, TypeOK, Statuses
<1>3. call'[j] = "refused" /\ \A k \in Jobs : k # j => call'[k] = call[k]
  BY DEF IInv, TypeOK
<1>4. \A f \in Events : event'[f] = event[f] \/ (f = e /\ event'[f] = "FAILED" /\ event[f] = "RECEIVED")
  BY <1>1 DEF IInv, TypeOK
<1>5. JobsRun' /\ Announced'
  BY <1>3 DEF IInv, JobsRun, Announced
<1>6. NotYet'
  BY <1>3, <1>4, JobsType DEF IInv, NotYet
<1>7. ProcessedStored'
  BY <1>4, RunsRest, StillProcessed DEF IInv
<1>8. FailedForGood'
  BY <1>3, <1>4 DEF IInv, FailedForGood
<1> QED
  BY <1>2, <1>5, <1>6, <1>7, <1>8, RunsRest DEF IInv

(* A job that is not failed may become anything that runs, ends or fails   *)
(* for good.                                                               *)
JobMoves(j) ==
    /\ job[j].state \in {"waiting", "active"}
    /\ job' \in [Jobs -> Job]
    /\ \A k \in Jobs : k # j => job'[k] = job[k]
    /\ job'[j].state \in {"waiting", "active"} => job'[j].made < JobAttempts
    /\ job'[j].holder # None => job'[j].state = "active"
    /\ notice' \subseteq notice \cup {j}
    /\ j \in notice' => job'[j].state = "failed" /\ job'[j].made = JobAttempts

LEMMA MovesInv ==
    ASSUME IInv, NEW j \in Jobs, JobMoves(j) \/ UNCHANGED <<job, notice>>, call' = call
    PROVE  /\ job' \in [Jobs -> Job] /\ notice' \subseteq Jobs /\ JobsRun' /\ Announced'
           /\ \A k \in Jobs : job[k].state = "failed" => job'[k] = job[k]
<1>1. CASE UNCHANGED <<job, notice>>
  BY <1>1 DEF IInv, TypeOK, JobsRun, Announced
<1>2. CASE JobMoves(j)
  <2>1. job[j].state \in {"waiting", "active"}
    BY <1>2 DEF JobMoves
  <2>2. job' \in [Jobs -> Job] /\ notice' \subseteq Jobs
    BY <1>2 DEF JobMoves, IInv, TypeOK
  <2>3. JobsRun'
    BY <1>2 DEF JobMoves, IInv, JobsRun
  <2>4. Announced'
    BY <1>2 DEF JobMoves, IInv, Announced, TypeOK
  <2> QED
    BY <1>2, <2>1, <2>2, <2>3, <2>4 DEF JobMoves
<1> QED
  BY <1>1, <1>2

LEMMA FailsMoves ==
    ASSUME IInv, NEW j \in Jobs, job[j].state \in {"waiting", "active"},
           NEW made \in {job[j].made, job[j].made + 1}, NEW state \in {"waiting", "failed"},
           state = "waiting" => made < JobAttempts,
           JobFails(j, made, state)
    PROVE  JobMoves(j)
<1>1. job[j] \in Job /\ job[j].made < JobAttempts /\ JobAttempts \in Nat
  BY InboundAssumption DEF IInv, TypeOK, JobsRun
<1>2. made \in 0 .. JobAttempts
  BY <1>1 DEF Job
<1> DEFINE new == [job[j] EXCEPT !.state = state, !.made = made, !.holder = None]
<1>3. new \in Job /\ new.state = state /\ new.made = made /\ new.holder = None
  BY <1>1, <1>2 DEF Job
<1>4. job' = [job EXCEPT ![j] = new]
  BY DEF JobFails
<1> HIDE DEF new
<1>5. job' \in [Jobs -> Job] /\ job'[j] = new /\ \A k \in Jobs : k # j => job'[k] = job[k]
  BY <1>3, <1>4 DEF IInv, TypeOK
<1>6. j \notin notice
  BY DEF IInv, Announced
<1>7. notice' \subseteq notice \cup {j} /\ (j \in notice' => state = "failed" /\ made = JobAttempts)
  BY <1>1, <1>2, <1>6 DEF JobFails, Exhausted
<1> QED
  BY <1>3, <1>5, <1>7 DEF JobMoves

LEMMA StallInv == ASSUME IInv, NEW j \in Jobs, Stall(j) PROVE IInv'
<1> USE DEF Stall
<1>1. JobMoves(j)
  <2>1. CASE job[j].stalled
    <3>1. PICK made \in {job[j].made, job[j].made + 1} : JobFails(j, made, "failed")
      BY <2>1
    <3> QED
      BY <3>1, FailsMoves
  <2>2. CASE ~ job[j].stalled
    <3> DEFINE new == [job[j] EXCEPT !.state = "waiting", !.stalled = TRUE, !.holder = None]
    <3>1. job[j] \in Job /\ job[j].made < JobAttempts /\ j \notin notice
      BY DEF IInv, TypeOK, JobsRun, Announced
    <3>2. new \in Job /\ new.state = "waiting" /\ new.made = job[j].made /\ new.holder = None
      BY <3>1 DEF Job
    <3>3. job' = [job EXCEPT ![j] = new] /\ notice' = notice
      BY <2>2
    <3> HIDE DEF new
    <3>4. job' \in [Jobs -> Job] /\ job'[j] = new /\ \A k \in Jobs : k # j => job'[k] = job[k]
      BY <3>2, <3>3 DEF IInv, TypeOK
    <3> QED
      BY <3>1, <3>2, <3>3, <3>4 DEF JobMoves
  <2> QED
    BY <2>1, <2>2
<1>2. TypeOK'
  BY <1>1, MovesInv DEF IInv, TypeOK
<1>3. NotYet' /\ ProcessedStored' /\ FailedForGood'
  BY <1>1, MovesInv, RunsRest, StillProcessed, StillForGood DEF IInv, NotYet
<1> QED
  BY <1>1, <1>2, <1>3, MovesInv, RunsRest DEF IInv

LEMMA SkipInv == ASSUME IInv, NEW j \in Jobs, Skip(j) PROVE IInv'
<1> USE DEF Skip
<1>1. JobMoves(j)
  <2>1. job' \in [Jobs -> Job] /\ job'[j] = NoJob /\ \A k \in Jobs : k # j => job'[k] = job[k]
    BY NoJobType DEF IInv, TypeOK
  <2>2. j \notin notice
    BY DEF IInv, Announced
  <2> QED
    BY <2>1, <2>2 DEF JobMoves, NoJob
<1>2. TypeOK'
  BY <1>1, MovesInv DEF IInv, TypeOK
<1>3. NotYet' /\ ProcessedStored' /\ FailedForGood'
  BY <1>1, MovesInv, RunsRest, StillProcessed, StillForGood DEF IInv, NotYet
<1> QED
  BY <1>1, <1>2, <1>3, MovesInv, RunsRest DEF IInv

LEMMA DeadLetterInv == ASSUME IInv, NEW j \in Jobs, DeadLetter(j) PROVE IInv'
<1> USE DEF DeadLetter
<1> DEFINE e == EventOf(j)
<1>1. e \in Events /\ job[j].state = "failed" /\ job[j].made = JobAttempts
  BY JobsType DEF IInv, Announced
<1>2. TypeOK'
  BY <1>1 DEF IInv, TypeOK, Statuses
<1>3. event'[e] = "FAILED" /\ \A f \in Events : f # e => event'[f] = event[f]
  BY <1>1 DEF IInv, TypeOK
<1>4. JobsRun' /\ NotYet' /\ Announced'
  BY <1>3 DEF IInv, JobsRun, NotYet, Announced
<1>5. ProcessedStored'
  BY <1>3, RunsRest, StillProcessed DEF IInv
<1>6. FailedForGood'
  BY <1>1, <1>3 DEF IInv, FailedForGood
<1> QED
  BY <1>2, <1>4, <1>5, <1>6, RunsRest DEF IInv

-------------------------------------------------------------------------------
(* Steps of a run r.                                                       *)
RunMoves(r) ==
    /\ run' \in [Runs -> Run]
    /\ \A q \in Runs : q # r => run'[q] = run[q]

(* A step that has nothing to do with counting.                            *)
LEMMA PlainStep ==
    ASSUME IInv, NEW r \in Runs, RunMoves(r), UNCHANGED <<conversation, unread, cut>>,
           run[r].phase # "touch", run'[r].phase # "touch", Sound(run'[r], conversation, cut)
    PROVE  Grows /\ Working' /\ OneCounts' /\ CutStored' /\ CountedOnce'
<1>1. Grows /\ CutStored'
  BY DEF Grows, IInv, CutStored, Stored
<1>2. Working'
  BY DEF RunMoves, IInv, Working
<1>3. \A q \in Runs : \A m : Touches(q, m)' <=> Touches(q, m)
  BY DEF Touches, RunMoves
<1>4. OneCounts'
  BY <1>3 DEF IInv, OneCounts
<1>5. Pending' = Pending
  BY <1>3 DEF Pending
<1>6. CountedOnce'
  BY <1>5, SameCount DEF IInv
<1> QED
  BY <1>1, <1>2, <1>4, <1>6

LEMMA RunIs ==
    ASSUME IInv, NEW r \in Runs
    PROVE  run[r] \in Run /\ Sound(run[r], conversation, cut)
  BY DEF IInv, TypeOK, Working

LEMMA MovesTo ==
    ASSUME IInv, NEW r \in Runs, NEW x \in Run, run' = [run EXCEPT ![r] = x]
    PROVE  RunMoves(r) /\ run'[r] = x
  BY DEF IInv, TypeOK, RunMoves

(* The run goes on to the next item, or to the end.                        *)
LEMMA AdvancedTo ==
    ASSUME IInv, NEW r \in Runs, run[r].phase # "idle",
           conversation[ItemOf(run[r])] # None, run' = Advanced(r)
    PROVE  /\ RunMoves(r)
           /\ run'[r].phase \in {"look", "complete"}
           /\ Sound(run'[r], conversation, cut)
<1> DEFINE x == run[r]
           e == EventOf(x.job)
<1>1. x \in Run /\ Sound(x, conversation, cut)
  BY RunIs
<1>2. x.job \in Jobs /\ e \in Events /\ x.at \in 1 .. Len(Items[e])
  BY <1>1, WorkingItem
<1>3. Len(Items[e]) \in Nat
  BY <1>2, ItemsType
<1>4. Last(r) <=> x.at = Len(Items[e])
  BY DEF Last
<1>5. \A i \in 1 .. Len(Items[e]) : i <= x.at => conversation[Items[e][i]] # None
  <2>1. \A i \in 1 .. Len(Items[e]) : i < x.at => conversation[Items[e][i]] # None
    BY <1>1 DEF Sound
  <2>2. conversation[Items[e][x.at]] # None
    BY DEF ItemOf
  <2> QED
    BY <1>2, <1>3, <2>1, <2>2
<1>7. CASE Last(r)
  <2> DEFINE y == [x EXCEPT !.phase = "complete", !.into = None]
  <2>1. y \in Run /\ y.phase = "complete" /\ y.job = x.job /\ y.at = x.at
    BY <1>1 DEF Run
  <2>2. Sound(y, conversation, cut)
    BY <1>2, <1>3, <1>4, <1>5, <1>7, <2>1 DEF Sound
  <2>3. run' = [run EXCEPT ![r] = y]
    BY <1>7 DEF IInv, TypeOK, Advanced
  <2> HIDE DEF y
  <2> QED
    BY <2>1, <2>2, <2>3, MovesTo
<1>8. CASE ~ Last(r)
  <2> DEFINE y == [x EXCEPT !.phase = "look", !.at = x.at + 1, !.into = None]
  <2>0. x.at + 1 \in Nat /\ x.at + 1 \in 1 .. Len(Items[e])
    BY <1>2, <1>3, <1>4, <1>8
  <2>1. y \in Run /\ y.phase = "look" /\ y.job = x.job /\ y.at = x.at + 1
    BY <1>1, <2>0 DEF Run
  <2>2. Sound(y, conversation, cut)
    BY <1>2, <1>3, <1>5, <2>0, <2>1 DEF Sound
  <2>3. run' = [run EXCEPT ![r] = y]
    BY <1>8 DEF IInv, TypeOK, Advanced
  <2> HIDE DEF y
  <2> QED
    BY <2>1, <2>2, <2>3, MovesTo
<1> QED
  BY <1>7, <1>8

LEMMA ThrowsMoves ==
    ASSUME IInv, NEW r \in Runs, run[r].phase # "idle", Throws(r)
    PROVE  run[r].job \in Jobs /\ (JobMoves(run[r].job) \/ UNCHANGED <<job, notice>>)
<1> DEFINE j == run[r].job
<1>1. j \in Jobs
  BY RunIs, WorkingItem
<1>2. CASE Holds(r)
  <2>1. job[j].state = "active" /\ job[j] \in Job
    BY <1>1, <1>2, InboundAssumption DEF Holds, IInv, JobsRun, TypeOK
  <2>2. JobFails(j, job[j].made + 1, StateAfter(job[j].made + 1))
    BY <1>2 DEF Throws
  <2>3. /\ StateAfter(job[j].made + 1) \in {"waiting", "failed"}
        /\ StateAfter(job[j].made + 1) = "waiting" => job[j].made + 1 < JobAttempts
    BY <2>1, InboundAssumption DEF StateAfter, Job
  <2> HIDE DEF j
  <2> QED
    BY <1>1, <2>1, <2>2, <2>3, FailsMoves DEF j
<1>3. CASE ~ Holds(r)
  BY <1>1, <1>3 DEF Throws
<1> QED
  BY <1>2, <1>3

-------------------------------------------------------------------------------
LEMMA TakeInv == ASSUME IInv, NEW r \in Runs, NEW j \in Jobs, Take(r, j) PROVE IInv'
<1> USE DEF Take
<1> DEFINE x   == [IdleRun EXCEPT !.phase = "mark", !.job = j]
           new == [job[j] EXCEPT !.state = "active", !.holder = r]
<1>1. x \in Run /\ x.phase = "mark" /\ x.job = j /\ x.at = 1
  BY IdleType DEF IdleRun, Run
<1>2. Sound(x, conversation, cut)
  BY <1>1, JobsType, ItemsType DEF Sound
<1>3. RunMoves(r) /\ run'[r] = x
  <2> HIDE DEF x
  <2>1. run' = [run EXCEPT ![r] = x]
    BY DEF x
  <2> QED
    BY <1>1, <2>1, MovesTo
<1>4. Grows /\ Working' /\ OneCounts' /\ CutStored' /\ CountedOnce'
  BY <1>1, <1>2, <1>3, PlainStep
<1>5. JobMoves(j)
  <2>1. job[j] \in Job /\ job[j].made < JobAttempts /\ j \notin notice
    BY DEF IInv, TypeOK, JobsRun, Announced
  <2>2. new \in Job /\ new.state = "active" /\ new.made = job[j].made /\ new.holder = r
    BY <2>1 DEF Job
  <2>3. job' = [job EXCEPT ![j] = new]
    BY DEF IInv, TypeOK
  <2> HIDE DEF new
  <2>4. job' \in [Jobs -> Job] /\ job'[j] = new /\ \A k \in Jobs : k # j => job'[k] = job[k]
    BY <2>2, <2>3 DEF IInv, TypeOK
  <2> QED
    BY <2>1, <2>2, <2>4 DEF JobMoves
<1>6. TypeOK' /\ JobsRun' /\ Announced'
  BY <1>3, <1>5, MovesInv DEF IInv, TypeOK, RunMoves
<1>7. NotYet' /\ ProcessedStored' /\ FailedForGood'
  BY <1>4, <1>5, MovesInv, StillProcessed, StillForGood DEF IInv, NotYet
<1> QED
  BY <1>4, <1>6, <1>7 DEF IInv

LEMMA MarkInv == ASSUME IInv, NEW r \in Runs, Mark(r) PROVE IInv'
<1> USE DEF Mark
<1> DEFINE x == [run[r] EXCEPT !.phase = "look"]
           e == EventOf(run[r].job)
<1>1. run[r] \in Run /\ Sound(run[r], conversation, cut) /\ run[r].phase # "idle"
  BY RunIs
<1>2. e \in Events
  BY <1>1, WorkingItem
<1>3. x \in Run /\ x.phase = "look" /\ x.job = run[r].job /\ x.at = run[r].at
  BY <1>1 DEF Run
<1>4. Sound(x, conversation, cut)
  BY <1>1, <1>3 DEF Sound
<1>5. RunMoves(r) /\ run'[r] = x
  <2>1. run' = [run EXCEPT ![r] = x]
    BY DEF IInv, TypeOK
  <2> HIDE DEF x
  <2> QED
    BY <1>3, <2>1, MovesTo
<1>6. Grows /\ Working' /\ OneCounts' /\ CutStored' /\ CountedOnce'
  BY <1>3, <1>4, <1>5, PlainStep
<1>7. event' \in [Events -> Statuses] /\ \A f \in Events : event'[f] \in {event[f], "PROCESSING"}
  BY <1>2 DEF IInv, TypeOK, Statuses
<1>8. TypeOK' /\ JobsRun' /\ Announced' /\ NotYet'
  BY <1>5, <1>7 DEF IInv, TypeOK, RunMoves, JobsRun, Announced, NotYet
<1>9. ProcessedStored' /\ FailedForGood'
  BY <1>6, <1>7, StillProcessed, StillForGood DEF IInv
<1> QED
  BY <1>6, <1>8, <1>9 DEF IInv

(* Look and Open: nothing but the run, and conversations, change.          *)
LEMMA SearchInv ==
    ASSUME IInv, NEW r \in Runs, RunMoves(r), run[r].phase # "touch", run'[r].phase # "touch",
           Sound(run'[r], conversation, cut),
           owner' \in [Conversations -> Customers \cup {None}],
           UNCHANGED <<event, call, job, notice, conversation, unread, cut>>
    PROVE  IInv'
<1>1. Grows /\ Working' /\ OneCounts' /\ CutStored' /\ CountedOnce'
  BY PlainStep
<1>2. TypeOK' /\ JobsRun' /\ Announced' /\ NotYet'
  BY DEF IInv, TypeOK, RunMoves, JobsRun, Announced, NotYet
<1>3. ProcessedStored' /\ FailedForGood'
  BY <1>1, StillProcessed, StillForGood DEF IInv
<1> QED
  BY <1>1, <1>2, <1>3 DEF IInv

(* A run that has found or made a conversation for its item.               *)
LEMMA Finds ==
    ASSUME IInv, NEW r \in Runs, run[r].phase \in {"look", "open"}, NEW c \in Conversations,
           run' = [run EXCEPT ![r].phase = "create", ![r].into = c]
    PROVE  RunMoves(r) /\ run'[r].phase = "create" /\ Sound(run'[r], conversation, cut)
<1> DEFINE x == [run[r] EXCEPT !.phase = "create", !.into = c]
<1>1. run[r] \in Run /\ Sound(run[r], conversation, cut) /\ run[r].phase # "idle"
  BY RunIs
<1>2. x \in Run /\ x.phase = "create" /\ x.job = run[r].job /\ x.at = run[r].at /\ x.into = c
  BY <1>1 DEF Run
<1>3. Sound(x, conversation, cut)
  BY <1>1, <1>2 DEF Sound
<1>4. run' = [run EXCEPT ![r] = x]
  BY DEF IInv, TypeOK
<1> HIDE DEF x
<1> QED
  BY <1>2, <1>3, <1>4, MovesTo

LEMMA LookInv == ASSUME IInv, NEW r \in Runs, Look(r) PROVE IInv'
<1>1. /\ run[r].phase = "look" /\ owner' \in [Conversations -> Customers \cup {None}]
      /\ UNCHANGED <<event, call, job, notice, conversation, unread, cut>>
  BY DEF Look, IInv, TypeOK
<1>2. CASE Stored(Item(r)) /\ run' = Advanced(r)
  BY <1>1, <1>2, AdvancedTo, SearchInv DEF Stored, Item, ItemOf
<1>3. CASE \E c \in Conversations : run' = [run EXCEPT ![r].phase = "create", ![r].into = c]
  BY <1>1, <1>3, Finds, SearchInv
<1>4. CASE run' = [run EXCEPT ![r].phase = "open"]
  <2> DEFINE x == [run[r] EXCEPT !.phase = "open"]
  <2>1. run[r] \in Run /\ Sound(run[r], conversation, cut)
    BY RunIs
  <2>2. x \in Run /\ x.phase = "open" /\ x.job = run[r].job /\ x.at = run[r].at
    BY <2>1 DEF Run
  <2>3. Sound(x, conversation, cut)
    BY <1>1, <2>1, <2>2 DEF Sound
  <2>4. run' = [run EXCEPT ![r] = x]
    BY <1>4 DEF IInv, TypeOK
  <2> HIDE DEF x
  <2> QED
    BY <1>1, <2>2, <2>3, <2>4, MovesTo, SearchInv
<1> QED
  BY <1>2, <1>3, <1>4 DEF Look

LEMMA OpenInv == ASSUME IInv, NEW r \in Runs, Open(r) PROVE IInv'
<1>1. PICK c \in Conversations :
         /\ owner' = [owner EXCEPT ![c] = From[Item(r)]]
         /\ run' = [run EXCEPT ![r].phase = "create", ![r].into = c]
  BY DEF Open
<1>2. run[r].phase = "open" /\ UNCHANGED <<event, call, job, notice, conversation, unread, cut>>
  BY DEF Open
<1>3. Item(r) \in Messages
  BY <1>2, RunIs, WorkingItem DEF Item, ItemOf
<1>4. owner' \in [Conversations -> Customers \cup {None}]
  BY <1>1, <1>3, InboundAssumption DEF IInv, TypeOK
<1> QED
  BY <1>1, <1>2, <1>4, Finds, SearchInv

(* The steps that make a message count.                                    *)
LEMMA CreateInv == ASSUME IInv, NEW r \in Runs, Create(r) PROVE IInv'
<1> DEFINE x == [run[r] EXCEPT !.phase = "touch"]
           m == ItemOf(run[r])
           c == run[r].into
<1>1. /\ run[r].phase = "create" /\ ~ Stored(m)
      /\ conversation' = [conversation EXCEPT ![m] = c] /\ run' = [run EXCEPT ![r].phase = "touch"]
      /\ UNCHANGED <<event, call, job, notice, owner, unread, cut>>
  BY DEF Create, Insertable, Item, ItemOf
<1>2. run[r] \in Run /\ Sound(run[r], conversation, cut) /\ m \in Messages
  BY <1>1, RunIs, WorkingItem
<1>3. c \in Conversations /\ c # None
  BY <1>1, <1>2, InboundAssumption DEF Sound
<1>4. /\ x \in Run /\ x.phase = "touch" /\ x.job = run[r].job /\ x.at = run[r].at
      /\ x.into = c
  BY <1>2 DEF Run
<1>5. ItemOf(x) = m
  BY <1>4 DEF ItemOf
<1>6. RunMoves(r) /\ run'[r] = x
  <2>1. run' = [run EXCEPT ![r] = x]
    BY <1>1 DEF IInv, TypeOK
  <2> HIDE DEF x
  <2> QED
    BY <1>4, <2>1, MovesTo
<1> HIDE DEF x, m, c
<1>7. /\ conversation' \in [Messages -> Conversations \cup {None}]
      /\ conversation'[m] = c
      /\ \A k \in Messages : k # m => conversation'[k] = conversation[k]
  BY <1>1, <1>2, <1>3 DEF IInv, TypeOK
<1>8. Grows
  BY <1>1, <1>7 DEF Grows
<1>9. m \notin cut
  BY <1>1 DEF IInv, CutStored
<1>10. Sound(x, conversation', cut')
  <2>1. \A i \in 1 .. Len(Items[EventOf(x.job)]) :
           i < x.at => conversation'[Items[EventOf(x.job)][i]] # None
    <3>1. EventOf(x.job) \in Events
      BY <1>1, <1>2, <1>4, WorkingItem
    <3>2. \A i \in 1 .. Len(Items[EventOf(x.job)]) :
             i < x.at => Stored(Items[EventOf(x.job)][i])
      BY <1>1, <1>2, <1>4 DEF Sound, Stored
    <3> QED
      BY <3>1, <3>2, <1>8, ItemsType DEF Grows, Stored
  <2>2. x.job \in Jobs /\ x.at \in 1 .. Len(Items[EventOf(x.job)])
    BY <1>1, <1>2, <1>4 DEF Sound
  <2> QED
    BY <1>1, <1>3, <1>4, <1>5, <1>7, <1>9, <2>1, <2>2 DEF Sound
<1>11. Working'
  <2> SUFFICES ASSUME NEW q \in Runs PROVE Sound(run'[q], conversation', cut')
    BY DEF Working
  <2>1. CASE q = r
    BY <2>1, <1>6, <1>10
  <2>2. CASE q # r
    <3>1. run'[q] = run[q] /\ Sound(run[q], conversation, cut)
      BY <2>2, <1>6, RunIs DEF RunMoves
    <3>2. run[q].phase = "touch" => ItemOf(run[q]) \notin cut'
      BY <1>1, <3>1 DEF Sound
    <3> QED
      BY <3>1, <3>2, <1>8, StaysSound
  <2> QED
    BY <2>1, <2>2
<1>12. \A q \in Runs : ~ Touches(q, m)
  <2> SUFFICES ASSUME NEW q \in Runs, Touches(q, m) PROVE FALSE
    OBVIOUS
  <2>1. conversation[m] \in Conversations
    BY RunIs DEF Touches, Sound
  <2> QED
    BY <2>1, <1>1, InboundAssumption DEF Stored
<1>13. \A q \in Runs : \A k \in Messages :
          Touches(q, k)' <=> Touches(q, k) \/ (q = r /\ k = m)
  <2>1. \A k \in Messages : Touches(r, k)' <=> k = m
    BY <1>4, <1>5, <1>6 DEF Touches
  <2>2. \A k \in Messages : ~ Touches(r, k)
    BY <1>1 DEF Touches
  <2>3. \A q \in Runs : \A k \in Messages : q # r => (Touches(q, k)' <=> Touches(q, k))
    BY <1>6 DEF Touches, RunMoves
  <2> QED
    BY <2>1, <2>2, <2>3
<1>14. OneCounts'
  BY <1>12, <1>13 DEF IInv, OneCounts
<1>15. CutStored'
  BY <1>1, <1>8 DEF IInv, TypeOK, CutStored, Grows, Stored
<1>16. CountedOnce'
  <2>1. m \in Pending'
    BY <1>2, <1>13 DEF Pending
  <2>2. \A k \in Messages : k # m => (k \in Pending' <=> k \in Pending)
    BY <1>13 DEF Pending
  <2>3. \A k \in Messages : \A d \in Conversations :
           (conversation'[k] = d /\ k \notin cut' /\ k \notin Pending')
               <=> (conversation[k] = d /\ k \notin cut /\ k \notin Pending)
    BY <1>1, <1>7, <2>1, <2>2, InboundAssumption DEF Stored
  <2> QED
    BY <1>1, <2>3, SameCount DEF IInv
<1>17. TypeOK'
  BY <1>1, <1>6, <1>7 DEF IInv, TypeOK, RunMoves
<1>18. JobsRun' /\ Announced' /\ NotYet'
  BY <1>1 DEF IInv, JobsRun, Announced, NotYet
<1>19. ProcessedStored' /\ FailedForGood'
  BY <1>1, <1>8, StillProcessed, StillForGood DEF IInv
<1> QED
  BY <1>11, <1>14, <1>15, <1>16, <1>17, <1>18, <1>19 DEF IInv

(* What a run that was about to count leaves when it goes on.              *)
LEMMA LeavesCount ==
    ASSUME IInv, NEW r \in Runs, run[r].phase = "touch", RunMoves(r), run'[r].phase # "touch"
    PROVE  /\ ItemOf(run[r]) \in Messages
           /\ ItemOf(run[r]) \in Pending /\ ItemOf(run[r]) \notin Pending'
           /\ \A q \in Runs : q # r => ~ Touches(q, ItemOf(run[r]))
           /\ \A k \in Messages : k # ItemOf(run[r]) => (k \in Pending' <=> k \in Pending)
           /\ OneCounts'
<1> DEFINE m == ItemOf(run[r])
<1>1. m \in Messages
  BY RunIs, WorkingItem
<1>2. Touches(r, m) /\ \A k : Touches(r, k) => k = m
  BY DEF Touches
<1>3. \A k : ~ Touches(r, k)'
  BY DEF Touches
<1>4. \A q \in Runs : \A k : q # r => (Touches(q, k)' <=> Touches(q, k))
  BY DEF Touches, RunMoves
<1> HIDE DEF m
<1>5. \A q \in Runs : q # r => ~ Touches(q, m)
  BY <1>1, <1>2 DEF IInv, OneCounts
<1>6. OneCounts'
  BY <1>3, <1>4 DEF IInv, OneCounts
<1>7. m \in Pending /\ m \notin Pending'
  BY <1>1, <1>2, <1>3, <1>4, <1>5 DEF Pending
<1>8. \A k \in Messages : k # m => (k \in Pending' <=> k \in Pending)
  BY <1>2, <1>3, <1>4 DEF Pending
<1> QED
  BY <1>1, <1>5, <1>6, <1>7, <1>8 DEF m

LEMMA TouchInv == ASSUME IInv, NEW r \in Runs, Touch(r) PROVE IInv'
<1> DEFINE m == ItemOf(run[r])
           c == run[r].into
<1>1. /\ run[r].phase = "touch" /\ unread' = [unread EXCEPT ![c] = @ + 1] /\ run' = Advanced(r)
      /\ UNCHANGED <<event, call, job, notice, conversation, owner, cut>>
  BY DEF Touch
<1>2. Sound(run[r], conversation, cut)
  BY RunIs
<1>3. m \in Messages /\ c \in Conversations /\ conversation[m] = c /\ m \notin cut
  BY <1>1, <1>2, WorkingItem DEF Sound
<1>4. /\ RunMoves(r) /\ run'[r].phase \in {"look", "complete"}
      /\ Sound(run'[r], conversation, cut)
  BY <1>1, <1>3, AdvancedTo, InboundAssumption
<1>5. /\ m \in Pending /\ m \notin Pending' /\ OneCounts'
      /\ \A k \in Messages : k # m => (k \in Pending' <=> k \in Pending)
  BY <1>1, <1>4, LeavesCount
<1> HIDE DEF m, c
<1>6. Grows /\ CutStored'
  BY <1>1 DEF Grows, IInv, CutStored, Stored
<1>7. Working'
  BY <1>1, <1>4 DEF RunMoves, IInv, Working
<1>8. unread' \in [Conversations -> Nat] /\ unread'[c] = unread[c] + 1
      /\ \A d \in Conversations : d # c => unread'[d] = unread[d]
  BY <1>1, <1>3 DEF IInv, TypeOK
<1>9. CountedOnce'
  <2> SUFFICES ASSUME NEW d \in Conversations PROVE unread'[d] = Cardinality(Counted(d)')
    BY DEF CountedOnce
  <2>1. CASE d # c
    <3>1. Counted(d)' = Counted(d)
      BY <1>1, <1>3, <1>5, <2>1, CountedIs, CountedIsNext
    <3> QED
      BY <1>8, <2>1, <3>1 DEF IInv, CountedOnce
  <2>2. CASE d = c
    <3>1. Counted(d)' = Counted(d) \cup {m} /\ m \notin Counted(d)
      BY <1>1, <1>3, <1>5, <2>2, CountedIs, CountedIsNext
    <3>2. IsFiniteSet(Counted(d))
      <4>1. Counted(d) \subseteq Messages
        BY CountedIs
      <4> QED
        BY <4>1, FS_Subset, InboundAssumption
    <3>3. Cardinality(Counted(d)') = Cardinality(Counted(d)) + 1
      BY <3>1, <3>2, FS_AddElement
    <3> QED
      BY <1>8, <2>2, <3>3 DEF IInv, CountedOnce
  <2> QED
    BY <2>1, <2>2
<1>10. TypeOK'
  BY <1>1, <1>4, <1>8 DEF IInv, TypeOK, RunMoves
<1>11. JobsRun' /\ Announced' /\ NotYet'
  BY <1>1 DEF IInv, JobsRun, Announced, NotYet
<1>12. ProcessedStored' /\ FailedForGood'
  BY <1>1, <1>6, StillProcessed, StillForGood DEF IInv
<1> QED
  BY <1>5, <1>6, <1>7, <1>9, <1>10, <1>11, <1>12 DEF IInv

-------------------------------------------------------------------------------
(* The end of a run.                                                       *)
LEMMA IdleSound == \A conv, ended : Sound(IdleRun, conv, ended)
  BY IdleType DEF Sound

LEMMA CompleteInv == ASSUME IInv, NEW r \in Runs, Complete(r) PROVE IInv'
<1> DEFINE j == run[r].job
           e == EventOf(j)
<1>1. /\ run[r].phase = "complete" /\ event' = [event EXCEPT ![e] = "PROCESSED"]
      /\ run' = [run EXCEPT ![r] = IdleRun]
      /\ UNCHANGED <<call, conversation, owner, unread, cut>>
  BY DEF Complete
<1>2. Sound(run[r], conversation, cut) /\ j \in Jobs /\ e \in Events
  BY <1>1, RunIs, WorkingItem
<1>3. \A i \in 1 .. Len(Items[e]) : Stored(Items[e][i])
  BY <1>1, <1>2 DEF Sound, Stored
<1>4. JobMoves(j) \/ UNCHANGED <<job, notice>>
  <2>1. CASE Throws(r)
    BY <1>1, <2>1, ThrowsMoves
  <2>2. CASE UNCHANGED <<job, notice>>
    BY <2>2
  <2>3. ASSUME Holds(r), job' = [job EXCEPT ![j] = NoJob], notice' = notice
        PROVE  JobMoves(j)
    <3>1. job[j].state = "active"
      BY <1>2, <2>3, InboundAssumption DEF Holds, IInv, JobsRun
    <3>2. job' \in [Jobs -> Job] /\ job'[j] = NoJob /\ \A k \in Jobs : k # j => job'[k] = job[k]
      BY <1>2, <2>3, NoJobType DEF IInv, TypeOK
    <3>3. j \notin notice'
      BY <3>1, <2>3 DEF IInv, Announced
    <3> QED
      BY <3>1, <3>2, <3>3, <2>3 DEF JobMoves, NoJob
  <2> QED
    BY <2>1, <2>2, <2>3 DEF Complete
<1>5. RunMoves(r) /\ run'[r] = IdleRun
  BY <1>1, IdleType, MovesTo
<1> HIDE DEF j, e
<1>6. Grows /\ Working' /\ OneCounts' /\ CutStored' /\ CountedOnce'
  BY <1>1, <1>5, IdleType, IdleSound, PlainStep
<1>7. event' \in [Events -> Statuses] /\ event'[e] = "PROCESSED"
      /\ \A f \in Events : f # e => event'[f] = event[f]
  BY <1>1, <1>2 DEF IInv, TypeOK, Statuses
<1>8. TypeOK' /\ JobsRun' /\ Announced'
  BY <1>1, <1>2, <1>4, <1>5, <1>7, MovesInv DEF IInv, TypeOK, RunMoves
<1>9. NotYet'
  BY <1>1, <1>7 DEF IInv, NotYet
<1>10. ProcessedStored'
  <2> SUFFICES ASSUME NEW f \in Events, event'[f] = "PROCESSED", NEW i \in 1 .. Len(Items[f])
               PROVE  conversation'[Items[f][i]] # None
    BY DEF ProcessedStored, Stored
  <2> QED
    BY <1>1, <1>3, <1>7 DEF IInv, ProcessedStored, Stored
<1>11. FailedForGood'
  <2>1. \A k \in Jobs : job[k].state = "failed" => job'[k] = job[k]
    BY <1>1, <1>2, <1>4, MovesInv
  <2> QED
    BY <1>1, <1>7, <2>1, StillForGood DEF IInv
<1> QED
  BY <1>6, <1>8, <1>9, <1>10, <1>11 DEF IInv

LEMMA EndedInv ==
    ASSUME IInv, NEW r \in Runs, run[r].phase # "idle", Ended(r),
           Throws(r) \/ UNCHANGED <<job, notice>>
    PROVE  IInv'
<1> DEFINE j == run[r].job
           m == ItemOf(run[r])
<1>1. /\ run' = [run EXCEPT ![r] = IdleRun]
      /\ cut' = IF run[r].phase = "touch" THEN cut \cup {m} ELSE cut
      /\ UNCHANGED <<event, call, conversation, owner, unread>>
  BY DEF Ended, Item, ItemOf
<1>2. j \in Jobs /\ m \in Messages /\ Sound(run[r], conversation, cut)
  BY RunIs, WorkingItem
<1>3. JobMoves(j) \/ UNCHANGED <<job, notice>>
  BY ThrowsMoves
<1>4. RunMoves(r) /\ run'[r] = IdleRun /\ run'[r].phase = "idle"
  BY <1>1, IdleType, MovesTo
<1>5. run[r].phase = "touch" => Stored(m)
  BY <1>2, InboundAssumption DEF Sound, Stored
<1>6. ASSUME run[r].phase = "touch"
      PROVE  Grows /\ Working' /\ OneCounts' /\ CutStored' /\ CountedOnce'
  <2>1. /\ m \in Pending /\ m \notin Pending' /\ OneCounts'
        /\ \A q \in Runs : q # r => ~ Touches(q, m)
        /\ \A k \in Messages : k # m => (k \in Pending' <=> k \in Pending)
    BY <1>4, <1>6, LeavesCount
  <2>2. cut' = cut \cup {m}
    BY <1>1, <1>6
  <2> HIDE DEF m
  <2>3. Grows /\ CutStored'
    BY <1>1, <1>5, <1>6, <2>2 DEF Grows, IInv, CutStored, Stored
  <2>4. Working'
    <3> SUFFICES ASSUME NEW q \in Runs PROVE Sound(run'[q], conversation', cut')
      BY DEF Working
    <3>1. CASE q = r
      BY <3>1, <1>4, IdleSound
    <3>2. CASE q # r
      <4>1. run'[q] = run[q] /\ Sound(run[q], conversation, cut) /\ run[q] \in Run
        BY <3>2, <1>4, RunIs DEF RunMoves
      <4>2. run[q].phase = "touch" => ItemOf(run[q]) \notin cut'
        BY <3>2, <4>1, <2>1, <2>2 DEF Sound, Touches
      <4> QED
        BY <4>1, <4>2, <2>3, StaysSound
    <3> QED
      BY <3>1, <3>2
  <2>5. CountedOnce'
    <3>1. \A k \in Messages : \A d \in Conversations :
             (conversation'[k] = d /\ k \notin cut' /\ k \notin Pending')
                 <=> (conversation[k] = d /\ k \notin cut /\ k \notin Pending)
      BY <1>1, <2>1, <2>2
    <3> QED
      BY <1>1, <3>1, SameCount DEF IInv
  <2> QED
    BY <2>1, <2>3, <2>4, <2>5
<1>7. ASSUME run[r].phase # "touch"
      PROVE  Grows /\ Working' /\ OneCounts' /\ CutStored' /\ CountedOnce'
  <2>1. UNCHANGED <<conversation, unread, cut>>
    BY <1>1, <1>7
  <2> QED
    BY <1>4, <1>7, <2>1, IdleSound, PlainStep
<1>8. cut' \subseteq Messages
  BY <1>1, <1>2 DEF IInv, TypeOK
<1>9. TypeOK' /\ JobsRun' /\ Announced'
  BY <1>1, <1>2, <1>3, <1>4, <1>8, MovesInv DEF IInv, TypeOK, RunMoves
<1>10. NotYet'
  BY <1>1 DEF IInv, NotYet
<1>11. ProcessedStored' /\ FailedForGood'
  BY <1>1, <1>2, <1>3, <1>6, <1>7, MovesInv, StillProcessed, StillForGood DEF IInv
<1> QED
  BY <1>6, <1>7, <1>9, <1>10, <1>11 DEF IInv

-------------------------------------------------------------------------------
LEMMA NextInv == IInv /\ [Next]_vars => IInv'
<1> SUFFICES ASSUME IInv, [Next]_vars PROVE IInv'
  OBVIOUS
<1>1. ASSUME NEW e \in Events, EventStep(e) PROVE IInv'
  BY <1>1, ReceiveInv, ReplayInv DEF EventStep
<1>2. ASSUME NEW j \in Jobs, CallStep(j) PROVE IInv'
  BY <1>2, AddInv, AddRefusedInv DEF CallStep
<1>3. ASSUME NEW j \in Jobs, Begin(j) PROVE IInv'
  BY <1>3, SkipInv, TakeInv DEF Begin
<1>4. ASSUME NEW j \in Jobs, Stall(j) PROVE IInv'
  BY <1>4, StallInv
<1>5. ASSUME NEW j \in Jobs, DeadLetter(j) PROVE IInv'
  BY <1>5, DeadLetterInv
<1>6. ASSUME NEW r \in Runs, Proceed(r) PROVE IInv'
  <2>1. ASSUME Reject(r) PROVE IInv'
    BY <2>1, EndedInv DEF Reject
  <2> QED
    BY <1>6, <2>1, MarkInv, LookInv, OpenInv, CreateInv, TouchInv, CompleteInv DEF Proceed
<1>7. ASSUME NEW r \in Runs, Throw(r) PROVE IInv'
  BY <1>7, EndedInv DEF Throw
<1>8. ASSUME NEW r \in Runs, Crash(r) PROVE IInv'
  BY <1>8, EndedInv DEF Crash
<1>9. ASSUME UNCHANGED vars PROVE IInv'
  <2>1. UNCHANGED <<event, call, job, run, notice, conversation, owner, unread, cut>>
    BY <1>9 DEF vars
  <2>2. TypeOK' /\ JobsRun' /\ NotYet' /\ Announced'
    BY <2>1 DEF IInv, TypeOK, JobsRun, NotYet, Announced
  <2>3. ProcessedStored' /\ FailedForGood'
    BY <2>1, RunsRest, StillProcessed, StillForGood DEF IInv
  <2> QED
    BY <2>1, <2>2, <2>3, RunsRest DEF IInv
<1> QED
  BY <1>1, <1>2, <1>3, <1>4, <1>5, <1>6, <1>7, <1>8, <1>9 DEF Next

(* The inductive invariant: every reachable state of the inbound webhook   *)
(* has all the parts of IInv.                                              *)
THEOREM Invariant == Spec => []IInv
  BY InitInv, NextInv, PTL DEF Spec

(* Every row, job and run keeps its type, and no job is ever made to run   *)
(* more than "attempts" times.                                             *)
THEOREM TypeCorrect == Spec => []TypeOK
<1>1. IInv => TypeOK
  BY DEF IInv
<1> QED
  BY Invariant, <1>1, PTL

(* An event that processInboundWebhookJob has marked PROCESSED has all its *)
(* messages stored, whatever other runs of it have done or still do.       *)
THEOREM ProcessedIsStored == Spec => []ProcessedStored
<1>1. IInv => ProcessedStored
  BY DEF IInv
<1> QED
  BY Invariant, <1>1, PTL

(* unreadCount counts each stored message of a conversation once, except   *)
(* those whose run ended between the insert and touchConversation.         *)
THEOREM InboxCountsOnce == Spec => []CountedOnce
<1>1. IInv => CountedOnce
  BY DEF IInv
<1> QED
  BY Invariant, <1>1, PTL

(* An event becomes FAILED only when a job of it has used up its attempts  *)
(* or no queue could take one.                                             *)
THEOREM FailedIsForGood == Spec => []FailedForGood
<1>1. IInv => FailedForGood
  BY DEF IInv
<1> QED
  BY Invariant, <1>1, PTL

-------------------------------------------------------------------------------
(* The refinement of Inbox.  What a run that is about to file relies on:   *)
(* the conversation it has found or opened is one of its item's sender.    *)
Addressed == \A r \in Runs : run[r].phase = "create" => owner[run[r].into] = From[ItemOf(run[r])]

Done == {e \in Events : event[e] = "PROCESSED"}

LEMMA PendingIs ==
    /\ {m \in Messages : Touching(m)} = Pending
    /\ {m \in Messages : Touching(m)}' = Pending'
  BY DEF Touching, Touches, Pending, Item, ItemOf

(* How steps of the webhook look from the inbox.                           *)
LEMMA SameInbox ==
    ASSUME UNCHANGED <<conversation, owner, unread>>, Pending' = Pending, Done' = Done
    PROVE  UNCHANGED Inbox!vars
  BY PendingIs DEF Inbox!vars, Done

LEMMA ClosesInbox ==
    ASSUME NEW e \in Events, UNCHANGED <<conversation, owner, unread>>, Pending' = Pending,
           \/ Done' = Done \ {e}
           \/ Done' = Done \cup {e} /\ \A i \in 1 .. Len(Items[e]) : Stored(Items[e][i])
    PROVE  Inbox!Next
<1>1. \A m \in Messaged[e] : Stored(m) <=> conversation[m] # None
  BY DEF Stored
<1>2. CASE Done' = Done \ {e}
  <2>1. Inbox!Reopen(e)
    BY <1>2, PendingIs DEF Inbox!Reopen, Done
  <2> QED
    BY <2>1 DEF Inbox!Next
<1>3. CASE Done' = Done \cup {e} /\ \A i \in 1 .. Len(Items[e]) : Stored(Items[e][i])
  <2>1. \A m \in Messaged[e] : conversation[m] # None
    BY <1>1, <1>3 DEF Messaged
  <2>2. Inbox!Close(e)
    BY <1>3, <2>1, PendingIs DEF Inbox!Close, Done
  <2> QED
    BY <2>2 DEF Inbox!Next
<1> QED
  BY <1>2, <1>3

(* A run that moves from and to phases without counting leaves what is     *)
(* pending.                                                                *)
LEMMA SamePending ==
    ASSUME NEW r \in Runs, RunMoves(r), run[r].phase # "touch", run'[r].phase # "touch"
    PROVE  Pending' = Pending
<1>1. \A q \in Runs : \A m : Touches(q, m)' <=> Touches(q, m)
  BY DEF Touches, RunMoves
<1> QED
  BY <1>1 DEF Pending

LEMMA RunsStill == ASSUME run' = run PROVE Pending' = Pending
  BY DEF Pending, Touches

(* Nothing before a run does to events matters to the inbox, except that a *)
(* late failure handler may take PROCESSED away.                           *)
LEMMA QueueInbox ==
    ASSUME IInv,
           \/ \E e \in Events : EventStep(e)
           \/ \E j \in Jobs : CallStep(j) \/ Begin(j) \/ Stall(j) \/ DeadLetter(j)
    PROVE  Inbox!Next \/ UNCHANGED Inbox!vars
<1> DEFINE Goal == Inbox!Next \/ UNCHANGED Inbox!vars
<1>1. ASSUME NEW e \in Events, EventStep(e) PROVE Goal
  <2>1. UNCHANGED <<run, conversation, owner, unread>>
    BY <1>1 DEF EventStep, Receive, Replay
  <2>2. Done' = Done
    BY <1>1 DEF EventStep, Receive, Replay, Done, IInv, TypeOK
  <2> QED
    BY <2>1, <2>2, RunsStill, SameInbox
<1>2. ASSUME NEW j \in Jobs, CallStep(j) \/ Skip(j) \/ Stall(j) PROVE Goal
  <2>1. UNCHANGED <<run, conversation, owner, unread>>
    BY <1>2 DEF CallStep, Add, AddRefused, Skip, Stall
  <2>2. CASE event' = event
    BY <2>1, <2>2, RunsStill, SameInbox DEF Done
  <2>3. CASE AddRefused(j)
    <3>1. Done' = Done
      BY <2>3, JobsType DEF AddRefused, Done, IInv, TypeOK
    <3> QED
      BY <2>1, <3>1, RunsStill, SameInbox
  <2> QED
    BY <1>2, <2>2, <2>3 DEF CallStep, Add, Skip, Stall
<1>3. ASSUME NEW j \in Jobs, NEW r \in Runs, Take(r, j) PROVE Goal
  <2>1. UNCHANGED <<event, conversation, owner, unread>> /\ run[r].phase = "idle"
    BY <1>3 DEF Take
  <2> DEFINE x == [IdleRun EXCEPT !.phase = "mark", !.job = j]
  <2>2. x \in Run /\ x.phase = "mark" /\ run' = [run EXCEPT ![r] = x]
    BY <1>3, IdleType DEF Take, IdleRun, Run
  <2> HIDE DEF x
  <2>3. RunMoves(r) /\ run'[r].phase = "mark"
    BY <2>2, MovesTo
  <2>4. Pending' = Pending
    BY <2>1, <2>3, SamePending
  <2> QED
    BY <2>1, <2>4, SameInbox DEF Done
<1>4. ASSUME NEW j \in Jobs, DeadLetter(j) PROVE Goal
  <2>1. UNCHANGED <<run, conversation, owner, unread>>
    BY <1>4 DEF DeadLetter
  <2>2. Done' = Done \ {EventOf(j)} /\ EventOf(j) \in Events
    BY <1>4, JobsType DEF DeadLetter, Done, IInv, TypeOK
  <2> QED
    BY <2>1, <2>2, RunsStill, ClosesInbox
<1> QED
  BY <1>1, <1>2, <1>3, <1>4 DEF Begin

(* A run that begins, searches or ends.                                    *)
LEMMA MarkInbox == ASSUME IInv, NEW r \in Runs, Mark(r) PROVE Inbox!Next
<1> DEFINE e == EventOf(run[r].job)
<1>1. run[r].phase = "mark" /\ event' = [event EXCEPT ![e] = "PROCESSING"]
      /\ run' = [run EXCEPT ![r].phase = "look"] /\ UNCHANGED <<conversation, owner, unread>>
  BY DEF Mark
<1>2. e \in Events /\ run[r] \in Run
  BY <1>1, RunIs, WorkingItem
<1>3. RunMoves(r) /\ run'[r].phase = "look"
  BY <1>1, <1>2 DEF RunMoves, IInv, TypeOK, Run
<1>4. Done' = Done \ {e}
  BY <1>1, <1>2 DEF Done, IInv, TypeOK
<1> QED
  BY <1>1, <1>2, <1>3, <1>4, SamePending, ClosesInbox

LEMMA LookInbox == ASSUME IInv, NEW r \in Runs, Look(r) PROVE UNCHANGED Inbox!vars
<1>1. run[r].phase = "look" /\ UNCHANGED <<event, conversation, owner, unread>>
  BY DEF Look
<1>2. CASE Stored(Item(r)) /\ run' = Advanced(r)
  <2>1. RunMoves(r) /\ run'[r].phase \in {"look", "complete"}
    BY <1>1, <1>2, AdvancedTo DEF Stored, Item, ItemOf
  <2> QED
    BY <1>1, <2>1, SamePending, SameInbox DEF Done
<1>3. ASSUME NEW c \in Conversations, run' = [run EXCEPT ![r].phase = "create", ![r].into = c]
      PROVE  UNCHANGED Inbox!vars
  BY <1>1, <1>3, Finds, SamePending, SameInbox DEF Done
<1>4. CASE run' = [run EXCEPT ![r].phase = "open"]
  <2>1. RunMoves(r) /\ run'[r].phase = "open"
    BY <1>4 DEF RunMoves, IInv, TypeOK, Run
  <2> QED
    BY <1>1, <2>1, SamePending, SameInbox DEF Done
<1> QED
  BY <1>2, <1>3, <1>4 DEF Look

LEMMA OpenInbox == ASSUME IInv, NEW r \in Runs, Open(r) PROVE Inbox!Next
<1>1. PICK c \in Conversations :
         /\ owner[c] = None
         /\ owner' = [owner EXCEPT ![c] = From[Item(r)]]
         /\ run' = [run EXCEPT ![r].phase = "create", ![r].into = c]
  BY DEF Open
<1>2. run[r].phase = "open" /\ UNCHANGED <<event, conversation, unread>>
  BY DEF Open
<1>3. Item(r) \in Messages
  BY <1>2, RunIs, WorkingItem DEF Item, ItemOf
<1>4. From[Item(r)] \in Customers
  BY <1>3, InboundAssumption
<1>5. Pending' = Pending
  BY <1>1, <1>2, Finds, SamePending
<1>6. Inbox!Open(c)
  BY <1>1, <1>2, <1>4, <1>5, PendingIs DEF Inbox!Open
<1> QED
  BY <1>6 DEF Inbox!Next

LEMMA CompleteInbox == ASSUME IInv, NEW r \in Runs, Complete(r) PROVE Inbox!Next
<1> DEFINE e == EventOf(run[r].job)
<1>1. run[r].phase = "complete" /\ event' = [event EXCEPT ![e] = "PROCESSED"]
      /\ run' = [run EXCEPT ![r] = IdleRun] /\ UNCHANGED <<conversation, owner, unread>>
  BY DEF Complete
<1>2. Sound(run[r], conversation, cut) /\ e \in Events
  BY <1>1, RunIs, WorkingItem
<1>3. \A i \in 1 .. Len(Items[e]) : Stored(Items[e][i])
  BY <1>1, <1>2 DEF Sound, Stored
<1>4. RunMoves(r) /\ run'[r].phase = "idle"
  BY <1>1, IdleType, MovesTo
<1>5. Done' = Done \cup {e}
  BY <1>1, <1>2 DEF Done, IInv, TypeOK
<1> QED
  BY <1>1, <1>2, <1>3, <1>4, <1>5, SamePending, ClosesInbox

(* The three steps that file, count and forget a message.                  *)
LEMMA CreateInbox == ASSUME IInv, Addressed, NEW r \in Runs, Create(r) PROVE Inbox!Next
<1> DEFINE m == ItemOf(run[r])
           c == run[r].into
<1>1. /\ run[r].phase = "create" /\ conversation[m] = None
      /\ conversation' = [conversation EXCEPT ![m] = c]
      /\ run' = [run EXCEPT ![r].phase = "touch"]
      /\ UNCHANGED <<event, owner, unread>>
  BY DEF Create, Insertable, Stored, Item, ItemOf
<1>2. run[r] \in Run /\ Sound(run[r], conversation, cut) /\ m \in Messages
  BY <1>1, RunIs, WorkingItem
<1>3. c \in Conversations /\ owner[c] = From[m]
  BY <1>1, <1>2 DEF Sound, Addressed
<1>4. run'[r].phase = "touch" /\ ItemOf(run'[r]) = m /\ \A q \in Runs : q # r => run'[q] = run[q]
  BY <1>1, <1>2 DEF IInv, TypeOK, Run, ItemOf
<1>5. Pending' = Pending \cup {m}
  <2>1. \A k \in Messages : Touches(r, k)' <=> k = m
    BY <1>4 DEF Touches
  <2>2. \A k \in Messages : ~ Touches(r, k)
    BY <1>1 DEF Touches
  <2>3. \A q \in Runs : \A k \in Messages : q # r => (Touches(q, k)' <=> Touches(q, k))
    BY <1>4 DEF Touches
  <2> QED
    BY <1>2, <2>1, <2>2, <2>3 DEF Pending
<1> HIDE DEF m, c
<1>6. Inbox!File(m, c)
  BY <1>1, <1>3, <1>5, PendingIs DEF Inbox!File
<1> QED
  BY <1>2, <1>3, <1>6 DEF Inbox!Next

LEMMA TouchInbox == ASSUME IInv, NEW r \in Runs, Touch(r) PROVE Inbox!Next
<1> DEFINE m == ItemOf(run[r])
<1>1. /\ run[r].phase = "touch" /\ unread' = [unread EXCEPT ![run[r].into] = @ + 1]
      /\ run' = Advanced(r) /\ UNCHANGED <<event, conversation, owner>>
  BY DEF Touch
<1>2. m \in Messages /\ run[r].into \in Conversations /\ conversation[m] = run[r].into
  BY <1>1, RunIs, WorkingItem DEF Sound
<1>3. RunMoves(r) /\ run'[r].phase \in {"look", "complete"}
  BY <1>1, <1>2, AdvancedTo, InboundAssumption
<1>4. m \in Pending /\ Pending' = Pending \ {m}
  <2>1. /\ m \in Pending /\ m \notin Pending'
        /\ \A k \in Messages : k # m => (k \in Pending' <=> k \in Pending)
    BY <1>1, <1>3, LeavesCount
  <2>2. Pending \subseteq Messages /\ Pending' \subseteq Messages
    BY DEF Pending
  <2> QED
    BY <2>1, <2>2
<1> HIDE DEF m
<1>5. Inbox!Count(m)
  BY <1>1, <1>2, <1>4, PendingIs DEF Inbox!Count
<1> QED
  BY <1>2, <1>5 DEF Inbox!Next

LEMMA EndedInbox ==
    ASSUME IInv, NEW r \in Runs, run[r].phase # "idle", Ended(r)
    PROVE  Inbox!Next \/ UNCHANGED Inbox!vars
<1> DEFINE m == ItemOf(run[r])
<1>1. run' = [run EXCEPT ![r] = IdleRun] /\ UNCHANGED <<event, conversation, owner, unread>>
  BY DEF Ended
<1>2. RunMoves(r) /\ run'[r].phase = "idle"
  BY <1>1, IdleType, MovesTo
<1>3. CASE run[r].phase = "touch"
  <2>1. /\ m \in Messages /\ m \in Pending /\ m \notin Pending'
        /\ \A k \in Messages : k # m => (k \in Pending' <=> k \in Pending)
    BY <1>2, <1>3, LeavesCount
  <2>2. Pending' = Pending \ {m}
    BY <2>1 DEF Pending
  <2> HIDE DEF m
  <2>3. Inbox!Forget(m)
    BY <1>1, <2>1, <2>2, PendingIs DEF Inbox!Forget
  <2> QED
    BY <2>1, <2>3 DEF Inbox!Next
<1>4. CASE run[r].phase # "touch"
  BY <1>1, <1>2, <1>4, SamePending, SameInbox DEF Done
<1> QED
  BY <1>3, <1>4

-------------------------------------------------------------------------------
(* A conversation keeps its customer.                                      *)
LEMMA OwnersStay ==
    ASSUME IInv, [Next]_vars, NEW c \in Conversations, owner[c] # None
    PROVE  owner'[c] = owner[c]
<1>1. ASSUME NEW r \in Runs, Open(r) PROVE owner'[c] = owner[c]
  BY <1>1 DEF Open, IInv, TypeOK
<1>2. CASE UNCHANGED owner
  BY <1>2
<1> QED
  BY <1>1, <1>2
  DEF Next, EventStep, Receive, Replay, CallStep, Add, AddRefused, Begin, Skip, Take, Stall,
      DeadLetter, Proceed, Mark, Look, Create, Reject, Touch, Complete, Throw, Crash, Ended, vars

(* A run that is about to file was so before, or has just found or opened  *)
(* a conversation of its item's sender.                                    *)
LEMMA FilingSteps ==
    ASSUME IInv, [Next]_vars, NEW r \in Runs, run'[r].phase = "create"
    PROVE  run'[r] = run[r] \/ owner'[run'[r].into] = From[ItemOf(run'[r])]
<1> DEFINE Goal == run'[r] = run[r] \/ owner'[run'[r].into] = From[ItemOf(run'[r])]
<1>1. ASSUME NEW q \in Runs, q # r, \E x : run' = [run EXCEPT ![q] = x] PROVE Goal
  BY <1>1 DEF IInv, TypeOK
<1>2. ASSUME NEW q \in Runs, NEW c \in Conversations, owner'[c] = From[Item(q)],
             run' = [run EXCEPT ![q].phase = "create", ![q].into = c]
      PROVE  Goal
  <2>1. run[q] \in Run
    BY RunIs
  <2>2. q = r => run'[r].into = c /\ ItemOf(run'[r]) = Item(q)
    BY <1>2, <2>1 DEF IInv, TypeOK, Run, ItemOf, Item
  <2>3. q # r => run'[r] = run[r]
    BY <1>2 DEF IInv, TypeOK
  <2> QED
    BY <1>2, <2>2, <2>3
<1>3. ASSUME NEW q \in Runs, NEW p \in {"look", "open", "touch"}, run' = [run EXCEPT ![q].phase = p]
      PROVE  Goal
  BY <1>3 DEF IInv, TypeOK, Run
<1>4. ASSUME NEW q \in Runs, run' = Advanced(q) PROVE Goal
  BY <1>4 DEF Advanced, IInv, TypeOK, Run
<1>5. ASSUME NEW q \in Runs, run' = [run EXCEPT ![q] = IdleRun] PROVE Goal
  BY <1>5, IdleType DEF IInv, TypeOK
<1>6. ASSUME NEW q \in Runs, NEW j \in Jobs, Take(q, j) PROVE Goal
  BY <1>6 DEF Take, IInv, TypeOK, IdleRun
<1>7. ASSUME NEW q \in Runs, Look(q) PROVE Goal
  BY <1>7, <1>2, <1>3, <1>4 DEF Look
<1>8. ASSUME NEW q \in Runs, Open(q) PROVE Goal
  <2>1. PICK c \in Conversations :
           /\ owner' = [owner EXCEPT ![c] = From[Item(q)]]
           /\ run' = [run EXCEPT ![q].phase = "create", ![q].into = c]
    BY <1>8 DEF Open
  <2>2. owner'[c] = From[Item(q)]
    BY <2>1 DEF IInv, TypeOK
  <2> QED
    BY <2>1, <2>2, <1>2
<1>9. CASE UNCHANGED run
  BY <1>9
<1> QED
  BY <1>3, <1>4, <1>5, <1>6, <1>7, <1>8, <1>9
  DEF Next, EventStep, Receive, Replay, CallStep, Add, AddRefused, Begin, Skip, Stall,
      DeadLetter, Proceed, Mark, Create, Reject, Touch, Complete, Throw, Crash, Ended, vars

LEMMA InitAddressed == Init => Addressed
  BY IdleType DEF Init, Addressed

LEMMA NextAddressed == IInv /\ Addressed /\ [Next]_vars => Addressed'
<1> SUFFICES ASSUME IInv, Addressed, [Next]_vars, NEW r \in Runs, run'[r].phase = "create"
             PROVE  owner'[run'[r].into] = From[ItemOf(run'[r])]
  BY DEF Addressed
<1>1. CASE run'[r] = run[r]
  <2>1. owner[run[r].into] = From[ItemOf(run[r])]
    BY <1>1 DEF Addressed
  <2>2. run[r].into \in Conversations /\ ItemOf(run[r]) \in Messages
    BY <1>1, RunIs, WorkingItem DEF Sound
  <2>3. owner[run[r].into] # None
    BY <2>1, <2>2, InboundAssumption
  <2> QED
    BY <1>1, <2>1, <2>2, <2>3, OwnersStay
<1> QED
  BY <1>1, FilingSteps

LEMMA InitInbox == Init => Inbox!Init
<1> SUFFICES ASSUME Init PROVE Inbox!Init
  OBVIOUS
<1>1. Pending = {} /\ Done = {}
  BY IdleType DEF Init, Pending, Touches, Done
<1> QED
  BY <1>1, PendingIs DEF Init, Inbox!Init, Done

LEMMA NextInbox == IInv /\ Addressed /\ [Next]_vars => [Inbox!Next]_(Inbox!vars)
<1> SUFFICES ASSUME IInv, Addressed, [Next]_vars PROVE Inbox!Next \/ UNCHANGED Inbox!vars
  OBVIOUS
<1>1. ASSUME NEW r \in Runs, Proceed(r) PROVE Inbox!Next \/ UNCHANGED Inbox!vars
  <2>1. ASSUME Reject(r) PROVE Inbox!Next \/ UNCHANGED Inbox!vars
    BY <2>1, EndedInbox DEF Reject
  <2> QED
    BY <1>1, <2>1, MarkInbox, LookInbox, OpenInbox, CreateInbox, TouchInbox, CompleteInbox
    DEF Proceed
<1>2. ASSUME NEW r \in Runs, Throw(r) \/ Crash(r) PROVE Inbox!Next \/ UNCHANGED Inbox!vars
  BY <1>2, EndedInbox DEF Throw, Crash
<1>3. CASE UNCHANGED vars
  BY <1>3, RunsStill, SameInbox DEF vars, Done
<1> QED
  BY <1>1, <1>2, <1>3, QueueInbox DEF Next

(* Whatever calls, retries, stalls and replays do, the rows of messages,   *)
(* conversations and events behave as an inbox that files every message    *)
(* once, under its sender, and closes a call only when all of it is filed. *)
THEOREM ImplementsInbox == Spec => InboxSpec
  BY InitInv, NextInv, InitAddressed, NextAddressed, InitInbox, NextInbox, PTL
  DEF Spec, InboxSpec, Inbox!Spec

(* Every stored message lies in a conversation of the customer who sent    *)
(* it: findOrCreateConversation and the insert are two statements, but no  *)
(* conversation changes its customer in between or later.                  *)
THEOREM FiledWithSender ==
    Spec => [](\A m \in Messages : Stored(m) => owner[conversation[m]] = From[m])
<1> DEFINE Filed == \A m \in Messages : Stored(m) => owner[conversation[m]] = From[m]
<1>1. Init => Filed
  BY DEF Init, Stored
<1>2. IInv /\ Addressed /\ Filed /\ [Next]_vars => Filed'
  <2> SUFFICES ASSUME IInv, Addressed, Filed, [Next]_vars,
                      NEW m \in Messages, conversation'[m] # None
               PROVE  owner'[conversation'[m]] = From[m]
    BY DEF Stored
  <2>1. CASE conversation'[m] = conversation[m]
    <3>1. conversation[m] \in Conversations /\ owner[conversation[m]] = From[m]
      BY <2>1 DEF IInv, TypeOK, Stored
    <3>2. From[m] # None
      BY InboundAssumption
    <3> QED
      BY <2>1, <3>1, <3>2, OwnersStay
  <2>2. ASSUME NEW r \in Runs, Create(r), conversation'[m] # conversation[m]
        PROVE  owner'[conversation'[m]] = From[m]
    <3>1. m = ItemOf(run[r]) /\ conversation'[m] = run[r].into /\ owner' = owner
      BY <2>2 DEF Create, Item, ItemOf, IInv, TypeOK
    <3> QED
      BY <2>2, <3>1 DEF Create, Addressed
  <2>3. CASE UNCHANGED conversation
    BY <2>1, <2>3
  <2> QED
    BY <2>1, <2>2, <2>3
    DEF Next, EventStep, Receive, Replay, CallStep, Add, AddRefused, Begin, Skip, Take, Stall,
        DeadLetter, Proceed, Mark, Look, Open, Reject, Touch, Complete, Throw, Crash, Ended, vars
<1> QED
  BY <1>1, <1>2, InitInv, NextInv, InitAddressed, NextAddressed, PTL DEF Spec
===============================================================================
