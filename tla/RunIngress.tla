----------------------------- MODULE RunIngress -----------------------------
(***************************************************************************)
(* How runs come into being: POST /v1/runs (api/routes/runs.py), the Slack *)
(* webhook (slack/service.py) and the scheduler (scheduler.py, with the    *)
(* admin API of its jobs), all of them behind the tenant's quota           *)
(* (runtime/quotas.py).                                                    *)
(*                                                                         *)
(* Every creator works in a database session of its own.  One action is a  *)
(* statement that another session can notice (a unique insert, a read that *)
(* later decides), a commit, or a publish; what a session has not          *)
(* committed is lost when it fails.  The workers that execute the runs are *)
(* RunDispatch's subject and appear here as the environment.               *)
(***************************************************************************)
EXTENDS Naturals, FiniteSets

CONSTANTS Sched,      \* scheduler processes
          Request,    \* POST /v1/runs requests at a time
          Delivery,   \* POST /v1/slack/events requests at a time
          Job,        \* scheduled_jobs
          Event,      \* Slack event ids
          KindOf,     \* KindOf[e]: what the event is
          ThreadOf,   \* ThreadOf[e]: its channel and thread
          NULL,
          MaxActive,  \* tenant_quotas.max_active_runs
          MaxRuns,    \* bound: runs ever created
          MaxTime,    \* bound: cron instants
          MaxMoves,   \* bound: status changes of one run
          MaxPatches, \* bound: admin changes of one job
          MaxServed,  \* bound: requests that follow another one on its connection
          MaxLapses,  \* bound: leader locks that expire during a tick
          MaxFaults   \* bound: crashes and failed publishes

Creator == Sched \cup Request \cup Delivery
Run     == 1 .. MaxRuns
Time    == 0 .. MaxTime + 1
Thread  == {ThreadOf[e] : e \in Event}

(* "skip" stands for bot messages, other event types and events without a  *)
(* channel, thread, user or text: they are recorded and nothing else.      *)
Kind == {"app_mention", "message", "skip"}

Terminal == {"terminal"}
Waiting  == {"waiting"}
Status   == {"pending", "running"} \cup Waiting \cup Terminal
Phase    == {"idle", "pick", "user", "thread", "get", "insert", "commit", "append",
             "publish", "settle", "dead", "done", "failed"}

(* rows inserted on first use: tenant_quotas and users (slack_user_id) *)
FirstUse == {"quota", "user"}

Due == [job : Job, slot : Time, status : {"idle", "firing", "disabled"}]
Origin == [kind : {"api"}, of : Request] \cup [kind : {"slack"}, of : Thread]
          \cup [kind : {"job"}, of : Job \X Time]

(* Rows of agent_runs and scheduled_jobs, and what a creator has in hand *)
RunRow  == [status : Status, version : 0 .. MaxMoves + 1, origin : Origin]
JobRow  == [enabled : BOOLEAN, next : Time \cup {NULL}, status : {"idle", "firing", "disabled"}]
Session == [pc : Phase, due : SUBSET Due, cur : Due \cup {NULL}, event : Event \cup {NULL},
            new : SUBSET FirstUse, run : Run \cup {NULL}, seen : 0 .. MaxMoves + 1 \cup {NULL}]

ASSUME IngressAssumption ==
  /\ IsFiniteSet(Creator) /\ Creator # {}
  /\ Sched \cap Request = {} /\ Sched \cap Delivery = {} /\ Request \cap Delivery = {}
  /\ KindOf \in [Event -> Kind]
  /\ NULL \notin Creator /\ NULL \notin Job /\ NULL \notin Event /\ NULL \notin Nat
  /\ NULL \notin RunRow \cup JobRow \cup Due
  /\ MaxActive \in Nat /\ MaxRuns \in Nat /\ MaxTime \in Nat /\ MaxMoves \in Nat
  /\ MaxPatches \in Nat /\ MaxLapses \in Nat /\ MaxServed \in Nat /\ MaxFaults \in Nat

VARIABLES now,       \* the latest cron instant that has passed
          spent,     \* today's usage_records reach daily_token_quota
          run,       \* agent_runs: status, version, origin; NULL if there is none
          published, \* published[r]: the run was put on the queue
          job,       \* scheduled_jobs rows
          leader,    \* Redis key scheduler:leader
          event,     \* event[e]: the slack_events row is committed
          handled,   \* handled[e]: how often the text of e reached a run
          mapping,   \* slack_thread_mappings
          rows,      \* which of the rows created on first use are committed
          tx,        \* tx[c]: the session and the locals of creator c
          lapses, faults, patches, served

vars == <<now, spent, run, published, job, leader, event, handled, mapping, rows, tx,
          lapses, faults, patches, served>>
slack  == <<event, handled, mapping>>
sched  == <<job, leader>>
bounds == <<lapses, faults, patches, served>>
env    == <<now, spent>>

Idle == [pc |-> "idle", due |-> {}, cur |-> NULL, event |-> NULL, new |-> {}, run |-> NULL,
         seen |-> NULL]

TypeOK ==
  /\ now \in Time /\ spent \in BOOLEAN
  /\ run \in [Run -> RunRow \cup {NULL}]
  /\ published \in [Run -> BOOLEAN]
  /\ job \in [Job -> JobRow \cup {NULL}]
  /\ leader \in Sched \cup {NULL}
  /\ event \in [Event -> BOOLEAN] /\ handled \in [Event -> Nat]
  /\ mapping \in [Thread -> Run \cup {NULL}]
  /\ rows \in SUBSET FirstUse
  /\ tx \in [Creator -> Session]
  /\ lapses \in 0 .. MaxLapses /\ faults \in 0 .. MaxFaults
  /\ patches \in [Job -> 0 .. MaxPatches] /\ served \in 0 .. MaxServed

Init ==
  /\ now = 0 /\ spent = FALSE
  /\ run = [r \in Run |-> NULL]
  /\ published = [r \in Run |-> FALSE]
  /\ job = [j \in Job |-> NULL]
  /\ leader = NULL
  /\ event = [e \in Event |-> FALSE]
  /\ handled = [e \in Event |-> 0]
  /\ mapping = [t \in Thread |-> NULL]
  /\ rows = {}
  /\ tx = [c \in Creator |-> Idle]
  /\ lapses = 0 /\ faults = 0 /\ patches = [j \in Job |-> 0] /\ served = 0
-----------------------------------------------------------------------------
(* A session that fails loses what it did not commit: the claim of an      *)
(* event, first-use rows, a run that was not committed.                    *)
Goto(c, phase) == tx' = [tx EXCEPT ![c].pc = phase]

(* What an exception makes of the creator.  An HTTP handler answers with   *)
(* an error.  scheduler_loop logs it and goes on with the next job.        *)
Raise(c) ==
  tx' = [tx EXCEPT ![c] = IF c \in Sched THEN [@ EXCEPT !.pc = "pick", !.cur = NULL]
                          ELSE [Idle EXCEPT !.pc = "failed"]]

(* A flush that fails rolls the session back and expires its objects; the  *)
(* scheduler's error handler then reads the expired job and raises again,  *)
(* which ends the process.                                                 *)
RaiseIntegrityError(c) ==
  tx' = [tx EXCEPT ![c] = [Idle EXCEPT !.pc = IF c \in Sched THEN "dead" ELSE "failed"]]

(* A unique insert waits for a session that has inserted the same row and  *)
(* has not committed.                                                      *)
Holding(row) == {c \in Creator : row \in tx[c].new}

(* The creator's SELECT found no row; somebody may have been faster. *)
InsertFirst(c, row, phase) ==
  /\ Holding(row) \ {c} = {}
  /\ \/ row \in rows /\ RaiseIntegrityError(c)
     \/ row \notin rows /\ tx' = [tx EXCEPT ![c].pc = phase, ![c].new = @ \cup {row}]

Active == {r \in Run : run[r] # NULL /\ run[r].status \notin Terminal}

(* Mutant: the limit itself is let through. *)
QuotaReachedLate == Cardinality(Active) > MaxActive \/ spent

(* enforce_tenant_run_quota *)
QuotaReached == Cardinality(Active) >= MaxActive \/ spent

CountRuns(c) ==
  \/ QuotaReached /\ Raise(c)
  \/ ~QuotaReached /\ Goto(c, "commit")

(* get_quota and the checks; a missing row is inserted first. *)
GetQuota(c) ==
  /\ tx[c].pc = "get"
  /\ \/ "quota" \in rows \cup tx[c].new /\ CountRuns(c)
     \/ "quota" \notin rows \cup tx[c].new /\ Goto(c, "insert")
  /\ UNCHANGED <<env, run, published, sched, slack, rows, bounds>>

InsertQuota(c) ==
  /\ tx[c].pc = "insert"
  /\ InsertFirst(c, "quota", "get")
  /\ UNCHANGED <<env, run, published, sched, slack, rows, bounds>>

(* create_run: a new row; uuids never collide. *)
NewRun(r, origin) ==
  /\ run[r] = NULL /\ \A q \in Run : q < r => run[q] # NULL
  /\ run' = [run EXCEPT ![r] = [status |-> "pending", version |-> 0, origin |-> origin]]

(* session.commit() *)
CommitRows(c) == rows' = rows \cup tx[c].new

(* publish_run_standalone, after the commit *)
Publish(c, phase) ==
  /\ tx[c].pc = "publish"
  /\ \/ /\ published' = [published EXCEPT ![tx[c].run] = TRUE]
        /\ tx' = [tx EXCEPT ![c].pc = phase, ![c].run = NULL]
        /\ UNCHANGED faults
     \/ /\ faults < MaxFaults /\ faults' = faults + 1
        /\ tx' = [tx EXCEPT ![c].pc = IF c \in Sched THEN phase ELSE "failed", ![c].run = NULL]
        /\ UNCHANGED published
(* One more request, in place of one that has been answered. *)
NextRequest(c) ==
  /\ tx[c].pc \in {"done", "failed"}
  /\ served < MaxServed /\ served' = served + 1
  /\ tx' = [tx EXCEPT ![c] = Idle]
  /\ UNCHANGED <<env, run, published, sched, slack, rows, lapses, faults, patches>>
-----------------------------------------------------------------------------
(* POST /v1/runs *)
StartRequest(q) ==
  /\ tx[q].pc = "idle"
  /\ Goto(q, "get")
  /\ UNCHANGED <<env, run, published, sched, slack, rows, bounds>>

CommitRequest(q) ==
  /\ tx[q].pc = "commit"
  /\ \E r \in Run : /\ NewRun(r, [kind |-> "api", of |-> q])
                    /\ tx' = [tx EXCEPT ![q].pc = "publish", ![q].run = r, ![q].new = {}]
  /\ CommitRows(q)
  /\ UNCHANGED <<env, published, sched, slack, bounds>>

PublishRequest(q) ==
  /\ Publish(q, "done")
  /\ UNCHANGED <<env, run, sched, slack, rows, lapses, patches, served>>
-----------------------------------------------------------------------------
(* POST /v1/slack/events: the request fails if no secret fits or no tenant *)
(* can be found, and is answered at once if it is not an event callback.   *)
RefuseDelivery(d) ==
  /\ tx[d].pc = "idle"
  /\ Goto(d, "failed")
  /\ UNCHANGED <<env, run, published, sched, slack, rows, bounds>>

IgnorePayload(d) ==
  /\ tx[d].pc = "idle"
  /\ Goto(d, "done")
  /\ UNCHANGED <<env, run, published, sched, slack, rows, bounds>>

(* handle_slack_event_callback.  A claim is a slack_events row in an open  *)
(* transaction; a second delivery of the event waits for it.               *)
Claiming == {"user", "thread", "get", "insert", "commit", "append"}

(* Mutant: the event is looked up and inserted at the end. *)
ClaimedByNobody(e) == {}

Claimed(e) == {d \in Delivery : tx[d].event = e /\ tx[d].pc \in Claiming}

Blocked(e) == Claimed(e) # {}

RecordOnly(d, e) == /\ event' = [event EXCEPT ![e] = TRUE]
                    /\ CommitRows(d)
                    /\ tx' = [tx EXCEPT ![d] = [Idle EXCEPT !.pc = "done"]]

(* record_slack_event and the lookup of the user *)
Deliver(d, e) ==
  /\ tx[d].pc = "idle"
  /\ ~Blocked(e)
  /\ \/ event[e] /\ Goto(d, "done") /\ UNCHANGED <<event, rows>>
     \/ ~event[e] /\ KindOf[e] = "skip" /\ RecordOnly(d, e)
     \/ /\ ~event[e] /\ KindOf[e] # "skip"
        /\ tx' = [tx EXCEPT ![d].pc = IF "user" \in rows THEN "thread" ELSE "user",
                            ![d].event = e]
        /\ UNCHANGED <<event, rows>>
  /\ UNCHANGED <<env, run, published, sched, handled, mapping, bounds>>

(* get_or_create_slack_user *)
InsertUser(d) ==
  /\ tx[d].pc = "user"
  /\ InsertFirst(d, "user", "thread")
  /\ UNCHANGED <<env, run, published, sched, slack, rows, bounds>>

(* get_thread_mapping and what follows from it *)
LookupThread(d) ==
  LET e == tx[d].event
      r == mapping[ThreadOf[e]]
  IN /\ tx[d].pc = "thread"
     /\ \/ r = NULL /\ KindOf[e] # "app_mention" /\ RecordOnly(d, e)
        \/ r = NULL /\ KindOf[e] = "app_mention" /\ Goto(d, "get") /\ UNCHANGED <<event, rows>>
        \/ r # NULL /\ run[r].status \in Terminal /\ RecordOnly(d, e)
        \/ /\ r # NULL /\ run[r].status \notin Terminal
           /\ tx' = [tx EXCEPT ![d].pc = "append", ![d].run = r,
                               ![d].seen = IF run[r].status \in Waiting THEN run[r].version
                                           ELSE NULL]
           /\ UNCHANGED <<event, rows>>
     /\ UNCHANGED <<env, run, published, sched, handled, mapping, bounds>>

Accept(d) ==
  /\ event' = [event EXCEPT ![tx[d].event] = TRUE]
  /\ handled' = [handled EXCEPT ![tx[d].event] = @ + 1]
  /\ CommitRows(d)

(* Mutant: no unique (channel_id, thread_ts). *)
ThreadNeverTaken(t) == FALSE

ThreadTaken(t) == mapping[t] # NULL

(* The mapping is flushed with the run; its uniqueness decides. *)
CommitThread(d) ==
  LET t == ThreadOf[tx[d].event]
  IN /\ tx[d].pc = "commit"
     /\ \/ /\ ThreadTaken(t)
           /\ RaiseIntegrityError(d)
           /\ UNCHANGED <<run, slack, rows>>
        \/ /\ ~ThreadTaken(t)
           /\ \E r \in Run :
                /\ NewRun(r, [kind |-> "slack", of |-> t])
                /\ mapping' = [mapping EXCEPT ![t] = r]
                /\ tx' = [tx EXCEPT ![d].pc = "publish", ![d].run = r, ![d].new = {},
                                    ![d].event = NULL]
           /\ Accept(d)
     /\ UNCHANGED <<env, published, sched, bounds>>

(* add_message; a run that was waiting when it was read is resumed by a    *)
(* checkpoint that the version fences.                                     *)
AppendMessage(d) ==
  LET r == tx[d].run
      resumes == tx[d].seen # NULL
  IN /\ tx[d].pc = "append"
     /\ resumes => run[r].version <= MaxMoves
     /\ \/ /\ resumes /\ run[r].version # tx[d].seen
           /\ Raise(d)
           /\ UNCHANGED <<run, event, handled, rows>>
        \/ /\ resumes => run[r].version = tx[d].seen
           /\ run' = IF resumes THEN [run EXCEPT ![r].status = "running", ![r].version = @ + 1]
                     ELSE run
           /\ tx' = [tx EXCEPT ![d].pc = "publish", ![d].new = {}, ![d].seen = NULL,
                               ![d].event = NULL]
           /\ Accept(d)
     /\ UNCHANGED <<env, published, sched, mapping, bounds>>

PublishSlack(d) ==
  /\ Publish(d, "done")
  /\ UNCHANGED <<env, run, sched, slack, rows, lapses, patches, served>>
-----------------------------------------------------------------------------
Ticking(s) == tx[s].pc \notin {"idle", "dead"}

(* acquire_scheduler_leader and list_due_jobs, with the rows as they are   *)
(* read now: the session keeps them for the whole tick.                    *)
DueJobs == {d \in Due : /\ job[d.job] # NULL /\ job[d.job].enabled
                        /\ d.slot = job[d.job].next /\ d.slot <= now
                        /\ d.status = job[d.job].status}

AcquireLeader(s) ==
  /\ tx[s].pc = "idle"
  /\ leader = NULL
  /\ leader' = s
  /\ tx' = [tx EXCEPT ![s].pc = "pick", ![s].due = DueJobs]
  /\ UNCHANGED <<env, run, published, job, slack, rows, bounds>>

(* Mutant: SET NX without EX. *)
LockNeverExpires == FALSE

LockExpires == TRUE

(* The key's TTL; the holder is not told. *)
LeaderExpires ==
  /\ leader # NULL
  /\ LockExpires
  /\ leader' = NULL
  /\ IF Ticking(leader) THEN lapses < MaxLapses /\ lapses' = lapses + 1 ELSE UNCHANGED lapses
  /\ UNCHANGED <<env, run, published, job, slack, rows, tx, faults, patches, served>>

PickJob(s) ==
  /\ tx[s].pc = "pick"
  /\ \E d \in tx[s].due :
       tx' = [tx EXCEPT ![s].pc = "get", ![s].cur = d, ![s].due = @ \ {d}]
  /\ UNCHANGED <<env, run, published, sched, slack, rows, bounds>>

(* The session is closed: a quota row that was not committed is gone. *)
EndTick(s) ==
  /\ tx[s].pc = "pick" /\ tx[s].due = {}
  /\ tx' = [tx EXCEPT ![s] = Idle]
  /\ UNCHANGED <<env, run, published, sched, slack, rows, bounds>>

(* Mutants: the slot that fired is computed again; a slot is skipped. *)
SameRunTime(t) == t
LaterRunTime(t) == t + 2

(* next_run_time: the first cron instant after t *)
NextRunTime(t) == t + 1

(* Mutant: the run is committed and never published. *)
CommitJobUnpublished(s) ==
  LET d == tx[s].cur
  IN /\ tx[s].pc = "commit"
     /\ \E r \in Run : NewRun(r, [kind |-> "job", of |-> <<d.job, d.slot>>])
     /\ tx' = [tx EXCEPT ![s].pc = "settle", ![s].new = {}]
     /\ job' = [job EXCEPT ![d.job].next = NextRunTime(now), ![d.job].status = "firing"]
     /\ CommitRows(s)
     /\ UNCHANGED <<env, published, leader, slack, bounds>>

(* fire_scheduled_job up to its first commit.  Only changed columns are    *)
(* written: status is left alone when it was read as firing.               *)
CommitJob(s) ==
  LET d == tx[s].cur
  IN /\ tx[s].pc = "commit"
     /\ \E r \in Run : /\ NewRun(r, [kind |-> "job", of |-> <<d.job, d.slot>>])
                       /\ tx' = [tx EXCEPT ![s].pc = "publish", ![s].run = r, ![s].new = {}]
     /\ job' = [job EXCEPT ![d.job].next = NextRunTime(now),
                           ![d.job].status = IF d.status = "firing" THEN @ ELSE "firing"]
     /\ CommitRows(s)
     /\ UNCHANGED <<env, published, leader, slack, bounds>>

PublishJob(s) ==
  /\ Publish(s, "settle")
  /\ UNCHANGED <<env, run, sched, slack, rows, lapses, patches, served>>

(* The last commit, after a publish that worked or failed; enabled is the  *)
(* value that was read when the tick began.                                *)
SettleJob(s) ==
  /\ tx[s].pc = "settle"
  /\ job' = [job EXCEPT ![tx[s].cur.job].status = "idle"]
  /\ tx' = [tx EXCEPT ![s].pc = "pick", ![s].cur = NULL]
  /\ UNCHANGED <<env, run, published, leader, slack, rows, bounds>>

(* refresh_job_next_run, for POST and PATCH /v1/scheduled-jobs *)
RefreshedJob(enabled) ==
  [enabled |-> enabled, next |-> IF enabled THEN NextRunTime(now) ELSE NULL,
   status  |-> IF enabled THEN "idle" ELSE "disabled"]

SaveJob(j, enabled) ==
  /\ patches[j] < MaxPatches
  /\ job' = [job EXCEPT ![j] = RefreshedJob(enabled)]
  /\ patches' = [patches EXCEPT ![j] = @ + 1]
  /\ UNCHANGED <<env, run, published, leader, slack, rows, tx, lapses, faults, served>>
-----------------------------------------------------------------------------
(* A process dies, or a request is cut off. *)
Crash(c) ==
  /\ tx[c].pc \notin {"idle", "dead", "done", "failed"}
  /\ faults < MaxFaults /\ faults' = faults + 1
  /\ RaiseIntegrityError(c)
  /\ UNCHANGED <<env, run, published, sched, slack, rows, lapses, patches, served>>

(* The environment: workers move runs that were published and use tokens, *)
(* users and the web API resume or cancel them, time passes.              *)
MoveRun(r, status) ==
  /\ run[r] # NULL /\ run[r].version < MaxMoves
  /\ <<run[r].status, status>> \in
       {<<"running", "waiting">>, <<"running", "terminal">>, <<"waiting", "running">>,
        <<"waiting", "terminal">>} \cup (IF published[r] THEN {<<"pending", "running">>} ELSE {})
  /\ run' = [run EXCEPT ![r].status = status, ![r].version = @ + 1]
  /\ \/ run[r].status = "running" /\ spent' = TRUE
     \/ UNCHANGED spent
  /\ UNCHANGED <<now, published, sched, slack, rows, tx, bounds>>

NewDay ==
  /\ spent /\ spent' = FALSE
  /\ UNCHANGED <<now, run, published, sched, slack, rows, tx, bounds>>

TimePasses ==
  /\ now < MaxTime /\ now' = now + 1
  /\ UNCHANGED <<spent, run, published, sched, slack, rows, tx, bounds>>

ServeRequest(q) == \/ GetQuota(q) \/ InsertQuota(q) \/ CommitRequest(q) \/ PublishRequest(q)

ServeDelivery(d) == \/ InsertUser(d) \/ LookupThread(d) \/ GetQuota(d) \/ InsertQuota(d)
                    \/ CommitThread(d) \/ AppendMessage(d) \/ PublishSlack(d)

Scheduler(s) == \/ AcquireLeader(s) \/ PickJob(s) \/ EndTick(s) \/ GetQuota(s)
                \/ InsertQuota(s) \/ CommitJob(s) \/ PublishJob(s) \/ SettleJob(s)

Next ==
  \/ \E q \in Request : StartRequest(q) \/ ServeRequest(q)
  \/ \E d \in Delivery : \/ \E e \in Event : Deliver(d, e)
                         \/ RefuseDelivery(d) \/ IgnorePayload(d) \/ ServeDelivery(d)
  \/ \E s \in Sched : Scheduler(s)
  \/ LeaderExpires
  \/ \E j \in Job, enabled \in BOOLEAN : SaveJob(j, enabled)
  \/ \E c \in Creator : Crash(c) \/ NextRequest(c)
  \/ \E r \in Run, status \in Status : MoveRun(r, status)
  \/ NewDay \/ TimePasses

Spec == Init /\ [][Next]_vars

(* Schedulers that live keep polling, a request that was started is served *)
(* or cut off, Redis drops keys whose TTL is over, and the day ends.       *)
(* Nothing is assumed of users, admins, Slack, or of anybody who might     *)
(* restart a dead scheduler.                                               *)
Fairness == /\ \A s \in Sched : WF_vars(Scheduler(s))
            /\ \A q \in Request : WF_vars(ServeRequest(q))
            /\ \A d \in Delivery : WF_vars(ServeDelivery(d))
            /\ WF_vars(LeaderExpires)
            /\ WF_vars(NewDay)

FairSpec == Spec /\ Fairness
-----------------------------------------------------------------------------
Admitted == {c \in Creator : tx[c].pc = "commit"}

(* QUOTA: enforce_tenant_run_quota counts before the caller inserts, so    *)
(* creators that count at the same time pass together.  The overshoot is   *)
(* bounded all the same: the active runs and the ones about to be          *)
(* committed are fewer than max_active_runs plus one per concurrent        *)
(* creator.                                                                *)
QuotaOvershootIsBounded ==
  Cardinality(Active) + Cardinality(Admitted) < MaxActive + Cardinality(Creator)

(* SLOTS: a cron instant of a job gives one run, however often the job is  *)
(* patched, a publish fails, a scheduler dies or the quota refuses; only a *)
(* leader lock that expires during a tick can add a second run, one for    *)
(* each time it happens.                                                   *)
RunsOf(origin) == {r \in Run : run[r] # NULL /\ run[r].origin = origin}

SlotFiresOncePerLeader ==
  \A j \in Job, t \in Time :
    Cardinality(RunsOf([kind |-> "job", of |-> <<j, t>>])) <= 1 + lapses

(* SLACK: duplicated, concurrent and retried deliveries hand the text of   *)
(* an event to a run at most once.                                         *)
EventHandledOnce == \A e \in Event : handled[e] <= 1

(* SLACK: whatever mentions race in a thread, it has at most one run, the  *)
(* one the mapping names.                                                  *)
ThreadHasOneRun ==
  \A t \in Thread : RunsOf([kind |-> "slack", of |-> t]) =
                    IF mapping[t] = NULL THEN {} ELSE {mapping[t]}

(* PUBLISH AFTER COMMIT: a run that waits for its first message and whose  *)
(* creator is not about to send it means that a publish failed or a        *)
(* process died: no interleaving of healthy creators strands a run.        *)
Publishing == {tx[c].run : c \in {b \in Creator : tx[b].pc = "publish"}}

StrandedOnlyByFault ==
  Cardinality({r \in Run : run[r] # NULL /\ ~published[r] /\ r \notin Publishing}) <= faults

(* LIVENESS: a job that is due is fired, or its slot is given up by a      *)
(* patch, as long as a scheduler lives and the quota leaves room in the    *)
(* end: a lock whose holder died or never released it does not stop the    *)
(* schedule.                                                               *)
IsDue(j) == job[j] # NULL /\ job[j].enabled /\ job[j].next <= now

DueJobIsFired ==
  <>[](~QuotaReached /\ \E s \in Sched : tx[s].pc # "dead") => \A j \in Job : IsDue(j) ~> ~IsDue(j)
=============================================================================
