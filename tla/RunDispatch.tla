----------------------------- MODULE RunDispatch -----------------------------
(***************************************************************************)
(* How queued runs are driven by worker processes: the agent_runs row with *)
(* its optimistic-locking version and its lease (runtime/repository.py),   *)
(* the agent.runs queue (mq.py), the worker's message handler with its     *)
(* heartbeat (workers/main.py, runtime/lease.py), the checkpoints of the   *)
(* engine (runtime/engine.py), the stale-run and approval reapers          *)
(* (runtime/reaper.py) and the API and Slack requests that change a run    *)
(* (api/routes/runs.py, api/routes/approvals.py, slack/service.py).        *)
(*                                                                         *)
(* One action is one database transaction, one broker operation or one     *)
(* failure.  A worker keeps the row it loaded in view[w] while its session *)
(* is open and writes with the version it saw (expire_on_commit=False:     *)
(* nothing but its own successful update refreshes it).  The clock is the  *)
(* Boolean lease_live: lease_expires_at has not passed.                    *)
(***************************************************************************)
EXTENDS Naturals, RunStates

CONSTANTS Run,          \* run ids
          Worker,       \* WORKER_IDs; a restarted process may get its old id back
          NULL,         \* SQL NULL / Python None
          Api,          \* the kinds of request clients send
          MaxSteps,     \* agent_runs.max_steps
          MaxFaults,    \* bound: crashes, raised exceptions and failed publishes
          MaxStalls,    \* bound: leases that lapse although their owner is alive
          MaxRequests,  \* bound: client requests after creation
          MaxQueue      \* bound: copies of one run's message the reaper piles up

ASSUME DispatchAssumption ==
  /\ NULL \notin RunStatus /\ NULL \notin Worker /\ NULL \notin Run /\ NULL \notin Nat
  /\ Api \subseteq {"post_message", "cancel", "slack", "decide"}
  /\ MaxSteps \in Nat /\ MaxFaults \in Nat /\ MaxStalls \in Nat
  /\ MaxRequests \in Nat /\ MaxQueue \in Nat

VARIABLES run,       \* run[r]: the agent_runs row
          queue,     \* queue[r]: messages of r ready in agent.runs
          dlq,       \* runs with a message in agent.runs.dlq, which nothing consumes
          outbox,    \* outbox[r]: requests that committed and still have to publish
          pc,        \* pc[w]: where worker w is in _process_message_inner
          task,      \* task[w]: the run of w's unacknowledged message
          view,      \* view[w]: the AgentRun object in w's open session, NoRow if none
          fate,      \* fate[w]: how w's handler ends: "ok", "error", "cancelled"
          reap,      \* reap[r]: the version a reaper's stale query returned
          faults, stalls, requests

vars == <<run, queue, dlq, outbox, pc, task, view, fate, reap, faults, stalls, requests>>
brokerVars == <<queue, dlq, outbox>>
workerVars == <<pc, task, view, fate>>
bounds     == <<faults, stalls, requests>>

Row == [status           : RunStatus \cup {NULL},
        version          : Nat,
        lease_owner      : Worker \cup {NULL},
        lease_live       : BOOLEAN,
        cancel_requested : BOOLEAN,
        current_step     : Nat,
        skill            : BOOLEAN]     \* active_skill_revision_id is set

NoRow == [status |-> NULL, version |-> 0, lease_owner |-> NULL, lease_live |-> FALSE,
          cancel_requested |-> FALSE, current_step |-> 0, skill |-> FALSE]

Init == /\ run = [r \in Run |-> NoRow]
        /\ queue = [r \in Run |-> 0]
        /\ dlq = {}
        /\ outbox = [r \in Run |-> 0]
        /\ pc = [w \in Worker |-> "idle"]
        /\ task = [w \in Worker |-> NULL]
        /\ view = [w \in Worker |-> NoRow]
        /\ fate = [w \in Worker |-> "ok"]
        /\ reap = [r \in Run |-> NULL]
        /\ faults = 0 /\ stalls = 0 /\ requests = 0
-----------------------------------------------------------------------------
(* _versioned_update: one UPDATE gated on the version the caller read. *)
VersionIgnored(r, expected) == TRUE    \* mutant: WHERE id = run.id only
VersionMatches(r, expected) == run[r].version = expected

VersionNotBumped(r, expected, row) ==  \* mutant: no version = expected_version + 1
  run' = [run EXCEPT ![r] = row]
VersionedUpdate(r, expected, row) ==
  run' = [run EXCEPT ![r] = [row EXCEPT !.version = expected + 1]]

(* The lease condition of try_acquire_lease. *)
LeaseIgnored(r) == TRUE                \* mutant: no extra_where
NeverExpires(r) == run[r].lease_owner = NULL  \* mutant: lease_expires_at not tested
LeaseFree(r) == run[r].lease_owner = NULL \/ ~run[r].lease_live

(* The heartbeat of w runs while its engine block is open. *)
Driving(w) == pc[w] \in {"load", "engine"}

CloseSession(w) == view' = [view EXCEPT ![w] = NoRow]

(* Leave the engine block: the `finally` clauses come next. *)
Unwind(w, how) == /\ pc' = [pc EXCEPT ![w] = "release"]
                  /\ fate' = [fate EXCEPT ![w] = how]
                  /\ CloseSession(w)

(* checkpoint: the transition is validated against the object in memory,   *)
(* the write is fenced by the version in memory; either failure is an      *)
(* exception that ends the handler.  On success the object is refreshed.   *)
Checkpoint(w, row) ==
  LET r == task[w]
  IN \/ /\ ValidTransition(view[w].status, row.status)
        /\ VersionMatches(r, view[w].version)
        /\ VersionedUpdate(r, view[w].version, row)
        /\ view' = [view EXCEPT ![w] = run'[r]]
        /\ UNCHANGED <<pc, fate>>
     \/ /\ \/ ~ValidTransition(view[w].status, row.status)
           \/ ~VersionMatches(r, view[w].version)
        /\ Unwind(w, "error")
        /\ UNCHANGED run
-----------------------------------------------------------------------------
(* Worker: take a message and read the run (claim session). *)
Consume(w, r) ==
  /\ pc[w] = "idle"
  /\ queue[r] > 0
  /\ queue' = [queue EXCEPT ![r] = @ - 1]
  /\ task' = [task EXCEPT ![w] = r]
  /\ view' = [view EXCEPT ![w] = run[r]]
  /\ pc' = [pc EXCEPT ![w] = "claim"]
  /\ UNCHANGED <<run, dlq, outbox, fate, reap, bounds>>

(* try_acquire_lease succeeded and is committed. *)
AcquireLease(w) ==
  LET r == task[w]
  IN /\ pc[w] = "claim"
     /\ VersionMatches(r, view[w].version)
     /\ LeaseFree(r)
     /\ VersionedUpdate(r, view[w].version,
                        [run[r] EXCEPT !.lease_owner = w, !.lease_live = TRUE])
     /\ pc' = [pc EXCEPT ![w] = "load"]
     /\ CloseSession(w)
     /\ UNCHANGED <<brokerVars, task, fate, reap, bounds>>

(* Not acquired: the handler returns normally and the message is acked. *)
SkipLeased(w) ==
  /\ pc[w] = "claim"
  /\ ~(VersionMatches(task[w], view[w].version) /\ LeaseFree(task[w]))
  /\ pc' = [pc EXCEPT ![w] = "ack"]
  /\ CloseSession(w)
  /\ UNCHANGED <<run, brokerVars, task, fate, reap, bounds>>

(* get_with_history in the engine's own session. *)
LoadRun(w) ==
  /\ pc[w] = "load"
  /\ view' = [view EXCEPT ![w] = run[task[w]]]
  /\ pc' = [pc EXCEPT ![w] = "engine"]
  /\ UNCHANGED <<run, brokerVars, task, fate, reap, bounds>>

Engine(w) == pc[w] = "engine" /\ UNCHANGED <<brokerVars, task, reap, bounds>>

StartRun(w) ==
  /\ Engine(w)
  /\ view[w].status = "pending"
  /\ Checkpoint(w, [run[task[w]] EXCEPT !.status = "running"])

(* check_before_step, in the order of its tests. *)
CancelStep(w) ==
  /\ Engine(w)
  /\ view[w].status = "running"
  /\ view[w].cancel_requested
  /\ Checkpoint(w, [run[task[w]] EXCEPT !.status = "cancelled"])

StepLimit(w) ==
  /\ Engine(w)
  /\ view[w].status = "running"
  /\ ~view[w].cancel_requested
  /\ view[w].current_step >= MaxSteps
  /\ Checkpoint(w, [run[task[w]] EXCEPT !.status = "timed_out"])

OneStepTooMany(w) == /\ view[w].status = "running"      \* mutant: > for >=
                     /\ ~view[w].cancel_requested
                     /\ view[w].current_step <= MaxSteps
MayReason(w) == /\ view[w].status = "running"
                /\ ~view[w].cancel_requested
                /\ view[w].current_step < MaxSteps

(* A checkpoint inside the step: a skill or a tool becomes active. *)
ActivateSkill(w) ==
  /\ Engine(w)
  /\ MayReason(w)
  /\ ~view[w].skill
  /\ Checkpoint(w, [run[task[w]] EXCEPT !.skill = TRUE])

(* How a reasoning step can end, with what it adds to current_step: the     *)
(* LLM call fails or the deadline has passed (0), a budget is exceeded, the *)
(* model answers or asks in plain text, a call awaits approval (0: the step *)
(* is replayed), tool results, finish, or a fatal tool outcome.             *)
StepOutcomes ==
  {<<"failed", 0>>, <<"timed_out", 0>>, <<"timed_out", 1>>, <<"waiting_user_input", 1>>,
   <<"waiting_approval", 0>>, <<"running", 1>>, <<"completed", 1>>, <<"failed", 1>>}

ReasonStep(w) ==
  /\ Engine(w)
  /\ MayReason(w)
  /\ \E o \in StepOutcomes :
       Checkpoint(w, [run[task[w]] EXCEPT !.status = o[1],
                                          !.current_step = view[w].current_step + o[2]])

(* run_until_blocked returned; post_run_update_to_slack never raises here. *)
EngineDone(w) ==
  /\ Engine(w)
  /\ view[w].status \notin {"pending", "running"}
  /\ Unwind(w, "ok")
  /\ UNCHANGED run

(* The `finally` of the handler, on a fresh session: read, then release if *)
(* the lease is still ours.                                                *)
ReleaseRead(w) ==
  /\ pc[w] = "release"
  /\ \/ /\ run[task[w]].lease_owner = w
        /\ view' = [view EXCEPT ![w] = run[task[w]]]
        /\ pc' = [pc EXCEPT ![w] = "unlease"]
     \/ /\ run[task[w]].lease_owner # w
        /\ pc' = [pc EXCEPT ![w] = "ack"]
        /\ UNCHANGED view
  /\ UNCHANGED <<run, brokerVars, task, fate, reap, bounds>>

(* release_lease; a version conflict leaves the lease to expire. *)
ReleaseLease(w) ==
  LET r == task[w]
  IN /\ pc[w] = "unlease"
     /\ \/ /\ VersionMatches(r, view[w].version)
           /\ VersionedUpdate(r, view[w].version,
                              [run[r] EXCEPT !.lease_owner = NULL, !.lease_live = FALSE])
        \/ /\ ~VersionMatches(r, view[w].version)
           /\ UNCHANGED run
     /\ pc' = [pc EXCEPT ![w] = "ack"]
     /\ CloseSession(w)
     /\ UNCHANGED <<brokerVars, task, fate, reap, bounds>>

Forget(w) == /\ task' = [task EXCEPT ![w] = NULL]
             /\ CloseSession(w)
             /\ fate' = [fate EXCEPT ![w] = "ok"]

(* message.process(requeue=False): ack, or reject into the dead-letter     *)
(* queue.  A cancelled handler also ends consume_loop and the process.     *)
Settle(w) ==
  /\ pc[w] = "ack"
  /\ dlq' = IF fate[w] = "ok" THEN dlq ELSE dlq \cup {task[w]}
  /\ pc' = [pc EXCEPT ![w] = IF fate[w] = "cancelled" THEN "down" ELSE "idle"]
  /\ Forget(w)
  /\ UNCHANGED <<run, queue, outbox, reap, bounds>>
-----------------------------------------------------------------------------
(* Heartbeat task: renew_lease_by_id, not fenced by the version. *)
RenewLease(w) ==
  /\ Driving(w)
  /\ run[task[w]].lease_owner = w
  /\ ~run[task[w]].lease_live
  /\ run' = [run EXCEPT ![task[w]].lease_live = TRUE]
  /\ UNCHANGED <<brokerVars, workerVars, reap, bounds>>

(* Renewal found another owner: the owning task is cancelled. *)
LoseLease(w) ==
  /\ Driving(w)
  /\ run[task[w]].lease_owner # w
  /\ Unwind(w, "cancelled")
  /\ UNCHANGED <<run, brokerVars, task, reap, bounds>>

Beating(r) == \E w \in Worker : Driving(w) /\ task[w] = r /\ run[r].lease_owner = w

(* The ttl passes without renewal: nobody heartbeats for the owner ... *)
ExpireLease(r) ==
  /\ run[r].lease_owner # NULL /\ run[r].lease_live
  /\ ~Beating(r)
  /\ run' = [run EXCEPT ![r].lease_live = FALSE]
  /\ UNCHANGED <<brokerVars, workerVars, reap, bounds>>

(* ... or a live owner is held up (blocked event loop, lost database). *)
StallLease(r) ==
  /\ run[r].lease_owner # NULL /\ run[r].lease_live
  /\ Beating(r)
  /\ stalls < MaxStalls
  /\ stalls' = stalls + 1
  /\ run' = [run EXCEPT ![r].lease_live = FALSE]
  /\ UNCHANGED <<brokerVars, workerVars, reap, faults, requests>>

Fault == faults < MaxFaults /\ faults' = faults + 1 /\ UNCHANGED <<stalls, requests>>

(* The process dies; the broker requeues its unacknowledged message. *)
Crash(w) ==
  /\ Fault
  /\ pc[w] \notin {"idle", "down"}
  /\ queue' = [queue EXCEPT ![task[w]] = @ + 1]
  /\ pc' = [pc EXCEPT ![w] = "down"]
  /\ Forget(w)
  /\ UNCHANGED <<run, dlq, outbox, reap>>

Restart(w) ==
  /\ pc[w] = "down"
  /\ pc' = [pc EXCEPT ![w] = "idle"]
  /\ UNCHANGED <<run, brokerVars, task, view, fate, reap, bounds>>

(* An exception other than LLMError leaves the engine block. *)
Raise(w) ==
  /\ Fault
  /\ Driving(w)
  /\ Unwind(w, "error")
  /\ UNCHANGED <<run, brokerVars, task, reap>>
-----------------------------------------------------------------------------
(* reap_stale_runs: the query ... *)
ReapSelect(r) ==
  /\ reap[r] = NULL
  /\ run[r].status = "running"
  /\ run[r].lease_owner # NULL /\ ~run[r].lease_live
  /\ reap' = [reap EXCEPT ![r] = run[r].version]
  /\ UNCHANGED <<run, brokerVars, workerVars, bounds>>

(* ... and, row by row, release_lease and on_stale.  reaper_loop closes    *)
(* the session without a commit, so the release is rolled back and only    *)
(* the published message remains.                                          *)
ReapHandoff(r) ==
  /\ reap[r] # NULL
  /\ VersionMatches(r, reap[r])
  /\ queue[r] < MaxQueue
  /\ queue' = [queue EXCEPT ![r] = @ + 1]
  /\ reap' = [reap EXCEPT ![r] = NULL]
  /\ UNCHANGED <<run, dlq, outbox, workerVars, bounds>>

ReapLost(r) ==
  /\ reap[r] # NULL
  /\ ~VersionMatches(r, reap[r])
  /\ reap' = [reap EXCEPT ![r] = NULL]
  /\ UNCHANGED <<run, brokerVars, workerVars, bounds>>
-----------------------------------------------------------------------------
(* Requests read the row and write it with the version they read, so a     *)
(* successful one is atomic and a conflicting one has no effect.           *)
ApiWrite(r, row) == VersionedUpdate(r, run[r].version, row)

Request(kind) == /\ kind \in Api
                 /\ requests < MaxRequests
                 /\ requests' = requests + 1
                 /\ UNCHANGED <<faults, stalls>>

PublishLater(r) == /\ outbox' = [outbox EXCEPT ![r] = @ + 1]
                   /\ UNCHANGED <<queue, dlq>>

(* POST /v1/runs: the row is committed before publish_run_standalone. *)
CreateRun(r) ==
  /\ run[r].status = NULL
  /\ run' = [run EXCEPT ![r] = [NoRow EXCEPT !.status = "pending"]]
  /\ PublishLater(r)
  /\ UNCHANGED <<workerVars, reap, bounds>>

Resume(r) == /\ ApiWrite(r, [run[r] EXCEPT !.status = "running"])
             /\ PublishLater(r)

(* POST /v1/runs/{id}/messages: any waiting run, approvals included. *)
PostMessage(r) ==
  /\ Request("post_message")
  /\ run[r].status \in WAITING_RUN_STATUSES
  /\ Resume(r)
  /\ UNCHANGED <<workerVars, reap>>

(* POST /v1/approvals/{id}/decide, when the run is still waiting for it. *)
DecideApproval(r) ==
  /\ Request("decide")
  /\ run[r].status = "waiting_approval"
  /\ Resume(r)
  /\ UNCHANGED <<workerVars, reap>>

(* A Slack reply in a run's thread: a parked run is resumed, a pending or  *)
(* running one only gets the message and another queue entry.              *)
SlackMessage(r) ==
  /\ Request("slack")
  /\ run[r].status \in RunStatus \ TERMINAL_RUN_STATUSES
  /\ \/ run[r].status \in WAITING_RUN_STATUSES /\ Resume(r)
     \/ run[r].status \notin WAITING_RUN_STATUSES /\ PublishLater(r) /\ UNCHANGED run
  /\ UNCHANGED <<workerVars, reap>>

(* POST /v1/runs/{id}/cancel *)
CancelRun(r) ==
  /\ Request("cancel")
  /\ run[r].status \in RunStatus \ TERMINAL_RUN_STATUSES
  /\ \/ /\ run[r].status \in WAITING_RUN_STATUSES
        /\ ApiWrite(r, [run[r] EXCEPT !.status = "cancelled", !.cancel_requested = TRUE])
     \/ /\ run[r].status \notin WAITING_RUN_STATUSES
        /\ ApiWrite(r, [run[r] EXCEPT !.cancel_requested = TRUE])
  /\ UNCHANGED <<brokerVars, workerVars, reap>>

ExpireMovedOn(r) ==                     \* mutant: the run may have moved on
  /\ run[r].status # NULL
  /\ ApiWrite(r, [run[r] EXCEPT !.status = "timed_out"])
  /\ UNCHANGED <<brokerVars, workerVars, reap, bounds>>

(* reap_expired_approvals: the run of an expired approval is timed out. *)
ExpireApproval(r) ==
  /\ run[r].status = "waiting_approval"
  /\ ApiWrite(r, [run[r] EXCEPT !.status = "timed_out"])
  /\ UNCHANGED <<brokerVars, workerVars, reap, bounds>>

PublishTwice(r) ==                      \* mutant: publishes what nobody asked for
  /\ outbox' = [outbox EXCEPT ![r] = @ - 1]
  /\ queue' = [queue EXCEPT ![r] = @ + 1]
  /\ UNCHANGED <<run, dlq, workerVars, reap, bounds>>

Publish(r) ==
  /\ outbox[r] > 0
  /\ outbox' = [outbox EXCEPT ![r] = @ - 1]
  /\ queue' = [queue EXCEPT ![r] = @ + 1]
  /\ UNCHANGED <<run, dlq, workerVars, reap, bounds>>

(* The broker is unreachable or the API process dies before publishing. *)
PublishFails(r) ==
  /\ Fault
  /\ outbox[r] > 0
  /\ outbox' = [outbox EXCEPT ![r] = @ - 1]
  /\ UNCHANGED <<run, queue, dlq, workerVars, reap>>
-----------------------------------------------------------------------------
EngineStep(w) == \/ StartRun(w) \/ CancelStep(w) \/ StepLimit(w)
                 \/ ActivateSkill(w) \/ ReasonStep(w) \/ EngineDone(w)

WorkerStep(w) == \/ AcquireLease(w) \/ SkipLeased(w) \/ LoadRun(w) \/ EngineStep(w)
                 \/ ReleaseRead(w) \/ ReleaseLease(w) \/ Settle(w)

Heartbeat(w) == RenewLease(w) \/ LoseLease(w)

Reaper(r) == ReapSelect(r) \/ ReapHandoff(r) \/ ReapLost(r)

Client(r) == \/ CreateRun(r) \/ PostMessage(r) \/ DecideApproval(r)
             \/ SlackMessage(r) \/ CancelRun(r) \/ ExpireApproval(r)

Next == \/ \E w \in Worker : \/ WorkerStep(w) \/ Heartbeat(w) \/ Crash(w)
                             \/ Restart(w) \/ Raise(w)
                             \/ \E r \in Run : Consume(w, r)
        \/ \E r \in Run : \/ Client(r) \/ Publish(r) \/ PublishFails(r)
                          \/ ExpireLease(r) \/ StallLease(r) \/ Reaper(r)

Spec == Init /\ [][Next]_vars

(* Processes and timers run; clients, crashes and stalls are not fair.  The *)
(* queue is FIFO, so a message is delivered as soon as a worker is free     *)
(* often enough.                                                            *)
Fairness == /\ \A w \in Worker : /\ WF_vars(WorkerStep(w))
                                 /\ WF_vars(Heartbeat(w))
                                 /\ WF_vars(Restart(w))
            /\ \A r \in Run : /\ SF_vars(\E w \in Worker : Consume(w, r))
                              /\ WF_vars(Publish(r))
                              /\ WF_vars(ExpireLease(r))
                              /\ WF_vars(Reaper(r))

FairSpec == Spec /\ Fairness
-----------------------------------------------------------------------------
(* Types of the row, the broker's counters and the worker's local state. *)
TypeOK == /\ run \in [Run -> Row]
          /\ queue \in [Run -> Nat]
          /\ dlq \subseteq Run
          /\ outbox \in [Run -> Nat]
          /\ pc \in [Worker -> {"idle", "claim", "load", "engine", "release",
                                "unlease", "ack", "down"}]
          /\ task \in [Worker -> Run \cup {NULL}]
          /\ view \in [Worker -> Row]
          /\ fate \in [Worker -> {"ok", "error", "cancelled"}]
          /\ reap \in [Run -> Nat \cup {NULL}]
          /\ faults \in Nat /\ stalls \in Nat /\ requests \in Nat

(* Everything the version protects: all columns but the renewed expiry. *)
Fenced(row) == <<row.status, row.lease_owner, row.cancel_requested,
                 row.current_step, row.skill>>

HasRow(w) == pc[w] \in {"claim", "engine", "unlease"}

(* Optimistic locking (_versioned_update): a worker whose object carries   *)
(* the row's version has the row's current content, whatever other         *)
(* workers, the reapers, the heartbeat and the API did since it read it.   *)
CurrentVersionIsCurrentRow ==
  \A w \in Worker : HasRow(w) =>
    /\ view[w].version <= run[task[w]].version
    /\ view[w].version = run[task[w]].version => Fenced(view[w]) = Fenced(run[task[w]])

(* try_acquire_lease and heartbeat_lease: as long as no live worker is     *)
(* held up for a whole ttl, a run is driven only by the worker that holds  *)
(* its lease, so by one worker at a time, through crashes, redeliveries,   *)
(* reaper hand-offs and requests.                                          *)
OneDriver ==
  stalls = 0 => \A w \in Worker : Driving(w) =>
    run[task[w]].lease_owner = w /\ run[task[w]].lease_live

(* cancel_run and check_before_step: a run with a cancellation on record   *)
(* is never parked, completed, failed or timed out by a worker that        *)
(* loaded it before the request.                                           *)
CancelIsNotOverrun ==
  \A r \in Run : run[r].cancel_requested =>
                    run[r].status \in {"pending", "running", "cancelled"}

(* The row, seen through status and cancel_requested, follows RunLifecycle *)
(* although several sessions write it from what they read earlier.         *)
Lifecycle == INSTANCE RunLifecycle
               WITH NoRun <- NULL,
                    status <- [r \in Run |-> run[r].status],
                    cancel_requested <- [r \in Run |-> run[r].cancel_requested]
FollowsLifecycle == Lifecycle!LifecycleSpec

(* _execute_step: a checkpoint keeps current_step or advances it by one    *)
(* and never passes max_steps; no stale worker writes an old step number.  *)
StepsAdvanceInOrder ==
  [][\A r \in Run : /\ run'[r].current_step - run[r].current_step \in {0, 1}
                    /\ run'[r].current_step <= MaxSteps]_vars

(* Crash recovery (reaper_loop): the lease a worker holds on a running run *)
(* it no longer works on does not keep the run from being taken over.      *)
Abandoned(r, w) == /\ run[r].status = "running"
                   /\ run[r].lease_owner = w
                   /\ task[w] # r
AbandonedRunIsTakenOver ==
  \A r \in Run, w \in Worker : Abandoned(r, w) ~> ~Abandoned(r, w)
-----------------------------------------------------------------------------
(* cancel_run: "the engine's guardrail checks this flag before its next    *)
(* step and transitions to Cancelled itself".                              *)
CancelTakesEffect ==
  \A r \in Run : run[r].cancel_requested ~> run[r].status \in TERMINAL_RUN_STATUSES
=============================================================================
