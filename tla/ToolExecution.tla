---------------------------- MODULE ToolExecution ----------------------------
(***************************************************************************)
(* The tool calls of one run: the engine's step (runtime/engine.py), the   *)
(* write-ahead executor (runtime/tool_executor.py), the guardrails it asks *)
(* (runtime/guardrails.py), and the approvals that gate dangerous calls    *)
(* (api/routes/approvals.py, reap_expired_approvals in runtime/reaper.py). *)
(*                                                                         *)
(* Several engines may work on the run: one after the other when a process *)
(* dies, and at the same time when the lease of a live one has lapsed (see *)
(* RunDispatch).  One action is one database transaction, one tool handler *)
(* or one failure; an engine's memory is lost when it fails.               *)
(***************************************************************************)
EXTENDS Naturals, Sequences, FiniteSets

CONSTANTS Engine,      \* engine instances, one per handled message
          Approver,    \* concurrent POST /v1/approvals/{id}/decide requests
          NULL,        \* SQL NULL / Python None
          Plans,       \* answers of the model: sequences of calls
          MaxSteps,    \* agent_runs.max_steps
          MaxCalls,    \* agent_runs.max_tool_calls
          MaxRepairs,  \* settings.run_max_argument_repairs
          MaxFaults,   \* bound: crashes
          MaxZombies,  \* bound: engines started while another one is alive
          MaxResumes   \* bound: user messages that resume a parked run

(* A call is a tool with arguments.  The tools stand for the cases the code *)
(* tells apart: the risk tiers, an MCP tool that is not loaded yet, the     *)
(* control tools, a name nobody knows.  "bad" arguments fail the schema;    *)
(* "raw" ones are "a" once a string in them is turned into the number or    *)
(* Boolean the schema asks for; finish with "b" reports outcome='failed'.   *)
Tool == {"read", "put", "post", "wipe", "locked", "meta", "ask", "finish", "ghost"}
Args == {"a", "b", "bad", "raw"}
Call == [tool : Tool, args : Args]

Step == 0 .. MaxSteps - 1
Key  == Step \X {1, 2}       \* bound: an answer has at most two calls
Plan == Plans \cup {<<>>}

(* Rows of tool_executions and agent_runs, the statuses of a request for   *)
(* approval, what the outcome of a call makes of the run, and the memory   *)
(* of an engine                                                            *)
RowStatus == {"started", "succeeded", "failed", "unknown", "invalid"}
Row == [tool : Tool, args : Args, tier : {"read_only", "low_risk_write", "destructive"},
        idempotent : BOOLEAN, status : RowStatus, at : 1 .. Cardinality(Key)]
RunRow == [status : {"running", "waiting_user_input", "waiting_approval", "completed", "failed",
                     "timed_out"},
           version : Nat, step : 0 .. MaxSteps, calls : 0 .. MaxCalls]
Verdict == {"pending", "approved", "rejected", "expired"}
Outcomes == {"none", "completed", "failed", "waiting_user_input", "waiting_approval"}
Memory == [pc : {"idle", "step", "llm", "plan", "look", "act", "write", "invoke", "finalize",
                 "close"},
           version : Nat, step : 0 .. MaxSteps, calls : 0 .. MaxCalls, plan : Plan,
           saved : BOOLEAN, cur : 0 .. 2, seen : Row \cup {NULL}, ok : BOOLEAN,
           control : Outcomes]

ASSUME ToolAssumption ==
  /\ \A p \in Plans : p \in Seq(Call) /\ Len(p) \in {1, 2}
  /\ NULL \notin Key \cup Plan /\ NULL \notin Row /\ NULL \notin Verdict
  /\ MaxSteps \in Nat /\ MaxCalls \in Nat /\ MaxRepairs \in Nat
  /\ MaxFaults \in Nat /\ MaxZombies \in Nat /\ MaxResumes \in Nat

VARIABLES run,       \* agent_runs: status, version, step (current_step), calls
          steps,     \* steps[n]: the plan in agent_steps, NULL if not persisted
          exec,      \* exec[k]: the tool_executions row with idempotency key k
          approval,  \* approval[k]: approval_requests.status, NULL if no row
          effect,    \* effect[k]: how often the handler of call k really ran
          granted,   \* the calls whose approval was ever committed as approved
          eng,       \* eng[x]: the engine's memory
          deciding,  \* deciding[a]: the pending approval a has read and decides
          expiring,  \* expiring[k]: the reaper's progress with approval k
          faults, zombies, resumes

vars == <<run, steps, exec, approval, effect, granted, eng, deciding, expiring,
          faults, zombies, resumes>>
approvals == <<approval, granted, deciding, expiring>>
bounds    == <<faults, zombies, resumes>>

(* Tools in tools_by_name; the others are dispatched by name or unknown. *)
Known(t)    == t \in {"read", "put", "post", "wipe", "locked"}
Control(t)  == t \in {"meta", "ask", "finish"}
Tier(t)     == CASE t \in {"put", "post"} -> "low_risk_write"
                 [] t = "wipe"            -> "destructive"
                 [] OTHER                 -> "read_only"
Idempotent(t) == t \notin {"post", "wipe", "locked", "ghost"}

requires_approval(tier) == tier \in {"sensitive_write", "destructive"}

(* Mutant: every low-risk write is retried. *)
RetryWrites(row) == row.tier \in {"read_only", "low_risk_write"}

(* execution.risk_tier and execution.idempotent of _recover_started. *)
SafeToRetry(row) == \/ row.tier = "read_only"
                    \/ row.tier = "low_risk_write" /\ row.idempotent

Idle == [pc |-> "idle", version |-> 0, step |-> 0, calls |-> 0, plan |-> <<>>,
         saved |-> TRUE, cur |-> 0, seen |-> NULL, ok |-> FALSE, control |-> "none"]

Init == /\ run = [status |-> "running", version |-> 0, step |-> 0, calls |-> 0]
        /\ steps = [n \in Step |-> NULL]
        /\ exec = [k \in Key |-> NULL]
        /\ approval = [k \in Key |-> NULL]
        /\ effect = [k \in Key |-> 0]
        /\ granted = {}
        /\ eng = [x \in Engine |-> Idle]
        /\ deciding = [a \in Approver |-> NULL]
        /\ expiring = [k \in Key |-> "no"]
        /\ faults = 0 /\ zombies = 0 /\ resumes = 0
-----------------------------------------------------------------------------
(* _plan_tool_calls for run_max_tool_calls_per_step = 1, the default: the   *)
(* first call is selected and the others are deferred.  _process_tool_calls *)
(* handles the deferred calls first.                                        *)
Deferred(i) == i # 1

FirstCall(p)   == IF Len(p) > 1 THEN 2 ELSE 1
NextCall(p, i) == IF i = 1 THEN 0 ELSE IF i < Len(p) THEN i + 1 ELSE 1

CallOf(x) == eng[x].plan[eng[x].cur]
ToolOf(x) == CallOf(x).tool
KeyOf(x)  == <<eng[x].step, eng[x].cur>>
IsDeferred(x) == Deferred(eng[x].cur)

(* A selected read-only call goes through asyncio.gather. *)
Gathered(x) == ~IsDeferred(x) /\ Known(ToolOf(x)) /\ Tier(ToolOf(x)) = "read_only"

(* normalize_and_validate_arguments, as far as it gets before it raises.    *)
(* The schema of a name nobody knows, and that a deferred control tool is   *)
(* recorded with, coerces nothing.                                          *)
Normalized(args) == IF args = "raw" THEN "a" ELSE args
Stored(c, i) == IF Known(c.tool) \/ (Control(c.tool) /\ ~Deferred(i)) THEN Normalized(c.args)
                ELSE c.args

(* The rows by started_at: row.at counts the inserts. *)
Rows(table) == {k \in Key : table[k] # NULL}
Latest(table, n) == {k \in Rows(table) : table[k].at > Cardinality(Rows(table)) - n}

(* Mutant: a window of four. *)
RepeatedLate(x) ==
  /\ Cardinality(Rows(exec)) >= 3
  /\ \A k \in Latest(exec, 3) : /\ exec[k].tool = ToolOf(x)
                               /\ exec[k].args = CallOf(x).args

(* check_repeated_calls, window 3: the two latest rows are this very call,  *)
(* whose arguments are not normalized yet.                                  *)
Repeated(x) ==
  /\ Cardinality(Rows(exec)) >= 2
  /\ \A k \in Latest(exec, 2) : /\ exec[k].tool = ToolOf(x)
                               /\ exec[k].args = CallOf(x).args

(* check_no_progress: three rows of one tool with one status; that their   *)
(* errors and results agree too is up to the tool.                         *)
MayBeStuck(table) ==
  /\ Cardinality(Rows(table)) >= 3
  /\ \A j, k \in Latest(table, 3) : /\ table[j].tool = table[k].tool
                                   /\ table[j].status = table[k].status

(* Mutant: any success is evidence enough. *)
AnySuccess(c) == c.args # "b" /\ \A k \in Rows(exec) : exec[k].status # "succeeded"

(* _finish_evidence_error: the latest row that is not a control tool's, by *)
(* step and call index, did not succeed.  A tool that is not loaded counts *)
(* like any other.                                                         *)
Evidence == {k \in Rows(exec) : ~Control(exec[k].tool)}
LatestEvidence ==
  {k \in Evidence : \A j \in Evidence : j[1] < k[1] \/ (j[1] = k[1] /\ j[2] <= k[2])}
FinishBlocked(c) ==
  /\ c.args # "b"
  /\ \E k \in LatestEvidence : exec[k].status # "succeeded"
-----------------------------------------------------------------------------
(* Everything the session added is committed with its next commit: the     *)
(* agent_steps row of a fresh answer goes with it.                         *)
Commit(x) == steps' = IF eng[x].saved THEN steps
                      ELSE [steps EXCEPT ![eng[x].step] = eng[x].plan]

(* A new tool_executions row; the unique idempotency key makes the insert  *)
(* fail when somebody else was faster.  A deferred call is recorded under  *)
(* the name of its tool, or as "unknown".                                  *)
Taken(x) == exec[KeyOf(x)] # NULL

NewRow(x, status) ==
  [tool       |-> IF IsDeferred(x) /\ ~Known(ToolOf(x)) THEN "ghost" ELSE ToolOf(x),
   args       |-> Stored(CallOf(x), eng[x].cur),
   tier       |-> Tier(ToolOf(x)),
   idempotent |-> IsDeferred(x) \/ Idempotent(ToolOf(x)),
   status     |-> status,
   at         |-> Cardinality(Rows(exec)) + 1]

Insert(x, status) ==
  /\ ~Taken(x)
  /\ Commit(x)
  /\ exec' = [exec EXCEPT ![KeyOf(x)] = NewRow(x, status)]

(* An exception ends the handler; the run may be dispatched again. *)
Fail(x) == /\ eng' = [eng EXCEPT ![x] = Idle]
           /\ UNCHANGED <<run, steps, exec, effect, approvals, bounds>>

(* What _execute_single_tool_call and _process_tool_calls make of a call   *)
(* that is done: deferred outcomes and the guardrails of a gathered call   *)
(* are dropped.  table is the tool_executions table after the call.        *)
InvalidCount(t, table) ==
  Cardinality({k \in Rows(table) : table[k].tool = t /\ table[k].status = "invalid"})

Controls(x, status, fresh, table) ==
  LET t == ToolOf(x)
  IN IF IsDeferred(x) \/ Gathered(x) \/ t = "meta" THEN {"none"}
     ELSE CASE t = "finish" -> {IF status = "succeeded" THEN "completed" ELSE "none"}
            [] t = "ask"    -> {IF status = "succeeded" THEN "waiting_user_input" ELSE "none"}
            [] OTHER        -> IF fresh /\ status = "invalid" /\ InvalidCount(t, table) > MaxRepairs
                               THEN {"failed"}
                               ELSE {"none"} \cup (IF MayBeStuck(table) THEN {"failed"} ELSE {})

Outcome(x, control, committed) ==
  LET next == NextCall(eng[x].plan, eng[x].cur)
  IN eng' = [eng EXCEPT ![x].pc = IF control # "none" \/ next = 0 THEN "close" ELSE "look",
                        ![x].cur = next, ![x].seen = NULL, ![x].ok = FALSE,
                        ![x].saved = @ \/ committed, ![x].control = control]
-----------------------------------------------------------------------------
Alive == {x \in Engine : eng[x].pc # "idle"}

(* A worker holds the lease and loads the run; while another engine is     *)
(* alive this is a takeover.                                               *)
Begin(x) ==
  /\ eng[x].pc = "idle"
  /\ run.status = "running"
  /\ \/ Alive = {} /\ UNCHANGED zombies
     \/ Alive # {} /\ zombies < MaxZombies /\ zombies' = zombies + 1
  /\ eng' = [eng EXCEPT ![x] = [Idle EXCEPT !.pc = "step", !.version = run.version,
                                            !.step = run.step, !.calls = run.calls]]
  /\ UNCHANGED <<run, steps, exec, effect, approvals, faults, resumes>>

(* checkpoint, fenced by the version: the loop goes on while the run is    *)
(* running; StaleRunError ends the handler.                                *)
Checkpoint(x, status, step, calls) ==
  \/ /\ run.version = eng[x].version
     /\ Commit(x)
     /\ run' = [status |-> status, version |-> run.version + 1, step |-> step, calls |-> calls]
     /\ eng' = [eng EXCEPT ![x] = IF status # "running" THEN Idle
                                  ELSE [Idle EXCEPT !.pc = "step", !.version = run.version + 1,
                                                    !.step = step, !.calls = calls]]
     /\ UNCHANGED <<exec, effect, approvals, bounds>>
  \/ run.version # eng[x].version /\ Fail(x)

(* check_before_step *)
StepLimit(x) ==
  /\ eng[x].pc = "step"
  /\ eng[x].step >= MaxSteps
  /\ Checkpoint(x, "timed_out", eng[x].step, eng[x].calls)

(* _execute_step_inner: a persisted step is replayed, otherwise the model  *)
(* is asked.                                                               *)
StartStep(x) ==
  /\ eng[x].pc = "step" /\ eng[x].step < MaxSteps
  /\ eng' = [eng EXCEPT ![x] =
       IF steps[eng[x].step] = NULL THEN [@ EXCEPT !.pc = "llm"]
       ELSE [@ EXCEPT !.pc = "plan", !.plan = steps[eng[x].step], !.saved = TRUE]]
  /\ UNCHANGED <<run, steps, exec, effect, approvals, bounds>>

LlmFails(x) ==
  /\ eng[x].pc = "llm"
  /\ Checkpoint(x, "failed", eng[x].step, eng[x].calls)

(* add_step: flushed but not committed.  The unique (run_id, step_no) lets *)
(* one session at a time hold the step, and none once it is committed.     *)
Holding(n) == {y \in Engine : ~eng[y].saved /\ eng[y].step = n}

(* Mutant: no unique constraint on agent_steps. *)
NeverPersisted(n) == FALSE

Persisted(n) == steps[n] # NULL

Answer(x) ==
  /\ eng[x].pc = "llm"
  /\ \/ /\ ~Persisted(eng[x].step) /\ Holding(eng[x].step) = {}
        /\ \E p \in Plans \cup {<<>>} :
             eng' = [eng EXCEPT ![x].pc = "plan", ![x].plan = p, ![x].saved = FALSE]
        /\ UNCHANGED <<run, steps, exec, effect, approvals, bounds>>
     \/ Persisted(eng[x].step) /\ Fail(x)

(* Mutant: one call too many. *)
BudgetOffByOne(e) == e.calls + Len(e.plan) > MaxCalls + 1

(* check_tool_call_budget *)
OverBudget(e) == e.calls + Len(e.plan) > MaxCalls

(* No call: wait for the user; too many calls: time out; else process. *)
Admit(x) ==
  LET e == eng[x]
  IN /\ e.pc = "plan"
     /\ \/ e.plan = <<>> /\ Checkpoint(x, "waiting_user_input", e.step + 1, e.calls)
        \/ /\ e.plan # <<>> /\ OverBudget(e)
           /\ Checkpoint(x, "timed_out", e.step + 1, e.calls)
        \/ /\ e.plan # <<>> /\ ~OverBudget(e)
           /\ eng' = [eng EXCEPT ![x].pc = "look", ![x].cur = FirstCall(e.plan)]
           /\ UNCHANGED <<run, steps, exec, effect, approvals, bounds>>

(* A call: the guardrail of a tool that is in tools_by_name and loaded,    *)
(* the evidence check of finish, then the lookup of the idempotency key.   *)
Guarded(x) == ~IsDeferred(x) /\ Known(ToolOf(x)) /\ ToolOf(x) # "locked"

Lookup(x) ==
  /\ eng[x].pc = "look"
  /\ IF Guarded(x) /\ Repeated(x)
     THEN Outcome(x, IF Gathered(x) THEN "none" ELSE "failed", FALSE)
     ELSE eng' = [eng EXCEPT ![x].pc = "act", ![x].seen = exec[KeyOf(x)],
                             ![x].ok = ~(ToolOf(x) = "finish" /\ FinishBlocked(CallOf(x)))]
  /\ UNCHANGED <<run, steps, exec, effect, approvals, bounds>>

(* _record_unknown_tool *)
RecordUnknownTool(x) ==
  /\ eng[x].pc = "act"
  /\ ToolOf(x) = "ghost" /\ ~IsDeferred(x)
  /\ \/ /\ eng[x].seen # NULL
        /\ \E c \in Controls(x, "failed", FALSE, exec) : Outcome(x, c, FALSE)
        /\ UNCHANGED <<run, steps, exec, effect, approvals, bounds>>
     \/ /\ eng[x].seen = NULL
        /\ Insert(x, "failed")
        /\ \E c \in Controls(x, "failed", TRUE, exec') : Outcome(x, c, TRUE)
        /\ UNCHANGED <<run, effect, approvals, bounds>>
     \/ eng[x].seen = NULL /\ Taken(x) /\ Fail(x)

(* The executor has a tool for the call and found a row, or none. *)
HasTool(x) == eng[x].pc = "act" /\ (ToolOf(x) # "ghost" \/ IsDeferred(x))
Found(x) == HasTool(x) /\ eng[x].seen # NULL
Fresh(x) == HasTool(x) /\ eng[x].seen = NULL

(* Mutant: only a failure is final. *)
NotFailed(row) == row.status # "failed"

Unfinished(row) == row.status = "started"

(* _resolve_existing: a final row answers the call. *)
ResolveExisting(x) ==
  /\ Found(x) /\ ~Unfinished(eng[x].seen)
  /\ \E c \in Controls(x, eng[x].seen.status, FALSE, exec) : Outcome(x, c, FALSE)
  /\ UNCHANGED <<run, steps, exec, effect, approvals, bounds>>

(* _recover_started: invoke again where that is safe, otherwise record     *)
(* that the outcome is unknown; that is fatal for a dangerous tool.        *)
RecoverStarted(x) ==
  LET row == eng[x].seen
  IN /\ Found(x) /\ Unfinished(row)
     /\ \/ /\ SafeToRetry(row)
           /\ eng' = [eng EXCEPT ![x].pc = "invoke"]
           /\ UNCHANGED <<steps, exec>>
        \/ /\ ~SafeToRetry(row)
           /\ Commit(x)
           /\ exec' = [exec EXCEPT ![KeyOf(x)].status = "unknown"]
           /\ \E c \in IF requires_approval(row.tier) /\ ~IsDeferred(x) THEN {"failed"}
                       ELSE Controls(x, "unknown", FALSE, exec') : Outcome(x, c, TRUE)
     /\ UNCHANGED <<run, effect, approvals, bounds>>

(* The schema of a deferred call nobody knows accepts every object. *)
Invalid(x) == CallOf(x).args = "bad" /\ (Known(ToolOf(x)) \/ ~IsDeferred(x))

RecordInvalidArguments(x) ==
  /\ Fresh(x) /\ Invalid(x)
  /\ \/ /\ Insert(x, "invalid")
        /\ \E c \in Controls(x, "invalid", TRUE, exec') : Outcome(x, c, TRUE)
        /\ UNCHANGED <<run, effect, approvals, bounds>>
     \/ Taken(x) /\ Fail(x)

(* _check_approval: ask for a decision, wait for it, or record a denial.   *)
(* Losing the insert to another engine ends this one, as Crash does.       *)
NeedsApproval(x) == requires_approval(Tier(ToolOf(x)))

(* Mutant: an expired request no longer stands in the way. *)
NotRejected(status) == status \in {"approved", "expired"}

Allows(status) == status = "approved"

(* A row of approval_requests, keyed like the execution, as it is inserted *)
NewRequest == "pending"

AskApproval(x) ==
  /\ Fresh(x) /\ ~Invalid(x) /\ NeedsApproval(x)
  /\ \/ /\ approval[KeyOf(x)] = NULL
        /\ approval' = [approval EXCEPT ![KeyOf(x)] = NewRequest]
        /\ Commit(x)
        /\ Outcome(x, IF IsDeferred(x) THEN "none" ELSE "waiting_approval", TRUE)
     \/ /\ approval[KeyOf(x)] = "pending"
        /\ Outcome(x, IF IsDeferred(x) THEN "none" ELSE "waiting_approval", FALSE)
        /\ UNCHANGED <<approval, steps>>
  /\ UNCHANGED <<run, exec, effect, granted, deciding, expiring, bounds>>

Denied(x) ==
  /\ Fresh(x) /\ ~Invalid(x) /\ NeedsApproval(x)
  /\ approval[KeyOf(x)] \notin {NULL, "pending"} /\ ~Allows(approval[KeyOf(x)])
  /\ \/ /\ Insert(x, "failed")
        /\ \E c \in Controls(x, "failed", TRUE, exec') : Outcome(x, c, TRUE)
        /\ UNCHANGED <<run, effect, approvals, bounds>>
     \/ Taken(x) /\ Fail(x)

Approved(x) ==
  /\ Fresh(x) /\ ~Invalid(x) /\ NeedsApproval(x)
  /\ Allows(approval[KeyOf(x)])
  /\ eng' = [eng EXCEPT ![x].pc = "write"]
  /\ UNCHANGED <<run, steps, exec, effect, approvals, bounds>>

(* The write-ahead insert, durable before the handler runs. *)
WriteAhead(x) ==
  /\ \/ Fresh(x) /\ ~Invalid(x) /\ ~NeedsApproval(x)
     \/ eng[x].pc = "write"
  /\ \/ /\ Insert(x, "started")
        /\ eng' = [eng EXCEPT ![x].pc = "invoke", ![x].saved = TRUE]
        /\ UNCHANGED <<run, effect, approvals, bounds>>
     \/ Taken(x) /\ Fail(x)

(* _invoke_and_finalize: the handler, whose exception is a failure ...  The *)
(* one that stands in for a tool that is not loaded only says so, in what   *)
(* it returns: the call succeeds without an effect.                         *)
Denying(x) == IsDeferred(x) \/ (ToolOf(x) = "finish" /\ ~eng[x].ok)
Acting(x)  == Known(ToolOf(x)) /\ ToolOf(x) # "locked" /\ ~Denying(x)
Verdicts(x) == IF Denying(x) THEN {FALSE}
               ELSE IF ToolOf(x) \in {"finish", "ask", "locked"} THEN {TRUE} ELSE BOOLEAN

Invoke(x) ==
  /\ eng[x].pc = "invoke"
  /\ \E v \in Verdicts(x) : eng' = [eng EXCEPT ![x].pc = "finalize", ![x].ok = v]
  /\ effect' = IF Acting(x) THEN [effect EXCEPT ![KeyOf(x)] = @ + 1] ELSE effect
  /\ UNCHANGED <<run, steps, exec, approvals, bounds>>

(* ... and its outcome, written over whatever the row says. *)
Finalize(x) ==
  LET status == IF eng[x].ok THEN "succeeded" ELSE "failed"
  IN /\ eng[x].pc = "finalize"
     /\ Commit(x)
     /\ exec' = [exec EXCEPT ![KeyOf(x)].status = status]
     /\ \E c \in Controls(x, status, TRUE, exec') : Outcome(x, c, TRUE)
     /\ UNCHANGED <<run, effect, approvals, bounds>>

(* Mutant: only the call that ran is charged. *)
ChargeOne(e) == e.calls + 1

(* tool_calls_used counts every call of the answer, the deferred ones too. *)
Charged(e) == e.calls + Len(e.plan)

(* The step's checkpoint.  A step that waits for an approval is replayed   *)
(* and charged when it resumes.                                            *)
Close(x) ==
  LET e == eng[x]
  IN /\ e.pc = "close"
     /\ IF e.control = "waiting_approval" THEN Checkpoint(x, "waiting_approval", e.step, e.calls)
        ELSE Checkpoint(x, IF e.control = "none" THEN "running" ELSE e.control,
                        e.step + 1, Charged(e))

Crash(x) ==
  /\ eng[x].pc # "idle"
  /\ faults < MaxFaults /\ faults' = faults + 1
  /\ eng' = [eng EXCEPT ![x] = Idle]
  /\ UNCHANGED <<run, steps, exec, effect, approvals, zombies, resumes>>
-----------------------------------------------------------------------------
(* A checkpoint by somebody who has just read the run. *)
SetStatus(status) == run' = [run EXCEPT !.status = status, !.version = @ + 1]

(* post_message resumes a run that waits for a user or for an approval. *)
PostMessage ==
  /\ run.status \in {"waiting_user_input", "waiting_approval"}
  /\ resumes < MaxResumes /\ resumes' = resumes + 1
  /\ SetStatus("running")
  /\ UNCHANGED <<steps, exec, effect, approvals, eng, faults, zombies>>

(* decide_approval: the request reads a pending approval ... *)
DecideRead(a, k) ==
  /\ deciding[a] = NULL /\ approval[k] = "pending"
  /\ deciding' = [deciding EXCEPT ![a] = k]
  /\ UNCHANGED <<run, steps, exec, approval, effect, granted, eng, expiring, bounds>>

(* ... and commits its decision, resuming the run only if it is parked. *)
DecideCommit(a, decision) ==
  /\ deciding[a] # NULL
  /\ approval' = [approval EXCEPT ![deciding[a]] = decision]
  /\ granted' = IF decision = "approved" THEN granted \cup {deciding[a]} ELSE granted
  /\ deciding' = [deciding EXCEPT ![a] = NULL]
  /\ IF run.status = "waiting_approval" THEN SetStatus("running") ELSE UNCHANGED run
  /\ UNCHANGED <<steps, exec, effect, eng, expiring, bounds>>

(* reap_expired_approvals: read, expire (first commit), time the run out   *)
(* if it is parked (second commit).                                        *)
ExpireRead(k) ==
  /\ expiring[k] = "no" /\ approval[k] = "pending"
  /\ expiring' = [expiring EXCEPT ![k] = "read"]
  /\ UNCHANGED <<run, steps, exec, approval, effect, granted, eng, deciding, bounds>>

ExpireApproval(k) ==
  /\ expiring[k] = "read"
  /\ approval' = [approval EXCEPT ![k] = "expired"]
  /\ expiring' = [expiring EXCEPT ![k] = "expired"]
  /\ UNCHANGED <<run, steps, exec, effect, granted, eng, deciding, bounds>>

ExpireRun(k) ==
  /\ expiring[k] = "expired"
  /\ IF run.status = "waiting_approval" THEN SetStatus("timed_out") ELSE UNCHANGED run
  /\ expiring' = [expiring EXCEPT ![k] = "no"]
  /\ UNCHANGED <<steps, exec, approval, effect, granted, eng, deciding, bounds>>

ReaperCrash(k) ==
  /\ expiring[k] # "no"
  /\ faults < MaxFaults /\ faults' = faults + 1
  /\ expiring' = [expiring EXCEPT ![k] = "no"]
  /\ UNCHANGED <<run, steps, exec, approval, effect, granted, eng, deciding, zombies, resumes>>
-----------------------------------------------------------------------------
EngineStep(x) ==
  \/ Begin(x) \/ StepLimit(x) \/ StartStep(x) \/ LlmFails(x) \/ Answer(x) \/ Admit(x)
  \/ Lookup(x) \/ RecordUnknownTool(x) \/ ResolveExisting(x) \/ RecoverStarted(x)
  \/ RecordInvalidArguments(x) \/ AskApproval(x) \/ Denied(x) \/ Approved(x)
  \/ WriteAhead(x) \/ Invoke(x) \/ Finalize(x) \/ Close(x)

ApprovalStep ==
  \/ \E a \in Approver, k \in Key : DecideRead(a, k)
  \/ \E a \in Approver, d \in {"approved", "rejected"} : DecideCommit(a, d)
  \/ \E k \in Key : ExpireRead(k) \/ ExpireApproval(k) \/ ExpireRun(k) \/ ReaperCrash(k)

Next == (\E x \in Engine : EngineStep(x) \/ Crash(x)) \/ PostMessage \/ ApprovalStep

Spec == Init /\ [][Next]_vars
-----------------------------------------------------------------------------
(* Type correctness of the tables and of every engine's memory. *)
TypeOK ==
  /\ run \in RunRow
  /\ steps \in [Step -> Plan \cup {NULL}]
  /\ exec \in [Key -> Row \cup {NULL}]
  /\ approval \in [Key -> Verdict \cup {NULL}]
  /\ effect \in [Key -> Nat]
  /\ granted \subseteq Key
  /\ eng \in [Engine -> Memory]
  /\ deciding \in [Approver -> Key \cup {NULL}]
  /\ expiring \in [Key -> {"no", "read", "expired"}]

(* A call that is not safe to retry reaches the outside world at most once, *)
(* whatever crashes between the write-ahead row and the outcome and however *)
(* many engines replay the step: the point of tool_executor.py.             *)
AtMostOnce ==
  \A k \in Key : effect[k] > 1 => Idempotent(exec[k].tool)

(* A dangerous tool only runs when its call was approved: the gate of       *)
(* _check_approval holds across replays, user messages that resume the      *)
(* run, expiry and concurrent decisions.                                    *)
ApprovedBeforeEffect ==
  \A k \in Key : (effect[k] > 0 /\ requires_approval(exec[k].tier)) => k \in granted

(* The rows of a step are the calls of the one answer that was persisted    *)
(* for it: two engines that asked the model for the same step never mix     *)
(* their answers under the same idempotency keys.                           *)
RowsMatchPlan ==
  \A k \in Rows(exec) :
    /\ steps[k[1]] # NULL
    /\ k[2] \in DOMAIN steps[k[1]]
    /\ exec[k].args = Stored(steps[k[1]][k[2]], k[2])
    /\ exec[k].tool \in {steps[k[1]][k[2]].tool, "ghost"}

(* How many calls the answers to the first n steps asked for *)
Requested[n \in 0 .. MaxSteps] == IF n = 0 THEN 0 ELSE Requested[n - 1] + Len(steps[n - 1])

(* tool_calls_used is the number of calls the finished steps asked for: no  *)
(* crash, replay, takeover or wait for an approval charges a step twice or  *)
(* not at all.                                                              *)
BudgetIsExact == run.status # "timed_out" => run.calls = Requested[run.step]

(* A run that completed with a success claim ends on evidence: its latest   *)
(* real tool call is recorded as succeeded (_finish_evidence_error), also   *)
(* when finish was replayed after a crash.  A call of a tool that was not   *)
(* loaded is such a record.  The exception is a dangerous call that came    *)
(* with finish and was deferred: it waits for a decision without a row, and *)
(* the replay may record it as failed after finish was let through.         *)
LateDenial(k) == k = <<run.step - 1, 2>> /\ requires_approval(exec[k].tier)

CompletedOnEvidence ==
  (run.status = "completed" /\ steps[run.step - 1][1].args # "b") =>
    \A k \in LatestEvidence : exec[k].status = "succeeded" \/ LateDenial(k)

(* A recorded success is never replaced: replays read it back.              *)
SucceededIsFinal ==
  [][\A k \in Rows(exec) : exec[k].status = "succeeded" => exec'[k].status = "succeeded"]_vars

(* The run has left step n and the two before it with one call each, which  *)
(* come to the same once their arguments are normalized.                    *)
Alike(c, d) == c.tool = d.tool /\ Normalized(c.args) = Normalized(d.args)
RepeatedAt(n) ==
  /\ n >= 2 /\ n < run.step
  /\ \A m \in n - 2 .. n : Len(steps[m]) = 1
  /\ \A m \in n - 2 .. n : Alike(steps[m][1], steps[n][1])

(* The third write in a row that comes to the same stops the run if it is   *)
(* given as it is recorded (check_repeated_calls), also when a crash        *)
(* replays one of the three and the guardrail finds the replayed call's own *)
(* row among the latest.  If the third still needs coercion, the guardrail  *)
(* compares it with normalized rows and lets it pass.  It has to be its     *)
(* step's only call: with a deferred one the rows of the two alternate; and *)
(* a gathered read's verdict is dropped.                                    *)
RepeatedWriteIsStopped ==
  \A n \in Step :
    (/\ RepeatedAt(n) /\ Tier(steps[n][1].tool) = "low_risk_write"
     /\ steps[n][1].args = Normalized(steps[n][1].args))
      => run.status # "running"
=============================================================================
