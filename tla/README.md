# TLA+ models of the agent harness

The repository holds two programs: the *harness*, a server that runs LLM agents
as durable jobs (API, Slack ingress, scheduler, RabbitMQ queue, workers,
PostgreSQL), and *marcus_code*, a terminal agent that keeps its state in memory.
This project models the harness from the request that creates a run to the last
tool call (admission, dispatch and recovery, the prompt and its cost, the
execution of tools, the registries of skills and MCP tools that runs draw on),
the LLM client both programs share, and a session of the terminal agent. Paths
below are relative to the repository; `PROJECT.json` maps every definition to the lines it models.

## Inventory

| Part | State | Operations | Talks to |
|---|---|---|---|
| run state machine (`db/enums.py`, `runtime/state_machine.py`) | status | transition check | every writer of a run |
| run repository (`runtime/repository.py`) | `agent_runs` row: status, version, lease, cancel flag, counters | checkpoint, acquire / renew / release lease, add message / step | API, worker, reapers |
| run queue (`mq.py`) | `agent.runs`, `agent.runs.dlq` | publish, deliver, ack, reject | API, Slack, scheduler, reaper -> worker |
| worker (`workers/main.py`, `runtime/lease.py`) | one message, three sessions, a heartbeat task | claim, load, drive, release, settle | queue, repository, engine |
| reapers (`runtime/reaper.py`) | results of a query | hand off stale runs, expire approvals | repository, queue |
| engine (`runtime/engine.py`) | the loaded run, the plan of a step | step loop, planning, replay, checkpoints | repository, LLM, executor |
| tool executor (`runtime/tool_executor.py`) | `tool_executions`, `approval_requests` | write-ahead, invoke, finalize, recover, gate | tools, approvals |
| guardrails (`runtime/guardrails.py`) | none | limits on steps, calls, tokens, time, repetition | engine |
| approvals and runs API (`api/routes/`) | none | create, message, cancel, decide | repository, queue |
| Slack (`slack/service.py`) | `slack_events`, users, thread mappings | create or resume a run per event, post results | repository, queue |
| scheduler, quotas (`scheduler.py`, `runtime/quotas.py`) | Redis leader key, due jobs, quota rows | fire due jobs, check quota | repository, queue |
| skills (`skills/`, `api/routes/skills.py`) | skills, revisions, usage rows | create, approve, evaluate, publish, roll back, deprecate, select, record usage | engine |
| LLM gateway (`llm/`) | capability caches | complete and stream with retries and fallbacks | engine, compaction, CLI loop |
| context, compaction (`runtime/context.py`, `compaction.py`) | summary steps, usage records | build messages, summarize, charge tokens | engine, LLM |
| MCP (`mcp/`, `api/routes/mcp_servers.py`) | servers, discovered tools, overrides | register, refresh, enable, load, name | engine, executor |
| native tools (`runtime/native_tools*.py`) | none | files, processes, HTTP | executor |
| CLI loop (`marcus_code/runtime/`) | history, contract, todo list, guard counters | a turn: ask, call tools, recover, finish | LLM, tools, UI |

What is hard here: several processes write the same row from copies they read
earlier; a lease can lapse while its owner is alive; the broker and the database
are separate, so every commit-then-publish can stop half-way; a step is replayed
after a crash that may have happened before, during or after a tool's side
effect; people decide approvals and cancel runs at any moment in between;
administrators change skills and tools from overlapping requests while runs use
them; Slack delivers an event more than once and schedulers trade a lock that can
expire under them. The
terminal agent is sequential between awaits; there the difficulty is long
sequences: what is verified, cached, running or kept in the history depends on
everything that happened in this and earlier turns.

What makes it correct, per part: one driver per run and no lost update
(repository, worker); an abandoned or resumed run is picked up (queue, reapers);
a cancelled run is cancelled (API, guardrails); unsafe tools act at most once and
dangerous ones only after an approval (executor); budgets are exact across
replays (engine); a run ends only with a legal and justified status (state
machine, finish evidence); an event, a thread and a due slot lead to one run, and
the quota is overshot at most by the creators that overlap (ingress, scheduler);
a prompt tells every step once, with its records, and what it cost is charged
(context); a run is only given instructions that were reviewed, and those never
change (skills); a tool that was switched off stops being called and none is
hidden by a name it shares (MCP); a call to the provider ends after a bounded number of
requests (gateway); the model is always sent a conversation the protocol accepts,
and an answer is delivered with evidence for every change the session was told of (CLI loop).

## Modules

* `RunStates` - statuses and `ALLOWED_TRANSITIONS`.
* `RunLifecycle` - the abstract run: it follows the state machine, and once a
  cancellation is on record it can only be started and cancelled. No workers,
  leases, versions or messages.
* `RunDispatch` - the detailed dispatch protocol. `run[r]` is the row, `view[w]`
  the ORM object in a worker's open session (sessions use
  `expire_on_commit=False`, so only the session's own successful update
  refreshes it), `pc[w]` the position in `_process_message_inner`, `queue`/`dlq`
  the broker, `outbox` requests that committed and have not published yet,
  `reap[r]` the row a reaper's query returned. One action is one transaction, one
  broker operation or one failure. Time is the Boolean `lease_live`.
  `FollowsLifecycle` is the refinement: the row's status and cancel flag implement
  `RunLifecycle`.
* `ToolExecution` - one run's steps: `steps`, `exec` and `approval` are the
  tables, `eng[x]` the memory of an engine, `effect[k]` counts real handler
  executions (a history variable), `granted` remembers approvals (a history
  variable). Tools stand for the cases the code tells apart: a read, an
  idempotent and a non-idempotent write, a destructive one, an MCP tool that is
  not loaded (its call says so in a result and is recorded as succeeded), the meta
  tools, ask_user, finish and an unknown name. Arguments are valid, invalid, or raw:
  strings that the executor coerces before it records them (`Normalized`, `Stored`),
  while the guardrail looks at the call as it came. The lease is
  abstracted: `Begin` starts an engine on a running run, also next to a live one
  (`MaxZombies`), which is what a lapsed lease permits in `RunDispatch`.
  An `agent_steps` row that is flushed and not committed blocks other sessions
  by its unique key (`Holding`), and is committed with the session's next commit.
* `RunIngress` - how runs come into being. `tx[c]` is the open session of a
  creator (a `POST /v1/runs`, a Slack delivery, a scheduler's tick): its position
  and what it read; `run`, `job`, `event`, `mapping` and `rows` (quota, users)
  are what is committed; `leader` is the Redis key.
  One action is a statement another session can notice, a commit or a publish.
  Unique keys are guards on the insert: a second session waits for the first one's
  commit and then fails. What becomes of a run is the environment (`MoveRun`).
* `RunContext` - one run's prompts and their cost. `steps` and `summaries` are the
  committed `agent_steps`, `open` those whose calls have no `tool_executions` rows
  yet, `passed` those with a call that was passed over and gets none (a repeated read
  that the guardrail stops, a deferred dangerous call), `records` the tokens of the committed usage records, `eng[e]` what an engine
  read and has flushed, `lost` counts the engines that ended without charging (a
  history variable). Engines may overlap, die, raise, park and resume. A call to
  the model costs one unit, so a step and a summary differ in what they cover, not
  in what they cost.
* `LlmGateway` - successive calls of one gateway. `target` is the provider's
  adapter and the model as configured, `tool_capable` and `reasoning_capable` the
  caches, `call` the payload under way. The fields every adapter adds are pure
  operators (`OpenAI`, `Ollama`, `Nvidia`, ...), so a cache key is what the adapter
  really set. A reply is how the gateway classifies it.
* `SkillRegistry` - `skill` and `rev` are the rows, `req[a]` an administrator's
  request with the copies it read; `passed` remembers evaluations; a commit writes the changed columns only
  (SQLAlchemy's unit of work), and a trigger refuses changes of published rows. Runs
  are offered skills, apply one, end, and leave a usage row.
* `McpRegistry` - `server` and `tool` are the rows, `req[a]` a request with its
  copies, `reports` what servers would answer now, `engine` the tools the running
  instance loaded under the names it gave them, `active` the names persisted with
  the run, `called` and `seen` what the instance called and what was enabled since
  it began (history variables).
* `MessageHistory` - the conversation of the terminal agent and how it is
  shortened, as pure operators: the two caps over atomic groups, summaries,
  compaction. A message is its role, its number of tool calls and whether it would
  leave a line in a summary; its length is short, or long for a tool result.
* `MarcusLoop` - a session of the terminal agent, with `MessageHistory` for its
  history. `session` is `SessionState` and the mode, `turn` the locals of
  `run_turn`, `world` what really happened (files, processes, checks), which the
  session learns only from results: `disk` counts every change of the workspace,
  `told` is its value at the last change of a tool with `mutates_workspace`, `alive`
  are all processes, `lost` those whose id no result handed over. `Writes` are the
  tools that can change files, `Mutates` those that say so. One action is what happens between two
  awaits. A user's text is the set of patterns it matches, and the contract is
  computed from it as in `derive_task_contract`; an answer of the model is any
  sequence of calls from the instance's set, or a text.
* `RunDispatchProofs`, `ToolExecutionProofs`, `RunIngressProofs`, `RunContextProofs`,
  `LlmGatewayProofs`, `SkillRegistryProofs`, `McpRegistryProofs`, `MarcusLoopProofs` -
  the theorems about the module of that name, with their inductive invariants
  (`MarcusLoopProofs` also holds those about `MessageHistory`).
* `MC*` - symmetry sets and, where a run needs them, the Slack events, names,
  user's texts and answers of the model that it offers.

The modules meet at the tables they share. `RunDispatch` decides who drives a run;
`ToolExecution` and `RunContext` take from it that engines may overlap and die at
any point. `RunIngress` ends where `RunDispatch` begins, at the committed run and
its message. `McpRegistry` and `SkillRegistry` supply what an engine may offer.
`MarcusLoop` composes `MessageHistory`; the outcome of its requests is what
`LlmGateway` returns.

Definitions marked "mutant" are wrong versions of the definition that follows
them; no specification uses them. Each property is shown to fail when its mutant
replaces the original.

## Runs

Passing runs:

| Run | Instance | Shows |
|---|---|---|
| `dispatch_stall` | 1 run, 2 workers, all requests, 1 stall | types; one driver per run; version fence; no worker overruns a cancellation; refinement of `RunLifecycle`; steps advance by one and stay within `max_steps` although old and new owner overlap |
| `dispatch_takeover` | 2 workers, 1 fault, fairness | an abandoned running run is taken over |
| `tools_crash` | 1 engine, all kinds of calls, 3 steps, 2 crashes | types; each step is charged once; completion rests on recorded evidence; a write repeated for the third time in normalized form stops the run; a recorded success stays |
| `tools_overlap` | 2 engines that overlap, destructive and unsafe calls, a decider, the expiry reaper, a crash, a resume | unsafe calls act at most once; nothing destructive runs without an approval; the rows of a step belong to one answer |
| `context` | 2 engines, 5 steps, 2 kept verbatim, 1 crash, 2 overlaps, 1 resume, 1 step with a call passed over | every step is told once, recent ones verbatim; no crash leaves a call without its record; `tokens_used` accounts for what was spent |
| `llm_gateway` | every provider, model and option; 2 calls, 2 retries | the requests of a call are bounded; a refusal is not asked for again |
| `ingress_slack` | 2 API requests and 2 deliveries at a time, 2 more after them, quota of 1, 1 fault | the quota is overshot by a bounded number; an event reaches a run once; a thread has one run |
| `ingress_schedule` | 2 schedulers, 1 job, 1 API request, 2 patches, 1 lapsed lock, 1 fault, fairness | types; a slot fires once per leader; only a fault strands a run; a due job is fired |
| `skills` | 1 skill, 2 revisions, 2 administrators, 7 requests, 1 run | a run applies only what was reviewed; published revisions are frozen; version numbers do not collide; usage agrees with how the run ended |
| `mcp_tools` | 2 servers with a tool of the same name, 2 administrators, 5 requests, 2 engine instances | a tool is called only if it was enabled when its instance loaded it; no enabled tool is hidden; a refresh keeps overrides |
| `cli_session` | 4 commands and tool rounds, 3 steps per turn, 5 messages, 10 tokens, 2 modes, 2 changes before all are told | types; requests are well formed; an answer is delivered with a check after the last change the session was told of, and no process left that it knows; a cached read is of this turn and not older than that change |

One run violates what the repository says of itself (`PROJECT.json`, "findings"):
`cancel_running`. Cancelling a pending or running run takes the version from under
the worker that would honour the flag, so the run is never cancelled.

Bounds. Runs do not interact in dispatch (each has its own row, message and
lease), so one run suffices in `RunDispatch`; two workers give every overlap of an
old and a new owner; one request and one fault or one stall reach the races listed
under hazards. `MaxQueue` only bounds the duplicates the reaper piles up. In
`ToolExecution` an answer has at most two calls, which gives a selected and a
deferred one; three steps are what the repetition window needs; a dangerous call
next to finish is among the answers, because it alone leaves no row when it is
deferred. Versions and
counters are bounded by the bounds on their causes.

In `RunIngress` runs do interact, through the quota, the thread and the job: with a
quota of one, two API requests and two deliveries give four creators that pass the
check together and, because slots are reused (`MaxServed`), creators that come
after their runs; two events of one thread and a retry of one of them give every
race for the event, the user row and the mapping. One job, two instants and one
lock that lapses during a tick are what two schedulers need to fire the same slot.
In `RunContext` five steps with two kept verbatim allow two summaries, the second
from a stale reading of the first; `MaxPassed` lets one step have a call that is passed over,
beside every other that a crash could leave without records. In `SkillRegistry` seven requests suffice to
import a skill with two revisions and to approve, evaluate and publish both; in `McpRegistry` five
requests register two servers, refresh both and change one. In `LlmGateway` the
second call shows what the first one left in the caches; the retry counter starts
again with each call.

In `cli_session`, `MaxEffort` bounds commands and answers with tool calls together,
so every division of four of them into turns is explored: enough for a change left
unverified in one turn and finished in the next, a process that outlives a
`/continue`, or three identical calls and the recovery they cause. The history
limits are small enough that trimming, summaries and compaction happen within a
turn. `MaxUntold` bounds the changes the session is not told of: two give one before
and one after a check or a cached read. `Modes` are the modes the user may switch to
from `agent`, in which every call that is not read-only asks: `ask` refuses such calls and
`auto` asks for dangerous commands only. Of the
commands only run_tests is among the answers, because it is a check, a writer of files and
a source of orphans at once; the others, and an abbreviated process id, are in the module and
the proofs.

Symmetry is used only where nothing distinguishes the values, and not in runs that
check liveness. `CHECK_DEADLOCK FALSE` is set because a run that ended, requests
that are used up, or a run that the divergences below describe, leave nothing to do.

Fairness. `RunDispatch!FairSpec`: weak fairness of each worker's handler, heartbeat
and restart, of publishing after a commit, of lease expiry and of the reaper timer:
all are loops or timers of running processes. Strong fairness of `Consume`: the
broker delivers a queued message once a worker is free often enough. Restart is an
operational assumption, since the compose file sets no restart policy; the liveness
violation does not depend on a process being down. `RunIngress!FairSpec`: weak
fairness of a scheduler that lives (its loop polls), of a request that was started
(it is served or cut off), of the TTL of the leader key, and of the end of the day
that renews the token quota. No dead scheduler is restarted; the property assumes
that one lives and that the quota has room in the end. Clients, administrators,
Slack, crashes, stalls and exceptions are never fair.

## Known divergences

Places where the models do what the code does and a document, comment or test says
otherwise. Only the first has a run; the others are found by stating the quoted
expectation as a property of the module in parentheses.

* A cancellation of a running run has no effect (`cancel_running`, above).
* (`RunDispatch`) A reply is accepted as soon as a run is parked, while its worker
  still posts to Slack and releases the lease. Another worker consumes the resume
  message, finds the lease taken and acks it (`workers/main.py:99`); the run stays
  running, unleased and unqueued, which no reaper query selects.
  `docs/schema.md:200-201`: replies "append user messages and resume waiting runs".
* (`ToolExecution`) `_process_tool_calls` keeps only `waiting_approval` of the
  outcomes of read-only calls (`runtime/engine.py:506`), so a run that repeats a
  read-only call goes on to `max_steps`. `tests/test_engine.py:220-234` and
  `runtime/guardrails.py:64` expect it to be aborted.
* (`ToolExecution`) The same guardrail compares a call's arguments as the model gave them
  (`runtime/engine.py:619-621`) with rows that hold them normalized
  (`runtime/tool_executor.py:78`). A write whose strings are coerced ("5" for 5) is never
  found repeated, although `runtime/guardrails.py:64` says "Abort the run if this call
  would repeat the same tool+args". `RepeatedWriteIsStopped` states what does hold.
* (`ToolExecution`) The call of a tool that is not loaded returns its refusal as a result
  (`runtime/engine.py:83-84`), is recorded as succeeded (`runtime/tool_executor.py:330`)
  and supports a following finish; `tests/test_progressive_disclosure.py:80-107` shows the
  completion. `runtime/engine.py:656`: "Prevent a success claim while the most recent
  real tool failure is unresolved."
* (`ToolExecution`) The approval request is committed before the run is parked. A
  decision in between resumes nothing; the run then waits for an approval that is
  no longer pending (`api/routes/approvals.py:86`, against the comment at 87-88). A
  reaper that dies between its two commits has the same end.
* (`ToolExecution`) A dangerous call that comes with finish is deferred and asks for
  an approval without leaving a row, so finish finds nothing against it. If the engine
  dies before its checkpoint and the request is rejected or expires in the meantime, the
  replay records the call as failed and the replayed finish completes the run.
  `runtime/engine.py:656`: "Prevent a success claim while the most recent real tool
  failure is unresolved." `CompletedOnEvidence` states what does hold.
* (`RunContext`) Two kinds of calls leave no row, and the next prompt tells the model
  "execution record missing" (`runtime/context.py:191-192`): a repeated read, whose
  verdict is dropped (`runtime/engine.py:505-508`, `617-623`), and a deferred dangerous
  call, which waits for an approval (`runtime/tool_executor.py:82-85`, `171-175`) although
  the comment at `runtime/engine.py:457` says "Record policy-denied observations for
  deferred calls up front". `NoMissingRecord` states what does hold.
* (`SkillRegistry`) The registry refuses to publish a revision that has not passed an
  evaluation (`skills/registry.py:194-195`), as `idea.md:658` asks. Three test files
  publish and apply approved revisions that were never evaluated and expect success
  (`tests/test_api_skills.py:72-82`, `91-101`, `128-134`; `tests/test_skill_usage.py:67-68`,
  `87-94`; `tests/test_skill_selection.py:49-50`, `79-82`), and `todo-work.md:39` lists the
  gate as still to be done. `AppliedSkillWasReviewed` follows the code; what the tests
  expect is its mutant, `ApprovalSuffices`. It permits what the code does when an evaluation
  fails between the check and the commit of a publication: the revision is published.
* (`MarcusLoop`) Tools without `mutates_workspace` change files: run_tests and
  execute_python (`marcus_code/tools/extra.py:444-566`), memory_write and the todo tools
  (`608-635`, `862-929`), and background processes; so does a command before it is killed at its
  time limit (`tools/base.py:417-420`). The session advances no revision, keeps the
  evidence of an earlier check and answers reads from its cache
  (`marcus_code/runtime/agent.py:589-593`): memory_read, memory_write, memory_read of one
  key in one turn gives the old value. The todo entry at `runtime/agent.py:513` says
  "Verification evidence from the current revision is required".
* (`MarcusLoop`) A result of start_process that is longer than `result_max_chars` (it
  repeats the command) is cut to a digest without `process_id`, and the process is not
  tracked (`marcus_code/runtime/agent.py:1165`, `583`); run_tests and execute_python
  leave their process running at the time limit (`marcus_code/tools/extra.py:464`, `534`).
  The answer is delivered while such a process lives, against `runtime/agent.py:485-486`,
  "Stop every process you started before finishing." `DeliveredQuiet` states what does hold.
* (`MarcusLoop`) A failed check clears the evidence of an earlier success but not
  the mark that the change was verified (`marcus_code/runtime/agent.py:605`), so
  under the after_mutation policy the answer is delivered. The comment at 604 says
  that a newer failed check supersedes an older successful one.
* (`RunIngress`) The leader key can expire during a tick; two schedulers then fire
  the same slot. `docs/runbook.md:31` says that only one instance fires jobs at a
  time. `SlotFiresOncePerLeader` states what does hold.
* (`RunIngress`) A run whose publish failed stays pending: the reaper looks for
  running runs only, although `decisions.md:24` promises recovery from PostgreSQL
  alone. `StrandedOnlyByFault` states what does hold.
* (`McpRegistry`) `canonical_tool_name` (`mcp/tools.py:9`, "Stable collision-safe
  identifier") maps server names that differ only in the characters it replaces to one
  name; of two such tools the engine keeps the one the query returns first. `NoToolShadowed` excepts them (`Clashes`).
* (`LlmGateway`) A stream neither consults nor fills the cache of providers that
  refuse tools.
* (`RunDispatch`) The reaper's release of a lease is rolled back with its session,
  and a renewal does not make it lose the race; the message it publishes is a
  duplicate at worst. (`ToolExecution`) Two overlapping decisions of one approval
  both succeed; a deferred destructive call asks for an approval in place of being
  recorded as denied; a destructive call that crashed half-way fails its run where
  the decision record lets it wait for a human.

## Further hazards

Beside the hazards of `PROJECT.json`, reading the code showed smaller ones:

* `workers/main.py:169`, the reaper publishes inside a transaction it never commits;
  `scheduler.py:113`, a failed flush expires the job object that the error handler
  then reads; `scheduler.py:106`, a job may be patched after a tick read it and is
  fired all the same; `runtime/quotas.py:22`, of two sessions that insert a row on
  first use one fails. All four are in the models.
* `runtime/guardrails.py:65`, a replayed call counts its own row and may be refused
  one repetition early, and a deferred call's row between two repetitions hides them;
  `runtime/engine.py:66`, a deferred finish is recorded as a failed tool 'unknown' and
  blocks the next finish; `runtime/engine.py:475`, a deferred destructive call leaves
  a pending approval. Visible in `ToolExecution`; no document states what is intended.
* `marcus_code/runtime/agent.py:554`, rejected calls never reach the guardrails; 586,
  a process stopped by an abbreviated id keeps blocking the final answer; 564,
  rejected calls are answered before the others run. In `MarcusLoop`.
* `skills/registry.py:196`, publishing and deprecating may overlap and leave a
  published skill without an active revision; no run is offered it. 213 reads a lazy
  relation in an async session: the request may fail and then changes nothing.
* `runtime/engine.py:496`, calls gathered in one session (not the default);
  `runtime/context.py:60`, the order of a summary in the prompt; `mcp/client.py:87`, a
  cancellation taken for a tool failure; `llm/gateway.py:336`, exceptions that do not
  become an LLMError, and 268, deltas of a repeated stream shown twice. Not modelled,
  or the same outcome as a fault that is.

## Proofs

Eight modules of theorems, each for every set of engines, workers, requests, skills,
servers, jobs and so on, and for every value of the bounds. The constants are only
assumed to be what the declarations say: limits are natural numbers, NULL is none of
the values and rows it stands beside, kinds of processes are disjoint, some step is
kept verbatim (`KEEP_RECENT_STEPS`), and where something is counted the set is finite.
Nothing is assumed of the names that servers and tools have. These assumptions are named in the module that
declares the constants and evaluated by its runs.

An invariance proof has the same shape everywhere: "effect" lemmas say column by
column what an action does, a few kinds of step are told apart (a session moves on, a
row is inserted, a row is restated, somebody decides), and the invariant is shown for
each kind, with one step per conjunct that it can disturb.

`RunDispatchProofs`:

* `TypeCorrect`: `TypeOK`, with `Exists` - a message, an unpublished request, a
  reaper's candidate and a busy worker's task refer to an inserted row. Without
  `Exists` a worker could be shown a row whose status is NULL.
* `FenceHolds`: `CurrentVersionIsCurrentRow`. Every write of a fenced column
  raises the version by one and the heartbeat writes none of them, so equal
  versions mean equal content.
* `LeaseExcludes`: `OneDriver`, strengthened by `OwnLease` (a worker between
  acquisition and release holds the lease as long as nothing stalled).
* `CancelRespected`: from the fence; the engine tests the flag on the object it
  writes from.
* `LifecycleFollowed`: refinement. Every action writes a legal transition of the
  row, because the transition was checked on a copy the fence shows to be current.
* `StepsOrdered`: from the fence and `StepBound` (the row's step is within
  `max_steps`).

`ToolExecutionProofs`, for any answers of one or two calls:

* `TypeCorrect`, `RowsAreThePlan`: `TInv` adds to the types what an engine's memory
  means (`Mems`: it works from the persisted answer or from one that it alone holds),
  that one session at a time holds a step (`Exclusive`), that a row says what the
  persisted answer asks for (`Fit`), and that an approval was granted (`Grants`).
  Answers, rows and grants are never taken back, so what an engine remembers stays true.
* `EffectsApproved`, `EffectsOnce`: `IInv` adds `Recorded` (a call that acted has a
  row, and its approval if it needs one) and `Once` (of a call that is not safe to
  retry, the effects so far and the engines about to run its handler are at most one
  together). Both hold for any number of overlapping engines: the unique key lets
  one insert the write-ahead row, and who finds it open does not invoke again.
* `SuccessKept`, `CompletionBacked` assume `MaxZombies = 0`, no engine started while
  another one lives; crashes, replays and resumes are unrestricted. `SInv`: one engine
  is at work and the row it read is current. `EInv` adds that a row of the run's steps
  lies at or before its current step, that a selected call is only handled once the
  deferred one is done or waits for an approval (`Deferrals`), that a finish row
  claiming success belongs to the current step, or to the last one of an ended run, and
  has its evidence (`Claims`), and that only such a row completes a run
  (`Completions`). With overlapping engines both properties fail: `_invoke_and_finalize`
  updates its row unconditionally.
* `BudgetExact`, again for any number of overlapping engines. `Versioned`: an engine
  whose version is the run's has read the run's step and counter as they are, so only
  such an engine moves the run on, by one step, and charges its answer. `Filled`: the
  steps the run has left are persisted, so their total no longer changes. The total is a
  recursive function of the step; that two such functions agree where the answers do is
  shown at the least step where they would differ (`TotalsAgree`).
* `RepetitionStopped` (`MaxZombies = 0`). `RInv` adds to `EInv` and `BInv` that rows are
  numbered in the order of their steps (`Counted`, `Dated`), that a step the run has left
  whose only call was a write has its row (`Written`), and that an engine past the lookup
  is not on the third of three answers that come to the same (`Guards`). The step that
  needs them is `GuardSees`: at the lookup of a third such write, the two latest rows belong
  to the two steps before it, or to the step itself when a crash made it be replayed. Rows
  hold normalized arguments, so the third is found if it is given normalized, however the
  first two were given.

`RunIngressProofs`:

* `TypeCorrect`: the types together with what the locals of each session stand for
  (`Locals`): the run a delivery appends to is waiting if its version is still the one
  seen, the slots of a tick are due, one for a job.
* `OneRunPerThread`, `HandledOnce`: from the unique keys, strengthened by the claims
  of open sessions, of which there is one per event and thread.
* `OvershootBounded`: a creator that passed the check is counted until it commits.
* `StrandedByFault`: each committed run without a message, whose creator is not about to
  publish it, has a fault of its own.
* `SlotsFireOnce`: firings of a slot, schedulers that were overtaken while they hold it,
  and one more while the slot is open (to come, in the job's row or with the leader) are
  together at most one more than the lapses.

`RunContextProofs`: the committed steps are an interval from 0, and a step whose calls
have no records is the run's own or had a call passed over; the summaries are numbered in order and tile the front
of that interval, and a summary that can still be inserted folds the front of what is
left (`FoldFits`), any other fails on its number; an engine's copy of the run is the run
or has an older version (`Good`). From these follow `HistoryTold`, `RecentKept` and
`RecordsShown`. `SpendingCharged` counts: the records exceed `tokens_used` by at most two
calls for each engine at work or lost.

`LlmGatewayProofs`: `RefusalsKept`, because nothing that was refused is in a payload, so
no later success overwrites what is remembered (`Remembered`); `RetriesBounded`, because
every request is a retry, a refusal or the last of a round (`Accounted`).

`SkillRegistryProofs`: `VersionsSerialised` (the row lock: one allocation at a time, of a
free version), `RevisionsFrozen`, `SkillsReviewed`, `UsageCorrect`. The invariant says of
the catalog that what a row or a request's copy says of a review was true once
(`Reviewed`, `Sound`) and that an active revision is published, and of the runs that what
they found or apply is published.

`McpRegistryProofs`: `CallsWereEnabled` (what an instance loaded or could load was enabled
since it began), `OverridesKept` (rows are never deleted, so a copy stands for a row that
is still there), `NamesReachAll` (two enabled tools get the same name only if a canonical
name clashes, and the property names that case).

`MarcusLoopProofs`, for any limits, inputs, and answers of at most three calls:

* `RequestsAccepted`. `Chat` is a conversation that starts with a system message and
  whose requests for tools are followed by exactly their results. It is shown to survive
  what `MessageHistory` does: dropping whole groups (`GroupOf`; that is why groups are
  atomic), putting a summary in place of whole turns, appending messages; and a user
  message survives because trimming spares the latest one. While tools run the
  conversation is `Owing` as many results as calls are left.
* `DeliveredBacked`, `DeliveredClean`. `Believed`: evidence stands for a check that passed
  after the last change the session was told of, such a change without a check is
  remembered, and the session tracks every live process whose id it was given. Files may
  change besides, at any call: the claim is about what was told.
  `Placed` keeps the world consistent: a live process is the manager's or an orphan.
* `CacheFresh`. `Fresh` is kept because a call that reports a change runs alone
  (`RunsAlone`, from `_plan_tool_calls`): no read of the same answer is cached across it.
* `TypeCorrect`, from the same invariant.

Only model-checked: liveness (`AbandonedRunIsTakenOver`, `DueJobIsFired` and the violated
`CancelTakesEffect`), which is out of the prover's reach. Every other property of the
passing runs is a theorem. `SuccessKept`, `CompletionBacked` and `RepetitionStopped` take it
that no lease lapses under a working engine, as `tools_crash` does, and `OneDriver` speaks
of runs that nothing stalled.

Bounds that the proofs share with the models: an answer has at most two calls in
`ToolExecution` and three in `MarcusLoop` (`Handled` applies `Handle` to each in turn).

No module declares a RECURSIVE operator.

## Not modelled

In the harness: the deadline as a clock (a possible outcome of any step),
`run_max_tool_calls_per_step` above its default of one (the calls would share one
session concurrently), token estimates (whether a history is
long enough to compact is a choice), the order of messages inside a prompt, the
wording of observations, truncation of results (but for the exit code or process id it
loses in the terminal agent) and masking, cron expressions (successive
instants), tracing and metrics. Decoding of messages and a missing row are left out
of the worker. `started_at` is taken to order rows as they were inserted. Native
tools are stateless I/O whose outcomes are choices. Authentication, API keys and the
settings and operations routes are reads and writes of single rows. The MCP client's
transport and credentials are left out; `check_health` has no caller. Message
encoding and the assembly of stream deltas are left out of the gateway.

In the terminal agent: the token budget as a number (a request may fail at any
time), reasoning effort, hints, todo list and events, the retries of read-only tools
(an outcome is that of the last attempt), processes that end by themselves or
by kill_process, and the TUI front end with the rendering of both. Ctrl+C during a turn is not an action:
`asyncio.run` cancels the turn, the `finally` blocks close all processes and the
program ends with its in-memory state. `Impossible` never holds with the tools
`build_marcus_tools` registers. The components listed as `not_modelled` in
`PROJECT.json` carry their reasons there.

## Plan

The plan's modules, runs and proofs are done. What would come next:

1. the hazards of `PROJECT.json` that no property covers, once the repository says what
   should happen there: a resume message that arrives while the lease is still held, and
   a decision that comes before the run is parked;
2. `run_max_tool_calls_per_step` above one, with the calls of a step sharing one session;
3. the tools of the two programs, if they come to keep state.
