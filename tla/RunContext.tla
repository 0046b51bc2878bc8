----------------------------- MODULE RunContext -----------------------------
(***************************************************************************)
(* What a run's next prompt is built from and what its model calls cost:   *)
(* compaction of old steps (runtime/compaction.py), the steps a prompt     *)
(* shows (runtime/context.py), usage records (llm/usage.py) and the        *)
(* charging of tokens_used (runtime/engine.py), for one run.               *)
(*                                                                         *)
(* An engine works in one database session.  A step row and the usage      *)
(* record of its model call are flushed and become visible at the next     *)
(* commit: that of the first tool row or that of the closing checkpoint.   *)
(* Every model call costs one unit.  Which tools run is ToolExecution's    *)
(* subject, who may drive the run RunDispatch's: here a second engine may  *)
(* start while a first one, whose lease has expired, still works.          *)
(***************************************************************************)
EXTENDS Naturals, FiniteSets, FiniteSetsExt

CONSTANTS Engine,      \* RunEngine instances
          Keep,        \* KEEP_RECENT_STEPS
          MaxSteps,    \* run.max_steps
          TokenBudget, \* run.token_budget
          NULL,
          MaxFaults,   \* bound: engines that die or raise
          MaxResumes,  \* bound: times a parked run is resumed
          MaxOverlaps, \* bound: engines started while another one works
          MaxPassed    \* bound: steps with a call that was passed over

ASSUME ContextAssumption ==
  /\ Keep \in Nat \ {0} /\ MaxSteps \in Nat /\ TokenBudget \in Nat
  /\ MaxFaults \in Nat /\ MaxResumes \in Nat /\ MaxOverlaps \in Nat
  /\ MaxPassed \in Nat

VARIABLES run,       \* the agent_runs row
          steps,     \* agent_steps of type llm_call, by step_no
          open,      \* steps with tool calls that have no tool_executions row yet
          passed,    \* steps with a call that was passed over without such a row
          summaries, \* agent_steps of type summary
          records,   \* total_tokens of the committed usage_records
          eng,       \* eng[e]: session and locals of an engine
          lost,      \* history: engines that ended without charging the run
          faults, resumes, overlaps

vars == <<run, steps, open, passed, summaries, records, eng, lost, faults, resumes, overlaps>>

(* What load_steps and load_tool_executions_by_step read, and the records *)
table  == <<steps, open, passed, summaries, records>>
bounds == <<faults, resumes, overlaps>>

(* A summary row has number -no and stands for the steps "of". *)
None == [no |-> 0, of |-> {}]
Idle == [pc |-> "idle", view |-> NULL, fold |-> None, owed |-> 0]

Init ==
  /\ run = [step |-> 0, tokens |-> 0, status |-> "running", cancel |-> FALSE, version |-> 0]
  /\ steps = {} /\ open = {} /\ passed = {} /\ summaries = {} /\ records = 0
  /\ eng = [e \in Engine |-> Idle]
  /\ lost = 0 /\ faults = 0 /\ resumes = 0 /\ overlaps = 0
-----------------------------------------------------------------------------
Working == {e \in Engine : eng[e].pc # "idle"}
View(e) == eng[e].view

(* record_usage, called with every answer of the model *)
Recorded == records + 1

(* The earlier steps of which a prompt shows a call with the content       *)
(* "execution record missing"                                              *)
Unrecorded(e) == {n \in open \cup passed : n < View(e).step}

(* The step row is flushed and not committed. *)
Holds(e) == eng[e].pc = "flushed"

(* latest_covered_step_no, plus one: steps are numbered from 0 *)
Covered == Max({0} \cup {Max(s.of) + 1 : s \in summaries})

(* The llm_call steps that maybe_compact and build_llm_messages look at *)
Uncovered == {n \in steps : n >= Covered}

(* Mutant: one step fewer stays verbatim. *)
AllButFewer == {n \in Uncovered : Cardinality({k \in Uncovered : k > n}) >= Keep - 1}

(* uncovered[:-KEEP_RECENT_STEPS] *)
ToSummarize == {n \in Uncovered : Cardinality({k \in Uncovered : k > n}) >= Keep}
-----------------------------------------------------------------------------
(* The engine is gone: what its session flushed is rolled back. *)
Abort(e) ==
  /\ eng' = [eng EXCEPT ![e] = Idle]
  /\ lost' = lost + 1
  /\ UNCHANGED <<run, table>>

(* A call of the step at hand leaves no row. *)
PassOver(e) == /\ passed' = passed \cup {View(e).step}
               /\ Cardinality(passed') <= MaxPassed

(* repo.checkpoint and the commit that follows, in a session that may hold *)
(* a flushed step: the row is written if its version is the one that was   *)
(* read, and StaleRunError ends the engine otherwise.  An engine goes on   *)
(* while the run is running; with a step that is still flushed, because    *)
(* the only call of it was passed over.                                    *)
Checkpoint(e, new, charged) ==
  IF run.version # View(e).version THEN Abort(e)
  ELSE /\ run' = [new EXCEPT !.version = run.version + 1]
       /\ steps' = IF Holds(e) THEN steps \cup {View(e).step} ELSE steps
       /\ records' = IF Holds(e) THEN Recorded ELSE records
       /\ IF Holds(e) /\ new.status = "running" THEN PassOver(e) ELSE UNCHANGED passed
       /\ eng' = [eng EXCEPT ![e] = IF new.status = "running"
                                    THEN [Idle EXCEPT !.pc = "step", !.view = run'] ELSE Idle]
       /\ lost' = IF charged THEN lost ELSE lost + 1
       /\ UNCHANGED <<open, summaries>>

(* run_until_blocked: the run is loaded. *)
Begin(e) ==
  /\ eng[e].pc = "idle" /\ run.status = "running"
  /\ overlaps' = IF Working = {} THEN overlaps ELSE overlaps + 1
  /\ overlaps' <= MaxOverlaps
  /\ eng' = [eng EXCEPT ![e] = [Idle EXCEPT !.pc = "step", !.view = run]]
  /\ UNCHANGED <<run, table, lost, faults, resumes>>

(* check_before_step: cancellation, max_steps or timeout_seconds ends the run. *)
Guardrail(e) ==
  /\ eng[e].pc = "step"
  /\ Checkpoint(e, [View(e) EXCEPT !.status = "terminal"], TRUE)
  /\ UNCHANGED bounds

MayStep(e) == eng[e].pc = "step" /\ ~View(e).cancel /\ View(e).step < MaxSteps

(* Mutant: a step that is there counts as done. *)
SkipCalls(e) ==
  /\ MayStep(e)
  /\ View(e).step \in steps
  /\ eng' = [eng EXCEPT ![e].pc = "executed"]
  /\ UNCHANGED <<run, table, lost, bounds>>

(* The step row is there: its tool calls are executed again, without a     *)
(* model call, and tokens_used is what the run row says.                   *)
Replay(e) ==
  /\ MayStep(e)
  /\ View(e).step \in steps
  /\ eng' = [eng EXCEPT ![e].pc = "tools"]
  /\ UNCHANGED <<run, table, lost, bounds>>

(* maybe_compact reads the steps; the estimate of their tokens is below    *)
(* the threshold or not.                                                   *)
CheckContext(e) ==
  /\ MayStep(e)
  /\ View(e).step \notin steps
  /\ \/ eng' = [eng EXCEPT ![e].pc = "prompt"]
     \/ /\ Cardinality(Uncovered) > Keep
        /\ eng' = [eng EXCEPT ![e].pc = "summarize",
                              ![e].fold = [no |-> Cardinality(summaries) + 1, of |-> ToSummarize]]
  /\ UNCHANGED <<run, table, lost, bounds>>

(* Mutant: without the unique key, or with numbers that never collide *)
NeverTaken(no) == FALSE

(* uq_agent_steps_run_step_no, among summaries *)
NumberTaken(no) == \E s \in summaries : s.no = no

(* The summary and its usage record are committed, unless a summary of     *)
(* that number was committed meanwhile: an IntegrityError ends the engine. *)
Summarize(e) ==
  /\ eng[e].pc = "summarize"
  /\ IF NumberTaken(eng[e].fold.no) THEN Abort(e)
     ELSE /\ summaries' = summaries \cup {eng[e].fold}
          /\ records' = Recorded
          /\ eng' = [eng EXCEPT ![e].pc = "prompt", ![e].fold = None, ![e].owed = 1]
          /\ UNCHANGED <<run, steps, open, passed, lost>>
  /\ UNCHANGED bounds

(* The model answers.  The insert of the step row waits while another      *)
(* session holds the same number and fails if that one has committed.      *)
Answered(e) ==
  /\ eng[e].pc = "prompt"
  /\ \A other \in Engine \ {e} : Holds(other) => View(other).step # View(e).step
  /\ IF View(e).step \in steps THEN Abort(e)
     ELSE /\ eng' = [eng EXCEPT ![e].pc = "flushed", ![e].owed = @ + 1]
          /\ UNCHANGED <<run, table, lost>>
  /\ UNCHANGED bounds

(* An LLMError fails the run; tokens_used is not written, whatever a       *)
(* compaction has cost.                                                    *)
LlmFails(e) ==
  /\ eng[e].pc = "prompt"
  /\ Checkpoint(e, [View(e) EXCEPT !.status = "terminal"], FALSE)
  /\ UNCHANGED bounds

(* The first row of a tool call, or of a request for approval, commits the *)
(* step row and its record.                                                *)
CommitStep(e) ==
  /\ Holds(e)
  /\ View(e).tokens + eng[e].owed <= TokenBudget
  /\ steps' = steps \cup {View(e).step}
  /\ records' = Recorded
  /\ open' = open \cup {View(e).step}
  /\ eng' = [eng EXCEPT ![e].pc = "tools"]
  /\ UNCHANGED <<run, passed, summaries, lost, bounds>>

(* Every call of the step is done: executed now, found executed, or passed *)
(* over without a row.  The verdict of the repetition guardrail on a read  *)
(* is dropped, and a deferred dangerous call is left waiting for approval. *)
ExecuteCalls(e) ==
  /\ eng[e].pc = "tools"
  /\ open' = open \ {View(e).step}
  /\ passed' = passed \ {View(e).step} \/ PassOver(e)
  /\ eng' = [eng EXCEPT ![e].pc = "executed"]
  /\ UNCHANGED <<run, steps, summaries, records, lost, bounds>>

(* Mutant: the cost of compaction is not charged. *)
WithoutCompaction(e) == View(e).tokens + (IF eng[e].owed = 0 THEN 0 ELSE 1)

(* tokens_used of the step *)
TokensUsed(e) == View(e).tokens + eng[e].owed

(* The run row after the step: the next step, the same step for a tool     *)
(* that waits for approval, or the end.  A step that wrote no row is a     *)
(* plain answer, or its only call was a repeated read.                     *)
Outcomes(e) ==
  LET after == [View(e) EXCEPT !.step = @ + 1, !.tokens = TokensUsed(e)]
  IN  IF TokensUsed(e) > TokenBudget THEN {[after EXCEPT !.status = "terminal"]}
      ELSE IF Holds(e) THEN {[after EXCEPT !.status = s] : s \in {"running", "waiting", "terminal"}}
      ELSE IF eng[e].pc = "tools" THEN {[after EXCEPT !.step = View(e).step, !.status = "approval"]}
      ELSE {[after EXCEPT !.status = s] : s \in {"running", "waiting", "terminal"}}

(* The closing checkpoint of a step: right after a plain answer or a       *)
(* budget violation, or after the tool calls; a call that waits for        *)
(* approval ends the round early.                                          *)
CloseStep(e) ==
  /\ eng[e].pc \in {"flushed", "tools", "executed"}
  /\ \E new \in Outcomes(e) : Checkpoint(e, new, TRUE)
  /\ UNCHANGED bounds

(* post_message or decide_approval makes a parked run running again. *)
Resume ==
  /\ run.status \in {"waiting", "approval"}
  /\ resumes < MaxResumes /\ resumes' = resumes + 1
  /\ run' = [run EXCEPT !.status = "running", !.version = @ + 1]
  /\ UNCHANGED <<table, eng, lost, faults, overlaps>>

(* cancel_run *)
Cancel ==
  /\ run.status # "terminal" /\ ~run.cancel
  /\ run' = [run EXCEPT !.cancel = TRUE, !.version = @ + 1,
                        !.status = IF @ = "running" THEN @ ELSE "terminal"]
  /\ UNCHANGED <<table, eng, lost, bounds>>

(* The process dies, the lease's task is cancelled, a tool raises, or the  *)
(* summary's model call fails: maybe_compact handles no LLMError.          *)
Raise(e) ==
  /\ e \in Working
  /\ faults < MaxFaults /\ faults' = faults + 1
  /\ Abort(e)
  /\ UNCHANGED <<resumes, overlaps>>

Next ==
  \/ \E e \in Engine : \/ Begin(e) \/ Guardrail(e) \/ Replay(e) \/ CheckContext(e)
                       \/ Summarize(e) \/ Answered(e) \/ LlmFails(e) \/ CommitStep(e)
                       \/ ExecuteCalls(e) \/ CloseStep(e) \/ Raise(e)
  \/ Resume \/ Cancel

Spec == Init /\ [][Next]_vars
-----------------------------------------------------------------------------
(* HISTORY: whatever engines overlap, raise or die, every committed step   *)
(* is in the next prompt once: verbatim, or folded into one summary.  No   *)
(* step is skipped by build_llm_messages that no summary tells about, and  *)
(* none is told twice.                                                     *)
StepIsToldOnce ==
  \A n \in steps : Cardinality({s \in summaries : n \in s.of}) = IF n \in Uncovered THEN 0 ELSE 1

(* RECENT STEPS: compaction leaves the latest Keep steps verbatim, also    *)
(* when the summary comes from an engine that has been overtaken; the      *)
(* verbatim steps are the latest ones, without a gap.                      *)
RecentStaysVerbatim ==
  /\ summaries # {} => Cardinality(Uncovered) >= Keep
  /\ \A n \in Uncovered : \A k \in steps : k > n => k \in Uncovered

(* RECORDS: an engine that asks the model, also one that takes over after  *)
(* a crash or was itself overtaken, shows a call of an earlier step as     *)
(* "execution record missing" only if the step was carried out and the     *)
(* call passed over in it; never because an engine died half-way.          *)
NoMissingRecord ==
  \A e \in Engine : eng[e].pc \in {"prompt", "flushed"} => Unrecorded(e) \subseteq passed \ open

(* SPENDING: tokens_used never exceeds what usage_records account for, and *)
(* falls short of it by at most a step's two model calls for every engine  *)
(* that ended without charging or is at work; a run that was never         *)
(* interrupted is charged exactly, through approvals and replays.          *)
SpendingIsCharged ==
  /\ run.tokens <= records
  /\ records <= run.tokens + 2 * (lost + Cardinality(Working))
  /\ run.tokens <= TokenBudget + 2
=============================================================================
