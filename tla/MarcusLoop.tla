----------------------------- MODULE MarcusLoop -----------------------------
(***************************************************************************)
(* A session of the terminal agent: the turn loop of                       *)
(* marcus_code/runtime/agent.py, the task contract that decides what a     *)
(* turn has to show before it may finish (runtime/task_contract.py), the   *)
(* modes that decide which calls ask the user (runtime/modes.py), and the  *)
(* commands between turns (cli/app.py, cli/commands.py).                   *)
(*                                                                         *)
(* One action is what happens between two awaits: a model request, the     *)
(* selected tool calls, a command.  world is what really happened, which   *)
(* the session only learns from results: files also change through tools   *)
(* that do not say so, commands that end in an error, and processes.       *)
(***************************************************************************)
EXTENDS MessageHistory

CONSTANTS NULL,
          Inputs,          \* the user's texts, by the patterns they match
          Modes,           \* the modes the user switches to
          Answers,         \* the model's answers: sequences of calls, <<>> is text
          ContextWindow,   \* context_window_tokens
          MaxSteps,        \* max_steps
          MaxFinalRepairs, \* max_finalization_repairs
          MaxArgRepairs,   \* max_argument_repairs
          MaxFailures,     \* max_consecutive_tool_failures
          MaxParallel,     \* max_parallel_read_only
          MaxEffort,       \* bound: commands and answers with tool calls of the session
          MaxUntold        \* bound: changes of the workspace after which all are told

(* The tools stand for the cases the code tells apart: "script" for those   *)
(* that write files and are no check (execute_python, memory_write,         *)
(* todo_create, todo_update), "test" for run_tests, "probe" for             *)
(* wait_for_http and check_url_health; "ghost" is a name nobody knows.      *)
(* Arguments: "bad" fails the schema, "check" is a shell command that       *)
(* verifies, "danger" one that needs approval in auto mode, "short" an      *)
(* abbreviated process id.                                                  *)
Tool == {"read", "probe", "write", "script", "test", "cli", "start", "stop", "ghost"}
Call == [tool : Tool, args : {"a", "b", "bad", "check", "danger", "short"}]
Mode == {"ask", "agent", "auto", "yolo"}
Proc == {1, 2}             \* bound: background processes at a time
Orphan == 0                \* a test or script that outlived its time limit
Window == 3                \* REPEATED_CALL_WINDOW

Tier(t) == CASE t \in {"write", "stop"} -> "sensitive_write"
             [] t \in {"script", "test", "cli", "start"} -> "destructive"
             [] OTHER -> "read_only"
Mutates(t)   == t \in {"write", "cli"}     \* mutates_workspace, as the tools declare it
Writes(t)    == t \in {"write", "script", "test", "cli", "start"}   \* what can really write
Cacheable(t) == t = "read"
Verifier(t)  == t \in {"test", "cli", "probe"}

Capability(t) == CASE t = "read" -> "workspace_read" [] t = "write" -> "workspace_write"
                   [] t \in {"script", "test", "cli"} -> "command" [] OTHER -> "process"

(* is_verification_attempt *)
IsCheck(c) == c.tool \in {"test", "probe"} \/ (c.tool = "cli" /\ c.args = "check")

TaskContract == [caps : SUBSET {"workspace_read", "workspace_write", "command", "process", "web"},
                 plan : BOOLEAN, policy : {"none", "requested", "after_mutation"}]

(* derive_task_contract, from the patterns the text matches.                *)
Contract(f) ==
  LET change == f.change /\ ~f.info
      oper   == f.operate /\ ~f.info
      verify == f.verify /\ ~f.info
      caps   == (IF (f.analyze /\ f.workspace) \/ f.deictic \/ change \/ oper \/ verify
                 THEN {"workspace_read"} ELSE {})
                \cup (IF change THEN {"workspace_write", "command"} ELSE {})
                \cup (IF oper \/ verify THEN {"command"} ELSE {})
                \cup (IF f.process THEN {"process"} ELSE {})
                \cup (IF f.web THEN {"web"} ELSE {})
  IN [caps |-> caps, plan |-> caps # {},
      policy |-> IF change THEN "after_mutation" ELSE IF verify THEN "requested" ELSE "none"]

Plain == [change |-> FALSE, operate |-> FALSE, verify |-> FALSE, analyze |-> FALSE,
          workspace |-> FALSE, deictic |-> FALSE, process |-> FALSE, web |-> FALSE,
          info |-> FALSE]

ASSUME LoopAssumption ==
  /\ \A p \in Answers : p \in Seq(Call) /\ Len(p) <= 3
  /\ \A f \in Inputs : DOMAIN f = DOMAIN Plain
  /\ Modes \subseteq Mode
  /\ NULL \notin Nat /\ NULL \notin TaskContract
  /\ MaxSteps \in Nat /\ MaxParallel \in Nat /\ ContextWindow \in Nat
  /\ MaxFinalRepairs \in Nat /\ MaxArgRepairs \in Nat /\ MaxFailures \in Nat

VARIABLES session,    \* SessionState and mode
          turn,       \* the locals of run_turn
          world,      \* what the tools really did
          effort

vars == <<session, turn, world, effort>>

(* recent_calls and outcome_fingerprints: only how often the last entry was  *)
(* repeated at the end of the list is ever looked at.                        *)
NoStreak == [of |-> NULL, n |-> 0]
Extend(streak, x) == IF streak.of = x THEN [streak EXCEPT !.n = IF @ < Window THEN @ + 1 ELSE @]
                     ELSE [of |-> x, n |-> 1]

NoTurn == [pc |-> "idle", step |-> 0, planned |-> FALSE, repairs |-> 0, retried |-> FALSE,
           calls |-> <<>>, recent |-> NoStreak, print |-> NoStreak, fails |-> 0,
           argfails |-> [t \in Tool |-> 0], recoveries |-> 0, last |-> NULL,
           outcome |-> "none", repl |-> FALSE]

(* SessionState as MarcusLoop sets it up, with a system prompt *)
NewSession ==
  [history |-> <<Msg("system", 0, FALSE)>>, mode |-> "agent", always |-> {},
   contract |-> NULL, plan |-> FALSE, input |-> NULL, guardrail |-> FALSE,
   rev |-> 0, unverified |-> NULL, evidence |-> NULL, procs |-> {}, cache |-> {}]

(* disk counts the changes of the workspace, by whomever; told and checked   *)
(* are its values at the last change the session was told of and the last   *)
(* check that passed, opened that at the start of the turn; check is how    *)
(* the task's last check ended.  managed are the processes the manager      *)
(* knows, lost the live ones whose id no result handed to the session.      *)
NewWorld == [disk |-> 0, told |-> 0, checked |-> 0, opened |-> 0, check |-> "none",
             managed |-> {}, alive |-> {}, lost |-> {}]

Init ==
  /\ session = NewSession
  /\ turn = NoTurn
  /\ world = NewWorld
  /\ effort = 0
-----------------------------------------------------------------------------
(* run_turn up to its loop.  /continue passes the active contract on.       *)
StartTurn(s, f, continuing, repl) ==
  /\ session' = [s EXCEPT !.history = Append(@, Msg("user", 0, FALSE)), !.cache = {},
                          !.contract = IF continuing THEN @ ELSE Contract(f),
                          !.plan = @ /\ continuing,
                          !.evidence = IF continuing THEN @ ELSE NULL,
                          !.input = IF continuing THEN @ ELSE f,
                          !.guardrail = FALSE]
  /\ turn' = [NoTurn EXCEPT !.pc = "top", !.planned = continuing /\ s.plan, !.repl = repl]
  /\ world' = [world EXCEPT !.opened = world.disk, !.check = IF continuing THEN @ ELSE "none"]

Spend == effort < MaxEffort /\ effort' = effort + 1

(* The prompt of _amain is served between turns; dispatch awaits a command  *)
(* before the prompt returns.                                               *)
Command == /\ turn.pc = "idle"
           /\ Spend

(* A line typed at the prompt.  The turns that commands start (/edit,       *)
(* /retry, /continue) run outside of the prompt's cleanup (repl).           *)
UserTurn(f) == Command /\ StartTurn(session, f, FALSE, TRUE)

Edit(f) == Command /\ StartTurn(session, f, FALSE, FALSE)

Retry == /\ session.input # NULL
         /\ Command /\ StartTurn(session, session.input, FALSE, FALSE)

Continue ==
  LET hinted == IF session.guardrail
                THEN [session EXCEPT !.history = Append(@, Msg("system", 0, FALSE))]
                ELSE session
  IN Command /\ StartTurn(hinted, Plain, session.contract # NULL, FALSE)

SwitchMode(m) ==
  /\ Command
  /\ session' = [session EXCEPT !.mode = m, !.always = {},
                                !.history = Append(@, Msg("system", 0, FALSE))]
  /\ UNCHANGED <<turn, world>>

Compact == /\ Command
           /\ session' = [session EXCEPT !.history = CompactHistory(@)]
           /\ UNCHANGED <<turn, world>>

ClearHistory(s, all) ==
  [s EXCEPT !.history = <<Head(@)>>, !.contract = NULL, !.plan = FALSE, !.evidence = NULL,
            !.unverified = NULL, !.cache = {}, !.always = IF all THEN {} ELSE @]

(* /clear and /clear --all.  The user gives up on what was unverified.      *)
Clear(all) ==
  /\ Command
  /\ session' = ClearHistory(session, all)
  /\ world' = [world EXCEPT !.checked = world.disk]
  /\ UNCHANGED turn
-----------------------------------------------------------------------------
NextStep(s, t) == /\ session' = s
                  /\ turn' = [t EXCEPT !.pc = "top", !.step = @ + 1, !.calls = <<>>]

(* A GuardrailStop; some leave last_turn_guardrail for /continue.           *)
Stop(s, recorded) ==
  /\ session' = [s EXCEPT !.guardrail = recorded]
  /\ turn' = [NoTurn EXCEPT !.pc = "done", !.outcome = "stopped", !.repl = turn.repl]

Planning == session.contract.plan /\ ~turn.planned

(* _verification_is_impossible over the tools _active_tool_specs offers.    *)
Impossible ==
  LET active == {t \in Tool \ {"ghost"} : Capability(t) \in session.contract.caps}
  IN /\ \/ session.contract.policy = "requested"
        \/ session.contract.policy = "after_mutation" /\ \E t \in active : Mutates(t)
     /\ ~\E t \in active : Verifier(t)

Prepared(h) == LET trimmed == TrimHistory(h)
               IN IF TokensOf(trimmed) >= Threshold THEN CompactHistory(trimmed) ELSE trimmed

(* The head of the loop: the context must fit, then the model is asked.     *)
ExceedSteps ==
  /\ turn.pc = "top" /\ turn.step = MaxSteps
  /\ Stop(session, TRUE)
  /\ UNCHANGED <<world, effort>>

AskModel ==
  /\ turn.pc = "top" /\ turn.step < MaxSteps
  /\ LET s == [session EXCEPT !.history = Prepared(@)]
     IN IF TokensOf(s.history) >= ContextWindow
        THEN Stop(s, FALSE)
        ELSE IF ~Planning /\ Impossible
        THEN Stop(s, TRUE)
        ELSE session' = s /\ turn' = [turn EXCEPT !.pc = "llm"]
  /\ UNCHANGED <<world, effort>>

(* The session token budget is spent, or the model cannot be reached.       *)
ModelFails ==
  /\ turn.pc = "llm"
  /\ Stop(session, FALSE)
  /\ UNCHANGED <<world, effort>>

ModelTimesOut ==
  /\ turn.pc = "llm"
  /\ IF turn.retried
     THEN Stop(session, TRUE)
     ELSE NextStep([session EXCEPT !.history = CompactHistory(@)],
                   [turn EXCEPT !.retried = TRUE])
  /\ UNCHANGED <<world, effort>>

Said(calls, note) == [session EXCEPT !.history = Append(@, Msg("assistant", calls, note))]

(* A plan without tool calls.  A plan with calls goes on to SelectCalls.    *)
Plan ==
  /\ turn.pc = "llm" /\ Planning
  /\ NextStep([Said(0, TRUE) EXCEPT !.plan = TRUE], [turn EXCEPT !.planned = TRUE])
  /\ UNCHANGED <<world, effort>>
-----------------------------------------------------------------------------
VerificationCurrent == session.evidence # NULL /\ session.evidence = session.rev
VerificationRequired ==
  \/ session.contract.policy = "requested"
  \/ session.contract.policy = "after_mutation" /\ session.unverified # NULL

ProcessesIgnored ==                     \* mutant: background processes are not asked for
  VerificationRequired /\ ~VerificationCurrent
CheckedOnce ==                          \* mutant: evidence of any earlier check will do
  session.procs # {} \/ (session.contract.policy = "requested" /\ session.evidence = NULL)

(* A final answer is refused while a started process is tracked, or         *)
(* required evidence is not of the current revision.                        *)
Refused == session.procs # {} \/ (VerificationRequired /\ ~VerificationCurrent)

OneRepairMore == turn.repairs <= MaxFinalRepairs   \* mutant: off by one
RepairsLeft   == turn.repairs < MaxFinalRepairs

RefuseAnswer ==
  /\ turn.pc = "llm" /\ ~Planning /\ Refused
  /\ IF RepairsLeft
     THEN NextStep(Said(0, TRUE), [turn EXCEPT !.repairs = @ + 1])
     ELSE Stop(Said(0, TRUE), TRUE)
  /\ UNCHANGED <<world, effort>>

Deliver ==
  /\ turn.pc = "llm" /\ ~Planning /\ ~Refused
  /\ session' = [Said(0, TRUE) EXCEPT !.history = TrimHistory(@)]
  /\ turn' = [NoTurn EXCEPT !.pc = "done", !.outcome = "delivered", !.repl = turn.repl]
  /\ UNCHANGED <<world, effort>>
-----------------------------------------------------------------------------
(* _plan_tool_calls: one call that is not read-only, or the first read-only *)
(* ones.  An unknown first name counts as read-only, the default of Tool,   *)
(* and is then rejected.                                                    *)
ReadOnly(c) == c.tool # "ghost" /\ Tier(c.tool) = "read_only"
Selected(calls) ==
  IF Tier(calls[1].tool) # "read_only" THEN <<calls[1]>>
  ELSE LET reads == Pick(calls, {i \in DOMAIN calls : ReadOnly(calls[i])})
       IN SubSeq(reads, 1, IF Len(reads) < MaxParallel THEN Len(reads) ELSE MaxParallel)

(* A policy_denied result for each of n rejected calls *)
Rejections(n) == [i \in 1 .. n |-> Msg("tool", 0, TRUE)]

(* The answer asks for tools; the rejected calls get their results at once. *)
SelectCalls(calls) ==
  /\ turn.pc = "llm" /\ calls # <<>>
  /\ LET chosen == Selected(calls)
         said   == Said(Len(calls), Planning)
     IN /\ session' = [said EXCEPT !.plan = @ \/ Planning,
                                   !.history = @ \o Rejections(Len(calls) - Len(chosen))]
        /\ turn' = [turn EXCEPT !.pc = "tools", !.calls = chosen, !.planned = @ \/ Planning]
  /\ Spend
  /\ UNCHANGED world

(* tool_is_allowed and tool_requires_approval *)
Allowed(c) == session.mode # "ask" \/ Tier(c.tool) = "read_only"
AsksUser(c) ==
  /\ c.tool \notin session.always
  /\ \/ session.mode = "agent" /\ Tier(c.tool) # "read_only"
     \/ session.mode = "auto" /\ c.tool \in {"cli", "start"} /\ c.args = "danger"

Cached(c) == \E e \in session.cache : e.call = c

(* What a handler may report.  "failed" is a result that does not show       *)
(* success: it says so, or truncate_result cut its exit code off, which     *)
(* takes the process id off the result of start.  "error" is an exception,  *)
(* "timeout" that of a command at its time limit.                           *)
Reports(c) ==
  IF Cached(c) THEN {"ok"}
  ELSE CASE c.tool \in {"test", "cli"} -> {"ok", "failed", "error", "timeout"}
         [] c.tool = "script" -> {"ok", "error", "timeout"}
         [] c.tool = "probe"  -> {"ok", "failed", "error"}
         [] c.tool = "start"  -> IF world.managed # Proc THEN {"ok", "failed", "error"} ELSE {"error"}
         [] c.tool = "stop"   -> IF world.managed # {} THEN {"ok", "error"} ELSE {"error"}
         [] OTHER             -> {"ok", "error"}

(* _process_tool_call and _invoke_tool_handler *)
Verdicts(c) ==
  IF c.args = "bad" THEN {"invalid"}
  ELSE IF ~Allowed(c) THEN {"blocked"}
  ELSE Reports(c) \cup (IF AsksUser(c) THEN {"declined"} ELSE {})

Succeeded(v) == v \in {"ok", "failed"}
Failed(v)    == v \in {"error", "timeout", "invalid", "blocked"}

CacheKept(s) == s                       \* mutant: writes leave the cache alone
Invalidated(s) == [s EXCEPT !.cache = {}]

(* What the session makes of one observation; p is the process of start and *)
(* stop.  A short id stops the process and is then not found among the      *)
(* tracked ones.  The process manager forgets a stopped process only when   *)
(* it is closed, so stopping it again succeeds.                             *)
Observe(s, c, v, p) ==
  LET tracked == IF c.tool = "start" /\ v = "ok" THEN s.procs \cup {p}
                 ELSE IF c.tool = "stop" /\ v = "ok" /\ c.args # "short" THEN s.procs \ {p}
                 ELSE s.procs
      known   == IF Cacheable(c.tool) /\ v = "ok" /\ ~Cached(c)
                 THEN s.cache \cup {[call |-> c, disk |-> world.disk]} ELSE s.cache
      noted   == [s EXCEPT !.procs = tracked, !.cache = known,
                           !.history = Append(@, Msg("tool", 0, Succeeded(v) /\ c.tool # "read"))]
      written == IF Mutates(c.tool) /\ Succeeded(v)
                 THEN [Invalidated(noted) EXCEPT !.rev = @ + 1, !.unverified = s.rev + 1,
                                                 !.evidence = NULL]
                 ELSE noted
  IN IF ~IsCheck(c) THEN written
     ELSE IF v = "ok" THEN [written EXCEPT !.evidence = written.rev, !.unverified = NULL]
     ELSE [written EXCEPT !.evidence = NULL]

(* A call that ran may have changed files whatever it reports, and so may a *)
(* process meanwhile (wrote); a success of a tool that mutates_workspace    *)
(* always counts as a change.  run_cli ends the command at its time limit,  *)
(* run_tests and execute_python leave it running.                           *)
Told(c, v) == Mutates(c.tool) /\ Succeeded(v)
MayWrite(w, c, v) == v \notin {"invalid", "blocked", "declined"} /\ (Writes(c.tool) \/ w.alive # {})

Happened(w, c, v, p, wrote) ==
  LET disk   == IF Told(c, v) \/ (wrote /\ MayWrite(w, c, v)) THEN w.disk + 1 ELSE w.disk
      begun  == IF c.tool = "start" /\ Succeeded(v) THEN {p}
                ELSE IF c.tool \in {"test", "script"} /\ v = "timeout" THEN {Orphan} ELSE {}
      ended  == IF c.tool = "stop" /\ v = "ok" THEN {p} ELSE {}
  IN [disk    |-> disk,
      told    |-> IF Told(c, v) THEN disk ELSE w.told,
      checked |-> IF IsCheck(c) /\ v = "ok" THEN disk ELSE w.checked,
      opened  |-> w.opened,
      check   |-> IF ~IsCheck(c) THEN w.check ELSE IF v = "ok" THEN "passed" ELSE "failed",
      managed |-> w.managed \cup (begun \ {Orphan}),
      alive   |-> (w.alive \cup begun) \ ended,
      lost    |-> IF v = "ok" THEN w.lost \ ended ELSE w.lost \cup begun]
-----------------------------------------------------------------------------
(* The guardrails on one observation.  Whether three outcomes of a tool are *)
(* the same to the last detail is up to the tool (stuck).                   *)
Judge(t, c, v, stuck) ==
  IF t.outcome # "none" THEN t
  ELSE LET recent == Extend(t.recent, c)
           print  == Extend(t.print, <<c.tool, v>>)
           again  == recent.n = Window
           same   == print.n = Window /\ stuck
           moved  == t.last # NULL /\ c # t.last
           args   == IF v = "invalid" THEN [t.argfails EXCEPT ![c.tool] = @ + 1] ELSE t.argfails
           fails  == IF Failed(v) THEN t.fails + 1 ELSE 0
       IN IF again /\ t.recoveries < 2
          THEN [t EXCEPT !.recent = recent, !.recoveries = @ + 1, !.last = c, !.outcome = "rethink"]
          ELSE IF again \/ (same /\ ~moved) \/ args[c.tool] > MaxArgRepairs \/ fails >= MaxFailures
          THEN [t EXCEPT !.outcome = "stopped"]
          ELSE [t EXCEPT !.recent = recent, !.argfails = args, !.fails = fails,
                         !.print = IF same THEN [print EXCEPT !.n = 1] ELSE print]

(* One observation after the other: what it means for the session, the      *)
(* world and the guardrails.  An answer has at most three calls.            *)
Handle(x, i, v, p, wrote, stuck) ==
  IF i \notin DOMAIN v THEN x
  ELSE [session |-> Observe(x.session, turn.calls[i], v[i], p),
        world   |-> Happened(x.world, turn.calls[i], v[i], p, wrote),
        turn    |-> Judge(x.turn, turn.calls[i], v[i], stuck)]

Handled(v, p, wrote, stuck) ==
  LET Then(x, i) == Handle(x, i, v, p, wrote, stuck)
  IN Then(Then(Then([session |-> session, world |-> world, turn |-> turn], 1), 2), 3)

(* The tools the user was asked about and let run *)
Approved(v) == {turn.calls[i].tool : i \in {i \in DOMAIN v :
                  AsksUser(turn.calls[i]) /\ v[i] \notin {"invalid", "blocked", "declined"}}}

(* What the selected calls may come to together *)
Outcomes ==
  LET can == [i \in DOMAIN turn.calls |-> Verdicts(turn.calls[i])]
  IN {v \in [DOMAIN can -> UNION Range(can)] : \A i \in DOMAIN v : v[i] \in can[i]}

(* The process that start and stop are about; the ids are opaque, and start *)
(* takes them in order.                                                     *)
Fits(v, p) ==
  \A i \in DOMAIN v :
    CASE turn.calls[i].tool = "start" /\ Succeeded(v[i]) -> p = Min(Proc \ world.managed)
      [] turn.calls[i].tool = "stop" /\ v[i] = "ok"  -> p \in world.managed
      [] OTHER -> p = 1

(* Where the guardrails leave the turn: stopped, told to think again, or on *)
(* its way to the next request.                                             *)
Proceed(s, t) ==
  CASE t.outcome = "stopped" -> Stop(s, TRUE)
    [] t.outcome = "rethink" ->
         NextStep([s EXCEPT !.history = Append(@, Msg("system", 0, FALSE))],
                  [t EXCEPT !.outcome = "none"])
    [] OTHER -> NextStep(s, t)

(* _execute_selected_calls, the observations and the guardrails on them. A  *)
(* user who approves may allow the tool for the session, and it takes       *)
(* Window equal outcomes to be stuck.                                       *)
RunTools ==
  /\ turn.pc = "tools"
  /\ \E v \in Outcomes, p \in Proc, wrote, stuck, always \in BOOLEAN :
       /\ Fits(v, p)
       /\ always => Approved(v) # {}
       /\ stuck => turn.print.n + Len(v) >= Window
       /\ wrote => /\ world.disk < MaxUntold
                   /\ \E i \in DOMAIN v : MayWrite(world, turn.calls[i], v[i])
       /\ LET x == Handled(v, p, wrote, stuck)
          IN /\ world' = x.world
             /\ Proceed([x.session EXCEPT !.history = TrimHistory(@),
                                          !.always = IF always THEN @ \cup Approved(v) ELSE @],
                        x.turn)
  /\ UNCHANGED effort

(* BackgroundProcessManager.aclose stops the processes and forgets them; an *)
(* orphan it never knew.                                                    *)
CloseManager == world' = [world EXCEPT !.alive = @ \cap {Orphan}, !.lost = @ \cap {Orphan},
                                       !.managed = {}]

(* The finally of the REPL stops all processes; the turns of commands run   *)
(* outside of it.                                                           *)
EndTurn ==
  /\ turn.pc = "done"
  /\ turn' = NoTurn
  /\ IF turn.repl
     THEN session' = [session EXCEPT !.procs = {}] /\ CloseManager
     ELSE UNCHANGED <<session, world>>
  /\ UNCHANGED effort
-----------------------------------------------------------------------------
Between == \/ \E f \in Inputs : UserTurn(f) \/ Edit(f)
           \/ Retry \/ Continue \/ Compact
           \/ \E m \in Modes : SwitchMode(m)
           \/ \E all \in BOOLEAN : Clear(all)

During == \/ ExceedSteps \/ AskModel \/ ModelFails \/ ModelTimesOut \/ Plan
          \/ RefuseAnswer \/ Deliver \/ RunTools \/ EndTurn
          \/ \E calls \in Answers : SelectCalls(calls)

Next == Between \/ During

Spec == Init /\ [][Next]_vars
-----------------------------------------------------------------------------
(* Type correctness of the session, the turn and the world. *)
TypeOK ==
  /\ session.history \in Seq(Message) /\ session.mode \in Mode /\ session.always \subseteq Tool
  /\ session.plan \in BOOLEAN /\ session.guardrail \in BOOLEAN
  /\ session.rev \in Nat /\ session.unverified \in Nat \cup {NULL}
  /\ session.evidence \in Nat \cup {NULL} /\ session.procs \subseteq Proc
  /\ turn.pc \in {"idle", "top", "llm", "tools", "done"} /\ turn.step \in 0 .. MaxSteps
  /\ turn.pc \in {"top", "llm", "tools"} => session.contract # NULL
  /\ turn.repairs \in 0 .. MaxFinalRepairs /\ turn.fails \in 0 .. MaxFailures
  /\ turn.recoveries \in 0 .. 2 /\ turn.calls \in Seq(Call) /\ Len(turn.calls) <= 3
  /\ world.disk \in Nat /\ world.told <= world.disk /\ world.opened <= world.disk
  /\ world.managed \subseteq Proc /\ world.alive \subseteq world.managed \cup {Orphan}
  /\ world.lost \subseteq world.alive

(* Whatever was trimmed, summarized, rejected or recovered from, the model  *)
(* is sent a conversation the chat protocol accepts, with the system prompt *)
(* and the user's latest message in it (_atomic_message_groups and the      *)
(* order in which run_turn appends).                                        *)
RequestsWellFormed ==
  (turn.pc = "llm") =>
    /\ WellFormed(session.history)
    /\ Head(session.history).role = "system"
    /\ LatestUser(session.history) # 0

Delivered == turn.pc = "done" /\ turn.outcome = "delivered"

(* A delivered answer of a change task leaves no change that the session was *)
(* told of without a later successful check, and the last check of a        *)
(* verification task passed, with no such change after it; also across      *)
(* /continue, refusals and checks that fail after one that passed.  A       *)
(* change by a tool without mutates_workspace, by a command that ended in   *)
(* an error or by a process is none the session is told of: the answer may  *)
(* rest on a check that came before it.                                     *)
DeliveredOnEvidence ==
  Delivered =>
    /\ session.contract.policy # "none" => world.told <= world.checked
    /\ session.contract.policy = "requested" => world.check = "passed"

(* A delivered answer leaves no process running, whichever of the session's *)
(* turns started it, except those whose id never reached the session: the   *)
(* result of start_process was cut to a digest, or a test or script was     *)
(* left running at its time limit.                                          *)
DeliveredQuiet == Delivered => world.alive \subseteq world.lost

(* What a read is answered from the cache was read in this turn, and after  *)
(* the last change that the session was told of, whatever was read,         *)
(* recovered from or compacted since.  Changes it is not told of leave the  *)
(* cache behind the workspace for the rest of the turn.                     *)
CacheIsFresh ==
  turn.pc \in {"top", "llm", "tools"} =>
    \A e \in session.cache : world.told <= e.disk /\ world.opened <= e.disk
=============================================================================
