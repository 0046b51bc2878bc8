------------------------- MODULE ToolExecutionProofs -------------------------
(***************************************************************************)
(* Proofs about ToolExecution for every set of engines and approvers, all  *)
(* plans of one or two calls, and every value of the limits.               *)
(*                                                                         *)
(*   TypeCorrect      TypeOK                                               *)
(*   RowsAreThePlan   RowsMatchPlan                                        *)
(*   EffectsApproved  ApprovedBeforeEffect                                 *)
(*   EffectsOnce      AtMostOnce                                           *)
(*   SuccessKept      SucceededIsFinal, when no engine is overtaken        *)
(*   CompletionBacked CompletedOnEvidence, when no engine is overtaken     *)
(*   BudgetExact      BudgetIsExact                                        *)
(*   RepetitionStopped                                                     *)
(*                    RepeatedWriteIsStopped, when no engine is overtaken  *)
(*                                                                         *)
(* TInv says what the tables and the engines' memories have to do with     *)
(* each other; Recorded and Once follow the effects on top of it.  SInv    *)
(* and EInv hold when one engine at a time works on the run: what it read  *)
(* is still so, and a finish row that claims success has the evidence.     *)
(* BInv ties an engine to the version of the run it has read, RInv orders  *)
(* the rows by step and says whom the guardrail let pass.                  *)
(***************************************************************************)
EXTENDS ToolExecution, TLAPS, FiniteSetTheorems

(* An engine that has the answer for its step, and one that works on a call *)
Answered == {"plan", "look", "act", "write", "invoke", "finalize", "close"}
Busy     == {"look", "act", "write", "invoke", "finalize"}

(* The row says what the persisted answer asks for under key k. *)
Fits(k, row) ==
  /\ steps[k[1]] # NULL /\ k[2] \in DOMAIN steps[k[1]]
  /\ LET c == steps[k[1]][k[2]]
     IN /\ row.args = Stored(c, k[2])
        /\ row.tool = IF Deferred(k[2]) /\ ~Known(c.tool) THEN "ghost" ELSE c.tool
        /\ row.tier = Tier(c.tool)
        /\ row.idempotent <=> Deferred(k[2]) \/ Idempotent(c.tool)

(* What the memory y of an engine stands for: the persisted answer or one  *)
(* that nobody has persisted, a call of that answer within the budget, a   *)
(* row that was there, and the approval of a dangerous call.               *)
Mem(y) ==
  /\ y.pc \in Answered \cup {"llm"} => y.step \in Step
  /\ y.pc \in Answered /\ y.saved => steps[y.step] = y.plan
  /\ ~y.saved => y.pc \in Answered /\ steps[y.step] = NULL
  /\ y.pc \in Busy => y.cur \in 1 .. Len(y.plan)
  /\ y.pc \in Busy \cup {"close"} => y.calls + Len(y.plan) <= MaxCalls
  /\ y.seen # NULL => /\ y.pc \in {"act", "invoke", "finalize"} /\ y.saved
                      /\ Fits(<<y.step, y.cur>>, y.seen) /\ exec[<<y.step, y.cur>>] # NULL
  /\ y.pc \in {"invoke", "finalize"} => y.saved /\ exec[<<y.step, y.cur>>] # NULL
  /\ y.pc \in {"write", "invoke"} /\ requires_approval(Tier(y.plan[y.cur].tool)) =>
       <<y.step, y.cur>> \in granted

Mems == \A x \in Engine : Mem(eng[x])

Exclusive == \A x, y \in Engine : ~eng[x].saved /\ ~eng[y].saved /\ eng[x].step = eng[y].step
                                    => x = y

Fit == \A k \in Key : exec[k] # NULL => Fits(k, exec[k])

Grants == \A k \in Key : approval[k] = "approved" => k \in granted

TInv == TypeOK /\ Mems /\ Exclusive /\ Fit /\ Grants

Invoking(x, k) == eng[x].pc = "invoke" /\ KeyOf(x) = k

(* An effect belongs to a row, and to an approval where one is needed. *)
Recorded == \A k \in Key : effect[k] > 0 =>
  /\ exec[k] # NULL /\ ~Deferred(k[2]) /\ Known(exec[k].tool) /\ exec[k].tool # "locked"
  /\ requires_approval(exec[k].tier) => k \in granted

(* A call that must not be retried has one chance to take effect. *)
Once == \A k \in Key : exec[k] # NULL /\ ~SafeToRetry(exec[k]) =>
  /\ effect[k] <= 1
  /\ \A x \in Engine : Invoking(x, k) => effect[k] = 0
  /\ \A x, y \in Engine : Invoking(x, k) /\ Invoking(y, k) => x = y

IInv == TInv /\ Recorded /\ Once
-----------------------------------------------------------------------------
LEMMA PlanFacts ==
  ASSUME NEW p \in Plan
  PROVE  /\ p \in Seq(Call) /\ Len(p) \in 0 .. 2 /\ DOMAIN p = 1 .. Len(p)
         /\ \A i \in 1 .. Len(p) : i \in 1 .. 2 /\ p[i] \in Call
<1>1. p \in Seq(Call) /\ Len(p) \in 0 .. 2
  <2>1. CASE p \in Plans
    BY <2>1, ToolAssumption
  <2>2. CASE p = <<>>
    BY <2>2
  <2>3. QED
    BY <2>1, <2>2 DEF Plan
<1>2. QED
  BY <1>1

LEMMA CallFacts ==
  ASSUME NEW c \in Call
  PROVE  c.tool \in Tool /\ c.args \in Args
BY DEF Call

(* Normalization makes and leaves no finish that reports a failure. *)
LEMMA StoredFacts ==
  ASSUME NEW c \in Call, NEW i
  PROVE  /\ Normalized(c.args) \in Args /\ (Normalized(c.args) = "b" <=> c.args = "b")
         /\ Stored(c, i) \in Args /\ (Stored(c, i) = "b" <=> c.args = "b")
         /\ Known(c.tool) => Stored(c, i) = Normalized(c.args)
BY CallFacts DEF Stored, Normalized, Args

LEMMA IdleMem == Idle \in Memory /\ Idle.pc = "idle" /\ Idle.saved /\ Idle.seen = NULL
<1>1. 0 \in 0 .. MaxSteps /\ 0 \in 0 .. MaxCalls /\ 0 \in 0 .. 2 /\ 0 \in Nat /\ <<>> \in Plan
  BY ToolAssumption DEF Plan
<1>2. QED
  BY <1>1 DEF Idle, Memory, Outcomes

LEMMA MemFacts ==
  ASSUME TInv, NEW x \in Engine
  PROVE  eng[x] \in Memory /\ Mem(eng[x])
BY DEF TInv, TypeOK, Mems

(* The fields of a memory *)
LEMMA Fields ==
  ASSUME NEW y \in Memory
  PROVE  /\ y.version \in Nat /\ y.step \in 0 .. MaxSteps /\ y.calls \in 0 .. MaxCalls
         /\ y.plan \in Plan /\ y.saved \in BOOLEAN /\ y.cur \in 0 .. 2
         /\ y.seen \in Row \cup {NULL} /\ y.control \in Outcomes
BY DEF Memory

(* A memory without an answer knows nothing. *)
LEMMA BlankMem ==
  ASSUME NEW y \in Memory, y.pc \in {"idle", "step", "llm"}, y.saved, y.seen = NULL,
         y.pc = "llm" => y.step \in Step
  PROVE  Mem(y)
BY DEF Mem, Answered, Busy

(* The call an engine works on *)
LEMMA BusyFacts ==
  ASSUME TInv, NEW x \in Engine, eng[x].pc \in Busy
  PROVE  /\ eng[x].step \in Step /\ eng[x].cur \in 1 .. 2
         /\ eng[x].cur \in DOMAIN eng[x].plan
         /\ KeyOf(x) \in Key /\ KeyOf(x)[1] = eng[x].step /\ KeyOf(x)[2] = eng[x].cur
         /\ CallOf(x) \in Call /\ ToolOf(x) \in Tool
<1>1. /\ eng[x].pc \in Answered /\ eng[x].plan \in Plan
      /\ eng[x].cur \in 1 .. Len(eng[x].plan) /\ eng[x].step \in Step
  BY MemFacts, Fields DEF Mem, Busy, Answered
<1>2. /\ eng[x].cur \in 1 .. 2 /\ eng[x].cur \in DOMAIN eng[x].plan
      /\ eng[x].plan[eng[x].cur] \in Call
  BY <1>1, PlanFacts
<1>3. QED
  BY <1>1, <1>2, CallFacts DEF KeyOf, Key, CallOf, ToolOf

LEMMA NextCallFacts ==
  ASSUME NEW p \in Plan, NEW i \in 1 .. Len(p)
  PROVE  NextCall(p, i) \in 0 .. 2 /\ (NextCall(p, i) # 0 => NextCall(p, i) \in 1 .. Len(p))
<1>1. Len(p) \in Nat /\ Len(p) <= 2
  BY PlanFacts
<1>2. i \in Nat /\ 1 <= i /\ i <= Len(p) /\ 1 \in 1 .. Len(p)
  BY <1>1
<1>3. i # 1 => ~(i < Len(p))
  BY <1>1, <1>2
<1>4. NextCall(p, i) \in {0, 1}
  BY <1>3 DEF NextCall
<1>5. QED
  BY <1>2, <1>4

(* The engine is done with a call: y goes on with the next or closes. *)
Done(x, y) ==
  /\ y \in Memory /\ eng' = [eng EXCEPT ![x] = y]
  /\ y.pc \in {"look", "close"} /\ y.seen = NULL
  /\ y.step = eng[x].step /\ y.plan = eng[x].plan /\ y.calls = eng[x].calls
  /\ y.pc = "look" => y.cur \in 1 .. Len(y.plan)

LEMMA OutcomeEffect ==
  ASSUME TInv, NEW x \in Engine, eng[x].pc \in Busy, NEW c \in Outcomes
  PROVE  /\ Outcome(x, c, FALSE) => \E y : Done(x, y) /\ (y.saved <=> eng[x].saved)
         /\ Outcome(x, c, TRUE) => \E y : Done(x, y) /\ y.saved
<1> DEFINE e == eng[x]
           next == NextCall(e.plan, e.cur)
           p == IF c # "none" \/ next = 0 THEN "close" ELSE "look"
<1>1. e \in Memory /\ e.plan \in Plan /\ e.cur \in 1 .. Len(e.plan) /\ e.saved \in BOOLEAN
  BY MemFacts, Fields DEF Mem
<1>2. next \in 0 .. 2 /\ (next # 0 => next \in 1 .. Len(e.plan))
  BY <1>1, NextCallFacts
<1>3. p \in {"look", "close"} /\ (p = "look" => next # 0)
  OBVIOUS
<1>4. eng \in [Engine -> Memory]
  BY DEF TInv, TypeOK
<1>5. ASSUME Outcome(x, c, FALSE) PROVE \E y : Done(x, y) /\ (y.saved <=> eng[x].saved)
  <2> DEFINE y == [e EXCEPT !.pc = p, !.cur = next, !.seen = NULL, !.ok = FALSE, !.control = c]
  <2>1. eng' = [eng EXCEPT ![x] = y]
    <3>1. (e.saved \/ FALSE) = e.saved
      BY <1>1
    <3>2. [e EXCEPT !.pc = p, !.cur = next, !.seen = NULL, !.ok = FALSE,
                    !.saved = @ \/ FALSE, !.control = c] = y
      BY <1>1, <3>1 DEF Memory
    <3>3. QED
      BY <1>4, <1>5, <3>2 DEF Outcome
  <2> HIDE DEF p, next
  <2>2. /\ y \in Memory /\ y.pc = p /\ y.cur = next /\ y.seen = NULL /\ y.step = e.step
        /\ y.plan = e.plan /\ y.calls = e.calls /\ y.saved = e.saved
    BY <1>1, <1>2, <1>3 DEF Memory
  <2> HIDE DEF y
  <2>3. QED
    BY <1>2, <1>3, <2>1, <2>2 DEF Done
<1>6. ASSUME Outcome(x, c, TRUE) PROVE \E y : Done(x, y) /\ y.saved
  <2> DEFINE y == [e EXCEPT !.pc = p, !.cur = next, !.seen = NULL, !.ok = FALSE, !.saved = TRUE,
                            !.control = c]
  <2>1. eng' = [eng EXCEPT ![x] = y]
    <3>1. (e.saved \/ TRUE) = TRUE
      OBVIOUS
    <3>2. [e EXCEPT !.pc = p, !.cur = next, !.seen = NULL, !.ok = FALSE,
                    !.saved = @ \/ TRUE, !.control = c] = y
      BY <1>1, <3>1 DEF Memory
    <3>3. QED
      BY <1>4, <1>6, <3>2 DEF Outcome
  <2> HIDE DEF p, next
  <2>2. /\ y \in Memory /\ y.pc = p /\ y.cur = next /\ y.seen = NULL /\ y.step = e.step
        /\ y.plan = e.plan /\ y.calls = e.calls /\ y.saved
    BY <1>1, <1>2, <1>3 DEF Memory
  <2> HIDE DEF y
  <2>3. QED
    BY <1>2, <1>3, <2>1, <2>2 DEF Done
<1>7. QED
  BY <1>5, <1>6

LEMMA ControlsType ==
  ASSUME NEW x, NEW status, NEW fresh, NEW rows
  PROVE  Controls(x, status, fresh, rows) \subseteq Outcomes
BY DEF Controls, Outcomes

(* A commit persists the answer and changes no other step. *)
LEMMA CommitEffect ==
  ASSUME TInv, NEW x \in Engine, Commit(x)
  PROVE  /\ steps' \in [Step -> Plan \cup {NULL}]
         /\ \A n \in Step : steps[n] # NULL => steps'[n] = steps[n]
         /\ \A n \in Step : n # eng[x].step => steps'[n] = steps[n]
         /\ eng[x].saved => steps' = steps
         /\ eng[x].pc \in Answered => steps'[eng[x].step] = eng[x].plan
<1>1. eng[x] \in Memory /\ Mem(eng[x]) /\ eng[x].plan \in Plan
  BY MemFacts, Fields
<1>2. steps \in [Step -> Plan \cup {NULL}]
  BY DEF TInv, TypeOK
<1>3. CASE eng[x].saved
  BY <1>1, <1>2, <1>3 DEF Commit, Mem
<1>4. CASE ~eng[x].saved
  <2>1. eng[x].step \in Step /\ steps[eng[x].step] = NULL
    BY <1>1, <1>4 DEF Mem
  <2>2. steps' = [steps EXCEPT ![eng[x].step] = eng[x].plan]
    BY <1>4 DEF Commit
  <2>3. QED
    BY <1>1, <1>2, <1>4, <2>1, <2>2
<1>5. QED
  BY <1>3, <1>4
-----------------------------------------------------------------------------
(* Every step of an engine is one of six kinds.                            *)
(*                                                                         *)
(* It has no answer afterwards: a checkpoint, a failure, a new step *)
Blank(x, y) ==
  /\ y \in Memory /\ eng' = [eng EXCEPT ![x] = y]
  /\ y.pc \in {"idle", "step", "llm"} /\ y.saved /\ y.seen = NULL
  /\ y.pc = "llm" => y.step \in Step
  /\ UNCHANGED steps \/ Commit(x)
  /\ run' \in RunRow
  /\ UNCHANGED <<exec, effect, approval, granted, deciding, expiring>>

(* Only its memory changes. *)
Moved(x, y) ==
  /\ y \in Memory /\ eng' = [eng EXCEPT ![x] = y] /\ Mem(y)
  /\ ~y.saved => (~eng[x].saved /\ y.step = eng[x].step) \/ Holding(y.step) = {}
  /\ y.pc = "act" => y.seen = exec[<<y.step, y.cur>>]
  /\ y.pc = "invoke" => /\ y.seen # NULL /\ SafeToRetry(y.seen) /\ Unfinished(y.seen)
                        /\ eng[x].pc = "act" /\ y.seen = eng[x].seen
                        /\ y.step = eng[x].step /\ y.cur = eng[x].cur
  /\ y.pc # "finalize"
  /\ UNCHANGED <<run, steps, exec, effect, approval, granted, deciding, expiring>>

(* It inserts a row, the write-ahead row of a call it is going to invoke or *)
(* the row of a call that is done.                                          *)
Starts(x, y) ==
  /\ y \in Memory /\ eng' = [eng EXCEPT ![x] = y]
  /\ y.pc = "invoke" /\ y.saved /\ y.seen = NULL
  /\ y.step = eng[x].step /\ y.plan = eng[x].plan /\ y.calls = eng[x].calls
  /\ y.cur = eng[x].cur
  /\ requires_approval(Tier(ToolOf(x))) => KeyOf(x) \in granted

Inserted(x, y) ==
  /\ eng[x].pc \in Busy
  /\ \E status \in RowStatus : Insert(x, status)
  /\ (Done(x, y) /\ y.saved) \/ (Starts(x, y) /\ Insert(x, "started"))
  /\ UNCHANGED <<run, effect, approval, granted, deciding, expiring>>

(* It writes the outcome over a row. *)
Restated(x, y) ==
  /\ eng[x].pc \in Busy /\ exec[KeyOf(x)] # NULL
  /\ \/ eng[x].pc = "finalize"
     \/ eng[x].pc = "act" /\ eng[x].seen # NULL /\ Unfinished(eng[x].seen)
  /\ Commit(x)
  /\ \E status \in RowStatus : exec' = [exec EXCEPT ![KeyOf(x)].status = status]
  /\ Done(x, y) /\ y.saved
  /\ UNCHANGED <<run, effect, approval, granted, deciding, expiring>>

(* It asks for an approval. *)
Asked(x, y) ==
  /\ eng[x].pc \in Busy
  /\ Commit(x)
  /\ approval' = [approval EXCEPT ![KeyOf(x)] = "pending"]
  /\ Done(x, y) /\ y.saved
  /\ UNCHANGED <<run, exec, effect, granted, deciding, expiring>>

(* It invokes the handler. *)
Invoked(x, y) ==
  /\ y \in Memory /\ eng' = [eng EXCEPT ![x] = y]
  /\ eng[x].pc = "invoke" /\ y.pc = "finalize"
  /\ y.step = eng[x].step /\ y.plan = eng[x].plan /\ y.calls = eng[x].calls
  /\ y.cur = eng[x].cur /\ y.seen = eng[x].seen /\ (y.saved <=> eng[x].saved)
  /\ effect' = IF Acting(x) THEN [effect EXCEPT ![KeyOf(x)] = @ + 1] ELSE effect
  /\ UNCHANGED <<run, steps, exec, approval, granted, deciding, expiring>>

(* An approver, the reaper or a user acts: the engines are as they were. *)
Decided ==
  /\ run' \in RunRow
  /\ approval' \in [Key -> Verdict \cup {NULL}]
  /\ granted' \subseteq Key /\ granted \subseteq granted'
  /\ \A k \in Key : approval'[k] = "approved" => k \in granted'
  /\ deciding' \in [Approver -> Key \cup {NULL}]
  /\ expiring' \in [Key -> {"no", "read", "expired"}]
  /\ UNCHANGED <<steps, exec, effect, eng>>

LEMMA RunFacts == ASSUME TInv PROVE run \in RunRow
BY DEF TInv, TypeOK

LEMMA FailEffect ==
  ASSUME TInv, NEW x \in Engine, Fail(x) \/ Crash(x)
  PROVE  \E y : Blank(x, y)
<1>1. eng' = [eng EXCEPT ![x] = Idle]
  BY DEF Fail, Crash
<1>2. Blank(x, Idle)
  BY <1>1, IdleMem, RunFacts DEF Blank, Fail, Crash, approvals
<1>3. QED
  BY <1>2

LEMMA CheckpointEffect ==
  ASSUME TInv, NEW x \in Engine, NEW step \in 0 .. MaxSteps, NEW calls \in 0 .. MaxCalls,
         NEW status \in {"running", "waiting_user_input", "waiting_approval", "completed",
                         "failed", "timed_out"},
         Checkpoint(x, status, step, calls)
  PROVE  \E y : Blank(x, y)
<1>1. CASE Fail(x)
  BY <1>1, FailEffect
<1>2. CASE ~Fail(x)
  <2> DEFINE row == [status |-> status, version |-> run.version + 1, step |-> step,
                     calls |-> calls]
             z == [Idle EXCEPT !.pc = "step", !.version = run.version + 1, !.step = step,
                               !.calls = calls]
             y == IF status # "running" THEN Idle ELSE z
  <2>1. run.version + 1 \in Nat
    BY RunFacts DEF RunRow
  <2>2. row \in RunRow
    BY <2>1 DEF RunRow
  <2>3. z \in Memory /\ z.pc = "step" /\ z.saved /\ z.seen = NULL
    BY <2>1, IdleMem DEF Memory
  <2>4. /\ Commit(x) /\ run' = row /\ eng' = [eng EXCEPT ![x] = y]
        /\ UNCHANGED <<exec, effect, approval, granted, deciding, expiring>>
    BY <1>2 DEF Checkpoint, approvals
  <2> HIDE DEF z, row
  <2>5. y \in Memory /\ y.pc \in {"idle", "step"} /\ y.saved /\ y.seen = NULL
    BY <2>3, IdleMem
  <2> HIDE DEF y
  <2>6. Blank(x, y)
    BY <2>2, <2>4, <2>5 DEF Blank
  <2>7. QED
    BY <2>6
<1>3. QED
  BY <1>1, <1>2

LEMMA BeginEffect ==
  ASSUME TInv, NEW x \in Engine, Begin(x)
  PROVE  \E y : Blank(x, y)
<1> DEFINE y == [Idle EXCEPT !.pc = "step", !.version = run.version, !.step = run.step,
                             !.calls = run.calls]
<1>1. run.version \in Nat /\ run.step \in 0 .. MaxSteps /\ run.calls \in 0 .. MaxCalls
  BY RunFacts DEF RunRow
<1>2. y \in Memory /\ y.pc = "step" /\ y.saved /\ y.seen = NULL
  BY <1>1, IdleMem DEF Memory
<1>3. eng' = [eng EXCEPT ![x] = y] /\ UNCHANGED <<run, steps, exec, effect, approvals>>
  BY DEF Begin
<1> HIDE DEF y
<1>4. Blank(x, y)
  BY <1>2, <1>3, RunFacts DEF Blank, approvals
<1>5. QED
  BY <1>4

LEMMA StartStepEffect ==
  ASSUME TInv, NEW x \in Engine, StartStep(x)
  PROVE  (\E y : Blank(x, y)) \/ (\E y : Moved(x, y))
<1> DEFINE e == eng[x]
<1>0. e \in Memory /\ Mem(e) /\ e.pc = "step" /\ e.step \in 0 .. MaxSteps /\ e.step < MaxSteps
  BY MemFacts, Fields DEF StartStep
<1>1. e.saved /\ e.seen = NULL /\ e.step \in Step
  BY <1>0, ToolAssumption DEF Mem, Answered, Step
<1>2. eng \in [Engine -> Memory] /\ steps \in [Step -> Plan \cup {NULL}]
  BY DEF TInv, TypeOK
<1>3. UNCHANGED <<run, steps, exec, effect, approval, granted, deciding, expiring>>
  BY DEF StartStep, approvals
<1>4. CASE steps[e.step] = NULL
  <2> DEFINE y == [e EXCEPT !.pc = "llm"]
  <2>1. y \in Memory /\ y.pc = "llm" /\ y.saved /\ y.seen = NULL /\ y.step = e.step
    BY <1>0, <1>1 DEF Memory
  <2>2. eng' = [eng EXCEPT ![x] = y]
    BY <1>4 DEF StartStep
  <2> HIDE DEF y
  <2>3. Blank(x, y)
    BY <1>1, <1>3, <2>1, <2>2, RunFacts DEF Blank
  <2>4. QED
    BY <2>3
<1>5. CASE steps[e.step] # NULL
  <2> DEFINE p == steps[e.step]
             y == [e EXCEPT !.pc = "plan", !.plan = p, !.saved = TRUE]
  <2>1. p \in Plan
    BY <1>1, <1>2, <1>5
  <2>2. eng' = [eng EXCEPT ![x] = y]
    BY <1>5 DEF StartStep
  <2>3. /\ y \in Memory /\ y.pc = "plan" /\ y.saved /\ y.seen = NULL /\ y.step = e.step
        /\ y.plan = p
    BY <1>0, <1>1, <2>1 DEF Memory
  <2> HIDE DEF y
  <2>4. Mem(y)
    BY <1>1, <2>3 DEF Mem, Busy
  <2>5. Moved(x, y)
    BY <1>3, <2>2, <2>3, <2>4 DEF Moved
  <2>6. QED
    BY <2>5
<1>6. QED
  BY <1>4, <1>5

LEMMA AnswerEffect ==
  ASSUME TInv, NEW x \in Engine, Answer(x)
  PROVE  (\E y : Blank(x, y)) \/ (\E y : Moved(x, y))
<1> DEFINE e == eng[x]
<1>1. CASE Fail(x)
  BY <1>1, FailEffect
<1>2. CASE ~Fail(x)
  <2>0. /\ e \in Memory /\ Mem(e) /\ e.pc = "llm" /\ eng \in [Engine -> Memory]
        /\ ~Persisted(e.step) /\ Holding(e.step) = {}
        /\ UNCHANGED <<run, steps, exec, effect, approval, granted, deciding, expiring>>
    BY <1>2, MemFacts DEF Answer, approvals, TInv, TypeOK
  <2>1. PICK p \in Plan :
          eng' = [eng EXCEPT ![x].pc = "plan", ![x].plan = p, ![x].saved = FALSE]
    BY <1>2 DEF Answer, Plan
  <2> DEFINE y == [e EXCEPT !.pc = "plan", !.plan = p, !.saved = FALSE]
  <2>2. eng' = [eng EXCEPT ![x] = y]
    BY <2>0, <2>1
  <2>3. /\ y \in Memory /\ y.pc = "plan" /\ ~y.saved /\ y.seen = e.seen /\ y.step = e.step
    BY <2>0 DEF Memory
  <2> HIDE DEF y
  <2>4. e.seen = NULL /\ steps[e.step] = NULL
    BY <2>0 DEF Mem, Persisted
  <2>5. e.step \in Step
    BY <2>0 DEF Mem
  <2>6. Mem(y)
    BY <2>3, <2>4, <2>5 DEF Mem, Answered, Busy
  <2>7. Moved(x, y)
    BY <2>0, <2>2, <2>3, <2>6 DEF Moved
  <2>8. QED
    BY <2>7
<1>3. QED
  BY <1>1, <1>2

(* After a call, with the tables as they were *)
LEMMA DoneMem ==
  ASSUME TInv, NEW x \in Engine, NEW y, eng[x].pc \in Busy, Done(x, y), y.saved <=> eng[x].saved,
         UNCHANGED <<run, steps, exec, effect, approval, granted, deciding, expiring>>
  PROVE  Moved(x, y)
<1>1. eng[x] \in Memory /\ Mem(eng[x]) /\ eng[x].pc \in Answered
  BY MemFacts DEF Busy, Answered
<1>2. Mem(y)
  BY <1>1 DEF Done, Mem, Answered, Busy
<1>3. QED
  BY <1>2 DEF Done, Moved

LEMMA AdmitEffect ==
  ASSUME TInv, NEW x \in Engine, Admit(x)
  PROVE  (\E y : Blank(x, y)) \/ (\E y : Moved(x, y))
<1> DEFINE e == eng[x]
<1>0. e \in Memory /\ Mem(e) /\ e.pc = "plan" /\ e.plan \in Plan /\ e.calls \in 0 .. MaxCalls
  BY MemFacts, Fields DEF Admit
<1>1. e.step \in Step /\ e.step + 1 \in 0 .. MaxSteps
  BY <1>0, ToolAssumption DEF Mem, Answered, Step
<1>2. CASE \/ Checkpoint(x, "waiting_user_input", e.step + 1, e.calls)
           \/ Checkpoint(x, "timed_out", e.step + 1, e.calls)
  BY <1>0, <1>1, <1>2, CheckpointEffect
<1>3. CASE /\ e.plan # <<>> /\ ~OverBudget(e)
           /\ eng' = [eng EXCEPT ![x].pc = "look", ![x].cur = FirstCall(e.plan)]
           /\ UNCHANGED <<run, steps, exec, effect, approvals, bounds>>
  <2> DEFINE y == [e EXCEPT !.pc = "look", !.cur = FirstCall(e.plan)]
  <2>1. /\ e.plan \in Seq(Call) /\ Len(e.plan) \in Nat
        /\ 1 <= Len(e.plan) /\ Len(e.plan) <= 2
    BY <1>0, <1>3, PlanFacts, SMTT(30)
  <2>2. FirstCall(e.plan) \in 1 .. Len(e.plan) /\ FirstCall(e.plan) \in 0 .. 2
    <3>1. Len(e.plan) > 1 => 2 \in 1 .. Len(e.plan)
      BY <2>1
    <3>2. 1 \in 1 .. Len(e.plan)
      BY <2>1
    <3>3. (FirstCall(e.plan) = 2 /\ Len(e.plan) > 1) \/ FirstCall(e.plan) = 1
      BY DEF FirstCall
    <3>4. QED
      BY <3>1, <3>2, <3>3
  <2>3. eng' = [eng EXCEPT ![x] = y]
    BY <1>3 DEF TInv, TypeOK
  <2>4. /\ y \in Memory /\ y.pc = "look" /\ y.cur = FirstCall(e.plan) /\ y.step = e.step
        /\ y.plan = e.plan /\ y.calls = e.calls /\ y.seen = e.seen /\ y.saved = e.saved
    BY <1>0, <2>2 DEF Memory
  <2> HIDE DEF y
  <2>5. e.calls + Len(e.plan) <= MaxCalls
    BY <1>0, <1>3, <2>1, ToolAssumption DEF OverBudget
  <2>6. Mem(y)
    BY <1>0, <1>1, <2>2, <2>4, <2>5 DEF Mem, Answered, Busy
  <2>7. Moved(x, y)
    BY <1>3, <2>3, <2>4, <2>6 DEF Moved, approvals
  <2>8. QED
    BY <2>7
<1>4. QED
  BY <1>2, <1>3 DEF Admit

LEMMA LookupEffect ==
  ASSUME TInv, NEW x \in Engine, Lookup(x)
  PROVE  \E y : Moved(x, y)
<1> DEFINE e == eng[x]
           k == KeyOf(x)
<1>0. e \in Memory /\ Mem(e) /\ e.pc = "look" /\ e.pc \in Busy /\ k \in Key
  BY MemFacts, BusyFacts DEF Lookup, Busy
<1>1. UNCHANGED <<run, steps, exec, effect, approval, granted, deciding, expiring>>
  BY DEF Lookup, approvals
<1>2. ASSUME NEW c \in Outcomes, Outcome(x, c, FALSE) PROVE \E y : Moved(x, y)
  BY <1>0, <1>1, <1>2, OutcomeEffect, DoneMem
<1>3. ASSUME NEW v \in BOOLEAN,
             eng' = [eng EXCEPT ![x].pc = "act", ![x].seen = exec[k], ![x].ok = v]
      PROVE  \E y : Moved(x, y)
  <2> DEFINE y == [e EXCEPT !.pc = "act", !.seen = exec[k], !.ok = v]
  <2>1. exec[k] \in Row \cup {NULL} /\ (exec[k] # NULL => Fits(k, exec[k]))
    BY <1>0 DEF TInv, TypeOK, Fit
  <2>2. eng' = [eng EXCEPT ![x] = y]
    BY <1>3 DEF TInv, TypeOK
  <2>3. /\ y \in Memory /\ y.pc = "act" /\ y.cur = e.cur /\ y.step = e.step
        /\ y.plan = e.plan /\ y.calls = e.calls /\ y.seen = exec[k] /\ y.saved = e.saved
    BY <1>0, <2>1 DEF Memory
  <2> HIDE DEF y
  <2>4. k = <<y.step, y.cur>> /\ k[1] = y.step
    BY <2>3 DEF KeyOf
  <2>5. exec[k] # NULL => y.saved
    BY <1>0, <2>1, <2>3, <2>4 DEF Fits, Mem
  <2>6. Mem(y)
    BY <1>0, <2>1, <2>3, <2>4, <2>5 DEF Mem, Answered, Busy
  <2>7. Moved(x, y)
    BY <1>1, <2>2, <2>3, <2>4, <2>6 DEF Moved
  <2>8. QED
    BY <2>7
<1>4. QED
  BY <1>2, <1>3 DEF Lookup, Outcomes

LEMMA ResolveEffect ==
  ASSUME TInv, NEW x \in Engine, ResolveExisting(x)
  PROVE  \E y : Moved(x, y)
<1>1. /\ eng[x].pc \in Busy
      /\ UNCHANGED <<run, steps, exec, effect, approval, granted, deciding, expiring>>
  BY DEF ResolveExisting, Found, HasTool, Busy, approvals
<1>2. \E c \in Outcomes : Outcome(x, c, FALSE)
  BY ControlsType DEF ResolveExisting
<1>3. QED
  BY <1>1, <1>2, OutcomeEffect, DoneMem

(* The engine goes on with the call. *)
LEMMA ProceedEffect ==
  ASSUME TInv, NEW x \in Engine, NEW p \in {"write", "invoke"}, eng[x].pc = "act",
         eng' = [eng EXCEPT ![x].pc = p],
         UNCHANGED <<run, steps, exec, effect, approval, granted, deciding, expiring>>,
         requires_approval(Tier(ToolOf(x))) => KeyOf(x) \in granted,
         p = "invoke" => /\ eng[x].seen # NULL /\ SafeToRetry(eng[x].seen)
                         /\ Unfinished(eng[x].seen) /\ exec[KeyOf(x)] # NULL,
         p = "write" => eng[x].seen = NULL
  PROVE  \E y : Moved(x, y)
<1> DEFINE e == eng[x]
           y == [e EXCEPT !.pc = p]
<1>0. e \in Memory /\ Mem(e) /\ e.pc \in Busy
  BY MemFacts DEF Busy
<1>1. eng' = [eng EXCEPT ![x] = y]
  BY DEF TInv, TypeOK
<1>2. /\ y \in Memory /\ y.pc = p /\ y.cur = e.cur /\ y.step = e.step
      /\ y.plan = e.plan /\ y.calls = e.calls /\ y.seen = e.seen /\ y.saved = e.saved
  BY <1>0 DEF Memory
<1>3. KeyOf(x) = <<y.step, y.cur>> /\ ToolOf(x) = y.plan[y.cur].tool
  BY <1>2 DEF KeyOf, ToolOf, CallOf
<1> HIDE DEF y
<1>4. Mem(y)
  BY <1>0, <1>2, <1>3 DEF Mem, Answered, Busy
<1>5. Moved(x, y)
  BY <1>1, <1>2, <1>4 DEF Moved
<1>6. QED
  BY <1>5

LEMMA ApprovedEffect ==
  ASSUME TInv, NEW x \in Engine, Approved(x)
  PROVE  \E y : Moved(x, y)
<1>1. KeyOf(x) \in Key /\ eng[x].pc = "act" /\ eng[x].seen = NULL
  BY BusyFacts DEF Approved, Fresh, HasTool, Busy
<1>2. KeyOf(x) \in granted
  BY <1>1 DEF Approved, Allows, TInv, Grants
<1>3. QED
  BY <1>1, <1>2, ProceedEffect DEF Approved, approvals

LEMMA UnknownToolEffect ==
  ASSUME TInv, NEW x \in Engine, RecordUnknownTool(x)
  PROVE  (\E y : Blank(x, y)) \/ (\E y : Moved(x, y)) \/ (\E y : Inserted(x, y))
<1>0. eng[x].pc \in Busy
  BY DEF RecordUnknownTool, Busy
<1>1. CASE /\ \E c \in Controls(x, "failed", FALSE, exec) : Outcome(x, c, FALSE)
           /\ UNCHANGED <<run, steps, exec, effect, approvals, bounds>>
  <2>1. PICK c \in Outcomes : Outcome(x, c, FALSE)
    BY <1>1, ControlsType
  <2>2. QED
    BY <1>0, <1>1, <2>1, OutcomeEffect, DoneMem DEF approvals
<1>2. CASE /\ Insert(x, "failed")
           /\ \E c \in Controls(x, "failed", TRUE, exec') : Outcome(x, c, TRUE)
           /\ UNCHANGED <<run, effect, approvals, bounds>>
  <2>1. PICK c \in Outcomes : Outcome(x, c, TRUE)
    BY <1>2, ControlsType
  <2>2. PICK y : Done(x, y) /\ y.saved
    BY <1>0, <2>1, OutcomeEffect
  <2>3. Inserted(x, y)
    BY <1>0, <1>2, <2>2 DEF Inserted, RowStatus, approvals
  <2>4. QED
    BY <2>3
<1>3. CASE Fail(x)
  BY <1>3, FailEffect
<1>4. QED
  BY <1>1, <1>2, <1>3 DEF RecordUnknownTool

LEMMA InvalidEffect ==
  ASSUME TInv, NEW x \in Engine, RecordInvalidArguments(x) \/ Denied(x)
  PROVE  (\E y : Blank(x, y)) \/ (\E y : Inserted(x, y))
<1>0. eng[x].pc \in Busy
  BY DEF RecordInvalidArguments, Denied, Fresh, HasTool, Busy
<1>1. ASSUME NEW s \in {"invalid", "failed"}, Insert(x, s),
             \E c \in Controls(x, s, TRUE, exec') : Outcome(x, c, TRUE),
             UNCHANGED <<run, effect, approvals, bounds>>
      PROVE  \E y : Inserted(x, y)
  <2>1. PICK c \in Outcomes : Outcome(x, c, TRUE)
    BY <1>1, ControlsType
  <2>2. PICK y : Done(x, y) /\ y.saved
    BY <1>0, <2>1, OutcomeEffect
  <2>3. Inserted(x, y)
    BY <1>0, <1>1, <2>2 DEF Inserted, RowStatus, approvals
  <2>4. QED
    BY <2>3
<1>2. CASE Fail(x)
  BY <1>2, FailEffect
<1>3. QED
  BY <1>1, <1>2 DEF RecordInvalidArguments, Denied

LEMMA RecoverEffect ==
  ASSUME TInv, NEW x \in Engine, RecoverStarted(x)
  PROVE  (\E y : Moved(x, y)) \/ (\E y : Restated(x, y))
<1> DEFINE e == eng[x]
           k == KeyOf(x)
<1>0. /\ e.pc = "act" /\ e.pc \in Busy /\ e.seen # NULL /\ Unfinished(e.seen)
      /\ UNCHANGED <<run, effect, approval, granted, deciding, expiring>>
  BY DEF RecoverStarted, Found, HasTool, Busy, approvals
<1>1. e \in Memory /\ Mem(e)
  BY MemFacts
<1>2. k = <<e.step, e.cur>> /\ k[1] = e.step /\ k[2] = e.cur
  BY DEF KeyOf
<1>3. exec[k] # NULL /\ Fits(k, e.seen) /\ steps[e.step] = e.plan
  BY <1>0, <1>1, <1>2 DEF Mem, Answered
<1>4. e.seen.tier = Tier(ToolOf(x))
  BY <1>2, <1>3 DEF Fits, ToolOf, CallOf
<1>5. CASE /\ SafeToRetry(e.seen)
           /\ eng' = [eng EXCEPT ![x].pc = "invoke"]
           /\ UNCHANGED <<steps, exec>>
  <2>1. ~requires_approval(Tier(ToolOf(x)))
    BY <1>4, <1>5 DEF SafeToRetry, requires_approval
  <2>2. QED
    BY <1>0, <1>3, <1>5, <2>1, ProceedEffect
<1>6. CASE /\ Commit(x)
           /\ exec' = [exec EXCEPT ![k].status = "unknown"]
           /\ \E c \in IF requires_approval(e.seen.tier) /\ ~IsDeferred(x) THEN {"failed"}
                       ELSE Controls(x, "unknown", FALSE, exec') : Outcome(x, c, TRUE)
  <2>1. PICK c \in Outcomes : Outcome(x, c, TRUE)
    BY <1>6, ControlsType DEF Outcomes
  <2>2. PICK y : Done(x, y) /\ y.saved
    BY <1>0, <2>1, OutcomeEffect
  <2>3. Restated(x, y)
    BY <1>0, <1>3, <1>6, <2>2 DEF Restated, RowStatus
  <2>4. QED
    BY <2>3
<1>7. QED
  BY <1>5, <1>6 DEF RecoverStarted

LEMMA AskEffect ==
  ASSUME TInv, NEW x \in Engine, AskApproval(x)
  PROVE  (\E y : Moved(x, y)) \/ (\E y : Asked(x, y))
<1>0. /\ eng[x].pc \in Busy
      /\ UNCHANGED <<run, exec, effect, granted, deciding, expiring>>
  BY DEF AskApproval, Fresh, HasTool, Busy
<1> DEFINE c == IF IsDeferred(x) THEN "none" ELSE "waiting_approval"
<1>1. c \in Outcomes
  BY DEF Outcomes
<1>2. CASE /\ approval' = [approval EXCEPT ![KeyOf(x)] = NewRequest]
           /\ Commit(x) /\ Outcome(x, c, TRUE)
  <2>1. PICK y : Done(x, y) /\ y.saved
    BY <1>0, <1>1, <1>2, OutcomeEffect
  <2>2. Asked(x, y)
    BY <1>0, <1>2, <2>1 DEF Asked, NewRequest
  <2>3. QED
    BY <2>2
<1>3. CASE Outcome(x, c, FALSE) /\ UNCHANGED <<approval, steps>>
  BY <1>0, <1>1, <1>3, OutcomeEffect, DoneMem
<1>4. QED
  BY <1>2, <1>3 DEF AskApproval

LEMMA WriteAheadEffect ==
  ASSUME TInv, NEW x \in Engine, WriteAhead(x)
  PROVE  (\E y : Blank(x, y)) \/ (\E y : Inserted(x, y))
<1> DEFINE e == eng[x]
           y == [e EXCEPT !.pc = "invoke", !.saved = TRUE]
<1>0. e \in Memory /\ Mem(e) /\ e.pc \in {"act", "write"} /\ e.pc \in Busy
  BY MemFacts DEF WriteAhead, Fresh, HasTool, Busy
<1>1. CASE Fail(x)
  BY <1>1, FailEffect
<1>2. CASE ~Fail(x)
  <2>1. /\ Insert(x, "started") /\ UNCHANGED <<run, effect, approval, granted, deciding, expiring>>
        /\ eng' = [eng EXCEPT ![x].pc = "invoke", ![x].saved = TRUE]
    BY <1>2 DEF WriteAhead, approvals
  <2>2. eng' = [eng EXCEPT ![x] = y]
    BY <2>1 DEF TInv, TypeOK
  <2>3. /\ y \in Memory /\ y.pc = "invoke" /\ y.cur = e.cur /\ y.step = e.step
        /\ y.plan = e.plan /\ y.calls = e.calls /\ y.seen = e.seen /\ y.saved
    BY <1>0 DEF Memory
  <2> HIDE DEF y
  <2>4. e.seen = NULL
    BY <1>0 DEF WriteAhead, Fresh, Mem
  <2>5. requires_approval(Tier(ToolOf(x))) => KeyOf(x) \in granted
    BY <1>0 DEF WriteAhead, Fresh, HasTool, NeedsApproval, Mem, KeyOf, ToolOf, CallOf
  <2>6. Starts(x, y)
    BY <2>2, <2>3, <2>4, <2>5 DEF Starts
  <2>7. Inserted(x, y)
    BY <1>0, <2>1, <2>6 DEF Inserted, RowStatus
  <2>8. QED
    BY <2>7
<1>3. QED
  BY <1>1, <1>2

LEMMA InvokeEffect ==
  ASSUME TInv, NEW x \in Engine, Invoke(x)
  PROVE  \E y : Invoked(x, y)
<1> DEFINE e == eng[x]
<1>0. e \in Memory /\ e.pc = "invoke"
  BY MemFacts DEF Invoke
<1>1. PICK v \in BOOLEAN : eng' = [eng EXCEPT ![x].pc = "finalize", ![x].ok = v]
  BY DEF Invoke, Verdicts
<1> DEFINE y == [e EXCEPT !.pc = "finalize", !.ok = v]
<1>2. eng' = [eng EXCEPT ![x] = y]
  BY <1>1 DEF TInv, TypeOK
<1>3. /\ y \in Memory /\ y.pc = "finalize" /\ y.cur = e.cur /\ y.step = e.step
      /\ y.plan = e.plan /\ y.calls = e.calls /\ y.seen = e.seen /\ y.saved = e.saved
  BY <1>0 DEF Memory
<1> HIDE DEF y
<1>4. Invoked(x, y)
  BY <1>0, <1>2, <1>3 DEF Invoked, Invoke, approvals
<1>5. QED
  BY <1>4

LEMMA FinalizeEffect ==
  ASSUME TInv, NEW x \in Engine, Finalize(x)
  PROVE  \E y : Restated(x, y)
<1>0. eng[x].pc \in Busy /\ eng[x].pc = "finalize" /\ exec[KeyOf(x)] # NULL
  BY MemFacts DEF Finalize, Busy, Mem, KeyOf
<1>1. PICK s \in RowStatus : exec' = [exec EXCEPT ![KeyOf(x)].status = s]
  BY DEF Finalize, RowStatus
<1>2. PICK c \in Outcomes : Outcome(x, c, TRUE)
  BY ControlsType DEF Finalize
<1>3. PICK y : Done(x, y) /\ y.saved
  BY <1>0, <1>2, OutcomeEffect
<1>4. Restated(x, y)
  BY <1>0, <1>1, <1>3 DEF Restated, Finalize, approvals
<1>5. QED
  BY <1>4

LEMMA CloseEffect ==
  ASSUME TInv, NEW x \in Engine, Close(x) \/ StepLimit(x) \/ LlmFails(x)
  PROVE  \E y : Blank(x, y)
<1> DEFINE e == eng[x]
<1>0. e \in Memory /\ Mem(e) /\ e.plan \in Plan /\ e.calls \in 0 .. MaxCalls
      /\ e.step \in 0 .. MaxSteps /\ e.control \in Outcomes
  BY MemFacts, Fields
<1>1. CASE StepLimit(x) \/ LlmFails(x)
  BY <1>0, <1>1, CheckpointEffect DEF StepLimit, LlmFails
<1>2. CASE Close(x)
  <2>1. e.step \in Step /\ e.calls + Len(e.plan) <= MaxCalls
    BY <1>0, <1>2 DEF Close, Mem, Answered
  <2>2. e.step + 1 \in 0 .. MaxSteps
    BY <2>1, ToolAssumption DEF Step
  <2>3. Charged(e) \in 0 .. MaxCalls
    <3>1. Len(e.plan) \in Nat
      BY <1>0, PlanFacts
    <3>2. \A m \in 0 .. MaxCalls, n \in Nat : m + n <= MaxCalls => m + n \in 0 .. MaxCalls
      BY ToolAssumption
    <3>3. QED
      BY <1>0, <2>1, <3>1, <3>2 DEF Charged
  <2>4. CASE e.control = "waiting_approval"
    BY <1>0, <1>2, <2>4, CheckpointEffect DEF Close
  <2>5. CASE e.control # "waiting_approval"
    <3>1. PICK status \in {"running", "completed", "failed", "waiting_user_input"} :
            Checkpoint(x, status, e.step + 1, Charged(e))
      BY <1>0, <1>2, <2>5 DEF Close, Outcomes
    <3>2. QED
      BY <2>2, <2>3, <3>1, CheckpointEffect
  <2>6. QED
    BY <2>4, <2>5
<1>3. QED
  BY <1>1, <1>2

LEMMA StatusSet ==
  ASSUME TInv, NEW status \in {"running", "timed_out"}, SetStatus(status)
  PROVE  run' \in RunRow
<1>1. run.version + 1 \in Nat
  BY RunFacts DEF RunRow
<1>2. QED
  BY <1>1, RunFacts DEF SetStatus, RunRow

LEMMA ApprovalEffect ==
  ASSUME TInv, ApprovalStep \/ PostMessage
  PROVE  Decided
<1>0. /\ run \in RunRow /\ granted \subseteq Key
      /\ approval \in [Key -> Verdict \cup {NULL}] /\ deciding \in [Approver -> Key \cup {NULL}]
      /\ expiring \in [Key -> {"no", "read", "expired"}]
      /\ \A k \in Key : approval[k] = "approved" => k \in granted
  BY DEF TInv, TypeOK, Grants
<1>1. CASE PostMessage
  <2>1. run' \in RunRow
    BY <1>1, StatusSet DEF PostMessage
  <2>2. QED
    BY <1>0, <1>1, <2>1 DEF Decided, PostMessage, approvals
<1>2. ASSUME NEW a \in Approver, NEW k \in Key, DecideRead(a, k) PROVE Decided
  BY <1>0, <1>2 DEF DecideRead, Decided
<1>3. ASSUME NEW a \in Approver, NEW d \in {"approved", "rejected"}, DecideCommit(a, d)
      PROVE  Decided
  <2>1. deciding[a] \in Key
    BY <1>0, <1>3 DEF DecideCommit
  <2>2. run' \in RunRow
    BY <1>0, <1>3, StatusSet DEF DecideCommit
  <2>3. /\ approval' \in [Key -> Verdict \cup {NULL}] /\ deciding' \in [Approver -> Key \cup {NULL}]
    BY <1>0, <1>3, <2>1 DEF DecideCommit, Verdict
  <2>4. granted' \subseteq Key /\ granted \subseteq granted'
    BY <1>0, <1>3, <2>1 DEF DecideCommit
  <2>5. \A k \in Key : approval'[k] = "approved" => k \in granted'
    BY <1>0, <1>3, <2>1 DEF DecideCommit
  <2>6. QED
    BY <1>0, <1>3, <2>2, <2>3, <2>4, <2>5 DEF Decided, DecideCommit
<1>4. ASSUME NEW k \in Key, ExpireRead(k) \/ ReaperCrash(k) PROVE Decided
  BY <1>0, <1>4 DEF ExpireRead, ReaperCrash, Decided
<1>5. ASSUME NEW k \in Key, ExpireApproval(k) PROVE Decided
  BY <1>0, <1>5 DEF ExpireApproval, Decided, Verdict
<1>6. ASSUME NEW k \in Key, ExpireRun(k) PROVE Decided
  <2>1. run' \in RunRow
    BY <1>0, <1>6, StatusSet DEF ExpireRun
  <2>2. QED
    BY <1>0, <1>6, <2>1 DEF ExpireRun, Decided
<1>7. QED
  BY <1>1, <1>2, <1>3, <1>4, <1>5, <1>6 DEF ApprovalStep

LEMMA EngineCases ==
  ASSUME TInv, NEW x \in Engine, EngineStep(x) \/ Crash(x)
  PROVE  \E y \in Memory :
           \/ Blank(x, y) \/ Moved(x, y) \/ Inserted(x, y) \/ Restated(x, y)
           \/ Asked(x, y) \/ Invoked(x, y)
<1>1. ASSUME NEW y,
             \/ Blank(x, y) \/ Moved(x, y) \/ Inserted(x, y) \/ Restated(x, y)
             \/ Asked(x, y) \/ Invoked(x, y)
      PROVE  y \in Memory
  BY <1>1 DEF Blank, Moved, Inserted, Starts, Restated, Asked, Invoked, Done
<1>2. \E y : \/ Blank(x, y) \/ Moved(x, y) \/ Inserted(x, y) \/ Restated(x, y)
            \/ Asked(x, y) \/ Invoked(x, y)
  BY FailEffect, BeginEffect, CloseEffect, StartStepEffect, AnswerEffect, AdmitEffect,
     LookupEffect, UnknownToolEffect, ResolveEffect, RecoverEffect, InvalidEffect, AskEffect,
     ApprovedEffect, WriteAheadEffect, InvokeEffect, FinalizeEffect
     DEF EngineStep
<1>3. QED
  BY <1>1, <1>2

LEMMA Cases ==
  ASSUME TInv, Next
  PROVE  \/ \E x \in Engine, y \in Memory :
              \/ Blank(x, y) \/ Moved(x, y) \/ Inserted(x, y) \/ Restated(x, y)
              \/ Asked(x, y) \/ Invoked(x, y)
         \/ Decided
BY EngineCases, ApprovalEffect DEF Next
-----------------------------------------------------------------------------
(* Answers, rows and grants are never taken back: what an engine remembers *)
(* stays true.                                                             *)
Kept == /\ \A n \in Step : steps[n] # NULL => steps'[n] = steps[n]
        /\ \A k \in Key : exec[k] # NULL => exec'[k] # NULL
        /\ granted \subseteq granted'

LEMMA KeyFacts ==
  /\ \A k \in Key : k[1] \in Step /\ k[2] \in 1 .. 2 /\ k = <<k[1], k[2]>>
  /\ \A n \in Step, i \in 1 .. 2 : <<n, i>> \in Key /\ <<n, i>>[1] = n /\ <<n, i>>[2] = i
BY DEF Key

LEMMA FitsKept ==
  ASSUME Kept, NEW k \in Key, NEW row, Fits(k, row)
  PROVE  Fits(k, row)'
<1>1. k[1] \in Step /\ steps'[k[1]] = steps[k[1]]
  BY KeyFacts DEF Kept, Fits
<1>2. QED
  BY <1>1 DEF Fits

LEMMA MemKept ==
  ASSUME Kept, NEW y \in Memory, Mem(y), ~y.saved => steps'[y.step] = NULL
  PROVE  Mem(y)'
<1>1. y.pc \in Busy => <<y.step, y.cur>> \in Key
  <2>1. SUFFICES ASSUME y.pc \in Busy PROVE <<y.step, y.cur>> \in Key
    OBVIOUS
  <2>2. y.step \in Step /\ y.cur \in 1 .. Len(y.plan) /\ y.plan \in Plan
    BY <2>1, Fields DEF Mem, Answered, Busy
  <2>3. y.cur \in 1 .. 2
    BY <2>2, PlanFacts
  <2>4. QED
    BY <2>2, <2>3, KeyFacts
<1>2. y.pc \in Answered /\ y.saved => steps'[y.step] = y.plan
  <2>1. SUFFICES ASSUME y.pc \in Answered, y.saved PROVE steps'[y.step] = y.plan
    OBVIOUS
  <2>2. y.step \in Step /\ steps[y.step] = y.plan /\ y.plan \in Plan
    BY <2>1, Fields DEF Mem
  <2>3. y.plan # NULL
    BY <2>2, ToolAssumption
  <2>4. QED
    BY <2>2, <2>3 DEF Kept
<1>3. y.seen # NULL => /\ y.pc \in {"act", "invoke", "finalize"} /\ y.saved
                       /\ Fits(<<y.step, y.cur>>, y.seen)' /\ exec'[<<y.step, y.cur>>] # NULL
  BY <1>1, FitsKept DEF Mem, Kept, Busy
<1>4. y.pc \in {"invoke", "finalize"} => y.saved /\ exec'[<<y.step, y.cur>>] # NULL
  BY <1>1 DEF Mem, Kept, Busy
<1>5. QED
  BY <1>2, <1>3, <1>4 DEF Mem, Kept

LEMMA MemsStep ==
  ASSUME TInv, Kept, NEW x \in Engine, NEW y \in Memory, eng' = [eng EXCEPT ![x] = y], Mem(y)',
         UNCHANGED steps \/ Commit(x)
  PROVE  eng' \in [Engine -> Memory] /\ Mems'
<1>1. /\ eng' \in [Engine -> Memory] /\ eng'[x] = y
      /\ \A b \in Engine : b # x => eng'[b] = eng[b]
  BY SMTT(30) DEF TInv, TypeOK
<1>2. ASSUME NEW b \in Engine PROVE Mem(eng[b])'
  <2>1. PICK z \in Memory : z = eng'[b] /\ (b = x => z = y) /\ (b # x => z = eng[b])
    BY <1>1
  <2>2. Mem(z)'
    <3>1. CASE b = x
      BY <2>1, <3>1
    <3>2. CASE b # x
      <4>1. Mem(z)
        BY <2>1, <3>2, MemFacts
      <4>2. ~z.saved => steps'[z.step] = NULL
        <5>1. SUFFICES ASSUME ~z.saved PROVE steps'[z.step] = NULL
          OBVIOUS
        <5>2. z.step \in Step /\ steps[z.step] = NULL
          BY <4>1, <5>1 DEF Mem
        <5>3. eng[x].saved \/ eng[x].step # z.step
          BY <2>1, <3>2, <5>1 DEF TInv, Exclusive
        <5>4. QED
          BY <5>2, <5>3, CommitEffect
      <4>3. QED
        BY <4>1, <4>2, MemKept
    <3>3. QED
      BY <3>1, <3>2
  <2>3. QED
    BY <2>1, <2>2, SMTT(30) DEF Mem, Fits
<1>3. QED
  BY <1>1, <1>2 DEF Mems

LEMMA ExclusiveStep ==
  ASSUME TInv, NEW x \in Engine, NEW y \in Memory, eng' = [eng EXCEPT ![x] = y],
         ~y.saved => (~eng[x].saved /\ y.step = eng[x].step) \/ Holding(y.step) = {}
  PROVE  Exclusive'
<1>1. eng'[x] = y /\ \A b \in Engine : b # x => eng'[b] = eng[b]
  BY DEF TInv, TypeOK
<1>2. Exclusive
  BY DEF TInv
<1>3. QED
  BY <1>1, <1>2 DEF Exclusive, Holding

(* The rows are as they were. *)
LEMMA FitSame ==
  ASSUME TInv, Kept, UNCHANGED exec
  PROVE  Fit'
<1>1. ASSUME NEW k \in Key, exec'[k] # NULL PROVE Fits(k, exec[k])'
  <2>1. PICK row : row = exec[k] /\ Fits(k, row)
    BY <1>1 DEF TInv, Fit
  <2>2. Fits(k, row)'
    BY <2>1, FitsKept
  <2>3. QED
    BY <2>1, <2>2 DEF Fits
<1>2. QED
  BY <1>1 DEF Fit

LEMMA TablesNow ==
  ASSUME TInv
  PROVE  /\ run \in RunRow /\ steps \in [Step -> Plan \cup {NULL}]
         /\ exec \in [Key -> Row \cup {NULL}] /\ approval \in [Key -> Verdict \cup {NULL}]
         /\ effect \in [Key -> Nat] /\ granted \subseteq Key
         /\ deciding \in [Approver -> Key \cup {NULL}]
         /\ expiring \in [Key -> {"no", "read", "expired"}]
BY DEF TInv, TypeOK

LEMMA BlankStep ==
  ASSUME TInv, NEW x \in Engine, NEW y \in Memory, Blank(x, y)
  PROVE  TInv'
<1>1. Kept /\ steps' \in [Step -> Plan \cup {NULL}]
  BY CommitEffect, TablesNow DEF Blank, Kept
<1>2. Mem(y)'
  BY BlankMem DEF Blank, Mem, Answered, Busy
<1>3. eng' \in [Engine -> Memory] /\ Mems'
  BY <1>1, <1>2, MemsStep DEF Blank
<1>4. Exclusive'
  BY ExclusiveStep DEF Blank
<1>5. Fit'
  BY <1>1, FitSame DEF Blank
<1>6. Grants'
  BY DEF Blank, Grants, TInv
<1>7. TypeOK'
  BY <1>1, <1>3, TablesNow DEF Blank, TypeOK
<1>8. QED
  BY <1>3, <1>4, <1>5, <1>6, <1>7 DEF TInv

LEMMA MovedStep ==
  ASSUME TInv, NEW x \in Engine, NEW y \in Memory, Moved(x, y)
  PROVE  TInv'
<1>1. Kept
  BY DEF Moved, Kept
<1>2. Mem(y)'
  BY DEF Moved, Mem, Fits
<1>3. eng' \in [Engine -> Memory] /\ Mems'
  BY <1>1, <1>2, MemsStep DEF Moved
<1>4. Exclusive'
  BY ExclusiveStep DEF Moved
<1>5. Fit'
  BY <1>1, FitSame DEF Moved
<1>6. Grants'
  BY DEF Moved, Grants, TInv
<1>7. TypeOK'
  BY <1>3, TablesNow DEF Moved, TypeOK
<1>8. QED
  BY <1>3, <1>4, <1>5, <1>6, <1>7 DEF TInv

(* The memory of an engine that is done with a call and has committed *)
LEMMA DoneSaved ==
  ASSUME TInv, NEW x \in Engine, NEW y, eng[x].pc \in Busy, Commit(x), Done(x, y), y.saved
  PROVE  Mem(y)'
<1>1. y.step \in Step /\ steps'[y.step] = y.plan
  BY BusyFacts, CommitEffect DEF Done, Busy, Answered
<1>2. y.calls + Len(y.plan) <= MaxCalls
  BY MemFacts DEF Mem, Done
<1>3. y.pc = "look" => y.cur \in 1 .. Len(y.plan)
  BY DEF Done
<1>4. y.pc \in {"look", "close"} /\ y.seen = NULL
  BY DEF Done
<1>5. QED
  BY <1>1, <1>2, <1>3, <1>4 DEF Mem, Answered, Busy

(* There is always a place left in the order of the rows. *)
LEMMA KeyFinite == IsFiniteSet(Key)
<1>1. IsFiniteSet(Step)
  BY FS_Interval, ToolAssumption DEF Step
<1>2. IsFiniteSet({1, 2})
  <2>1. IsFiniteSet({1} \cup {2})
    BY FS_Singleton, FS_AddElement, Zenon
  <2>2. {1, 2} = {1} \cup {2}
    OBVIOUS
  <2>3. QED
    BY <2>1, <2>2, Zenon
<1>3. QED
  BY <1>1, <1>2, FS_Product DEF Key

LEMMA Place ==
  ASSUME TInv, NEW k \in Key, exec[k] = NULL
  PROVE  Cardinality(Rows(exec)) + 1 \in 1 .. Cardinality(Key)
<1>1. IsFiniteSet(Key)
  BY KeyFinite
<1>2. Rows(exec) \subseteq Key /\ k \notin Rows(exec) /\ Rows(exec) \cup {k} \subseteq Key
  BY DEF Rows
<1>3. IsFiniteSet(Rows(exec)) /\ IsFiniteSet(Rows(exec) \cup {k})
  BY <1>1, <1>2, FS_Subset
<1>4. Cardinality(Rows(exec) \cup {k}) = Cardinality(Rows(exec)) + 1
  BY <1>2, <1>3, FS_AddElement
<1>5. Cardinality(Rows(exec) \cup {k}) <= Cardinality(Key)
  BY <1>1, <1>2, FS_Subset
<1>6. Cardinality(Rows(exec)) \in Nat /\ Cardinality(Key) \in Nat
  BY <1>1, <1>3, FS_CardinalityType
<1>7. QED
  BY <1>4, <1>5, <1>6

LEMMA InsertEffect ==
  ASSUME TInv, NEW x \in Engine, eng[x].pc \in Busy, NEW status \in RowStatus, Insert(x, status)
  PROVE  \E i \in Key, r \in Row :
           i = KeyOf(x) /\ exec[i] = NULL /\ exec' = [exec EXCEPT ![i] = r] /\ Fits(i, r)'
<1> DEFINE k == KeyOf(x)
           row == NewRow(x, status)
<1>1. /\ k \in Key /\ k[1] = eng[x].step /\ k[2] = eng[x].cur /\ eng[x].step \in Step
      /\ eng[x].cur \in DOMAIN eng[x].plan /\ CallOf(x) \in Call /\ ToolOf(x) \in Tool
  BY BusyFacts
<1>2. exec' = [exec EXCEPT ![k] = row] /\ exec[k] = NULL /\ Commit(x)
  BY DEF Insert, Taken
<1>3. row \in Row
  <2>1. Cardinality(Rows(exec)) + 1 \in 1 .. Cardinality(Key)
    BY <1>1, <1>2, Place
  <2>2. Stored(CallOf(x), eng[x].cur) \in Args /\ "ghost" \in Tool
    BY <1>1, StoredFacts DEF Tool
  <2>3. Tier(ToolOf(x)) \in {"read_only", "low_risk_write", "destructive"}
    BY DEF Tier
  <2>4. (IsDeferred(x) \/ Idempotent(ToolOf(x))) \in BOOLEAN
    OBVIOUS
  <2>5. QED
    BY <1>1, <2>1, <2>2, <2>3, <2>4 DEF NewRow, Row
<1>4. /\ row.args = Stored(CallOf(x), eng[x].cur) /\ row.tier = Tier(ToolOf(x))
      /\ row.tool = IF IsDeferred(x) /\ ~Known(ToolOf(x)) THEN "ghost" ELSE ToolOf(x)
      /\ row.idempotent <=> IsDeferred(x) \/ Idempotent(ToolOf(x))
  BY DEF NewRow
<1>5. PICK r \in Row : r = row
  BY <1>3
<1>6. PICK p \in Plan : p = eng[x].plan
  BY MemFacts, Fields
<1>7. PICK i : i = k /\ i \in Key
  BY <1>1
<1>8. steps'[i[1]] = p /\ i[2] \in DOMAIN p /\ p[i[2]] = CallOf(x) /\ p # NULL
  BY <1>1, <1>2, <1>6, <1>7, CommitEffect, ToolAssumption DEF Busy, Answered, CallOf
<1>9. Deferred(i[2]) <=> IsDeferred(x)
  BY <1>1, <1>7 DEF IsDeferred
<1> HIDE DEF row
<1>10. /\ r.args = Stored(p[i[2]], i[2]) /\ r.tier = Tier(p[i[2]].tool)
       /\ r.tool = IF Deferred(i[2]) /\ ~Known(p[i[2]].tool) THEN "ghost" ELSE p[i[2]].tool
       /\ r.idempotent <=> Deferred(i[2]) \/ Idempotent(p[i[2]].tool)
  BY <1>1, <1>4, <1>5, <1>7, <1>8, <1>9 DEF ToolOf
<1>11. Fits(i, r)'
  BY <1>8, <1>10 DEF Fits
<1>12. QED
  BY <1>2, <1>5, <1>7, <1>11

LEMMA InsertedStep ==
  ASSUME TInv, NEW x \in Engine, NEW y \in Memory, Inserted(x, y)
  PROVE  TInv'
<1>1. PICK status \in RowStatus : Insert(x, status)
  BY DEF Inserted
<1>2. PICK k \in Key, r \in Row :
        k = KeyOf(x) /\ exec[k] = NULL /\ exec' = [exec EXCEPT ![k] = r] /\ Fits(k, r)'
  BY <1>1, InsertEffect DEF Inserted
<1>3. Commit(x) /\ eng[x].pc \in Busy /\ eng[x].pc \in Answered /\ eng' = [eng EXCEPT ![x] = y]
      /\ y.saved
  BY <1>1 DEF Insert, Inserted, Done, Starts, Busy, Answered
<1>4. r # NULL
  BY ToolAssumption
<1>5. /\ exec' \in [Key -> Row \cup {NULL}] /\ exec'[k] = r
      /\ \A i \in Key : i # k => exec'[i] = exec[i]
  BY <1>2, TablesNow
<1>6. /\ steps' \in [Step -> Plan \cup {NULL}]
      /\ \A n \in Step : steps[n] # NULL => steps'[n] = steps[n]
      /\ steps'[eng[x].step] = eng[x].plan
  BY <1>3, CommitEffect
<1>7. Kept
  BY <1>4, <1>5, <1>6 DEF Kept, Inserted
<1>8. Mem(y)'
  <2>1. CASE Done(x, y)
    BY <1>3, <2>1, DoneSaved
  <2>2. CASE Starts(x, y)
    <3>1. /\ y.pc = "invoke" /\ y.saved /\ y.seen = NULL /\ y.step = eng[x].step
          /\ y.plan = eng[x].plan /\ y.calls = eng[x].calls /\ y.cur = eng[x].cur
          /\ requires_approval(Tier(ToolOf(x))) => KeyOf(x) \in granted
      BY <2>2 DEF Starts
    <3>2. y.step \in Step /\ y.cur \in 1 .. Len(y.plan) /\ y.calls + Len(y.plan) <= MaxCalls
      BY <1>3, <3>1, MemFacts DEF Mem, Busy
    <3>3. k = <<y.step, y.cur>> /\ exec'[<<y.step, y.cur>>] # NULL
      BY <1>2, <1>4, <1>5, <3>1 DEF KeyOf
    <3>4. requires_approval(Tier(y.plan[y.cur].tool)) => <<y.step, y.cur>> \in granted'
      BY <1>2, <3>1, <3>3 DEF Inserted, ToolOf, CallOf
    <3>5. steps'[y.step] = y.plan
      BY <1>6, <3>1
    <3>6. QED
      BY <3>1, <3>2, <3>3, <3>4, <3>5 DEF Mem, Busy, Answered
  <2>3. QED
    BY <2>1, <2>2 DEF Inserted
<1>9. eng' \in [Engine -> Memory] /\ Mems'
  BY <1>3, <1>7, <1>8, MemsStep
<1>10. Exclusive'
  BY <1>3, ExclusiveStep
<1>11. Fit'
  <2>1. ASSUME NEW i \in Key, exec'[i] # NULL PROVE Fits(i, exec[i])'
    <3>1. PICK row : row = exec'[i]
      OBVIOUS
    <3>2. Fits(i, row)'
      <4>1. CASE i = k
        BY <1>2, <1>5, <3>1, <4>1
      <4>2. CASE i # k
        <5>1. Fits(i, row)
          BY <1>5, <2>1, <3>1, <4>2 DEF TInv, Fit
        <5>2. QED
          BY <1>7, <5>1, FitsKept
      <4>3. QED
        BY <4>1, <4>2
    <3>3. QED
      BY <3>1, <3>2 DEF Fits
  <2>2. QED
    BY <2>1 DEF Fit
<1>12. Grants'
  BY DEF Inserted, Grants, TInv
<1>13. TypeOK'
  BY <1>5, <1>6, <1>9, TablesNow DEF Inserted, TypeOK
<1>14. QED
  BY <1>9, <1>10, <1>11, <1>12, <1>13 DEF TInv

(* The outcome is all that changes in a row. *)
Same(row, r) ==
  r.tool = row.tool /\ r.args = row.args /\ r.tier = row.tier /\ r.idempotent = row.idempotent

LEMMA RestateEffect ==
  ASSUME TInv, NEW x \in Engine, NEW y, Restated(x, y)
  PROVE  \E k \in Key, r \in Row :
           /\ k = KeyOf(x) /\ exec[k] # NULL /\ Same(exec[k], r)
           /\ exec' = [exec EXCEPT ![k] = r]
<1>1. KeyOf(x) \in Key /\ exec[KeyOf(x)] # NULL
  BY BusyFacts DEF Restated
<1>2. exec[KeyOf(x)] \in Row
  BY <1>1, TablesNow
<1>3. PICK s \in RowStatus : exec' = [exec EXCEPT ![KeyOf(x)].status = s]
  BY DEF Restated
<1> DEFINE r == [exec[KeyOf(x)] EXCEPT !.status = s]
<1>4. r \in Row /\ Same(exec[KeyOf(x)], r)
  BY <1>2 DEF Row, Same
<1>5. exec' = [exec EXCEPT ![KeyOf(x)] = r]
  BY <1>1, <1>3, TablesNow
<1> HIDE DEF r
<1>6. QED
  BY <1>1, <1>4, <1>5

LEMMA RestatedStep ==
  ASSUME TInv, NEW x \in Engine, NEW y \in Memory, Restated(x, y)
  PROVE  TInv'
<1>1. PICK k \in Key, r \in Row :
        /\ k = KeyOf(x) /\ exec[k] # NULL /\ Same(exec[k], r)
        /\ exec' = [exec EXCEPT ![k] = r]
  BY RestateEffect
<1>2. Commit(x) /\ eng[x].pc \in Busy /\ eng' = [eng EXCEPT ![x] = y] /\ Done(x, y) /\ y.saved
  BY DEF Restated, Done
<1>3. r # NULL
  BY ToolAssumption
<1>4. /\ exec' \in [Key -> Row \cup {NULL}] /\ exec'[k] = r
      /\ \A i \in Key : i # k => exec'[i] = exec[i]
  BY <1>1, TablesNow
<1>5. /\ steps' \in [Step -> Plan \cup {NULL}]
      /\ \A n \in Step : steps[n] # NULL => steps'[n] = steps[n]
  BY <1>2, CommitEffect
<1>6. Kept
  BY <1>3, <1>4, <1>5 DEF Kept, Restated
<1>7. Mem(y)'
  BY <1>2, DoneSaved
<1>8. eng' \in [Engine -> Memory] /\ Mems'
  BY <1>2, <1>6, <1>7, MemsStep
<1>9. Exclusive'
  BY <1>2, ExclusiveStep
<1>10. Fit'
  <2>1. ASSUME NEW i \in Key, exec'[i] # NULL PROVE Fits(i, exec[i])'
    <3>1. PICK row : row = exec'[i]
      OBVIOUS
    <3>2. PICK old : old = exec[i] /\ Fits(i, old) /\ Same(old, row)
      BY <1>1, <1>4, <2>1, <3>1 DEF TInv, Fit, Same
    <3>3. Fits(i, old)'
      BY <1>6, <3>2, FitsKept
    <3>4. Fits(i, row)'
      BY <3>2, <3>3 DEF Fits, Same
    <3>5. QED
      BY <3>1, <3>4 DEF Fits
  <2>2. QED
    BY <2>1 DEF Fit
<1>11. Grants'
  BY DEF Restated, Grants, TInv
<1>12. TypeOK'
  BY <1>4, <1>5, <1>8, TablesNow DEF Restated, TypeOK
<1>13. QED
  BY <1>8, <1>9, <1>10, <1>11, <1>12 DEF TInv

LEMMA AskedStep ==
  ASSUME TInv, NEW x \in Engine, NEW y \in Memory, Asked(x, y)
  PROVE  TInv'
<1>1. Commit(x) /\ eng[x].pc \in Busy /\ eng' = [eng EXCEPT ![x] = y] /\ Done(x, y) /\ y.saved
  BY DEF Asked, Done
<1>2. /\ steps' \in [Step -> Plan \cup {NULL}]
      /\ \A n \in Step : steps[n] # NULL => steps'[n] = steps[n]
  BY <1>1, CommitEffect
<1>3. Kept
  BY <1>2 DEF Kept, Asked
<1>4. Mem(y)'
  BY <1>1, DoneSaved
<1>5. eng' \in [Engine -> Memory] /\ Mems'
  BY <1>1, <1>3, <1>4, MemsStep
<1>6. Exclusive'
  BY <1>1, ExclusiveStep
<1>7. Fit'
  BY <1>3, FitSame DEF Asked
<1>8. approval' \in [Key -> Verdict \cup {NULL}] /\ Grants'
  <2>1. approval' = [approval EXCEPT ![KeyOf(x)] = "pending"] /\ granted' = granted
    BY DEF Asked
  <2>2. QED
    BY <2>1, TablesNow DEF Verdict, Grants, TInv
<1>9. TypeOK'
  BY <1>2, <1>5, <1>8, TablesNow DEF Asked, TypeOK
<1>10. QED
  BY <1>5, <1>6, <1>7, <1>8, <1>9 DEF TInv

LEMMA InvokedStep ==
  ASSUME TInv, NEW x \in Engine, NEW y \in Memory, Invoked(x, y)
  PROVE  TInv'
<1>1. Kept
  BY DEF Invoked, Kept
<1>2. /\ y.pc = "finalize" /\ eng[x].pc = "invoke" /\ y.step = eng[x].step
      /\ y.plan = eng[x].plan /\ y.calls = eng[x].calls /\ y.cur = eng[x].cur
      /\ y.seen = eng[x].seen /\ (y.saved <=> eng[x].saved)
  BY DEF Invoked
<1>3. Mem(y)
  BY <1>2, MemFacts DEF Mem, Answered, Busy
<1>4. Mem(y)'
  BY <1>3 DEF Invoked, Mem, Fits
<1>5. eng' \in [Engine -> Memory] /\ Mems'
  BY <1>1, <1>4, MemsStep DEF Invoked
<1>6. Exclusive'
  BY <1>2, ExclusiveStep DEF Invoked
<1>7. Fit'
  BY <1>1, FitSame DEF Invoked
<1>8. Grants'
  BY DEF Invoked, Grants, TInv
<1>9. effect' \in [Key -> Nat]
  <2>1. effect' = effect \/ effect' = [effect EXCEPT ![KeyOf(x)] = @ + 1]
    BY DEF Invoked
  <2>2. KeyOf(x) \in Key
    BY <1>2, BusyFacts DEF Busy
  <2>3. QED
    BY <2>1, <2>2, TablesNow
<1>10. TypeOK'
  BY <1>5, <1>9, TablesNow DEF Invoked, TypeOK
<1>11. QED
  BY <1>5, <1>6, <1>7, <1>8, <1>10 DEF TInv

LEMMA DecidedStep ==
  ASSUME TInv, Decided
  PROVE  TInv'
<1>1. Kept
  BY DEF Decided, Kept
<1>2. Mems'
  <2>1. ASSUME NEW b \in Engine PROVE Mem(eng[b])'
    <3>1. PICK z \in Memory : z = eng[b] /\ z = eng'[b] /\ Mem(z)
      BY MemFacts DEF Decided
    <3>2. ~z.saved => steps'[z.step] = NULL
      BY <3>1 DEF Mem, Decided
    <3>3. Mem(z)'
      BY <1>1, <3>1, <3>2, MemKept
    <3>4. QED
      BY <3>1, <3>3, SMTT(30) DEF Mem, Fits
  <2>2. QED
    BY <2>1, SMTT(30) DEF Mems
<1>3. Exclusive' /\ Fit' /\ Grants'
  BY <1>1, FitSame DEF Decided, Exclusive, Grants, TInv
<1>4. TypeOK'
  BY DEF Decided, TypeOK, TInv
<1>5. QED
  BY <1>2, <1>3, <1>4 DEF TInv

LEMMA TypeInit == Init => TInv
<1> SUFFICES ASSUME Init PROVE TInv
  OBVIOUS
<1>1. TypeOK
  <2>1. run \in RunRow
    BY ToolAssumption DEF Init, RunRow
  <2>2. eng \in [Engine -> Memory]
    BY IdleMem DEF Init
  <2>3. QED
    BY <2>1, <2>2 DEF Init, TypeOK
<1>2. \A x \in Engine : eng[x] = Idle
  BY DEF Init
<1>3. Mems
  BY <1>2, IdleMem, BlankMem DEF Mems
<1>4. Exclusive
  BY <1>2, IdleMem DEF Exclusive
<1>5. Fit
  BY DEF Init, Fit
<1>6. Grants
  BY ToolAssumption DEF Init, Grants, Verdict
<1>7. QED
  BY <1>1, <1>3, <1>4, <1>5, <1>6 DEF TInv

LEMMA TypeStep == TInv /\ [Next]_vars => TInv'
<1> SUFFICES ASSUME TInv, [Next]_vars PROVE TInv'
  OBVIOUS
<1>1. CASE Next
  BY <1>1, Cases, BlankStep, MovedStep, InsertedStep, RestatedStep, AskedStep, InvokedStep,
     DecidedStep
<1>2. CASE UNCHANGED vars
  <2>1. Decided
    BY <1>2, TablesNow DEF vars, Decided, TInv, Grants
  <2>2. QED
    BY <2>1, DecidedStep
<1>3. QED
  BY <1>1, <1>2

(* Type correctness of the tables and of every engine's memory: no crash,  *)
(* replay, takeover or decision leaves the run, its steps, its rows or an  *)
(* engine in a shape the code does not know, and steps and tool calls stay *)
(* within max_steps and max_tool_calls.                                    *)
THEOREM TypeCorrect == Spec => []TypeOK
<1>1. TInv => TypeOK
  BY DEF TInv
<1>2. QED
  BY <1>1, TypeInit, TypeStep, PTL DEF Spec

(* The rows of a step are the calls of the one answer persisted for it     *)
(* (_record_unknown_tool, _record_invalid_arguments, _check_approval and   *)
(* the write-ahead insert commit the answer no later than its rows), also  *)
(* when several engines asked the model for the same step.                 *)
THEOREM RowsAreThePlan == Spec => []RowsMatchPlan
<1>1. TInv => RowsMatchPlan
  BY DEF TInv, Fit, Fits, RowsMatchPlan, Rows
<1>2. QED
  BY <1>1, TypeInit, TypeStep, PTL DEF Spec
-----------------------------------------------------------------------------
(* A row keeps everything but its status, once it is there. *)
RowsKept == \A k \in Key : exec[k] # NULL => exec'[k] # NULL /\ Same(exec[k], exec'[k])

LEMMA RowsKeptStep ==
  ASSUME TInv, NEW x \in Engine, NEW y \in Memory,
         \/ Blank(x, y) \/ Moved(x, y) \/ Inserted(x, y) \/ Restated(x, y)
         \/ Asked(x, y) \/ Invoked(x, y)
  PROVE  RowsKept
<1>1. CASE exec' = exec
  BY <1>1 DEF RowsKept, Same
<1>2. CASE Inserted(x, y)
  <2>1. PICK k \in Key, r \in Row : exec[k] = NULL /\ exec' = [exec EXCEPT ![k] = r]
    BY <1>2, InsertEffect DEF Inserted
  <2>2. \A i \in Key : i # k => exec'[i] = exec[i]
    BY <2>1, TablesNow
  <2>3. QED
    BY <2>1, <2>2 DEF RowsKept, Same
<1>3. CASE Restated(x, y)
  <2>1. PICK k \in Key, r \in Row :
          exec[k] # NULL /\ Same(exec[k], r) /\ exec' = [exec EXCEPT ![k] = r]
    BY <1>3, RestateEffect
  <2>2. exec'[k] = r /\ r # NULL /\ \A i \in Key : i # k => exec'[i] = exec[i]
    BY <2>1, TablesNow, ToolAssumption
  <2>3. QED
    BY <2>1, <2>2 DEF RowsKept, Same
<1>4. QED
  BY <1>1, <1>2, <1>3 DEF Blank, Moved, Asked, Invoked

(* A call that has no row: nothing has happened under its key. *)
LEMMA RecordedKept ==
  ASSUME TInv, Recorded, RowsKept, effect' = effect, granted \subseteq granted'
  PROVE  Recorded'
BY DEF Recorded, RowsKept, Same

(* What an engine invokes is the call its row stands for. *)
LEMMA InvokedRow ==
  ASSUME TInv, NEW x \in Engine, eng[x].pc = "invoke"
  PROVE  /\ KeyOf(x) \in Key /\ KeyOf(x)[2] = eng[x].cur
         /\ exec[KeyOf(x)] # NULL /\ exec[KeyOf(x)].tier = Tier(ToolOf(x))
         /\ ~IsDeferred(x) => exec[KeyOf(x)].tool = ToolOf(x)
         /\ requires_approval(Tier(ToolOf(x))) => KeyOf(x) \in granted
<1>1. /\ KeyOf(x) \in Key /\ KeyOf(x)[1] = eng[x].step /\ KeyOf(x)[2] = eng[x].cur
  BY BusyFacts DEF Busy
<1>2. /\ exec[KeyOf(x)] # NULL /\ steps[eng[x].step] = eng[x].plan
      /\ requires_approval(Tier(ToolOf(x))) => KeyOf(x) \in granted
  BY MemFacts DEF Mem, Answered, KeyOf, ToolOf, CallOf
<1>3. Fits(KeyOf(x), exec[KeyOf(x)])
  BY <1>1, <1>2 DEF TInv, Fit
<1>4. QED
  BY <1>1, <1>2, <1>3 DEF Fits, IsDeferred, ToolOf, CallOf

LEMMA InvokedRecorded ==
  ASSUME TInv, Recorded, NEW x \in Engine, NEW y \in Memory, Invoked(x, y)
  PROVE  Recorded'
<1>1. exec' = exec /\ granted' = granted /\ eng[x].pc = "invoke"
  BY DEF Invoked
<1>2. CASE effect' = effect
  BY <1>1, <1>2 DEF Recorded
<1>3. CASE Acting(x) /\ effect' = [effect EXCEPT ![KeyOf(x)] = @ + 1]
  <2>1. PICK k \in Key : k = KeyOf(x) /\ k[2] = eng[x].cur
    BY <1>1, InvokedRow
  <2>2. ~IsDeferred(x) /\ ToolOf(x) # "locked" /\ Known(ToolOf(x))
    BY <1>3 DEF Acting, Denying
  <2>3. /\ exec[k] # NULL /\ ~Deferred(k[2]) /\ Known(exec[k].tool) /\ exec[k].tool # "locked"
        /\ requires_approval(exec[k].tier) => k \in granted
    BY <1>1, <1>3, <2>1, <2>2, InvokedRow DEF IsDeferred
  <2>4. \A i \in Key : i # k => effect'[i] = effect[i]
    BY <1>3, <2>1, TablesNow
  <2>5. QED
    BY <1>1, <2>3, <2>4 DEF Recorded
<1>4. QED
  BY <1>2, <1>3 DEF Invoked

(* Nobody begins to invoke a call that must not be retried, and no row is  *)
(* new.                                                                    *)
LEMMA OnceKept ==
  ASSUME TInv, Once, RowsKept, effect' = effect,
         \A k \in Key : exec'[k] # NULL => exec[k] # NULL,
         \A b \in Engine, k \in Key :
           exec'[k] # NULL /\ ~SafeToRetry(exec'[k]) /\ Invoking(b, k)' => Invoking(b, k)
  PROVE  Once'
<1>1. ASSUME NEW k \in Key, exec'[k] # NULL, ~SafeToRetry(exec'[k])
      PROVE  /\ effect'[k] <= 1
             /\ \A x \in Engine : Invoking(x, k)' => effect'[k] = 0
             /\ \A x, y \in Engine : Invoking(x, k)' /\ Invoking(y, k)' => x = y
  <2>1. exec[k] # NULL /\ ~SafeToRetry(exec[k])
    BY <1>1 DEF RowsKept, Same, SafeToRetry
  <2>2. QED
    BY <1>1, <2>1 DEF Once
<1>2. QED
  BY <1>1 DEF Once

(* Only the engine that takes the step may begin to invoke. *)
LEMMA OtherInvoking ==
  ASSUME TInv, NEW x \in Engine, NEW y \in Memory, eng' = [eng EXCEPT ![x] = y],
         NEW b \in Engine, NEW k \in Key, Invoking(b, k)'
  PROVE  Invoking(b, k) \/ (b = x /\ y.pc = "invoke" /\ k = <<y.step, y.cur>>)
<1>1. eng'[x] = y /\ (b # x => eng'[b] = eng[b])
  BY DEF TInv, TypeOK
<1>2. QED
  BY <1>1 DEF Invoking, KeyOf

LEMMA MovedOnce ==
  ASSUME TInv, Once, NEW x \in Engine, NEW y \in Memory, Moved(x, y)
  PROVE  Once'
<1>1. /\ exec' = exec /\ effect' = effect /\ eng' = [eng EXCEPT ![x] = y] /\ Mem(y)
      /\ y.pc = "invoke" => y.seen # NULL /\ SafeToRetry(y.seen)
  BY DEF Moved
<1>2. ASSUME NEW k \in Key, y.pc = "invoke", k = <<y.step, y.cur>> PROVE SafeToRetry(exec[k])
  <2>1. Fits(k, y.seen) /\ exec[k] # NULL
    BY <1>1, <1>2 DEF Mem
  <2>2. Fits(k, exec[k])
    BY <2>1 DEF TInv, Fit
  <2>3. y.seen.tier = exec[k].tier /\ (y.seen.idempotent <=> exec[k].idempotent)
    BY <2>1, <2>2 DEF Fits
  <2>4. QED
    BY <1>1, <1>2, <2>3 DEF SafeToRetry
<1>3. QED
  BY <1>1, <1>2, OnceKept, OtherInvoking, RowsKeptStep

LEMMA InsertedOnce ==
  ASSUME TInv, Recorded, Once, NEW x \in Engine, NEW y \in Memory, Inserted(x, y)
  PROVE  Once'
<1>1. PICK k \in Key, r \in Row :
        k = KeyOf(x) /\ exec[k] = NULL /\ exec' = [exec EXCEPT ![k] = r]
  BY InsertEffect DEF Inserted
<1>2. effect' = effect /\ eng' = [eng EXCEPT ![x] = y]
  BY DEF Inserted, Done, Starts
<1>3. \A i \in Key : i # k => exec'[i] = exec[i]
  BY <1>1, TablesNow
<1>4. effect[k] = 0
  BY <1>1, TablesNow DEF Recorded
<1>5. \A b \in Engine : ~Invoking(b, k)
  BY <1>1, InvokedRow DEF Invoking
<1>6. y.pc = "invoke" => k = <<y.step, y.cur>>
  BY <1>1 DEF Inserted, Done, Starts, KeyOf
<1>7. ASSUME NEW i \in Key, exec'[i] # NULL, ~SafeToRetry(exec'[i])
      PROVE  /\ effect'[i] <= 1
             /\ \A b \in Engine : Invoking(b, i)' => effect'[i] = 0
             /\ \A b, c \in Engine : Invoking(b, i)' /\ Invoking(c, i)' => b = c
  <2>1. CASE i = k
    <3>1. \A b \in Engine : Invoking(b, i)' => b = x
      BY <1>2, <1>5, <2>1, OtherInvoking
    <3>2. QED
      BY <1>2, <1>4, <2>1, <3>1
  <2>2. CASE i # k
    <3>1. \A b \in Engine : Invoking(b, i)' => Invoking(b, i)
      BY <1>2, <1>6, <2>2, OtherInvoking
    <3>2. exec[i] # NULL /\ ~SafeToRetry(exec[i])
      BY <1>3, <1>7, <2>2
    <3>3. QED
      BY <1>2, <3>1, <3>2 DEF Once
  <2>3. QED
    BY <2>1, <2>2
<1>8. QED
  BY <1>7 DEF Once

LEMMA InvokedOnce ==
  ASSUME TInv, Once, NEW x \in Engine, NEW y \in Memory, Invoked(x, y)
  PROVE  Once'
<1>1. /\ exec' = exec /\ eng' = [eng EXCEPT ![x] = y] /\ eng[x].pc = "invoke"
      /\ y.pc = "finalize"
      /\ effect' = effect \/ effect' = [effect EXCEPT ![KeyOf(x)] = @ + 1]
  BY DEF Invoked
<1>2. PICK k \in Key : k = KeyOf(x) /\ Invoking(x, k)
  BY <1>1, InvokedRow DEF Invoking
<1>3. \A b \in Engine, i \in Key : Invoking(b, i)' => Invoking(b, i) /\ b # x
  <2>1. ~(eng'[x].pc = "invoke")
    BY <1>1 DEF TInv, TypeOK
  <2>2. \A b \in Engine, i \in Key : Invoking(b, i)' => Invoking(b, i)
    BY <1>1, OtherInvoking
  <2>3. \A i \in Key : ~Invoking(x, i)'
    BY <2>1 DEF Invoking
  <2>4. QED
    BY <2>2, <2>3
<1>4. \A i \in Key : effect[i] \in Nat /\ (i # k => effect'[i] = effect[i])
  BY <1>1, <1>2, TablesNow
<1>5. effect'[k] \in {effect[k], effect[k] + 1}
  BY <1>1, <1>2, TablesNow
<1>6. ASSUME NEW i \in Key, exec'[i] # NULL, ~SafeToRetry(exec'[i])
      PROVE  /\ effect'[i] <= 1
             /\ \A b \in Engine : Invoking(b, i)' => effect'[i] = 0
             /\ \A b, c \in Engine : Invoking(b, i)' /\ Invoking(c, i)' => b = c
  <2>1. /\ effect[i] <= 1
        /\ \A b \in Engine : Invoking(b, i) => effect[i] = 0
        /\ \A b, c \in Engine : Invoking(b, i) /\ Invoking(c, i) => b = c
    BY <1>1, <1>6 DEF Once
  <2>2. CASE i = k
    <3>1. effect[k] = 0 /\ \A b \in Engine : ~Invoking(b, i)'
      BY <1>2, <1>3, <2>1, <2>2
    <3>2. QED
      BY <1>5, <2>2, <3>1
  <2>3. CASE i # k
    BY <1>3, <1>4, <2>1, <2>3
  <2>4. QED
    BY <2>2, <2>3
<1>7. QED
  BY <1>6 DEF Once

(* The other kinds of step leave every engine that invokes where it is. *)
LEMMA QuietOnce ==
  ASSUME TInv, Once, NEW x \in Engine, NEW y \in Memory,
         Blank(x, y) \/ Restated(x, y) \/ Asked(x, y)
  PROVE  Once'
<1>1. effect' = effect /\ eng' = [eng EXCEPT ![x] = y] /\ y.pc # "invoke"
  BY DEF Blank, Restated, Asked, Done
<1>2. RowsKept
  BY RowsKeptStep
<1>3. \A k \in Key : exec'[k] # NULL => exec[k] # NULL
  <2>1. CASE exec' = exec
    BY <2>1
  <2>2. CASE Restated(x, y)
    <3>1. PICK k \in Key, r \in Row : exec[k] # NULL /\ exec' = [exec EXCEPT ![k] = r]
      BY <2>2, RestateEffect
    <3>2. QED
      BY <3>1, TablesNow
  <2>3. QED
    BY <2>1, <2>2 DEF Blank, Asked
<1>4. QED
  BY <1>1, <1>2, <1>3, OnceKept, OtherInvoking

LEMMA Inductive == IInv /\ [Next]_vars => IInv'
<1> SUFFICES ASSUME TInv, Recorded, Once, [Next]_vars PROVE Recorded' /\ Once'
  BY TypeStep DEF IInv
<1>1. ASSUME NEW x \in Engine, NEW y \in Memory, Invoked(x, y) PROVE Recorded' /\ Once'
  BY <1>1, InvokedRecorded, InvokedOnce
<1>2. ASSUME NEW x \in Engine, NEW y \in Memory,
             Blank(x, y) \/ Moved(x, y) \/ Inserted(x, y) \/ Restated(x, y) \/ Asked(x, y)
      PROVE  Recorded' /\ Once'
  <2>1. effect' = effect /\ granted \subseteq granted' /\ RowsKept
    BY <1>2, RowsKeptStep DEF Blank, Moved, Inserted, Restated, Asked
  <2>2. QED
    BY <1>2, <2>1, RecordedKept, MovedOnce, InsertedOnce, QuietOnce
<1>3. CASE Decided \/ UNCHANGED vars
  <2>1. effect' = effect /\ exec' = exec /\ eng' = eng /\ granted \subseteq granted'
    BY <1>3 DEF Decided, vars
  <2>2. RowsKept /\ \A b \in Engine, k \in Key : Invoking(b, k)' => Invoking(b, k)
    BY <2>1 DEF RowsKept, Same, Invoking, KeyOf
  <2>3. QED
    BY <2>1, <2>2, RecordedKept, OnceKept
<1>4. QED
  BY <1>1, <1>2, <1>3, Cases

(* The invariant: effects belong to rows, rows to the persisted answer,    *)
(* and a call that must not be retried has at most one engine between its  *)
(* write-ahead row and its handler, whichever engines crash, replay the    *)
(* step or overtake each other (_execute, _recover_started and             *)
(* _invoke_and_finalize of tool_executor.py).                              *)
THEOREM Invariance == Spec => []IInv
<1>1. Init => IInv
  <2>1. Init => Recorded /\ Once
    BY DEF Init, Recorded, Once
  <2>2. QED
    BY <2>1, TypeInit DEF IInv
<1>2. QED
  BY <1>1, Inductive, PTL DEF Spec

(* A dangerous tool only runs when its call was approved: the gate of      *)
(* _check_approval holds across replays, user messages that resume the     *)
(* run, expiry and concurrent decisions.                                   *)
THEOREM EffectsApproved == Spec => []ApprovedBeforeEffect
<1>1. IInv => ApprovedBeforeEffect
  BY DEF IInv, Recorded, ApprovedBeforeEffect
<1>2. QED
  BY <1>1, Invariance, PTL

(* A call that is not safe to retry reaches the outside world at most      *)
(* once: the point of the write-ahead row in tool_executor.py, for any     *)
(* number of crashes, replays and overlapping engines.                     *)
THEOREM EffectsOnce == Spec => []AtMostOnce
<1>1. IInv => AtMostOnce
  <2> SUFFICES ASSUME IInv, NEW k \in Key, effect[k] > 1 PROVE Idempotent(exec[k].tool)
    BY DEF AtMostOnce
  <2>1. effect[k] \in Nat /\ effect[k] > 0 /\ ~(effect[k] <= 1)
    BY TablesNow DEF IInv
  <2>2. exec[k] # NULL /\ ~Deferred(k[2]) /\ Known(exec[k].tool) /\ exec[k].tool # "locked"
    BY <2>1 DEF IInv, Recorded
  <2>3. SafeToRetry(exec[k])
    BY <2>1, <2>2 DEF IInv, Once
  <2>4. Fits(k, exec[k])
    BY <2>2 DEF IInv, TInv, Fit
  <2>5. exec[k].tier = Tier(exec[k].tool) /\ (exec[k].idempotent <=> Idempotent(exec[k].tool))
    BY <2>2, <2>4 DEF Fits
  <2>6. QED
    BY <2>2, <2>3, <2>5 DEF SafeToRetry, Known, Tier, Idempotent
<1>2. QED
  BY <1>1, Invariance, PTL
-----------------------------------------------------------------------------
(* Without a takeover one engine at a time works on the run, and what it   *)
(* has read of the row of its call is what the row says.                   *)
Sole == \A x, y \in Engine : eng[x].pc # "idle" /\ eng[y].pc # "idle" => x = y

Current == \A x \in Engine :
  /\ eng[x].pc = "act" => eng[x].seen = exec[KeyOf(x)]
  /\ eng[x].pc \in {"invoke", "finalize"} => Unfinished(exec[KeyOf(x)])

SInv == TInv /\ zombies \in Nat /\ Sole /\ Current

LEMMA ZombiesCounted ==
  ASSUME zombies \in Nat, Next
  PROVE  zombies' \in Nat
<1>1. ASSUME NEW x \in Engine, Begin(x) PROVE zombies' \in Nat
  BY <1>1 DEF Begin
<1>2. ASSUME NEW x \in Engine, Fail(x) PROVE zombies' = zombies
  BY <1>2 DEF Fail, bounds
<1>3. ASSUME NEW x \in Engine, NEW s, NEW n, NEW c, Checkpoint(x, s, n, c)
      PROVE  zombies' = zombies
  BY <1>2, <1>3 DEF Checkpoint, bounds
<1>4. ASSUME NEW x \in Engine, StepLimit(x) \/ LlmFails(x) \/ Admit(x) \/ Close(x)
      PROVE  zombies' = zombies
  BY <1>3, <1>4 DEF StepLimit, LlmFails, Admit, Close, bounds
<1>5. ASSUME NEW x \in Engine,
             \/ StartStep(x) \/ Answer(x) \/ Lookup(x) \/ RecordUnknownTool(x)
             \/ ResolveExisting(x) \/ RecoverStarted(x) \/ RecordInvalidArguments(x)
             \/ AskApproval(x) \/ Denied(x) \/ Approved(x) \/ WriteAhead(x) \/ Invoke(x)
             \/ Finalize(x) \/ Crash(x)
      PROVE  zombies' = zombies
  BY <1>2, <1>5 DEF StartStep, Answer, Lookup, RecordUnknownTool, ResolveExisting,
     RecoverStarted, RecordInvalidArguments, AskApproval, Denied, Approved, WriteAhead, Invoke,
     Finalize, Crash, bounds
<1>6. CASE PostMessage \/ ApprovalStep
  BY <1>6 DEF PostMessage, ApprovalStep, DecideRead, DecideCommit, ExpireRead, ExpireApproval,
     ExpireRun, ReaperCrash, bounds
<1>7. QED
  BY <1>1, <1>4, <1>5, <1>6 DEF Next, EngineStep

(* Who takes a step was at work before, or nobody was. *)
LEMMA Alone ==
  ASSUME SInv, MaxZombies = 0, NEW x \in Engine, EngineStep(x) \/ Crash(x)
  PROVE  \A b \in Engine : b # x => eng[b].pc = "idle"
<1>1. CASE Begin(x)
  <2>1. Alive = {}
    BY <1>1 DEF Begin, SInv
  <2>2. QED
    BY <2>1 DEF Alive
<1>2. CASE ~Begin(x)
  <2>1. eng[x].pc # "idle"
    BY <1>2 DEF EngineStep, Crash, StepLimit, StartStep, LlmFails, Answer, Admit, Lookup,
       RecordUnknownTool, ResolveExisting, RecoverStarted, RecordInvalidArguments, AskApproval,
       Denied, Approved, WriteAhead, Invoke, Finalize, Close, Found, Fresh, HasTool
  <2>2. QED
    BY <2>1, SMTT(30) DEF SInv, Sole
<1>3. QED
  BY <1>1, <1>2

(* A memory y that x gets is as current as Current says. *)
LEMMA CurrentMem ==
  ASSUME SInv, NEW x \in Engine, NEW y \in Memory,
         \/ Blank(x, y) \/ Moved(x, y) \/ Inserted(x, y) \/ Restated(x, y)
         \/ Asked(x, y) \/ Invoked(x, y)
  PROVE  /\ eng' = [eng EXCEPT ![x] = y]
         /\ y.pc = "act" => y.seen = exec'[<<y.step, y.cur>>]
         /\ y.pc \in {"invoke", "finalize"} => Unfinished(exec'[<<y.step, y.cur>>])
<1>0. TInv /\ Current
  BY DEF SInv
<1>1. CASE Blank(x, y) \/ Restated(x, y) \/ Asked(x, y)
  BY <1>1 DEF Blank, Restated, Asked, Done
<1>2. CASE Moved(x, y)
  <2>1. y.pc = "invoke" => Unfinished(exec[<<y.step, y.cur>>])
    BY <1>0, <1>2 DEF Moved, Current, KeyOf
  <2>2. QED
    BY <1>2, <2>1 DEF Moved
<1>3. CASE Invoked(x, y)
  BY <1>0, <1>3 DEF Invoked, Current, KeyOf
<1>4. CASE Inserted(x, y) /\ Done(x, y)
  BY <1>4 DEF Done
<1>5. CASE Inserted(x, y) /\ Starts(x, y) /\ Insert(x, "started")
  <2>1. /\ y.pc = "invoke" /\ y.step = eng[x].step /\ y.cur = eng[x].cur
        /\ eng' = [eng EXCEPT ![x] = y]
    BY <1>5 DEF Starts
  <2>2. KeyOf(x) \in Key /\ KeyOf(x) = <<y.step, y.cur>>
    BY <1>0, <1>5, <2>1, BusyFacts DEF Inserted, KeyOf
  <2>3. exec'[<<y.step, y.cur>>] = NewRow(x, "started")
    BY <1>0, <1>5, <2>2, TablesNow DEF Insert
  <2>4. NewRow(x, "started").status = "started"
    BY DEF NewRow
  <2>5. QED
    BY <2>1, <2>3, <2>4 DEF Unfinished
<1>6. QED
  BY <1>1, <1>2, <1>3, <1>4, <1>5 DEF Inserted

LEMMA SoleStep ==
  ASSUME MaxZombies = 0, SInv, [Next]_vars
  PROVE  SInv'
<1>0. TInv /\ eng \in [Engine -> Memory] /\ Current /\ Sole
  BY DEF SInv, TInv, TypeOK
<1>1. TInv'
  BY <1>0, TypeStep
<1>2. zombies' \in Nat
  BY ZombiesCounted DEF SInv, vars
<1>3. ASSUME NEW x \in Engine, EngineStep(x) \/ Crash(x) PROVE Sole' /\ Current'
  <2>1. PICK y \in Memory :
          \/ Blank(x, y) \/ Moved(x, y) \/ Inserted(x, y) \/ Restated(x, y)
          \/ Asked(x, y) \/ Invoked(x, y)
    BY <1>0, <1>3, EngineCases
  <2>2. /\ eng' = [eng EXCEPT ![x] = y]
        /\ y.pc = "act" => y.seen = exec'[<<y.step, y.cur>>]
        /\ y.pc \in {"invoke", "finalize"} => Unfinished(exec'[<<y.step, y.cur>>])
    BY <2>1, CurrentMem
  <2>3. eng'[x] = y /\ \A b \in Engine : b # x => eng'[b].pc = "idle"
    BY <1>0, <1>3, <2>2, Alone
  <2>4. Sole'
    BY <2>3 DEF Sole
  <2>5. ASSUME NEW b \in Engine
        PROVE  /\ eng'[b].pc = "act" => eng'[b].seen = exec'[<<eng'[b].step, eng'[b].cur>>]
               /\ eng'[b].pc \in {"invoke", "finalize"} =>
                    Unfinished(exec'[<<eng'[b].step, eng'[b].cur>>])
    BY <2>2, <2>3
  <2>6. QED
    BY <2>4, <2>5 DEF Current, KeyOf, Unfinished
<1>4. ASSUME PostMessage \/ ApprovalStep \/ UNCHANGED vars PROVE Sole' /\ Current'
  <2>1. eng' = eng /\ exec' = exec
    BY <1>0, <1>4, ApprovalEffect DEF Decided, vars
  <2>2. QED
    BY <1>0, <2>1 DEF Sole, Current, KeyOf, Unfinished
<1>5. Sole' /\ Current'
  <2>1. CASE Next
    BY <1>3, <1>4, <2>1 DEF Next
  <2>2. CASE UNCHANGED vars
    BY <1>4, <2>2
  <2>3. QED
    BY <2>1, <2>2
<1>6. QED
  BY <1>1, <1>2, <1>5 DEF SInv

(* The outcome of a call whose row is not open any more is final. *)
LEMMA FinalStep ==
  ASSUME SInv, [Next]_vars
  PROVE  \A k \in Rows(exec) : exec[k].status = "succeeded" => exec'[k].status = "succeeded"
<1>0. TInv /\ Current /\ exec \in [Key -> Row \cup {NULL}]
  BY TablesNow DEF SInv
<1>1. CASE exec' = exec
  BY <1>1
<1>2. ASSUME NEW x \in Engine, NEW y \in Memory, Inserted(x, y)
      PROVE  \A k \in Rows(exec) : exec'[k] = exec[k]
  <2>1. PICK i \in Key, r \in Row : exec[i] = NULL /\ exec' = [exec EXCEPT ![i] = r]
    BY <1>0, <1>2, InsertEffect DEF Inserted
  <2>2. QED
    BY <1>0, <2>1 DEF Rows
<1>3. ASSUME NEW x \in Engine, NEW y \in Memory, Restated(x, y)
      PROVE  \A k \in Rows(exec) : exec[k].status = "succeeded" => exec'[k] = exec[k]
  <2>1. PICK i \in Key, r \in Row : i = KeyOf(x) /\ exec' = [exec EXCEPT ![i] = r]
    BY <1>0, <1>3, RestateEffect
  <2>2. exec[i].status = "started"
    BY <1>0, <1>3, <2>1 DEF Restated, Current, Unfinished
  <2>3. QED
    BY <1>0, <2>1, <2>2 DEF Rows
<1>4. QED
  <2>1. exec' = exec \/ \E x \in Engine, y \in Memory : Inserted(x, y) \/ Restated(x, y)
    BY <1>0, Cases, ZenonT(40) DEF Blank, Moved, Asked, Invoked, Decided, vars
  <2>2. QED
    BY <1>1, <1>2, <1>3, <2>1

(* A recorded success is never replaced as long as no lease lapses while   *)
(* its holder still works: crashes, replays and resumed runs read it back  *)
(* (_resolve_existing, _recover_started).  With overlapping engines the    *)
(* unconditional update of _invoke_and_finalize may replace it.            *)
THEOREM SuccessKept == ASSUME MaxZombies = 0 PROVE Spec => SucceededIsFinal
<1>1. Init => SInv
  <2> SUFFICES ASSUME Init PROVE SInv
    OBVIOUS
  <2>1. \A x \in Engine : eng[x].pc = "idle"
    BY IdleMem DEF Init
  <2>2. QED
    BY <2>1, TypeInit DEF SInv, Sole, Current, Init
<1>2. SInv /\ [Next]_vars => SInv'
  BY SoleStep
<1>3. SInv /\ [Next]_vars =>
        [\A k \in Rows(exec) : exec[k].status = "succeeded" => exec'[k].status = "succeeded"]_vars
  BY FinalStep
<1>4. QED
  BY <1>1, <1>2, <1>3, PTL DEF Spec, SucceededIsFinal
-----------------------------------------------------------------------------
(* The evidence a run completes on.  An engine at work is on the run's     *)
(* step; a finish row that claims success is the run's latest, and what    *)
(* came before it succeeded, but for a dangerous call deferred with it.    *)
Driver == \A x \in Engine : eng[x].pc # "idle" =>
                              run.status = "running" /\ eng[x].step = run.step

Ended == run.status \in {"completed", "failed", "timed_out"}

Finished(n) == /\ exec[<<n, 1>>] # NULL /\ exec[<<n, 1>>].tool = "finish"
               /\ exec[<<n, 1>>].status = "succeeded"
Claimed(n)  == Finished(n) /\ exec[<<n, 1>>].args # "b"

Backed(n) == \A k \in LatestEvidence :
               exec[k].status = "succeeded" \/ (k = <<n, 2>> /\ requires_approval(exec[k].tier))

(* The deferred call of answer p to step n is done, unless it needs an     *)
(* approval: such a call is passed over without a row.                     *)
Settled(n, p) == Len(p) = 2 /\ ~requires_approval(Tier(p[2].tool)) =>
                   exec[<<n, 2>>] # NULL /\ ~Unfinished(exec[<<n, 2>>])

(* What an engine with memory y has done: the deferred call comes before   *)
(* the selected one, finish goes through on evidence and completes the run *)
Conduct(y) ==
  /\ y.pc \in Busy /\ y.cur = 1 => Settled(y.step, y.plan)
  /\ y.pc \in Busy \ {"look"} /\ y.cur = 1 /\ y.plan[1].tool = "finish" /\ y.ok =>
       ~FinishBlocked(y.plan[1])
  /\ y.pc = "close" /\ Claimed(y.step) => y.control = "completed"
  /\ y.pc = "close" /\ y.control = "completed" => Finished(y.step)

Behind      == \A k \in Key : exec[k] # NULL => k[1] <= run.step
Deferrals   == \A n \in Step : exec[<<n, 1>>] # NULL => Settled(n, steps[n])
Claims      == \A n \in Step : Claimed(n) =>
                 (n = run.step \/ (Ended /\ n + 1 = run.step)) /\ Backed(n)
Completions == run.status = "completed" => run.step # 0 /\ Finished(run.step - 1)
Conducts    == \A x \in Engine : Conduct(eng[x])

Tables == Behind /\ Deferrals /\ Claims /\ Completions

EInv == SInv /\ Driver /\ Tables /\ Conducts

(* What the tables say is about the rows and the run only. *)
LEMMA SameRows ==
  ASSUME exec' = exec
  PROVE  /\ LatestEvidence' = LatestEvidence
         /\ \A n : (Finished(n)' <=> Finished(n)) /\ (Claimed(n)' <=> Claimed(n))
         /\ \A n : Backed(n)' <=> Backed(n)
         /\ \A n, p : Settled(n, p)' <=> Settled(n, p)
         /\ \A c : FinishBlocked(c)' <=> FinishBlocked(c)
<1>1. LatestEvidence' = LatestEvidence
  BY DEF LatestEvidence, Evidence, Rows
<1>2. QED
  BY <1>1 DEF Finished, Claimed, Backed, Settled, FinishBlocked

(* A row belongs to a persisted answer, which stays as it is. *)
LEMMA DeferralsKept ==
  ASSUME TInv, Kept, Deferrals, exec' = exec
  PROVE  Deferrals'
<1>1. ASSUME NEW n \in Step, exec[<<n, 1>>] # NULL PROVE Settled(n, steps[n])'
  <2>1. <<n, 1>> \in Key /\ <<n, 1>>[1] = n
    BY DEF Key
  <2>2. steps[n] # NULL
    BY <1>1, <2>1 DEF TInv, Fit, Fits
  <2>3. PICK p : p = steps[n] /\ p = steps'[n]
    BY <2>2 DEF Kept
  <2>4. Settled(n, p)'
    BY <1>1, <2>3, SameRows DEF Deferrals
  <2>5. QED
    BY <2>3, <2>4 DEF Settled
<1>2. QED
  BY <1>1 DEF Deferrals

LEMMA TablesKept ==
  ASSUME TInv, Kept, Tables, exec' = exec, run' = run
  PROVE  Tables'
<1>1. Deferrals'
  BY DeferralsKept DEF Tables
<1>2. Behind' /\ Completions'
  BY SameRows DEF Tables, Behind, Completions
<1>3. Claims'
  BY SameRows DEF Tables, Claims, Ended
<1>4. QED
  BY <1>1, <1>2, <1>3 DEF Tables

(* The other engines are idle. *)
LEMMA EnginesKept ==
  ASSUME EInv, NEW x \in Engine, NEW y \in Memory, eng' = [eng EXCEPT ![x] = y],
         \A b \in Engine : b # x => eng[b].pc = "idle",
         y.pc # "idle" => run'.status = "running" /\ y.step = run'.step,
         Conduct(y)'
  PROVE  Driver' /\ Conducts'
<1>1. eng'[x] = y /\ \A b \in Engine : b # x => eng'[b].pc = "idle"
  BY DEF EInv, SInv, TInv, TypeOK
<1>2. Driver'
  BY <1>1 DEF Driver
<1>3. ASSUME NEW b \in Engine PROVE Conduct(eng[b])'
  <2>1. CASE b = x
    <3>1. PICK z : z = eng'[b] /\ z = y
      BY <1>1, <2>1
    <3>2. Conduct(z)'
      BY <3>1
    <3>3. QED
      BY <3>1, <3>2 DEF Conduct
  <2>2. CASE b # x
    BY <1>1, <2>2 DEF Conduct, Busy
  <2>3. QED
    BY <2>1, <2>2
<1>4. QED
  BY <1>2, <1>3 DEF Conducts

LEMMA AtWork ==
  ASSUME EInv, NEW x \in Engine, eng[x].pc # "idle"
  PROVE  /\ TInv /\ Current /\ Tables /\ eng[x] \in Memory /\ Mem(eng[x]) /\ Conduct(eng[x])
         /\ run.status = "running" /\ eng[x].step = run.step /\ ~Ended
BY MemFacts DEF EInv, SInv, Driver, Conducts, Ended

(* The selected call of the answer has a row, which says what it is. *)
LEMMA SelectedRow ==
  ASSUME TInv, NEW x \in Engine, eng[x].pc \in Answered, exec[<<eng[x].step, 1>>] # NULL
  PROVE  /\ steps[eng[x].step] = eng[x].plan /\ 1 \in DOMAIN eng[x].plan
         /\ exec[<<eng[x].step, 1>>].tool = eng[x].plan[1].tool
         /\ exec[<<eng[x].step, 1>>].args = "b" <=> eng[x].plan[1].args = "b"
<1>1. eng[x] \in Memory /\ Mem(eng[x]) /\ eng[x].step \in Step /\ eng[x].saved \in BOOLEAN
  BY MemFacts, Fields DEF Mem
<1>2. PICK k \in Key : k = <<eng[x].step, 1>> /\ k[1] = eng[x].step /\ k[2] = 1
  BY <1>1 DEF Key
<1>3. Fits(k, exec[k])
  BY <1>2 DEF TInv, Fit
<1>4. steps[eng[x].step] = eng[x].plan
  BY <1>1, <1>2, <1>3 DEF Fits, Mem
<1>5. eng[x].plan[1] \in Call
  BY <1>1, <1>2, <1>3, <1>4, PlanFacts, Fields DEF Fits
<1>6. QED
  BY <1>2, <1>3, <1>4, <1>5, StoredFacts DEF Fits, Deferred

(* What follows from an outcome: a deferred call is passed over, finish    *)
(* completes the run if it succeeded.                                      *)
LEMMA ControlsFacts ==
  ASSUME NEW x, NEW status, NEW fresh, NEW rows, NEW c \in Controls(x, status, fresh, rows)
  PROVE  /\ c \in Outcomes
         /\ IsDeferred(x) => c = "none"
         /\ c = "completed" => ToolOf(x) = "finish" /\ status = "succeeded"
         /\ ~IsDeferred(x) /\ ToolOf(x) = "finish" /\ status = "succeeded" => c = "completed"
<1>1. ToolOf(x) = "finish" => ~Gathered(x)
  BY DEF Gathered, Known
<1>2. c \in Outcomes
  BY ControlsType
<1>3. CASE IsDeferred(x) \/ Gathered(x) \/ ToolOf(x) = "meta"
  BY <1>1, <1>2, <1>3 DEF Controls
<1>4. CASE ~(IsDeferred(x) \/ Gathered(x) \/ ToolOf(x) = "meta") /\ ToolOf(x) = "finish"
  BY <1>2, <1>4 DEF Controls
<1>5. CASE ~(IsDeferred(x) \/ Gathered(x) \/ ToolOf(x) = "meta") /\ ToolOf(x) # "finish"
  BY <1>2, <1>5 DEF Controls
<1>6. QED
  BY <1>3, <1>4, <1>5

(* The memory of an engine that is done with a call, and what comes of it *)
Over(x, y, c) ==
  /\ y \in Memory /\ eng' = [eng EXCEPT ![x] = y]
  /\ y.step = eng[x].step /\ y.plan = eng[x].plan /\ y.control = c
  /\ eng[x].cur = 1 => y.pc = "close"
  /\ eng[x].cur = 2 /\ c = "none" => y.pc = "look" /\ y.cur = 1

LEMMA OutcomeOver ==
  ASSUME TInv, NEW x \in Engine, eng[x].pc \in Busy, NEW c \in Outcomes,
         Outcome(x, c, FALSE) \/ Outcome(x, c, TRUE)
  PROVE  \E y : Over(x, y, c)
<1> DEFINE e == eng[x]
           next == NextCall(e.plan, e.cur)
           p == IF c # "none" \/ next = 0 THEN "close" ELSE "look"
<1>1. e \in Memory /\ eng \in [Engine -> Memory] /\ e.plan \in Plan /\ e.cur \in 1 .. Len(e.plan)
  BY MemFacts, Fields DEF Mem, TInv, TypeOK
<1>2. PICK y : Done(x, y)
  BY OutcomeEffect
<1>3. eng'[x] = y /\ y \in Memory /\ y.step = e.step /\ y.plan = e.plan
  BY <1>1, <1>2 DEF Done
<1>4. eng'[x].control = c /\ eng'[x].cur = next /\ eng'[x].pc = p
  BY <1>1, SMTT(30) DEF Outcome, Memory
<1>5. Len(e.plan) \in Nat /\ Len(e.plan) <= 2
  BY <1>1, PlanFacts
<1>6. (e.cur = 1 => next = 0) /\ (e.cur = 2 => next = 1)
  BY <1>5 DEF NextCall
<1>7. /\ y.control = c /\ eng' = [eng EXCEPT ![x] = y]
      /\ e.cur = 1 => y.pc = "close"
      /\ e.cur = 2 /\ c = "none" => y.pc = "look" /\ y.cur = 1
  BY <1>2, <1>3, <1>4, <1>6 DEF Done
<1>8. QED
  BY <1>3, <1>7, Zenon DEF Over

LEMMA OverConduct ==
  ASSUME TInv, NEW x \in Engine, eng[x].pc \in Busy, NEW c, NEW y, Over(x, y, c),
         NEW m, m = eng[x].step, NEW k, k = KeyOf(x),
         IsDeferred(x) => /\ c = "none"
                          /\ requires_approval(Tier(ToolOf(x)))
                               \/ (exec'[k] # NULL /\ ~Unfinished(exec'[k])),
         ~IsDeferred(x) => /\ Claimed(m)' => c = "completed"
                           /\ c = "completed" => Finished(m)'
  PROVE  y.pc # "idle" /\ y.step = m /\ Conduct(y)'
<1>1. y.step = m /\ y.plan = eng[x].plan /\ y.control = c /\ eng[x].cur \in 1 .. 2
  BY BusyFacts DEF Over
<1>2. CASE eng[x].cur = 1
  <2>1. y.pc = "close" /\ ~IsDeferred(x)
    BY <1>2 DEF Over, IsDeferred, Deferred
  <2>2. (Claimed(m)' => c = "completed") /\ (c = "completed" => Finished(m)')
    BY <2>1
  <2>3. Conduct(y)'
    BY <1>1, <2>1, <2>2 DEF Conduct, Busy
  <2>4. QED
    BY <1>1, <2>1, <2>3
<1>3. CASE eng[x].cur = 2
  <2>1. /\ IsDeferred(x) /\ y.pc = "look" /\ y.cur = 1
        /\ requires_approval(Tier(y.plan[2].tool))
             \/ (exec'[<<m, 2>>] # NULL /\ ~Unfinished(exec'[<<m, 2>>]))
    BY <1>1, <1>3 DEF Over, IsDeferred, Deferred, ToolOf, CallOf, KeyOf
  <2>2. Settled(m, y.plan)'
    BY <2>1 DEF Settled
  <2>3. Conduct(y)'
    BY <1>1, <2>1, <2>2 DEF Conduct, Busy
  <2>4. QED
    BY <1>1, <2>1, <2>3
<1>4. QED
  BY <1>1, <1>2, <1>3

LEMMA KeptStep ==
  ASSUME TInv, Next
  PROVE  Kept
<1>1. ASSUME NEW x \in Engine, NEW y \in Memory,
             \/ Blank(x, y) \/ Moved(x, y) \/ Inserted(x, y) \/ Restated(x, y)
             \/ Asked(x, y) \/ Invoked(x, y)
      PROVE  Kept
  <2>1. \A k \in Key : exec[k] # NULL => exec'[k] # NULL
    BY <1>1, RowsKeptStep DEF RowsKept
  <2>2. UNCHANGED steps \/ Commit(x)
    BY <1>1 DEF Blank, Moved, Inserted, Insert, Restated, Asked, Invoked
  <2>3. \A n \in Step : steps[n] # NULL => steps'[n] = steps[n]
    BY <2>2, CommitEffect
  <2>4. granted' = granted
    BY <1>1 DEF Blank, Moved, Inserted, Restated, Asked, Invoked
  <2>5. QED
    BY <2>1, <2>3, <2>4 DEF Kept
<1>2. CASE Decided
  BY <1>2 DEF Decided, Kept
<1>3. QED
  BY <1>1, <1>2, Cases

(* A row is written that is new or was open. *)
LEMMA WriteTables ==
  ASSUME EInv, TInv', Kept, NEW x \in Engine, eng[x].pc \in Busy, NEW k \in Key, NEW r \in Row,
         k = KeyOf(x), exec' = [exec EXCEPT ![k] = r], run' = run,
         steps'[eng[x].step] = eng[x].plan,
         exec[k] = NULL \/ (Unfinished(exec[k]) /\ Same(exec[k], r)),
         eng[x].cur = 1 /\ r.status = "succeeded" => eng[x].ok /\ eng[x].pc # "look"
  PROVE  Tables'
<1> DEFINE m == eng[x].step
           p == eng[x].plan
<1>0. /\ TInv /\ Tables /\ eng[x] \in Memory /\ Mem(eng[x]) /\ Conduct(eng[x])
      /\ run.status = "running" /\ m = run.step /\ ~Ended
  BY AtWork DEF Busy
<1>1. /\ m \in Step /\ eng[x].cur \in 1 .. 2 /\ k = <<m, eng[x].cur>>
      /\ k[1] = m /\ k[2] = eng[x].cur /\ p \in Plan /\ eng[x].cur \in 1 .. Len(p)
  BY <1>0, BusyFacts, Fields DEF KeyOf, Mem
<1>2. exec'[k] = r /\ r # NULL /\ \A j \in Key : j # k => exec'[j] = exec[j]
  BY <1>0, TablesNow, ToolAssumption
<1>3. /\ r.tier = Tier(p[eng[x].cur].tool) /\ (r.args = "b" <=> p[eng[x].cur].args = "b")
      /\ r.tool = IF Deferred(eng[x].cur) /\ ~Known(p[eng[x].cur].tool) THEN "ghost"
                  ELSE p[eng[x].cur].tool
  <2>1. p[eng[x].cur] \in Call
    BY <1>1, PlanFacts
  <2>2. QED
    BY <1>1, <1>2, <2>1, StoredFacts DEF TInv, Fit, Fits
<1>4. <<m, 1>> \in Key /\ <<m, 2>> \in Key /\ \A n \in Step : <<n, 1>> \in Key /\ <<n, 2>> \in Key
  BY <1>1 DEF Key
<1>5. Behind'
  BY <1>0, <1>1, <1>2, KeyFacts DEF Tables, Behind, Step
<1>6. ASSUME eng[x].cur = 2, exec[<<m, 1>>] # NULL
      PROVE  Len(p) = 2 /\ requires_approval(Tier(p[2].tool))
  <2>1. Len(p) = 2
    <3>1. PICK l \in Nat : l = Len(p) /\ l <= 2
      BY <1>1, PlanFacts
    <3>2. 2 \in 1 .. l
      BY <1>1, <1>6, <3>1
    <3>3. ASSUME NEW c \in Nat, c <= 2, 2 \in 1 .. c PROVE c = 2
      BY <3>3
    <3>4. QED
      BY <3>1, <3>2, <3>3
  <2>2. steps[m] = p
    BY <1>0, <1>6, SelectedRow DEF Busy, Answered
  <2>3. Settled(m, p)
    BY <1>0, <1>1, <1>6, <2>2 DEF Tables, Deferrals
  <2>4. QED
    BY <1>1, <1>6, <2>1, <2>3 DEF Settled
<1>7. Deferrals'
  <2>1. ASSUME NEW n \in Step, exec'[<<n, 1>>] # NULL PROVE Settled(n, steps[n])'
    <3>1. CASE n = m /\ eng[x].cur = 2
      <4>1. requires_approval(Tier(p[2].tool))
        BY <1>1, <1>2, <1>4, <1>6, <2>1, <3>1
      <4>2. QED
        BY <3>1, <4>1 DEF Settled
    <3>2. CASE n = m /\ eng[x].cur = 1
      <4>1. Settled(m, p) /\ exec'[<<m, 2>>] = exec[<<m, 2>>]
        BY <1>0, <1>1, <1>2, <1>4, <3>2 DEF Conduct
      <4>2. QED
        BY <3>2, <4>1 DEF Settled
    <3>3. CASE n # m
      <4>1. exec'[<<n, 1>>] = exec[<<n, 1>>] /\ exec'[<<n, 2>>] = exec[<<n, 2>>]
        BY <1>1, <1>2, <1>4, <3>3
      <4>2. steps[n] # NULL
        BY <1>0, <1>4, <2>1, <4>1 DEF TInv, Fit, Fits
      <4>3. steps'[n] = steps[n] /\ Settled(n, steps[n])
        BY <1>0, <2>1, <4>1, <4>2 DEF Kept, Tables, Deferrals
      <4>4. QED
        BY <4>1, <4>3 DEF Settled
    <3>4. QED
      BY <1>1, <3>1, <3>2, <3>3
  <2>2. QED
    BY <2>1 DEF Deferrals
<1>8. Completions'
  BY <1>0 DEF Completions
<1>9. ASSUME NEW n \in Step, Claimed(n)' PROVE n = run'.step /\ Backed(n)'
  <2>1. n = m
    <3>1. CASE n # m
      <4>1. exec'[<<n, 1>>] = exec[<<n, 1>>]
        BY <1>1, <1>2, <1>4, <3>1
      <4>2. Claimed(n)
        BY <1>9, <4>1 DEF Claimed, Finished
      <4>3. QED
        BY <1>0, <3>1, <4>2 DEF Tables, Claims
    <3>2. QED
      BY <3>1
  <2>2. CASE eng[x].cur = 2
    <3>1. k = <<m, 2>> /\ requires_approval(Tier(p[2].tool))
      <4>1. exec'[<<m, 1>>] = exec[<<m, 1>>]
        BY <1>1, <1>2, <1>4, <2>2
      <4>2. exec[<<m, 1>>] # NULL
        BY <1>9, <2>1, <4>1 DEF Claimed, Finished
      <4>3. QED
        BY <1>1, <1>6, <2>2, <4>2
    <3>2. r.tool = "wipe" /\ requires_approval(r.tier)
      BY <1>3, <2>2, <3>1 DEF Tier, requires_approval, Known
    <3>3. <<m, 2>> \in Evidence'
      BY <1>2, <3>1, <3>2 DEF Evidence, Rows, Control
    <3>4. ASSUME NEW j \in LatestEvidence' PROVE j = <<m, 2>>
      <4>1. j \in Key /\ exec'[j] # NULL /\ (m < j[1] \/ (m = j[1] /\ 2 <= j[2]))
        BY <1>1, <2>2, <3>1, <3>3, <3>4 DEF LatestEvidence, Evidence, Rows
      <4>2. j[1] <= m /\ j[1] \in Nat /\ m \in Nat /\ j[2] \in 1 .. 2 /\ j = <<j[1], j[2]>>
        BY <1>0, <1>1, <1>5, <4>1, KeyFacts, ToolAssumption DEF Behind, Step
      <4>3. j[1] = m /\ j[2] = 2
        BY <4>1, <4>2
      <4>4. QED
        BY <4>2, <4>3
    <3>5. Backed(n)'
      BY <1>2, <2>1, <3>1, <3>2, <3>4 DEF Backed
    <3>6. QED
      BY <1>0, <2>1, <3>5
  <2>3. CASE eng[x].cur = 1
    <3>1. /\ k = <<m, 1>> /\ r.tool = "finish" /\ r.status = "succeeded" /\ r.args # "b"
          /\ p[1].tool = "finish" /\ p[1].args # "b"
      BY <1>1, <1>2, <1>3, <1>9, <2>1, <2>3 DEF Claimed, Finished, Deferred
    <3>2. ~FinishBlocked(p[1])
      BY <1>0, <2>3, <3>1 DEF Conduct
    <3>3. \A j \in LatestEvidence : exec[j].status = "succeeded"
      BY <3>1, <3>2 DEF FinishBlocked
    <3>4. Evidence' = Evidence /\ \A j \in Evidence : exec'[j] = exec[j]
      <4>1. k \notin Evidence'
        BY <1>2, <3>1 DEF Evidence, Control
      <4>2. k \notin Evidence
        BY <3>1 DEF Evidence, Rows, Control, Same
      <4>3. QED
        BY <1>2, <4>1, <4>2 DEF Evidence, Rows
    <3>5. LatestEvidence' = LatestEvidence /\ LatestEvidence \subseteq Evidence
      BY <3>4 DEF LatestEvidence
    <3>6. QED
      BY <1>0, <2>1, <3>3, <3>4, <3>5 DEF Backed
  <2>4. QED
    BY <1>1, <2>2, <2>3
<1>10. QED
  BY <1>5, <1>7, <1>8, <1>9 DEF Tables, Claims

(* What a step of engine x has to show *)
Onward(x) ==
  /\ Tables'
  /\ eng'[x].pc # "idle" => run'.status = "running" /\ eng'[x].step = run'.step
  /\ \E y : y = eng'[x] /\ Conduct(y)'

(* An engine that has no answer, or has just got one *)
LEMMA EarlyOnward ==
  ASSUME EInv, NEW x \in Engine,
         Begin(x) \/ StartStep(x) \/ Answer(x) \/ Fail(x) \/ Crash(x)
  PROVE  Onward(x)
<1>0. TInv /\ Tables /\ eng \in [Engine -> Memory] /\ eng[x] \in Memory
  BY MemFacts DEF EInv, SInv, TInv, TypeOK
<1>1. exec' = exec /\ run' = run /\ steps' = steps /\ granted' = granted
  BY DEF Begin, StartStep, Answer, Fail, Crash, approvals
<1>2. Tables'
  BY <1>0, <1>1, TablesKept DEF Kept
<1>3. CASE Fail(x) \/ Crash(x)
  BY <1>0, <1>2, <1>3, IdleMem DEF Fail, Crash, Onward, Conduct, Busy
<1>4. CASE Begin(x)
  <2>1. eng'[x].pc = "step" /\ eng'[x].step = run.step /\ run.status = "running"
    BY <1>0, <1>4 DEF Begin, Idle
  <2>2. QED
    BY <1>1, <1>2, <2>1 DEF Onward, Conduct, Busy
<1>5. CASE StartStep(x) \/ (Answer(x) /\ ~Fail(x))
  <2>1. eng[x].pc # "idle"
    BY <1>5 DEF StartStep, Answer
  <2>2. eng'[x].pc \in {"llm", "plan"} /\ eng'[x].step = eng[x].step
    <3>1. CASE StartStep(x)
      BY <1>0, <3>1 DEF StartStep, Memory
    <3>2. CASE Answer(x) /\ ~Fail(x)
      <4>1. PICK p : eng' = [eng EXCEPT ![x].pc = "plan", ![x].plan = p, ![x].saved = FALSE]
        BY <3>2 DEF Answer
      <4>2. QED
        BY <1>0, <4>1 DEF Memory
    <3>3. QED
      BY <1>5, <3>1, <3>2
  <2>3. QED
    BY <1>1, <1>2, <2>1, <2>2, AtWork DEF Onward, Conduct, Busy
<1>6. QED
  BY <1>3, <1>4, <1>5

(* A step that leaves tables and run alone and stays with the call, or     *)
(* takes up the first one                                                  *)
LEMMA StayOnward ==
  ASSUME EInv, NEW x \in Engine, eng[x].pc # "idle",
         UNCHANGED <<run, exec, steps, granted>>, NEW y, y = eng'[x],
         y.step = eng[x].step, y.pc \in Busy,
         y.cur = 1 => Settled(y.step, y.plan),
         y.pc # "look" /\ y.cur = 1 /\ y.plan[1].tool = "finish" /\ y.ok => ~FinishBlocked(y.plan[1])
  PROVE  Onward(x)
<1>1. Tables' /\ run'.status = "running" /\ y.step = run'.step
  BY AtWork, TablesKept DEF Kept
<1>2. Conduct(y)'
  BY SameRows DEF Conduct, Busy
<1>3. QED
  BY <1>1, <1>2 DEF Onward

LEMMA FirstOnward ==
  ASSUME EInv, NEW x \in Engine, eng[x].pc = "plan", ~OverBudget(eng[x]), eng[x].plan # <<>>,
         eng' = [eng EXCEPT ![x].pc = "look", ![x].cur = FirstCall(eng[x].plan)],
         UNCHANGED <<run, steps, exec, granted>>
  PROVE  Onward(x)
<1>0. eng \in [Engine -> Memory] /\ eng[x] \in Memory /\ eng[x].plan \in Plan
  BY Fields, MemFacts DEF EInv, SInv, TInv, TypeOK
<1>1. PICK y : y = eng'[x]
  OBVIOUS
<1>2. /\ y.pc = "look" /\ y.step = eng[x].step /\ y.plan = eng[x].plan
      /\ y.cur = FirstCall(eng[x].plan)
  BY <1>0, <1>1 DEF Memory
<1>3. y.cur = 1 => Settled(y.step, y.plan)
  BY <1>2 DEF FirstCall, Settled
<1>4. QED
  BY <1>1, <1>2, <1>3, StayOnward DEF Busy

(* The engine is done with a call and has not touched its row. *)
LEMMA PassOnward ==
  ASSUME EInv, Kept, NEW x \in Engine, eng[x].pc \in Busy, UNCHANGED <<run, exec>>,
         NEW c \in Outcomes, Outcome(x, c, FALSE) \/ Outcome(x, c, TRUE),
         IsDeferred(x) => /\ c = "none"
                          /\ requires_approval(Tier(ToolOf(x)))
                               \/ (exec[KeyOf(x)] # NULL /\ ~Unfinished(exec[KeyOf(x)])),
         ~IsDeferred(x) => /\ Claimed(eng[x].step) => c = "completed"
                           /\ c = "completed" => Finished(eng[x].step)
  PROVE  Onward(x)
<1>0. TInv /\ Tables /\ eng \in [Engine -> Memory] /\ run.status = "running" /\ eng[x].step = run.step
  BY AtWork DEF Busy, EInv, SInv, TInv, TypeOK
<1>1. PICK y : Over(x, y, c)
  BY <1>0, OutcomeOver
<1>2. PICK m, k : m = eng[x].step /\ k = KeyOf(x)
  OBVIOUS
<1>3. (Claimed(m)' <=> Claimed(m)) /\ (Finished(m)' <=> Finished(m))
  BY SameRows
<1>4. y.pc # "idle" /\ y.step = m /\ Conduct(y)'
  BY <1>0, <1>1, <1>2, <1>3, OverConduct
<1>5. eng'[x] = y
  BY <1>0, <1>1 DEF Over
<1>6. QED
  BY <1>0, <1>2, <1>4, <1>5, TablesKept DEF Onward

(* Only finish claims success. *)
LEMMA OtherCall ==
  ASSUME TInv, NEW x \in Engine, eng[x].pc \in Busy, ~IsDeferred(x), ToolOf(x) # "finish"
  PROVE  ~Claimed(eng[x].step)
BY SelectedRow DEF Claimed, Finished, IsDeferred, Deferred, ToolOf, CallOf, Busy, Answered

LEMMA LookupOnward ==
  ASSUME EInv, Kept, NEW x \in Engine, Lookup(x)
  PROVE  Onward(x)
<1>0. /\ TInv /\ eng \in [Engine -> Memory] /\ eng[x] \in Memory /\ Conduct(eng[x])
      /\ eng[x].pc = "look" /\ eng[x].pc \in Busy
  BY AtWork DEF Lookup, Busy, EInv, SInv, TInv, TypeOK
<1>1. UNCHANGED <<run, steps, exec, granted>>
  BY DEF Lookup, approvals
<1>2. CASE Guarded(x) /\ Repeated(x)
  <2>1. PICK c \in {"none", "failed"} : Outcome(x, c, FALSE)
    BY <1>2 DEF Lookup
  <2>2. c \in Outcomes /\ c # "completed" /\ ~IsDeferred(x) /\ ToolOf(x) # "finish"
    BY <1>2, <2>1 DEF Outcomes, Guarded, Known
  <2>3. ~Claimed(eng[x].step)
    BY <1>0, <2>2, OtherCall
  <2>4. QED
    BY <1>0, <1>1, <2>1, <2>2, <2>3, PassOnward
<1>3. CASE ~(Guarded(x) /\ Repeated(x))
  <2>1. PICK y : y = eng'[x]
    OBVIOUS
  <2>2. /\ y.pc = "act" /\ y.step = eng[x].step /\ y.plan = eng[x].plan /\ y.cur = eng[x].cur
        /\ y.ok => ~(ToolOf(x) = "finish" /\ FinishBlocked(CallOf(x)))
    <3>1. PICK b : /\ b => ~(ToolOf(x) = "finish" /\ FinishBlocked(CallOf(x)))
                   /\ eng' = [eng EXCEPT ![x].pc = "act", ![x].seen = exec[KeyOf(x)], ![x].ok = b]
      BY <1>3, Zenon DEF Lookup
    <3>2. eng'[x] = [eng[x] EXCEPT !.pc = "act", !.seen = exec[KeyOf(x)], !.ok = b]
      BY <1>0, <3>1
    <3>3. QED
      BY <1>0, <2>1, <3>1, <3>2 DEF Memory
  <2>3. y.cur = 1 => Settled(y.step, y.plan)
    BY <1>0, <2>2 DEF Conduct
  <2>4. y.cur = 1 /\ y.plan[1].tool = "finish" /\ y.ok => ~FinishBlocked(y.plan[1])
    BY <2>2 DEF ToolOf, CallOf
  <2>5. QED
    BY <1>0, <1>1, <2>1, <2>2, <2>3, <2>4, StayOnward DEF Busy
<1>4. QED
  BY <1>2, <1>3

(* A row answers the call. *)
LEMMA ResolveOnward ==
  ASSUME EInv, Kept, NEW x \in Engine, ResolveExisting(x)
  PROVE  Onward(x)
<1>0. TInv /\ Current /\ eng[x].pc = "act" /\ eng[x].pc \in Busy
  BY AtWork DEF ResolveExisting, Found, HasTool, Busy
<1>1. UNCHANGED <<run, exec>>
  BY DEF ResolveExisting
<1>2. PICK row : row = exec[KeyOf(x)] /\ row = eng[x].seen
  BY <1>0 DEF Current
<1>3. row # NULL /\ ~Unfinished(row)
  BY <1>2 DEF ResolveExisting, Found
<1>4. PICK c \in Controls(x, row.status, FALSE, exec) : Outcome(x, c, FALSE)
  BY <1>2 DEF ResolveExisting
<1>5. ASSUME ~IsDeferred(x)
      PROVE  /\ Claimed(eng[x].step) => c = "completed"
             /\ c = "completed" => Finished(eng[x].step)
  <2>1. KeyOf(x) = <<eng[x].step, 1>>
    BY <1>5 DEF KeyOf, IsDeferred, Deferred
  <2>2. Claimed(eng[x].step) => ToolOf(x) = "finish" /\ row.status = "succeeded"
    BY <1>0, <1>2, <1>5, <2>1, OtherCall DEF Claimed, Finished
  <2>3. row.tool = ToolOf(x)
    BY <1>0, <1>2, <1>3, <1>5, <2>1, SelectedRow
       DEF Busy, Answered, ToolOf, CallOf, IsDeferred, Deferred
  <2>4. QED
    BY <1>2, <1>3, <1>4, <1>5, <2>1, <2>2, <2>3, ControlsFacts, ZenonT(40) DEF Finished
<1>6. QED
  BY <1>0, <1>1, <1>2, <1>3, <1>4, <1>5, ControlsFacts, PassOnward

LEMMA UnknownOnward ==
  ASSUME EInv, Kept, NEW x \in Engine, RecordUnknownTool(x), eng[x].seen # NULL
  PROVE  Onward(x)
<1>0. TInv /\ eng[x].pc \in Busy
  BY AtWork DEF RecordUnknownTool, Busy
<1>1. ~IsDeferred(x) /\ ToolOf(x) = "ghost"
  BY DEF RecordUnknownTool
<1>2. PICK c \in Controls(x, "failed", FALSE, exec) : Outcome(x, c, FALSE) /\ UNCHANGED <<run, exec>>
  BY DEF RecordUnknownTool
<1>3. c \in Outcomes /\ c # "completed" /\ ~Claimed(eng[x].step)
  BY <1>0, <1>1, <1>2, ControlsFacts, OtherCall
<1>4. QED
  BY <1>0, <1>1, <1>2, <1>3, PassOnward

LEMMA AskOnward ==
  ASSUME EInv, Kept, NEW x \in Engine, AskApproval(x)
  PROVE  Onward(x)
<1>0. TInv /\ eng[x].pc \in Busy
  BY AtWork DEF AskApproval, Fresh, HasTool, Busy
<1>1. UNCHANGED <<run, exec>> /\ requires_approval(Tier(ToolOf(x)))
  BY DEF AskApproval, NeedsApproval
<1>2. ToolOf(x) # "finish"
  BY <1>1 DEF Tier, requires_approval
<1>3. PICK c : /\ c = IF IsDeferred(x) THEN "none" ELSE "waiting_approval"
               /\ Outcome(x, c, FALSE) \/ Outcome(x, c, TRUE)
  BY DEF AskApproval
<1>4. c \in Outcomes /\ c # "completed" /\ (IsDeferred(x) => c = "none")
  BY <1>3 DEF Outcomes
<1>5. ~IsDeferred(x) => ~Claimed(eng[x].step)
  BY <1>0, <1>2, OtherCall
<1>6. QED
  BY <1>0, <1>1, <1>3, <1>4, <1>5, PassOnward

(* The handler is going to run, or has run: the evidence is as it was. *)
LEMMA HandlerOnward ==
  ASSUME EInv, NEW x \in Engine,
         \/ Approved(x)
         \/ RecoverStarted(x) /\ eng' = [eng EXCEPT ![x].pc = "invoke"] /\ UNCHANGED <<steps, exec>>
         \/ Invoke(x)
  PROVE  Onward(x)
<1>0. /\ TInv /\ eng \in [Engine -> Memory] /\ eng[x] \in Memory /\ Conduct(eng[x])
      /\ eng[x].pc \in {"act", "invoke"}
  BY AtWork DEF Approved, RecoverStarted, Invoke, Found, Fresh, HasTool, EInv, SInv, TInv, TypeOK
<1>1. UNCHANGED <<run, steps, exec, granted>>
  BY DEF Approved, RecoverStarted, Invoke, approvals
<1>2. PICK y : y = eng'[x]
  OBVIOUS
<1>3. /\ y.pc \in Busy \ {"look"} /\ y.step = eng[x].step /\ y.plan = eng[x].plan
      /\ y.cur = eng[x].cur /\ (y.ok = eng[x].ok \/ y.ok \in Verdicts(x))
  <2>1. CASE Invoke(x)
    <3>1. PICK v \in Verdicts(x) : eng' = [eng EXCEPT ![x].pc = "finalize", ![x].ok = v]
      BY <2>1 DEF Invoke
    <3>2. QED
      BY <1>0, <1>2, <3>1 DEF Memory, Busy
  <2>2. CASE ~Invoke(x)
    BY <1>0, <1>2, <2>2 DEF Approved, Memory, Busy
  <2>3. QED
    BY <2>1, <2>2
<1>4. y.cur = 1 => Settled(y.step, y.plan)
  BY <1>0, <1>3 DEF Conduct, Busy
<1>5. y.cur = 1 /\ y.plan[1].tool = "finish" /\ y.ok => ~FinishBlocked(y.plan[1])
  <2>1. SUFFICES ASSUME y.cur = 1, y.plan[1].tool = "finish", y.ok PROVE eng[x].ok
    BY <1>0, <1>3 DEF Conduct, Busy
  <2>2. ToolOf(x) = "finish"
    BY <1>3, <2>1 DEF ToolOf, CallOf
  <2>3. CASE y.ok \in Verdicts(x)
    BY <2>1, <2>2, <2>3 DEF Verdicts, Denying
  <2>4. QED
    BY <1>3, <2>1, <2>3
<1>6. QED
  BY <1>0, <1>1, <1>2, <1>3, <1>4, <1>5, StayOnward

(* The row that a step of x writes under the key of its call *)
Wrote(x, r, status) ==
  /\ r \in Row /\ r.status = status /\ exec' = [exec EXCEPT ![KeyOf(x)] = r]
  /\ exec[KeyOf(x)] = NULL \/ (Unfinished(exec[KeyOf(x)]) /\ Same(exec[KeyOf(x)], r))
  /\ steps'[eng[x].step] = eng[x].plan

LEMMA InsertWrote ==
  ASSUME TInv, NEW x \in Engine, eng[x].pc \in Busy, NEW status \in RowStatus, Insert(x, status)
  PROVE  \E r : Wrote(x, r, status)
<1>1. PICK k \in Key, r \in Row : k = KeyOf(x) /\ exec[k] = NULL /\ exec' = [exec EXCEPT ![k] = r]
  BY InsertEffect
<1>2. exec'[k] = r /\ exec'[k] = NewRow(x, status)
  BY <1>1, TablesNow DEF Insert
<1>3. r.status = status
  BY <1>2 DEF NewRow
<1>4. steps'[eng[x].step] = eng[x].plan
  BY CommitEffect DEF Insert, Busy, Answered
<1>5. QED
  BY <1>1, <1>3, <1>4 DEF Wrote

LEMMA RestateWrote ==
  ASSUME TInv, Current, NEW x \in Engine, NEW status \in RowStatus, Commit(x),
         eng[x].pc = "finalize" \/ (Found(x) /\ Unfinished(eng[x].seen)),
         exec' = [exec EXCEPT ![KeyOf(x)].status = status]
  PROVE  \E r : Wrote(x, r, status)
<1>0. eng[x].pc \in Busy /\ KeyOf(x) \in Key /\ eng[x].pc \in Answered
  BY BusyFacts DEF Found, HasTool, Busy, Answered
<1>1. exec[KeyOf(x)] # NULL /\ Unfinished(exec[KeyOf(x)])
  BY MemFacts DEF Current, Found, HasTool, Mem, KeyOf
<1>2. exec[KeyOf(x)] \in Row
  BY <1>0, <1>1, TablesNow
<1> DEFINE r == [exec[KeyOf(x)] EXCEPT !.status = status]
<1>3. r \in Row /\ Same(exec[KeyOf(x)], r) /\ r.status = status
  BY <1>2 DEF Row, Same
<1>4. exec' = [exec EXCEPT ![KeyOf(x)] = r]
  BY <1>0, TablesNow
<1>5. steps'[eng[x].step] = eng[x].plan
  BY <1>0, CommitEffect
<1> HIDE DEF r
<1>6. QED
  BY <1>1, <1>3, <1>4, <1>5 DEF Wrote

LEMMA WroteTables ==
  ASSUME EInv, TInv', Kept, NEW x \in Engine, eng[x].pc \in Busy, NEW r, NEW status,
         Wrote(x, r, status), run' = run,
         status = "succeeded" => eng[x].ok /\ eng[x].pc # "look"
  PROVE  /\ Tables' /\ KeyOf(x) \in Key /\ exec'[KeyOf(x)] = r /\ r # NULL /\ r \in Row
         /\ ~IsDeferred(x) => r.tool = ToolOf(x)
<1>0. TInv
  BY AtWork DEF Busy
<1>1. PICK k \in Key : k = KeyOf(x) /\ k[1] = eng[x].step /\ k[2] = eng[x].cur
  BY <1>0, BusyFacts
<1>2. Tables'
  BY <1>1, WriteTables DEF Wrote
<1>3. exec'[k] = r /\ r # NULL /\ r \in Row
  BY <1>0, <1>1, TablesNow, ToolAssumption DEF Wrote
<1>4. Fits(k, r)'
  BY <1>3 DEF TInv, Fit, Fits
<1>5. ~IsDeferred(x) => r.tool = ToolOf(x)
  BY <1>1, <1>4 DEF Fits, Wrote, IsDeferred, ToolOf, CallOf
<1>6. QED
  BY <1>1, <1>2, <1>3, <1>5

(* The call is done and its row says how. *)
LEMMA WroteOnward ==
  ASSUME EInv, TInv', Kept, NEW x \in Engine, eng[x].pc \in Busy, NEW r, NEW status, status # "started",
         Wrote(x, r, status), run' = run,
         status = "succeeded" => eng[x].ok /\ eng[x].pc # "look",
         NEW c \in Outcomes, Outcome(x, c, TRUE),
         IsDeferred(x) => c = "none",
         ~IsDeferred(x) => (c = "completed" <=> ToolOf(x) = "finish" /\ status = "succeeded")
  PROVE  Onward(x)
<1>0. /\ TInv /\ eng \in [Engine -> Memory] /\ run.status = "running" /\ eng[x].step = run.step
  BY AtWork DEF Busy, EInv, SInv, TInv, TypeOK
<1>1. /\ Tables' /\ exec'[KeyOf(x)] = r /\ r # NULL /\ r.status = status
      /\ ~IsDeferred(x) => r.tool = ToolOf(x)
  BY WroteTables DEF Wrote
<1>2. PICK y : Over(x, y, c)
  BY <1>0, OutcomeOver
<1>3. PICK m, k : m = eng[x].step /\ k = KeyOf(x) /\ exec'[k] = r
  BY <1>1
<1>4. ASSUME ~IsDeferred(x) PROVE (Claimed(m)' => c = "completed") /\ (c = "completed" => Finished(m)')
  <2>1. k = <<m, 1>>
    BY <1>3, <1>4 DEF KeyOf, IsDeferred, Deferred
  <2>2. exec'[<<m, 1>>] = r /\ r.tool = ToolOf(x)
    BY <1>1, <1>3, <1>4, <2>1
  <2>3. QED
    BY <1>1, <1>4, <2>2 DEF Claimed, Finished
<1>5. ~Unfinished(exec'[k]) /\ exec'[k] # NULL
  BY <1>1, <1>3 DEF Unfinished
<1>6. y.pc # "idle" /\ y.step = m /\ Conduct(y)'
  BY <1>0, <1>2, <1>3, <1>4, <1>5, OverConduct
<1>7. eng'[x] = y
  BY <1>0, <1>2 DEF Over
<1>8. QED
  BY <1>0, <1>1, <1>3, <1>6, <1>7 DEF Onward

LEMMA RecordOnward ==
  ASSUME EInv, TInv', Kept, NEW x \in Engine, ~Fail(x),
         \/ RecordUnknownTool(x) /\ eng[x].seen = NULL
         \/ RecordInvalidArguments(x)
         \/ Denied(x)
  PROVE  Onward(x)
<1>0. TInv /\ eng[x].pc \in Busy /\ run' = run
  BY AtWork DEF RecordUnknownTool, RecordInvalidArguments, Denied, Fresh, HasTool, Busy
<1>1. PICK status \in {"failed", "invalid"} :
        Insert(x, status) /\ \E c \in Controls(x, status, TRUE, exec') : Outcome(x, c, TRUE)
  BY DEF RecordUnknownTool, RecordInvalidArguments, Denied
<1>2. PICK c \in Controls(x, status, TRUE, exec') : Outcome(x, c, TRUE)
  BY <1>1
<1>3. PICK r : Wrote(x, r, status)
  BY <1>0, <1>1, InsertWrote DEF RowStatus
<1>4. c \in Outcomes /\ c # "completed" /\ (IsDeferred(x) => c = "none")
  BY <1>1, <1>2, ControlsFacts
<1>5. QED
  BY <1>0, <1>1, <1>2, <1>3, <1>4, WroteOnward

LEMMA RecoverOnward ==
  ASSUME EInv, TInv', Kept, NEW x \in Engine, RecoverStarted(x)
  PROVE  Onward(x)
<1>0. TInv /\ Current /\ eng[x].pc \in Busy /\ run' = run
  BY AtWork DEF RecoverStarted, Found, HasTool, Busy
<1>1. CASE eng' = [eng EXCEPT ![x].pc = "invoke"] /\ UNCHANGED <<steps, exec>>
  BY <1>1, HandlerOnward
<1>2. CASE /\ Commit(x) /\ exec' = [exec EXCEPT ![KeyOf(x)].status = "unknown"]
           /\ \E c \in IF requires_approval(eng[x].seen.tier) /\ ~IsDeferred(x) THEN {"failed"}
                       ELSE Controls(x, "unknown", FALSE, exec') : Outcome(x, c, TRUE)
  <2>1. PICK c : /\ (c = "failed" /\ ~IsDeferred(x)) \/ c \in Controls(x, "unknown", FALSE, exec')
                 /\ Outcome(x, c, TRUE)
    BY <1>2
  <2>2. c \in Outcomes /\ c # "completed" /\ (IsDeferred(x) => c = "none")
    BY <2>1, ControlsFacts, ZenonT(40) DEF Outcomes
  <2>3. PICK r : Wrote(x, r, "unknown")
    BY <1>0, <1>2, RestateWrote DEF RecoverStarted, RowStatus
  <2>4. PICK status : status \notin {"started", "succeeded"} /\ Wrote(x, r, status)
    BY <2>3
  <2>5. QED
    BY <1>0, <2>1, <2>2, <2>4, WroteOnward
<1>3. \/ eng' = [eng EXCEPT ![x].pc = "invoke"] /\ UNCHANGED <<steps, exec>>
      \/ /\ Commit(x) /\ exec' = [exec EXCEPT ![KeyOf(x)].status = "unknown"]
         /\ \E c \in IF requires_approval(eng[x].seen.tier) /\ ~IsDeferred(x) THEN {"failed"}
                     ELSE Controls(x, "unknown", FALSE, exec') : Outcome(x, c, TRUE)
  BY DEF RecoverStarted
<1>4. QED
  BY <1>1, <1>2, <1>3

LEMMA FinalizeOnward ==
  ASSUME EInv, TInv', Kept, NEW x \in Engine, Finalize(x)
  PROVE  Onward(x)
<1>0. /\ TInv /\ Current /\ eng[x].pc = "finalize" /\ eng[x].pc \in Busy /\ run' = run
  BY AtWork DEF Finalize, Busy
<1>1. PICK status \in {"succeeded", "failed"} :
        /\ status = "succeeded" => eng[x].ok
        /\ Commit(x) /\ exec' = [exec EXCEPT ![KeyOf(x)].status = status]
        /\ \E c \in Controls(x, status, TRUE, exec') : Outcome(x, c, TRUE)
  BY DEF Finalize
<1>2. PICK c \in Controls(x, status, TRUE, exec') : Outcome(x, c, TRUE)
  BY <1>1
<1>3. PICK r : Wrote(x, r, status)
  BY <1>0, <1>1, RestateWrote DEF RowStatus
<1>4. /\ c \in Outcomes /\ (IsDeferred(x) => c = "none")
      /\ ~IsDeferred(x) => (c = "completed" <=> ToolOf(x) = "finish" /\ status = "succeeded")
  <2>1. PICK fresh, rows : c \in Controls(x, status, fresh, rows)
    BY <1>2
  <2>2. /\ c \in Outcomes /\ (IsDeferred(x) => c = "none")
        /\ c = "completed" => ToolOf(x) = "finish" /\ status = "succeeded"
        /\ ~IsDeferred(x) /\ ToolOf(x) = "finish" /\ status = "succeeded" => c = "completed"
    BY <2>1, ControlsFacts
  <2>3. QED
    BY <2>2
<1>5. QED
  BY <1>0, <1>1, <1>2, <1>3, <1>4, WroteOnward

(* The write-ahead row of finish is no evidence. *)
LEMMA WriteAheadOnward ==
  ASSUME EInv, TInv', Kept, NEW x \in Engine, WriteAhead(x), ~Fail(x)
  PROVE  Onward(x)
<1>0. /\ TInv /\ eng \in [Engine -> Memory] /\ eng[x] \in Memory /\ Conduct(eng[x])
      /\ eng[x].pc \in {"act", "write"} /\ eng[x].pc \in Busy /\ run' = run
      /\ run.status = "running" /\ eng[x].step = run.step
  BY AtWork DEF WriteAhead, Fresh, HasTool, Busy, EInv, SInv, TInv, TypeOK
<1>1. Insert(x, "started") /\ eng' = [eng EXCEPT ![x].pc = "invoke", ![x].saved = TRUE]
  BY DEF WriteAhead
<1>2. PICK r : Wrote(x, r, "started")
  BY <1>0, <1>1, InsertWrote DEF RowStatus
<1>3. /\ Tables' /\ KeyOf(x) \in Key /\ exec'[KeyOf(x)] = r /\ r # NULL
      /\ ~IsDeferred(x) => r.tool = ToolOf(x)
  BY <1>0, <1>2, WroteTables
<1>4. PICK y : y = eng'[x]
  OBVIOUS
<1>5. /\ y.pc = "invoke" /\ y.step = eng[x].step /\ y.plan = eng[x].plan /\ y.cur = eng[x].cur
      /\ y.ok = eng[x].ok
  BY <1>0, <1>1, <1>4 DEF Memory
<1>6. exec[KeyOf(x)] = NULL /\ \A j \in Key : j # KeyOf(x) => exec'[j] = exec[j]
  BY <1>0, <1>1, <1>3, TablesNow DEF Insert, Taken
<1>7. ASSUME y.cur = 1 PROVE Settled(y.step, y.plan)'
  <2>1. Settled(y.step, y.plan)
    BY <1>0, <1>5, <1>7 DEF Conduct
  <2>2. <<y.step, 2>> \in Key /\ <<y.step, 2>> # KeyOf(x)
    <3>1. eng[x].step \in Step /\ KeyOf(x) = <<eng[x].step, 1>>
      BY <1>0, <1>5, <1>7, MemFacts DEF Mem, Busy, Answered, KeyOf
    <3>2. QED
      BY <1>5, <3>1 DEF Key
  <2>3. exec'[<<y.step, 2>>] = exec[<<y.step, 2>>]
    BY <1>6, <2>2
  <2>4. QED
    BY <2>1, <2>3 DEF Settled
<1>8. ASSUME y.cur = 1, y.plan[1].tool = "finish", y.ok PROVE ~FinishBlocked(y.plan[1])'
  <2>1. ~FinishBlocked(y.plan[1])
    BY <1>0, <1>5, <1>8 DEF Conduct, Busy
  <2>2. r.tool = "finish"
    BY <1>3, <1>5, <1>8 DEF IsDeferred, Deferred, ToolOf, CallOf
  <2>3. KeyOf(x) \notin Evidence /\ KeyOf(x) \notin Evidence'
    BY <1>3, <1>6, <2>2 DEF Evidence, Rows, Control
  <2>4. Evidence' = Evidence /\ \A j \in Evidence : exec'[j] = exec[j]
    BY <1>6, <2>3 DEF Evidence, Rows
  <2>5. LatestEvidence' = LatestEvidence /\ LatestEvidence \subseteq Evidence
    BY <2>4 DEF LatestEvidence
  <2>6. QED
    BY <2>1, <2>4, <2>5 DEF FinishBlocked
<1>9. Conduct(y)'
  BY <1>5, <1>7, <1>8 DEF Conduct
<1>10. QED
  BY <1>0, <1>3, <1>4, <1>5, <1>9 DEF Onward

(* A checkpoint leaves a step that claims success only to end the run. *)
LEMMA CheckpointOnward ==
  ASSUME EInv, Kept, NEW x \in Engine, eng[x].pc # "idle", NEW status, NEW step, NEW calls,
         Checkpoint(x, status, step, calls),
         step = eng[x].step \/ step = eng[x].step + 1,
         Claimed(eng[x].step) => step = eng[x].step \/ status \in {"completed", "failed", "timed_out"},
         status = "completed" => step = eng[x].step + 1 /\ Finished(eng[x].step)
  PROVE  Onward(x)
<1>0. /\ TInv /\ Tables /\ run.status = "running" /\ eng[x].step = run.step /\ ~Ended
      /\ eng \in [Engine -> Memory] /\ run.step \in Nat
  BY AtWork, RunFacts, ToolAssumption DEF EInv, SInv, TInv, TypeOK, RunRow
<1>1. CASE Fail(x)
  BY <1>1, EarlyOnward
<1>2. CASE ~Fail(x)
  <2>1. /\ exec' = exec /\ run'.status = status /\ run'.step = step
        /\ eng' = [eng EXCEPT ![x] = IF status # "running" THEN Idle
                                     ELSE [Idle EXCEPT !.pc = "step", !.version = run.version + 1,
                                                       !.step = step, !.calls = calls]]
    BY <1>2 DEF Checkpoint
  <2>2. PICK m \in Nat : m = run.step /\ (step = m \/ step = m + 1)
    BY <1>0
  <2>3. Behind'
    <3>1. ASSUME NEW k \in Key, exec'[k] # NULL PROVE k[1] <= step
      <4>1. k[1] <= m /\ k[1] \in Nat
        BY <1>0, <2>1, <2>2, <3>1, KeyFacts DEF Tables, Behind, Step
      <4>2. QED
        BY <2>2, <4>1
    <3>2. QED
      BY <2>1, <3>1 DEF Behind
  <2>4. Deferrals'
    BY <1>0, <2>1, DeferralsKept DEF Tables
  <2>5. ASSUME NEW n \in Step, Claimed(n)'
        PROVE  (n = run'.step \/ (Ended' /\ n + 1 = run'.step)) /\ Backed(n)'
    <3>1. Claimed(n) /\ (Backed(n)' <=> Backed(n))
      BY <2>1, <2>5, SameRows
    <3>2. n = m /\ Backed(n)
      BY <1>0, <2>2, <3>1 DEF Tables, Claims
    <3>3. step = m \/ (step = m + 1 /\ status \in {"completed", "failed", "timed_out"})
      BY <1>0, <2>2, <3>1, <3>2
    <3>4. QED
      BY <2>1, <3>1, <3>2, <3>3 DEF Ended
  <2>6. Completions'
    <3>1. ASSUME status = "completed" PROVE run'.step # 0 /\ run'.step - 1 = m /\ Finished(m)'
      BY <1>0, <2>1, <2>2, <3>1, SameRows
    <3>2. ASSUME run'.status = "completed" PROVE (run.step # 0 /\ Finished(run.step - 1))'
      BY <2>1, <3>1, <3>2 DEF Finished
    <3>3. QED
      BY <3>2 DEF Completions
  <2>7. Tables'
    BY <2>3, <2>4, <2>5, <2>6 DEF Tables, Claims
  <2>8. PICK y : /\ y = eng'[x] /\ y.pc \in {"idle", "step"}
                 /\ y.pc = "step" => status = "running" /\ y.step = step
    <3>1. CASE status # "running"
      BY <1>0, <2>1, <3>1, IdleMem
    <3>2. CASE status = "running"
      <4>1. eng'[x] = [Idle EXCEPT !.pc = "step", !.version = run.version + 1, !.step = step,
                                   !.calls = calls]
        BY <1>0, <2>1, <3>2
      <4>2. eng'[x].pc = "step" /\ eng'[x].step = step
        BY <4>1 DEF Idle
      <4>3. QED
        BY <3>2, <4>2
    <3>3. QED
      BY <3>1, <3>2
  <2>9. Conduct(y)'
    BY <2>8 DEF Conduct, Busy
  <2>10. QED
    BY <2>1, <2>7, <2>8, <2>9 DEF Onward
<1>3. QED
  BY <1>1, <1>2

LEMMA LimitOnward ==
  ASSUME EInv, Kept, NEW x \in Engine, StepLimit(x) \/ LlmFails(x)
  PROVE  Onward(x)
<1>1. PICK status, calls : /\ status \in {"timed_out", "failed"} /\ eng[x].pc # "idle"
                           /\ Checkpoint(x, status, eng[x].step, calls)
  BY DEF StepLimit, LlmFails
<1>2. status # "completed"
  BY <1>1
<1>3. QED
  BY <1>1, <1>2, CheckpointOnward

LEMMA AdmitOnward ==
  ASSUME EInv, Kept, NEW x \in Engine, Admit(x)
  PROVE  Onward(x)
<1>0. TInv /\ eng[x].pc = "plan" /\ eng[x].pc \in Answered /\ eng[x].pc # "idle"
  BY AtWork DEF Admit, Answered
<1>1. CASE eng[x].plan = <<>> /\ Checkpoint(x, "waiting_user_input", eng[x].step + 1, eng[x].calls)
  <2>1. ~Claimed(eng[x].step)
    BY <1>0, <1>1, SelectedRow DEF Claimed, Finished
  <2>2. PICK status : status # "completed" /\ Checkpoint(x, status, eng[x].step + 1, eng[x].calls)
    BY <1>1
  <2>3. QED
    BY <1>0, <2>1, <2>2, CheckpointOnward
<1>2. CASE Checkpoint(x, "timed_out", eng[x].step + 1, eng[x].calls)
  <2>1. PICK status : /\ status = "timed_out" /\ status # "completed"
                      /\ Checkpoint(x, status, eng[x].step + 1, eng[x].calls)
    BY <1>2
  <2>2. QED
    BY <1>0, <2>1, CheckpointOnward
<1>3. CASE /\ eng[x].plan # <<>> /\ ~OverBudget(eng[x])
           /\ eng' = [eng EXCEPT ![x].pc = "look", ![x].cur = FirstCall(eng[x].plan)]
           /\ UNCHANGED <<run, steps, exec, effect, approvals, bounds>>
  BY <1>0, <1>3, FirstOnward DEF approvals
<1>4. \/ eng[x].plan = <<>> /\ Checkpoint(x, "waiting_user_input", eng[x].step + 1, eng[x].calls)
      \/ Checkpoint(x, "timed_out", eng[x].step + 1, eng[x].calls)
      \/ /\ eng[x].plan # <<>> /\ ~OverBudget(eng[x])
         /\ eng' = [eng EXCEPT ![x].pc = "look", ![x].cur = FirstCall(eng[x].plan)]
         /\ UNCHANGED <<run, steps, exec, effect, approvals, bounds>>
  BY DEF Admit
<1>5. QED
  BY <1>1, <1>2, <1>3, <1>4

LEMMA CloseOnward ==
  ASSUME EInv, Kept, NEW x \in Engine, Close(x)
  PROVE  Onward(x)
<1>0. eng[x].pc = "close" /\ eng[x].pc # "idle" /\ Conduct(eng[x])
  BY AtWork DEF Close
<1>1. PICK c : c = eng[x].control
  OBVIOUS
<1>2. (Claimed(eng[x].step) => c = "completed") /\ (c = "completed" => Finished(eng[x].step))
  BY <1>0, <1>1 DEF Conduct
<1>3. PICK status, step, calls :
        /\ Checkpoint(x, status, step, calls)
        /\ \/ c = "waiting_approval" /\ status = c /\ step = eng[x].step
           \/ step = eng[x].step + 1 /\ status = IF c = "none" THEN "running" ELSE c
  BY <1>1 DEF Close
<1>4. /\ step = eng[x].step \/ step = eng[x].step + 1
      /\ status = "completed" <=> c = "completed"
      /\ status = "completed" => step = eng[x].step + 1
  BY <1>3
<1>5. QED
  BY <1>0, <1>2, <1>3, <1>4, CheckpointOnward

(* One step of the engine at work *)
LEMMA EngineOnward ==
  ASSUME EInv, TInv', Kept, NEW x \in Engine, EngineStep(x) \/ Crash(x)
  PROVE  Onward(x)
<1>1. CASE Fail(x) \/ Begin(x) \/ StartStep(x) \/ Answer(x) \/ Crash(x)
  BY <1>1, EarlyOnward
<1>2. CASE StepLimit(x) \/ LlmFails(x)
  BY <1>2, LimitOnward
<1>3. CASE Admit(x)
  BY <1>3, AdmitOnward
<1>4. CASE Close(x)
  BY <1>4, CloseOnward
<1>5. CASE Lookup(x)
  BY <1>5, LookupOnward
<1>6. CASE ResolveExisting(x)
  BY <1>6, ResolveOnward
<1>7. CASE AskApproval(x)
  BY <1>7, AskOnward
<1>8. CASE Approved(x) \/ Invoke(x)
  BY <1>8, HandlerOnward
<1>9. CASE RecoverStarted(x)
  BY <1>9, RecoverOnward
<1>10. CASE Finalize(x)
  BY <1>10, FinalizeOnward
<1>11. CASE WriteAhead(x) /\ ~Fail(x)
  BY <1>11, WriteAheadOnward
<1>12. CASE (RecordInvalidArguments(x) \/ Denied(x)) /\ ~Fail(x)
  BY <1>12, RecordOnward
<1>13. CASE RecordUnknownTool(x) /\ ~Fail(x)
  BY <1>13, RecordOnward, UnknownOnward
<1>14. QED
  BY <1>1, <1>2, <1>3, <1>4, <1>5, <1>6, <1>7, <1>8, <1>9, <1>10, <1>11, <1>12, <1>13
     DEF EngineStep

(* A decision, an expiry or a message turns a parked run only. *)
LEMMA DecidedOnward ==
  ASSUME EInv, Kept, PostMessage \/ ApprovalStep
  PROVE  Driver' /\ Tables' /\ Conducts'
<1>0. TInv /\ Tables /\ Driver /\ Conducts /\ run \in RunRow
  BY RunFacts DEF EInv, SInv
<1>1. exec' = exec /\ steps' = steps /\ eng' = eng
  BY <1>0, ApprovalEffect DEF Decided
<1>2. \/ run' = run
      \/ /\ run.status \in {"waiting_user_input", "waiting_approval"}
         /\ run'.status \in {"running", "timed_out"} /\ run'.step = run.step
  <2>1. ASSUME NEW s, SetStatus(s) PROVE run'.status = s /\ run'.step = run.step
    BY <1>0, <2>1 DEF SetStatus, RunRow
  <2>2. QED
    BY <2>1 DEF PostMessage, ApprovalStep, DecideRead, DecideCommit, ExpireRead, ExpireApproval,
       ExpireRun, ReaperCrash
<1>3. Conducts'
  <2>1. ASSUME NEW b \in Engine PROVE Conduct(eng[b])'
    <3>1. PICK y : y = eng[b] /\ y = eng'[b]
      BY <1>1
    <3>2. Conduct(y)
      BY <1>0, <3>1 DEF Conducts
    <3>3. Conduct(y)'
      BY <1>1, <3>2, SameRows DEF Conduct
    <3>4. QED
      BY <3>1, <3>3 DEF Conduct
  <2>2. QED
    BY <2>1 DEF Conducts
<1>4. CASE run' = run
  BY <1>0, <1>1, <1>3, <1>4, TablesKept DEF Driver
<1>5. CASE /\ run.status \in {"waiting_user_input", "waiting_approval"}
           /\ run'.status \in {"running", "timed_out"} /\ run'.step = run.step
  <2>1. Driver' /\ Behind' /\ Completions'
    BY <1>0, <1>1, <1>5 DEF Driver, Tables, Behind, Completions
  <2>2. Deferrals'
    BY <1>0, <1>1, DeferralsKept DEF Tables
  <2>3. Claims'
    BY <1>0, <1>1, <1>5, SameRows DEF Tables, Claims, Ended
  <2>4. QED
    BY <1>3, <2>1, <2>2, <2>3 DEF Tables
<1>6. QED
  BY <1>2, <1>4, <1>5

LEMMA EvidenceStep ==
  ASSUME MaxZombies = 0, EInv, [Next]_vars
  PROVE  EInv'
<1>0. SInv /\ TInv
  BY DEF EInv, SInv
<1>1. SInv' /\ TInv'
  BY <1>0, SoleStep DEF SInv
<1>2. ASSUME NEW x \in Engine, EngineStep(x) \/ Crash(x) PROVE Driver' /\ Tables' /\ Conducts'
  <2>1. Kept
    BY <1>0, <1>2, KeptStep DEF Next
  <2>2. Onward(x)
    BY <1>1, <1>2, <2>1, EngineOnward
  <2>3. PICK y \in Memory : eng' = [eng EXCEPT ![x] = y]
    BY <1>0, <1>2, EngineCases, CurrentMem
  <2>4. eng'[x] = y
    BY <1>0, <2>3 DEF TInv, TypeOK
  <2>5. (y.pc # "idle" => run'.status = "running" /\ y.step = run'.step) /\ Conduct(y)'
    <3>1. PICK z : z = eng'[x] /\ Conduct(z)'
      BY <2>2 DEF Onward
    <3>2. z = y
      BY <2>4, <3>1
    <3>3. QED
      BY <2>2, <2>4, <3>1, <3>2 DEF Onward
  <2>6. Driver' /\ Conducts'
    BY <1>0, <1>2, <2>3, <2>5, Alone, EnginesKept
  <2>7. QED
    BY <2>2, <2>6 DEF Onward
<1>3. ASSUME PostMessage \/ ApprovalStep PROVE Driver' /\ Tables' /\ Conducts'
  BY <1>0, <1>3, KeptStep, DecidedOnward DEF Next
<1>4. ASSUME UNCHANGED vars PROVE Driver' /\ Tables' /\ Conducts'
  <2>1. run' = run /\ exec' = exec /\ steps' = steps /\ eng' = eng /\ granted' = granted
    BY <1>4 DEF vars
  <2>2. Tables'
    BY <1>0, <2>1, TablesKept DEF EInv, Kept
  <2>3. Driver'
    BY <2>1 DEF EInv, Driver
  <2>4. Conducts'
    <3>1. ASSUME NEW b \in Engine PROVE Conduct(eng[b])'
      <4>1. PICK y : y = eng[b] /\ y = eng'[b]
        BY <2>1
      <4>2. Conduct(y)
        BY <4>1 DEF EInv, Conducts
      <4>3. Conduct(y)'
        BY <2>1, <4>2, SameRows DEF Conduct
      <4>4. QED
        BY <4>1, <4>3 DEF Conduct
    <3>2. QED
      BY <3>1 DEF Conducts
  <2>5. QED
    BY <2>2, <2>3, <2>4
<1>5. QED
  BY <1>1, <1>2, <1>3, <1>4 DEF EInv, Next

LEMMA EvidenceInit == Init => EInv
<1> SUFFICES ASSUME Init PROVE EInv
  OBVIOUS
<1>1. /\ \A x \in Engine : eng[x] = Idle
      /\ \A k \in Key : exec[k] = NULL
      /\ run.status = "running"
  BY DEF Init
<1>2. SInv
  BY <1>1, TypeInit, IdleMem DEF SInv, Sole, Current, Init
<1>3. Driver
  BY <1>1, IdleMem DEF Driver
<1>4. Conducts
  BY <1>1, IdleMem DEF Conducts, Conduct, Busy
<1>5. \A n \in Step : <<n, 1>> \in Key
  BY DEF Key
<1>6. Tables
  BY <1>1, <1>5 DEF Tables, Behind, Deferrals, Claims, Claimed, Finished, Completions
<1>7. QED
  BY <1>2, <1>3, <1>4, <1>6 DEF EInv

(* A run that completed with a success claim ends on evidence as long as   *)
(* no lease lapses while its holder still works: whatever crashes between  *)
(* the check of _finish_evidence_error and the checkpoint, and whatever is *)
(* replayed, its latest real call succeeded, or is a dangerous call that   *)
(* was deferred with finish and denied later.                              *)
THEOREM CompletionBacked == ASSUME MaxZombies = 0 PROVE Spec => []CompletedOnEvidence
<1>1. Init => EInv
  BY EvidenceInit
<1>2. EInv /\ [Next]_vars => EInv'
  BY EvidenceStep
<1>3. EInv => CompletedOnEvidence
  <2> SUFFICES ASSUME EInv, run.status = "completed", steps[run.step - 1][1].args # "b",
                      NEW k \in LatestEvidence
               PROVE  exec[k].status = "succeeded" \/ LateDenial(k)
    BY DEF CompletedOnEvidence
  <2>1. TInv /\ Tables /\ run \in RunRow
    BY RunFacts DEF EInv, SInv
  <2>2. PICK n : n = run.step - 1 /\ n \in Step /\ Finished(n)
    <3>1. run.step \in 0 .. MaxSteps /\ run.step # 0
      BY <2>1 DEF RunRow, Tables, Completions
    <3>2. run.step - 1 \in Step
      BY <3>1, ToolAssumption DEF Step
    <3>3. QED
      BY <2>1, <3>2 DEF Tables, Completions
  <2>3. PICK j \in Key : j = <<n, 1>> /\ j[1] = n /\ j[2] = 1
    <3>1. n \in Step
      BY <2>2
    <3>2. <<n, 1>> \in Key
      BY <3>1 DEF Key
    <3>3. QED
      BY <3>2
  <2>4. exec[<<n, 1>>].args = "b" <=> steps[n][1].args = "b"
    <3>1. Fits(j, exec[j]) /\ steps[n] \in Plan
      BY <2>1, <2>2, <2>3, TablesNow DEF Finished, TInv, Fit, Fits
    <3>2. steps[n][1] \in Call
      BY <2>3, <3>1, PlanFacts DEF Fits
    <3>3. QED
      BY <2>3, <3>1, <3>2, StoredFacts DEF Fits
  <2>5. Backed(n)
    BY <2>1, <2>2, <2>4 DEF Claimed, Tables, Claims
  <2>6. QED
    BY <2>2, <2>5 DEF Backed, LateDenial
<1>4. QED
  BY <1>1, <1>2, <1>3, PTL DEF Spec
-----------------------------------------------------------------------------
(* The calls a run is charged for.  Requested is defined by recursion over *)
(* the steps: there is such a function, and it only depends on the steps   *)
(* below its argument.                                                     *)
LEMMA Least ==
  ASSUME NEW S, S \subseteq Nat, S # {}
  PROVE  \E m \in S : \A n \in S : m <= n
<1>1. \E m \in S : \A n \in S : ~(<<n, m>> \in OpToRel(<, Nat))
  BY WFMin, NatLessThanWellFounded
<1>2. \A n, m \in Nat : n < m => <<n, m>> \in OpToRel(<, Nat)
  BY Zenon DEF OpToRel
<1>3. \E m \in S : \A n \in S : ~(n < m)
  BY <1>1, <1>2, Zenon
<1>4. QED
  BY <1>3

Totals(f, n, s) ==
  f = [i \in 0 .. n |-> IF i = 0 THEN 0 ELSE f[i - 1] + Len(s[i - 1])]

LEMMA TotalsExist ==
  ASSUME NEW s, NEW n \in Nat
  PROVE  \E f : Totals(f, n, s)
<1> DEFINE S == {m \in Nat : ~\E f : Totals(f, m, s)}
<1>1. SUFFICES ASSUME S # {} PROVE FALSE
  OBVIOUS
<1>2. PICK m \in S : \A i \in S : m <= i
  <2>1. S \subseteq Nat
    OBVIOUS
  <2> HIDE DEF S
  <2>2. QED
    BY <1>1, <2>1, Least
<1>3. m \in Nat /\ ~\E f : Totals(f, m, s)
  OBVIOUS
<1>4. CASE m = 0
  <2>1. PICK f : f = [i \in 0 .. 0 |-> 0]
    OBVIOUS
  <2>2. Totals(f, 0, s)
    BY <2>1 DEF Totals
  <2>3. QED
    BY <1>3, <1>4, <2>2
<1>5. CASE m # 0
  <2>1. PICK k \in Nat : m = k + 1
    BY <1>3, <1>5
  <2>2. k \notin S
    BY <1>2, <2>1
  <2>3. PICK f : Totals(f, k, s)
    BY <2>1, <2>2
  <2>4. PICK g : g = [i \in 0 .. m |-> IF i = m THEN f[k] + Len(s[k]) ELSE f[i]]
    OBVIOUS
  <2>5. ASSUME NEW i \in 0 .. m
        PROVE  g[i] = IF i = 0 THEN 0 ELSE g[i - 1] + Len(s[i - 1])
    <3>1. CASE i = m
      <4>1. i # 0 /\ i - 1 = k /\ i - 1 \in 0 .. m /\ i - 1 # m
        BY <2>1, <3>1
      <4>2. g[i] = f[k] + Len(s[k]) /\ g[k] = f[k]
        BY <2>4, <3>1, <4>1
      <4>3. QED
        BY <4>1, <4>2
    <3>2. CASE i # m
      <4>1. i \in 0 .. k /\ g[i] = f[i]
        BY <2>1, <2>4, <3>2
      <4>2. i # 0 => i - 1 \in 0 .. m /\ i - 1 # m
        BY <2>1, <4>1
      <4>3. i # 0 => g[i - 1] = f[i - 1]
        BY <2>4, <4>2
      <4>4. f[i] = IF i = 0 THEN 0 ELSE f[i - 1] + Len(s[i - 1])
        BY <2>3, <4>1 DEF Totals
      <4>5. QED
        BY <4>1, <4>3, <4>4
    <3>3. QED
      BY <3>1, <3>2
  <2>6. Totals(g, m, s)
    BY <2>4, <2>5 DEF Totals
  <2>7. QED
    BY <1>3, <2>6
<1>6. QED
  BY <1>4, <1>5

LEMMA TotalsAgree ==
  ASSUME NEW s, NEW t, NEW N \in Nat, NEW f, NEW g, Totals(f, N, s), Totals(g, N, t),
         NEW m \in 0 .. N, \A i \in 0 .. N : i < m => s[i] = t[i]
  PROVE  f[m] = g[m]
<1> DEFINE S == {i \in 0 .. m : f[i] # g[i]}
<1>1. SUFFICES ASSUME S # {} PROVE FALSE
  OBVIOUS
<1>2. PICK i \in S : \A j \in S : i <= j
  <2>1. S \subseteq Nat
    OBVIOUS
  <2> HIDE DEF S
  <2>2. QED
    BY <1>1, <2>1, Least
<1>3. i \in 0 .. N /\ i \in 0 .. m /\ f[i] # g[i]
  OBVIOUS
<1>4. /\ f[i] = IF i = 0 THEN 0 ELSE f[i - 1] + Len(s[i - 1])
      /\ g[i] = IF i = 0 THEN 0 ELSE g[i - 1] + Len(t[i - 1])
  BY <1>3 DEF Totals
<1>5. i # 0
  BY <1>3, <1>4
<1>6. i - 1 \in 0 .. N /\ i - 1 \in 0 .. m /\ i - 1 < m /\ ~(i <= i - 1)
  BY <1>3, <1>5
<1>7. f[i - 1] = g[i - 1]
  BY <1>2, <1>6
<1>8. QED
  BY <1>3, <1>4, <1>5, <1>6, <1>7

LEMMA RequestedIs == Totals(Requested, MaxSteps, steps)
<1>1. PICK f : Totals(f, MaxSteps, steps)
  BY TotalsExist, ToolAssumption
<1>2. QED
  BY <1>1 DEF Requested, Totals

LEMMA RequestedNext == Totals(Requested', MaxSteps, steps')
<1>1. PICK f : Totals(f, MaxSteps, steps')
  BY TotalsExist, ToolAssumption
<1>2. QED
  BY <1>1 DEF Requested, Totals

(* An engine whose version is the run's has read the run as it is, so only *)
(* a checkpoint by such an engine moves the run on.                        *)
Versioned == \A x \in Engine : eng[x].pc # "idle" =>
  /\ eng[x].version <= run.version
  /\ eng[x].version = run.version =>
       run.status = "running" /\ eng[x].step = run.step /\ eng[x].calls = run.calls

Filled == \A n \in Step : n < run.step => steps[n] # NULL

BInv == TInv /\ Versioned /\ Filled /\ BudgetIsExact

(* What a step of engine x is to the run: nothing, a look at it, or a      *)
(* checkpoint that stays on the step or leaves it.                         *)
Stays(x) ==
  /\ run' = run
  /\ eng'[x].pc # "idle" =>
       /\ eng[x].pc # "idle" /\ eng'[x].version = eng[x].version
       /\ eng'[x].step = eng[x].step /\ eng'[x].calls = eng[x].calls

Loads(x) ==
  /\ run' = run /\ run.status = "running" /\ eng'[x].version = run.version
  /\ eng'[x].step = run.step /\ eng'[x].calls = run.calls

Saves(x) ==
  /\ eng[x].pc # "idle" /\ run.version = eng[x].version
  /\ Commit(x)
  /\ run'.version = run.version + 1
  /\ eng'[x].pc # "idle" =>
       /\ run'.status = "running" /\ eng'[x].version = run'.version
       /\ eng'[x].step = run'.step /\ eng'[x].calls = run'.calls
  /\ \/ run'.step = eng[x].step /\ run'.calls = eng[x].calls
     \/ /\ eng[x].pc \in Answered /\ run'.step = eng[x].step + 1
        /\ run'.status = "timed_out" \/ run'.calls = eng[x].calls + Len(eng[x].plan)

LEMMA OutcomeStays ==
  ASSUME TInv, NEW x \in Engine, eng[x].pc # "idle", run' = run, NEW c, NEW b, Outcome(x, c, b)
  PROVE  Stays(x)
<1>1. eng \in [Engine -> Memory] /\ eng[x] \in Memory
  BY DEF TInv, TypeOK
<1>2. /\ eng'[x].version = eng[x].version /\ eng'[x].step = eng[x].step
      /\ eng'[x].calls = eng[x].calls
  BY <1>1, SMTT(30) DEF Outcome, Memory
<1>3. QED
  BY <1>2 DEF Stays

LEMMA FailStays ==
  ASSUME TInv, NEW x \in Engine, Fail(x) \/ Crash(x)
  PROVE  Stays(x)
<1>1. eng'[x] = Idle /\ run' = run
  BY DEF TInv, TypeOK, Fail, Crash
<1>2. QED
  BY <1>1, IdleMem DEF Stays

LEMMA CheckpointSaves ==
  ASSUME TInv, NEW x \in Engine, eng[x].pc # "idle", NEW status, NEW step, NEW calls,
         Checkpoint(x, status, step, calls),
         \/ step = eng[x].step /\ calls = eng[x].calls
         \/ /\ eng[x].pc \in Answered /\ step = eng[x].step + 1
            /\ status = "timed_out" \/ calls = eng[x].calls + Len(eng[x].plan)
  PROVE  Stays(x) \/ Saves(x)
<1>1. CASE Fail(x)
  BY <1>1, FailStays
<1>2. CASE ~Fail(x)
  <2>1. /\ run.version = eng[x].version /\ Commit(x)
        /\ run' = [status |-> status, version |-> run.version + 1, step |-> step, calls |-> calls]
        /\ eng' = [eng EXCEPT ![x] = IF status # "running" THEN Idle
                                     ELSE [Idle EXCEPT !.pc = "step", !.version = run.version + 1,
                                                       !.step = step, !.calls = calls]]
    BY <1>2 DEF Checkpoint
  <2>2. eng \in [Engine -> Memory]
    BY DEF TInv, TypeOK
  <2>3. CASE status # "running"
    <3>1. eng'[x] = Idle
      BY <2>1, <2>2, <2>3
    <3>2. QED
      BY <2>1, <3>1, IdleMem DEF Saves
  <2>4. CASE status = "running"
    <3>1. eng'[x] = [Idle EXCEPT !.pc = "step", !.version = run.version + 1, !.step = step,
                                 !.calls = calls]
      BY <2>1, <2>2, <2>4
    <3>2. eng'[x].version = run.version + 1 /\ eng'[x].step = step /\ eng'[x].calls = calls
      BY <3>1 DEF Idle
    <3>3. QED
      BY <2>1, <2>4, <3>2 DEF Saves
  <2>5. QED
    BY <2>3, <2>4
<1>3. QED
  BY <1>1, <1>2

(* The steps on the way to a checkpoint *)
LEMMA WorkStays ==
  ASSUME TInv, NEW x \in Engine,
         \/ StartStep(x) \/ Answer(x) \/ Lookup(x) \/ RecordUnknownTool(x)
         \/ ResolveExisting(x) \/ RecoverStarted(x) \/ RecordInvalidArguments(x)
         \/ AskApproval(x) \/ Denied(x) \/ Approved(x) \/ WriteAhead(x) \/ Invoke(x)
         \/ Finalize(x)
  PROVE  Stays(x)
<1>0. eng \in [Engine -> Memory] /\ eng[x] \in Memory
  BY DEF TInv, TypeOK
<1>1. CASE Fail(x)
  BY <1>1, FailStays
<1>2. CASE ~Fail(x)
  <2>1. run' = run /\ eng[x].pc # "idle"
    BY <1>2 DEF StartStep, Answer, Lookup, RecordUnknownTool, ResolveExisting, RecoverStarted,
       RecordInvalidArguments, AskApproval, Denied, Approved, WriteAhead, Invoke, Finalize,
       Found, Fresh, HasTool
  <2>2. CASE \E c, b : Outcome(x, c, b)
    BY <2>1, <2>2, OutcomeStays
  <2>3. CASE ~\E c, b : Outcome(x, c, b)
    <3>1. /\ eng'[x].version = eng[x].version /\ eng'[x].step = eng[x].step
          /\ eng'[x].calls = eng[x].calls
      <4>1. CASE StartStep(x)
        BY <1>0, <4>1 DEF StartStep, Memory
      <4>2. CASE Answer(x)
        <5>1. PICK p : eng' = [eng EXCEPT ![x].pc = "plan", ![x].plan = p, ![x].saved = FALSE]
          BY <1>2, <4>2 DEF Answer
        <5>2. QED
          BY <1>0, <5>1 DEF Memory
      <4>3. CASE Lookup(x)
        <5>1. PICK r, v : eng' = [eng EXCEPT ![x].pc = "act", ![x].seen = r, ![x].ok = v]
          BY <2>3, <4>3 DEF Lookup
        <5>2. QED
          BY <1>0, <5>1 DEF Memory
      <4>4. CASE RecoverStarted(x) \/ Approved(x)
        <5>1. PICK q : eng' = [eng EXCEPT ![x].pc = q]
          BY <2>3, <4>4 DEF RecoverStarted, Approved
        <5>2. QED
          BY <1>0, <5>1 DEF Memory
      <4>5. CASE WriteAhead(x)
        <5>1. eng' = [eng EXCEPT ![x].pc = "invoke", ![x].saved = TRUE]
          BY <1>2, <4>5 DEF WriteAhead
        <5>2. QED
          BY <1>0, <5>1 DEF Memory
      <4>6. CASE Invoke(x)
        <5>1. PICK v : eng' = [eng EXCEPT ![x].pc = "finalize", ![x].ok = v]
          BY <4>6 DEF Invoke
        <5>2. QED
          BY <1>0, <5>1 DEF Memory
      <4>7. CASE \/ RecordUnknownTool(x) \/ ResolveExisting(x) \/ RecordInvalidArguments(x)
                 \/ AskApproval(x) \/ Denied(x) \/ Finalize(x)
        BY <1>2, <2>3, <4>7 DEF RecordUnknownTool, ResolveExisting, RecordInvalidArguments,
           AskApproval, Denied, Finalize
      <4>8. QED
        BY <4>1, <4>2, <4>3, <4>4, <4>5, <4>6, <4>7
    <3>2. QED
      BY <2>1, <3>1 DEF Stays
  <2>4. QED
    BY <2>2, <2>3
<1>3. QED
  BY <1>1, <1>2

LEMMA ChargeCases ==
  ASSUME TInv, NEW x \in Engine, EngineStep(x) \/ Crash(x)
  PROVE  Stays(x) \/ Loads(x) \/ Saves(x)
<1>0. eng \in [Engine -> Memory] /\ eng[x] \in Memory /\ Mem(eng[x]) /\ run \in RunRow
  BY MemFacts, RunFacts DEF TInv, TypeOK
<1>1. CASE Begin(x)
  <2>1. eng'[x] = [Idle EXCEPT !.pc = "step", !.version = run.version, !.step = run.step,
                               !.calls = run.calls]
    BY <1>0, <1>1 DEF Begin
  <2>2. eng'[x].version = run.version /\ eng'[x].step = run.step /\ eng'[x].calls = run.calls
    BY <2>1 DEF Idle
  <2>3. QED
    BY <1>1, <2>2 DEF Begin, Loads
<1>2. CASE StepLimit(x) \/ LlmFails(x)
  <2>1. PICK status : eng[x].pc # "idle" /\ Checkpoint(x, status, eng[x].step, eng[x].calls)
    BY <1>2 DEF StepLimit, LlmFails
  <2>2. QED
    BY <2>1, CheckpointSaves
<1>3. CASE Admit(x)
  <2>0. eng[x].pc = "plan" /\ eng[x].pc \in Answered /\ eng[x].pc # "idle"
    BY <1>3 DEF Admit, Answered
  <2>1. CASE eng[x].plan = <<>> /\ Checkpoint(x, "waiting_user_input", eng[x].step + 1, eng[x].calls)
    <3>1. PICK status, step, calls :
            /\ Checkpoint(x, status, step, calls) /\ step = eng[x].step + 1 /\ calls = eng[x].calls
      BY <2>1
    <3>2. calls = eng[x].calls + Len(eng[x].plan)
      BY <1>0, <2>1, <3>1, Fields
    <3>3. QED
      BY <2>0, <3>1, <3>2, CheckpointSaves
  <2>2. CASE Checkpoint(x, "timed_out", eng[x].step + 1, eng[x].calls)
    <3>1. PICK status, step, calls :
            Checkpoint(x, status, step, calls) /\ step = eng[x].step + 1 /\ status = "timed_out"
      BY <2>2
    <3>2. QED
      BY <2>0, <3>1, CheckpointSaves
  <2>3. CASE eng' = [eng EXCEPT ![x].pc = "look", ![x].cur = FirstCall(eng[x].plan)] /\ run' = run
    <3>1. /\ eng'[x].version = eng[x].version /\ eng'[x].step = eng[x].step
          /\ eng'[x].calls = eng[x].calls
      BY <1>0, <2>3 DEF Memory
    <3>2. QED
      BY <2>0, <2>3, <3>1 DEF Stays
  <2>4. \/ eng[x].plan = <<>> /\ Checkpoint(x, "waiting_user_input", eng[x].step + 1, eng[x].calls)
        \/ Checkpoint(x, "timed_out", eng[x].step + 1, eng[x].calls)
        \/ /\ eng' = [eng EXCEPT ![x].pc = "look", ![x].cur = FirstCall(eng[x].plan)]
           /\ run' = run
    BY <1>3, Zenon DEF Admit
  <2>5. QED
    BY <2>1, <2>2, <2>3, <2>4
<1>4. CASE Close(x)
  <2>1. eng[x].pc # "idle" /\ eng[x].pc \in Answered
    BY <1>4 DEF Close, Answered
  <2>2. PICK status, step, calls :
          /\ Checkpoint(x, status, step, calls)
          /\ \/ step = eng[x].step /\ calls = eng[x].calls
             \/ step = eng[x].step + 1 /\ calls = Charged(eng[x])
    BY <1>4 DEF Close
  <2>3. QED
    BY <2>1, <2>2, CheckpointSaves DEF Charged
<1>5. CASE Crash(x)
  BY <1>5, FailStays
<1>6. QED
  BY <1>1, <1>2, <1>3, <1>4, <1>5, WorkStays DEF EngineStep

LEMMA EnginesVersioned ==
  ASSUME BInv, NEW x \in Engine, eng' \in [Engine -> Memory],
         \A b \in Engine : b # x => eng'[b] = eng[b],
         \/ run' = run
         \/ run'.version = run.version + 1,
         eng'[x].pc # "idle" =>
           /\ eng'[x].version <= run'.version
           /\ eng'[x].version = run'.version =>
                run'.status = "running" /\ eng'[x].step = run'.step /\ eng'[x].calls = run'.calls
  PROVE  Versioned'
<1>1. run.version \in Nat
  BY RunFacts DEF BInv, RunRow
<1>2. ASSUME NEW b \in Engine, eng'[b].pc # "idle"
      PROVE  /\ eng'[b].version <= run'.version
             /\ eng'[b].version = run'.version =>
                  run'.status = "running" /\ eng'[b].step = run'.step /\ eng'[b].calls = run'.calls
  <2>1. CASE b = x
    BY <1>2, <2>1
  <2>2. CASE b # x
    <3>1. eng'[b] = eng[b] /\ eng[b].version \in Nat /\ eng[b].version <= run.version
      BY <1>2, <2>2, Fields DEF BInv, Versioned, TInv, TypeOK
    <3>2. CASE run' = run
      BY <1>2, <3>1, <3>2 DEF BInv, Versioned
    <3>3. CASE run'.version = run.version + 1
      BY <1>1, <3>1, <3>3
    <3>4. QED
      BY <3>2, <3>3
  <2>3. QED
    BY <2>1, <2>2
<1>3. QED
  BY <1>2 DEF Versioned

(* The steps below the run's are persisted, so their total stays. *)
LEMMA TotalKept ==
  ASSUME BInv, Kept
  PROVE  /\ run.step \in 0 .. MaxSteps /\ Requested'[run.step] = Requested[run.step]
         /\ \A n \in Step : n < run.step => steps'[n] # NULL
<1>1. run.step \in 0 .. MaxSteps /\ MaxSteps \in Nat
  BY RunFacts, ToolAssumption DEF BInv, RunRow
<1>2. \A n \in Step : n < run.step => steps[n] # NULL /\ steps'[n] = steps[n]
  BY DEF BInv, Filled, Kept
<1>3. \A i \in 0 .. MaxSteps : i < run.step => steps'[i] = steps[i]
  <2>1. ASSUME NEW i \in 0 .. MaxSteps, i < run.step PROVE i \in Step
    BY <1>1, <2>1 DEF Step
  <2>2. QED
    BY <1>2, <2>1
<1>4. PICK f, g, m : f = Requested' /\ g = Requested /\ m = run.step
  OBVIOUS
<1>5. Totals(f, MaxSteps, steps') /\ Totals(g, MaxSteps, steps)
  BY <1>4, RequestedIs, RequestedNext
<1>6. f[m] = g[m]
  BY <1>1, <1>3, <1>4, <1>5, TotalsAgree
<1>7. QED
  BY <1>1, <1>2, <1>4, <1>6

LEMMA BudgetKept ==
  ASSUME BInv, Kept, run'.step = run.step, run'.calls = run.calls, run.status # "timed_out"
                     \/ run'.status = "timed_out"
  PROVE  Filled' /\ BudgetIsExact'
<1>1. /\ Requested'[run.step] = Requested[run.step]
      /\ \A n \in Step : n < run.step => steps'[n] # NULL
  BY TotalKept
<1>2. Filled'
  BY <1>1 DEF Filled
<1>3. BudgetIsExact'
  BY <1>1 DEF BInv, BudgetIsExact
<1>4. QED
  BY <1>2, <1>3

LEMMA SavesStep ==
  ASSUME BInv, TInv', Kept, NEW x \in Engine, Saves(x)
  PROVE  Filled' /\ BudgetIsExact'
<1>0. TInv /\ eng[x] \in Memory /\ Mem(eng[x]) /\ run \in RunRow /\ MaxSteps \in Nat
  BY MemFacts, RunFacts, ToolAssumption DEF BInv
<1>1. run.status = "running" /\ eng[x].step = run.step /\ eng[x].calls = run.calls
  BY DEF Saves, BInv, Versioned
<1>2. CASE run'.step = eng[x].step /\ run'.calls = eng[x].calls
  BY <1>1, <1>2, BudgetKept
<1>3. CASE /\ eng[x].pc \in Answered /\ run'.step = eng[x].step + 1
           /\ run'.status = "timed_out" \/ run'.calls = eng[x].calls + Len(eng[x].plan)
  <2>1. PICK m : m = run.step /\ m \in Step /\ m \in 0 .. MaxSteps /\ m + 1 \in 0 .. MaxSteps
    BY <1>0, <1>1, <1>3 DEF Mem, Step, RunRow
  <2>2. steps'[m] = eng[x].plan /\ eng[x].plan # NULL
    BY <1>0, <1>1, <1>3, <2>1, CommitEffect, Fields, ToolAssumption DEF Saves
  <2>3. /\ Requested'[m] = Requested[m] /\ \A n \in Step : n < m => steps'[n] # NULL
    BY <2>1, TotalKept
  <2>4. Filled'
    <3>1. ASSUME NEW n \in Step, n < m + 1 PROVE n < m \/ n = m
      BY <2>1, <3>1 DEF Step
    <3>2. QED
      BY <1>1, <1>3, <2>1, <2>2, <2>3, <3>1 DEF Filled
  <2>5. Requested'[m + 1] = Requested'[m] + Len(steps'[m])
    <3>1. PICK f : f = Requested'
      OBVIOUS
    <3>2. Totals(f, MaxSteps, steps')
      BY <3>1, RequestedNext
    <3>3. m + 1 # 0 /\ (m + 1) - 1 = m
      BY <2>1
    <3>4. f[m + 1] = f[m] + Len(steps'[m])
      BY <2>1, <3>2, <3>3 DEF Totals
    <3>5. QED
      BY <3>1, <3>4
  <2>6. Requested[m] = run.calls
    BY <1>1, <2>1 DEF BInv, BudgetIsExact
  <2>7. run'.step = m + 1 /\ (run'.status # "timed_out" => run'.calls = run.calls + Len(steps'[m]))
    BY <1>1, <1>3, <2>1, <2>2
  <2>8. BudgetIsExact'
    BY <2>3, <2>5, <2>6, <2>7 DEF BudgetIsExact
  <2>9. QED
    BY <2>4, <2>8
<1>4. QED
  BY <1>2, <1>3 DEF Saves

LEMMA BudgetStep ==
  ASSUME BInv, [Next]_vars
  PROVE  BInv'
<1>0. TInv /\ TInv' /\ run \in RunRow /\ eng \in [Engine -> Memory]
  BY TypeStep, RunFacts DEF BInv, TInv, TypeOK
<1>1. ASSUME NEW x \in Engine, EngineStep(x) \/ Crash(x) PROVE BInv'
  <2>1. Kept
    BY <1>0, <1>1, KeptStep DEF Next
  <2>2. PICK y \in Memory : eng' = [eng EXCEPT ![x] = y]
    BY <1>0, <1>1, EngineCases
       DEF Blank, Moved, Inserted, Starts, Restated, Asked, Invoked, Done
  <2>3. eng' \in [Engine -> Memory] /\ \A b \in Engine : b # x => eng'[b] = eng[b]
    BY <1>0, <2>2
  <2>4. run.version \in Nat /\ Versioned
    BY <1>0 DEF RunRow, BInv
  <2>5. CASE Stays(x)
    <3>1. run' = run /\ Filled' /\ BudgetIsExact'
      BY <2>1, <2>5, BudgetKept, TotalKept DEF Stays, BInv, Filled, BudgetIsExact
    <3>2. Versioned'
      BY <2>3, <2>4, <2>5, <3>1, EnginesVersioned DEF Stays, Versioned
    <3>3. QED
      BY <1>0, <3>1, <3>2 DEF BInv
  <2>6. CASE Loads(x)
    <3>1. run' = run /\ run.status # "timed_out"
      BY <2>6 DEF Loads
    <3>2. Filled' /\ BudgetIsExact'
      BY <2>1, <3>1, BudgetKept
    <3>3. Versioned'
      BY <2>3, <2>4, <2>6, EnginesVersioned DEF Loads
    <3>4. QED
      BY <1>0, <3>2, <3>3 DEF BInv
  <2>7. CASE Saves(x)
    <3>1. Filled' /\ BudgetIsExact'
      BY <1>0, <2>1, <2>7, SavesStep
    <3>2. run'.version \in Nat /\ run'.version = run.version + 1
      BY <2>4, <2>7 DEF Saves
    <3>3. Versioned'
      BY <2>3, <2>7, <3>2, EnginesVersioned DEF Saves
    <3>4. QED
      BY <1>0, <3>1, <3>3 DEF BInv
  <2>8. QED
    BY <1>0, <1>1, <2>5, <2>6, <2>7, ChargeCases
<1>2. ASSUME PostMessage \/ ApprovalStep PROVE BInv'
  <2>1. Kept
    BY <1>0, <1>2, KeptStep DEF Next
  <2>2. eng' = eng
    BY <1>0, <1>2, ApprovalEffect DEF Decided
  <2>3. \/ run' = run
        \/ /\ run.status \in {"waiting_user_input", "waiting_approval"}
           /\ run'.step = run.step /\ run'.calls = run.calls /\ run'.version = run.version + 1
    <3>1. ASSUME NEW s, SetStatus(s)
          PROVE  run'.step = run.step /\ run'.calls = run.calls /\ run'.version = run.version + 1
      BY <1>0, <3>1 DEF SetStatus, RunRow
    <3>2. QED
      BY <1>2, <3>1 DEF PostMessage, ApprovalStep, DecideRead, DecideCommit, ExpireRead,
         ExpireApproval, ExpireRun, ReaperCrash
  <2>4. Filled' /\ BudgetIsExact'
    BY <2>1, <2>3, BudgetKept, TotalKept DEF BInv, Filled, BudgetIsExact
  <2>5. Versioned'
    <3>1. run.version \in Nat /\ \A b \in Engine : eng[b].version \in Nat
      BY <1>0, Fields DEF RunRow
    <3>2. QED
      BY <2>2, <2>3, <3>1 DEF BInv, Versioned
  <2>6. QED
    BY <1>0, <2>4, <2>5 DEF BInv
<1>3. ASSUME UNCHANGED vars PROVE BInv'
  <2>1. run' = run /\ steps' = steps /\ eng' = eng
    BY <1>3 DEF vars
  <2>2. Versioned' /\ Filled'
    BY <2>1 DEF BInv, Versioned, Filled
  <2>3. BudgetIsExact'
    BY <2>1 DEF BInv, BudgetIsExact, Requested
  <2>4. QED
    BY <1>0, <2>2, <2>3 DEF BInv
<1>4. QED
  BY <1>1, <1>2, <1>3 DEF Next

LEMMA BudgetInit == Init => BInv
<1> SUFFICES ASSUME Init PROVE BInv
  OBVIOUS
<1>1. /\ \A x \in Engine : eng[x].pc = "idle"
      /\ run.step = 0 /\ run.calls = 0
  BY IdleMem DEF Init
<1>2. \A n \in Step : ~(n < run.step)
  BY <1>1 DEF Step
<1>3. Requested[0] = 0
  <2>1. PICK f : f = Requested
    OBVIOUS
  <2>2. Totals(f, MaxSteps, steps) /\ 0 \in 0 .. MaxSteps
    BY <2>1, RequestedIs, ToolAssumption
  <2>3. f[0] = 0
    BY <2>2 DEF Totals
  <2>4. QED
    BY <2>1, <2>3
<1>4. QED
  BY <1>1, <1>2, <1>3, TypeInit DEF BInv, Versioned, Filled, BudgetIsExact

(* tool_calls_used is what the answers of the finished steps asked for: no *)
(* crash, replay, takeover or wait for an approval charges a step twice or *)
(* not at all, because only an engine that has read the run's current      *)
(* version moves it on (checkpoint in run_repository.py).                  *)
THEOREM BudgetExact == Spec => []BudgetIsExact
<1>1. Init => BInv
  BY BudgetInit
<1>2. BInv /\ [Next]_vars => BInv'
  BY BudgetStep
<1>3. BInv => BudgetIsExact
  BY DEF BInv
<1>4. QED
  BY <1>1, <1>2, <1>3, PTL DEF Spec
-----------------------------------------------------------------------------
(* The third identical write.  The rows are in the order of the steps, a   *)
(* step whose only call is a write has left a row, and an engine that got  *)
(* past the guardrail is not on the third of three answers that come to    *)
(* the same, if that is given as it is recorded.                           *)
Lone(p) == p \in Plan /\ Len(p) = 1 /\ Tier(p[1].tool) = "low_risk_write"

Counted == \A k \in Key : exec[k] # NULL => exec[k].at <= Cardinality(Rows(exec))

Dated == \A j, k \in Key : exec[j] # NULL /\ exec[k] # NULL /\ j[1] < k[1] =>
                             exec[j].at < exec[k].at

Written == ~Ended => \A n \in Step : n < run.step /\ Lone(steps[n]) => exec[<<n, 1>>] # NULL

Like(q, p) == Len(q) = 1 /\ Alike(q[1], p[1])

Third(n, p) == /\ n >= 2 /\ p[1].args = Normalized(p[1].args)
               /\ Like(steps[n - 1], p) /\ Like(steps[n - 2], p)

Beyond(y) == \/ y.pc \in {"act", "write", "invoke", "finalize"}
             \/ y.pc = "close" /\ y.control # "failed"

Passed(y) == Beyond(y) /\ Lone(y.plan) =>
               ~Third(y.step, y.plan) /\ (y.pc = "close" => exec[<<y.step, 1>>] # NULL)

Guards == \A x \in Engine : Passed(eng[x])

Stopped == \A n \in Step : n < run.step /\ Lone(steps[n]) /\ Third(n, steps[n]) => Ended

Order == Counted /\ Dated

RInv == EInv /\ BInv /\ Order /\ Written /\ Guards /\ Stopped

LEMMA RowsCount == Cardinality(Rows(exec)) \in Nat /\ IsFiniteSet(Rows(exec))
<1>1. Rows(exec) \subseteq Key
  BY DEF Rows
<1>2. IsFiniteSet(Rows(exec))
  BY <1>1, KeyFinite, FS_Subset
<1>3. QED
  BY <1>2, FS_CardinalityType

LEMMA InsertOrder ==
  ASSUME TInv, Behind, Order, NEW k \in Key, k[1] = run.step, exec[k] = NULL, NEW r \in Row,
         r.at = Cardinality(Rows(exec)) + 1, exec' = [exec EXCEPT ![k] = r]
  PROVE  Order'
<1>1. /\ exec'[k] = r /\ r # NULL /\ \A j \in Key : j # k => exec'[j] = exec[j]
      /\ \A j \in Key : exec[j] # NULL => exec[j] \in Row
  BY TablesNow, ToolAssumption
<1>2. Rows(exec') = Rows(exec) \cup {k} /\ k \notin Rows(exec)
  BY <1>1 DEF Rows
<1>3. PICK c \in Nat : c = Cardinality(Rows(exec))
  BY RowsCount
<1>4. Cardinality(Rows(exec')) = c + 1
  BY <1>2, <1>3, RowsCount, FS_AddElement
<1>5. \A j \in Key : j # k /\ exec'[j] # NULL => exec'[j].at \in Nat /\ exec'[j].at <= c
  BY <1>1, <1>3 DEF Order, Counted, Row
<1>6. Counted'
  BY <1>1, <1>3, <1>4, <1>5 DEF Counted
<1>7. ASSUME NEW i \in Key, NEW j \in Key, exec'[i] # NULL, exec'[j] # NULL, i[1] < j[1]
      PROVE  exec'[i].at < exec'[j].at
  <2>1. CASE i # k /\ j # k
    BY <1>1, <1>7, <2>1 DEF Order, Dated
  <2>2. CASE j = k
    <3>1. i # k
      <4>1. i[1] \in Nat /\ j[1] \in Nat
        BY KeyFacts DEF Step
      <4>2. QED
        BY <1>7, <2>2, <4>1
    <3>2. exec'[i].at \in Nat /\ exec'[i].at <= c /\ exec'[j].at = c + 1
      BY <1>1, <1>3, <1>5, <1>7, <2>2, <3>1
    <3>3. QED
      BY <1>3, <3>2
  <2>3. CASE i = k /\ j # k
    <3>1. exec[j] # NULL /\ j[1] <= run.step /\ j[1] \in Nat /\ i[1] \in Nat /\ i[1] = run.step
      BY <1>1, <1>7, <2>3, KeyFacts DEF Behind, Step
    <3>2. QED
      BY <1>7, <3>1
  <2>4. QED
    BY <2>1, <2>2, <2>3
<1>8. QED
  BY <1>6, <1>7 DEF Order, Dated

LEMMA OrderKept ==
  ASSUME TInv, Behind, Order, NEW x \in Engine, eng[x].pc # "idle" => eng[x].step = run.step,
         NEW y \in Memory,
         \/ Blank(x, y) \/ Moved(x, y) \/ Inserted(x, y) \/ Restated(x, y)
         \/ Asked(x, y) \/ Invoked(x, y)
  PROVE  Order'
<1>1. CASE exec' = exec
  <2>1. Rows(exec') = Rows(exec)
    BY <1>1
  <2>2. QED
    BY <1>1, <2>1 DEF Order, Counted, Dated
<1>2. CASE Inserted(x, y)
  <2>1. PICK s \in RowStatus : eng[x].pc \in Busy /\ Insert(x, s)
    BY <1>2 DEF Inserted
  <2>2. PICK k \in Key, r \in Row : k = KeyOf(x) /\ exec[k] = NULL /\ exec' = [exec EXCEPT ![k] = r]
    BY <2>1, InsertEffect
  <2>3. exec'[k] = r /\ exec'[k] = NewRow(x, s)
    BY <2>1, <2>2, TablesNow DEF Insert
  <2>4. r.at = Cardinality(Rows(exec)) + 1
    BY <2>3 DEF NewRow
  <2>5. k[1] = run.step
    BY <2>1, <2>2, BusyFacts DEF Busy
  <2>6. QED
    BY <2>2, <2>4, <2>5, InsertOrder
<1>3. CASE Restated(x, y)
  <2>1. PICK k \in Key, s \in RowStatus :
          exec[k] # NULL /\ exec' = [exec EXCEPT ![k].status = s]
    BY <1>3, BusyFacts DEF Restated
  <2>2. exec[k] \in Row /\ exec \in [Key -> Row \cup {NULL}]
    BY <2>1, TablesNow DEF TInv, TypeOK
  <2>3. /\ exec'[k] = [exec[k] EXCEPT !.status = s] /\ exec'[k].at = exec[k].at
        /\ exec'[k] \in Row
    BY <2>1, <2>2 DEF Row
  <2>4. exec'[k] # NULL /\ \A j \in Key : j # k => exec'[j] = exec[j]
    BY <2>1, <2>2, <2>3, ToolAssumption
  <2>5. Rows(exec') = Rows(exec)
    BY <2>1, <2>4 DEF Rows
  <2>6. \A j \in Key : (exec'[j] # NULL <=> exec[j] # NULL) /\
                       (exec[j] # NULL => exec'[j].at = exec[j].at)
    BY <2>1, <2>3, <2>4
  <2>7. QED
    BY <2>5, <2>6 DEF Order, Counted, Dated
<1>4. QED
  BY <1>1, <1>2, <1>3 DEF Blank, Moved, Asked, Invoked

(* The answers below the run's step are persisted and stay. *)
LEMMA ThirdKept ==
  ASSUME BInv, Kept, NEW m, NEW p, m = run.step
  PROVE  Third(m, p)' <=> Third(m, p)
<1>1. m \in 0 .. MaxSteps /\ MaxSteps \in Nat
  BY RunFacts, ToolAssumption DEF BInv, RunRow
<1>2. ASSUME m >= 2
      PROVE  m - 1 \in Step /\ m - 2 \in Step /\ m - 1 < m /\ m - 2 < m
  BY <1>1, <1>2 DEF Step
<1>3. ASSUME m >= 2 PROVE steps'[m - 1] = steps[m - 1] /\ steps'[m - 2] = steps[m - 2]
  BY <1>2, <1>3 DEF BInv, Filled, Kept
<1>4. QED
  BY <1>3 DEF Third

LEMMA LoneFacts ==
  ASSUME NEW p, Lone(p)
  PROVE  /\ Len(p) = 1 /\ DOMAIN p = {1} /\ p[1] \in Call
         /\ p[1].tool \in {"put", "post"} /\ p # <<>>
<1>1. Len(p) = 1 /\ p \in Plan
  BY DEF Lone
<1>2. p \in Seq(Call) /\ 1 .. 1 = {1}
  BY <1>1, PlanFacts
<1>3. DOMAIN p = {1} /\ p[1] \in Call
  BY <1>1, <1>2
<1>4. p[1].tool \in {"put", "post"}
  BY DEF Lone, Tier
<1>5. QED
  BY <1>1, <1>3, <1>4

LEMMA LikeLone ==
  ASSUME NEW p, NEW q \in Plan, Lone(p), Like(q, p)
  PROVE  /\ Lone(q) /\ q[1].tool = p[1].tool
         /\ p[1].args = Normalized(p[1].args) => Normalized(q[1].args) = p[1].args
BY DEF Lone, Like, Alike

(* The only call of the answer *)
LEMMA LoneCall ==
  ASSUME TInv, NEW x \in Engine, eng[x].pc \in Busy, Lone(eng[x].plan)
  PROVE  /\ eng[x].cur = 1 /\ CallOf(x) = eng[x].plan[1] /\ KeyOf(x) = <<eng[x].step, 1>>
         /\ ToolOf(x) \in {"put", "post"} /\ ~IsDeferred(x) /\ Tier(ToolOf(x)) = "low_risk_write"
         /\ ~NeedsApproval(x) /\ Guarded(x) /\ ~Gathered(x)
<1>1. eng[x].cur = 1
  BY BusyFacts, LoneFacts
<1>2. CallOf(x) = eng[x].plan[1] /\ KeyOf(x) = <<eng[x].step, 1>> /\ ~IsDeferred(x)
  BY <1>1 DEF CallOf, KeyOf, IsDeferred, Deferred
<1>3. ToolOf(x) \in {"put", "post"}
  BY <1>2, LoneFacts DEF ToolOf
<1>4. Tier(ToolOf(x)) = "low_risk_write"
  BY <1>3 DEF Tier
<1>5. QED
  BY <1>1, <1>2, <1>3, <1>4 DEF NeedsApproval, requires_approval, Guarded, Gathered, Known

(* The guardrail sees the third identical write: the two latest rows are   *)
(* those of the two steps before, or one of them and the call's own.       *)
LEMMA GuardSees ==
  ASSUME RInv, NEW x \in Engine, eng[x].pc = "look", Lone(eng[x].plan),
         Third(eng[x].step, eng[x].plan)
  PROVE  Repeated(x)
<1>1. TInv /\ EInv /\ eng[x].pc \in Busy /\ eng[x].pc # "idle" /\ eng[x].pc \in Answered
  BY DEF RInv, EInv, SInv, Busy, Answered
<1>2. /\ eng[x] \in Memory /\ Mem(eng[x]) /\ eng[x].step = run.step /\ ~Ended /\ Behind
      /\ eng[x].step \in Step /\ eng[x].saved \in BOOLEAN
  BY <1>1, AtWork, Fields, BusyFacts DEF Tables
<1>3. PICK p, m : p = eng[x].plan /\ m = run.step /\ m = eng[x].step
  BY <1>2
<1>4. /\ m \in Step /\ m \in Nat /\ m >= 2 /\ m - 1 \in Step /\ m - 2 \in Step
      /\ m - 2 < m - 1 /\ m - 1 < m /\ m - 2 < m
  BY <1>2, <1>3, ToolAssumption DEF Third, Step
<1>5. /\ Like(steps[m - 1], p) /\ Like(steps[m - 2], p) /\ Lone(p)
      /\ p[1].args = Normalized(p[1].args)
  BY <1>3 DEF Third
<1>14. \A n \in {m - 1, m - 2} :
         /\ steps[n] \in Plan /\ Lone(steps[n]) /\ steps[n][1].tool = p[1].tool
         /\ Normalized(steps[n][1].args) = p[1].args
  <2> SUFFICES ASSUME NEW n \in {m - 1, m - 2}
               PROVE  /\ steps[n] \in Plan /\ Lone(steps[n]) /\ steps[n][1].tool = p[1].tool
                      /\ Normalized(steps[n][1].args) = p[1].args
    OBVIOUS
  <2>1. n \in Step /\ n < run.step
    BY <1>3, <1>4
  <2>2. steps[n] # NULL
    BY <2>1 DEF RInv, BInv, Filled
  <2>3. steps[n] \in Plan
    BY <1>1, <2>1, <2>2, TablesNow
  <2>4. QED
    BY <1>5, <2>3, LikeLone
<1>6. PICK a \in Key, b \in Key : /\ a = <<m - 2, 1>> /\ b = <<m - 1, 1>>
                                 /\ a[1] = m - 2 /\ b[1] = m - 1
  <2>1. \A n \in Step : <<n, 1>> \in Key /\ <<n, 1>>[1] = n
    BY DEF Key
  <2>2. QED
    BY <1>4, <2>1
<1>7. exec[a] # NULL /\ exec[b] # NULL
  BY <1>2, <1>3, <1>4, <1>14, <1>6 DEF RInv, Written
<1>8. PICK c \in Nat : c = Cardinality(Rows(exec))
  BY RowsCount
<1>9. \A k \in Key : exec[k] # NULL => exec[k].at \in Nat /\ 1 <= exec[k].at /\ exec[k].at <= c
  BY <1>1, <1>8, TablesNow DEF RInv, Order, Counted, Row
<1>10. exec[a].at < exec[b].at
  BY <1>4, <1>6, <1>7 DEF RInv, Order, Dated
<1>11. c >= 2
  BY <1>7, <1>8, <1>9, <1>10
<1>12. ASSUME NEW k \in Latest(exec, 2)
       PROVE  exec[k].tool = ToolOf(x) /\ exec[k].args = CallOf(x).args
  <2>1. k \in Key /\ exec[k] # NULL /\ exec[k].at > c - 2
    BY <1>8, <1>12 DEF Latest, Rows
  <2>2. k[1] \in Nat /\ k[1] <= m
    BY <1>2, <1>3, <2>1, KeyFacts DEF Behind, Step
  <2>3. ~(k[1] < m - 2)
    <3> SUFFICES ASSUME k[1] < m - 2 PROVE FALSE
      OBVIOUS
    <3>1. exec[k].at < exec[a].at
      BY <1>6, <1>7, <2>1 DEF RInv, Order, Dated
    <3>2. QED
      BY <1>7, <1>8, <1>9, <1>10, <2>1, <3>1
  <2>4. k[1] = m - 2 \/ k[1] = m - 1 \/ k[1] = m
    BY <1>4, <2>2, <2>3
  <2>5. Fits(k, exec[k])
    BY <1>1, <2>1 DEF TInv, Fit
  <2>6. PICK q : q = steps[k[1]] /\ q \in Plan /\ Lone(q) /\ q[1].tool = p[1].tool
                 /\ Normalized(q[1].args) = p[1].args
    <3>1. CASE k[1] = m
      <4>1. steps[m] = p /\ p \in Plan
        BY <1>1, <1>2, <1>3, <1>5, <2>5, <3>1 DEF Fits, Mem, Lone
      <4>2. QED
        BY <1>5, <3>1, <4>1
    <3>2. CASE k[1] \in {m - 1, m - 2}
      BY <1>14, <3>2
    <3>3. QED
      BY <2>4, <3>1, <3>2
  <2>7. k[2] = 1 /\ q[1] \in Call /\ Known(q[1].tool)
    BY <2>5, <2>6, LoneFacts DEF Fits, Known
  <2>8. exec[k].tool = p[1].tool /\ exec[k].args = p[1].args
    BY <2>5, <2>6, <2>7, StoredFacts DEF Fits, Deferred
  <2>9. QED
    BY <1>1, <1>3, <2>8, LoneCall DEF ToolOf
<1>13. QED
  BY <1>8, <1>11, <1>12 DEF Repeated

(* What an engine that got past the guardrail does with the write keeps it *)
(* on the same step, and leaves a row before the step closes.              *)
LEMMA PassedKept ==
  ASSUME RInv, Kept, NEW x \in Engine, eng[x].pc \in Busy \ {"look"}, NEW y,
         y.plan = eng[x].plan, y.step = eng[x].step,
         y.pc = "close" /\ Lone(y.plan) => exec'[<<y.step, 1>>] # NULL
  PROVE  Passed(y)'
<1>1. Beyond(eng[x]) /\ eng[x].step = run.step /\ BInv
  BY AtWork DEF Busy, Beyond, RInv
<1>2. PICK m, p : m = run.step /\ m = y.step /\ p = y.plan
  BY <1>1
<1>3. Lone(p) => ~Third(m, p)
  BY <1>1, <1>2 DEF RInv, Guards, Passed
<1>4. Lone(p) => ~Third(m, p)'
  BY <1>1, <1>2, <1>3, ThirdKept
<1>5. QED
  BY <1>2, <1>4 DEF Passed, Lone, Third

LEMMA OutcomePlan ==
  ASSUME TInv, NEW x \in Engine, NEW c, NEW b, Outcome(x, c, b)
  PROVE  eng'[x].plan = eng[x].plan /\ eng'[x].step = eng[x].step /\ eng'[x].control = c
<1>1. eng \in [Engine -> Memory] /\ eng[x] \in Memory
  BY DEF TInv, TypeOK
<1>2. QED
  BY <1>1, SMTT(30) DEF Outcome, Memory

(* A write that is done has a row. *)
LEMMA OutcomeRow ==
  ASSUME TInv, Kept, NEW x \in Engine, ~Fail(x), eng[x].pc \in Busy, Lone(eng[x].plan),
         \/ RecordUnknownTool(x) \/ ResolveExisting(x) \/ RecoverStarted(x)
         \/ RecordInvalidArguments(x) \/ AskApproval(x) \/ Denied(x) \/ Finalize(x)
  PROVE  exec'[<<eng[x].step, 1>>] # NULL
<1>1. /\ KeyOf(x) = <<eng[x].step, 1>> /\ ToolOf(x) # "ghost" /\ ~NeedsApproval(x)
      /\ eng[x].cur = 1
  BY LoneCall
<1>2. KeyOf(x) \in Key /\ Mem(eng[x])
  BY BusyFacts, MemFacts
<1>3. ~RecordUnknownTool(x) /\ ~AskApproval(x) /\ ~Denied(x)
  BY <1>1 DEF RecordUnknownTool, AskApproval, Denied
<1>4. CASE ResolveExisting(x) \/ RecoverStarted(x) \/ Finalize(x)
  <2>1. exec[KeyOf(x)] # NULL
    BY <1>2, <1>4 DEF ResolveExisting, RecoverStarted, Finalize, Found, Mem, KeyOf
  <2>2. QED
    BY <1>1, <1>2, <2>1 DEF Kept
<1>5. CASE RecordInvalidArguments(x)
  <2>1. Insert(x, "invalid") /\ "invalid" \in RowStatus
    BY <1>5 DEF RecordInvalidArguments, RowStatus
  <2>2. PICK i \in Key, r \in Row : i = KeyOf(x) /\ exec' = [exec EXCEPT ![i] = r]
    BY <2>1, InsertEffect
  <2>3. exec'[i] = r /\ r # NULL
    BY <2>2, TablesNow, ToolAssumption
  <2>4. QED
    BY <1>1, <2>2, <2>3
<1>6. QED
  BY <1>3, <1>4, <1>5

(* The steps after the lookup *)
LEMMA WorkPassed ==
  ASSUME RInv, Kept, NEW x \in Engine,
         \/ RecordUnknownTool(x) \/ ResolveExisting(x) \/ RecoverStarted(x)
         \/ RecordInvalidArguments(x) \/ AskApproval(x) \/ Denied(x) \/ Approved(x)
         \/ WriteAhead(x) \/ Invoke(x) \/ Finalize(x)
  PROVE  \E y : y = eng'[x] /\ Passed(y)'
<1>0. TInv /\ eng \in [Engine -> Memory] /\ eng[x] \in Memory
  BY MemFacts DEF RInv, EInv, SInv, TInv, TypeOK
<1>1. PICK y : y = eng'[x]
  OBVIOUS
<1>2. CASE Fail(x)
  <2>1. y = Idle
    BY <1>0, <1>1, <1>2 DEF Fail
  <2>2. QED
    BY <1>1, <2>1, IdleMem DEF Passed, Beyond
<1>3. CASE ~Fail(x)
  <2>1. eng[x].pc \in Busy \ {"look"} /\ eng[x].pc \in Busy
    BY DEF RecordUnknownTool, ResolveExisting, RecoverStarted, RecordInvalidArguments, AskApproval,
       Denied, Approved, WriteAhead, Invoke, Finalize, Found, Fresh, HasTool, Busy
  <2>2. CASE y.plan = eng[x].plan /\ y.step = eng[x].step /\ y.pc # "close"
    BY <1>1, <2>1, <2>2, PassedKept
  <2>3. CASE Approved(x) \/ (RecoverStarted(x) /\ SafeToRetry(eng[x].seen))
    <3>1. PICK q : eng' = [eng EXCEPT ![x].pc = q] /\ q # "close"
      BY <2>3 DEF Approved, RecoverStarted
    <3>2. y.plan = eng[x].plan /\ y.step = eng[x].step /\ y.pc = q
      BY <1>0, <1>1, <3>1 DEF Memory
    <3>3. QED
      BY <2>2, <3>1, <3>2
  <2>4. CASE WriteAhead(x)
    <3>1. eng' = [eng EXCEPT ![x].pc = "invoke", ![x].saved = TRUE]
      BY <1>3, <2>4 DEF WriteAhead
    <3>2. y.plan = eng[x].plan /\ y.step = eng[x].step /\ y.pc = "invoke"
      BY <1>0, <1>1, <3>1 DEF Memory
    <3>3. QED
      BY <2>2, <3>2
  <2>5. CASE Invoke(x)
    <3>1. PICK v : eng' = [eng EXCEPT ![x].pc = "finalize", ![x].ok = v]
      BY <2>5 DEF Invoke
    <3>2. y.plan = eng[x].plan /\ y.step = eng[x].step /\ y.pc = "finalize"
      BY <1>0, <1>1, <3>1 DEF Memory
    <3>3. QED
      BY <2>2, <3>2
  <2>6. CASE \/ RecordUnknownTool(x) \/ ResolveExisting(x)
             \/ (RecoverStarted(x) /\ ~SafeToRetry(eng[x].seen))
             \/ RecordInvalidArguments(x) \/ AskApproval(x) \/ Denied(x) \/ Finalize(x)
    <3>1. PICK c, b : Outcome(x, c, b)
      BY <1>3, <2>6 DEF RecordUnknownTool, ResolveExisting, RecoverStarted,
         RecordInvalidArguments, AskApproval, Denied, Finalize
    <3>2. y.plan = eng[x].plan /\ y.step = eng[x].step
      BY <1>0, <1>1, <3>1, OutcomePlan
    <3>3. Lone(y.plan) => exec'[<<y.step, 1>>] # NULL
      BY <1>0, <1>3, <2>1, <2>6, <3>2, OutcomeRow
    <3>4. QED
      BY <1>1, <2>1, <3>2, <3>3, PassedKept
  <2>7. QED
    BY <2>3, <2>4, <2>5, <2>6
<1>4. QED
  BY <1>2, <1>3

(* The guardrail itself *)
LEMMA LookupPassed ==
  ASSUME RInv, Kept, NEW x \in Engine, Lookup(x)
  PROVE  \E y : y = eng'[x] /\ Passed(y)'
<1>0. /\ TInv /\ eng \in [Engine -> Memory] /\ eng[x] \in Memory /\ eng[x].pc = "look"
      /\ eng[x].pc \in Busy /\ BInv /\ eng[x].step = run.step
  BY MemFacts, AtWork DEF RInv, EInv, SInv, TInv, TypeOK, Lookup, Busy
<1>1. PICK y : y = eng'[x]
  OBVIOUS
<1>2. CASE ~Lone(eng[x].plan)
  <2>1. y.plan = eng[x].plan
    <3>1. CASE \E c, b : Outcome(x, c, b)
      BY <1>0, <1>1, <3>1, OutcomePlan
    <3>2. CASE ~\E c, b : Outcome(x, c, b)
      <4>1. PICK r, v : eng' = [eng EXCEPT ![x].pc = "act", ![x].seen = r, ![x].ok = v]
        BY <3>2 DEF Lookup
      <4>2. QED
        BY <1>0, <1>1, <4>1 DEF Memory
    <3>3. QED
      BY <3>1, <3>2
  <2>2. QED
    BY <1>1, <1>2, <2>1 DEF Passed, Lone
<1>3. CASE Lone(eng[x].plan) /\ Repeated(x)
  <2>1. Outcome(x, "failed", FALSE)
    BY <1>0, <1>3, LoneCall DEF Lookup
  <2>2. y.control = "failed"
    BY <1>0, <1>1, <2>1, OutcomePlan
  <2>3. y.pc \in {"close", "look"}
    BY <1>0, <1>1, <2>1, OutcomeEffect DEF Done, Outcomes
  <2>4. QED
    BY <1>1, <2>2, <2>3 DEF Passed, Beyond
<1>4. CASE Lone(eng[x].plan) /\ ~Repeated(x)
  <2>1. PICK r, v : eng' = [eng EXCEPT ![x].pc = "act", ![x].seen = r, ![x].ok = v]
    BY <1>4 DEF Lookup
  <2>2. y.plan = eng[x].plan /\ y.step = eng[x].step /\ y.pc = "act"
    BY <1>0, <1>1, <2>1 DEF Memory
  <2>3. PICK m, p : m = eng[x].step /\ m = run.step /\ p = eng[x].plan
    BY <1>0
  <2>4. ~Third(m, p)
    BY <1>0, <1>4, <2>3, GuardSees
  <2>5. ~Third(m, p)'
    BY <1>0, <2>3, <2>4, ThirdKept
  <2>6. QED
    BY <1>1, <2>2, <2>3, <2>5 DEF Passed, Third
<1>5. QED
  BY <1>2, <1>3, <1>4

(* The steps before the calls of an answer and after them *)
LEMMA EarlyPassed ==
  ASSUME RInv, NEW x \in Engine,
         \/ Begin(x) \/ StepLimit(x) \/ StartStep(x) \/ LlmFails(x) \/ Answer(x) \/ Admit(x)
         \/ Close(x) \/ Crash(x)
  PROVE  \E y : y = eng'[x] /\ Passed(y)'
<1>0. TInv /\ eng \in [Engine -> Memory] /\ eng[x] \in Memory
  BY MemFacts DEF RInv, EInv, SInv, TInv, TypeOK
<1>1. PICK y : y = eng'[x]
  OBVIOUS
<1>2. CASE \E z : Blank(x, z)
  <2>1. y.pc \in {"idle", "step", "llm"}
    BY <1>0, <1>1, <1>2 DEF Blank
  <2>2. QED
    BY <1>1, <2>1 DEF Passed, Beyond
<1>3. CASE ~\E z : Blank(x, z)
  <2>1. StartStep(x) \/ Answer(x) \/ Admit(x)
    BY <1>0, <1>3, BeginEffect, CloseEffect, FailEffect
  <2>2. y.pc \in {"llm", "plan", "look"}
    <3>1. CASE StartStep(x)
      BY <1>0, <1>1, <3>1 DEF StartStep, Memory
    <3>2. CASE Answer(x)
      <4>1. PICK p : eng' = [eng EXCEPT ![x].pc = "plan", ![x].plan = p, ![x].saved = FALSE]
        BY <1>0, <1>3, <3>2, FailEffect DEF Answer
      <4>2. QED
        BY <1>0, <1>1, <4>1 DEF Memory
    <3>3. CASE Admit(x)
      <4>1. eng[x].step + 1 \in 0 .. MaxSteps /\ eng[x].calls \in 0 .. MaxCalls
        <5>1. eng[x].pc \in Answered /\ Mem(eng[x])
          BY <1>0, <3>3, MemFacts DEF Admit, Answered
        <5>2. eng[x].step \in Step /\ eng[x].calls \in 0 .. MaxCalls
          BY <1>0, <5>1, Fields DEF Mem
        <5>3. QED
          BY <5>2, ToolAssumption DEF Step
      <4>2. PICK s, c : s = eng[x].step + 1 /\ c = eng[x].calls
        OBVIOUS
      <4>3. ~Checkpoint(x, "waiting_user_input", s, c) /\ ~Checkpoint(x, "timed_out", s, c)
        BY <1>0, <1>3, <4>1, <4>2, CheckpointEffect
      <4>4. eng' = [eng EXCEPT ![x].pc = "look", ![x].cur = FirstCall(eng[x].plan)]
        BY <3>3, <4>2, <4>3 DEF Admit
      <4>5. QED
        BY <1>0, <1>1, <4>4 DEF Memory
    <3>4. QED
      BY <2>1, <3>1, <3>2, <3>3
  <2>3. QED
    BY <1>1, <2>2 DEF Passed, Beyond
<1>4. QED
  BY <1>2, <1>3

(* The run leaves a step with its answer persisted, and goes on only if no *)
(* guardrail stopped it.                                                   *)
Advances(x) ==
  /\ run'.step = run.step + 1
  /\ eng[x].pc \in Answered /\ eng[x].step = run.step /\ steps'[run.step] = eng[x].plan
  /\ ~Ended' => eng[x].plan = <<>> \/ (eng[x].pc = "close" /\ Beyond(eng[x]))

LEMMA CheckpointAdvances ==
  ASSUME EInv, NEW x \in Engine, eng[x].pc # "idle", NEW status, NEW step, NEW calls,
         Checkpoint(x, status, step, calls),
         \/ step = eng[x].step
         \/ /\ step = eng[x].step + 1 /\ eng[x].pc \in Answered
            /\ \/ status \in {"failed", "timed_out"} \/ eng[x].plan = <<>>
               \/ eng[x].pc = "close" /\ eng[x].control # "failed"
  PROVE  run'.step = run.step \/ Advances(x)
<1>0. TInv /\ eng[x].step = run.step
  BY AtWork
<1>1. CASE Fail(x)
  BY <1>1 DEF Fail
<1>2. CASE ~Fail(x)
  <2>1. run'.step = step /\ run'.status = status /\ Commit(x)
    BY <1>2 DEF Checkpoint
  <2>2. CASE step = eng[x].step
    BY <1>0, <2>1, <2>2
  <2>3. CASE step # eng[x].step
    <3>1. steps'[eng[x].step] = eng[x].plan
      BY <1>0, <2>1, <2>3, CommitEffect
    <3>2. QED
      BY <1>0, <2>1, <2>3, <3>1 DEF Advances, Ended, Beyond
  <2>4. QED
    BY <2>2, <2>3
<1>3. QED
  BY <1>1, <1>2

LEMMA StepAdvances ==
  ASSUME EInv, NEW x \in Engine, EngineStep(x) \/ Crash(x)
  PROVE  run'.step = run.step \/ Advances(x)
<1>0. TInv
  BY DEF EInv, SInv
<1>1. CASE Begin(x) \/ Crash(x)
  BY <1>1 DEF Begin, Crash
<1>2. CASE StepLimit(x) \/ LlmFails(x)
  <2>1. PICK status, step, calls :
          eng[x].pc # "idle" /\ Checkpoint(x, status, step, calls) /\ step = eng[x].step
    BY <1>2 DEF StepLimit, LlmFails
  <2>2. QED
    BY <2>1, CheckpointAdvances
<1>3. CASE Admit(x)
  <2>0. eng[x].pc \in Answered /\ eng[x].pc # "idle"
    BY <1>3 DEF Admit, Answered
  <2>1. \/ run' = run
        \/ \E status, step, calls :
             /\ Checkpoint(x, status, step, calls) /\ step = eng[x].step + 1
             /\ status \in {"failed", "timed_out"} \/ eng[x].plan = <<>>
    BY <1>3, Zenon DEF Admit
  <2>2. QED
    BY <2>0, <2>1, CheckpointAdvances
<1>4. CASE Close(x)
  <2>0. eng[x].pc \in Answered /\ eng[x].pc # "idle" /\ eng[x].pc = "close"
    BY <1>4 DEF Close, Answered
  <2>1. PICK status, step, calls :
          /\ Checkpoint(x, status, step, calls)
          /\ \/ step = eng[x].step
             \/ /\ step = eng[x].step + 1
                /\ status = IF eng[x].control = "none" THEN "running" ELSE eng[x].control
    BY <1>4 DEF Close
  <2>2. QED
    BY <2>0, <2>1, CheckpointAdvances
<1>5. CASE ~(Begin(x) \/ Crash(x) \/ StepLimit(x) \/ LlmFails(x) \/ Admit(x) \/ Close(x))
  BY <1>0, <1>5, WorkStays DEF EngineStep, Stays
<1>6. QED
  BY <1>1, <1>2, <1>3, <1>4, <1>5

(* The answers of the steps the run has left do not change. *)
LEMMA LeftKept ==
  ASSUME BInv, Kept
  PROVE  /\ run.step \in Nat /\ run.step \in 0 .. MaxSteps
         /\ \A n \in Step : n < run.step => steps'[n] = steps[n] /\ steps[n] # NULL
<1>1. run.step \in 0 .. MaxSteps /\ MaxSteps \in Nat
  BY RunFacts, ToolAssumption DEF BInv, RunRow
<1>2. QED
  BY <1>1 DEF BInv, Filled, Kept

(* Leaves and enters no step, or leaves one the guardrail let pass *)
LEMMA WrittenKept ==
  ASSUME RInv, Kept, run'.step = run.step, Ended => Ended'
  PROVE  Written' /\ Stopped'
<1>1. /\ run.step \in Nat /\ \A n \in Step : n < run.step => steps'[n] = steps[n]
      /\ MaxSteps \in Nat /\ run.step <= MaxSteps
  BY LeftKept, ToolAssumption DEF RInv
<1>2. Written'
  <2>1. ASSUME ~Ended', NEW n \in Step, n < run'.step, Lone(steps'[n])
        PROVE  exec'[<<n, 1>>] # NULL
    <3>1. <<n, 1>> \in Key
      BY DEF Key
    <3>2. exec[<<n, 1>>] # NULL
      BY <1>1, <2>1 DEF RInv, Written
    <3>3. QED
      BY <3>1, <3>2 DEF Kept
  <2>2. QED
    BY <2>1 DEF Written, Lone
<1>3. Stopped'
  <2>1. ASSUME NEW n \in Step, n < run'.step, Lone(steps'[n]), Third(n, steps[n])'
        PROVE  Ended'
    <3>1. n >= 2 /\ n - 1 \in Step /\ n - 2 \in Step /\ n - 1 < run.step /\ n - 2 < run.step
      BY <1>1, <2>1 DEF Step, Third
    <3>2. steps'[n] = steps[n] /\ steps'[n - 1] = steps[n - 1] /\ steps'[n - 2] = steps[n - 2]
      BY <1>1, <2>1, <3>1
    <3>3. Lone(steps[n]) /\ Third(n, steps[n])
      BY <2>1, <3>2 DEF Third, Like
    <3>4. QED
      BY <2>1, <3>3 DEF RInv, Stopped
  <2>2. QED
    BY <2>1 DEF Stopped, Lone, Third
<1>4. QED
  BY <1>2, <1>3

LEMMA WrittenAdvanced ==
  ASSUME RInv, Kept, NEW x \in Engine, Advances(x)
  PROVE  Written' /\ Stopped'
<1>0. eng[x].pc # "idle" /\ ~Ended
  <2>1. eng[x].pc # "idle"
    BY DEF Advances, Answered
  <2>2. QED
    BY <2>1, AtWork DEF RInv
<1>1. PICK m, p : m = run.step /\ p = eng[x].plan
  OBVIOUS
<1>2. /\ m \in Nat /\ \A n \in Step : n < m => steps'[n] = steps[n]
      /\ MaxSteps \in Nat /\ m <= MaxSteps /\ m \in Step
  <2>1. BInv /\ TInv
    BY DEF RInv, BInv
  <2>2. m \in Step
    BY <1>1, <2>1, MemFacts DEF Advances, Mem
  <2>3. QED
    BY <1>1, <2>1, <2>2, LeftKept, ToolAssumption
<1>3. run'.step = m + 1 /\ steps'[m] = p /\ eng[x].step = m
  BY <1>1 DEF Advances
<1>4. ASSUME ~Ended', Lone(p) PROVE exec[<<m, 1>>] # NULL /\ ~Third(m, p)
  <2>1. eng[x].pc = "close" /\ Beyond(eng[x])
    BY <1>1, <1>4, LoneFacts DEF Advances
  <2>2. QED
    BY <1>1, <1>3, <1>4, <2>1 DEF RInv, Guards, Passed
<1>5. Written'
  <2>1. ASSUME ~Ended', NEW n \in Step, n < run'.step, Lone(steps'[n])
        PROVE  exec'[<<n, 1>>] # NULL
    <3>1. <<n, 1>> \in Key /\ n \in Nat
      BY DEF Key, Step
    <3>2. n < m \/ n = m
      BY <1>2, <1>3, <2>1, <3>1
    <3>3. exec[<<n, 1>>] # NULL
      BY <1>0, <1>1, <1>2, <1>3, <1>4, <2>1, <3>2 DEF RInv, Written
    <3>4. QED
      BY <3>1, <3>3 DEF Kept
  <2>2. QED
    BY <2>1 DEF Written, Lone
<1>6. Stopped'
  <2>1. ASSUME NEW n \in Step, n < run'.step, Lone(steps'[n]), Third(n, steps[n])'
        PROVE  Ended'
    <3>1. /\ n >= 2 /\ n - 1 \in Step /\ n - 2 \in Step /\ n \in Nat
          /\ n - 1 < m /\ n - 2 < m /\ (n < m \/ n = m)
      BY <1>2, <1>3, <2>1 DEF Step, Third
    <3>2. steps'[n - 1] = steps[n - 1] /\ steps'[n - 2] = steps[n - 2]
      BY <1>2, <3>1
    <3>3. CASE n < m
      <4>1. steps'[n] = steps[n]
        BY <1>2, <3>3
      <4>2. Lone(steps[n]) /\ Third(n, steps[n])
        BY <2>1, <3>2, <4>1 DEF Third, Like
      <4>3. QED
        BY <1>0, <1>1, <3>3, <4>2 DEF RInv, Stopped
    <3>4. CASE n = m
      <4>1. Lone(p) /\ Third(m, p)
        BY <1>3, <2>1, <3>2, <3>4 DEF Third, Like
      <4>2. QED
        BY <1>4, <4>1
    <3>5. QED
      BY <3>1, <3>3, <3>4
  <2>2. QED
    BY <2>1 DEF Stopped, Lone, Third
<1>7. QED
  BY <1>5, <1>6

LEMMA RepeatStep ==
  ASSUME MaxZombies = 0, RInv, [Next]_vars
  PROVE  RInv'
<1>0. EInv /\ BInv /\ SInv /\ TInv /\ Order /\ Behind /\ eng \in [Engine -> Memory]
  BY DEF RInv, EInv, SInv, TInv, TypeOK, Tables
<1>1. EInv' /\ BInv'
  BY <1>0, EvidenceStep, BudgetStep
<1>2. ASSUME NEW x \in Engine, EngineStep(x) \/ Crash(x)
      PROVE  Order' /\ Written' /\ Guards' /\ Stopped'
  <2>1. Kept
    BY <1>0, <1>2, KeptStep DEF Next
  <2>2. PICK y \in Memory :
          \/ Blank(x, y) \/ Moved(x, y) \/ Inserted(x, y) \/ Restated(x, y)
          \/ Asked(x, y) \/ Invoked(x, y)
    BY <1>0, <1>2, EngineCases
  <2>3. eng' = [eng EXCEPT ![x] = y]
    BY <2>2 DEF Blank, Moved, Inserted, Starts, Restated, Asked, Invoked, Done
  <2>4. Order'
    BY <1>0, <2>2, AtWork, OrderKept
  <2>5. Guards'
    <3>1. PICK z : z = eng'[x] /\ Passed(z)'
      BY <1>2, <2>1, EarlyPassed, LookupPassed, WorkPassed DEF EngineStep
    <3>2. ASSUME NEW b \in Engine PROVE Passed(eng[b])'
      <4>1. CASE b = x
        BY <3>1, <4>1 DEF Passed, Beyond, Third, Lone
      <4>2. CASE b # x
        <5>1. eng'[b].pc = "idle"
          BY <1>0, <1>2, <2>3, <4>2, Alone
        <5>2. QED
          BY <5>1 DEF Passed, Beyond
      <4>3. QED
        BY <4>1, <4>2
    <3>3. QED
      BY <3>2 DEF Guards
  <2>6. Written' /\ Stopped'
    <3>1. CASE Advances(x)
      BY <2>1, <3>1, WrittenAdvanced
    <3>2. CASE run'.step = run.step
      <4>1. ~Ended
        <5>1. CASE Begin(x)
          BY <5>1 DEF Begin, Ended
        <5>2. CASE ~Begin(x)
          <6>1. eng[x].pc # "idle"
            BY <1>2, <5>2 DEF EngineStep, Crash, StepLimit, StartStep, LlmFails, Answer, Admit,
               Lookup, RecordUnknownTool, ResolveExisting, RecoverStarted, RecordInvalidArguments,
               AskApproval, Denied, Approved, WriteAhead, Invoke, Finalize, Close, Found, Fresh,
               HasTool
          <6>2. QED
            BY <1>0, <6>1, AtWork, SMTT(30)
        <5>3. QED
          BY <5>1, <5>2
      <4>2. QED
        BY <2>1, <3>2, <4>1, WrittenKept
    <3>3. QED
      BY <1>0, <1>2, <3>1, <3>2, StepAdvances
  <2>7. QED
    BY <2>4, <2>5, <2>6
<1>3. ASSUME PostMessage \/ ApprovalStep \/ UNCHANGED vars
      PROVE  Order' /\ Written' /\ Guards' /\ Stopped'
  <2>1. exec' = exec /\ steps' = steps /\ eng' = eng
    BY <1>0, <1>3, ApprovalEffect DEF Decided, vars
  <2>2. run'.step = run.step /\ (Ended => Ended')
    <3>1. ASSUME NEW s, SetStatus(s) PROVE run'.step = run.step
      BY <1>0, <3>1, RunFacts DEF SetStatus, RunRow
    <3>2. CASE UNCHANGED vars
      BY <3>2 DEF vars, Ended
    <3>3. CASE PostMessage \/ ApprovalStep
      BY <3>1, <3>3 DEF PostMessage, ApprovalStep, DecideRead, DecideCommit, ExpireRead,
         ExpireApproval, ExpireRun, ReaperCrash, Ended
    <3>4. QED
      BY <1>3, <3>2, <3>3
  <2>3. Kept
    <3>1. CASE UNCHANGED vars
      BY <3>1 DEF vars, Kept
    <3>2. QED
      BY <1>0, <1>3, <3>1, KeptStep DEF Next
  <2>4. Written' /\ Stopped'
    BY <2>2, <2>3, WrittenKept
  <2>5. Order'
    <3>1. Rows(exec') = Rows(exec)
      BY <2>1
    <3>2. QED
      BY <1>0, <2>1, <3>1 DEF Order, Counted, Dated
  <2>6. Guards'
    BY <2>1 DEF RInv, Guards, Passed, Beyond, Third, Lone
  <2>7. QED
    BY <2>4, <2>5, <2>6
<1>4. QED
  BY <1>1, <1>2, <1>3 DEF RInv, Next

(* The third write in a row that comes to the same, given as it will be    *)
(* recorded, stops the run as long as no lease lapses while its holder     *)
(* still works: check_repeated_calls sees the rows of the two writes       *)
(* before it, or one of them and the call's own after a crash, and the     *)
(* step that it fails ends the run for good.                               *)
THEOREM RepetitionStopped == ASSUME MaxZombies = 0 PROVE Spec => []RepeatedWriteIsStopped
<1>1. Init => RInv
  <2> SUFFICES ASSUME Init PROVE RInv
    OBVIOUS
  <2>1. /\ \A x \in Engine : eng[x].pc = "idle"
        /\ \A k \in Key : exec[k] = NULL
        /\ run.step = 0
    BY IdleMem DEF Init
  <2>2. EInv /\ BInv
    BY EvidenceInit, BudgetInit
  <2>3. \A n \in Step : ~(n < run.step)
    BY <2>1, ToolAssumption DEF Step
  <2>4. QED
    BY <2>1, <2>2, <2>3 DEF RInv, Order, Counted, Dated, Written, Guards, Passed, Beyond, Stopped
<1>2. RInv /\ [Next]_vars => RInv'
  BY RepeatStep
<1>3. RInv => RepeatedWriteIsStopped
  <2> SUFFICES ASSUME RInv, NEW n \in Step, RepeatedAt(n),
                      Tier(steps[n][1].tool) = "low_risk_write",
                      steps[n][1].args = Normalized(steps[n][1].args)
               PROVE  run.status # "running"
    BY DEF RepeatedWriteIsStopped
  <2>1. TInv /\ Filled /\ n \in Nat
    BY ToolAssumption DEF RInv, BInv, Step
  <2>2. n < run.step /\ n >= 2 /\ n \in n - 2 .. n /\ n - 1 \in n - 2 .. n /\ n - 2 \in n - 2 .. n
    BY <2>1 DEF RepeatedAt
  <2>3. Lone(steps[n]) /\ Third(n, steps[n])
    BY <2>1, <2>2, TablesNow DEF RepeatedAt, Filled, Lone, Third, Like
  <2>4. Ended
    BY <2>2, <2>3 DEF RInv, Stopped
  <2>5. QED
    BY <2>4 DEF Ended
<1>4. QED
  BY <1>1, <1>2, <1>3, PTL DEF Spec
=============================================================================
