-------------------------- MODULE RunContextProofs --------------------------
(***************************************************************************)
(* Proofs about RunContext for every set of engines, every number of       *)
(* recent steps to keep, every budget and every number of failures,        *)
(* resumes and overlaps.                                                   *)
(*                                                                         *)
(*   Invariance       the inductive invariant IInv                         *)
(*   HistoryTold      StepIsToldOnce                                       *)
(*   RecentKept       RecentStaysVerbatim                                  *)
(*   RecordsShown     NoMissingRecord                                      *)
(*   SpendingCharged  SpendingIsCharged                                    *)
(*                                                                         *)
(* The committed steps are an interval from 0, the summaries tile its      *)
(* front, and every engine's copy of the run is either the run or stale    *)
(* by its version.                                                         *)
(***************************************************************************)
EXTENDS RunContext, TLAPS, FiniteSetTheorems

(* The agent_runs row and the memory of an engine *)
RunRow == [step : Nat, tokens : Nat, status : {"running", "waiting", "approval", "terminal"},
           cancel : BOOLEAN, version : Nat]
Memory == [pc : {"idle", "step", "summarize", "prompt", "flushed", "tools", "executed"},
           view : RunRow \cup {NULL}, fold : [no : Nat, of : SUBSET Nat], owed : 0 .. 2]

Types ==
  /\ run \in RunRow /\ records \in Nat /\ lost \in Nat
  /\ eng \in [Engine -> Memory]
  /\ IsFiniteSet(Working)

(* How many steps are committed: those before the run's, and maybe it *)
High == IF run.step \in steps THEN run.step + 1 ELSE run.step

(* A step whose calls have no rows is the run's own. *)
Tables ==
  /\ steps = 0 .. High - 1
  /\ \A n \in open : n = run.step /\ n \in steps

Budget ==
  /\ run.tokens <= records
  /\ run.tokens <= TokenBudget + 2
  /\ run.status # "terminal" => run.tokens <= TokenBudget

(* What of an engine's model calls is in usage_records already *)
Spent(y) == IF y.pc = "flushed" THEN y.owed - 1 ELSE y.owed

(* A summary that can still be inserted folds the front of what is left. *)
FoldFits(y) ==
  /\ y.fold.no # 0 /\ y.fold.no <= Cardinality(summaries) + 1
  /\ y.fold.no = Cardinality(summaries) + 1 =>
       \E m \in Nat : y.fold.of = Covered .. m /\ Covered <= m /\ m + Keep < High

(* What the memory y of an engine stands for *)
Good(y) ==
  /\ y.pc # "idle" =>
       /\ y.view \in RunRow /\ y.view.status = "running" /\ y.view.tokens <= TokenBudget
       /\ y.view.version <= run.version
       /\ y.view.version = run.version => y.view = run
       /\ y.view.step <= run.step
       /\ y.view.tokens + Spent(y) <= records
  /\ y.pc \in {"idle", "step", "summarize"} => y.owed = 0
  /\ y.pc = "prompt" => y.owed <= 1
  /\ y.pc = "flushed" => y.owed # 0 /\ y.view.step \notin steps
  /\ y.pc = "tools" => y.view.step \in steps /\ y.view.tokens + y.owed <= TokenBudget
  /\ y.pc = "executed" => y.view.step \in steps /\ y.view.step \notin open
  /\ y.pc = "summarize" => FoldFits(y)

Sessions == \A e \in Engine : Good(eng[e])

(* One session at a time holds a flushed step. *)
Exclusive == \A a, b \in Engine : Holds(a) /\ Holds(b) /\ View(a).step = View(b).step => a = b

(* The summaries are numbered in order and tile the steps before Covered. *)
Told ==
  /\ IsFiniteSet(summaries)
  /\ \A s \in summaries : s.no \in 1 .. Cardinality(summaries)
  /\ \A n \in 1 .. Cardinality(summaries) : NumberTaken(n)
  /\ Covered \in Nat /\ (Covered # 0 => Covered + Keep <= High)
  /\ \A s \in summaries : Max(s.of) \in Nat /\ Max(s.of) < Covered
  /\ \A s \in summaries : s.of # {} /\ s.of \subseteq 0 .. Covered - 1
  /\ \A n \in 0 .. Covered - 1 : \E s \in summaries : n \in s.of
  /\ \A s, t \in summaries : s # t => s.of \cap t.of = {}

(* The engines with at least one, and with two, uncharged records *)
Some == {e \in Engine : eng[e].pc # "idle" /\ Spent(eng[e]) >= 1}
Both == {e \in Engine : eng[e].pc # "idle" /\ Spent(eng[e]) >= 2}

Charges == records <= run.tokens + 2 * lost + Cardinality(Some) + Cardinality(Both)

IInv == Types /\ Tables /\ Budget /\ Sessions /\ Exclusive /\ Told /\ Charges
-----------------------------------------------------------------------------
LEMMA MaxIs ==
  ASSUME NEW S, NEW m \in S, S \subseteq Int, \A n \in S : n <= m
  PROVE  Max(S) = m
<1>1. m \in S /\ \A n \in S : m >= n
  OBVIOUS
<1>2. Max(S) \in S /\ \A n \in S : Max(S) >= n
  BY <1>1 DEF Max
<1>3. PICK k : k = Max(S)
  OBVIOUS
<1>4. k \in Int /\ m \in Int /\ k >= m /\ m >= k
  BY <1>1, <1>2, <1>3
<1>5. k = m
  BY <1>4
<1>6. QED
  BY <1>3, <1>5

LEMMA IdleMemory == Idle \in Memory /\ Idle.pc = "idle" /\ Idle.owed = 0
<1>1. None \in [no : Nat, of : SUBSET Nat]
  BY DEF None
<1>2. QED
  BY <1>1 DEF Idle, Memory

LEMMA IdleGood == Good(Idle)
BY IdleMemory DEF Good

(* The memory of an engine that has loaded a run *)
LEMMA LoadedMemory ==
  ASSUME NEW row \in RunRow, NEW y, y = [Idle EXCEPT !.pc = "step", !.view = row]
  PROVE  y \in Memory /\ y.pc = "step" /\ y.view = row /\ y.owed = 0
BY IdleMemory DEF Idle, Memory

LEMMA Constants == Keep \in Nat /\ Keep > 0 /\ MaxSteps \in Nat /\ TokenBudget \in Nat
BY ContextAssumption

LEMMA SessionFacts ==
  ASSUME IInv, NEW e \in Engine
  PROVE  /\ eng \in [Engine -> Memory] /\ eng[e] \in Memory /\ Good(eng[e])
         /\ eng[e].owed \in 0 .. 2
BY DEF IInv, Types, Sessions, Memory

LEMMA RowFacts ==
  ASSUME NEW row \in RunRow
  PROVE  /\ row.step \in Nat /\ row.tokens \in Nat /\ row.version \in Nat
         /\ row.cancel \in BOOLEAN /\ row.status \in {"running", "waiting", "approval", "terminal"}
BY DEF RunRow

(* The committed steps *)
LEMMA HighFacts ==
  ASSUME IInv
  PROVE  /\ run.step \in Nat /\ High \in Nat /\ High \in {run.step, run.step + 1}
         /\ steps = 0 .. High - 1
         /\ \A n \in Nat : n < run.step => n \in steps
         /\ \A n \in steps : n \in Nat /\ n <= run.step
<1>1. run.step \in Nat
  BY RowFacts DEF IInv, Types
<1>2. High \in Nat /\ High \in {run.step, run.step + 1} /\ steps = 0 .. High - 1
  BY <1>1 DEF IInv, Tables, High
<1>3. QED
  BY <1>1, <1>2

(* A step that is not committed yet is the run's own. *)
LEMMA HeldStep ==
  ASSUME IInv, NEW n \in Nat, n <= run.step, n \notin steps
  PROVE  n = run.step /\ High = run.step
<1>1. n = run.step
  BY HighFacts
<1>2. QED
  BY <1>1 DEF High
-----------------------------------------------------------------------------
(* The engines' memories and sums *)
LEMMA SpentFacts ==
  ASSUME IInv, NEW e \in Engine
  PROVE  /\ Spent(eng[e]) \in 0 .. 2
         /\ eng[e].pc = "flushed" => Spent(eng[e]) = eng[e].owed - 1 /\ eng[e].owed \in 1 .. 2
         /\ eng[e].pc # "flushed" => Spent(eng[e]) = eng[e].owed
<1>1. eng[e].owed \in 0 .. 2 /\ (eng[e].pc = "flushed" => eng[e].owed # 0)
  BY SessionFacts DEF Good
<1>2. QED
  BY <1>1 DEF Spent

LEMMA Finite ==
  ASSUME IInv
  PROVE  /\ IsFiniteSet(Working) /\ IsFiniteSet(Some) /\ IsFiniteSet(Both)
         /\ Some \subseteq Working /\ Both \subseteq Working
         /\ Cardinality(Working) \in Nat /\ Cardinality(Some) \in Nat /\ Cardinality(Both) \in Nat
<1>1. IsFiniteSet(Working) /\ Some \subseteq Working /\ Both \subseteq Working
  BY DEF IInv, Types, Some, Both, Working
<1>2. IsFiniteSet(Some) /\ IsFiniteSet(Both)
  BY <1>1, FS_Subset
<1>3. QED
  BY <1>1, <1>2, FS_CardinalityType

(* Sets that differ in one member at most *)
Near(S, T, e) == \A b : b # e => (b \in T <=> b \in S)

LEMMA Counting ==
  ASSUME NEW S, IsFiniteSet(S), NEW T, NEW e, Near(S, T, e)
  PROVE  /\ IsFiniteSet(T)
         /\ e \in S /\ e \notin T => Cardinality(T) = Cardinality(S) - 1
         /\ e \notin S /\ e \in T => Cardinality(T) = Cardinality(S) + 1
         /\ (e \in S <=> e \in T) => Cardinality(T) = Cardinality(S)
<1>1. CASE e \in S /\ e \notin T
  <2>1. T = S \ {e}
    BY <1>1 DEF Near
  <2>2. QED
    BY <1>1, <2>1, FS_RemoveElement
<1>2. CASE e \notin S /\ e \in T
  <2>1. T = S \cup {e}
    BY <1>2 DEF Near
  <2>2. QED
    BY <1>2, <2>1, FS_AddElement
<1>3. CASE e \in S <=> e \in T
  <2>1. T = S
    BY <1>3 DEF Near
  <2>2. QED
    BY <1>3, <2>1
<1>4. QED
  BY <1>1, <1>2, <1>3

(* What a step of e that leaves it with the memory y adds to the sums *)
LEMMA Sums ==
  ASSUME IInv, NEW e \in Engine, NEW y \in Memory, eng' = [eng EXCEPT ![e] = y],
         Spent(y) \in 0 .. 2, y.pc = "idle" => Spent(y) = 0
  PROVE  /\ IsFiniteSet(Working')
         /\ Cardinality(Some') \in Nat /\ Cardinality(Both') \in Nat
         /\ Cardinality(Some') + Cardinality(Both') + Spent(eng[e])
              = Cardinality(Some) + Cardinality(Both) + Spent(y)
<1>1. eng'[e] = y /\ \A b \in Engine : b # e => eng'[b] = eng[b]
  BY SessionFacts
<1>2. Spent(eng[e]) \in 0 .. 2 /\ (eng[e].pc = "idle" => Spent(eng[e]) = 0)
  BY SpentFacts, SessionFacts DEF Good, Spent
<1>3. /\ e \in Some <=> Spent(eng[e]) >= 1
      /\ e \in Both <=> Spent(eng[e]) >= 2
      /\ e \in Some' <=> Spent(y) >= 1
      /\ e \in Both' <=> Spent(y) >= 2
  <2>1. (e \in Some <=> Spent(eng[e]) >= 1) /\ (e \in Both <=> Spent(eng[e]) >= 2)
    BY <1>2 DEF Some, Both
  <2>2. Spent(eng[e])' = Spent(y)
    BY <1>1 DEF Spent
  <2>3. QED
    BY <1>1, <2>1, <2>2 DEF Some, Both
<1>4. \A b \in Engine : b # e => /\ b \in Some' <=> b \in Some
                                 /\ b \in Both' <=> b \in Both
                                 /\ b \in Working' <=> b \in Working
  BY <1>1 DEF Some, Both, Working, Spent
<1>5. /\ Some \subseteq Engine /\ Both \subseteq Engine /\ Working \subseteq Engine
      /\ Some' \subseteq Engine /\ Both' \subseteq Engine /\ Working' \subseteq Engine
  BY DEF Some, Both, Working
<1>6. Near(Some, Some', e) /\ Near(Both, Both', e) /\ Near(Working, Working', e)
  BY <1>4, <1>5 DEF Near
<1>7. IsFiniteSet(Working') /\ IsFiniteSet(Some') /\ IsFiniteSet(Both')
  <2>1. IsFiniteSet(Working) /\ IsFiniteSet(Some) /\ IsFiniteSet(Both)
    BY Finite
  <2>2. IsFiniteSet(Working')
    BY <1>6, <2>1, Counting
  <2>3. IsFiniteSet(Some')
    BY <1>6, <2>1, Counting
  <2>4. IsFiniteSet(Both')
    BY <1>6, <2>1, Counting
  <2>5. QED
    BY <2>2, <2>3, <2>4
<1>8. /\ Spent(eng[e]) >= 1 /\ ~(Spent(y) >= 1) => Cardinality(Some') = Cardinality(Some) - 1
      /\ ~(Spent(eng[e]) >= 1) /\ Spent(y) >= 1 => Cardinality(Some') = Cardinality(Some) + 1
      /\ (Spent(eng[e]) >= 1 <=> Spent(y) >= 1) => Cardinality(Some') = Cardinality(Some)
  <2>1. /\ e \in Some /\ e \notin Some' => Cardinality(Some') = Cardinality(Some) - 1
        /\ e \notin Some /\ e \in Some' => Cardinality(Some') = Cardinality(Some) + 1
        /\ (e \in Some <=> e \in Some') => Cardinality(Some') = Cardinality(Some)
    BY <1>6, Finite, Counting, Zenon
  <2>2. QED
    BY <1>3, <2>1
<1>9. /\ Spent(eng[e]) >= 2 /\ ~(Spent(y) >= 2) => Cardinality(Both') = Cardinality(Both) - 1
      /\ ~(Spent(eng[e]) >= 2) /\ Spent(y) >= 2 => Cardinality(Both') = Cardinality(Both) + 1
      /\ (Spent(eng[e]) >= 2 <=> Spent(y) >= 2) => Cardinality(Both') = Cardinality(Both)
  <2>1. /\ e \in Both /\ e \notin Both' => Cardinality(Both') = Cardinality(Both) - 1
        /\ e \notin Both /\ e \in Both' => Cardinality(Both') = Cardinality(Both) + 1
        /\ (e \in Both <=> e \in Both') => Cardinality(Both') = Cardinality(Both)
    BY <1>6, Finite, Counting, Zenon
  <2>2. QED
    BY <1>3, <2>1
<1>10. Cardinality(Some') \in Nat /\ Cardinality(Both') \in Nat
  BY <1>7, FS_CardinalityType
<1>11. QED
  BY <1>2, <1>7, <1>8, <1>9, <1>10, Finite
-----------------------------------------------------------------------------
(* What a step may change so that the other engines' memories stay good *)
Kept ==
  /\ run' \in RunRow /\ records' \in Nat
  /\ run' = run \/ run'.version = run.version + 1
  /\ run.step <= run'.step
  /\ records <= records'
  /\ steps \subseteq steps'
  /\ \A n \in open' : n \in open \/ n \notin steps
  /\ High' \in Nat /\ High <= High'
  /\ \/ summaries' = summaries
     \/ Cardinality(summaries') = Cardinality(summaries) + 1

LEMMA GoodKept ==
  ASSUME IInv, Kept, NEW y \in Memory, Good(y), y.pc = "flushed" => y.view.step \notin steps'
  PROVE  Good(y)'
<1>1. y.pc # "idle" =>
       /\ y.view \in RunRow /\ y.view.status = "running" /\ y.view.tokens <= TokenBudget
       /\ y.view.version <= run'.version
       /\ y.view.version = run'.version => y.view = run'
       /\ y.view.step <= run'.step
       /\ y.view.tokens + Spent(y) <= records'
  <2>1. SUFFICES ASSUME y.pc # "idle"
                 PROVE  /\ y.view.version <= run'.version
                        /\ y.view.version = run'.version => y.view = run'
                        /\ y.view.step <= run'.step
                        /\ y.view.tokens + Spent(y) <= records'
    BY DEF Good
  <2>2. /\ y.view \in RunRow /\ y.view.version <= run.version
        /\ y.view.version = run.version => y.view = run
        /\ y.view.step <= run.step /\ y.view.tokens + Spent(y) <= records
    BY <2>1 DEF Good
  <2>3. /\ y.view.version \in Nat /\ y.view.step \in Nat /\ y.view.tokens \in Nat
        /\ run.version \in Nat /\ run.step \in Nat /\ run'.step \in Nat /\ run'.version \in Nat
        /\ records \in Nat /\ records' \in Nat
    BY <2>2, RowFacts DEF Kept, IInv, Types
  <2>4. Spent(y) \in Int
    <3>1. y.owed \in Int
      BY DEF Memory
    <3>2. QED
      BY <3>1 DEF Spent
  <2>5. QED
    BY <2>2, <2>3, <2>4 DEF Kept
<1>2. y.pc = "tools" => y.view.step \in steps' /\ y.view.tokens + y.owed <= TokenBudget
  BY DEF Good, Kept
<1>3. y.pc = "executed" => y.view.step \in steps' /\ y.view.step \notin open'
  BY DEF Good, Kept
<1>4. y.pc = "summarize" => FoldFits(y)'
  <2>1. SUFFICES ASSUME y.pc = "summarize" PROVE FoldFits(y)'
    OBVIOUS
  <2>2. FoldFits(y)
    BY <2>1 DEF Good
  <2>3. y.fold.no \in Nat /\ Cardinality(summaries) \in Nat /\ High \in Nat /\ Keep \in Nat
    BY FS_CardinalityType, HighFacts, Constants DEF Memory, IInv, Told
  <2>4. CASE summaries' = summaries
    <3>1. PICK c : c = Covered /\ c = Covered'
      BY <2>4 DEF Covered
    <3>2. y.fold.no = Cardinality(summaries) + 1 =>
            \E m \in Nat : y.fold.of = c .. m /\ c <= m /\ m + Keep < High'
      <4>1. \A m \in Nat : m + Keep < High => m + Keep < High'
        BY <2>3 DEF Kept
      <4>2. QED
        BY <2>2, <3>1, <4>1 DEF FoldFits
    <3>3. QED
      BY <2>2, <2>4, <3>1, <3>2 DEF FoldFits
  <2>5. CASE Cardinality(summaries') = Cardinality(summaries) + 1
    <3>1. y.fold.no <= Cardinality(summaries') /\ Cardinality(summaries') \in Nat
      BY <2>2, <2>3, <2>5 DEF FoldFits
    <3>2. y.fold.no <= Cardinality(summaries') + 1 /\ y.fold.no # Cardinality(summaries') + 1
      BY <2>3, <3>1
    <3>3. QED
      BY <2>2, <3>2 DEF FoldFits
  <2>6. QED
    BY <2>4, <2>5 DEF Kept
<1>5. QED
  BY <1>1, <1>2, <1>3, <1>4 DEF Good, Spent

LEMMA SessionsStep ==
  ASSUME IInv, Kept, NEW e \in Engine, NEW y \in Memory, eng' = [eng EXCEPT ![e] = y], Good(y)',
         \A b \in Engine \ {e} : Holds(b) => View(b).step \notin steps',
         y.pc = "flushed" => \A b \in Engine \ {e} : Holds(b) => View(b).step # y.view.step
  PROVE  eng' \in [Engine -> Memory] /\ Sessions' /\ Exclusive'
<1>1. /\ eng' \in [Engine -> Memory] /\ eng'[e] = y
      /\ \A b \in Engine : b # e => eng'[b] = eng[b]
  BY SessionFacts
<1>2. ASSUME NEW b \in Engine PROVE Good(eng[b])'
  <2>1. PICK z \in Memory : z = eng'[b] /\ (b = e => z = y) /\ (b # e => z = eng[b])
    BY <1>1
  <2>2. Good(z)'
    <3>1. CASE b = e
      BY <2>1, <3>1
    <3>2. CASE b # e
      <4>1. Good(z) /\ (z.pc = "flushed" => z.view.step \notin steps')
        BY <2>1, <3>2, SessionFacts DEF Holds, View
      <4>2. QED
        BY <4>1, GoodKept
    <3>3. QED
      BY <3>1, <3>2
  <2>3. QED
    BY <2>1, <2>2 DEF Good, FoldFits, Spent
<1>3. Exclusive'
  BY <1>1 DEF Exclusive, Holds, View, IInv
<1>4. QED
  BY <1>1, <1>2, <1>3 DEF Sessions

LEMMA ToldKept ==
  ASSUME IInv, summaries' = summaries, High' \in Nat, High <= High'
  PROVE  Told'
<1>1. PICK c \in Nat : c = Covered /\ c = Covered'
  BY DEF Covered, IInv, Told
<1>2. c # 0 => c + Keep <= High'
  <2>1. (c # 0 => c + Keep <= High) /\ High \in Nat /\ Keep \in Nat
    BY <1>1, HighFacts, Constants DEF IInv, Told
  <2>2. QED
    BY <2>1
<1>3. /\ IsFiniteSet(summaries)'
      /\ (\A s \in summaries : s.no \in 1 .. Cardinality(summaries))'
      /\ (\A n \in 1 .. Cardinality(summaries) : NumberTaken(n))'
  BY DEF IInv, Told, NumberTaken
<1>4. /\ (\A s \in summaries : Max(s.of) \in Nat /\ Max(s.of) < Covered)'
      /\ (\A s \in summaries : s.of # {} /\ s.of \subseteq 0 .. Covered - 1)'
      /\ (\A n \in 0 .. Covered - 1 : \E s \in summaries : n \in s.of)'
      /\ (\A s, t \in summaries : s # t => s.of \cap t.of = {})'
  <2>1. Covered' = Covered
    BY <1>1
  <2>2. QED
    BY <2>1 DEF IInv, Told
<1>5. (Covered \in Nat /\ (Covered # 0 => Covered + Keep <= High))'
  BY <1>1, <1>2
<1>6. QED
  BY <1>3, <1>4, <1>5 DEF Told

LEMMA Numbers ==
  ASSUME IInv
  PROVE  /\ run \in RunRow /\ run.step \in Nat /\ run.tokens \in Nat /\ run.version \in Nat
         /\ records \in Nat /\ lost \in Nat /\ TokenBudget \in Nat /\ Keep \in Nat
         /\ Cardinality(Some) \in Nat /\ Cardinality(Both) \in Nat
         /\ records <= run.tokens + 2 * lost + Cardinality(Some) + Cardinality(Both)
BY RowFacts, Finite, Constants DEF IInv, Types, Charges

(* Only the memory of e changes, and its share of the records does not. *)
Moved(e, y) ==
  /\ y \in Memory /\ eng' = [eng EXCEPT ![e] = y] /\ Good(y) /\ y.pc # "idle"
  /\ Spent(y) = Spent(eng[e])
  /\ y.pc = "flushed" => \A b \in Engine \ {e} : Holds(b) => View(b).step # y.view.step
  /\ UNCHANGED <<run, steps, open, summaries, records, lost>>

LEMMA MovedStep ==
  ASSUME IInv, NEW e \in Engine, NEW y \in Memory, Moved(e, y)
  PROVE  IInv'
<1>1. High' = High /\ High \in Nat
  BY HighFacts DEF Moved, High
<1>2. Kept
  BY <1>1, Numbers DEF Moved, Kept
<1>3. Covered' = Covered
  BY DEF Moved, Covered
<1>4. Good(y)'
  <2>1. y.pc = "flushed" => y.view.step \notin steps'
    BY DEF Moved, Good
  <2>2. QED
    BY <1>2, <2>1, GoodKept DEF Moved
<1>5. \A b \in Engine \ {e} : Holds(b) => View(b).step \notin steps'
  BY SessionFacts DEF Moved, Holds, View, Good
<1>6. eng' \in [Engine -> Memory] /\ Sessions' /\ Exclusive'
  BY <1>2, <1>4, <1>5, SessionsStep DEF Moved
<1>7. Spent(y) \in 0 .. 2 /\ (y.pc = "idle" => Spent(y) = 0)
  BY SpentFacts DEF Moved
<1>8. /\ IsFiniteSet(Working') /\ Cardinality(Some') \in Nat /\ Cardinality(Both') \in Nat
      /\ Cardinality(Some') + Cardinality(Both') + Spent(eng[e])
           = Cardinality(Some) + Cardinality(Both) + Spent(y)
  BY <1>7, Sums DEF Moved
<1>9. Charges'
  <2>1. records' = records /\ run' = run /\ lost' = lost /\ Spent(eng[e]) = Spent(y)
    BY DEF Moved
  <2>2. QED
    BY <1>7, <1>8, <2>1, Numbers DEF Charges
<1>10. Types' /\ Tables' /\ Budget'
  BY <1>1, <1>6, <1>8 DEF Moved, IInv, Types, Tables, Budget
<1>11. Told'
  BY <1>1, ToldKept DEF Moved
<1>12. QED
  BY <1>6, <1>9, <1>10, <1>11 DEF IInv

(* The engine ends without charging the run. *)
LEMMA AbortStep ==
  ASSUME IInv, NEW e \in Engine, Abort(e)
  PROVE  IInv'
<1>0. /\ eng' = [eng EXCEPT ![e] = Idle] /\ lost' = lost + 1
      /\ UNCHANGED <<run, steps, open, summaries, records>>
  BY DEF Abort, table
<1>1. High' = High /\ High \in Nat
  BY <1>0, HighFacts DEF High
<1>2. Kept
  BY <1>0, <1>1, Numbers DEF Kept
<1>3. Good(Idle)' /\ Idle \in Memory /\ Idle.pc = "idle" /\ Spent(Idle) = 0
  BY IdleMemory DEF Good, Spent, Idle
<1>4. \A b \in Engine \ {e} : Holds(b) => View(b).step \notin steps'
  BY <1>0, SessionFacts DEF Holds, View, Good
<1>5. eng' \in [Engine -> Memory] /\ Sessions' /\ Exclusive'
  BY <1>0, <1>2, <1>3, <1>4, SessionsStep
<1>6. /\ IsFiniteSet(Working') /\ Cardinality(Some') \in Nat /\ Cardinality(Both') \in Nat
      /\ Cardinality(Some') + Cardinality(Both') + Spent(eng[e])
           = Cardinality(Some) + Cardinality(Both) + 0
  <2>1. 0 \in 0 .. 2
    OBVIOUS
  <2>2. QED
    BY <1>0, <1>3, <2>1, Sums
<1>7. Charges'
  <2>1. Spent(eng[e]) \in Nat /\ Spent(eng[e]) <= 2
    BY SpentFacts
  <2>2. QED
    BY <1>0, <1>6, <2>1, Numbers DEF Charges
<1>8. Types' /\ Tables' /\ Budget'
  BY <1>0, <1>1, <1>5, <1>6, Numbers DEF IInv, Types, Tables, Budget
<1>9. Told'
  BY <1>0, <1>1, ToldKept
<1>10. QED
  BY <1>5, <1>7, <1>8, <1>9 DEF IInv

(* A user or the API changes the run. *)
Posted ==
  /\ run' \in RunRow /\ run'.version = run.version + 1
  /\ run'.step = run.step /\ run'.tokens = run.tokens
  /\ run'.status # "terminal" => run.status # "terminal"
  /\ UNCHANGED <<steps, open, summaries, records, eng, lost>>

LEMMA PostedStep ==
  ASSUME IInv, Posted
  PROVE  IInv'
<1>1. High' = High /\ High \in Nat
  BY HighFacts DEF Posted, High
<1>2. Kept
  BY <1>1, Numbers DEF Posted, Kept
<1>3. Sessions'
  <2>1. ASSUME NEW b \in Engine PROVE Good(eng[b])'
    <3>1. PICK z \in Memory : z = eng[b] /\ z = eng'[b] /\ Good(z)
      BY SessionFacts DEF Posted
    <3>2. Good(z)'
      BY <1>2, <3>1, GoodKept DEF Posted, Good
    <3>3. QED
      BY <3>1, <3>2 DEF Good, FoldFits, Spent
  <2>2. QED
    BY <2>1 DEF Sessions
<1>4. Some' = Some /\ Both' = Both /\ Working' = Working
  BY DEF Posted, Some, Both, Working, Spent
<1>5. Types' /\ Tables' /\ Budget' /\ Exclusive' /\ Charges'
  BY <1>1, <1>4, Numbers DEF Posted, IInv, Types, Tables, Budget, Exclusive, Holds, View, Charges
<1>6. Told'
  BY <1>1, ToldKept DEF Posted
<1>7. QED
  BY <1>3, <1>5, <1>6 DEF IInv

(* The checkpoint of an engine whose copy of the run is current *)
Saved(e, y) ==
  /\ eng[e].pc # "idle" /\ eng[e].view = run
  /\ run' \in RunRow /\ run'.version = run.version + 1
  /\ run'.status # "terminal" => run'.tokens <= TokenBudget
  /\ \/ run'.tokens = run.tokens + eng[e].owed /\ lost' = lost
     \/ run'.tokens = run.tokens /\ lost' = lost + 1 /\ ~Holds(e)
  /\ \/ run'.step = run.step /\ ~Holds(e)
     \/ run'.step = run.step + 1 /\ eng[e].pc \in {"flushed", "executed"}
  /\ steps' = IF Holds(e) THEN steps \cup {run.step} ELSE steps
  /\ records' = IF Holds(e) THEN records + 1 ELSE records
  /\ y \in Memory /\ eng' = [eng EXCEPT ![e] = y]
  /\ y.pc \in {"idle", "step"} /\ y.owed = 0
  /\ y.pc = "step" => y.view = run' /\ run'.status = "running"
  /\ UNCHANGED <<open, summaries>>

LEMMA SavedTables ==
  ASSUME IInv, NEW e \in Engine, NEW y \in Memory, Saved(e, y)
  PROVE  Tables' /\ High' \in Nat /\ High <= High' /\ run'.step \in Nat /\ run.step <= run'.step
<1>1. run.step \in Nat /\ run'.step \in Nat /\ run' \in RunRow /\ open' = open
  BY Numbers, RowFacts DEF Saved
<1>2. CASE run'.step = run.step /\ ~Holds(e)
  <2>1. steps' = steps
    BY <1>2 DEF Saved
  <2>2. High' = High
    BY <1>2, <2>1 DEF High
  <2>3. QED
    BY <1>1, <1>2, <2>1, <2>2, HighFacts DEF IInv, Tables
<1>3. CASE run'.step = run.step + 1 /\ eng[e].pc \in {"flushed", "executed"}
  <2>1. Good(eng[e]) /\ eng[e].view = run
    BY SessionFacts DEF Saved
  <2>2. open = {}
    BY <1>3, <2>1 DEF Good, IInv, Tables
  <2>3. steps' = 0 .. run.step
    <3>1. CASE eng[e].pc = "flushed"
      <4>1. run.step \notin steps /\ High = run.step
        BY <2>1, <3>1 DEF Good, High
      <4>2. steps = 0 .. run.step - 1 /\ steps' = steps \cup {run.step}
        BY <3>1, <4>1, HighFacts DEF Saved, Holds
      <4>3. QED
        BY <1>1, <4>2
    <3>2. CASE eng[e].pc = "executed"
      <4>1. run.step \in steps /\ High = run.step + 1
        BY <2>1, <3>2 DEF Good, High
      <4>2. steps = 0 .. High - 1 /\ steps' = steps
        BY <3>2, HighFacts DEF Saved, Holds
      <4>3. QED
        BY <1>1, <4>1, <4>2
    <3>3. QED
      BY <1>3, <3>1, <3>2
  <2>4. High' = run.step + 1
    <3>1. run'.step \notin steps'
      BY <1>1, <1>3, <2>3
    <3>2. QED
      BY <1>3, <3>1 DEF High
  <2>5. QED
    BY <1>1, <1>3, <2>2, <2>3, <2>4, HighFacts DEF Tables
<1>4. QED
  BY <1>2, <1>3 DEF Saved

LEMMA SavedStep ==
  ASSUME IInv, NEW e \in Engine, NEW y \in Memory, Saved(e, y)
  PROVE  IInv'
<1>0. /\ eng[e].pc # "idle" /\ eng[e].view = run /\ eng[e] \in Memory /\ Good(eng[e])
      /\ run' \in RunRow /\ run'.tokens \in Nat /\ run'.version \in Nat
  BY SessionFacts, RowFacts DEF Saved
<1>1. Tables' /\ High' \in Nat /\ High <= High' /\ run'.step \in Nat /\ run.step <= run'.step
  BY SavedTables
<1>2. records' \in {records, records + 1} /\ (records' = records + 1 <=> Holds(e))
  BY Numbers DEF Saved
<1>3. Kept
  BY <1>1, <1>2, Numbers DEF Saved, Kept
<1>4. /\ Spent(eng[e]) \in Nat /\ Spent(eng[e]) <= 2 /\ eng[e].owed \in Nat /\ eng[e].owed <= 2
      /\ run.tokens + Spent(eng[e]) <= records
      /\ Holds(e) => eng[e].owed = Spent(eng[e]) + 1
      /\ ~Holds(e) => eng[e].owed = Spent(eng[e])
  BY <1>0, SpentFacts, SessionFacts DEF Good, Holds
<1>5. Budget'
  <2>1. run.tokens <= TokenBudget
    BY <1>0 DEF Good
  <2>2. run'.tokens <= run.tokens + eng[e].owed
    BY <1>4, Numbers DEF Saved
  <2>3. run'.tokens <= records'
    BY <1>0, <1>2, <1>4, <2>2, Numbers
  <2>4. run'.tokens <= TokenBudget + 2
    BY <1>0, <1>4, <2>1, <2>2, Numbers
  <2>5. QED
    BY <2>3, <2>4 DEF Budget, Saved
<1>6. Good(y)'
  <2>1. Spent(y) = 0 /\ y.pc \in {"idle", "step"}
    BY DEF Saved, Spent
  <2>2. y.pc # "idle" => y.view = run' /\ run'.status = "running"
    BY DEF Saved
  <2>3. run'.tokens + 0 <= records' /\ (run'.status = "running" => run'.tokens <= TokenBudget)
    BY <1>0, <1>5 DEF Budget
  <2>4. run'.version <= run'.version /\ run'.step <= run'.step
    BY <1>0, <1>1
  <2>5. y.owed = 0
    BY DEF Saved
  <2>6. QED
    BY <1>0, <2>1, <2>2, <2>3, <2>4, <2>5 DEF Good, Spent
<1>7. \A b \in Engine \ {e} : Holds(b) => View(b).step \notin steps'
  <2>1. SUFFICES ASSUME NEW b \in Engine, b # e, Holds(b) PROVE View(b).step \notin steps'
    OBVIOUS
  <2>2. View(b).step \notin steps
    BY <2>1, SessionFacts DEF Good, Holds, View
  <2>3. Holds(e) => View(b).step # run.step
    BY <1>0, <2>1 DEF IInv, Exclusive, View
  <2>4. QED
    BY <2>2, <2>3 DEF Saved
<1>8. eng' \in [Engine -> Memory] /\ Sessions' /\ Exclusive'
  BY <1>3, <1>6, <1>7, SessionsStep DEF Saved
<1>9. /\ IsFiniteSet(Working') /\ Cardinality(Some') \in Nat /\ Cardinality(Both') \in Nat
      /\ Cardinality(Some') + Cardinality(Both') + Spent(eng[e])
           = Cardinality(Some) + Cardinality(Both) + 0
  <2>1. 0 \in 0 .. 2 /\ Spent(y) = 0 /\ eng' = [eng EXCEPT ![e] = y]
    BY DEF Saved, Spent
  <2>2. QED
    BY <2>1, Sums
<1>10. Charges' /\ lost' \in Nat
  <2>1. CASE run'.tokens = run.tokens + eng[e].owed /\ lost' = lost
    BY <1>2, <1>4, <1>9, <2>1, Numbers DEF Charges
  <2>2. CASE run'.tokens = run.tokens /\ lost' = lost + 1 /\ ~Holds(e)
    BY <1>2, <1>4, <1>9, <2>2, Numbers DEF Charges
  <2>3. QED
    BY <2>1, <2>2 DEF Saved
<1>11. Types'
  BY <1>0, <1>2, <1>8, <1>9, <1>10, Numbers DEF Types
<1>12. Told'
  BY <1>1, ToldKept DEF Saved
<1>13. QED
  BY <1>1, <1>5, <1>8, <1>10, <1>11, <1>12 DEF IInv

LEMMA CommitStepStep ==
  ASSUME IInv, NEW e \in Engine, CommitStep(e)
  PROVE  IInv'
<1> DEFINE m == eng[e]
           z == [m EXCEPT !.pc = "tools"]
<1>0. /\ m \in Memory /\ Good(m) /\ m.pc = "flushed" /\ m.view \in RunRow /\ m.view.step \in Nat
      /\ m.view.tokens \in Nat /\ m.owed \in 1 .. 2
  BY SessionFacts, RowFacts, SpentFacts DEF CommitStep, Holds, Good
<1>1. PICK y \in Memory :
        /\ y.pc = "tools" /\ y.view = m.view /\ y.owed = m.owed /\ eng' = [eng EXCEPT ![e] = y]
  <2>1. z \in Memory /\ z.pc = "tools" /\ z.view = m.view /\ z.owed = m.owed
    BY <1>0 DEF Memory
  <2>2. eng' = [eng EXCEPT ![e] = z]
    BY SessionFacts DEF CommitStep
  <2> HIDE DEF z
  <2>3. QED
    BY <2>1, <2>2
<1>2. m.view.step = run.step /\ High = run.step /\ m.view.step \notin steps
  BY <1>0, HeldStep DEF Good
<1>3. /\ steps' = steps \cup {run.step} /\ records' = records + 1
      /\ open' = open \cup {run.step} /\ m.view.tokens + m.owed <= TokenBudget
      /\ UNCHANGED <<run, summaries, lost>>
  BY <1>2 DEF CommitStep, View, Recorded
<1>4. High' = run.step + 1 /\ High' \in Nat /\ High <= High'
  <2>1. High' = run.step + 1
    BY <1>3 DEF High
  <2>2. QED
    BY <1>2, <2>1, Numbers
<1>5. Tables'
  <2>1. steps = 0 .. run.step - 1 /\ run.step \in Nat /\ run' = run
    BY <1>2, <1>3, HighFacts
  <2>2. steps' = 0 .. run.step
    BY <1>3, <2>1
  <2>3. steps' = 0 .. High' - 1
    BY <1>4, <2>1, <2>2
  <2>4. \A n \in open' : n = run.step /\ n \in steps'
    BY <1>3 DEF Tables, IInv
  <2>5. QED
    BY <2>1, <2>3, <2>4 DEF Tables
<1>6. Kept
  BY <1>2, <1>3, <1>4, Numbers DEF Kept
<1>7. Spent(y) = m.owed /\ Spent(eng[e]) = m.owed - 1
  BY <1>0, <1>1 DEF Spent
<1>8. Good(y)'
  <2>1. m.view.tokens + m.owed <= records'
    BY <1>0, <1>3, <1>7, Numbers DEF Good
  <2>2. y.view.step \in steps' /\ y.view.tokens + y.owed <= TokenBudget
    BY <1>1, <1>2, <1>3
  <2>3. QED
    BY <1>0, <1>1, <1>3, <1>7, <2>1, <2>2 DEF Good, Spent
<1>9. \A b \in Engine \ {e} : Holds(b) => View(b).step \notin steps'
  <2>1. SUFFICES ASSUME NEW b \in Engine, b # e, Holds(b) PROVE View(b).step \notin steps'
    OBVIOUS
  <2>2. View(b).step \notin steps
    BY <2>1, SessionFacts DEF Good, Holds, View
  <2>3. View(b).step # run.step
    BY <1>0, <1>2, <2>1 DEF IInv, Exclusive, Holds, View
  <2>4. QED
    BY <1>3, <2>2, <2>3
<1>10. eng' \in [Engine -> Memory] /\ Sessions' /\ Exclusive'
  BY <1>1, <1>6, <1>8, <1>9, SessionsStep
<1>11. /\ IsFiniteSet(Working') /\ Cardinality(Some') \in Nat /\ Cardinality(Both') \in Nat
       /\ Cardinality(Some') + Cardinality(Both') + (m.owed - 1)
            = Cardinality(Some) + Cardinality(Both) + m.owed
  <2>1. Spent(y) \in 0 .. 2 /\ (y.pc = "idle" => Spent(y) = 0)
    BY <1>0, <1>1, <1>7
  <2>2. QED
    BY <1>1, <1>7, <2>1, Sums
<1>12. Charges' /\ Types' /\ Budget'
  BY <1>0, <1>3, <1>10, <1>11, Numbers DEF Charges, Types, Budget, IInv
<1>13. Told'
  BY <1>3, <1>4, ToldKept
<1>14. QED
  BY <1>5, <1>10, <1>12, <1>13 DEF IInv

LEMMA ExecuteCallsStep ==
  ASSUME IInv, NEW e \in Engine, ExecuteCalls(e)
  PROVE  IInv'
<1> DEFINE m == eng[e]
           z == [m EXCEPT !.pc = "executed"]
<1>0. m \in Memory /\ Good(m) /\ m.pc = "tools"
  BY SessionFacts DEF ExecuteCalls
<1>1. PICK y \in Memory :
        /\ y.pc = "executed" /\ y.view = m.view /\ y.owed = m.owed
        /\ eng' = [eng EXCEPT ![e] = y]
  <2>1. z \in Memory /\ z.pc = "executed" /\ z.view = m.view /\ z.owed = m.owed
    BY <1>0 DEF Memory
  <2>2. eng' = [eng EXCEPT ![e] = z]
    BY SessionFacts DEF ExecuteCalls
  <2> HIDE DEF z
  <2>3. QED
    BY <2>1, <2>2
<1>2. open' = open \ {m.view.step} /\ UNCHANGED <<run, steps, summaries, records, lost>>
  BY DEF ExecuteCalls, View
<1>3. High' = High /\ High \in Nat
  BY <1>2, HighFacts DEF High
<1>4. Kept
  BY <1>2, <1>3, Numbers DEF Kept
<1>5. Spent(y) = Spent(eng[e]) /\ Spent(y) \in 0 .. 2
  BY <1>0, <1>1, SpentFacts DEF Spent
<1>6. Good(y)'
  BY <1>0, <1>1, <1>2, <1>5 DEF Good, Spent
<1>7. \A b \in Engine \ {e} : Holds(b) => View(b).step \notin steps'
  BY <1>2, SessionFacts DEF Holds, View, Good
<1>8. eng' \in [Engine -> Memory] /\ Sessions' /\ Exclusive'
  BY <1>1, <1>4, <1>6, <1>7, SessionsStep
<1>9. /\ IsFiniteSet(Working') /\ Cardinality(Some') \in Nat /\ Cardinality(Both') \in Nat
      /\ Cardinality(Some') + Cardinality(Both') + Spent(eng[e])
           = Cardinality(Some) + Cardinality(Both) + Spent(y)
  BY <1>1, <1>5, Sums
<1>10. Charges'
  BY <1>2, <1>5, <1>9, Numbers DEF Charges
<1>11. Types' /\ Budget' /\ Tables'
  BY <1>2, <1>3, <1>8, <1>9 DEF Types, Budget, Tables, IInv
<1>12. Told'
  BY <1>2, <1>3, ToldKept
<1>13. QED
  BY <1>8, <1>10, <1>11, <1>12 DEF IInv

(* A new summary follows the last one. *)
LEMMA FoldTold ==
  ASSUME IInv, NEW f \in [no : Nat, of : SUBSET Nat], f.no = Cardinality(summaries) + 1,
         NEW k \in Nat, f.of = Covered .. k, Covered <= k, k + Keep < High,
         summaries' = summaries \cup {f}, High' = High
  PROVE  Told' /\ Cardinality(summaries') = Cardinality(summaries) + 1
<1>1. PICK c \in Nat : c = Covered
  BY DEF IInv, Told
<1>2. f.of = c .. k /\ c <= k /\ k \in Int /\ c \in Int
  BY <1>1
<1>2a. \A n : n \in f.of <=> n \in Int /\ c <= n /\ n <= k
  <2>1. \A n : n \in c .. k <=> n \in Int /\ c <= n /\ n <= k
    BY <1>2
  <2>2. QED
    BY <1>2, <2>1, Zenon
<1>3. PICK n0 \in Nat : n0 = Cardinality(summaries)
  BY FS_CardinalityType DEF IInv, Told
<1>4. /\ IsFiniteSet(summaries) /\ \A s \in summaries : s.no \in 1 .. n0
      /\ \A n \in 1 .. n0 : \E s \in summaries : s.no = n
      /\ \A s \in summaries : Max(s.of) \in Nat /\ Max(s.of) < c
      /\ \A s \in summaries : s.of # {} /\ s.of \subseteq 0 .. c - 1
      /\ \A n \in 0 .. c - 1 : \E s \in summaries : n \in s.of
      /\ \A s, t \in summaries : s # t => s.of \cap t.of = {}
  BY <1>1, <1>3 DEF IInv, Told, NumberTaken
<1>5. f \notin summaries
  BY <1>3, <1>4
<1>6. IsFiniteSet(summaries') /\ Cardinality(summaries') = n0 + 1
  BY <1>3, <1>4, <1>5, FS_AddElement
<1>7. Max(f.of) = k
  <2>1. k \in f.of /\ f.of \subseteq Int /\ \A n \in f.of : n <= k
    BY <1>2
  <2>2. QED
    BY <2>1, MaxIs
<1>8. \A s \in summaries' : Max(s.of) \in Nat /\ Max(s.of) < k + 1
  <2>1. k < k + 1 /\ \A i \in Nat : i < c => i < k + 1
    BY <1>2
  <2>2. ASSUME NEW s \in summaries PROVE Max(s.of) \in Nat /\ Max(s.of) < k + 1
    BY <1>4, <2>1
  <2>3. QED
    BY <1>7, <2>1, <2>2
<1>9. Covered' = k + 1
  <2> DEFINE S == {0} \cup {Max(s.of) + 1 : s \in summaries'}
  <2>1. k + 1 \in S
    BY <1>7
  <2>2. S \subseteq Int /\ \A n \in S : n <= k + 1
    BY <1>8
  <2>3. Max(S) = k + 1
    <3> HIDE DEF S
    <3>1. QED
      BY <2>1, <2>2, MaxIs
  <2>4. QED
    BY <2>3 DEF Covered
<1>10. \A s \in summaries' : s.no \in 1 .. n0 + 1
  BY <1>3, <1>4
<1>11. \A n \in 1 .. n0 + 1 : \E s \in summaries' : s.no = n
  <2>1. SUFFICES ASSUME NEW n \in 1 .. n0 + 1 PROVE \E s \in summaries' : s.no = n
    OBVIOUS
  <2>2. n \in 1 .. n0 \/ n = n0 + 1
    BY <1>3
  <2>3. QED
    BY <1>3, <1>4, <2>2
<1>12. \A s \in summaries' : s.of # {} /\ s.of \subseteq 0 .. k
  <2>1. f.of # {} /\ f.of \subseteq 0 .. k /\ 0 .. c - 1 \subseteq 0 .. k
    <3>1. c \in f.of
      BY <1>2, <1>2a
    <3>2. \A n \in Int : c <= n /\ n <= k => n \in 0 .. k
      BY <1>1
    <3>3. \A n \in 0 .. c - 1 : n \in 0 .. k
      BY <1>2
    <3>4. QED
      BY <1>2a, <3>1, <3>2, <3>3
  <2>2. QED
    BY <1>4, <2>1
<1>13. \A n \in 0 .. k : \E s \in summaries' : n \in s.of
  <2>1. SUFFICES ASSUME NEW n \in 0 .. k PROVE \E s \in summaries' : n \in s.of
    OBVIOUS
  <2>2. n \in 0 .. c - 1 \/ n \in f.of
    <3>1. n \in Int /\ (n \in 0 .. c - 1 \/ (c <= n /\ n <= k))
      BY <1>2
    <3>2. QED
      BY <1>2a, <3>1
  <2>3. QED
    BY <1>4, <2>2
<1>14. \A s, t \in summaries' : s # t => s.of \cap t.of = {}
  <2>1. ASSUME NEW s \in summaries PROVE s.of \cap f.of = {} /\ f.of \cap s.of = {}
    <3>1. \A n \in 0 .. c - 1 : n \notin f.of
      <4>1. \A n \in 0 .. c - 1 : ~(c <= n)
        BY <1>2
      <4>2. QED
        BY <1>2a, <4>1
    <3>2. QED
      BY <1>4, <3>1
  <2>2. QED
    BY <1>4, <2>1
<1>15. k + 1 \in Nat /\ k + 1 + Keep <= High' /\ k + 1 - 1 = k
  BY HighFacts, Constants
<1>16. Covered' \in Nat /\ Covered' + Keep <= High' /\ Covered' - 1 = k
  BY <1>9, <1>15
<1>17. \A s \in summaries' : Max(s.of) \in Nat /\ Max(s.of) < Covered'
  BY <1>8, <1>9
<1>18. /\ \A s \in summaries' : s.of # {} /\ s.of \subseteq 0 .. Covered' - 1
       /\ \A n \in 0 .. Covered' - 1 : \E s \in summaries' : n \in s.of
  BY <1>12, <1>13, <1>16
<1>19. Cardinality(summaries') = Cardinality(summaries) + 1
  BY <1>3, <1>6
<1>20. /\ \A s \in summaries' : s.no \in 1 .. Cardinality(summaries')
       /\ \A n \in 1 .. Cardinality(summaries') : NumberTaken(n)'
  BY <1>6, <1>10, <1>11 DEF NumberTaken
<1>21. QED
  BY <1>6, <1>14, <1>16, <1>17, <1>18, <1>19, <1>20 DEF Told

LEMMA SummarizeStep ==
  ASSUME IInv, NEW e \in Engine, Summarize(e), ~NumberTaken(eng[e].fold.no)
  PROVE  IInv'
<1> DEFINE m == eng[e]
           z == [m EXCEPT !.pc = "prompt", !.fold = None, !.owed = 1]
<1>0. /\ m \in Memory /\ Good(m) /\ m.pc = "summarize" /\ m.owed = 0 /\ FoldFits(m)
      /\ m.view \in RunRow /\ m.view.tokens \in Nat
  BY SessionFacts, RowFacts DEF Summarize, Good
<1>1. PICK y \in Memory :
        /\ y.pc = "prompt" /\ y.view = m.view /\ y.owed = 1 /\ eng' = [eng EXCEPT ![e] = y]
  <2>1. z \in Memory /\ z.pc = "prompt" /\ z.view = m.view /\ z.owed = 1
    <3>1. None \in [no : Nat, of : SUBSET Nat] /\ 1 \in 0 .. 2
      BY DEF None
    <3>2. QED
      BY <1>0, <3>1 DEF Memory
  <2>2. eng' = [eng EXCEPT ![e] = z]
    BY SessionFacts DEF Summarize
  <2> HIDE DEF z
  <2>3. QED
    BY <2>1, <2>2
<1>2. /\ summaries' = summaries \cup {m.fold} /\ records' = records + 1
      /\ UNCHANGED <<run, steps, open, lost>>
  BY DEF Summarize, Recorded
<1>3. PICK f \in [no : Nat, of : SUBSET Nat] : f = m.fold
  BY <1>0 DEF Memory
<1>4. High' = High /\ High \in Nat
  BY <1>2, HighFacts DEF High
<1>5. f.no = Cardinality(summaries) + 1
  <2>1. Cardinality(summaries) \in Nat /\ f.no \in Nat
    BY <1>3, FS_CardinalityType DEF IInv, Told
  <2>2. f.no # 0 /\ f.no <= Cardinality(summaries) + 1 /\ f.no \notin 1 .. Cardinality(summaries)
    BY <1>0, <1>3 DEF FoldFits, IInv, Told
  <2>3. QED
    BY <2>1, <2>2
<1>6. PICK k \in Nat : f.of = Covered .. k /\ Covered <= k /\ k + Keep < High
  BY <1>0, <1>3, <1>5 DEF FoldFits
<1>7. Told' /\ Cardinality(summaries') = Cardinality(summaries) + 1
  BY <1>2, <1>3, <1>4, <1>5, <1>6, FoldTold
<1>8. Kept
  BY <1>2, <1>4, <1>7, Numbers DEF Kept
<1>9. Spent(y) = 1 /\ Spent(eng[e]) = 0
  BY <1>0, <1>1 DEF Spent
<1>10. Good(y)'
  <2>1. m.view.tokens + 1 <= records'
    BY <1>0, <1>2, <1>9, Numbers DEF Good
  <2>2. QED
    BY <1>0, <1>1, <1>2, <1>9, <2>1 DEF Good, Spent
<1>11. \A b \in Engine \ {e} : Holds(b) => View(b).step \notin steps'
  BY <1>2, SessionFacts DEF Holds, View, Good
<1>12. eng' \in [Engine -> Memory] /\ Sessions' /\ Exclusive'
  BY <1>1, <1>8, <1>10, <1>11, SessionsStep
<1>13. /\ IsFiniteSet(Working') /\ Cardinality(Some') \in Nat /\ Cardinality(Both') \in Nat
       /\ Cardinality(Some') + Cardinality(Both') + 0
            = Cardinality(Some) + Cardinality(Both) + 1
  <2>1. Spent(y) \in 0 .. 2 /\ (y.pc = "idle" => Spent(y) = 0)
    BY <1>1, <1>9
  <2>2. QED
    BY <1>1, <1>9, <2>1, Sums
<1>14. Charges' /\ Types' /\ Budget' /\ Tables'
  <2>1. Charges'
    BY <1>2, <1>13, Numbers DEF Charges
  <2>2. Types' /\ Tables'
    BY <1>2, <1>4, <1>12, <1>13, Numbers DEF Types, Tables, IInv
  <2>3. Budget'
    BY <1>2, Numbers DEF Budget, IInv
  <2>4. QED
    BY <2>1, <2>2, <2>3
<1>15. QED
  BY <1>7, <1>12, <1>14 DEF IInv
-----------------------------------------------------------------------------
LEMMA CheckpointEffect ==
  ASSUME IInv, NEW e \in Engine, eng[e].pc # "idle", NEW new \in RunRow, NEW charged \in BOOLEAN,
         Checkpoint(e, new, charged),
         new.status # "terminal" => new.tokens <= TokenBudget,
         \/ charged /\ new.tokens = eng[e].view.tokens + eng[e].owed
         \/ ~charged /\ new.tokens = eng[e].view.tokens /\ ~Holds(e),
         \/ new.step = eng[e].view.step /\ ~Holds(e)
         \/ new.step = eng[e].view.step + 1 /\ eng[e].pc \in {"flushed", "executed"}
  PROVE  Abort(e) \/ \E y \in Memory : Saved(e, y)
<1>1. CASE run.version # View(e).version
  BY <1>1 DEF Checkpoint
<1>2. CASE run.version = View(e).version
  <2>1. eng[e].view = run
    BY <1>2, SessionFacts DEF Good, View
  <2> DEFINE row == [new EXCEPT !.version = run.version + 1]
             loaded == [Idle EXCEPT !.pc = "step", !.view = row]
             y == IF new.status = "running" THEN loaded ELSE Idle
  <2>2. /\ row \in RunRow /\ row.version = run.version + 1 /\ row.status = new.status
        /\ row.tokens = new.tokens /\ row.step = new.step
    BY Numbers DEF RunRow
  <2>3. /\ run' = row
        /\ steps' = IF Holds(e) THEN steps \cup {run.step} ELSE steps
        /\ records' = IF Holds(e) THEN records + 1 ELSE records
        /\ eng' = [eng EXCEPT ![e] = y]
        /\ lost' = IF charged THEN lost ELSE lost + 1
        /\ UNCHANGED <<open, summaries>>
    BY <1>2, <2>1 DEF Checkpoint, View, Recorded
  <2> HIDE DEF row
  <2>4. loaded \in Memory /\ loaded.pc = "step" /\ loaded.view = row /\ loaded.owed = 0
    BY <2>2, LoadedMemory
  <2> HIDE DEF loaded
  <2>5. y \in Memory /\ y.pc \in {"idle", "step"} /\ y.owed = 0
        /\ (y.pc = "step" => y.view = row /\ new.status = "running")
    BY <2>4, IdleMemory
  <2> HIDE DEF y
  <2>6. Saved(e, y)
    BY <2>1, <2>2, <2>3, <2>5 DEF Saved
  <2>7. QED
    BY <2>5, <2>6
<1>3. QED
  BY <1>1, <1>2

(* The copy of the run an engine works with *)
LEMMA ViewFacts ==
  ASSUME IInv, NEW e \in Engine, eng[e].pc # "idle"
  PROVE  /\ View(e) = eng[e].view /\ eng[e].view \in RunRow /\ eng[e].view.status = "running"
         /\ eng[e].view.tokens \in Nat /\ eng[e].view.step \in Nat
         /\ eng[e].view.tokens <= TokenBudget /\ eng[e].view.step <= run.step
         /\ eng[e].owed \in Nat /\ eng[e].owed <= 2
BY SessionFacts, RowFacts DEF Good, View

LEMMA EndEffect ==
  ASSUME IInv, NEW e \in Engine, Guardrail(e) \/ LlmFails(e)
  PROVE  Abort(e) \/ \E y \in Memory : Saved(e, y)
<1> DEFINE new == [View(e) EXCEPT !.status = "terminal"]
<1>1. eng[e].pc # "idle" /\ ~Holds(e)
  BY DEF Guardrail, LlmFails, Holds
<1>2. /\ new \in RunRow /\ new.status = "terminal" /\ new.tokens = eng[e].view.tokens
      /\ new.step = eng[e].view.step
  BY <1>1, ViewFacts DEF RunRow
<1>3. CASE Guardrail(e)
  <2>1. Checkpoint(e, new, TRUE)
    BY <1>3 DEF Guardrail
  <2>2. eng[e].owed = 0
    BY <1>3, SessionFacts DEF Guardrail, Good
  <2>3. new.tokens = eng[e].view.tokens + eng[e].owed
    BY <1>1, <1>2, <2>2, ViewFacts
  <2> HIDE DEF new
  <2>4. QED
    BY <1>1, <1>2, <2>1, <2>3, CheckpointEffect
<1>4. CASE LlmFails(e)
  <2>1. Checkpoint(e, new, FALSE)
    BY <1>4 DEF LlmFails
  <2> HIDE DEF new
  <2>2. QED
    BY <1>1, <1>2, <2>1, CheckpointEffect
<1>5. QED
  BY <1>3, <1>4

LEMMA CloseEffect ==
  ASSUME IInv, NEW e \in Engine, CloseStep(e)
  PROVE  Abort(e) \/ \E y \in Memory : Saved(e, y)
<1>1. eng[e].pc \in {"flushed", "tools", "executed"} /\ eng[e].pc # "idle"
  BY DEF CloseStep
<1>2. PICK v \in RunRow : v = eng[e].view /\ v = View(e)
  BY <1>1, ViewFacts
<1>3. PICK new \in Outcomes(e) : Checkpoint(e, new, TRUE)
  BY DEF CloseStep
<1>4. PICK t \in Nat : t = TokensUsed(e) /\ t = eng[e].view.tokens + eng[e].owed
  BY <1>1, ViewFacts DEF TokensUsed
<1> DEFINE after == [v EXCEPT !.step = @ + 1, !.tokens = t]
<1>5. /\ after \in RunRow /\ after.step = v.step + 1 /\ after.tokens = t
      /\ after.status = v.status
  <2>1. v.step \in Nat /\ v.step + 1 \in Nat
    BY <1>2, RowFacts
  <2>2. QED
    BY <2>1 DEF RunRow
<1>6. after = [View(e) EXCEPT !.step = @ + 1, !.tokens = TokensUsed(e)]
  BY <1>2, <1>4
<1> HIDE DEF after
<1>7. CASE t > TokenBudget
  <2>1. new = [after EXCEPT !.status = "terminal"]
    BY <1>3, <1>4, <1>6, <1>7 DEF Outcomes
  <2>2. /\ new \in RunRow /\ new.status = "terminal" /\ new.tokens = t /\ new.step = v.step + 1
    BY <1>5, <2>1 DEF RunRow
  <2>3. eng[e].pc # "tools"
    BY <1>1, <1>4, <1>7, SessionFacts, ViewFacts, Constants DEF Good
  <2>4. QED
    BY <1>1, <1>2, <1>3, <1>4, <2>2, <2>3, CheckpointEffect
<1>8. CASE ~(t > TokenBudget) /\ eng[e].pc # "tools"
  <2>1. PICK s \in {"running", "waiting", "terminal"} : new = [after EXCEPT !.status = s]
    BY <1>1, <1>3, <1>4, <1>6, <1>8 DEF Outcomes
  <2>2. /\ new \in RunRow /\ new.tokens = t /\ new.step = v.step + 1
    BY <1>5, <2>1 DEF RunRow
  <2>3. new.tokens <= TokenBudget
    BY <1>4, <1>8, <2>2, Constants
  <2>4. QED
    BY <1>1, <1>2, <1>3, <1>4, <1>8, <2>2, <2>3, CheckpointEffect
<1>9. CASE ~(t > TokenBudget) /\ eng[e].pc = "tools"
  <2>1. new = [after EXCEPT !.step = v.step, !.status = "approval"]
    BY <1>2, <1>3, <1>4, <1>6, <1>9 DEF Outcomes, Holds
  <2>2. /\ new \in RunRow /\ new.tokens = t /\ new.step = v.step
    BY <1>1, <1>2, <1>5, <2>1, ViewFacts DEF RunRow
  <2>3. new.tokens <= TokenBudget
    BY <1>4, <1>9, <2>2, Constants
  <2>4. QED
    BY <1>1, <1>2, <1>3, <1>4, <1>9, <2>2, <2>3, CheckpointEffect DEF Holds
<1>10. QED
  BY <1>7, <1>8, <1>9

LEMMA BeginEffect ==
  ASSUME IInv, NEW e \in Engine, Begin(e)
  PROVE  \E y \in Memory : Moved(e, y)
<1> DEFINE z == [Idle EXCEPT !.pc = "step", !.view = run]
<1>1. eng' = [eng EXCEPT ![e] = z] /\ UNCHANGED <<run, steps, open, summaries, records, lost>>
  BY DEF Begin, table
<1>2. PICK y : y = z
  OBVIOUS
<1>3. y \in Memory /\ y.pc = "step" /\ y.view = run /\ y.owed = 0
  BY <1>2, LoadedMemory, Numbers
<1> HIDE DEF z
<1>4. Spent(y) = 0 /\ Spent(eng[e]) = 0
  BY <1>3, SessionFacts DEF Begin, Spent, Good
<1>5. Good(y)
  <2>1. run.tokens + 0 <= records /\ run.tokens <= TokenBudget /\ run.status = "running"
    BY Numbers DEF Begin, IInv, Budget
  <2>2. run.version <= run.version /\ run.step <= run.step
    BY Numbers
  <2>3. QED
    BY <1>3, <1>4, <2>1, <2>2, Numbers DEF Good
<1>6. QED
  BY <1>1, <1>2, <1>3, <1>4, <1>5 DEF Moved

LEMMA ReplayEffect ==
  ASSUME IInv, NEW e \in Engine, Replay(e)
  PROVE  \E y \in Memory : Moved(e, y)
<1> DEFINE m == eng[e]
           y == [m EXCEPT !.pc = "tools"]
<1>1. m \in Memory /\ Good(m) /\ m.pc = "step" /\ m.owed = 0 /\ m.view.step \in steps
  BY SessionFacts DEF Replay, MayStep, Good, View
<1>2. eng' = [eng EXCEPT ![e] = y] /\ UNCHANGED <<run, steps, open, summaries, records, lost>>
  BY SessionFacts DEF Replay, table
<1>3. y \in Memory /\ y.pc = "tools" /\ y.view = m.view /\ y.owed = 0
  BY <1>1 DEF Memory
<1> HIDE DEF y
<1>4. Spent(y) = 0 /\ Spent(m) = 0
  BY <1>1, <1>3 DEF Spent
<1>5. y.view.tokens + y.owed <= TokenBudget
  BY <1>1, <1>3, ViewFacts
<1>6. Good(y)
  BY <1>1, <1>3, <1>4, <1>5 DEF Good
<1>7. Moved(e, y)
  BY <1>2, <1>3, <1>4, <1>6 DEF Moved
<1>8. QED
  BY <1>3, <1>7

LEMMA AnsweredEffect ==
  ASSUME IInv, NEW e \in Engine, Answered(e), ~Abort(e)
  PROVE  \E y \in Memory : Moved(e, y)
<1> DEFINE m == eng[e]
           y == [m EXCEPT !.pc = "flushed", !.owed = m.owed + 1]
<1>1. /\ m \in Memory /\ Good(m) /\ m.pc = "prompt" /\ m.owed \in 0 .. 1
      /\ m.view.step \notin steps
      /\ \A b \in Engine \ {e} : Holds(b) => View(b).step # m.view.step
  BY SessionFacts DEF Answered, Good, View
<1>2. eng' = [eng EXCEPT ![e] = y] /\ UNCHANGED <<run, steps, open, summaries, records, lost>>
  BY SessionFacts DEF Answered, table
<1>3. m.owed + 1 \in 0 .. 2 /\ m.owed + 1 # 0 /\ m.owed + 1 - 1 = m.owed
  BY <1>1
<1>4. y \in Memory /\ y.pc = "flushed" /\ y.view = m.view /\ y.owed = m.owed + 1
  BY <1>1, <1>3 DEF Memory
<1> HIDE DEF y
<1>5. Spent(y) = Spent(m)
  BY <1>1, <1>3, <1>4 DEF Spent
<1>6. Good(y)
  BY <1>1, <1>3, <1>4, <1>5 DEF Good
<1>7. Moved(e, y)
  BY <1>1, <1>2, <1>4, <1>5, <1>6 DEF Moved
<1>8. QED
  BY <1>4, <1>7

(* The steps that no summary stands for, and what compaction takes of them *)
LEMMA UncoveredFacts ==
  ASSUME IInv
  PROVE  /\ Covered \in Nat /\ Covered <= High /\ Uncovered = Covered .. High - 1
         /\ Cardinality(Uncovered) = High - Covered
<1>1. Covered \in Nat /\ High \in Nat /\ Keep \in Nat /\ steps = 0 .. High - 1
      /\ (Covered # 0 => Covered + Keep <= High)
  BY HighFacts, Constants DEF IInv, Told
<1>2. Covered <= High
  BY <1>1
<1>3. Uncovered = Covered .. High - 1
  BY <1>1 DEF Uncovered
<1>4. Cardinality(Covered .. High - 1) = High - Covered
  <2>1. Covered \in Int /\ High - 1 \in Int
    BY <1>1
  <2>2. Cardinality(Covered .. High - 1) =
          IF Covered > High - 1 THEN 0 ELSE High - 1 - Covered + 1
    BY <2>1, FS_Interval
  <2>3. QED
    BY <1>1, <1>2, <2>2
<1>5. QED
  BY <1>1, <1>2, <1>3, <1>4

LEMMA ToSummarizeFacts ==
  ASSUME IInv, Cardinality(Uncovered) > Keep
  PROVE  \E m \in Nat : ToSummarize = Covered .. m /\ Covered <= m /\ m + Keep < High
<1>1. /\ Covered \in Nat /\ High \in Nat /\ Keep \in Nat /\ Uncovered = Covered .. High - 1
      /\ High - Covered > Keep
  BY UncoveredFacts, HighFacts, Constants
<1>2. PICK m \in Nat : m = High - 1 - Keep
  BY <1>1
<1>3. Covered <= m /\ m + Keep < High
  BY <1>1, <1>2
<1>4. ASSUME NEW n \in Uncovered PROVE Cardinality({k \in Uncovered : k > n}) = High - 1 - n
  <2>1. n \in Nat /\ Covered <= n /\ n <= High - 1
    BY <1>1, <1>4
  <2>2. {k \in Uncovered : k > n} = n + 1 .. High - 1
    BY <1>1, <2>1
  <2>3. n + 1 \in Int /\ High - 1 \in Int
    BY <1>1, <2>1
  <2>4. Cardinality(n + 1 .. High - 1) =
          IF n + 1 > High - 1 THEN 0 ELSE High - 1 - (n + 1) + 1
    BY <2>3, FS_Interval
  <2>5. Cardinality(n + 1 .. High - 1) = High - 1 - n
    BY <1>1, <2>1, <2>4
  <2>6. QED
    BY <2>2, <2>5, Zenon
<1>5. ToSummarize = {n \in Uncovered : High - 1 - n >= Keep}
  BY <1>4 DEF ToSummarize
<1>6. ToSummarize = Covered .. m
  <2>1. \A n : n \in Uncovered /\ High - 1 - n >= Keep <=> n \in Covered .. m
    BY <1>1, <1>2, <1>3
  <2>2. QED
    BY <1>5, <2>1
<1>7. QED
  BY <1>3, <1>6

LEMMA CheckContextEffect ==
  ASSUME IInv, NEW e \in Engine, CheckContext(e)
  PROVE  \E y \in Memory : Moved(e, y)
<1> DEFINE m == eng[e]
<1>1. m \in Memory /\ Good(m) /\ m.pc = "step" /\ m.owed = 0
  BY SessionFacts DEF CheckContext, MayStep, Good
<1>2. UNCHANGED <<run, steps, open, summaries, records, lost>>
  BY DEF CheckContext, table
<1>3. CASE eng' = [eng EXCEPT ![e].pc = "prompt"]
  <2> DEFINE y == [m EXCEPT !.pc = "prompt"]
  <2>1. eng' = [eng EXCEPT ![e] = y]
    BY <1>3, SessionFacts
  <2>2. y \in Memory /\ y.pc = "prompt" /\ y.view = m.view /\ y.owed = 0
    BY <1>1 DEF Memory
  <2> HIDE DEF y
  <2>3. Spent(y) = 0 /\ Spent(m) = 0
    BY <1>1, <2>2 DEF Spent
  <2>4. Good(y)
    BY <1>1, <2>2, <2>3 DEF Good
  <2>5. Moved(e, y)
    BY <1>2, <2>1, <2>2, <2>3, <2>4 DEF Moved
  <2>6. QED
    BY <2>2, <2>5
<1>4. CASE /\ Cardinality(Uncovered) > Keep
           /\ eng' = [eng EXCEPT ![e].pc = "summarize",
                        ![e].fold = [no |-> Cardinality(summaries) + 1, of |-> ToSummarize]]
  <2> DEFINE f == [no |-> Cardinality(summaries) + 1, of |-> ToSummarize]
             y == [m EXCEPT !.pc = "summarize", !.fold = f]
  <2>1. PICK k \in Nat : ToSummarize = Covered .. k /\ Covered <= k /\ k + Keep < High
    BY <1>4, ToSummarizeFacts
  <2>2. Cardinality(summaries) \in Nat /\ Cardinality(summaries) + 1 # 0
    BY FS_CardinalityType DEF IInv, Told
  <2>3. Covered \in Nat /\ ToSummarize \subseteq Nat
    BY <2>1, UncoveredFacts
  <2>4. /\ f \in [no : Nat, of : SUBSET Nat] /\ f.no = Cardinality(summaries) + 1
        /\ f.of = ToSummarize
    BY <2>2, <2>3
  <2>5. eng' = [eng EXCEPT ![e] = y]
    BY <1>4, SessionFacts
  <2> HIDE DEF f
  <2>6. y \in Memory /\ y.pc = "summarize" /\ y.view = m.view /\ y.owed = 0 /\ y.fold = f
    BY <1>1, <2>4 DEF Memory
  <2> HIDE DEF y
  <2>7. Spent(y) = 0 /\ Spent(m) = 0
    BY <1>1, <2>6 DEF Spent
  <2>8. FoldFits(y)
    <3>1. f.no # 0 /\ f.no <= Cardinality(summaries) + 1
      BY <2>2, <2>4
    <3>2. QED
      BY <2>1, <2>4, <2>6, <3>1 DEF FoldFits
  <2>9. Good(y)
    BY <1>1, <2>6, <2>7, <2>8 DEF Good
  <2>10. Moved(e, y)
    BY <1>2, <2>5, <2>6, <2>7, <2>9 DEF Moved
  <2>11. QED
    BY <2>6, <2>10
<1>5. QED
  BY <1>3, <1>4 DEF CheckContext

LEMMA PostedEffect ==
  ASSUME IInv, Resume \/ Cancel
  PROVE  Posted
<1>1. run \in RunRow /\ run.version + 1 \in Nat
  BY Numbers
<1>2. CASE Resume
  BY <1>1, <1>2 DEF Resume, Posted, table, RunRow
<1>3. CASE Cancel
  BY <1>1, <1>3 DEF Cancel, Posted, table, RunRow
<1>4. QED
  BY <1>2, <1>3

LEMMA Inductive == IInv /\ [Next]_vars => IInv'
<1> SUFFICES ASSUME IInv, [Next]_vars PROVE IInv'
  OBVIOUS
<1>1. ASSUME NEW e \in Engine, Begin(e) \/ Replay(e) \/ CheckContext(e) PROVE IInv'
  BY <1>1, BeginEffect, ReplayEffect, CheckContextEffect, MovedStep
<1>2. ASSUME NEW e \in Engine, Guardrail(e) \/ LlmFails(e) \/ CloseStep(e) PROVE IInv'
  BY <1>2, EndEffect, CloseEffect, AbortStep, SavedStep
<1>3. ASSUME NEW e \in Engine, Summarize(e) PROVE IInv'
  BY <1>3, AbortStep, SummarizeStep DEF Summarize
<1>4. ASSUME NEW e \in Engine, Answered(e) PROVE IInv'
  BY <1>4, AnsweredEffect, MovedStep, AbortStep
<1>5. ASSUME NEW e \in Engine, CommitStep(e) \/ ExecuteCalls(e) PROVE IInv'
  BY <1>5, CommitStepStep, ExecuteCallsStep
<1>6. ASSUME NEW e \in Engine, Raise(e) PROVE IInv'
  BY <1>6, AbortStep DEF Raise
<1>7. CASE Resume \/ Cancel
  BY <1>7, PostedEffect, PostedStep
<1>8. CASE UNCHANGED vars
  <2>1. Some' = Some /\ Both' = Both /\ Working' = Working /\ High' = High /\ Covered' = Covered
    BY <1>8 DEF vars, Some, Both, Working, Spent, High, Covered
  <2>2. Sessions' /\ Exclusive'
    BY <1>8, <2>1 DEF vars, IInv, Sessions, Exclusive, Good, FoldFits, Spent, Holds, View
  <2>3. Told'
    BY <1>8, <2>1, HighFacts, ToldKept DEF vars
  <2>4. Types' /\ Tables' /\ Budget' /\ Charges'
    BY <1>8, <2>1 DEF vars, IInv, Types, Tables, Budget, Charges
  <2>5. QED
    BY <2>2, <2>3, <2>4 DEF IInv
<1>9. QED
  BY <1>1, <1>2, <1>3, <1>4, <1>5, <1>6, <1>7, <1>8 DEF Next

LEMMA Initial == Init => IInv
<1> SUFFICES ASSUME Init PROVE IInv
  OBVIOUS
<1>1. \A e \in Engine : eng[e] = Idle
  BY DEF Init
<1>2. Working = {} /\ Some = {} /\ Both = {}
  BY <1>1, IdleMemory DEF Working, Some, Both
<1>3. IsFiniteSet({}) /\ Cardinality({}) = 0
  BY FS_EmptySet
<1>4. run \in RunRow /\ run.step = 0 /\ run.tokens = 0
  BY DEF Init, RunRow
<1>5. Types
  BY <1>2, <1>3, <1>4, IdleMemory DEF Init, Types
<1>6. High = 0
  BY <1>4 DEF Init, High
<1>7. Tables /\ Budget
  BY <1>4, <1>6, Constants DEF Init, Tables, Budget
<1>8. Sessions /\ Exclusive
  BY <1>1, IdleGood, IdleMemory DEF Sessions, Exclusive, Holds
<1>9. Told
  <2>1. summaries = {} /\ IsFiniteSet(summaries) /\ Cardinality(summaries) = 0
    BY <1>3 DEF Init
  <2>2. Covered = 0
    <3> DEFINE S == {0} \cup {Max(s.of) + 1 : s \in summaries}
    <3>1. S = {0}
      BY <2>1
    <3>2. Max({0}) = 0
      BY MaxIs
    <3>3. QED
      BY <3>1, <3>2 DEF Covered
  <2>3. QED
    BY <2>1, <2>2 DEF Told
<1>10. Charges
  BY <1>2, <1>3, <1>4 DEF Init, Charges
<1>11. QED
  BY <1>5, <1>7, <1>8, <1>9, <1>10 DEF IInv
-----------------------------------------------------------------------------
(* The invariant: the committed steps are an interval, the summaries tile  *)
(* its front and end at least Keep steps before its end, only the run's    *)
(* own step can have calls without rows, an engine whose copy of the run   *)
(* is stale is stopped by the version at its next checkpoint, and every    *)
(* usage record is charged, owed by an engine at work, or lost with one    *)
(* (compaction.py, context.py, usage.py, engine.py).                       *)
THEOREM Invariance == Spec => []IInv
BY Initial, Inductive, PTL DEF Spec

(* Every committed step is in the next prompt once, verbatim or folded     *)
(* into one summary (maybe_compact, build_llm_messages), whichever engines *)
(* overlap, raise or die between reading the steps and inserting the       *)
(* summary.                                                                *)
THEOREM HistoryTold == Spec => []StepIsToldOnce
<1>1. IInv => StepIsToldOnce
  <2> SUFFICES ASSUME IInv, NEW n \in steps
               PROVE  Cardinality({s \in summaries : n \in s.of}) = IF n \in Uncovered THEN 0 ELSE 1
    BY DEF StepIsToldOnce
  <2>1. n \in Nat /\ Covered \in Nat /\ (n \in Uncovered <=> n >= Covered)
    BY HighFacts, UncoveredFacts DEF Uncovered
  <2>2. CASE n \in Uncovered
    <3>1. n \notin 0 .. Covered - 1
      BY <2>1, <2>2
    <3>2. {s \in summaries : n \in s.of} = {}
      BY <3>1 DEF IInv, Told
    <3>3. QED
      BY <2>2, <3>2, FS_EmptySet
  <2>3. CASE n \notin Uncovered
    <3>1. n \in 0 .. Covered - 1
      BY <2>1, <2>3
    <3>2. PICK t \in summaries : n \in t.of
      BY <3>1 DEF IInv, Told
    <3>3. \A s \in summaries : n \in s.of => s = t
      BY <3>2 DEF IInv, Told
    <3>4. {s \in summaries : n \in s.of} = {t}
      BY <3>2, <3>3
    <3>5. Cardinality({t}) = 1
      BY FS_Singleton
    <3>6. QED
      BY <2>3, <3>4, <3>5, Zenon
  <2>4. QED
    BY <2>2, <2>3
<1>2. QED
  BY <1>1, Invariance, PTL

(* Compaction leaves the latest Keep steps verbatim, and the verbatim      *)
(* steps are the latest ones without a gap, also when the summary comes    *)
(* from an engine that has been overtaken.                                 *)
THEOREM RecentKept == Spec => []RecentStaysVerbatim
<1>1. IInv => RecentStaysVerbatim
  <2> SUFFICES ASSUME IInv PROVE RecentStaysVerbatim
    OBVIOUS
  <2>1. /\ Covered \in Nat /\ High \in Nat /\ Keep \in Nat
        /\ Cardinality(Uncovered) = High - Covered
    BY UncoveredFacts, HighFacts, Constants
  <2>2. summaries # {} => Covered # 0
    BY <2>1 DEF IInv, Told
  <2>3. summaries # {} => Cardinality(Uncovered) >= Keep
    BY <2>1, <2>2 DEF IInv, Told
  <2>4. \A n \in Uncovered : \A k \in steps : k > n => k \in Uncovered
    BY <2>1, HighFacts DEF Uncovered
  <2>5. QED
    BY <2>3, <2>4 DEF RecentStaysVerbatim
<1>2. QED
  BY <1>1, Invariance, PTL

(* An engine that asks the model shows no call of an earlier step as       *)
(* "execution record missing" (build_llm_messages), unless the step before  *)
(* passed one over: the run only leaves a step whose calls have their rows *)
(* or were passed over.                                                    *)
THEOREM RecordsShown == Spec => []NoMissingRecord
<1>1. IInv => NoMissingRecord
  <2> SUFFICES ASSUME IInv, NEW e \in Engine, eng[e].pc \in {"prompt", "flushed"}
               PROVE  Unrecorded(e) \subseteq passed \ open
    BY DEF NoMissingRecord
  <2>1. View(e).step \in Nat /\ View(e).step <= run.step /\ run.step \in Nat
    BY ViewFacts, Numbers
  <2>2. \A n \in open : n = run.step
    BY DEF IInv, Tables
  <2>3. QED
    BY <2>1, <2>2 DEF Unrecorded
<1>2. QED
  BY <1>1, Invariance, PTL

(* tokens_used never exceeds what usage_records account for, falls short   *)
(* of it by at most two model calls for every engine that ended without    *)
(* charging or is at work, and exceeds the budget by at most the calls of  *)
(* one step (checkpoint in engine.py, record_usage).                       *)
THEOREM SpendingCharged == Spec => []SpendingIsCharged
<1>1. IInv => SpendingIsCharged
  <2> SUFFICES ASSUME IInv PROVE SpendingIsCharged
    OBVIOUS
  <2>1. run.tokens <= records /\ run.tokens <= TokenBudget + 2
    BY DEF IInv, Budget
  <2>2. Cardinality(Some) <= Cardinality(Working) /\ Cardinality(Both) <= Cardinality(Working)
    BY Finite, FS_Subset
  <2>3. records <= run.tokens + 2 * (lost + Cardinality(Working))
    BY <2>2, Finite, Numbers
  <2>4. QED
    BY <2>1, <2>3 DEF SpendingIsCharged
<1>2. QED
  BY <1>1, Invariance, PTL
=============================================================================
