-------------------------- MODULE RunDispatchProofs --------------------------
(***************************************************************************)
(* Proofs about RunDispatch for every set of runs and workers and every    *)
(* value of the bounds.                                                    *)
(*                                                                         *)
(*   TypeCorrect        the types, with Exists: messages and tasks stand   *)
(*                      for rows that were inserted                        *)
(*   FenceHolds         the version fence of _versioned_update             *)
(*   LeaseExcludes      one driver per run while no live owner is held up  *)
(*   LifecycleFollowed  RunDispatch implements RunLifecycle                *)
(*   CancelRespected, StepsOrdered  consequences of the fence              *)
(*                                                                         *)
(* The "effect" lemmas say, column by column, what each action does to the *)
(* row it writes; every later proof uses them instead of the EXCEPTs.      *)
(***************************************************************************)
EXTENDS RunDispatch, TLAPS

Busy(w) == pc[w] \notin {"idle", "down"}

(* A message, a publish, a reaper's candidate and a worker's task stand    *)
(* for a row that was inserted.                                            *)
Exists == /\ \A w \in Worker : Busy(w) => task[w] \in Run /\ run[task[w]].status # NULL
          /\ \A r \in Run : run[r].status = NULL =>
                              queue[r] = 0 /\ outbox[r] = 0 /\ reap[r] = NULL

TInv == TypeOK /\ Exists

(* Only row r is written, and what is written is a row. *)
Frame(r) == /\ run' \in [Run -> Row]
            /\ \A q \in Run : q # r => run'[q] = run[q]

SameStatus(new, old) == /\ new.status = old.status
                        /\ new.cancel_requested = old.cancel_requested

SameLease(new, old) == /\ new.lease_owner = old.lease_owner
                       /\ new.lease_live = old.lease_live

SameStep(new, old) == /\ new.current_step = old.current_step
                      /\ new.skill = old.skill

(* All columns but the version. *)
Same(new, old) == SameStatus(new, old) /\ SameLease(new, old) /\ SameStep(new, old)
-----------------------------------------------------------------------------
LEMMA NoRowType == NoRow \in Row
BY DEF NoRow, Row

(* What _versioned_update does to the table. *)
LEMMA VersionedWrite ==
  ASSUME run \in [Run -> Row], NEW r \in Run, NEW v \in Nat, NEW row \in Row,
         VersionedUpdate(r, v, row)
  PROVE  /\ Frame(r)
         /\ run'[r].version = v + 1
         /\ Same(run'[r], row)
<1>1. /\ [row EXCEPT !.version = v + 1] \in Row
      /\ [row EXCEPT !.version = v + 1].version = v + 1
      /\ Same([row EXCEPT !.version = v + 1], row)
  BY DEF Row, Same, SameStatus, SameLease, SameStep
<1>2. QED
  BY <1>1 DEF VersionedUpdate, Frame

LEMMA LeaseWrite ==
  ASSUME NEW row \in Row, NEW o \in Worker \cup {NULL}, NEW b \in BOOLEAN
  PROVE  LET new == [row EXCEPT !.lease_owner = o, !.lease_live = b]
         IN /\ new \in Row
            /\ new.lease_owner = o /\ new.lease_live = b
            /\ SameStatus(new, row) /\ SameStep(new, row)
BY DEF Row, SameStatus, SameStep

LEMMA ClockWrite ==
  ASSUME NEW row \in Row, NEW b \in BOOLEAN
  PROVE  LET new == [row EXCEPT !.lease_live = b]
         IN /\ new \in Row
            /\ new.lease_live = b /\ new.lease_owner = row.lease_owner
            /\ new.version = row.version
            /\ SameStatus(new, row) /\ SameStep(new, row)
BY DEF Row, SameStatus, SameStep

LEMMA StatusWrite ==
  ASSUME NEW row \in Row, NEW s \in RunStatus
  PROVE  LET new == [row EXCEPT !.status = s]
         IN /\ new \in Row
            /\ new.status = s /\ new.cancel_requested = row.cancel_requested
            /\ SameLease(new, row) /\ SameStep(new, row)
BY DEF Row, SameLease, SameStep

LEMMA SkillWrite ==
  ASSUME NEW row \in Row
  PROVE  LET new == [row EXCEPT !.skill = TRUE]
         IN /\ new \in Row
            /\ new.current_step = row.current_step
            /\ SameStatus(new, row) /\ SameLease(new, row)
BY DEF Row, SameLease, SameStatus

LEMMA CancelWrite ==
  ASSUME NEW row \in Row, NEW s \in RunStatus
  PROVE  /\ LET new == [row EXCEPT !.status = s, !.cancel_requested = TRUE]
            IN /\ new \in Row
               /\ new.status = s /\ new.cancel_requested = TRUE
               /\ SameLease(new, row) /\ SameStep(new, row)
         /\ LET new == [row EXCEPT !.cancel_requested = TRUE]
            IN /\ new \in Row
               /\ new.status = row.status /\ new.cancel_requested = TRUE
               /\ SameLease(new, row) /\ SameStep(new, row)
BY DEF Row, SameLease, SameStep
-----------------------------------------------------------------------------
(* The run of a busy worker, and the values the worker writes with. *)
LEMMA TaskFacts ==
  ASSUME TInv, NEW w \in Worker, Busy(w)
  PROVE  /\ task[w] \in Run /\ run[task[w]] \in Row /\ run[task[w]].status \in RunStatus
         /\ run \in [Run -> Row]
         /\ view[w] \in Row /\ view[w].version \in Nat /\ view[w].current_step \in Nat
BY DEF TInv, TypeOK, Exists, Row

(* AcquireLease: the claim of a free run. *)
LEMMA AcquireEffect ==
  ASSUME TInv, NEW w \in Worker, AcquireLease(w)
  PROVE  LET r == task[w]
         IN /\ pc[w] = "claim" /\ LeaseFree(r) /\ Frame(r)
            /\ run'[r].version = run[r].version + 1
            /\ run'[r].lease_owner = w /\ run'[r].lease_live = TRUE
            /\ SameStatus(run'[r], run[r]) /\ SameStep(run'[r], run[r])
            /\ pc' = [pc EXCEPT ![w] = "load"]
            /\ view' = [view EXCEPT ![w] = NoRow]
            /\ UNCHANGED <<queue, dlq, outbox, task, fate, reap, faults, stalls, requests>>
<1> DEFINE r == task[w]
           new == [run[r] EXCEPT !.lease_owner = w, !.lease_live = TRUE]
<1>1. Busy(w)
  BY DEF AcquireLease, Busy
<1>2. r \in Run /\ run[r] \in Row /\ run \in [Run -> Row] /\ view[w].version \in Nat
  BY <1>1, TaskFacts
<1>3. new \in Row /\ new.lease_owner = w /\ new.lease_live = TRUE
      /\ SameStatus(new, run[r]) /\ SameStep(new, run[r])
  BY <1>2, LeaseWrite
<1>4. VersionedUpdate(r, view[w].version, new) /\ view[w].version = run[r].version
  BY DEF AcquireLease, VersionMatches
<1>5. Frame(r) /\ run'[r].version = run[r].version + 1 /\ Same(run'[r], new)
  BY <1>2, <1>3, <1>4, VersionedWrite
<1>6. QED
  BY <1>3, <1>5 DEF AcquireLease, CloseSession, brokerVars, bounds,
                    Same, SameStatus, SameLease, SameStep

(* ReleaseLease: the row loses its owner, or nothing is written. *)
LEMMA ReleaseEffect ==
  ASSUME TInv, NEW w \in Worker, ReleaseLease(w)
  PROVE  LET r == task[w]
         IN /\ pc[w] = "unlease"
            /\ \/ /\ view[w].version = run[r].version /\ Frame(r)
                  /\ run'[r].version = run[r].version + 1
                  /\ run'[r].lease_owner = NULL /\ run'[r].lease_live = FALSE
                  /\ SameStatus(run'[r], run[r]) /\ SameStep(run'[r], run[r])
               \/ run' = run
            /\ pc' = [pc EXCEPT ![w] = "ack"]
            /\ view' = [view EXCEPT ![w] = NoRow]
            /\ UNCHANGED <<queue, dlq, outbox, task, fate, reap, faults, stalls, requests>>
<1> DEFINE r == task[w]
           new == [run[r] EXCEPT !.lease_owner = NULL, !.lease_live = FALSE]
<1>1. Busy(w)
  BY DEF ReleaseLease, Busy
<1>2. r \in Run /\ run[r] \in Row /\ run \in [Run -> Row] /\ view[w].version \in Nat
  BY <1>1, TaskFacts
<1>3. new \in Row /\ new.lease_owner = NULL /\ new.lease_live = FALSE
      /\ SameStatus(new, run[r]) /\ SameStep(new, run[r])
  BY <1>2, LeaseWrite
<1>4. CASE VersionedUpdate(r, view[w].version, new) /\ view[w].version = run[r].version
  <2>1. Frame(r) /\ run'[r].version = run[r].version + 1 /\ Same(run'[r], new)
    BY <1>2, <1>3, <1>4, VersionedWrite
  <2>2. QED
    BY <1>3, <1>4, <2>1 DEF ReleaseLease, CloseSession, brokerVars, bounds,
                            Same, SameStatus, SameLease, SameStep
<1>5. CASE UNCHANGED run
  BY <1>5 DEF ReleaseLease, CloseSession, brokerVars, bounds
<1>6. QED
  BY <1>4, <1>5 DEF ReleaseLease, VersionMatches

(* A clock or heartbeat step changes nothing the version protects. *)
LEMMA ClockEffect ==
  ASSUME TInv, NEW r \in Run, NEW b \in BOOLEAN,
         run' = [run EXCEPT ![r].lease_live = b]
  PROVE  /\ Frame(r)
         /\ run'[r].lease_live = b /\ run'[r].lease_owner = run[r].lease_owner
         /\ run'[r].version = run[r].version
         /\ SameStatus(run'[r], run[r]) /\ SameStep(run'[r], run[r])
<1>1. run[r] \in Row /\ run \in [Run -> Row]
  BY DEF TInv, TypeOK
<1>2. run' = [run EXCEPT ![r] = [run[r] EXCEPT !.lease_live = b]]
  BY <1>1
<1>3. QED
  BY <1>1, <1>2, ClockWrite DEF Frame

(* CreateRun inserts a fresh pending row. *)
LEMMA CreateEffect ==
  ASSUME TInv, NEW r \in Run, CreateRun(r)
  PROVE  /\ run[r].status = NULL /\ Frame(r)
         /\ run'[r].status = "pending" /\ run'[r].cancel_requested = FALSE
         /\ run'[r].current_step = 0
<1>1. NoRow.cancel_requested = FALSE /\ NoRow.current_step = 0 /\ "pending" \in RunStatus
  BY DEF NoRow, RunStatus
<1>2. run' = [run EXCEPT ![r] = [NoRow EXCEPT !.status = "pending"]]
  BY DEF CreateRun
<1>3. QED
  BY <1>1, <1>2, NoRowType, StatusWrite DEF CreateRun, Frame, SameStep, TInv, TypeOK

(* A client's or reaper's fenced write of a row. *)
LEMMA ApiEffect ==
  ASSUME TInv, NEW r \in Run, NEW row \in Row, ApiWrite(r, row)
  PROVE  Frame(r) /\ run'[r].version = run[r].version + 1 /\ Same(run'[r], row)
<1>1. run \in [Run -> Row] /\ run[r].version \in Nat
  BY DEF TInv, TypeOK, Row
<1>2. QED
  BY <1>1, VersionedWrite DEF ApiWrite

LEMMA ResumeEffect ==
  ASSUME TInv, NEW r \in Run, Resume(r)
  PROVE  /\ Frame(r) /\ run'[r].version = run[r].version + 1
         /\ run'[r].status = "running"
         /\ run'[r].cancel_requested = run[r].cancel_requested
         /\ SameLease(run'[r], run[r]) /\ SameStep(run'[r], run[r])
<1> DEFINE new == [run[r] EXCEPT !.status = "running"]
<1>0. run[r] \in Row /\ "running" \in RunStatus
  BY DEF TInv, TypeOK, RunStatus
<1>1. new \in Row /\ new.status = "running" /\ SameLease(new, run[r])
      /\ new.cancel_requested = run[r].cancel_requested /\ SameStep(new, run[r])
  BY <1>0, StatusWrite
<1>2. Frame(r) /\ run'[r].version = run[r].version + 1 /\ Same(run'[r], new)
  BY <1>1, ApiEffect DEF Resume
<1>3. QED
  BY <1>1, <1>2 DEF Same, SameStatus, SameLease, SameStep

LEMMA CancelEffect ==
  ASSUME TInv, NEW r \in Run, CancelRun(r)
  PROVE  /\ run[r].status \in RunStatus \ TERMINAL_RUN_STATUSES
         /\ Frame(r) /\ run'[r].version = run[r].version + 1
         /\ run'[r].status = IF run[r].status \in WAITING_RUN_STATUSES
                             THEN "cancelled" ELSE run[r].status
         /\ run'[r].cancel_requested = TRUE
         /\ SameLease(run'[r], run[r]) /\ SameStep(run'[r], run[r])
<1>1. run[r] \in Row /\ "cancelled" \in RunStatus
  BY DEF TInv, TypeOK, RunStatus
<1>2. CASE /\ run[r].status \in WAITING_RUN_STATUSES
           /\ ApiWrite(r, [run[r] EXCEPT !.status = "cancelled", !.cancel_requested = TRUE])
  <2> DEFINE new == [run[r] EXCEPT !.status = "cancelled", !.cancel_requested = TRUE]
  <2>1. new \in Row /\ new.status = "cancelled" /\ new.cancel_requested = TRUE
        /\ SameLease(new, run[r]) /\ SameStep(new, run[r])
    BY <1>1, CancelWrite
  <2>2. Frame(r) /\ run'[r].version = run[r].version + 1 /\ Same(run'[r], new)
    BY <1>2, <2>1, ApiEffect
  <2>3. QED
    BY <1>2, <2>1, <2>2 DEF CancelRun, Same, SameStatus, SameLease, SameStep
<1>3. CASE /\ run[r].status \notin WAITING_RUN_STATUSES
           /\ ApiWrite(r, [run[r] EXCEPT !.cancel_requested = TRUE])
  <2> DEFINE new == [run[r] EXCEPT !.cancel_requested = TRUE]
  <2>1. new \in Row /\ new.status = run[r].status /\ new.cancel_requested = TRUE
        /\ SameLease(new, run[r]) /\ SameStep(new, run[r])
    BY <1>1, CancelWrite
  <2>2. Frame(r) /\ run'[r].version = run[r].version + 1 /\ Same(run'[r], new)
    BY <1>3, <2>1, ApiEffect
  <2>3. QED
    BY <1>3, <2>1, <2>2 DEF CancelRun, Same, SameStatus, SameLease, SameStep
<1>4. QED
  BY <1>2, <1>3 DEF CancelRun

LEMMA ExpireEffect ==
  ASSUME TInv, NEW r \in Run, ExpireApproval(r)
  PROVE  /\ run[r].status = "waiting_approval"
         /\ Frame(r) /\ run'[r].version = run[r].version + 1
         /\ run'[r].status = "timed_out"
         /\ run'[r].cancel_requested = run[r].cancel_requested
         /\ SameLease(run'[r], run[r]) /\ SameStep(run'[r], run[r])
<1> DEFINE new == [run[r] EXCEPT !.status = "timed_out"]
<1>0. run[r] \in Row /\ "timed_out" \in RunStatus
  BY DEF TInv, TypeOK, RunStatus
<1>1. new \in Row /\ new.status = "timed_out" /\ SameLease(new, run[r])
      /\ new.cancel_requested = run[r].cancel_requested /\ SameStep(new, run[r])
  BY <1>0, StatusWrite
<1>2. Frame(r) /\ run'[r].version = run[r].version + 1 /\ Same(run'[r], new)
  BY <1>1, ApiEffect DEF ExpireApproval
<1>3. QED
  BY <1>1, <1>2 DEF ExpireApproval, Same, SameStatus, SameLease, SameStep

(* A checkpoint either ends the handler or writes the row it was given, and *)
(* then the version in memory was the version of the row.                   *)
LEMMA CheckpointEffect ==
  ASSUME TInv, NEW w \in Worker, Busy(w), NEW row \in Row, Checkpoint(w, row)
  PROVE  LET r == task[w]
         IN \/ run' = run /\ Unwind(w, "error")
            \/ /\ ValidTransition(view[w].status, row.status)
               /\ view[w].version = run[r].version /\ Frame(r)
               /\ run'[r].version = run[r].version + 1 /\ Same(run'[r], row)
               /\ view' = [view EXCEPT ![w] = run'[r]]
               /\ UNCHANGED <<pc, fate>>
<1> DEFINE r == task[w]
<1>1. r \in Run /\ run \in [Run -> Row] /\ view[w].version \in Nat
  BY TaskFacts
<1>2. CASE Unwind(w, "error") /\ UNCHANGED run
  BY <1>2
<1>3. CASE /\ ValidTransition(view[w].status, row.status)
           /\ VersionMatches(r, view[w].version)
           /\ VersionedUpdate(r, view[w].version, row)
           /\ view' = [view EXCEPT ![w] = run'[r]]
           /\ UNCHANGED <<pc, fate>>
  <2>1. view[w].version = run[r].version
    BY <1>3 DEF VersionMatches
  <2>2. Frame(r) /\ run'[r].version = run[r].version + 1 /\ Same(run'[r], row)
    BY <1>1, <1>3, <2>1, VersionedWrite
  <2>3. QED
    BY <1>3, <2>1, <2>2
<1>4. QED
  BY <1>2, <1>3 DEF Checkpoint

(* What an engine step may write over the row the engine believes in. *)
Progress(w, new) ==
  /\ ValidTransition(view[w].status, new.status)
  /\ \/ /\ view[w].status = "pending" /\ new.status = "running"
        /\ new.current_step = run[task[w]].current_step
     \/ /\ view[w].status = "running" /\ new.status = "cancelled"
        /\ new.current_step = run[task[w]].current_step
     \/ /\ ~view[w].cancel_requested
        /\ new.current_step = run[task[w]].current_step
     \/ /\ ~view[w].cancel_requested /\ view[w].current_step < MaxSteps
        /\ new.current_step \in {view[w].current_step, view[w].current_step + 1}

EngineWrites(w) ==
  LET r == task[w]
  IN /\ view[w].version = run[r].version /\ Frame(r)
     /\ run'[r].version = run[r].version + 1
     /\ run'[r].status \in RunStatus
     /\ run'[r].cancel_requested = run[r].cancel_requested
     /\ SameLease(run'[r], run[r])
     /\ Progress(w, run'[r])
     /\ view' = [view EXCEPT ![w] = run'[r]]
     /\ UNCHANGED <<pc, fate>>

EngineLeaves(w) ==
  /\ run' = run
  /\ pc' = [pc EXCEPT ![w] = "release"]
  /\ \E how \in {"ok", "error"} : fate' = [fate EXCEPT ![w] = how]
  /\ view' = [view EXCEPT ![w] = NoRow]

LEMMA EngineEffect ==
  ASSUME TInv, NEW w \in Worker, EngineStep(w)
  PROVE  /\ pc[w] = "engine" /\ Busy(w)
         /\ UNCHANGED <<queue, dlq, outbox, task, reap, faults, stalls, requests>>
         /\ EngineWrites(w) \/ EngineLeaves(w)
<1> DEFINE r == task[w]
<1>1. /\ pc[w] = "engine" /\ Busy(w)
      /\ UNCHANGED <<queue, dlq, outbox, task, reap, faults, stalls, requests>>
  BY DEF EngineStep, StartRun, CancelStep, StepLimit, ActivateSkill, ReasonStep, EngineDone,
         Engine, Busy, brokerVars, bounds
<1> SUFFICES EngineWrites(w) \/ EngineLeaves(w)
  BY <1>1
<1>2. /\ r \in Run /\ run[r] \in Row /\ run[r].status \in RunStatus
      /\ view[w].current_step \in Nat
  BY <1>1, TaskFacts
<1>3. Unwind(w, "error") /\ run' = run => EngineLeaves(w)
  BY DEF Unwind, CloseSession, EngineLeaves
<1>4. ASSUME NEW row \in Row, Checkpoint(w, row), row.status \in RunStatus,
             row.cancel_requested = run[r].cancel_requested, SameLease(row, run[r]),
             ValidTransition(view[w].status, row.status) => Progress(w, row)
      PROVE  EngineWrites(w) \/ EngineLeaves(w)
  <2>1. CASE run' = run /\ Unwind(w, "error")
    BY <1>3, <2>1
  <2>2. CASE /\ ValidTransition(view[w].status, row.status)
             /\ view[w].version = run[r].version /\ Frame(r)
             /\ run'[r].version = run[r].version + 1 /\ Same(run'[r], row)
             /\ view' = [view EXCEPT ![w] = run'[r]]
             /\ UNCHANGED <<pc, fate>>
    <3>1. Progress(w, run'[r])
      BY <1>4, <2>2 DEF Progress, Same, SameStatus, SameStep
    <3>2. QED
      BY <1>4, <2>2, <3>1 DEF EngineWrites, Same, SameStatus, SameLease
  <2>3. QED
    BY <1>1, <1>4, <2>1, <2>2, CheckpointEffect
<1>5. ASSUME NEW s \in RunStatus, Checkpoint(w, [run[r] EXCEPT !.status = s]),
             \/ view[w].status = "pending" /\ s = "running"
             \/ view[w].status = "running" /\ s = "cancelled"
             \/ ~view[w].cancel_requested
      PROVE  EngineWrites(w) \/ EngineLeaves(w)
  <2> DEFINE new == [run[r] EXCEPT !.status = s]
  <2>1. /\ new \in Row /\ new.status = s /\ SameLease(new, run[r])
        /\ new.cancel_requested = run[r].cancel_requested /\ SameStep(new, run[r])
    BY <1>2, StatusWrite
  <2>2. ValidTransition(view[w].status, s) => Progress(w, new)
    BY <1>5, <2>1 DEF Progress, SameStep
  <2>3. QED
    BY <1>4, <1>5, <2>1, <2>2
<1>6. CASE StartRun(w)
  <2>1. Checkpoint(w, [run[r] EXCEPT !.status = "running"]) /\ view[w].status = "pending"
    BY <1>6 DEF StartRun
  <2>2. QED
    BY <1>5, <2>1 DEF RunStatus
<1>7. CASE CancelStep(w)
  <2>1. Checkpoint(w, [run[r] EXCEPT !.status = "cancelled"]) /\ view[w].status = "running"
    BY <1>7 DEF CancelStep
  <2>2. QED
    BY <1>5, <2>1 DEF RunStatus
<1>8. CASE StepLimit(w)
  <2>1. Checkpoint(w, [run[r] EXCEPT !.status = "timed_out"]) /\ ~view[w].cancel_requested
    BY <1>8 DEF StepLimit
  <2>2. QED
    BY <1>5, <2>1 DEF RunStatus
<1>9. CASE ActivateSkill(w)
  <2> DEFINE new == [run[r] EXCEPT !.skill = TRUE]
  <2>1. /\ new \in Row /\ new.current_step = run[r].current_step
        /\ SameStatus(new, run[r]) /\ SameLease(new, run[r])
    BY <1>2, SkillWrite
  <2>2. Checkpoint(w, new) /\ ~view[w].cancel_requested
    BY <1>9 DEF ActivateSkill, MayReason
  <2>3. ValidTransition(view[w].status, new.status) => Progress(w, new)
    BY <2>1, <2>2 DEF Progress
  <2>4. new.status \in RunStatus /\ new.cancel_requested = run[r].cancel_requested
    BY <1>2, <2>1 DEF SameStatus
  <2> HIDE DEF new
  <2>5. QED
    BY <1>4, <2>1, <2>2, <2>3, <2>4
<1>10. CASE ReasonStep(w)
  <2>1. PICK o \in StepOutcomes :
          Checkpoint(w, [run[r] EXCEPT !.status = o[1],
                                       !.current_step = view[w].current_step + o[2]])
    BY <1>10 DEF ReasonStep
  <2>2. o[1] \in RunStatus /\ o[2] \in {0, 1}
    BY DEF StepOutcomes, RunStatus
  <2>3. PICK s \in RunStatus, n \in Nat :
          s = o[1] /\ n = view[w].current_step + o[2]
    BY <1>2, <2>2
  <2> DEFINE new == [run[r] EXCEPT !.status = s, !.current_step = n]
  <2>4. /\ new \in Row /\ new.status = s /\ new.current_step = n
        /\ new.cancel_requested = run[r].cancel_requested /\ SameLease(new, run[r])
    BY <1>2 DEF Row, SameLease
  <2>5. ~view[w].cancel_requested /\ view[w].current_step < MaxSteps
    BY <1>10 DEF ReasonStep, MayReason
  <2>6. n \in {view[w].current_step, view[w].current_step + 1}
    BY <1>2, <2>2, <2>3
  <2>7. ValidTransition(view[w].status, new.status) => Progress(w, new)
    BY <2>4, <2>5, <2>6 DEF Progress
  <2>8. Checkpoint(w, new)
    BY <2>1, <2>3
  <2> HIDE DEF new
  <2>9. QED
    BY <1>4, <2>4, <2>7, <2>8
<1>11. CASE EngineDone(w)
  BY <1>11 DEF EngineDone, Unwind, CloseSession, EngineLeaves
<1>12. QED
  BY <1>1, <1>6, <1>7, <1>8, <1>9, <1>10, <1>11 DEF EngineStep
-----------------------------------------------------------------------------
LEMMA InitTInv == Init => TInv
<1> SUFFICES ASSUME Init PROVE TInv
  OBVIOUS
<1>1. TypeOK
  BY NoRowType DEF Init, TypeOK
<1>2. Exists
  BY DEF Init, Exists, Busy
<1>3. QED
  BY <1>1, <1>2 DEF TInv

LEMMA NextTInv == TInv /\ [Next]_vars => TInv'
<1> SUFFICES ASSUME TInv, [Next]_vars PROVE TInv'
  OBVIOUS
<1> USE DispatchAssumption, NoRowType
<1>0. "running" # NULL /\ "timed_out" # NULL /\ "cancelled" # NULL /\ "pending" # NULL
  BY DEF RunStatus
<1>00. /\ faults \in Nat /\ stalls \in Nat /\ requests \in Nat
       /\ faults + 1 \in Nat /\ stalls + 1 \in Nat /\ requests + 1 \in Nat
  BY DEF TInv, TypeOK
<1>1. ASSUME NEW w \in Worker, NEW r \in Run, Consume(w, r) PROVE TInv'
  BY <1>1 DEF Consume, TInv, TypeOK, Exists, Busy, bounds
<1>2. ASSUME NEW w \in Worker, AcquireLease(w) PROVE TInv'
  <2>1. task[w] \in Run
    BY <1>2, TaskFacts, AcquireEffect DEF Busy
  <2>2. \A q \in Run : run'[q].status = run[q].status
    BY <1>2, <2>1, AcquireEffect DEF Frame, SameStatus
  <2>3. /\ pc[w] = "claim" /\ pc' = [pc EXCEPT ![w] = "load"]
        /\ run' \in [Run -> Row] /\ view' = [view EXCEPT ![w] = NoRow]
        /\ UNCHANGED <<queue, dlq, outbox, task, fate, reap, faults, stalls, requests>>
    BY <1>2, AcquireEffect DEF Frame
  <2>4. QED
    BY <2>2, <2>3 DEF TInv, TypeOK, Exists, Busy
<1>3. ASSUME NEW w \in Worker, SkipLeased(w) PROVE TInv'
  BY <1>3 DEF SkipLeased, CloseSession, TInv, TypeOK, Exists, Busy, brokerVars, bounds
<1>4. ASSUME NEW w \in Worker, LoadRun(w) PROVE TInv'
  BY <1>4 DEF LoadRun, TInv, TypeOK, Exists, Busy, brokerVars, bounds
<1>5. ASSUME NEW w \in Worker, EngineStep(w) PROVE TInv'
  <2>1. task[w] \in Run
    BY <1>5, TaskFacts, EngineEffect
  <2>2. CASE EngineWrites(w)
    <3>1. \A q \in Run : run[q].status # NULL => run'[q].status # NULL
      BY <2>1, <2>2 DEF EngineWrites, Frame
    <3>2. \A q \in Run : run'[q].status = NULL => run[q].status = NULL
      BY <2>1, <2>2 DEF EngineWrites, Frame
    <3>3. QED
      BY <1>5, <2>1, <2>2, <3>1, <3>2, EngineEffect
         DEF EngineWrites, Frame, TInv, TypeOK, Exists, Busy
  <2>3. CASE EngineLeaves(w)
    <3>1. /\ pc[w] = "engine"
          /\ UNCHANGED <<queue, dlq, outbox, task, reap, faults, stalls, requests>>
      BY <1>5, EngineEffect
    <3>2. QED
      BY <2>3, <3>1 DEF EngineLeaves, TInv, TypeOK, Exists, Busy
  <2>4. QED
    BY <1>5, <2>2, <2>3, EngineEffect
<1>6. ASSUME NEW w \in Worker, ReleaseRead(w) PROVE TInv'
  BY <1>6 DEF ReleaseRead, TInv, TypeOK, Exists, Busy, brokerVars, bounds
<1>7. ASSUME NEW w \in Worker, ReleaseLease(w) PROVE TInv'
  <2>1. task[w] \in Run
    BY <1>7, TaskFacts, ReleaseEffect DEF Busy
  <2>2. run' \in [Run -> Row] /\ \A q \in Run : run'[q].status = run[q].status
    BY <1>7, <2>1, ReleaseEffect DEF Frame, SameStatus, TInv, TypeOK
  <2>3. /\ pc[w] = "unlease" /\ pc' = [pc EXCEPT ![w] = "ack"]
        /\ view' = [view EXCEPT ![w] = NoRow]
        /\ UNCHANGED <<queue, dlq, outbox, task, fate, reap, faults, stalls, requests>>
    BY <1>7, ReleaseEffect
  <2>4. QED
    BY <2>2, <2>3 DEF TInv, TypeOK, Exists, Busy
<1>8. ASSUME NEW w \in Worker, Settle(w) PROVE TInv'
  BY <1>8 DEF Settle, Forget, CloseSession, TInv, TypeOK, Exists, Busy, bounds
<1>9. ASSUME NEW r \in Run, NEW b \in BOOLEAN, run' = [run EXCEPT ![r].lease_live = b],
             UNCHANGED <<brokerVars, workerVars, reap>>,
             faults' \in Nat /\ stalls' \in Nat /\ requests' \in Nat
      PROVE  TInv'
  <2>1. run' \in [Run -> Row] /\ \A q \in Run : run'[q].status = run[q].status
    BY <1>9, ClockEffect DEF Frame, SameStatus
  <2>2. QED
    BY <1>9, <2>1 DEF TInv, TypeOK, Exists, Busy, brokerVars, workerVars
<1>10. ASSUME NEW w \in Worker, RenewLease(w) PROVE TInv'
  <2>1. task[w] \in Run
    BY <1>10, TaskFacts DEF RenewLease, Driving, Busy
  <2>2. QED
    BY <1>9, <1>10, <2>1 DEF RenewLease, TInv, TypeOK, bounds
<1>11. ASSUME NEW w \in Worker, LoseLease(w) PROVE TInv'
  BY <1>11 DEF LoseLease, Driving, Unwind, CloseSession, TInv, TypeOK, Exists, Busy,
               brokerVars, bounds
<1>12. ASSUME NEW w \in Worker, Crash(w) PROVE TInv'
  BY <1>12 DEF Crash, Fault, Forget, CloseSession, TInv, TypeOK, Exists, Busy
<1>13. ASSUME NEW w \in Worker, Restart(w) PROVE TInv'
  BY <1>13 DEF Restart, TInv, TypeOK, Exists, Busy, brokerVars, bounds
<1>14. ASSUME NEW w \in Worker, Raise(w) PROVE TInv'
  BY <1>14 DEF Raise, Fault, Driving, Unwind, CloseSession, TInv, TypeOK, Exists, Busy,
               brokerVars
<1>15. ASSUME NEW r \in Run, ExpireLease(r) PROVE TInv'
  BY <1>00, <1>9, <1>15 DEF ExpireLease, bounds
<1>16. ASSUME NEW r \in Run, StallLease(r) PROVE TInv'
  BY <1>00, <1>9, <1>16 DEF StallLease
<1>17. ASSUME NEW r \in Run, Reaper(r) PROVE TInv'
  <2>1. CASE ReapSelect(r)
    BY <1>0, <2>1 DEF ReapSelect, TInv, TypeOK, Exists, Busy, Row, brokerVars, workerVars, bounds
  <2>2. CASE ReapHandoff(r)
    BY <2>2 DEF ReapHandoff, TInv, TypeOK, Exists, Busy, workerVars, bounds
  <2>3. CASE ReapLost(r)
    BY <2>3 DEF ReapLost, TInv, TypeOK, Exists, Busy, brokerVars, workerVars, bounds
  <2>4. QED
    BY <1>17, <2>1, <2>2, <2>3 DEF Reaper
<1>18. ASSUME NEW r \in Run, Frame(r), run'[r].status # NULL,
              UNCHANGED <<workerVars, reap>>, queue' = queue, dlq' = dlq,
              outbox' = outbox \/ PublishLater(r),
              faults' \in Nat /\ stalls' \in Nat /\ requests' \in Nat
       PROVE  TInv'
  <2>1. \A q \in Run : run[q].status # NULL => run'[q].status # NULL
    BY <1>18 DEF Frame
  <2>2. \A q \in Run : run'[q].status = NULL => q # r /\ run[q].status = NULL
    BY <1>18 DEF Frame
  <2>3. QED
    BY <1>18, <2>1, <2>2 DEF Frame, PublishLater, TInv, TypeOK, Exists, Busy, workerVars
<1>19. ASSUME NEW r \in Run, CreateRun(r) PROVE TInv'
  BY <1>0, <1>18, <1>19, CreateEffect DEF CreateRun, PublishLater, TInv, TypeOK, bounds
<1>20. ASSUME NEW r \in Run, Resume(r), NEW kind, Request(kind), UNCHANGED <<workerVars, reap>>
       PROVE  TInv'
  BY <1>0, <1>00, <1>18, <1>20, ResumeEffect DEF Resume, PublishLater, Request
<1>21. ASSUME NEW r \in Run, PostMessage(r) \/ DecideApproval(r) PROVE TInv'
  BY <1>20, <1>21 DEF PostMessage, DecideApproval
<1>22. ASSUME NEW r \in Run, SlackMessage(r) PROVE TInv'
  <2>1. CASE Resume(r)
    BY <1>20, <1>22, <2>1 DEF SlackMessage
  <2>2. CASE PublishLater(r) /\ UNCHANGED run
    <3>1. Frame(r) /\ run'[r].status # NULL
      BY <1>22, <2>2 DEF SlackMessage, Frame, TInv, TypeOK
    <3>2. QED
      BY <1>00, <1>18, <1>22, <2>2, <3>1 DEF SlackMessage, PublishLater, Request
  <2>3. QED
    BY <1>22, <2>1, <2>2 DEF SlackMessage
<1>23. ASSUME NEW r \in Run, CancelRun(r) PROVE TInv'
  <2>1. Frame(r) /\ run'[r].status # NULL
    BY <1>0, <1>23, CancelEffect
  <2>2. QED
    BY <1>18, <1>23, <2>1 DEF CancelRun, Request, brokerVars, TInv, TypeOK
<1>24. ASSUME NEW r \in Run, ExpireApproval(r) PROVE TInv'
  BY <1>0, <1>18, <1>24, ExpireEffect DEF ExpireApproval, brokerVars, bounds, TInv, TypeOK
<1>25. ASSUME NEW r \in Run, Publish(r) \/ PublishFails(r) PROVE TInv'
  BY <1>25 DEF Publish, PublishFails, Fault, TInv, TypeOK, Exists, Busy, workerVars, bounds
<1>26. CASE UNCHANGED vars
  BY <1>26 DEF vars, TInv, TypeOK, Exists, Busy
<1>27. QED
  BY <1>1, <1>2, <1>3, <1>4, <1>5, <1>6, <1>7, <1>8, <1>10, <1>11, <1>12, <1>13, <1>14,
     <1>15, <1>16, <1>17, <1>19, <1>21, <1>22, <1>23, <1>24, <1>25, <1>26
     DEF Next, WorkerStep, Heartbeat, Client

(* Every reachable state is well typed, and no message, task or reaper     *)
(* candidate stands for a run that was never inserted.                     *)
THEOREM TypeCorrect == Spec => []TypeOK
<1>1. TInv => TypeOK
  BY DEF TInv
<1>2. QED
  BY <1>1, InitTInv, NextTInv, PTL DEF Spec
-----------------------------------------------------------------------------
(* A step that changes anything the version protects raises the version. *)
MovesOn(r) == \/ run'[r].version > run[r].version
              \/ /\ run'[r].version = run[r].version
                 /\ Fenced(run'[r]) = Fenced(run[r])

LEMMA RowsMoveOn ==
  ASSUME TInv, [Next]_vars
  PROVE  \A r \in Run : run[r].status # NULL => MovesOn(r)
<1>0. /\ run \in [Run -> Row]
      /\ \A r \in Run : run[r].version \in Nat /\ run[r].version + 1 > run[r].version
  BY DEF TInv, TypeOK, Row
<1>1. ASSUME NEW r \in Run, Frame(r), run[r].status # NULL => MovesOn(r)
      PROVE  \A q \in Run : run[q].status # NULL => MovesOn(q)
  BY <1>0, <1>1 DEF Frame, MovesOn
<1>2. ASSUME NEW r \in Run, Frame(r), run'[r].version = run[r].version + 1
      PROVE  \A q \in Run : run[q].status # NULL => MovesOn(q)
  BY <1>0, <1>1, <1>2 DEF MovesOn
<1>3. ASSUME run' = run PROVE \A q \in Run : run[q].status # NULL => MovesOn(q)
  BY <1>3 DEF MovesOn
<1>4. ASSUME NEW w \in Worker, AcquireLease(w)
      PROVE  \A q \in Run : run[q].status # NULL => MovesOn(q)
  BY <1>2, <1>4, AcquireEffect, TaskFacts DEF Busy
<1>5. ASSUME NEW w \in Worker, EngineStep(w)
      PROVE  \A q \in Run : run[q].status # NULL => MovesOn(q)
  <2>1. task[w] \in Run /\ (EngineWrites(w) \/ EngineLeaves(w))
    BY <1>5, EngineEffect, TaskFacts
  <2>2. QED
    BY <1>2, <1>3, <2>1 DEF EngineWrites, EngineLeaves
<1>6. ASSUME NEW w \in Worker, ReleaseLease(w)
      PROVE  \A q \in Run : run[q].status # NULL => MovesOn(q)
  BY <1>2, <1>3, <1>6, ReleaseEffect, TaskFacts DEF Busy
<1>7. ASSUME NEW r \in Run, NEW b \in BOOLEAN, run' = [run EXCEPT ![r].lease_live = b]
      PROVE  \A q \in Run : run[q].status # NULL => MovesOn(q)
  <2>1. Frame(r) /\ MovesOn(r)
    BY <1>7, ClockEffect DEF MovesOn, Fenced, SameStatus, SameStep
  <2>2. QED
    BY <1>1, <2>1
<1>8. ASSUME NEW w \in Worker, RenewLease(w)
      PROVE  \A q \in Run : run[q].status # NULL => MovesOn(q)
  BY <1>7, <1>8, TaskFacts DEF RenewLease, Driving, Busy
<1>9. ASSUME NEW r \in Run, ExpireLease(r) \/ StallLease(r)
      PROVE  \A q \in Run : run[q].status # NULL => MovesOn(q)
  BY <1>7, <1>9 DEF ExpireLease, StallLease
<1>10. ASSUME NEW r \in Run, Client(r)
       PROVE  \A q \in Run : run[q].status # NULL => MovesOn(q)
  <2>1. CASE CreateRun(r)
    BY <1>1, <2>1, CreateEffect
  <2>2. CASE Resume(r)
    BY <1>2, <2>2, ResumeEffect
  <2>3. CASE CancelRun(r)
    BY <1>2, <2>3, CancelEffect
  <2>4. CASE ExpireApproval(r)
    BY <1>2, <2>4, ExpireEffect
  <2>5. QED
    BY <1>3, <1>10, <2>1, <2>2, <2>3, <2>4
       DEF Client, PostMessage, DecideApproval, SlackMessage
<1>11. CASE UNCHANGED run
  BY <1>3, <1>11
<1>12. QED
  BY <1>4, <1>5, <1>6, <1>8, <1>9, <1>10, <1>11
     DEF Next, WorkerStep, Heartbeat, Reaper, Consume, SkipLeased, LoadRun, ReleaseRead,
         Settle, LoseLease, Crash, Restart, Raise, ReapSelect, ReapHandoff, ReapLost,
         Publish, PublishFails, vars

(* A session's object was just read from the row, or is the one it had. *)
Fresh(w) == \/ view'[w] = run'[task'[w]]
            \/ HasRow(w) /\ view'[w] = view[w] /\ task'[w] = task[w]

LEMMA ViewsAreRead ==
  ASSUME TInv, [Next]_vars
  PROVE  \A w \in Worker : HasRow(w)' => Fresh(w)
<1> SUFFICES ASSUME NEW v \in Worker, HasRow(v)' PROVE Fresh(v)
  OBVIOUS
<1> USE DEF HasRow, Fresh
<1>0. /\ pc \in [Worker -> {"idle", "claim", "load", "engine", "release",
                            "unlease", "ack", "down"}]
      /\ task \in [Worker -> Run \cup {NULL}] /\ view \in [Worker -> Row]
  BY DEF TInv, TypeOK
<1>1. ASSUME NEW w \in Worker, NEW r \in Run, Consume(w, r) PROVE Fresh(v)
  BY <1>0, <1>1 DEF Consume
<1>2. ASSUME NEW w \in Worker, AcquireLease(w) PROVE Fresh(v)
  BY <1>0, <1>2 DEF AcquireLease, CloseSession
<1>3. ASSUME NEW w \in Worker, SkipLeased(w) PROVE Fresh(v)
  BY <1>0, <1>3 DEF SkipLeased, CloseSession
<1>4. ASSUME NEW w \in Worker, LoadRun(w) PROVE Fresh(v)
  BY <1>0, <1>4 DEF LoadRun
<1>5. ASSUME NEW w \in Worker, EngineStep(w) PROVE Fresh(v)
  <2>1. pc[w] = "engine" /\ task' = task /\ (EngineWrites(w) \/ EngineLeaves(w))
    BY <1>5, EngineEffect
  <2>2. QED
    BY <1>0, <2>1 DEF EngineWrites, EngineLeaves
<1>6. ASSUME NEW w \in Worker, ReleaseRead(w) PROVE Fresh(v)
  BY <1>0, <1>6 DEF ReleaseRead
<1>7. ASSUME NEW w \in Worker, ReleaseLease(w) PROVE Fresh(v)
  BY <1>0, <1>7 DEF ReleaseLease, CloseSession
<1>8. ASSUME NEW w \in Worker, Settle(w) PROVE Fresh(v)
  BY <1>0, <1>8 DEF Settle, Forget, CloseSession
<1>9. ASSUME NEW w \in Worker, LoseLease(w) PROVE Fresh(v)
  BY <1>0, <1>9 DEF LoseLease, Unwind, CloseSession
<1>10. ASSUME NEW w \in Worker, Crash(w) PROVE Fresh(v)
  BY <1>0, <1>10 DEF Crash, Forget, CloseSession
<1>11. ASSUME NEW w \in Worker, Restart(w) PROVE Fresh(v)
  BY <1>0, <1>11 DEF Restart
<1>12. ASSUME NEW w \in Worker, Raise(w) PROVE Fresh(v)
  BY <1>0, <1>12 DEF Raise, Unwind, CloseSession
<1>13. CASE UNCHANGED workerVars
  BY <1>13 DEF workerVars
<1>14. QED
  BY <1>1, <1>2, <1>3, <1>4, <1>5, <1>6, <1>7, <1>8, <1>9, <1>10, <1>11, <1>12, <1>13
     DEF Next, WorkerStep, Heartbeat, Reaper, Client, RenewLease, ExpireLease, StallLease,
         ReapSelect, ReapHandoff, ReapLost, CreateRun, PostMessage, DecideApproval,
         SlackMessage, CancelRun, ExpireApproval, Publish, PublishFails, vars, workerVars

LEMMA NextFence ==
  ASSUME TInv, TInv', CurrentVersionIsCurrentRow, [Next]_vars
  PROVE  CurrentVersionIsCurrentRow'
<1> SUFFICES ASSUME NEW w \in Worker, HasRow(w)'
             PROVE  /\ view'[w].version <= run'[task'[w]].version
                    /\ view'[w].version = run'[task'[w]].version
                         => Fenced(view'[w]) = Fenced(run'[task'[w]])
  BY DEF CurrentVersionIsCurrentRow, Fenced
<1>1. Fresh(w)
  BY ViewsAreRead
<1>2. CASE view'[w] = run'[task'[w]]
  <2>1. task'[w] \in Run /\ run'[task'[w]].version \in Nat
    BY DEF TInv, TypeOK, Exists, Row, Busy, HasRow
  <2>2. QED
    BY <1>2, <2>1
<1>3. CASE HasRow(w) /\ view'[w] = view[w] /\ task'[w] = task[w]
  <2>1. task[w] \in Run /\ run[task[w]].status # NULL
    BY <1>3 DEF TInv, Exists, Busy, HasRow
  <2>2. MovesOn(task[w])
    BY <2>1, RowsMoveOn
  <2>3. /\ run'[task[w]].version \in Nat /\ run[task[w]].version \in Nat
        /\ view[w].version \in Nat
    BY <2>1 DEF TInv, TypeOK, Row
  <2>4. /\ view[w].version <= run[task[w]].version
        /\ view[w].version = run[task[w]].version => Fenced(view[w]) = Fenced(run[task[w]])
    BY <1>3 DEF CurrentVersionIsCurrentRow
  <2>5. CASE run'[task[w]].version > run[task[w]].version
    BY <1>3, <2>3, <2>4, <2>5
  <2>6. CASE /\ run'[task[w]].version = run[task[w]].version
             /\ Fenced(run'[task[w]]) = Fenced(run[task[w]])
    BY <1>3, <2>4, <2>6
  <2>7. QED
    BY <2>2, <2>5, <2>6 DEF MovesOn
<1>4. QED
  BY <1>1, <1>2, <1>3 DEF Fresh

FInv == TInv /\ CurrentVersionIsCurrentRow

LEMMA FenceInvariant == Spec => []FInv
<1>1. Init => FInv
  BY InitTInv DEF Init, FInv, CurrentVersionIsCurrentRow, HasRow
<1>2. FInv /\ [Next]_vars => FInv'
  BY NextTInv, NextFence DEF FInv
<1>3. QED
  BY <1>1, <1>2, PTL DEF Spec

(* The optimistic lock of _versioned_update: a worker whose object carries *)
(* the row's version has the row's content, for any number of workers,     *)
(* runs, crashes, requests and stalls.                                     *)
THEOREM FenceHolds == Spec => []CurrentVersionIsCurrentRow
<1>1. FInv => CurrentVersionIsCurrentRow
  BY DEF FInv
<1>2. QED
  BY <1>1, FenceInvariant, PTL
-----------------------------------------------------------------------------
(* The handler releases only a lease it read as its own. *)
OwnLease == \A w \in Worker : pc[w] = "unlease" => view[w].lease_owner = w

Held(w) == run[task[w]].lease_owner = w /\ run[task[w]].lease_live

LInv == FInv /\ OwnLease /\ OneDriver

LEMMA NextOwnLease ==
  ASSUME TInv, OwnLease, [Next]_vars
  PROVE  OwnLease'
<1> SUFFICES ASSUME NEW v \in Worker, pc'[v] = "unlease" PROVE view'[v].lease_owner = v
  BY DEF OwnLease
<1>0. /\ pc \in [Worker -> {"idle", "claim", "load", "engine", "release",
                            "unlease", "ack", "down"}]
      /\ task \in [Worker -> Run \cup {NULL}] /\ view \in [Worker -> Row]
  BY DEF TInv, TypeOK
<1>1. CASE pc[v] = "unlease" /\ view'[v] = view[v]
  BY <1>1 DEF OwnLease
<1>2. ASSUME NEW w \in Worker, ReleaseRead(w) PROVE view'[v].lease_owner = v
  BY <1>0, <1>1, <1>2 DEF ReleaseRead
<1>3. ASSUME NEW w \in Worker, EngineStep(w) PROVE view'[v].lease_owner = v
  <2>1. pc[w] = "engine" /\ (EngineWrites(w) \/ EngineLeaves(w))
    BY <1>3, EngineEffect
  <2>2. QED
    BY <1>0, <1>1, <2>1 DEF EngineWrites, EngineLeaves
<1>4. ASSUME NEW w \in Worker, NEW r \in Run, Consume(w, r) PROVE view'[v].lease_owner = v
  BY <1>0, <1>1, <1>4 DEF Consume
<1>5. ASSUME NEW w \in Worker,
             \/ AcquireLease(w) \/ SkipLeased(w) \/ LoadRun(w) \/ ReleaseLease(w)
             \/ Settle(w) \/ LoseLease(w) \/ Crash(w) \/ Restart(w) \/ Raise(w)
      PROVE  view'[v].lease_owner = v
  BY <1>0, <1>1, <1>5 DEF AcquireLease, SkipLeased, LoadRun, ReleaseLease, Settle, LoseLease,
         Crash, Restart, Raise, Unwind, Forget, CloseSession
<1>6. CASE UNCHANGED workerVars
  BY <1>1, <1>6 DEF workerVars
<1>7. QED
  BY <1>2, <1>3, <1>4, <1>5, <1>6
     DEF Next, WorkerStep, Heartbeat, Reaper, Client, RenewLease, ExpireLease, StallLease,
         ReapSelect, ReapHandoff, ReapLost, CreateRun, PostMessage, DecideApproval,
         SlackMessage, CancelRun, ExpireApproval, Publish, PublishFails, vars, workerVars

(* A driver keeps its lease through every step of everybody else. *)
LEMMA NextOneDriver ==
  ASSUME TInv, CurrentVersionIsCurrentRow, OwnLease, OneDriver, [Next]_vars
  PROVE  OneDriver'
<1> SUFFICES ASSUME stalls' = 0, NEW v \in Worker, Driving(v)'
             PROVE  Held(v)'
  BY DEF OneDriver, Held
<1>0. /\ pc \in [Worker -> {"idle", "claim", "load", "engine", "release",
                            "unlease", "ack", "down"}]
      /\ task \in [Worker -> Run \cup {NULL}]
      /\ stalls \in Nat /\ run \in [Run -> Row]
  BY DEF TInv, TypeOK
<1>1. stalls = 0 /\ Driving(v) => Held(v) /\ task[v] \in Run /\ run[task[v]].status # NULL
  BY TaskFacts DEF OneDriver, Held, Driving, Busy, TInv, Exists
<1>2. ASSUME stalls = 0, Driving(v), task' = task, NEW r \in Run, Frame(r),
             r = task[v] => SameLease(run'[r], run[r]) \/ Held(v)'
      PROVE  Held(v)'
  BY <1>1, <1>2 DEF Held, Frame, SameLease
<1>3. ASSUME stalls = 0, Driving(v), task' = task, run' = run PROVE Held(v)'
  BY <1>1, <1>3 DEF Held
<1>4. ASSUME NEW w \in Worker, NEW r \in Run, Consume(w, r) PROVE Held(v)'
  <2>1. v # w /\ Driving(v) /\ task'[v] = task[v] /\ run' = run /\ stalls = 0
    BY <1>0, <1>4 DEF Consume, Driving, bounds
  <2>2. QED
    BY <1>1, <2>1 DEF Held
<1>5. ASSUME NEW w \in Worker, AcquireLease(w) PROVE Held(v)'
  <2>1. task[w] \in Run
    BY <1>5, AcquireEffect, TaskFacts DEF Busy
  <2>2. CASE v = w
    BY <1>5, <2>2, AcquireEffect DEF Held
  <2>3. CASE v # w
    <3>1. Driving(v) /\ task' = task /\ stalls = 0 /\ Frame(task[w]) /\ LeaseFree(task[w])
      BY <1>0, <1>5, <2>3, AcquireEffect, ZenonT(40) DEF Driving
    <3>2. task[v] # task[w]
      BY <1>1, <2>3, <3>1, DispatchAssumption DEF LeaseFree, Held
    <3>3. QED
      BY <1>2, <2>1, <3>1, <3>2
  <2>4. QED
    BY <2>2, <2>3
<1>6. ASSUME NEW w \in Worker, ReleaseLease(w) PROVE Held(v)'
  <2>1. task[w] \in Run
    BY <1>6, ReleaseEffect, TaskFacts DEF Busy
  <2>2. /\ v # w /\ Driving(v) /\ task' = task /\ stalls = 0 /\ pc[w] = "unlease"
        /\ run' = run \/ (Frame(task[w]) /\ view[w].version = run[task[w]].version)
    BY <1>0, <1>6, ReleaseEffect DEF Driving
  <2>3. CASE run' = run
    BY <1>3, <2>2, <2>3
  <2>4. CASE Frame(task[w]) /\ view[w].version = run[task[w]].version
    <3>1. run[task[w]].lease_owner = w
      BY <2>2, <2>4 DEF CurrentVersionIsCurrentRow, HasRow, Fenced, OwnLease
    <3>2. task[v] # task[w]
      BY <1>1, <2>2, <3>1 DEF Held
    <3>3. QED
      BY <1>2, <2>1, <2>2, <2>4, <3>2
  <2>5. QED
    BY <2>2, <2>3, <2>4
<1>7. ASSUME NEW w \in Worker, EngineStep(w) PROVE Held(v)'
  <2>1. /\ pc[w] = "engine" /\ task' = task /\ stalls = 0 /\ task[w] \in Run
        /\ EngineWrites(w) \/ EngineLeaves(w)
    BY <1>7, EngineEffect, TaskFacts
  <2>2. Driving(v)
    BY <1>0, <2>1 DEF EngineWrites, EngineLeaves, Driving
  <2>3. QED
    BY <1>2, <1>3, <2>1, <2>2 DEF EngineWrites, EngineLeaves
<1>8. ASSUME NEW w \in Worker, RenewLease(w) PROVE Held(v)'
  <2>1. /\ task[w] \in Run /\ run' = [run EXCEPT ![task[w]].lease_live = TRUE]
        /\ Driving(v) /\ task' = task /\ stalls = 0
    BY <1>8, TaskFacts DEF RenewLease, Driving, Busy, workerVars, bounds
  <2>2. /\ Frame(task[w]) /\ run'[task[w]].lease_live = TRUE
        /\ run'[task[w]].lease_owner = run[task[w]].lease_owner
    BY <2>1, ClockEffect
  <2>3. QED
    BY <1>1, <1>2, <2>1, <2>2 DEF Held
<1>9. ASSUME NEW r \in Run, ExpireLease(r) PROVE Held(v)'
  <2>1. /\ Driving(v) /\ task' = task /\ stalls = 0 /\ ~Beating(r)
        /\ run' = [run EXCEPT ![r].lease_live = FALSE]
    BY <1>9 DEF ExpireLease, workerVars, bounds, Driving
  <2>2. task[v] # r
    BY <1>1, <2>1 DEF Beating, Held
  <2>3. QED
    BY <1>2, <2>1, <2>2, ClockEffect
<1>10. ASSUME NEW r \in Run, StallLease(r) PROVE Held(v)'
  BY <1>0, <1>10 DEF StallLease
<1>11. ASSUME NEW r \in Run, Client(r) PROVE Held(v)'
  <2>1. Driving(v) /\ task' = task /\ stalls = 0
    BY <1>11 DEF Client, CreateRun, PostMessage, DecideApproval, SlackMessage, CancelRun,
                 ExpireApproval, Request, workerVars, bounds, Driving
  <2>2. CASE CreateRun(r)
    BY <1>1, <1>2, <2>1, <2>2, CreateEffect
  <2>3. CASE Resume(r)
    BY <1>2, <2>1, <2>3, ResumeEffect
  <2>4. CASE CancelRun(r)
    BY <1>2, <2>1, <2>4, CancelEffect
  <2>5. CASE ExpireApproval(r)
    BY <1>2, <2>1, <2>5, ExpireEffect
  <2>6. CASE run' = run
    BY <1>3, <2>1, <2>6
  <2>7. QED
    BY <1>11, <2>2, <2>3, <2>4, <2>5, <2>6
       DEF Client, PostMessage, DecideApproval, SlackMessage
<1>12. ASSUME NEW w \in Worker,
              \/ SkipLeased(w) \/ LoadRun(w) \/ ReleaseRead(w) \/ LoseLease(w)
              \/ Restart(w) \/ Raise(w)
       PROVE  Held(v)'
  <2>1. Driving(v) /\ task' = task /\ run' = run /\ stalls = 0
    BY <1>0, <1>12 DEF SkipLeased, LoadRun, ReleaseRead, LoseLease, Restart, Raise, Fault,
                       Unwind, Driving, bounds
  <2>2. QED
    BY <1>3, <2>1
<1>13. ASSUME NEW w \in Worker, Settle(w) \/ Crash(w) PROVE Held(v)'
  <2>1. Driving(v) /\ task'[v] = task[v] /\ run' = run /\ stalls = 0
    BY <1>0, <1>13 DEF Settle, Crash, Fault, Forget, Driving, bounds
  <2>2. QED
    BY <1>1, <2>1 DEF Held
<1>14. CASE UNCHANGED <<run, workerVars, stalls>>
  BY <1>3, <1>14 DEF workerVars, Driving
<1>15. ASSUME NEW r \in Run, Reaper(r) \/ Publish(r) \/ PublishFails(r) PROVE Held(v)'
  BY <1>14, <1>15 DEF Reaper, ReapSelect, ReapHandoff, ReapLost, Publish, PublishFails,
                      Fault, workerVars, bounds
<1>16. CASE UNCHANGED vars
  BY <1>14, <1>16 DEF vars, workerVars
<1>17. QED
  BY <1>4, <1>5, <1>6, <1>7, <1>8, <1>9, <1>10, <1>11, <1>12, <1>13, <1>15, <1>16
     DEF Next, WorkerStep, Heartbeat

(* Lease exclusion (try_acquire_lease, heartbeat_lease, the handler's       *)
(* release): while no live owner is held up for a ttl, whoever drives a run *)
(* holds its lease, for any number of workers.                              *)
THEOREM LeaseExcludes == Spec => []OneDriver
<1>1. Init => LInv
  BY InitTInv
     DEF Init, LInv, FInv, CurrentVersionIsCurrentRow, HasRow, OwnLease, OneDriver, Driving
<1>2. LInv /\ [Next]_vars => LInv'
  BY NextTInv, NextFence, NextOwnLease, NextOneDriver DEF LInv, FInv
<1>3. LInv => OneDriver
  BY DEF LInv
<1>4. QED
  BY <1>1, <1>2, <1>3, PTL DEF Spec
-----------------------------------------------------------------------------
(* How one step may change the two columns RunLifecycle speaks of. *)
LifeRow(r) ==
  LET s == run[r].status
      c == run[r].cancel_requested
      t == run'[r].status
      d == run'[r].cancel_requested
  IN \/ s = NULL /\ t = "pending" /\ d = c
     \/ s \in RunStatus /\ ~c /\ t \in ALLOWED_TRANSITIONS[s] /\ d = c
     \/ /\ s \in RunStatus \ TERMINAL_RUN_STATUSES /\ d = TRUE
        /\ t = IF s \in WAITING_RUN_STATUSES THEN "cancelled" ELSE s
     \/ c /\ s = "pending" /\ t = "running" /\ d = c
     \/ c /\ s = "running" /\ t = "cancelled" /\ d = c

LEMMA ParkedMoves ==
  /\ \A s \in WAITING_RUN_STATUSES : s \in RunStatus /\ "running" \in ALLOWED_TRANSITIONS[s]
  /\ "waiting_approval" \in RunStatus
  /\ "timed_out" \in ALLOWED_TRANSITIONS["waiting_approval"]
BY DEF WAITING_RUN_STATUSES, RunStatus, ALLOWED_TRANSITIONS

(* Every step keeps the two columns of every row or takes one row along    *)
(* RunLifecycle.  A checkpoint was validated against the object in memory; *)
(* the fence makes that the row's own status.                              *)
LEMMA LifeStep ==
  ASSUME TInv, CurrentVersionIsCurrentRow, CancelIsNotOverrun, [Next]_vars
  PROVE  \/ \A q \in Run : SameStatus(run'[q], run[q])
         \/ \E r \in Run : Frame(r) /\ LifeRow(r)
<1> DEFINE Goal == \/ \A q \in Run : SameStatus(run'[q], run[q])
                   \/ \E r \in Run : Frame(r) /\ LifeRow(r)
<1>0. /\ run \in [Run -> Row]
      /\ \A r \in Run : run[r].cancel_requested \in BOOLEAN
  BY DEF TInv, TypeOK, Row
<1>1. ASSUME NEW r \in Run, Frame(r), SameStatus(run'[r], run[r]) PROVE Goal
  BY <1>1 DEF Frame, SameStatus
<1>2. ASSUME run' = run PROVE Goal
  BY <1>2 DEF SameStatus
<1>3. ASSUME NEW w \in Worker, AcquireLease(w) PROVE Goal
  BY <1>1, <1>3, AcquireEffect, TaskFacts DEF Busy
<1>4. ASSUME NEW w \in Worker, ReleaseLease(w) PROVE Goal
  BY <1>1, <1>2, <1>4, ReleaseEffect, TaskFacts DEF Busy
<1>5. ASSUME NEW w \in Worker, EngineStep(w) PROVE Goal
  <2>1. /\ pc[w] = "engine" /\ task[w] \in Run /\ run[task[w]].status \in RunStatus
        /\ EngineWrites(w) \/ EngineLeaves(w)
    BY <1>5, EngineEffect, TaskFacts
  <2>2. CASE EngineLeaves(w)
    BY <1>2, <2>2 DEF EngineLeaves
  <2>3. CASE EngineWrites(w)
    <3> DEFINE r == task[w]
    <3>1. view[w].version = run[r].version
      BY <2>3 DEF EngineWrites
    <3>2. /\ view[w].status = run[r].status
          /\ view[w].cancel_requested = run[r].cancel_requested
      BY <2>1, <3>1 DEF CurrentVersionIsCurrentRow, HasRow, Fenced
    <3>3. /\ Frame(r) /\ run'[r].cancel_requested = run[r].cancel_requested
          /\ Progress(w, run'[r])
      BY <2>3 DEF EngineWrites
    <3>4. CASE run'[r].status = run[r].status
      BY <1>1, <2>1, <3>3, <3>4 DEF SameStatus
    <3>5. CASE run'[r].status # run[r].status
      <4>1. run'[r].status \in ALLOWED_TRANSITIONS[run[r].status]
        BY <3>2, <3>3, <3>5 DEF Progress, ValidTransition
      <4>2. LifeRow(r)
        BY <1>0, <2>1, <3>2, <3>3, <4>1 DEF Progress, LifeRow
      <4>3. QED
        BY <2>1, <3>3, <4>2
    <3>6. QED
      BY <3>4, <3>5
  <2>4. QED
    BY <2>1, <2>2, <2>3
<1>6. ASSUME NEW r \in Run, NEW b \in BOOLEAN, run' = [run EXCEPT ![r].lease_live = b]
      PROVE  Goal
  BY <1>1, <1>6, ClockEffect
<1>7. ASSUME NEW w \in Worker, RenewLease(w) PROVE Goal
  BY <1>6, <1>7, TaskFacts DEF RenewLease, Driving, Busy
<1>8. ASSUME NEW r \in Run, ExpireLease(r) \/ StallLease(r) PROVE Goal
  BY <1>6, <1>8 DEF ExpireLease, StallLease
<1>9. ASSUME NEW r \in Run, run[r].status \in WAITING_RUN_STATUSES PROVE ~run[r].cancel_requested
  BY <1>9 DEF CancelIsNotOverrun, WAITING_RUN_STATUSES
<1>10. ASSUME NEW r \in Run, CreateRun(r) PROVE Goal
  <2>1. ~run[r].cancel_requested
    BY <1>10, DispatchAssumption DEF CancelIsNotOverrun, CreateRun, RunStatus
  <2>2. Frame(r) /\ LifeRow(r)
    BY <1>0, <1>10, <2>1, CreateEffect DEF LifeRow
  <2>3. QED
    BY <2>2
<1>11. ASSUME NEW r \in Run, Resume(r), run[r].status \in WAITING_RUN_STATUSES PROVE Goal
  <2>1. Frame(r) /\ LifeRow(r)
    BY <1>9, <1>11, ParkedMoves, ResumeEffect DEF LifeRow
  <2>2. QED
    BY <2>1
<1>12. ASSUME NEW r \in Run, CancelRun(r) PROVE Goal
  <2>1. Frame(r) /\ LifeRow(r)
    BY <1>12, CancelEffect DEF LifeRow
  <2>2. QED
    BY <2>1
<1>13. ASSUME NEW r \in Run, ExpireApproval(r) PROVE Goal
  <2>1. run[r].status \in WAITING_RUN_STATUSES
    BY <1>13 DEF ExpireApproval, WAITING_RUN_STATUSES
  <2>2. Frame(r) /\ LifeRow(r)
    BY <1>9, <1>13, <2>1, ParkedMoves, ExpireEffect DEF LifeRow
  <2>3. QED
    BY <2>2
<1>14. ASSUME NEW r \in Run, Client(r) PROVE Goal
  <2>1. "waiting_approval" \in WAITING_RUN_STATUSES
    BY DEF WAITING_RUN_STATUSES
  <2>2. QED
    BY <1>2, <1>10, <1>11, <1>12, <1>13, <1>14, <2>1
       DEF Client, PostMessage, DecideApproval, SlackMessage
<1>15. CASE UNCHANGED run
  BY <1>2, <1>15
<1>16. QED
  BY <1>3, <1>4, <1>5, <1>7, <1>8, <1>14, <1>15
     DEF Next, WorkerStep, Heartbeat, Reaper, Consume, SkipLeased, LoadRun, ReleaseRead,
         Settle, LoseLease, Crash, Restart, Raise, ReapSelect, ReapHandoff, ReapLost,
         Publish, PublishFails, vars

CInv == FInv /\ CancelIsNotOverrun

LEMMA NextCancel ==
  ASSUME TInv, CurrentVersionIsCurrentRow, CancelIsNotOverrun, [Next]_vars
  PROVE  CancelIsNotOverrun'
<1>1. CASE \A q \in Run : SameStatus(run'[q], run[q])
  BY <1>1 DEF CancelIsNotOverrun, SameStatus
<1>2. ASSUME NEW r \in Run, Frame(r), LifeRow(r) PROVE CancelIsNotOverrun'
  <2>1. run'[r].cancel_requested => run'[r].status \in {"pending", "running", "cancelled"}
    BY <1>2 DEF LifeRow, CancelIsNotOverrun, RunStatus, TERMINAL_RUN_STATUSES,
                WAITING_RUN_STATUSES
  <2>2. QED
    BY <1>2, <2>1 DEF Frame, CancelIsNotOverrun
<1>3. QED
  BY <1>1, <1>2, LifeStep

LEMMA CancelInvariant == Spec => []CInv
<1>1. Init => CInv
  BY InitTInv DEF Init, CInv, FInv, CurrentVersionIsCurrentRow, HasRow, CancelIsNotOverrun, NoRow
<1>2. CInv /\ [Next]_vars => CInv'
  BY NextTInv, NextFence, NextCancel DEF CInv, FInv
<1>3. QED
  BY <1>1, <1>2, PTL DEF Spec

(* cancel_run against the engine: a worker that loaded the run before the  *)
(* request never parks, completes, fails or times out the run after it.    *)
THEOREM CancelRespected == Spec => []CancelIsNotOverrun
<1>1. CInv => CancelIsNotOverrun
  BY DEF CInv
<1>2. QED
  BY <1>1, CancelInvariant, PTL

(* The instance reads the same tables. *)
LEMMA SameTables ==
  /\ Lifecycle!RunStatus = RunStatus
  /\ Lifecycle!TERMINAL_RUN_STATUSES = TERMINAL_RUN_STATUSES
  /\ Lifecycle!WAITING_RUN_STATUSES = WAITING_RUN_STATUSES
  /\ Lifecycle!ALLOWED_TRANSITIONS = ALLOWED_TRANSITIONS
<1>1. /\ Lifecycle!RunStatus = RunStatus
      /\ Lifecycle!TERMINAL_RUN_STATUSES = TERMINAL_RUN_STATUSES
      /\ Lifecycle!WAITING_RUN_STATUSES = WAITING_RUN_STATUSES
  BY DEF RunStatus, TERMINAL_RUN_STATUSES, WAITING_RUN_STATUSES, Lifecycle!RunStatus,
         Lifecycle!TERMINAL_RUN_STATUSES, Lifecycle!WAITING_RUN_STATUSES
<1>2. Lifecycle!ALLOWED_TRANSITIONS = ALLOWED_TRANSITIONS
  BY <1>1 DEF ALLOWED_TRANSITIONS, Lifecycle!ALLOWED_TRANSITIONS
<1>3. QED
  BY <1>1, <1>2

(* RunDispatch implements RunLifecycle: leases, versions, queues, crashes  *)
(* and requests never take a run off its state machine.                    *)
THEOREM LifecycleFollowed == Spec => FollowsLifecycle
<1>1. Init => Lifecycle!LifecycleInit
  BY DEF Init, NoRow, Lifecycle!LifecycleInit
<1>2. ASSUME CInv, [Next]_vars
      PROVE  [Lifecycle!LifecycleNext]_Lifecycle!lifecycleVars
  <2>1. TInv /\ CurrentVersionIsCurrentRow /\ CancelIsNotOverrun /\ TInv'
    BY <1>2, NextTInv DEF CInv, FInv
  <2>2. CASE \A q \in Run : SameStatus(run'[q], run[q])
    BY <2>2 DEF SameStatus, Lifecycle!lifecycleVars
  <2>3. ASSUME NEW r \in Run, Frame(r), LifeRow(r)
        PROVE  Lifecycle!LifecycleNext
    <3>1. \A q \in Run : q # r => run'[q] = run[q]
      BY <2>3 DEF Frame
    <3>2. /\ [q \in Run |-> run'[q].status]
               = [[q \in Run |-> run[q].status] EXCEPT ![r] = run'[r].status]
          /\ [q \in Run |-> run'[q].cancel_requested]
               = [[q \in Run |-> run[q].cancel_requested]
                    EXCEPT ![r] = run'[r].cancel_requested]
      BY <3>1
    <3> DEFINE status == [q \in Run |-> run[q].status]
               cancel == [q \in Run |-> run[q].cancel_requested]
    <3>3. status[r] = run[r].status /\ cancel[r] = run[r].cancel_requested
      OBVIOUS
    <3>4. run'[r].cancel_requested = run[r].cancel_requested
            => [cancel EXCEPT ![r] = run'[r].cancel_requested] = cancel
      OBVIOUS
    <3>5. run'[r].status = run[r].status
            => [status EXCEPT ![r] = run'[r].status] = status
      OBVIOUS
    <3>6. CASE /\ run[r].status = NULL /\ run'[r].status = "pending"
               /\ run'[r].cancel_requested = run[r].cancel_requested
      <4>1. Lifecycle!CreatePending(r)
        BY <3>2, <3>4, <3>6 DEF Lifecycle!CreatePending
      <4>2. QED
        BY <4>1 DEF Lifecycle!LifecycleNext
    <3>7. CASE /\ run[r].status \in RunStatus /\ ~run[r].cancel_requested
               /\ run'[r].status \in ALLOWED_TRANSITIONS[run[r].status]
               /\ run'[r].cancel_requested = run[r].cancel_requested
      <4>1. Lifecycle!Move(r)
        BY <3>2, <3>3, <3>4, <3>7, SameTables DEF Lifecycle!Move
      <4>2. QED
        BY <4>1 DEF Lifecycle!LifecycleNext
    <3>8. CASE /\ run[r].status \in RunStatus \ TERMINAL_RUN_STATUSES
               /\ run'[r].cancel_requested = TRUE
               /\ run'[r].status = IF run[r].status \in WAITING_RUN_STATUSES
                                   THEN "cancelled" ELSE run[r].status
      <4>1. Lifecycle!RequestCancel(r)
        BY <3>2, <3>3, <3>5, <3>8, SameTables DEF Lifecycle!RequestCancel
      <4>2. QED
        BY <4>1 DEF Lifecycle!LifecycleNext
    <3>9. CASE /\ run[r].cancel_requested
               /\ run'[r].cancel_requested = run[r].cancel_requested
               /\ \/ run[r].status = "pending" /\ run'[r].status = "running"
                  \/ run[r].status = "running" /\ run'[r].status = "cancelled"
      <4>1. Lifecycle!HonourCancel(r)
        BY <3>2, <3>4, <3>9 DEF Lifecycle!HonourCancel
      <4>2. QED
        BY <4>1 DEF Lifecycle!LifecycleNext
    <3>10. QED
      BY <2>3, <3>6, <3>7, <3>8, <3>9 DEF LifeRow
  <2>4. QED
    BY <1>2, <2>1, <2>2, <2>3, LifeStep
<1>3. QED
  BY <1>1, <1>2, CancelInvariant, PTL DEF Spec, FollowsLifecycle, Lifecycle!LifecycleSpec
-----------------------------------------------------------------------------
(* No run is past its step limit, and a row not yet inserted is at step 0. *)
StepBound == \A r \in Run : /\ run[r].current_step <= MaxSteps
                            /\ run[r].status = NULL => run[r].current_step = 0

NextSteps(r) == /\ run'[r].current_step - run[r].current_step \in {0, 1}
                /\ run'[r].current_step <= MaxSteps

LEMMA StepsStep ==
  ASSUME FInv, StepBound, [Next]_vars
  PROVE  (\A q \in Run : NextSteps(q)) /\ StepBound'
<1> DEFINE Goal == (\A q \in Run : NextSteps(q)) /\ StepBound'
<1>0. /\ TInv /\ CurrentVersionIsCurrentRow /\ run \in [Run -> Row]
      /\ \A r \in Run : run[r].current_step \in Nat
  BY DEF FInv, TInv, TypeOK, Row
<1>1. ASSUME NEW r \in Run, Frame(r), NextSteps(r), run'[r].status = NULL => run'[r].current_step = 0
      PROVE  Goal
  BY <1>0, <1>1, DispatchAssumption DEF Frame, NextSteps, StepBound
<1>2. ASSUME NEW r \in Run, Frame(r), run'[r].current_step = run[r].current_step,
             run'[r].status = NULL => run[r].status = NULL
      PROVE  Goal
  BY <1>0, <1>1, <1>2 DEF NextSteps, StepBound
<1>3. ASSUME run' = run PROVE Goal
  BY <1>0, <1>3 DEF NextSteps, StepBound
<1>4. ASSUME NEW w \in Worker, AcquireLease(w) PROVE Goal
  <2>1. task[w] \in Run
    BY <1>0, <1>4, AcquireEffect, TaskFacts DEF Busy
  <2>2. /\ Frame(task[w]) /\ run'[task[w]].status = run[task[w]].status
        /\ run'[task[w]].current_step = run[task[w]].current_step
    BY <1>0, <1>4, AcquireEffect DEF SameStatus, SameStep
  <2>3. QED
    BY <1>2, <2>1, <2>2
<1>5. ASSUME NEW w \in Worker, ReleaseLease(w) PROVE Goal
  <2>1. task[w] \in Run
    BY <1>0, <1>5, ReleaseEffect, TaskFacts DEF Busy
  <2>2. \/ run' = run
        \/ /\ Frame(task[w]) /\ run'[task[w]].status = run[task[w]].status
           /\ run'[task[w]].current_step = run[task[w]].current_step
    BY <1>0, <1>5, ReleaseEffect DEF SameStatus, SameStep
  <2>3. QED
    BY <1>2, <1>3, <2>1, <2>2
<1>6. ASSUME NEW w \in Worker, EngineStep(w) PROVE Goal
  <2>1. /\ pc[w] = "engine" /\ task[w] \in Run
        /\ EngineWrites(w) \/ EngineLeaves(w)
    BY <1>0, <1>6, EngineEffect, TaskFacts
  <2>2. CASE EngineLeaves(w)
    BY <1>3, <2>2 DEF EngineLeaves
  <2>3. CASE EngineWrites(w)
    <3> DEFINE r == task[w]
    <3>1. view[w].version = run[r].version /\ Frame(r) /\ run'[r].status \in RunStatus
      BY <2>3 DEF EngineWrites
    <3>2. view[w].current_step = run[r].current_step
      BY <1>0, <2>1, <3>1 DEF CurrentVersionIsCurrentRow, HasRow, Fenced
    <3>3. \/ run'[r].current_step = run[r].current_step
          \/ /\ run[r].current_step < MaxSteps
             /\ run'[r].current_step \in {run[r].current_step, run[r].current_step + 1}
      BY <2>3, <3>2 DEF EngineWrites, Progress
    <3>4. NextSteps(r)
      BY <1>0, <2>1, <3>3, DispatchAssumption DEF NextSteps, StepBound
    <3>5. QED
      BY <1>1, <2>1, <3>1, <3>4, DispatchAssumption
  <2>4. QED
    BY <2>1, <2>2, <2>3
<1>7. ASSUME NEW r \in Run, NEW b \in BOOLEAN, run' = [run EXCEPT ![r].lease_live = b]
      PROVE  Goal
  BY <1>0, <1>2, <1>7, ClockEffect DEF SameStatus, SameStep
<1>8. ASSUME NEW w \in Worker, RenewLease(w) PROVE Goal
  BY <1>0, <1>7, <1>8, TaskFacts DEF RenewLease, Driving, Busy
<1>9. ASSUME NEW r \in Run, ExpireLease(r) \/ StallLease(r) PROVE Goal
  BY <1>7, <1>9 DEF ExpireLease, StallLease
<1>10. ASSUME NEW r \in Run, Client(r) PROVE Goal
  <2>0. "running" # NULL /\ "timed_out" # NULL /\ "cancelled" # NULL /\ "pending" # NULL
    BY DispatchAssumption DEF RunStatus
  <2>1. CASE CreateRun(r)
    BY <1>0, <1>2, <2>0, <2>1, CreateEffect DEF StepBound
  <2>2. CASE Resume(r)
    BY <1>0, <1>2, <2>0, <2>2, ResumeEffect DEF SameStep
  <2>3. CASE CancelRun(r)
    BY <1>0, <1>2, <2>0, <2>3, CancelEffect DEF SameStep
  <2>4. CASE ExpireApproval(r)
    BY <1>0, <1>2, <2>0, <2>4, ExpireEffect DEF SameStep
  <2>5. QED
    BY <1>3, <1>10, <2>1, <2>2, <2>3, <2>4
       DEF Client, PostMessage, DecideApproval, SlackMessage
<1>11. CASE UNCHANGED run
  BY <1>3, <1>11
<1>12. QED
  BY <1>4, <1>5, <1>6, <1>8, <1>9, <1>10, <1>11
     DEF Next, WorkerStep, Heartbeat, Reaper, Consume, SkipLeased, LoadRun, ReleaseRead,
         Settle, LoseLease, Crash, Restart, Raise, ReapSelect, ReapHandoff, ReapLost,
         Publish, PublishFails, vars

(* _execute_step: current_step is kept or raised by one and never passes   *)
(* max_steps, although each write comes from a step number read earlier.   *)
THEOREM StepsOrdered == Spec => StepsAdvanceInOrder
<1>1. Init => StepBound
  BY DispatchAssumption DEF Init, StepBound, NoRow
<1>2. FInv /\ StepBound /\ [Next]_vars => StepBound'
  BY StepsStep
<1>3. FInv /\ StepBound /\ [Next]_vars
        => [\A r \in Run : /\ run'[r].current_step - run[r].current_step \in {0, 1}
                           /\ run'[r].current_step <= MaxSteps]_vars
  BY StepsStep DEF NextSteps
<1>4. QED
  BY <1>1, <1>2, <1>3, FenceInvariant, PTL DEF Spec, StepsAdvanceInOrder
=============================================================================
