----------------------------- MODULE RunLifecycle -----------------------------
(***************************************************************************)
(* What the run store promises to everybody who looks at a run: a run is   *)
(* created pending, moves only along ALLOWED_TRANSITIONS, never leaves a   *)
(* terminal status, and once a cancellation is on record it moves only     *)
(* towards "cancelled".  Workers, leases, queues and versions do not       *)
(* appear: RunDispatch is shown to implement this specification.           *)
(***************************************************************************)
EXTENDS RunStates

CONSTANTS Run,     \* the ids of the runs
          NoRun    \* the status of a row that does not exist yet

VARIABLES status,            \* status[r]: agent_runs.status, NoRun before the insert
          cancel_requested   \* cancel_requested[r]: agent_runs.cancel_requested

lifecycleVars == <<status, cancel_requested>>

LifecycleInit == /\ status = [r \in Run |-> NoRun]
                 /\ cancel_requested = [r \in Run |-> FALSE]

CreatePending(r) == /\ status[r] = NoRun
                    /\ status' = [status EXCEPT ![r] = "pending"]
                    /\ UNCHANGED cancel_requested

(* A run without a cancellation on record follows the state machine. *)
Move(r) == /\ status[r] \in RunStatus
           /\ ~cancel_requested[r]
           /\ \E s \in ALLOWED_TRANSITIONS[status[r]] :
                status' = [status EXCEPT ![r] = s]
           /\ UNCHANGED cancel_requested

(* Cancelling a parked run ends it; otherwise the request is put on record. *)
RequestCancel(r) ==
  /\ status[r] \in RunStatus \ TERMINAL_RUN_STATUSES
  /\ cancel_requested' = [cancel_requested EXCEPT ![r] = TRUE]
  /\ status' = IF status[r] \in WAITING_RUN_STATUSES
               THEN [status EXCEPT ![r] = "cancelled"]
               ELSE status

(* With the request on record a worker may still start the run, and then *)
(* nothing but cancel it.                                                *)
HonourCancel(r) ==
  /\ cancel_requested[r]
  /\ \/ /\ status[r] = "pending"
        /\ status' = [status EXCEPT ![r] = "running"]
     \/ /\ status[r] = "running"
        /\ status' = [status EXCEPT ![r] = "cancelled"]
  /\ UNCHANGED cancel_requested

LifecycleNext == \E r \in Run :
                   CreatePending(r) \/ Move(r) \/ RequestCancel(r) \/ HonourCancel(r)

LifecycleSpec == LifecycleInit /\ [][LifecycleNext]_lifecycleVars
=============================================================================
