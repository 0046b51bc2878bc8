------------------------------ MODULE RunStates ------------------------------
(***************************************************************************)
(* The statuses of an agent run and the transitions the run state machine  *)
(* allows (harness/db/enums.py, harness/runtime/state_machine.py).         *)
(***************************************************************************)

RunStatus == {"pending", "running", "waiting_user_input", "waiting_approval",
              "completed", "failed", "cancelled", "timed_out"}

TERMINAL_RUN_STATUSES == {"completed", "failed", "cancelled", "timed_out"}

WAITING_RUN_STATUSES == {"waiting_user_input", "waiting_approval"}

ALLOWED_TRANSITIONS ==
  [s \in RunStatus |->
     CASE s = "pending"            -> {"running", "cancelled"}
       [] s = "running"            -> RunStatus \ {"pending"}
       [] s = "waiting_user_input" -> {"running", "cancelled", "timed_out"}
       [] s = "waiting_approval"   -> {"running", "cancelled", "timed_out", "failed"}
       [] OTHER                    -> {}]

(* assert_valid_transition: writing the status a run already has is allowed. *)
ValidTransition(current, target) ==
  target = current \/ target \in ALLOWED_TRANSITIONS[current]
=============================================================================
