--------------------------- MODULE MCRunDispatch ---------------------------
(* Instances of RunDispatch for TLC. *)
EXTENDS RunDispatch, TLC

WorkerSymmetry == Permutations(Worker)
=============================================================================
