---------------------------- MODULE MCRunContext ----------------------------
(* Instances of RunContext. *)
EXTENDS RunContext, TLC

CONSTANTS e1, e2

Symmetric == Permutations(Engine)
=============================================================================
