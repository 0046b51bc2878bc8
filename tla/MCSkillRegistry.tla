-------------------------- MODULE MCSkillRegistry --------------------------
(* Instances of SkillRegistry: skills that share four and three words with *)
(* the goal of the runs.                                                   *)
EXTENDS SkillRegistry, TLC

CONSTANTS a1, a2, r1, r2

MCTerms == [s \in Skill |-> IF s = 1 THEN 4 ELSE 3]

Symmetric == Permutations(Admin) \cup Permutations(Run)
=============================================================================
