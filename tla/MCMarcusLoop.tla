---------------------------- MODULE MCMarcusLoop ----------------------------
(* Model-checking instances of MarcusLoop: what the user types and what the *)
(* model answers.                                                           *)
EXTENDS MarcusLoop

C(tool, args) == [tool |-> tool, args |-> args]

ChangeTask == [Plain EXCEPT !.change = TRUE]
CheckTask  == [Plain EXCEPT !.verify = TRUE, !.process = TRUE]

Tasks == {ChangeTask, CheckTask}

(* run_tests checks, writes files the session is not told of, and may go on *)
(* running: it stands for the other commands and scripts as well.           *)
SessionAnswers ==
  {<<C("read", "a"), C("ghost", "a"), C("probe", "bad")>>,
   <<C("write", "a"), C("read", "a")>>, <<C("test", "a")>>,
   <<C("start", "danger")>>, <<C("stop", "a")>>}
=============================================================================
