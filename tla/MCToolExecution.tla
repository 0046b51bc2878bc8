--------------------------- MODULE MCToolExecution ---------------------------
(* Model-checking instances of ToolExecution: the answers of the model that *)
(* each question needs.                                                     *)
EXTENDS ToolExecution, TLC

EngineSymmetry == Permutations(Engine)

C(tool, args) == [tool |-> tool, args |-> args]

AllPlans == {<<C("read", "a")>>, <<C("post", "a")>>, <<C("post", "raw")>>, <<C("put", "bad")>>,
             <<C("ghost", "a")>>, <<C("locked", "a")>>, <<C("meta", "a")>>, <<C("ask", "a")>>, <<C("finish", "a")>>,
             <<C("finish", "b")>>, <<C("read", "a"), C("post", "b")>>,
             <<C("put", "a"), C("finish", "a")>>, <<C("finish", "a"), C("wipe", "a")>>}

OverlapPlans == {<<C("wipe", "a")>>, <<C("post", "a")>>, <<C("put", "bad"), C("wipe", "b")>>,
                 <<C("put", "raw"), C("post", "b")>>}
=============================================================================
