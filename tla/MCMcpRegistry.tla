--------------------------- MODULE MCMcpRegistry ---------------------------
(* Instances of McpRegistry: two servers that report a tool of the same    *)
(* name, one of which may be called like a built-in tool.                  *)
EXTENDS McpRegistry, TLC

CONSTANTS s1, s2, a1, a2, search, fetch_url, c1, c2

MCCanonicalName == [p \in Pair |-> IF p[1] = s1 THEN c1 ELSE c2]
MCRequired      == {{search, fetch_url}}

Swap(x, y) == x :> y @@ y :> x

Symmetric == {p @@ q : p \in {Swap(a1, a2), a1 :> a1 @@ a2 :> a2},
                       q \in {Swap(s1, s2) @@ Swap(c1, c2),
                              s1 :> s1 @@ s2 :> s2 @@ c1 :> c1 @@ c2 :> c2}}
=============================================================================
