--------------------------- MODULE MCRunIngress ---------------------------
(* Instances of RunIngress: two mentions, a plain message and a bot message *)
(* of one Slack thread, which may be delivered again and again.             *)
EXTENDS RunIngress, TLC

CONSTANTS s1, s2, q1, q2, d1, d2, j1, t1

MCEvent    == {"mention1", "mention2", "reply", "bot"}
MCKindOf   == "mention1" :> "app_mention" @@ "mention2" :> "app_mention"
              @@ "reply" :> "message" @@ "bot" :> "skip"
MCThreadOf == [e \in MCEvent |-> t1]

Symmetric == Permutations(Request) \cup Permutations(Delivery)
=============================================================================
