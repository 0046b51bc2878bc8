--------------------------- MODULE MessageHistory ---------------------------
(***************************************************************************)
(* The conversation that the terminal agent keeps and sends to the model:  *)
(* how marcus_code/runtime/token_utils.py drops messages and how           *)
(* MarcusLoop._trim_history and compact_history (runtime/agent.py) combine *)
(* dropping with a summary of the earlier turns.                           *)
(***************************************************************************)
EXTENDS Naturals, Sequences, FiniteSets, FiniteSetsExt, SequencesExt

CONSTANTS MaxMessages,   \* max_history_messages
          Threshold,     \* tokens: context_window * compact_threshold_percent
          Target         \* tokens: context_window * compact_target_percent

ASSUME HistoryAssumption == MaxMessages \in Nat /\ Threshold \in Nat /\ Target \in Nat

(* calls: how many tool calls an assistant message requests.  note: the     *)
(* message leaves a line in a summary (assistant text, a fact of a result). *)
Message == [role : {"system", "user", "assistant", "tool"}, calls : 0 .. 3, note : BOOLEAN]

Msg(role, calls, note) == [role |-> role, calls |-> calls, note |-> note]

(* estimate_message_tokens, in units of a short message: with long = 1 a     *)
(* tool result is twice as long, with long = 0 messages are counted.         *)
Size(h, S, long) == Cardinality(S) + long * Cardinality({i \in S : h[i].role = "tool"})
TokensOf(h) == Size(h, DOMAIN h, 1)

(* The elements of h at the indices in K, in their order *)
Rank(K, i)  == Cardinality({j \in K : j <= i})
Place(K, k) == CHOOSE i \in K : Rank(K, i) = k
Pick(h, K)  == [k \in 1 .. Cardinality(K) |-> h[Place(K, k)]]
-----------------------------------------------------------------------------
(* Mutant: every message is a group of its own. *)
Alone(h, i) == i

(* _atomic_message_groups: an assistant message that requests tools and the *)
(* results behind it are dropped together.  A group is named by the index   *)
(* of its first message.                                                    *)
GroupOf(h, i) ==
  Min({g \in 1 .. i :
         \/ g = i
         \/ /\ h[g].role = "assistant" /\ h[g].calls > 0
            /\ \A j \in g + 1 .. i : h[j].role = "tool"})

LatestUser(h) == Max({0} \cup {i \in DOMAIN h : h[i].role = "user"})

(* rank_message_importance of a group, that of its first message: the bonus *)
(* of a failed or verifying result leaves it below the request it answers.  *)
Score(m) == CASE m.role = "system"    -> 1000
              [] m.role = "user"      -> 500
              [] m.role = "assistant" -> 300
              [] OTHER                -> 100

LessImportant(h, f, g) ==
  Score(h[f]) < Score(h[g]) \/ (Score(h[f]) = Score(h[g]) /\ f < g)

(* trim_messages_to_count and trim_messages_to_budget: groups go in order   *)
(* of importance until the rest fits, so a group goes if what remains       *)
(* without the less important ones is still too much.  System messages and  *)
(* the latest user message stay.                                            *)
Trim(h, long, limit) ==
  LET group   == [i \in DOMAIN h |-> GroupOf(h, i)]
      spare   == {g \in Range(group) : h[g].role # "system" /\ g # LatestUser(h)}
      Rest(g) == {i \in DOMAIN h : group[i] \notin spare \/ ~LessImportant(h, group[i], g)}
      goes    == {g \in spare : Size(h, Rest(g), long) > limit}
  IN IF Size(h, DOMAIN h, long) <= limit THEN h
     ELSE Pick(h, {i \in DOMAIN h : group[i] \notin goes})

trim_messages_to_count(h)         == Trim(h, 0, MaxMessages)
trim_messages_to_budget(h, limit) == Trim(h, 1, limit)

(* _summarize_prior_turns: one system message stands for everything between *)
(* the system prompt and the latest user message, if it has anything to say.*)
Summarized(h) ==
  LET prompt == IF h[1].role = "system" THEN 1 ELSE 0
      user   == LatestUser(h)
      prior  == prompt + 1 .. user - 1
  IN IF user > prompt + 2 /\ \E i \in prior : h[i].note
     THEN SubSeq(h, 1, prompt) \o <<Msg("system", 0, FALSE)>> \o SubSeq(h, user, Len(h))
     ELSE h

TrimHistory(h) ==
  LET summed == IF Len(h) > MaxMessages THEN Summarized(h) ELSE h
  IN trim_messages_to_budget(trim_messages_to_count(summed), Threshold)

(* The second pass is a loop in the code; one round reaches its end.        *)
CompactHistory(h) ==
  LET summed == IF Len(h) > 4 THEN Summarized(h) ELSE h
  IN IF Len(summed) > 4 THEN trim_messages_to_budget(summed, Target) ELSE summed

(* Every request for tools is followed by exactly its results and no result *)
(* stands without its request, as the chat protocol demands.                *)
WellFormed(h) ==
  /\ h[1].role # "tool"
  /\ \A i \in DOMAIN h :
       /\ h[i].role = "tool" => h[i - 1].role \in {"assistant", "tool"}
       /\ h[i].role = "assistant" =>
            /\ i + h[i].calls <= Len(h)
            /\ \A j \in i + 1 .. i + h[i].calls : h[j].role = "tool"
            /\ i + h[i].calls < Len(h) => h[i + h[i].calls + 1].role # "tool"
=============================================================================
