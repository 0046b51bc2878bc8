-------------------------- MODULE MarcusLoopProofs --------------------------
(***************************************************************************)
(* Proofs about MarcusLoop and the conversation of MessageHistory, for all *)
(* limits and thresholds, every set of user inputs, and every set of model *)
(* answers with at most three calls each.                                  *)
(*                                                                         *)
(*   TypeCorrect       TypeOK                                              *)
(*   RequestsAccepted  RequestsWellFormed                                  *)
(*   DeliveredBacked   DeliveredOnEvidence                                 *)
(*   DeliveredClean    DeliveredQuiet                                      *)
(*   CacheFresh        CacheIsFresh                                        *)
(*                                                                         *)
(* The first half is about sequences of messages: Chat(h) says that h is a *)
(* conversation the protocol accepts, and dropping whole groups, putting a *)
(* summary in the place of whole turns, and appending messages keep it so. *)
(* While tools run the conversation is Owing results, one fewer after each *)
(* observation.  The second half is the invariant IInv: what the session   *)
(* has Believed of the world and what it has Fresh in its cache.           *)
(***************************************************************************)
EXTENDS MarcusLoop, TLAPS, FiniteSetTheorems

-----------------------------------------------------------------------------
(* Sets of natural numbers and the elements of a sequence at some of its   *)
(* indices                                                                 *)
LEMMA Least ==
  ASSUME NEW S, S \subseteq Nat, S # {}
  PROVE  \E m \in S : \A n \in S : m <= n
<1>1. \E m \in S : \A n \in S : ~(<<n, m>> \in OpToRel(<, Nat))
  BY WFMin, NatLessThanWellFounded
<1>2. \A n, m \in Nat : n < m => <<n, m>> \in OpToRel(<, Nat)
  BY Zenon DEF OpToRel
<1>3. \E m \in S : \A n \in S : ~(n < m)
  BY <1>1, <1>2, Zenon
<1>4. QED
  BY <1>3

LEMMA Greatest ==
  ASSUME NEW S, S \subseteq Nat, S # {}, NEW b \in Nat, \A n \in S : n <= b
  PROVE  \E m \in S : \A n \in S : n <= m
<1> DEFINE T == {b - n : n \in S}
<1>1. T \subseteq Nat /\ T # {}
  <2>1. \A n \in S : b - n \in Nat
    OBVIOUS
  <2>2. QED
    BY <2>1
<1>2. PICK d \in T : \A e \in T : d <= e
  BY <1>1, Least
<1>3. PICK m \in S : d = b - m
  BY <1>2
<1>4. ASSUME NEW n \in S PROVE n <= m
  <2>1. b - n \in T
    OBVIOUS
  <2>2. b - m <= b - n
    BY <1>2, <1>3, <2>1
  <2>3. QED
    BY <2>2
<1>5. QED
  BY <1>3, <1>4

LEMMA RankType ==
  ASSUME NEW N \in Nat, NEW K \in SUBSET (1 .. N), NEW i \in Nat
  PROVE  /\ IsFiniteSet(K) /\ Cardinality(K) \in Nat /\ Cardinality(K) <= N
         /\ IsFiniteSet({j \in K : j <= i}) /\ Rank(K, i) \in Nat /\ Rank(K, i) <= Cardinality(K)
<1>1. IsFiniteSet(1 .. N) /\ Cardinality(1 .. N) = N
  BY FS_Interval
<1>2. IsFiniteSet(K) /\ Cardinality(K) \in Nat /\ Cardinality(K) <= N
  BY <1>1, FS_Subset, FS_CardinalityType
<1>3. {j \in K : j <= i} \in SUBSET K
  OBVIOUS
<1>4. IsFiniteSet({j \in K : j <= i}) /\ Cardinality({j \in K : j <= i}) <= Cardinality(K)
      /\ Cardinality({j \in K : j <= i}) \in Nat
  BY <1>2, <1>3, FS_Subset, FS_CardinalityType
<1>5. QED
  BY <1>2, <1>4 DEF Rank

LEMMA RankStep ==
  ASSUME NEW N \in Nat, NEW K \in SUBSET (1 .. N), NEW i \in Nat
  PROVE  /\ i + 1 \in K => Rank(K, i + 1) = Rank(K, i) + 1
         /\ i + 1 \notin K => Rank(K, i + 1) = Rank(K, i)
<1>1. IsFiniteSet({j \in K : j <= i})
  BY RankType
<1>2. ASSUME i + 1 \in K PROVE Rank(K, i + 1) = Rank(K, i) + 1
  <2>1. {j \in K : j <= i + 1} = {j \in K : j <= i} \cup {i + 1}
    <3>1. \A j \in K : j \in Nat /\ (j <= i + 1 <=> j <= i \/ j = i + 1)
      OBVIOUS
    <3>2. QED
      BY <1>2, <3>1
  <2>2. i + 1 \notin {j \in K : j <= i}
    OBVIOUS
  <2>3. QED
    BY <1>1, <2>1, <2>2, FS_AddElement DEF Rank
<1>3. ASSUME i + 1 \notin K PROVE Rank(K, i + 1) = Rank(K, i)
  <2>1. {j \in K : j <= i + 1} = {j \in K : j <= i}
    <3>1. \A j \in K : j \in Nat /\ (j <= i + 1 <=> j <= i \/ j = i + 1)
      OBVIOUS
    <3>2. QED
      BY <1>3, <3>1
  <2>2. QED
    BY <2>1 DEF Rank
<1>4. QED
  BY <1>2, <1>3

LEMMA RankLess ==
  ASSUME NEW N \in Nat, NEW K \in SUBSET (1 .. N), NEW i \in Nat, NEW j \in K, i < j
  PROVE  Rank(K, i) < Rank(K, j)
<1> DEFINE A == {m \in K : m <= i}  B == {m \in K : m <= j}
<1>0. j \in Nat /\ \A m \in K : m \in Nat /\ (m <= i => m <= j)
  OBVIOUS
<1>1. j \in Nat /\ A \in SUBSET B /\ j \in B /\ j \notin A
  <2>1. A \in SUBSET B
    BY <1>0
  <2>2. j \in B /\ j \notin A
    BY <1>0
  <2>3. QED
    BY <1>0, <2>1, <2>2
<1>2. IsFiniteSet(B) /\ Rank(K, i) \in Nat /\ Rank(K, j) \in Nat
  BY <1>1, RankType
<1>3. Cardinality(A) <= Cardinality(B) /\ (Cardinality(B) = Cardinality(A) => B = A)
  BY <1>1, <1>2, FS_Subset
<1>4. Cardinality(A) # Cardinality(B)
  BY <1>1, <1>3
<1>5. Rank(K, i) = Cardinality(A) /\ Rank(K, j) = Cardinality(B)
  BY DEF Rank
<1>6. QED
  BY <1>2, <1>3, <1>4, <1>5

LEMMA RankInside ==
  ASSUME NEW N \in Nat, NEW K \in SUBSET (1 .. N), NEW i \in K
  PROVE  i \in Nat /\ Rank(K, i) \in 1 .. Cardinality(K)
<1>1. i \in Nat /\ 0 < i
  OBVIOUS
<1>2. Rank(K, 0) < Rank(K, i)
  BY <1>1, RankLess
<1>3. Rank(K, i) \in Nat /\ Rank(K, i) <= Cardinality(K) /\ Cardinality(K) \in Nat
  BY <1>1, RankType
<1>4. Rank(K, 0) \in Nat
  BY RankType
<1>5. QED
  BY <1>1, <1>2, <1>3, <1>4

(* Ranks number the elements of K without a gap, so every position has its *)
(* place.                                                                  *)
LEMMA PlaceFacts ==
  ASSUME NEW N \in Nat, NEW K \in SUBSET (1 .. N), NEW k \in 1 .. Cardinality(K)
  PROVE  Place(K, k) \in K /\ Rank(K, Place(K, k)) = k
<1> DEFINE T == 1 .. Cardinality(K)
           f == [i \in K |-> Rank(K, i)]
<1>1. IsFiniteSet(K) /\ Cardinality(K) \in Nat
  BY RankType
<1>2. IsFiniteSet(T) /\ Cardinality(T) = Cardinality(K)
  BY <1>1, FS_Interval
<1>3. f \in [K -> T]
  BY RankInside
<1>4. ASSUME NEW i \in K, NEW j \in K, f[i] = f[j] PROVE i = j
  <2>1. i \in Nat /\ j \in Nat /\ Rank(K, i) = Rank(K, j)
    BY <1>4
  <2>2. Rank(K, i) \in Nat /\ Rank(K, j) \in Nat
    BY <2>1, RankType
  <2>3. i < j => Rank(K, i) < Rank(K, j)
    BY <2>1, RankLess
  <2>4. j < i => Rank(K, j) < Rank(K, i)
    BY <2>1, RankLess
  <2>5. QED
    BY <2>1, <2>2, <2>3, <2>4
<1>5. f \in Injection(K, T)
  BY <1>3, <1>4 DEF Injection, IsInjective
<1>6. f \in Surjection(K, T)
  BY <1>2, <1>5, FS_Injection
<1>7. \E i \in K : f[i] = k
  BY <1>6 DEF Surjection
<1>8. \E i \in K : Rank(K, i) = k
  BY <1>7
<1>9. QED
  BY <1>8 DEF Place

LEMMA PlaceOf ==
  ASSUME NEW N \in Nat, NEW K \in SUBSET (1 .. N), NEW i \in K
  PROVE  Place(K, Rank(K, i)) = i
<1>0. i \in Nat /\ Rank(K, i) \in 1 .. Cardinality(K)
  BY RankInside
<1>1. i \in Nat /\ Rank(K, i) \in 1 .. Cardinality(K) /\ Rank(K, i) \in Nat
  BY <1>0
<1> DEFINE j == Place(K, Rank(K, i))
<1>2. j \in K /\ Rank(K, j) = Rank(K, i)
  BY <1>1, PlaceFacts
<1> HIDE DEF j
<1>3. j \in Nat
  BY <1>2
<1>4. i < j => Rank(K, i) < Rank(K, j)
  BY <1>1, <1>2, RankLess
<1>5. j < i => Rank(K, j) < Rank(K, i)
  BY <1>2, <1>3, RankLess
<1>6. j = i
  BY <1>1, <1>2, <1>3, <1>4, <1>5
<1>7. QED
  BY <1>6 DEF j
-----------------------------------------------------------------------------
(* Conversations: the groups of a well-formed history, and what dropping    *)
(* groups leaves                                                            *)
Chat(h) == h \in Seq(Message) /\ h # <<>> /\ WellFormed(h) /\ h[1].role = "system"
HasUser(h) == \E i \in DOMAIN h : h[i].role = "user"

LEMMA MsgType ==
  ASSUME NEW h \in Seq(Message), NEW i \in DOMAIN h
  PROVE  /\ i \in 1 .. Len(h) /\ i \in Nat /\ h[i] \in Message
         /\ h[i].role \in {"system", "user", "assistant", "tool"} /\ h[i].calls \in 0 .. 3
<1>1. i \in 1 .. Len(h) /\ h[i] \in Message
  OBVIOUS
<1>2. QED
  BY <1>1 DEF Message

LEMMA MinIs ==
  ASSUME NEW S, NEW m \in S, S \subseteq Int, \A n \in S : m <= n
  PROVE  Min(S) = m
<1>1. \E x \in S : \A y \in S : x =< y
  OBVIOUS
<1>2. Min(S) \in S /\ \A y \in S : Min(S) =< y
  BY <1>1 DEF Min
<1>3. PICK k : k = Min(S)
  OBVIOUS
<1>4. k \in S /\ (\A y \in S : k =< y) /\ k \in Int /\ m \in Int
  BY <1>2, <1>3
<1>5. k = m
  BY <1>4
<1>6. QED
  BY <1>3, <1>5

LEMMA MaxIs ==
  ASSUME NEW S, NEW m \in S, S \subseteq Int, \A n \in S : n <= m
  PROVE  Max(S) = m
<1>1. \E x \in S : \A y \in S : x >= y
  OBVIOUS
<1>2. Max(S) \in S /\ \A y \in S : Max(S) >= y
  BY <1>1 DEF Max
<1>3. PICK k : k = Max(S)
  OBVIOUS
<1>4. k \in S /\ (\A y \in S : k >= y) /\ k \in Int /\ m \in Int
  BY <1>2, <1>3
<1>5. k = m
  BY <1>4
<1>6. QED
  BY <1>3, <1>5

LEMMA LatestUserIs ==
  ASSUME NEW h \in Seq(Message)
  PROVE  /\ HasUser(h) => /\ LatestUser(h) \in DOMAIN h /\ LatestUser(h) # 0
                          /\ h[LatestUser(h)].role = "user"
         /\ ~HasUser(h) => LatestUser(h) = 0
<1> DEFINE U == {i \in DOMAIN h : h[i].role = "user"}
<1>1. Len(h) \in Nat /\ U \subseteq Nat /\ \A i \in U : i <= Len(h) /\ 0 < i
  <2>1. Len(h) \in Nat /\ DOMAIN h = 1 .. Len(h)
    OBVIOUS
  <2>2. QED
    BY <2>1
<1>2. CASE U # {}
  <2>1. PICK m \in U : \A n \in U : n <= m
    BY <1>1, <1>2, Greatest
  <2>2. /\ m \in {0} \cup U /\ {0} \cup U \subseteq Int
        /\ \A n \in {0} \cup U : n <= m
    BY <1>1, <2>1
  <2>3. Max({0} \cup U) = m
    BY <2>2, MaxIs
  <2>4. LatestUser(h) = m
    BY <2>3 DEF LatestUser
  <2>5. QED
    BY <1>1, <1>2, <2>1, <2>4 DEF HasUser
<1>3. CASE U = {}
  <2>1. 0 \in {0} \cup U /\ {0} \cup U \subseteq Int /\ \A n \in {0} \cup U : n <= 0
    BY <1>3
  <2>2. Max({0} \cup U) = 0
    BY <2>1, MaxIs
  <2>3. QED
    BY <1>3, <2>2 DEF HasUser, LatestUser
<1>4. QED
  BY <1>2, <1>3

(* A result belongs to the request behind which only results stand.         *)
LEMMA Owner ==
  ASSUME NEW h, Chat(h), NEW m \in DOMAIN h, h[m].role = "tool"
  PROVE  \E a \in 1 .. m - 1 : /\ a \in DOMAIN h /\ h[a].role = "assistant" /\ h[a].calls > 0
                               /\ \A j \in a + 1 .. m : h[j].role = "tool"
<1>1. Len(h) \in Nat /\ DOMAIN h = 1 .. Len(h) /\ h \in Seq(Message) /\ m \in 1 .. Len(h)
  BY DEF Chat
<1> DEFINE S == {i \in 1 .. m : h[i].role # "tool"}
<1>2. 1 \in S /\ S \subseteq Nat /\ \A n \in S : n <= m
  BY <1>1 DEF Chat
<1>3. PICK a \in S : \A n \in S : n <= a
  <2>1. m \in Nat /\ S # {}
    BY <1>1, <1>2
  <2>2. QED
    BY <1>2, <2>1, Greatest
<1>4. a \in 1 .. m /\ h[a].role # "tool" /\ a # m /\ \A j \in a + 1 .. m : h[j].role = "tool"
  BY <1>1, <1>3
<1>5. a \in 1 .. m - 1 /\ a \in DOMAIN h /\ a + 1 \in DOMAIN h /\ h[a + 1].role = "tool"
  BY <1>1, <1>4
<1>6. h[a].role = "assistant"
  <2>1. h[(a + 1) - 1].role \in {"assistant", "tool"}
    BY <1>5 DEF Chat, WellFormed
  <2>2. (a + 1) - 1 = a
    BY <1>5
  <2>3. QED
    BY <1>4, <2>1, <2>2
<1>7. h[a].calls \in 0 .. 3
  BY <1>1, <1>5, MsgType
<1>8. h[a].calls # 0
  <2>1. ASSUME h[a].calls = 0 PROVE FALSE
    <3>1. a + h[a].calls = a /\ a < Len(h)
      BY <1>1, <1>5, <2>1
    <3>2. h[a + h[a].calls + 1].role # "tool"
      BY <1>5, <1>6, <3>1 DEF Chat, WellFormed
    <3>3. QED
      BY <1>5, <3>1, <3>2
  <2>2. QED
    BY <2>1
<1>9. QED
  BY <1>4, <1>5, <1>6, <1>7, <1>8

LEMMA GroupOfOther ==
  ASSUME NEW h, Chat(h), NEW i \in DOMAIN h, h[i].role # "tool"
  PROVE  GroupOf(h, i) = i
<1> DEFINE G == {g \in 1 .. i : g = i \/ (/\ h[g].role = "assistant" /\ h[g].calls > 0
                                          /\ \A j \in g + 1 .. i : h[j].role = "tool")}
<1>1. i \in Nat /\ 1 <= i
  BY DEF Chat
<1>2. \A g \in G : g = i
  BY <1>1
<1>3. i \in G /\ G \subseteq Int /\ \A g \in G : i <= g
  BY <1>1, <1>2
<1>4. Min(G) = i
  BY <1>3, MinIs
<1>5. QED
  BY <1>4 DEF GroupOf

LEMMA GroupOfResult ==
  ASSUME NEW h, Chat(h), NEW m \in DOMAIN h, NEW a \in 1 .. m - 1,
         h[a].role = "assistant", h[a].calls > 0, \A j \in a + 1 .. m : h[j].role = "tool"
  PROVE  GroupOf(h, m) = a
<1> DEFINE G == {g \in 1 .. m : g = m \/ (/\ h[g].role = "assistant" /\ h[g].calls > 0
                                          /\ \A j \in g + 1 .. m : h[j].role = "tool")}
<1>1. m \in Nat /\ a \in Nat /\ a < m
  BY DEF Chat
<1>2. ASSUME NEW g \in G PROVE a <= g
  <2>1. CASE g = m
    BY <1>1, <2>1
  <2>2. CASE g # m /\ g < a
    <3>1. a \in g + 1 .. m
      BY <1>1, <2>2
    <3>2. h[a].role = "tool"
      BY <2>2, <3>1
    <3>3. QED
      BY <3>2
  <2>3. QED
    BY <1>1, <2>1, <2>2
<1>3. a \in G /\ G \subseteq Int
  BY <1>1
<1>4. Min(G) = a
  BY <1>2, <1>3, MinIs
<1>5. QED
  BY <1>4 DEF GroupOf

(* A result is in the group of the message before it. *)
LEMMA SameGroup ==
  ASSUME NEW h, Chat(h), NEW m \in DOMAIN h, h[m].role = "tool"
  PROVE  m - 1 \in DOMAIN h /\ GroupOf(h, m - 1) = GroupOf(h, m)
<1>1. PICK a \in 1 .. m - 1 : /\ a \in DOMAIN h /\ h[a].role = "assistant" /\ h[a].calls > 0
                              /\ \A j \in a + 1 .. m : h[j].role = "tool"
  BY Owner
<1>2. m \in Nat /\ a \in Nat /\ m - 1 \in DOMAIN h /\ a <= m - 1
  BY <1>1 DEF Chat
<1>3. GroupOf(h, m) = a
  BY <1>1, GroupOfResult
<1>4. CASE a = m - 1
  <2>1. GroupOf(h, a) = a
    BY <1>1, GroupOfOther
  <2>2. QED
    BY <1>2, <1>3, <1>4, <2>1
<1>5. CASE a # m - 1
  <2>1. a \in 1 .. (m - 1) - 1 /\ \A j \in a + 1 .. m - 1 : h[j].role = "tool"
    BY <1>1, <1>2, <1>5
  <2>2. GroupOf(h, m - 1) = a
    BY <1>1, <1>2, <2>1, GroupOfResult
  <2>3. QED
    BY <1>2, <1>3, <2>2
<1>6. QED
  BY <1>4, <1>5

(* The neighbours of a place *)
LEMMA NextPlace ==
  ASSUME NEW N \in Nat, NEW K \in SUBSET (1 .. N), NEW k \in 1 .. Cardinality(K),
         Place(K, k) + 1 \in K
  PROVE  k + 1 \in 1 .. Cardinality(K) /\ Place(K, k + 1) = Place(K, k) + 1
<1>1. PICK i : i = Place(K, k)
  OBVIOUS
<1>2. i \in K /\ Rank(K, i) = k
  BY <1>1, PlaceFacts
<1>3. i \in Nat /\ i + 1 \in K
  BY <1>1, <1>2
<1>4. Rank(K, i + 1) = k + 1
  BY <1>2, <1>3, RankStep
<1>5. Rank(K, i + 1) \in 1 .. Cardinality(K)
  BY <1>3, RankInside
<1>6. Place(K, Rank(K, i + 1)) = i + 1
  BY <1>3, PlaceOf
<1>7. QED
  BY <1>1, <1>4, <1>5, <1>6

LEMMA PlaceBefore ==
  ASSUME NEW N \in Nat, NEW K \in SUBSET (1 .. N), NEW k \in 1 .. Cardinality(K),
         Place(K, k) - 1 \in K
  PROVE  k - 1 \in 1 .. Cardinality(K) /\ Place(K, k - 1) = Place(K, k) - 1
<1>1. PICK i : i = Place(K, k)
  OBVIOUS
<1>2. i \in K /\ Rank(K, i) = k
  BY <1>1, PlaceFacts
<1>3. PICK j : j = i - 1
  OBVIOUS
<1>4. j \in K /\ j \in Nat /\ j + 1 = i /\ j + 1 \in K
  BY <1>1, <1>2, <1>3
<1>5. Rank(K, j + 1) = Rank(K, j) + 1
  BY <1>4, RankStep
<1>6. Rank(K, j) \in 1 .. Cardinality(K)
  BY <1>4, RankInside
<1>7. Cardinality(K) \in Nat
  BY <1>4, RankType
<1>8. Rank(K, j) = k - 1
  BY <1>2, <1>4, <1>5, <1>6, <1>7
<1>9. Place(K, Rank(K, j)) = j
  BY <1>4, PlaceOf
<1>10. QED
  BY <1>1, <1>3, <1>6, <1>8, <1>9

LEMMA FirstPlace ==
  ASSUME NEW N \in Nat, NEW K \in SUBSET (1 .. N), 1 \in K
  PROVE  1 \in 1 .. Cardinality(K) /\ Place(K, 1) = 1
<1>1. Rank(K, 0 + 1) = Rank(K, 0) + 1
  BY RankStep
<1>2. Rank(K, 0) = 0
  <2>1. {j \in K : j <= 0} = {}
    <3>1. \A j \in K : ~(j <= 0)
      OBVIOUS
    <3>2. QED
      BY <3>1
  <2>2. QED
    BY <2>1, FS_EmptySet DEF Rank
<1>3. Rank(K, 1) = 1
  BY <1>1, <1>2
<1>4. Rank(K, 1) \in 1 .. Cardinality(K)
  BY RankInside
<1>5. Place(K, Rank(K, 1)) = 1
  BY PlaceOf
<1>6. QED
  BY <1>3, <1>4, <1>5

LEMMA PickType ==
  ASSUME NEW S, NEW h \in Seq(S), NEW K \in SUBSET (DOMAIN h)
  PROVE  /\ Pick(h, K) \in Seq(S) /\ Len(Pick(h, K)) = Cardinality(K)
         /\ Cardinality(K) \in Nat /\ Cardinality(K) <= Len(h)
         /\ DOMAIN Pick(h, K) = 1 .. Cardinality(K)
         /\ \A k \in 1 .. Cardinality(K) : Place(K, k) \in K /\ Pick(h, K)[k] = h[Place(K, k)]
<1>1. Len(h) \in Nat /\ K \in SUBSET (1 .. Len(h))
  OBVIOUS
<1>2. Cardinality(K) \in Nat /\ Cardinality(K) <= Len(h)
  BY <1>1, RankType
<1>3. \A k \in 1 .. Cardinality(K) : Place(K, k) \in K
  BY <1>1, PlaceFacts
<1>4. \A k \in 1 .. Cardinality(K) : h[Place(K, k)] \in S
  BY <1>3
<1>5. Pick(h, K) \in [1 .. Cardinality(K) -> S]
  BY <1>4 DEF Pick
<1>6. Pick(h, K) \in Seq(S) /\ Len(Pick(h, K)) = Cardinality(K)
  BY <1>2, <1>5
<1>7. QED
  BY <1>2, <1>3, <1>5, <1>6 DEF Pick

(* A kept request brings its results along: from its place on, the places   *)
(* are consecutive.                                                         *)
LEMMA RunOfResults ==
  ASSUME NEW h, Chat(h), NEW K \in SUBSET (DOMAIN h),
         \A m \in DOMAIN h : h[m].role = "tool" => (m \in K <=> m - 1 \in K),
         NEW k \in 1 .. Cardinality(K), h[Place(K, k)].role = "assistant",
         NEW d \in 0 .. h[Place(K, k)].calls
  PROVE  k + d \in 1 .. Cardinality(K) /\ Place(K, k + d) = Place(K, k) + d
<1>1. h \in Seq(Message) /\ Len(h) \in Nat /\ DOMAIN h = 1 .. Len(h)
  BY DEF Chat
<1>2. PICK i : i = Place(K, k)
  OBVIOUS
<1>3. i \in K /\ i \in Nat /\ i \in DOMAIN h /\ Cardinality(K) \in Nat /\ k \in Nat
  BY <1>1, <1>2, PickType
<1>4. h[i].calls \in 0 .. 3 /\ d \in Nat
  BY <1>1, <1>2, <1>3, MsgType
<1>5. ASSUME NEW e \in Nat, e < h[i].calls, k + e \in 1 .. Cardinality(K), Place(K, k + e) = i + e
      PROVE  k + (e + 1) \in 1 .. Cardinality(K) /\ Place(K, k + (e + 1)) = i + (e + 1)
  <2>1. i + h[i].calls <= Len(h) /\ \A j \in i + 1 .. i + h[i].calls : h[j].role = "tool"
    BY <1>2, <1>3 DEF Chat, WellFormed
  <2>2. i + e + 1 \in DOMAIN h /\ h[i + e + 1].role = "tool" /\ (i + e + 1) - 1 = i + e
    BY <1>1, <1>3, <1>4, <1>5, <2>1, SMTT(30)
  <2>3. i + e \in K
    BY <1>1, <1>5, PickType
  <2>4. i + e + 1 \in K
    BY <2>2, <2>3
  <2>5. (k + e) + 1 \in 1 .. Cardinality(K) /\ Place(K, (k + e) + 1) = Place(K, k + e) + 1
    BY <1>1, <1>5, <2>4, NextPlace
  <2>6. QED
    BY <1>3, <1>5, <2>5
<1>6. k + 0 \in 1 .. Cardinality(K) /\ Place(K, k + 0) = i + 0
  BY <1>2, <1>3
<1>7. 0 < h[i].calls => k + 1 \in 1 .. Cardinality(K) /\ Place(K, k + 1) = i + 1
  BY <1>5, <1>6
<1>8. 1 < h[i].calls => k + 2 \in 1 .. Cardinality(K) /\ Place(K, k + 2) = i + 2
  BY <1>4, <1>5, <1>7
<1>9. 2 < h[i].calls => k + 3 \in 1 .. Cardinality(K) /\ Place(K, k + 3) = i + 3
  BY <1>4, <1>5, <1>8
<1>10. d \in 0 .. h[i].calls /\ d \in {0, 1, 2, 3}
  BY <1>2, <1>4
<1>11. CASE d = 0
  BY <1>2, <1>6, <1>11
<1>12. CASE d = 1
  BY <1>2, <1>4, <1>7, <1>10, <1>12
<1>13. CASE d = 2
  BY <1>2, <1>4, <1>8, <1>10, <1>13
<1>14. CASE d = 3
  BY <1>2, <1>4, <1>9, <1>10, <1>14
<1>15. QED
  BY <1>10, <1>11, <1>12, <1>13, <1>14

(* What is left is a conversation if results stay and go with the message   *)
(* before them.                                                             *)
LEMMA PickChat ==
  ASSUME NEW h, Chat(h), NEW K \in SUBSET (DOMAIN h), 1 \in K,
         \A m \in DOMAIN h : h[m].role = "tool" => (m \in K <=> m - 1 \in K)
  PROVE  Chat(Pick(h, K))
<1>1. h \in Seq(Message) /\ Len(h) \in Nat /\ DOMAIN h = 1 .. Len(h) /\ h[1].role = "system"
  BY DEF Chat
<1> DEFINE n == Cardinality(K)
<1>2. PICK g : g = Pick(h, K)
  OBVIOUS
<1>3. /\ g \in Seq(Message) /\ Len(g) = n /\ n \in Nat /\ DOMAIN g = 1 .. n
      /\ \A k \in 1 .. n : Place(K, k) \in K /\ g[k] = h[Place(K, k)]
  BY <1>1, <1>2, PickType
<1>4. 1 \in 1 .. n /\ g[1] = h[1]
  BY <1>1, <1>3, FirstPlace
<1>5. ASSUME NEW k \in 1 .. n, g[k].role = "tool"
      PROVE  /\ k - 1 \in 1 .. n /\ Place(K, k - 1) = Place(K, k) - 1
             /\ g[k - 1].role \in {"assistant", "tool"}
  <2>1. PICK m : m = Place(K, k)
    OBVIOUS
  <2>2. m \in K /\ m \in DOMAIN h /\ h[m].role = "tool"
    BY <1>3, <1>5, <2>1
  <2>3. m - 1 \in K /\ h[m - 1].role \in {"assistant", "tool"}
    BY <2>2 DEF Chat, WellFormed
  <2>4. k - 1 \in 1 .. n /\ Place(K, k - 1) = m - 1
    BY <1>1, <2>1, <2>3, PlaceBefore
  <2>5. g[k - 1] = h[m - 1]
    BY <1>3, <2>4
  <2>6. QED
    BY <2>1, <2>3, <2>4, <2>5
<1>6. ASSUME NEW k \in 1 .. n, g[k].role = "assistant"
      PROVE  /\ k + g[k].calls <= n
             /\ \A j \in k + 1 .. k + g[k].calls : g[j].role = "tool"
             /\ k + g[k].calls < n => g[k + g[k].calls + 1].role # "tool"
  <2>1. PICK i, c : i = Place(K, k) /\ c = h[i].calls
    OBVIOUS
  <2>2. i \in K /\ i \in DOMAIN h /\ i \in Nat /\ g[k] = h[i] /\ h[i].role = "assistant"
    BY <1>1, <1>3, <1>6, <2>1
  <2>3. c \in 0 .. 3 /\ g[k].calls = c
    BY <1>1, <2>1, <2>2, MsgType
  <2>4. /\ i + c <= Len(h) /\ (\A j \in i + 1 .. i + c : h[j].role = "tool")
        /\ i + c < Len(h) => h[i + c + 1].role # "tool"
    BY <2>1, <2>2 DEF Chat, WellFormed
  <2>5. \A d \in 0 .. c : k + d \in 1 .. n /\ Place(K, k + d) = i + d
    BY <2>1, <2>2, RunOfResults
  <2>6. k + c <= n /\ k + c \in 1 .. n /\ Place(K, k + c) = i + c
    BY <1>3, <2>3, <2>5
  <2>7. ASSUME NEW j \in k + 1 .. k + c PROVE g[j].role = "tool"
    <3>1. j - k \in 0 .. c /\ k + (j - k) = j /\ i + (j - k) \in i + 1 .. i + c
      BY <2>2, <2>3
    <3>2. j \in 1 .. n /\ Place(K, j) = i + (j - k)
      BY <2>5, <3>1
    <3>3. QED
      BY <1>3, <2>4, <3>1, <3>2
  <2>8. ASSUME k + c < n, g[k + c + 1].role = "tool" PROVE FALSE
    <3>1. k + c + 1 \in 1 .. n /\ (k + c + 1) - 1 = k + c
      BY <1>3, <2>3, <2>8
    <3>2. Place(K, k + c) = Place(K, k + c + 1) - 1
      BY <1>5, <2>8, <3>1
    <3>3. PICK q : q = Place(K, k + c + 1)
      OBVIOUS
    <3>4. q \in K /\ q \in DOMAIN h /\ h[q].role = "tool"
      BY <1>3, <2>8, <3>1, <3>3
    <3>5. q = i + c + 1
      BY <1>1, <2>2, <2>3, <2>6, <3>2, <3>3, <3>4
    <3>6. i + c < Len(h)
      BY <1>1, <2>2, <2>3, <3>4, <3>5
    <3>7. QED
      BY <2>4, <3>4, <3>5, <3>6
  <2>9. QED
    BY <2>3, <2>6, <2>7, <2>8
<1>7. WellFormed(g)
  BY <1>1, <1>3, <1>4, <1>5, <1>6 DEF WellFormed
<1>8. g # <<>>
  BY <1>3, <1>4
<1>9. QED
  BY <1>1, <1>2, <1>3, <1>4, <1>7, <1>8 DEF Chat

(* Trimming and summarizing leave a conversation a conversation, and keep  *)
(* the user's latest message in it.                                        *)
LEMMA TrimChat ==
  ASSUME NEW h, Chat(h), NEW long, NEW limit
  PROVE  Chat(Trim(h, long, limit)) /\ (HasUser(h) => HasUser(Trim(h, long, limit)))
<1>1. h \in Seq(Message) /\ Len(h) \in Nat /\ DOMAIN h = 1 .. Len(h) /\ h[1].role = "system"
      /\ 1 \in DOMAIN h
  BY DEF Chat
<1> DEFINE group   == [i \in DOMAIN h |-> GroupOf(h, i)]
           spare   == {g \in Range(group) : h[g].role # "system" /\ g # LatestUser(h)}
           Rest(g) == {i \in DOMAIN h : group[i] \notin spare \/ ~LessImportant(h, group[i], g)}
           goes    == {g \in spare : Size(h, Rest(g), long) > limit}
           K       == {i \in DOMAIN h : group[i] \notin goes}
<1>2. \A g \in goes : h[g].role # "system" /\ g # LatestUser(h)
  OBVIOUS
<1>3. \A i \in DOMAIN h : i \in K <=> GroupOf(h, i) \notin goes
  OBVIOUS
<1>4. Trim(h, long, limit) = h \/ Trim(h, long, limit) = Pick(h, K)
  BY DEF Trim
<1>5. K \in SUBSET (DOMAIN h)
  OBVIOUS
<1> HIDE DEF goes, K
<1>6. GroupOf(h, 1) = 1 /\ 1 \in K
  BY <1>1, <1>2, <1>3, GroupOfOther
<1>7. ASSUME NEW m \in DOMAIN h, h[m].role = "tool" PROVE m \in K <=> m - 1 \in K
  BY <1>3, <1>7, SameGroup
<1>8. Chat(Pick(h, K))
  BY <1>5, <1>6, <1>7, PickChat
<1>9. ASSUME HasUser(h) PROVE HasUser(Pick(h, K))
  <2>1. PICK u : u = LatestUser(h)
    OBVIOUS
  <2>2. u \in DOMAIN h /\ h[u].role = "user"
    BY <1>1, <1>9, <2>1, LatestUserIs
  <2>3. u \in K
    BY <1>2, <1>3, <2>1, <2>2, GroupOfOther
  <2>4. Rank(K, u) \in 1 .. Cardinality(K) /\ Place(K, Rank(K, u)) = u
    BY <1>1, <1>5, <2>3, RankInside, PlaceOf
  <2>5. /\ DOMAIN Pick(h, K) = 1 .. Cardinality(K)
        /\ \A k \in 1 .. Cardinality(K) : Pick(h, K)[k] = h[Place(K, k)]
    BY <1>1, <1>5, PickType
  <2>6. QED
    BY <2>2, <2>4, <2>5 DEF HasUser
<1>10. QED
  BY <1>4, <1>8, <1>9

LEMMA Joined ==
  ASSUME NEW S, NEW a \in Seq(S), NEW b \in Seq(S)
  PROVE  /\ a \o b \in Seq(S) /\ Len(a \o b) = Len(a) + Len(b)
         /\ Len(a) \in Nat /\ Len(b) \in Nat
         /\ \A i \in 1 .. Len(a) : (a \o b)[i] = a[i]
         /\ \A i \in Len(a) + 1 .. Len(a) + Len(b) : (a \o b)[i] = b[i - Len(a)]
OBVIOUS

LEMMA SummarizedChat ==
  ASSUME NEW h, Chat(h)
  PROVE  Chat(Summarized(h)) /\ (HasUser(h) => HasUser(Summarized(h)))
<1>1. h \in Seq(Message) /\ Len(h) \in Nat /\ DOMAIN h = 1 .. Len(h) /\ h[1].role = "system"
      /\ 1 \in DOMAIN h
  BY DEF Chat
<1>2. PICK u : u = LatestUser(h)
  OBVIOUS
<1>3. CASE Summarized(h) = h
  BY <1>3
<1>4. CASE Summarized(h) # h
  <2>1. PICK m : m = Msg("system", 0, FALSE)
    OBVIOUS
  <2>2. m \in Message /\ m.role = "system"
    BY <2>1 DEF Msg, Message
  <2>3. PICK g : g = SubSeq(h, 1, 1) \o <<m>> \o SubSeq(h, u, Len(h))
    OBVIOUS
  <2>4. u > 3 /\ Summarized(h) = g
    <3>1. u \in Nat
      BY <1>1, <1>2, LatestUserIs
    <3>2. \/ Summarized(h) = h
          \/ /\ u > 1 + 2
             /\ Summarized(h) = SubSeq(h, 1, 1) \o <<m>> \o SubSeq(h, u, Len(h))
      BY <1>1, <1>2, <2>1, Zenon DEF Summarized
    <3>3. QED
      BY <1>4, <2>3, <3>1, <3>2
  <2>5. u \in DOMAIN h /\ u \in Nat /\ h[u].role = "user" /\ u <= Len(h)
    <3>1. u # 0
      BY <2>4
    <3>2. QED
      BY <1>1, <1>2, <3>1, LatestUserIs
  <2>6. PICK d : d = u - 3
    OBVIOUS
  <2>7. d \in Nat /\ d > 0 /\ u = d + 3
    BY <2>4, <2>5, <2>6
  <2>8. /\ g \in Seq(Message) /\ Len(g) = Len(h) - d /\ DOMAIN g = 1 .. Len(g) /\ Len(g) \in Nat
        /\ g[1] = h[1] /\ g[2] = m /\ \A i \in 3 .. Len(g) : g[i] = h[i + d]
    <3>1. /\ SubSeq(h, 1, 1) \in Seq(Message) /\ Len(SubSeq(h, 1, 1)) = 1
          /\ SubSeq(h, 1, 1)[1] = h[1]
      BY <1>1
    <3>2. /\ SubSeq(h, u, Len(h)) \in Seq(Message) /\ Len(SubSeq(h, u, Len(h))) = Len(h) - u + 1
          /\ \A i \in 1 .. Len(h) - u + 1 : SubSeq(h, u, Len(h))[i] = h[u + i - 1]
      BY <1>1, <2>5
    <3>3. PICK a, b : a = SubSeq(h, 1, 1) /\ b = SubSeq(h, u, Len(h))
      OBVIOUS
    <3>4. /\ a \o <<m>> \in Seq(Message) /\ Len(a \o <<m>>) = 2
          /\ (a \o <<m>>)[1] = h[1] /\ (a \o <<m>>)[2] = m
      BY <2>2, <3>1, <3>3
    <3>5. PICK c : c = a \o <<m>>
      OBVIOUS
    <3>6. g = c \o b /\ c \in Seq(Message) /\ b \in Seq(Message) /\ Len(c) = 2
          /\ Len(b) = Len(h) - u + 1
      BY <2>3, <3>2, <3>3, <3>4, <3>5
    <3>7. /\ g \in Seq(Message) /\ Len(g) = 2 + (Len(h) - u + 1)
          /\ g[1] = c[1] /\ g[2] = c[2] /\ \A i \in 3 .. Len(g) : g[i] = b[i - 2]
      <4>1. Len(b) \in Nat /\ 2 + Len(b) = 2 + (Len(h) - u + 1)
        BY <2>5, <3>6
      <4>2. /\ g \in Seq(Message) /\ Len(g) = 2 + Len(b)
            /\ \A i \in 1 .. 2 : g[i] = c[i]
            /\ \A i \in 2 + 1 .. 2 + Len(b) : g[i] = b[i - 2]
        <5>1. /\ c \o b \in Seq(Message) /\ Len(c \o b) = Len(c) + Len(b)
              /\ (\A i \in 1 .. Len(c) : (c \o b)[i] = c[i])
              /\ \A i \in Len(c) + 1 .. Len(c) + Len(b) : (c \o b)[i] = b[i - Len(c)]
          BY <3>6, Joined, Zenon
        <5>2. c \o b = g /\ Len(c) = 2
          BY <3>6
        <5>3. QED
          BY <5>1, <5>2, Zenon
      <4>3. \A i \in 3 .. Len(g) : g[i] = b[i - 2]
        BY <4>2
      <4>4. QED
        BY <4>1, <4>2, <4>3
    <3>8. Len(g) = Len(h) - d /\ Len(g) \in Nat
      BY <2>5, <2>7, <3>7
    <3>9. ASSUME NEW i \in 3 .. Len(g) PROVE g[i] = h[i + d]
      <4>1. i - 2 \in 1 .. Len(h) - u + 1 /\ u + (i - 2) - 1 = i + d
        BY <1>1, <2>5, <2>7, <3>7
      <4>2. QED
        BY <3>2, <3>3, <3>7, <4>1
    <3>10. QED
      BY <3>4, <3>5, <3>7, <3>8, <3>9
  <2>9. Len(g) >= 3 /\ g[3].role = "user" /\ \A i \in 3 .. Len(g) : i + d \in DOMAIN h
    BY <1>1, <2>5, <2>7, <2>8
  <2>10. ASSUME NEW i \in DOMAIN g, g[i].role = "tool"
         PROVE  g[i - 1].role \in {"assistant", "tool"}
    <3>1. i \in 4 .. Len(g)
      BY <1>1, <2>2, <2>8, <2>9, <2>10
    <3>2. i - 1 \in 3 .. Len(g) /\ (i - 1) + d = (i + d) - 1 /\ i \in 3 .. Len(g)
      <4>1. Len(g) \in Nat /\ d \in Nat /\ i \in Nat
        BY <2>7, <2>8, <3>1
      <4>2. QED
        BY <3>1, <4>1
    <3>3. g[i] = h[i + d] /\ g[i - 1] = h[(i + d) - 1] /\ i + d \in DOMAIN h
      BY <2>8, <2>9, <3>2
    <3>4. QED
      BY <2>10, <3>3 DEF Chat, WellFormed
  <2>11. ASSUME NEW i \in DOMAIN g, g[i].role = "assistant"
         PROVE  /\ i + g[i].calls <= Len(g)
                /\ \A j \in i + 1 .. i + g[i].calls : g[j].role = "tool"
                /\ i + g[i].calls < Len(g) => g[i + g[i].calls + 1].role # "tool"
    <3>1. i \in 3 .. Len(g)
      BY <1>1, <2>2, <2>8, <2>9, <2>11
    <3>2. PICK e, c : e = i + d /\ c = h[e].calls
      OBVIOUS
    <3>3. g[i] = h[e] /\ e \in DOMAIN h /\ e \in Nat /\ c \in 0 .. 3 /\ g[i].calls = c
      BY <1>1, <2>8, <2>9, <3>1, <3>2, MsgType
    <3>4. /\ e + c <= Len(h) /\ (\A j \in e + 1 .. e + c : h[j].role = "tool")
          /\ e + c < Len(h) => h[e + c + 1].role # "tool"
      BY <2>11, <3>2, <3>3 DEF Chat, WellFormed
    <3>5. i + c <= Len(g) /\ i \in Nat
      BY <2>7, <2>8, <3>1, <3>2, <3>3, <3>4, SMTT(30)
    <3>6. ASSUME NEW j \in i + 1 .. i + c PROVE g[j].role = "tool"
      <4>1. j \in 3 .. Len(g) /\ j + d \in e + 1 .. e + c
        <5>1. d \in Nat /\ Len(g) \in Nat
          BY <2>7, <2>8
        <5>2. i \in Nat /\ i >= 3 /\ c \in Nat /\ e = i + d /\ i + c <= Len(g)
          BY <3>1, <3>2, <3>3, <3>5
        <5>3. j \in Nat /\ i + 1 <= j /\ j <= i + c
          BY <5>2
        <5>4. j \in 3 .. Len(g)
          BY <5>1, <5>2, <5>3, SMTT(30)
        <5>5. j + d \in e + 1 .. e + c
          BY <5>1, <5>2, <5>3, SMTT(30)
        <5>6. QED
          BY <5>4, <5>5
      <4>2. QED
        BY <2>8, <3>4, <4>1
    <3>7. ASSUME i + c < Len(g) PROVE g[i + c + 1].role # "tool"
      <4>1. i + c + 1 \in 3 .. Len(g) /\ (i + c + 1) + d = e + c + 1 /\ e + c < Len(h)
        <5>1. Len(g) \in Nat /\ Len(h) \in Nat /\ Len(g) = Len(h) - d /\ d \in Nat /\ c \in Nat
              /\ i \in Nat /\ 3 <= i /\ e = i + d
          BY <1>1, <2>7, <2>8, <3>1, <3>2, <3>3
        <5>2. i + c + 1 \in 3 .. Len(g)
          BY <3>7, <5>1, SMTT(30)
        <5>3. (i + c + 1) + d = e + c + 1
          BY <5>1, SMTT(30)
        <5>4. e + c < Len(h)
          BY <3>7, <5>1, SMTT(30)
        <5>5. QED
          BY <5>2, <5>3, <5>4
      <4>2. QED
        BY <2>8, <3>4, <4>1
    <3>8. QED
      BY <3>3, <3>5, <3>6, <3>7
  <2>12. WellFormed(g)
    BY <1>1, <2>8, <2>10, <2>11 DEF WellFormed
  <2>13. g # <<>> /\ HasUser(g)
    BY <2>8, <2>9 DEF HasUser
  <2>14. QED
    BY <1>1, <2>4, <2>8, <2>12, <2>13 DEF Chat
<1>5. QED
  BY <1>3, <1>4

LEMMA TrimHistoryChat ==
  ASSUME NEW h, Chat(h)
  PROVE  Chat(TrimHistory(h)) /\ (HasUser(h) => HasUser(TrimHistory(h)))
<1> DEFINE s == IF Len(h) > MaxMessages THEN Summarized(h) ELSE h
           c == trim_messages_to_count(s)
<1>1. Chat(s) /\ (HasUser(h) => HasUser(s))
  BY SummarizedChat
<1> HIDE DEF s
<1>2. Chat(c) /\ (HasUser(s) => HasUser(c))
  BY <1>1, TrimChat DEF trim_messages_to_count
<1> HIDE DEF c
<1>3. TrimHistory(h) = Trim(c, 1, Threshold)
  BY DEF TrimHistory, trim_messages_to_budget, s, c
<1>4. QED
  BY <1>1, <1>2, <1>3, TrimChat

LEMMA CompactHistoryChat ==
  ASSUME NEW h, Chat(h)
  PROVE  Chat(CompactHistory(h)) /\ (HasUser(h) => HasUser(CompactHistory(h)))
<1> DEFINE s == IF Len(h) > 4 THEN Summarized(h) ELSE h
<1>1. Chat(s) /\ (HasUser(h) => HasUser(s))
  BY SummarizedChat
<1> HIDE DEF s
<1>2. CompactHistory(h) = s \/ CompactHistory(h) = Trim(s, 1, Target)
  BY DEF CompactHistory, trim_messages_to_budget, s
<1>3. QED
  BY <1>1, <1>2, TrimChat

LEMMA PreparedChat ==
  ASSUME NEW h, Chat(h)
  PROVE  Chat(Prepared(h)) /\ (HasUser(h) => HasUser(Prepared(h)))
<1>1. Prepared(h) = TrimHistory(h) \/ Prepared(h) = CompactHistory(TrimHistory(h))
  BY DEF Prepared
<1>2. QED
  BY <1>1, TrimHistoryChat, CompactHistoryChat
-----------------------------------------------------------------------------
(* Growing a conversation: k results are still owed to its last message but *)
(* the results behind it.                                                   *)
Owing(h, k) ==
  /\ h \in Seq(Message)
  /\ \E b : /\ Chat(b) /\ Len(b) < Len(h)
            /\ \A i \in DOMAIN b : h[i] = b[i]
            /\ h[Len(b) + 1].role = "assistant" /\ Len(b) + 1 + h[Len(b) + 1].calls = Len(h) + k
            /\ \A j \in Len(b) + 2 .. Len(h) : h[j].role = "tool"

LEMMA Appended ==
  ASSUME NEW S, NEW h \in Seq(S), NEW m \in S
  PROVE  /\ Append(h, m) \in Seq(S) /\ Len(Append(h, m)) = Len(h) + 1 /\ Len(h) \in Nat
         /\ DOMAIN Append(h, m) = 1 .. Len(h) + 1 /\ DOMAIN h = 1 .. Len(h)
         /\ (\A i \in 1 .. Len(h) : Append(h, m)[i] = h[i]) /\ Append(h, m)[Len(h) + 1] = m
         /\ Append(h, m) # <<>>
OBVIOUS

LEMMA UserKept ==
  ASSUME NEW h \in Seq(Message), NEW g \in Seq(Message), Len(h) <= Len(g),
         \A i \in 1 .. Len(h) : g[i] = h[i], HasUser(h)
  PROVE  HasUser(g)
<1>1. PICK i \in DOMAIN h : h[i].role = "user"
  BY DEF HasUser
<1>2. i \in 1 .. Len(h) /\ i \in DOMAIN g
  BY <1>1
<1>3. QED
  BY <1>1, <1>2 DEF HasUser

LEMMA ChatFacts ==
  ASSUME NEW h, Chat(h)
  PROVE  /\ h \in Seq(Message) /\ Len(h) \in Nat /\ Len(h) > 0 /\ DOMAIN h = 1 .. Len(h)
         /\ h[1].role = "system" /\ 1 \in DOMAIN h
BY DEF Chat

(* A request with all of its results completes a conversation. *)
LEMMA Settled ==
  ASSUME NEW h, Owing(h, 0)
  PROVE  Chat(h)
<1>1. PICK b : /\ Chat(b) /\ Len(b) < Len(h) /\ (\A i \in DOMAIN b : h[i] = b[i])
               /\ h[Len(b) + 1].role = "assistant"
               /\ Len(b) + 1 + h[Len(b) + 1].calls = Len(h) + 0
               /\ \A j \in Len(b) + 2 .. Len(h) : h[j].role = "tool"
  BY DEF Owing
<1>2. PICK n, l, c : n = Len(b) /\ l = Len(h) /\ c = h[n + 1].calls
  OBVIOUS
<1>3. /\ h \in Seq(Message) /\ l \in Nat /\ DOMAIN h = 1 .. l
      /\ n \in Nat /\ n > 0 /\ DOMAIN b = 1 .. n /\ b[1].role = "system" /\ b \in Seq(Message)
  BY <1>1, <1>2, ChatFacts DEF Owing
<1>4. n + 1 \in DOMAIN h /\ h[n + 1].role = "assistant" /\ n < l
  BY <1>1, <1>2, <1>3
<1>5. c \in 0 .. 3 /\ n + 1 + c = l
  BY <1>1, <1>2, <1>3, <1>4, MsgType
<1>6. h[1].role = "system"
  BY <1>1, <1>3
<1>7. ASSUME NEW i \in DOMAIN h, h[i].role = "tool"
      PROVE  h[i - 1].role \in {"assistant", "tool"}
  <2>1. CASE i <= n
    <3>1. i \in DOMAIN b /\ h[i] = b[i] /\ b[i].role = "tool"
      BY <1>1, <1>3, <1>7, <2>1
    <3>2. b[i - 1].role \in {"assistant", "tool"} /\ i # 1
      BY <1>1, <1>3, <3>1 DEF Chat, WellFormed
    <3>3. i - 1 \in DOMAIN b
      BY <1>3, <3>1, <3>2
    <3>4. QED
      BY <1>1, <3>2, <3>3
  <2>2. CASE i = n + 1
    BY <1>4, <1>7, <2>2
  <2>3. CASE i > n + 1
    <3>1. i - 1 = n + 1 \/ i - 1 \in n + 2 .. l
      BY <1>3, <1>7, <2>3
    <3>2. QED
      BY <1>1, <1>2, <1>4, <3>1
  <2>4. QED
    BY <1>3, <1>7, <2>1, <2>2, <2>3
<1>8. ASSUME NEW i \in DOMAIN h, h[i].role = "assistant"
      PROVE  /\ i + h[i].calls <= l
             /\ \A j \in i + 1 .. i + h[i].calls : h[j].role = "tool"
             /\ i + h[i].calls < l => h[i + h[i].calls + 1].role # "tool"
  <2>1. CASE i <= n
    <3>1. i \in DOMAIN b /\ h[i] = b[i] /\ i \in Nat
      BY <1>1, <1>3, <1>8, <2>1
    <3>2. PICK e : e = b[i].calls
      OBVIOUS
    <3>3. e \in 0 .. 3 /\ h[i].calls = e /\ b[i].role = "assistant"
      BY <1>3, <1>8, <3>1, <3>2, MsgType
    <3>4. /\ i + e <= n /\ (\A j \in i + 1 .. i + e : b[j].role = "tool")
          /\ i + e < n => b[i + e + 1].role # "tool"
      BY <1>1, <1>2, <3>1, <3>2, <3>3 DEF Chat, WellFormed
    <3>5. ASSUME NEW j \in i + 1 .. i + e PROVE h[j].role = "tool"
      <4>1. j \in DOMAIN b
        BY <1>3, <3>1, <3>3, <3>4
      <4>2. QED
        BY <1>1, <3>4, <4>1
    <3>6. h[i + e + 1].role # "tool"
      <4>1. CASE i + e < n
        <5>1. i + e + 1 \in DOMAIN b
          BY <1>3, <3>1, <3>3, <4>1
        <5>2. QED
          BY <1>1, <3>4, <4>1, <5>1
      <4>2. CASE i + e = n
        BY <1>4, <4>2
      <4>3. QED
        BY <1>3, <3>1, <3>3, <3>4, <4>1, <4>2
    <3>7. QED
      BY <1>3, <1>4, <3>1, <3>3, <3>4, <3>5, <3>6
  <2>2. CASE i = n + 1
    <3>1. i + h[i].calls = l
      BY <1>2, <1>5, <2>2
    <3>2. \A j \in i + 1 .. l : h[j].role = "tool"
      BY <1>1, <1>2, <1>3, <2>2
    <3>3. QED
      BY <1>3, <3>1, <3>2
  <2>3. CASE i > n + 1
    <3>1. i \in n + 2 .. l
      BY <1>3, <1>8, <2>3
    <3>2. QED
      BY <1>1, <1>2, <1>8, <3>1
  <2>4. QED
    BY <1>3, <1>8, <2>1, <2>2, <2>3
<1>9. WellFormed(h)
  BY <1>2, <1>6, <1>7, <1>8 DEF WellFormed
<1>10. h # <<>>
  BY <1>2, <1>3, <1>4
<1>11. QED
  BY <1>3, <1>6, <1>9, <1>10 DEF Chat

(* A request opens the debt of its calls, and every result pays one. *)
LEMMA Requested ==
  ASSUME NEW h, Chat(h), NEW m \in Message, m.role = "assistant"
  PROVE  Owing(Append(h, m), m.calls)
<1>1. h \in Seq(Message) /\ Len(h) \in Nat /\ DOMAIN h = 1 .. Len(h) /\ m.calls \in Nat
  BY ChatFacts DEF Message
<1>2. PICK g : g = Append(h, m)
  OBVIOUS
<1>3. /\ g \in Seq(Message) /\ Len(g) = Len(h) + 1
      /\ (\A i \in 1 .. Len(h) : g[i] = h[i]) /\ g[Len(h) + 1] = m
  BY <1>1, <1>2, Appended
<1>4. /\ Chat(h) /\ Len(h) < Len(g) /\ (\A i \in DOMAIN h : g[i] = h[i])
      /\ g[Len(h) + 1].role = "assistant" /\ Len(h) + 1 + g[Len(h) + 1].calls = Len(g) + m.calls
      /\ \A j \in Len(h) + 2 .. Len(g) : g[j].role = "tool"
  BY <1>1, <1>3
<1>5. Owing(g, m.calls)
  BY <1>3, <1>4 DEF Owing
<1>6. QED
  BY <1>2, <1>5

LEMMA Paid ==
  ASSUME NEW k \in Nat, NEW h, Owing(h, k + 1), NEW m \in Message, m.role = "tool"
  PROVE  Owing(Append(h, m), k)
<1>1. PICK b : /\ Chat(b) /\ Len(b) < Len(h) /\ (\A i \in DOMAIN b : h[i] = b[i])
               /\ h[Len(b) + 1].role = "assistant"
               /\ Len(b) + 1 + h[Len(b) + 1].calls = Len(h) + (k + 1)
               /\ \A j \in Len(b) + 2 .. Len(h) : h[j].role = "tool"
  BY DEF Owing
<1>2. h \in Seq(Message) /\ Len(h) \in Nat /\ Len(b) \in Nat /\ DOMAIN b = 1 .. Len(b)
  BY <1>1, ChatFacts DEF Owing
<1>3. PICK g : g = Append(h, m)
  OBVIOUS
<1>4. /\ g \in Seq(Message) /\ Len(g) = Len(h) + 1
      /\ (\A i \in 1 .. Len(h) : g[i] = h[i]) /\ g[Len(h) + 1] = m
  BY <1>2, <1>3, Appended
<1>5. Len(b) + 1 \in 1 .. Len(h) /\ g[Len(b) + 1] = h[Len(b) + 1] /\ Len(b) < Len(g)
  BY <1>1, <1>2, <1>4
<1>6. \A i \in DOMAIN b : g[i] = b[i]
  <2>1. \A i \in DOMAIN b : i \in 1 .. Len(h)
    BY <1>1, <1>2
  <2>2. QED
    BY <1>1, <1>4, <2>1
<1>7. Len(b) + 1 + g[Len(b) + 1].calls = Len(g) + k
  <2>1. Len(h) + (k + 1) = (Len(h) + 1) + k
    BY <1>2
  <2>2. QED
    BY <1>1, <1>4, <1>5, <2>1
<1>8. ASSUME NEW j \in Len(b) + 2 .. Len(g) PROVE g[j].role = "tool"
  <2>1. CASE j = Len(h) + 1
    BY <1>4, <2>1
  <2>2. CASE j # Len(h) + 1
    <3>1. j \in Len(b) + 2 .. Len(h) /\ j \in 1 .. Len(h)
      BY <1>2, <1>4, <2>2
    <3>2. QED
      BY <1>1, <1>4, <3>1
  <2>3. QED
    BY <2>1, <2>2
<1>9. g[Len(b) + 1].role = "assistant"
  BY <1>1, <1>5
<1>10. Owing(g, k)
  BY <1>1, <1>4, <1>5, <1>6, <1>7, <1>8, <1>9 DEF Owing
<1>11. QED
  BY <1>3, <1>10

(* A system or user message may follow at any time. *)
LEMMA Spoken ==
  ASSUME NEW h, Chat(h), NEW m \in Message, m.role \in {"system", "user"}
  PROVE  Chat(Append(h, m))
<1>1. PICK n, g : n = Len(h) /\ g = Append(h, m)
  OBVIOUS
<1>2. /\ h \in Seq(Message) /\ n \in Nat /\ n > 0 /\ DOMAIN h = 1 .. n /\ h[1].role = "system"
      /\ g \in Seq(Message) /\ Len(g) = n + 1 /\ DOMAIN g = 1 .. n + 1
      /\ (\A i \in 1 .. n : g[i] = h[i]) /\ g[n + 1] = m /\ g # <<>>
  BY <1>1, ChatFacts, Appended
<1>3. ASSUME NEW i \in DOMAIN g, g[i].role = "tool"
      PROVE  g[i - 1].role \in {"assistant", "tool"}
  <2>1. i # n + 1
    BY <1>2, <1>3
  <2>2. i \in DOMAIN h /\ h[i].role = "tool" /\ i # 1
    BY <1>2, <1>3, <2>1
  <2>3. h[i - 1].role \in {"assistant", "tool"} /\ i - 1 \in 1 .. n
    BY <1>2, <2>2 DEF Chat, WellFormed
  <2>4. QED
    BY <1>2, <2>3
<1>4. ASSUME NEW i \in DOMAIN g, g[i].role = "assistant"
      PROVE  /\ i + g[i].calls <= n + 1
             /\ \A j \in i + 1 .. i + g[i].calls : g[j].role = "tool"
             /\ i + g[i].calls < n + 1 => g[i + g[i].calls + 1].role # "tool"
  <2>1. i # n + 1
    BY <1>2, <1>4
  <2>2. i \in DOMAIN h /\ h[i].role = "assistant" /\ g[i] = h[i] /\ i \in Nat
    BY <1>2, <1>4, <2>1
  <2>3. PICK e : e = h[i].calls
    OBVIOUS
  <2>4. e \in 0 .. 3
    BY <1>2, <2>2, <2>3, MsgType
  <2>5. /\ i + e <= n /\ (\A j \in i + 1 .. i + e : h[j].role = "tool")
        /\ i + e < n => h[i + e + 1].role # "tool"
    BY <1>1, <2>2, <2>3 DEF Chat, WellFormed
  <2>6. ASSUME NEW j \in i + 1 .. i + e PROVE g[j].role = "tool"
    <3>1. j \in 1 .. n
      BY <1>2, <2>2, <2>4, <2>5
    <3>2. QED
      BY <1>2, <2>5, <3>1
  <2>7. g[i + e + 1].role # "tool"
    <3>1. CASE i + e < n
      <4>1. i + e + 1 \in 1 .. n
        BY <1>2, <2>2, <2>4, <3>1
      <4>2. QED
        BY <1>2, <2>5, <3>1, <4>1
    <3>2. CASE i + e = n
      BY <1>2, <3>2
    <3>3. QED
      BY <1>2, <2>2, <2>4, <2>5, <3>1, <3>2
  <2>8. QED
    BY <1>2, <2>2, <2>3, <2>4, <2>5, <2>6, <2>7
<1>5. WellFormed(g) /\ g[1].role = "system"
  BY <1>2, <1>3, <1>4 DEF WellFormed
<1>6. QED
  BY <1>1, <1>2, <1>5 DEF Chat

LEMMA Rejected ==
  ASSUME NEW k \in Nat, NEW r \in Nat, NEW h, Owing(h, k + r)
  PROVE  /\ Owing(h \o Rejections(r), k)
         /\ HasUser(h) => HasUser(h \o Rejections(r))
<1>1. PICK b : /\ Chat(b) /\ Len(b) < Len(h) /\ (\A i \in DOMAIN b : h[i] = b[i])
               /\ h[Len(b) + 1].role = "assistant"
               /\ Len(b) + 1 + h[Len(b) + 1].calls = Len(h) + (k + r)
               /\ \A j \in Len(b) + 2 .. Len(h) : h[j].role = "tool"
  BY DEF Owing
<1>2. h \in Seq(Message) /\ Len(h) \in Nat /\ Len(b) \in Nat /\ DOMAIN b = 1 .. Len(b)
  BY <1>1, ChatFacts DEF Owing
<1>3. PICK q, g : q = Rejections(r) /\ g = h \o q
  OBVIOUS
<1>4. q \in Seq(Message) /\ Len(q) = r /\ \A i \in 1 .. r : q[i].role = "tool"
  <2>1. Msg("tool", 0, TRUE) \in Message /\ Msg("tool", 0, TRUE).role = "tool"
    BY DEF Msg, Message
  <2>2. q \in [1 .. r -> Message] /\ \A i \in 1 .. r : q[i] = Msg("tool", 0, TRUE)
    BY <1>3, <2>1 DEF Rejections
  <2>3. q \in Seq(Message) /\ Len(q) = r
    BY <2>2
  <2>4. QED
    BY <2>1, <2>2, <2>3
<1>5. /\ g \in Seq(Message) /\ Len(g) = Len(h) + r
      /\ (\A i \in 1 .. Len(h) : g[i] = h[i])
      /\ \A i \in Len(h) + 1 .. Len(h) + r : g[i].role = "tool"
  <2>1. /\ h \o q \in Seq(Message) /\ Len(h \o q) = Len(h) + Len(q)
        /\ (\A i \in 1 .. Len(h) : (h \o q)[i] = h[i])
        /\ \A i \in Len(h) + 1 .. Len(h) + Len(q) : (h \o q)[i] = q[i - Len(h)]
    BY <1>2, <1>4, Joined, Zenon
  <2>2. \A i \in Len(h) + 1 .. Len(h) + r : i - Len(h) \in 1 .. r
    BY <1>2
  <2>3. QED
    BY <1>3, <1>4, <2>1, <2>2
<1>6. Len(b) + 1 \in 1 .. Len(h) /\ g[Len(b) + 1] = h[Len(b) + 1] /\ Len(b) < Len(g)
  BY <1>1, <1>2, <1>5
<1>7. \A i \in DOMAIN b : g[i] = b[i]
  <2>1. \A i \in DOMAIN b : i \in 1 .. Len(h)
    BY <1>1, <1>2
  <2>2. QED
    BY <1>1, <1>5, <2>1
<1>8. Len(b) + 1 + g[Len(b) + 1].calls = Len(g) + k
  <2>1. Len(h) + (k + r) = (Len(h) + r) + k
    BY <1>2
  <2>2. QED
    BY <1>1, <1>5, <1>6, <2>1
<1>9. ASSUME NEW j \in Len(b) + 2 .. Len(g) PROVE g[j].role = "tool"
  <2>1. j \in Len(h) + 1 .. Len(h) + r \/ (j \in Len(b) + 2 .. Len(h) /\ j \in 1 .. Len(h))
    BY <1>2, <1>5
  <2>2. QED
    BY <1>1, <1>5, <2>1
<1>10. g[Len(b) + 1].role = "assistant"
  BY <1>1, <1>6
<1>11. Owing(g, k)
  BY <1>1, <1>5, <1>6, <1>7, <1>8, <1>9, <1>10 DEF Owing
<1>12. HasUser(h) => HasUser(g)
  <2>1. Len(h) <= Len(g)
    BY <1>2, <1>5
  <2>2. QED
    BY <1>2, <1>5, <2>1, UserKept
<1>13. QED
  BY <1>3, <1>11, <1>12
-----------------------------------------------------------------------------
Verdict == {"ok", "failed", "error", "timeout", "invalid", "blocked", "declined"}
Streak(S) == [of : S \cup {NULL}, n : 0 .. Window]

SessionRec ==
  [history : Seq(Message), mode : Mode, always : SUBSET Tool,
   contract : TaskContract \cup {NULL}, plan : BOOLEAN, input : Inputs \cup {Plain, NULL},
   guardrail : BOOLEAN, rev : Nat, unverified : Nat \cup {NULL}, evidence : Nat \cup {NULL},
   procs : SUBSET Proc, cache : SUBSET [call : Call, disk : Nat]]

TurnRec ==
  [pc : {"idle", "top", "llm", "tools", "done"}, step : 0 .. MaxSteps, planned : BOOLEAN,
   repairs : 0 .. MaxFinalRepairs, retried : BOOLEAN, calls : Seq(Call), recent : Streak(Call),
   print : Streak(Tool \X Verdict), fails : 0 .. MaxFailures, argfails : [Tool -> Nat],
   recoveries : 0 .. 2, last : Call \cup {NULL},
   outcome : {"none", "rethink", "stopped", "delivered"}, repl : BOOLEAN]

WorldRec ==
  [disk : Nat, told : Nat, checked : Nat, opened : Nat, check : {"none", "passed", "failed"},
   managed : SUBSET Proc, alive : SUBSET (Proc \cup {Orphan}), lost : SUBSET (Proc \cup {Orphan})]

(* disk is the latest of the world's times, and the processes fit together. *)
Placed(w) ==
  /\ w.told <= w.disk /\ w.opened <= w.disk
  /\ w.alive \subseteq w.managed \cup {Orphan} /\ w.lost \subseteq w.alive

Active == turn.pc \in {"top", "llm", "tools"}

Types ==
  /\ session \in SessionRec /\ turn \in TurnRec /\ world \in WorldRec
  /\ Active => session.contract # NULL
  /\ turn.pc \in {"llm", "tools"} => turn.step < MaxSteps
  /\ Len(turn.calls) <= 3 /\ Placed(world)

(* What the session believes of the world: evidence is of the current      *)
(* revision and of a check that passed, a change it was told of and that   *)
(* no check followed is remembered, and every live process that is not     *)
(* lost is tracked.                                                        *)
Believed(s, w) ==
  /\ s.evidence # NULL => s.evidence = s.rev /\ s.unverified = NULL /\ w.check = "passed"
  /\ s.unverified = NULL => w.told <= w.checked
  /\ w.alive \ w.lost \subseteq s.procs

Fresh(s, w) == \A e \in s.cache : w.told <= e.disk /\ w.opened <= e.disk

(* A call that changes the workspace runs alone. *)
RunsAlone(calls) == Len(calls) <= 1 \/ \A i \in DOMAIN calls : ~Mutates(calls[i].tool)

IInv ==
  /\ Types
  /\ Believed(session, world)
  /\ Active => Fresh(session, world) /\ HasUser(session.history)
  /\ turn.pc # "tools" => Chat(session.history)
  /\ turn.pc = "tools" => Owing(session.history, Len(turn.calls)) /\ RunsAlone(turn.calls)
  /\ DeliveredOnEvidence /\ DeliveredQuiet
-----------------------------------------------------------------------------
(* One observation *)
Dirty(c, v) == Mutates(c.tool) /\ Succeeded(v)

LEMMA ToolMessage ==
  ASSUME NEW b \in BOOLEAN
  PROVE  Msg("tool", 0, b) \in Message /\ Msg("tool", 0, b).role = "tool"
BY DEF Msg, Message

(* What the session s becomes with the observation v of the call c *)
Noted(s, c, v, p, o) ==
  /\ o \in SessionRec
  /\ \E b \in BOOLEAN : o.history = Append(s.history, Msg("tool", 0, b))
  /\ o.contract = s.contract
  /\ o.rev = IF Dirty(c, v) THEN s.rev + 1 ELSE s.rev
  /\ o.unverified = IF IsCheck(c) /\ v = "ok" THEN NULL
                    ELSE IF Dirty(c, v) THEN s.rev + 1 ELSE s.unverified
  /\ o.evidence = IF IsCheck(c) THEN IF v = "ok" THEN o.rev ELSE NULL
                  ELSE IF Dirty(c, v) THEN NULL ELSE s.evidence
  /\ o.procs = IF c.tool = "start" /\ v = "ok" THEN s.procs \cup {p}
               ELSE IF c.tool = "stop" /\ v = "ok" /\ c.args # "short" THEN s.procs \ {p}
               ELSE s.procs
  /\ Dirty(c, v) => o.cache = {}
  /\ \A e \in o.cache : e \in s.cache \/ e.disk = world.disk

LEMMA ObserveFacts ==
  ASSUME NEW s \in SessionRec, NEW c \in Call, NEW v \in Verdict, NEW p \in Proc,
         world \in WorldRec
  PROVE  Noted(s, c, v, p, Observe(s, c, v, p))
<1> DEFINE tracked == IF c.tool = "start" /\ v = "ok" THEN s.procs \cup {p}
                      ELSE IF c.tool = "stop" /\ v = "ok" /\ c.args # "short" THEN s.procs \ {p}
                      ELSE s.procs
           known   == IF Cacheable(c.tool) /\ v = "ok" /\ ~Cached(c)
                      THEN s.cache \cup {[call |-> c, disk |-> world.disk]} ELSE s.cache
           b       == Succeeded(v) /\ c.tool # "read"
           h       == Append(s.history, Msg("tool", 0, b))
           noted   == [s EXCEPT !.procs = tracked, !.cache = known, !.history = h]
           written == IF Mutates(c.tool) /\ Succeeded(v)
                      THEN [Invalidated(noted) EXCEPT !.rev = @ + 1, !.unverified = s.rev + 1,
                                                      !.evidence = NULL]
                      ELSE noted
           o       == IF ~IsCheck(c) THEN written
                      ELSE IF v = "ok" THEN [written EXCEPT !.evidence = written.rev, !.unverified = NULL]
                      ELSE [written EXCEPT !.evidence = NULL]
<1>1. Observe(s, c, v, p) = o
  BY Zenon DEF Observe
<1>2. b \in BOOLEAN
  BY DEF Succeeded
<1>3. h \in Seq(Message)
  <2>1. s.history \in Seq(Message)
    BY DEF SessionRec
  <2>2. QED
    BY <1>2, <2>1, ToolMessage, Appended
<1>4. tracked \in SUBSET Proc
  <2>1. s.procs \in SUBSET Proc
    BY DEF SessionRec
  <2>2. QED
    BY <2>1
<1>5. /\ known \in SUBSET [call : Call, disk : Nat]
      /\ \A e \in known : e \in s.cache \/ e.disk = world.disk
  <2>1. s.cache \in SUBSET [call : Call, disk : Nat] /\ world.disk \in Nat
    BY DEF SessionRec, WorldRec
  <2>2. [call |-> c, disk |-> world.disk] \in [call : Call, disk : Nat]
    BY <2>1
  <2>3. QED
    BY <2>1, <2>2
<1> HIDE DEF tracked, known, b, h
<1>6. /\ noted \in SessionRec /\ noted.history = h /\ noted.contract = s.contract
      /\ noted.rev = s.rev /\ noted.unverified = s.unverified /\ noted.evidence = s.evidence
      /\ noted.procs = tracked /\ noted.cache = known
  BY <1>3, <1>4, <1>5 DEF SessionRec
<1> HIDE DEF noted
<1>7. /\ written \in SessionRec /\ written.history = h /\ written.contract = s.contract
      /\ written.rev = IF Dirty(c, v) THEN s.rev + 1 ELSE s.rev
      /\ written.unverified = IF Dirty(c, v) THEN s.rev + 1 ELSE s.unverified
      /\ written.evidence = IF Dirty(c, v) THEN NULL ELSE s.evidence
      /\ written.procs = tracked
      /\ written.cache = IF Dirty(c, v) THEN {} ELSE known
  <2>1. CASE Dirty(c, v)
    <3>1. s.rev \in Nat
      BY DEF SessionRec
    <3>2. written = [Invalidated(noted) EXCEPT !.rev = @ + 1, !.unverified = s.rev + 1,
                                               !.evidence = NULL]
      BY <2>1 DEF Dirty
    <3>3. PICK i : i = Invalidated(noted)
      OBVIOUS
    <3>4. /\ i \in SessionRec /\ i.history = h /\ i.contract = s.contract /\ i.rev = s.rev
          /\ i.procs = tracked /\ i.cache = {}
      BY <1>6, <3>3 DEF Invalidated, SessionRec
    <3>5. written = [i EXCEPT !.rev = s.rev + 1, !.unverified = s.rev + 1, !.evidence = NULL]
      BY <3>2, <3>3, <3>4
    <3>6. PICK r, w : /\ r = s.rev + 1
                      /\ w = [i EXCEPT !.rev = r, !.unverified = r, !.evidence = NULL]
      OBVIOUS
    <3>7. r \in Nat
      BY <3>1, <3>6
    <3>8. /\ w \in SessionRec /\ w.history = h /\ w.contract = s.contract /\ w.rev = r
          /\ w.unverified = r /\ w.evidence = NULL /\ w.procs = tracked /\ w.cache = {}
      BY <3>4, <3>6, <3>7 DEF SessionRec
    <3>9. written = w
      BY <3>5, <3>6
    <3> HIDE DEF written
    <3>10. QED
      BY <2>1, <3>6, <3>8, <3>9
  <2>2. CASE ~Dirty(c, v)
    BY <1>6, <2>2 DEF Dirty
  <2>3. QED
    BY <2>1, <2>2
<1> HIDE DEF written
<1>8. /\ o \in SessionRec /\ o.history = h /\ o.contract = s.contract /\ o.rev = written.rev
      /\ o.unverified = IF IsCheck(c) /\ v = "ok" THEN NULL ELSE written.unverified
      /\ o.evidence = IF IsCheck(c) THEN IF v = "ok" THEN o.rev ELSE NULL ELSE written.evidence
      /\ o.procs = tracked /\ o.cache = written.cache
  <2>1. CASE ~IsCheck(c)
    BY <1>7, <2>1
  <2>2. CASE IsCheck(c) /\ v = "ok"
    BY <1>7, <2>2 DEF SessionRec
  <2>3. CASE IsCheck(c) /\ v # "ok"
    BY <1>7, <2>3 DEF SessionRec
  <2>4. QED
    BY <2>1, <2>2, <2>3
<1> HIDE DEF o
<1>9. \E d \in BOOLEAN : o.history = Append(s.history, Msg("tool", 0, d))
  BY <1>2, <1>8 DEF h
<1>10. (Dirty(c, v) => o.cache = {}) /\ \A e \in o.cache : e \in s.cache \/ e.disk = world.disk
  BY <1>5, <1>7, <1>8
<1>11. o.procs = IF c.tool = "start" /\ v = "ok" THEN s.procs \cup {p}
                 ELSE IF c.tool = "stop" /\ v = "ok" /\ c.args # "short" THEN s.procs \ {p}
                 ELSE s.procs
  BY <1>8 DEF tracked
<1>12. /\ o.rev = IF Dirty(c, v) THEN s.rev + 1 ELSE s.rev
       /\ o.unverified = IF IsCheck(c) /\ v = "ok" THEN NULL
                         ELSE IF Dirty(c, v) THEN s.rev + 1 ELSE s.unverified
       /\ o.evidence = IF IsCheck(c) THEN IF v = "ok" THEN o.rev ELSE NULL
                       ELSE IF Dirty(c, v) THEN NULL ELSE s.evidence
  BY <1>7, <1>8
<1>13. Noted(s, c, v, p, o)
  BY <1>8, <1>9, <1>10, <1>11, <1>12, Zenon DEF Noted
<1>14. QED
  BY <1>1, <1>13, Zenon

(* What the world w becomes: x, with d as its disk, the processes g begun   *)
(* and n ended.                                                            *)
HappensAs(w, c, v, p, x, d, g, n) ==
  /\ d = w.disk \/ d = w.disk + 1
  /\ g \in {{}, {p}, {Orphan}} /\ n \in {{}, {p}}
  /\ p \in Proc
  /\ p \in g <=> c.tool = "start" /\ Succeeded(v)
  /\ Orphan \in g => v = "timeout"
  /\ n # {} <=> c.tool = "stop" /\ v = "ok"
  /\ x.disk = d /\ x.opened = w.opened
  /\ x.told = IF Told(c, v) THEN d ELSE w.told
  /\ x.checked = IF IsCheck(c) /\ v = "ok" THEN d ELSE w.checked
  /\ x.check = IF ~IsCheck(c) THEN w.check ELSE IF v = "ok" THEN "passed" ELSE "failed"
  /\ x.managed = w.managed \cup (g \ {Orphan}) /\ x.alive = (w.alive \cup g) \ n
  /\ x.lost = IF v = "ok" THEN w.lost \ n ELSE w.lost \cup g
  /\ DOMAIN x = {"disk", "told", "checked", "opened", "check", "managed", "alive", "lost"}

LEMMA HappenedForm ==
  ASSUME NEW w, NEW c, NEW v, NEW p \in Proc, NEW wrote
  PROVE  \E d, g, n : HappensAs(w, c, v, p, Happened(w, c, v, p, wrote), d, g, n)
<1> DEFINE disk  == IF Told(c, v) \/ (wrote /\ MayWrite(w, c, v)) THEN w.disk + 1 ELSE w.disk
           begun == IF c.tool = "start" /\ Succeeded(v) THEN {p}
                    ELSE IF c.tool \in {"test", "script"} /\ v = "timeout" THEN {Orphan} ELSE {}
           ended == IF c.tool = "stop" /\ v = "ok" THEN {p} ELSE {}
           x     == Happened(w, c, v, p, wrote)
<1>1. /\ x.disk = disk /\ x.opened = w.opened
      /\ x.told = IF Told(c, v) THEN disk ELSE w.told
      /\ x.checked = IF IsCheck(c) /\ v = "ok" THEN disk ELSE w.checked
      /\ x.check = IF ~IsCheck(c) THEN w.check ELSE IF v = "ok" THEN "passed" ELSE "failed"
      /\ x.managed = w.managed \cup (begun \ {Orphan}) /\ x.alive = (w.alive \cup begun) \ ended
      /\ x.lost = IF v = "ok" THEN w.lost \ ended ELSE w.lost \cup begun
      /\ DOMAIN x = {"disk", "told", "checked", "opened", "check", "managed", "alive", "lost"}
  BY DEF Happened
<1>2. disk = w.disk \/ disk = w.disk + 1
  OBVIOUS
<1>3. p # Orphan
  BY DEF Proc, Orphan
<1>4. /\ begun \in {{}, {p}, {Orphan}} /\ ended \in {{}, {p}}
      /\ p \in begun <=> c.tool = "start" /\ Succeeded(v)
      /\ Orphan \in begun => v = "timeout"
      /\ ended # {} <=> c.tool = "stop" /\ v = "ok"
  BY <1>3
<1> HIDE DEF disk, begun, ended, x
<1>5. HappensAs(w, c, v, p, x, disk, begun, ended)
  BY <1>1, <1>2, <1>4, Zenon DEF HappensAs
<1>6. QED
  BY <1>5 DEF x

LEMMA HappenedFacts ==
  ASSUME NEW w \in WorldRec, NEW c \in Call, NEW v \in Verdict, NEW p \in Proc, NEW wrote
  PROVE  /\ Happened(w, c, v, p, wrote) \in WorldRec
         /\ Placed(w) => Placed(Happened(w, c, v, p, wrote))
         /\ Happened(w, c, v, p, wrote).opened = w.opened
         /\ ~Mutates(c.tool) => Happened(w, c, v, p, wrote).told = w.told
<1>1. /\ w.disk \in Nat /\ w.told \in Nat /\ w.checked \in Nat /\ w.opened \in Nat
      /\ w.managed \in SUBSET Proc /\ w.alive \in SUBSET (Proc \cup {Orphan})
      /\ w.lost \in SUBSET (Proc \cup {Orphan}) /\ w.check \in {"none", "passed", "failed"}
  BY DEF WorldRec
<1>2. PICK x : x = Happened(w, c, v, p, wrote)
  OBVIOUS
<1>3. PICK d, g, n : HappensAs(w, c, v, p, x, d, g, n)
  BY <1>2, HappenedForm
<1>4. d \in Nat /\ d >= w.disk
  BY <1>1, <1>3 DEF HappensAs
<1>5. g \subseteq Proc \cup {Orphan} /\ n \subseteq Proc /\ Orphan \notin Proc
  BY <1>3 DEF HappensAs, Orphan, Proc
<1>6. /\ x.disk = d /\ x.opened = w.opened
      /\ x.told = IF Told(c, v) THEN d ELSE w.told
      /\ x.checked = IF IsCheck(c) /\ v = "ok" THEN d ELSE w.checked
      /\ x.check = IF ~IsCheck(c) THEN w.check ELSE IF v = "ok" THEN "passed" ELSE "failed"
      /\ x.managed = w.managed \cup (g \ {Orphan}) /\ x.alive = (w.alive \cup g) \ n
      /\ x.lost = IF v = "ok" THEN w.lost \ n ELSE w.lost \cup g
      /\ DOMAIN x = {"disk", "told", "checked", "opened", "check", "managed", "alive", "lost"}
  BY <1>3, Zenon DEF HappensAs
<1>7. x \in WorldRec
  <2>1. x.told \in Nat /\ x.checked \in Nat /\ x.check \in {"none", "passed", "failed"}
    BY <1>1, <1>4, <1>6
  <2>2. /\ x.managed \in SUBSET Proc /\ x.alive \in SUBSET (Proc \cup {Orphan})
        /\ x.lost \in SUBSET (Proc \cup {Orphan})
    BY <1>1, <1>5, <1>6
  <2>3. x = [disk |-> x.disk, told |-> x.told, checked |-> x.checked, opened |-> x.opened,
             check |-> x.check, managed |-> x.managed, alive |-> x.alive, lost |-> x.lost]
    BY <1>2 DEF Happened
  <2>4. QED
    BY <1>1, <1>4, <1>6, <2>1, <2>2, <2>3, Zenon DEF WorldRec
<1>8. ASSUME Placed(w) PROVE Placed(x)
  <2>1. w.told <= w.disk /\ w.opened <= w.disk
    BY <1>8 DEF Placed
  <2>2. x.told <= x.disk /\ x.opened <= x.disk
    BY <1>1, <1>4, <1>6, <2>1
  <2>3. x.alive \subseteq x.managed \cup {Orphan}
    BY <1>5, <1>6, <1>8 DEF Placed
  <2>4. x.lost \subseteq x.alive
    <3>1. v # "ok" => n = {}
      BY <1>3 DEF HappensAs
    <3>2. QED
      BY <1>6, <1>8, <3>1 DEF Placed
  <2>5. QED
    BY <2>2, <2>3, <2>4 DEF Placed
<1>9. ~Mutates(c.tool) => x.told = w.told
  BY <1>6 DEF Told
<1>10. QED
  BY <1>2, <1>6, <1>7, <1>8, <1>9

LEMMA BelievedStep ==
  ASSUME NEW s \in SessionRec, NEW w \in WorldRec, NEW c \in Call, NEW v \in Verdict,
         NEW p \in Proc, NEW wrote, world \in WorldRec, Believed(s, w), Placed(w)
  PROVE  Believed(Observe(s, c, v, p), Happened(w, c, v, p, wrote))
<1>1. PICK o, x : o = Observe(s, c, v, p) /\ x = Happened(w, c, v, p, wrote)
  OBVIOUS
<1>2. /\ o.rev = IF Dirty(c, v) THEN s.rev + 1 ELSE s.rev
      /\ o.unverified = IF IsCheck(c) /\ v = "ok" THEN NULL
                        ELSE IF Dirty(c, v) THEN s.rev + 1 ELSE s.unverified
      /\ o.evidence = IF IsCheck(c) THEN IF v = "ok" THEN o.rev ELSE NULL
                      ELSE IF Dirty(c, v) THEN NULL ELSE s.evidence
      /\ o.procs = IF c.tool = "start" /\ v = "ok" THEN s.procs \cup {p}
                   ELSE IF c.tool = "stop" /\ v = "ok" /\ c.args # "short" THEN s.procs \ {p}
                   ELSE s.procs
  <2>1. Noted(s, c, v, p, o)
    BY <1>1, ObserveFacts
  <2>2. QED
    BY <2>1 DEF Noted
<1>3. s.rev + 1 # NULL
  BY LoopAssumption DEF SessionRec
<1>4. PICK d, g, n : HappensAs(w, c, v, p, x, d, g, n)
  BY <1>1, HappenedForm
<1>5. /\ x.told = IF Told(c, v) THEN d ELSE w.told
      /\ x.checked = IF IsCheck(c) /\ v = "ok" THEN d ELSE w.checked
      /\ x.check = IF ~IsCheck(c) THEN w.check ELSE IF v = "ok" THEN "passed" ELSE "failed"
      /\ x.alive = (w.alive \cup g) \ n
      /\ x.lost = IF v = "ok" THEN w.lost \ n ELSE w.lost \cup g
  BY <1>4, Zenon DEF HappensAs
<1>6. o.evidence # NULL => o.evidence = o.rev /\ o.unverified = NULL /\ x.check = "passed"
  BY <1>2, <1>5 DEF Believed
<1>7. ASSUME o.unverified = NULL PROVE x.told <= x.checked
  <2>1. d \in Nat /\ w.told <= d
    <3>1. w.disk \in Nat /\ w.told \in Nat /\ w.told <= w.disk
      BY DEF WorldRec, Placed
    <3>2. d = w.disk \/ d = w.disk + 1
      BY <1>4 DEF HappensAs
    <3>3. QED
      BY <3>1, <3>2
  <2>2. CASE IsCheck(c) /\ v = "ok"
    BY <1>5, <2>1, <2>2
  <2>3. CASE ~(IsCheck(c) /\ v = "ok")
    <3>1. ~Dirty(c, v) /\ s.unverified = NULL
      BY <1>2, <1>3, <1>7, <2>3
    <3>2. x.told = w.told /\ x.checked = w.checked
      BY <1>5, <2>3, <3>1 DEF Dirty, Told
    <3>3. QED
      BY <3>1, <3>2 DEF Believed
  <2>4. QED
    BY <2>2, <2>3
<1>8. x.alive \ x.lost \subseteq o.procs
  <2>1. SUFFICES ASSUME NEW q \in x.alive, q \notin x.lost PROVE q \in o.procs
    OBVIOUS
  <2>2. q \in w.alive \cup g /\ q \notin n
    BY <1>5
  <2>3. CASE v = "ok"
    <3>1. q \notin w.lost
      BY <1>5, <2>1, <2>2, <2>3
    <3>2. q \in s.procs \/ (q = p /\ c.tool = "start")
      <4>1. q \in w.alive => q \in s.procs
        BY <3>1 DEF Believed
      <4>2. q \in g => q = p /\ c.tool = "start"
        BY <1>4, <2>3 DEF HappensAs
      <4>3. QED
        BY <2>2, <4>1, <4>2
    <3>3. c.tool = "stop" => q # p
      BY <1>4, <2>2, <2>3 DEF HappensAs
    <3>4. QED
      BY <1>2, <2>3, <3>2, <3>3
  <2>4. CASE v # "ok"
    <3>1. q \in w.alive /\ q \notin w.lost
      BY <1>5, <2>1, <2>2, <2>4
    <3>2. q \in s.procs /\ o.procs = s.procs
      BY <1>2, <2>4, <3>1 DEF Believed
    <3>3. QED
      BY <3>2
  <2>5. QED
    BY <2>3, <2>4
<1>9. Believed(o, x)
  BY <1>6, <1>7, <1>8 DEF Believed
<1>10. QED
  BY <1>1, <1>9

LEMMA FreshStep ==
  ASSUME NEW s \in SessionRec, NEW w \in WorldRec, NEW c \in Call, NEW v \in Verdict,
         NEW p \in Proc, NEW wrote, world \in WorldRec, Fresh(s, w),
         w.told <= world.disk, w.opened <= world.disk
  PROVE  Fresh(Observe(s, c, v, p), Happened(w, c, v, p, wrote))
<1>1. PICK o, x : o = Observe(s, c, v, p) /\ x = Happened(w, c, v, p, wrote)
  OBVIOUS
<1>2. /\ Dirty(c, v) => o.cache = {}
      /\ \A e \in o.cache : e \in s.cache \/ e.disk = world.disk
  <2>1. Noted(s, c, v, p, o)
    BY <1>1, ObserveFacts
  <2>2. QED
    BY <2>1 DEF Noted
<1>3. x.opened = w.opened /\ (~Dirty(c, v) => x.told = w.told)
  BY <1>1 DEF Happened, Dirty, Told
<1>4. ASSUME NEW e \in o.cache PROVE x.told <= e.disk /\ x.opened <= e.disk
  <2>1. x.told = w.told /\ x.opened = w.opened
    BY <1>2, <1>3, <1>4
  <2>2. w.told <= e.disk /\ w.opened <= e.disk
    BY <1>2, <1>4 DEF Fresh
  <2>3. QED
    BY <2>1, <2>2
<1>5. Fresh(o, x)
  BY <1>4 DEF Fresh
<1>6. QED
  BY <1>1, <1>5

LEMMA ExtendType ==
  ASSUME NEW S, NEW x \in S, NEW k \in Streak(S)
  PROVE  Extend(k, x) \in Streak(S)
<1>1. k.of \in S \cup {NULL} /\ k.n \in 0 .. Window /\ Window = 3
  BY DEF Streak, Window
<1>2. [of |-> x, n |-> 1] \in Streak(S)
  BY <1>1 DEF Streak
<1>3. [k EXCEPT !.n = IF k.n < Window THEN k.n + 1 ELSE k.n] \in Streak(S)
  <2>1. (IF k.n < Window THEN k.n + 1 ELSE k.n) \in 0 .. Window
    BY <1>1
  <2>2. QED
    BY <2>1 DEF Streak
<1>4. QED
  BY <1>2, <1>3 DEF Extend

LEMMA JudgeFacts ==
  ASSUME NEW t \in TurnRec, NEW c \in Call, NEW v \in Verdict, NEW stuck
  PROVE  /\ Judge(t, c, v, stuck) \in TurnRec
         /\ Judge(t, c, v, stuck).step = t.step /\ Judge(t, c, v, stuck).calls = t.calls
         /\ Judge(t, c, v, stuck).repl = t.repl
<1> DEFINE recent == Extend(t.recent, c)
           print  == Extend(t.print, <<c.tool, v>>)
           again  == recent.n = Window
           same   == print.n = Window /\ stuck
           moved  == t.last # NULL /\ c # t.last
           args   == IF v = "invalid" THEN [t.argfails EXCEPT ![c.tool] = @ + 1] ELSE t.argfails
           fails  == IF Failed(v) THEN t.fails + 1 ELSE 0
           shown  == IF same THEN [print EXCEPT !.n = 1] ELSE print
<1>1. /\ t.recent \in Streak(Call) /\ t.print \in Streak(Tool \X Verdict)
      /\ t.fails \in 0 .. MaxFailures /\ t.argfails \in [Tool -> Nat] /\ t.recoveries \in 0 .. 2
  BY DEF TurnRec
<1>2. c.tool \in Tool /\ <<c.tool, v>> \in Tool \X Verdict
  BY DEF Call
<1>3. recent \in Streak(Call) /\ print \in Streak(Tool \X Verdict)
  BY <1>1, <1>2, ExtendType
<1>4. shown \in Streak(Tool \X Verdict)
  <2>1. 1 \in 0 .. Window
    BY DEF Window
  <2> HIDE DEF print
  <2>2. [print EXCEPT !.n = 1] \in Streak(Tool \X Verdict)
    BY <1>3, <2>1 DEF Streak
  <2>3. QED
    BY <1>3, <2>2
<1>5. args \in [Tool -> Nat]
  BY <1>1, <1>2
<1>6. fails \in Nat
  BY <1>1, LoopAssumption
<1>7. \/ Judge(t, c, v, stuck) = t
      \/ t.recoveries < 2 /\ Judge(t, c, v, stuck) =
           [t EXCEPT !.recent = recent, !.recoveries = t.recoveries + 1, !.last = c,
                     !.outcome = "rethink"]
      \/ Judge(t, c, v, stuck) = [t EXCEPT !.outcome = "stopped"]
      \/ ~(fails >= MaxFailures) /\ Judge(t, c, v, stuck) =
           [t EXCEPT !.recent = recent, !.argfails = args, !.fails = fails, !.print = shown]
  BY Zenon DEF Judge
<1> HIDE DEF recent, print, args, fails, shown
<1>8. CASE Judge(t, c, v, stuck) = t
  BY <1>8
<1>9. CASE t.recoveries < 2 /\ Judge(t, c, v, stuck) =
             [t EXCEPT !.recent = recent, !.recoveries = t.recoveries + 1, !.last = c,
                       !.outcome = "rethink"]
  <2>1. t.recoveries + 1 \in 0 .. 2
    BY <1>1, <1>9
  <2>2. QED
    BY <1>3, <1>9, <2>1 DEF TurnRec
<1>10. CASE Judge(t, c, v, stuck) = [t EXCEPT !.outcome = "stopped"]
  BY <1>10 DEF TurnRec
<1>11. CASE ~(fails >= MaxFailures) /\ Judge(t, c, v, stuck) =
             [t EXCEPT !.recent = recent, !.argfails = args, !.fails = fails, !.print = shown]
  <2>1. fails \in 0 .. MaxFailures
    BY <1>6, <1>11, LoopAssumption
  <2>2. QED
    BY <1>3, <1>4, <1>5, <1>11, <2>1, ZenonT(40) DEF TurnRec
<1>12. QED
  BY <1>7, <1>8, <1>9, <1>10, <1>11
-----------------------------------------------------------------------------
(* All observations of an answer *)
Left(i) == IF i < Len(turn.calls) THEN Len(turn.calls) - i ELSE 0

Good(x, i) ==
  /\ x.session \in SessionRec /\ x.world \in WorldRec /\ x.turn \in TurnRec
  /\ x.turn.step = turn.step /\ x.turn.calls = turn.calls /\ x.turn.repl = turn.repl
  /\ x.session.contract = session.contract
  /\ Believed(x.session, x.world) /\ Fresh(x.session, x.world)
  /\ Placed(x.world)
  /\ x.world.opened <= world.disk
  /\ i < Len(turn.calls) => x.world.told <= world.disk
  /\ HasUser(x.session.history) /\ Owing(x.session.history, Left(i))

LEMMA TypeFacts ==
  ASSUME Types
  PROVE  /\ session \in SessionRec /\ turn \in TurnRec /\ world \in WorldRec
         /\ session.history \in Seq(Message) /\ turn.calls \in Seq(Call)
         /\ Len(turn.calls) \in Nat /\ Len(turn.calls) <= 3
         /\ DOMAIN turn.calls = 1 .. Len(turn.calls)
         /\ turn.step \in 0 .. MaxSteps /\ turn.repl \in BOOLEAN
         /\ session.rev \in Nat /\ session.procs \in SUBSET Proc
<1>1. session \in SessionRec /\ turn \in TurnRec /\ world \in WorldRec /\ Len(turn.calls) <= 3
  BY DEF Types
<1>2. turn.calls \in Seq(Call) /\ turn.step \in 0 .. MaxSteps /\ turn.repl \in BOOLEAN
  BY <1>1 DEF TurnRec
<1>3. session.history \in Seq(Message) /\ session.rev \in Nat /\ session.procs \in SUBSET Proc
  BY <1>1 DEF SessionRec
<1>4. QED
  BY <1>1, <1>2, <1>3

LEMMA VerdictsType ==
  ASSUME NEW c
  PROVE  Verdicts(c) \subseteq Verdict
<1>1. Reports(c) \subseteq Verdict
  <2>1. CASE c.tool \in {"test", "cli"}
    BY <2>1 DEF Reports, Verdict
  <2>2. CASE c.tool \in {"script", "probe"}
    BY <2>2 DEF Reports, Verdict
  <2>3. CASE c.tool = "start"
    BY <2>3 DEF Reports, Verdict
  <2>4. CASE c.tool = "stop"
    BY <2>4 DEF Reports, Verdict
  <2>5. CASE c.tool \notin {"test", "cli", "script", "probe", "start", "stop"}
    BY <2>5 DEF Reports, Verdict
  <2>6. QED
    BY <2>1, <2>2, <2>3, <2>4, <2>5
<1>2. QED
  BY <1>1 DEF Verdicts, Verdict

LEMMA HandleStep ==
  ASSUME IInv, turn.pc = "tools", NEW v, DOMAIN v = DOMAIN turn.calls,
         \A i \in DOMAIN v : v[i] \in Verdict, NEW p \in Proc, NEW wrote, NEW stuck,
         NEW i \in 0 .. 2, NEW x, Good(x, i)
  PROVE  Good(Handle(x, i + 1, v, p, wrote, stuck), i + 1)
<1> DEFINE n == Len(turn.calls)
<1>1. /\ Types /\ world \in WorldRec /\ n \in Nat /\ DOMAIN v = 1 .. n /\ turn.calls \in Seq(Call)
      /\ i \in Nat
  BY TypeFacts DEF IInv
<1>2. CASE i + 1 \notin DOMAIN v
  <2>1. Handle(x, i + 1, v, p, wrote, stuck) = x
    BY <1>2 DEF Handle
  <2>2. ~(i + 1 < n) /\ Left(i) = Left(i + 1)
    BY <1>1, <1>2 DEF Left
  <2>3. QED
    BY <2>1, <2>2 DEF Good
<1>3. CASE i + 1 \in DOMAIN v
  <2>1. PICK c, o, w, t : /\ c = turn.calls[i + 1] /\ o = Observe(x.session, c, v[i + 1], p)
                          /\ w = Happened(x.world, c, v[i + 1], p, wrote)
                          /\ t = Judge(x.turn, c, v[i + 1], stuck)
    OBVIOUS
  <2>2. PICK y : y = Handle(x, i + 1, v, p, wrote, stuck)
    OBVIOUS
  <2>3. y = [session |-> o, world |-> w, turn |-> t]
    BY <1>3, <2>1, <2>2 DEF Handle
  <2>4. y.session = o /\ y.world = w /\ y.turn = t
    BY <2>3
  <2>5. /\ c \in Call /\ v[i + 1] \in Verdict /\ i < n
        /\ x.world.told <= world.disk /\ x.world.opened <= world.disk
    BY <1>1, <1>3, <2>1 DEF Good
  <2>6. /\ x.session \in SessionRec /\ x.world \in WorldRec /\ x.turn \in TurnRec
        /\ Believed(x.session, x.world) /\ Fresh(x.session, x.world)
        /\ Placed(x.world)
        /\ HasUser(x.session.history) /\ Owing(x.session.history, Left(i))
    BY DEF Good
  <2>7. o \in SessionRec /\ o.contract = session.contract
        /\ \E b \in BOOLEAN : o.history = Append(x.session.history, Msg("tool", 0, b))
    <3>1. Noted(x.session, c, v[i + 1], p, o)
      BY <1>1, <2>1, <2>5, <2>6, ObserveFacts
    <3>2. QED
      BY <3>1 DEF Noted, Good
  <2>8. w \in WorldRec /\ Placed(w)
        /\ w.opened = x.world.opened /\ (~Mutates(c.tool) => w.told = x.world.told)
    BY <2>1, <2>5, <2>6, HappenedFacts
  <2>9. t \in TurnRec /\ t.step = turn.step /\ t.calls = turn.calls /\ t.repl = turn.repl
    <3>1. t \in TurnRec /\ t.step = x.turn.step /\ t.calls = x.turn.calls /\ t.repl = x.turn.repl
      BY <2>1, <2>5, <2>6, JudgeFacts
    <3>2. QED
      BY <3>1 DEF Good
  <2>10. Believed(o, w) /\ Fresh(o, w)
    BY <1>1, <2>1, <2>5, <2>6, BelievedStep, FreshStep
  <2>11. ASSUME i + 1 < n PROVE w.told <= world.disk
    <3>1. ~Mutates(c.tool)
      BY <1>1, <1>3, <2>1, <2>11 DEF IInv, RunsAlone
    <3>2. QED
      BY <2>5, <2>8, <3>1
  <2>12. HasUser(o.history) /\ Owing(o.history, Left(i + 1))
    <3>1. PICK b \in BOOLEAN : o.history = Append(x.session.history, Msg("tool", 0, b))
      BY <2>7
    <3>2. Msg("tool", 0, b) \in Message /\ Msg("tool", 0, b).role = "tool"
      BY ToolMessage
    <3>3. Left(i + 1) \in Nat /\ Left(i) = Left(i + 1) + 1
      BY <1>1, <2>5 DEF Left
    <3>4. Owing(o.history, Left(i + 1))
      BY <2>6, <3>1, <3>2, <3>3, Paid
    <3>5. x.session.history \in Seq(Message) /\ o.history \in Seq(Message)
      BY <2>6, <3>4 DEF Owing
    <3>6. /\ Len(x.session.history) <= Len(o.history)
          /\ \A j \in 1 .. Len(x.session.history) : o.history[j] = x.session.history[j]
      BY <3>1, <3>2, <3>5, Appended
    <3>7. HasUser(o.history)
      BY <2>6, <3>5, <3>6, UserKept
    <3>8. QED
      BY <3>4, <3>7
  <2>13. Good(y, i + 1)
    BY <2>4, <2>5, <2>7, <2>8, <2>9, <2>10, <2>11, <2>12 DEF Good
  <2>14. QED
    BY <2>2, <2>13
<1>4. QED
  BY <1>2, <1>3

LEMMA HandledFacts ==
  ASSUME IInv, turn.pc = "tools", NEW v, DOMAIN v = DOMAIN turn.calls,
         \A i \in DOMAIN v : v[i] \in Verdict, NEW p \in Proc, NEW wrote, NEW stuck
  PROVE  /\ Good(Handled(v, p, wrote, stuck), 3) /\ Chat(Handled(v, p, wrote, stuck).session.history)
<1>1. PICK x : x = [session |-> session, world |-> world, turn |-> turn]
  OBVIOUS
<1>2. x.session = session /\ x.world = world /\ x.turn = turn
  BY <1>1
<1>3. /\ session \in SessionRec /\ turn \in TurnRec /\ world \in WorldRec
      /\ Len(turn.calls) \in Nat /\ Len(turn.calls) <= 3
  BY TypeFacts DEF IInv
<1>4. Left(0) = Len(turn.calls) /\ Left(3) = 0
  BY <1>3 DEF Left
<1>5. Good(x, 0)
  BY <1>2, <1>3, <1>4 DEF Good, IInv, Types, Active, Placed
<1>6. Good(Handle(x, 0 + 1, v, p, wrote, stuck), 0 + 1)
  <2>1. 0 \in 0 .. 2
    OBVIOUS
  <2>2. QED
    BY <1>5, <2>1, HandleStep
<1>7. PICK y : y = Handle(x, 1, v, p, wrote, stuck)
  OBVIOUS
<1>8. Good(y, 1)
  BY <1>6, <1>7
<1>9. Good(Handle(y, 1 + 1, v, p, wrote, stuck), 1 + 1)
  <2>1. 1 \in 0 .. 2
    OBVIOUS
  <2>2. QED
    BY <1>8, <2>1, HandleStep
<1>10. PICK z : z = Handle(y, 2, v, p, wrote, stuck)
  OBVIOUS
<1>11. Good(z, 2)
  BY <1>9, <1>10
<1>12. Good(Handle(z, 2 + 1, v, p, wrote, stuck), 2 + 1)
  <2>1. 2 \in 0 .. 2
    OBVIOUS
  <2>2. QED
    BY <1>11, <2>1, HandleStep
<1>13. Handled(v, p, wrote, stuck) = Handle(z, 3, v, p, wrote, stuck)
  BY <1>1, <1>7, <1>10 DEF Handled
<1>14. Good(Handled(v, p, wrote, stuck), 3)
  BY <1>12, <1>13
<1>15. QED
  BY <1>4, <1>14, Settled DEF Good
-----------------------------------------------------------------------------
(* Where a turn goes next *)
LEMMA NoTurnType == NoTurn \in TurnRec /\ NoTurn.calls = <<>> /\ NoTurn.step = 0
<1>1. \A S : NoStreak \in Streak(S)
  BY DEF NoStreak, Streak, Window
<1>2. [t \in Tool |-> 0] \in [Tool -> Nat] /\ <<>> \in Seq(Call)
  OBVIOUS
<1>3. 0 \in 0 .. MaxSteps /\ 0 \in 0 .. MaxFinalRepairs /\ 0 \in 0 .. MaxFailures /\ 0 \in 0 .. 2
  BY LoopAssumption
<1>4. QED
  BY <1>1, <1>2, <1>3 DEF NoTurn, TurnRec

LEMMA ContractType ==
  ASSUME NEW f
  PROVE  Contract(f) \in TaskContract /\ Contract(f) # NULL
<1> DEFINE change == f.change /\ ~f.info
           oper   == f.operate /\ ~f.info
           verify == f.verify /\ ~f.info
           all    == {"workspace_read", "workspace_write", "command", "process", "web"}
           caps   == (IF (f.analyze /\ f.workspace) \/ f.deictic \/ change \/ oper \/ verify
                      THEN {"workspace_read"} ELSE {})
                     \cup (IF change THEN {"workspace_write", "command"} ELSE {})
                     \cup (IF oper \/ verify THEN {"command"} ELSE {})
                     \cup (IF f.process THEN {"process"} ELSE {})
                     \cup (IF f.web THEN {"web"} ELSE {})
           policy == IF change THEN "after_mutation" ELSE IF verify THEN "requested" ELSE "none"
<1>1. Contract(f) = [caps |-> caps, plan |-> caps # {}, policy |-> policy]
  BY Zenon DEF Contract
<1>2. caps \in SUBSET all
  OBVIOUS
<1>3. policy \in {"none", "requested", "after_mutation"}
  OBVIOUS
<1> HIDE DEF caps, policy
<1>4. [caps |-> caps, plan |-> caps # {}, policy |-> policy] \in TaskContract
  <2>1. (caps # {}) \in BOOLEAN
    OBVIOUS
  <2>2. QED
    BY <1>2, <1>3, <2>1, Zenon DEF TaskContract
<1>5. QED
  BY <1>1, <1>4, LoopAssumption

LEMMA ToStopped ==
  ASSUME Types, NEW s \in SessionRec, Chat(s.history), Believed(s, world'), world' \in WorldRec,
         Placed(world'), NEW b \in BOOLEAN, Stop(s, b)
  PROVE  IInv'
<1>1. session' = [s EXCEPT !.guardrail = b]
  BY DEF Stop
<1>2. /\ session' \in SessionRec /\ session'.history = s.history
      /\ session'.evidence = s.evidence /\ session'.rev = s.rev
      /\ session'.unverified = s.unverified /\ session'.procs = s.procs
  BY <1>1 DEF SessionRec
<1>3. turn' = [NoTurn EXCEPT !.pc = "done", !.outcome = "stopped", !.repl = turn.repl]
      /\ turn.repl \in BOOLEAN
  BY TypeFacts DEF Stop
<1>4. turn' \in TurnRec /\ turn'.pc = "done" /\ turn'.outcome = "stopped" /\ turn'.calls = <<>>
  BY <1>3, NoTurnType DEF TurnRec
<1>5. Types'
  BY <1>2, <1>4 DEF Types, Active
<1>6. Believed(session, world)'
  BY <1>2 DEF Believed
<1>7. Chat(session.history)'
  BY <1>2
<1>8. (DeliveredOnEvidence /\ DeliveredQuiet)'
  BY <1>4 DEF DeliveredOnEvidence, DeliveredQuiet, Delivered
<1>9. QED
  BY <1>4, <1>5, <1>6, <1>7, <1>8 DEF IInv, Active

LEMMA ToTop ==
  ASSUME NEW s \in SessionRec, s.contract # NULL, Chat(s.history), HasUser(s.history),
         Believed(s, world'), Fresh(s, world'), world' \in WorldRec,
         Placed(world'),
         NEW t \in TurnRec, t.step < MaxSteps, NextStep(s, t)
  PROVE  IInv'
<1>1. session' = s
  BY DEF NextStep
<1>2. turn' = [t EXCEPT !.pc = "top", !.step = t.step + 1, !.calls = <<>>]
  BY DEF NextStep
<1>3. t.step + 1 \in 0 .. MaxSteps
  BY LoopAssumption DEF TurnRec
<1>4. turn' \in TurnRec /\ turn'.pc = "top" /\ turn'.calls = <<>>
  <2>1. PICK k : k = t.step + 1
    OBVIOUS
  <2>2. turn' = [t EXCEPT !.pc = "top", !.step = k, !.calls = <<>>] /\ k \in 0 .. MaxSteps
    BY <1>2, <1>3, <2>1
  <2>3. <<>> \in Seq(Call)
    OBVIOUS
  <2>4. QED
    BY <2>2, <2>3 DEF TurnRec
<1>5. Types'
  BY <1>1, <1>4 DEF Types, Active
<1>6. (DeliveredOnEvidence /\ DeliveredQuiet)'
  BY <1>4 DEF DeliveredOnEvidence, DeliveredQuiet, Delivered
<1>7. QED
  BY <1>1, <1>4, <1>5, <1>6 DEF IInv, Active

LEMMA StartTurnStep ==
  ASSUME Types, NEW s \in SessionRec, Chat(s.history), Believed(s, world),
         NEW f \in Inputs \cup {Plain}, NEW continuing \in BOOLEAN, NEW repl \in BOOLEAN,
         continuing => s.contract # NULL, StartTurn(s, f, continuing, repl)
  PROVE  IInv'
<1> DEFINE m == Msg("user", 0, FALSE)
           h == Append(s.history, m)
           contract == IF continuing THEN s.contract ELSE Contract(f)
           plan     == s.plan /\ continuing
           evidence == IF continuing THEN s.evidence ELSE NULL
           input    == IF continuing THEN s.input ELSE f
<1>1. session' = [s EXCEPT !.history = h, !.cache = {}, !.contract = contract, !.plan = plan,
                           !.evidence = evidence, !.input = input, !.guardrail = FALSE]
  BY DEF StartTurn
<1>2. m \in Message /\ m.role = "user"
  BY DEF Msg, Message
<1>3. /\ s.history \in Seq(Message) /\ s.contract \in TaskContract \cup {NULL}
      /\ s.plan \in BOOLEAN /\ s.evidence \in Nat \cup {NULL} /\ s.input \in Inputs \cup {Plain, NULL}
  BY DEF SessionRec
<1> HIDE DEF m
<1>4. h \in Seq(Message) /\ Chat(h) /\ HasUser(h)
  <2>1. Chat(h)
    BY <1>2, Spoken
  <2>2. h \in Seq(Message) /\ Len(s.history) + 1 \in DOMAIN h /\ h[Len(s.history) + 1] = m
    BY <1>2, <1>3, Appended
  <2>3. QED
    BY <1>2, <2>1, <2>2 DEF HasUser
<1>5. contract \in TaskContract \cup {NULL} /\ contract # NULL
  BY <1>3, ContractType
<1>6. plan \in BOOLEAN
  BY <1>3
<1>7. evidence \in Nat \cup {NULL} /\ input \in Inputs \cup {Plain, NULL}
  BY <1>3
<1> HIDE DEF h, contract, plan, evidence, input
<1>8. /\ session' \in SessionRec /\ session'.history = h /\ session'.contract = contract
      /\ session'.evidence = evidence /\ session'.cache = {} /\ session'.rev = s.rev
      /\ session'.unverified = s.unverified /\ session'.procs = s.procs
  BY <1>1, <1>4, <1>5, <1>6, <1>7 DEF SessionRec
<1> DEFINE check == IF continuing THEN world.check ELSE "none"
<1>9. world' = [world EXCEPT !.opened = world.disk, !.check = check]
  BY DEF StartTurn
<1>10. check \in {"none", "passed", "failed"} /\ world \in WorldRec
       /\ Placed(world)
  BY DEF Types, WorldRec
<1>11. /\ world' \in WorldRec /\ world'.check = check /\ world'.told = world.told
       /\ world'.checked = world.checked /\ world'.alive = world.alive /\ world'.lost = world.lost
       /\ Placed(world')
  <2>1. PICK k, d : k = check /\ d = world.disk
    OBVIOUS
  <2>2. world' = [world EXCEPT !.opened = d, !.check = k]
    BY <1>9, <2>1
  <2>3. d \in Nat /\ k \in {"none", "passed", "failed"} /\ world \in WorldRec
    BY <1>10, <2>1 DEF WorldRec
  <2>4. /\ world' \in WorldRec /\ world'.check = k /\ world'.told = world.told
        /\ world'.checked = world.checked /\ world'.alive = world.alive
        /\ world'.lost = world.lost /\ world'.managed = world.managed
        /\ world'.disk = world.disk /\ world'.opened = d
    BY <2>2, <2>3 DEF WorldRec
  <2>5. Placed(world')
    BY <1>10, <2>1, <2>3, <2>4 DEF Placed
  <2>6. QED
    BY <2>1, <2>4, <2>5
<1>12. turn' = [NoTurn EXCEPT !.pc = "top", !.planned = continuing /\ s.plan, !.repl = repl]
  BY DEF StartTurn
<1>13. turn' \in TurnRec /\ turn'.pc = "top" /\ turn'.calls = <<>>
  <2>1. PICK q : q = (continuing /\ s.plan) /\ q \in BOOLEAN
    BY <1>3
  <2>2. turn' = [NoTurn EXCEPT !.pc = "top", !.planned = q, !.repl = repl]
    BY <1>12, <2>1
  <2>3. NoTurn \in TurnRec /\ NoTurn.calls = <<>>
    BY NoTurnType
  <2>4. PICK n : n = NoTurn
    OBVIOUS
  <2>5. n \in TurnRec /\ n.calls = <<>> /\ q \in BOOLEAN
        /\ turn' = [n EXCEPT !.pc = "top", !.planned = q, !.repl = repl]
    BY <2>1, <2>2, <2>3, <2>4
  <2>6. QED
    BY <2>5, ZenonT(60) DEF TurnRec
<1>14. Types'
  BY <1>5, <1>8, <1>10, <1>11, <1>13 DEF Types, Active
<1>15. Believed(session, world)'
  BY <1>8, <1>11 DEF Believed, evidence
<1>16. Fresh(session, world)'
  BY <1>8 DEF Fresh
<1>17. (DeliveredOnEvidence /\ DeliveredQuiet)'
  BY <1>13 DEF DeliveredOnEvidence, DeliveredQuiet, Delivered
<1>18. QED
  BY <1>4, <1>8, <1>13, <1>14, <1>15, <1>16, <1>17 DEF IInv, Active
-----------------------------------------------------------------------------
(* The commands between turns *)
LEMMA IdleFacts ==
  ASSUME IInv, turn.pc = "idle"
  PROVE  /\ Types /\ session \in SessionRec /\ Chat(session.history) /\ Believed(session, world)
         /\ session.history \in Seq(Message) /\ world \in WorldRec
BY TypeFacts DEF IInv

LEMMA SystemSaid ==
  ASSUME NEW s \in SessionRec, Chat(s.history), NEW w, Believed(s, w), NEW t,
         t = [s EXCEPT !.history = Append(s.history, Msg("system", 0, FALSE))]
  PROVE  /\ t \in SessionRec /\ Chat(t.history) /\ Believed(t, w) /\ t.contract = s.contract
         /\ t.cache = s.cache /\ (HasUser(s.history) => HasUser(t.history))
<1>1. Msg("system", 0, FALSE) \in Message /\ Msg("system", 0, FALSE).role = "system"
  BY DEF Msg, Message
<1>2. PICK m, h : m = Msg("system", 0, FALSE) /\ h = Append(s.history, m)
  OBVIOUS
<1>3. Chat(h)
  BY <1>1, <1>2, Spoken
<1>4. h \in Seq(Message) /\ s.history \in Seq(Message)
  BY <1>3, ChatFacts
<1>5. /\ t \in SessionRec /\ t.history = h /\ t.contract = s.contract /\ t.cache = s.cache
      /\ t.evidence = s.evidence /\ t.rev = s.rev /\ t.unverified = s.unverified
      /\ t.procs = s.procs
  BY <1>2, <1>4 DEF SessionRec
<1>6. Len(s.history) <= Len(h) /\ \A i \in 1 .. Len(s.history) : h[i] = s.history[i]
  <2>1. PICK g : g = s.history
    OBVIOUS
  <2>2. m \in Message /\ g \in Seq(Message) /\ h = Append(g, m)
    BY <1>1, <1>2, <1>4, <2>1
  <2>3. Len(h) = Len(g) + 1 /\ Len(g) \in Nat /\ \A i \in 1 .. Len(g) : h[i] = g[i]
    BY <2>2, Appended
  <2>4. QED
    BY <2>1, <2>3
<1>7. HasUser(s.history) => HasUser(h)
  BY <1>4, <1>6, UserKept
<1>8. QED
  BY <1>3, <1>5, <1>7 DEF Believed

LEMMA TurnCommandStep ==
  ASSUME IInv, (\E f \in Inputs : UserTurn(f) \/ Edit(f)) \/ Retry \/ Continue
  PROVE  IInv'
<1>1. turn.pc = "idle"
  BY DEF UserTurn, Edit, Retry, Continue, Command
<1>2. /\ Types /\ session \in SessionRec /\ Chat(session.history) /\ Believed(session, world)
  BY <1>1, IdleFacts
<1>3. CASE \E f \in Inputs : UserTurn(f) \/ Edit(f)
  <2>1. PICK f \in Inputs, repl \in BOOLEAN : StartTurn(session, f, FALSE, repl)
    BY <1>3 DEF UserTurn, Edit
  <2>2. QED
    BY <1>2, <2>1, StartTurnStep
<1>4. CASE Retry
  <2>1. session.input \in Inputs \cup {Plain} /\ StartTurn(session, session.input, FALSE, FALSE)
    BY <1>2, <1>4 DEF Retry, SessionRec
  <2>2. QED
    BY <1>2, <2>1, StartTurnStep
<1>5. CASE Continue
  <2> DEFINE hinted == IF session.guardrail
                       THEN [session EXCEPT !.history = Append(@, Msg("system", 0, FALSE))]
                       ELSE session
  <2>1. StartTurn(hinted, Plain, session.contract # NULL, FALSE)
    BY <1>5 DEF Continue
  <2>2. /\ hinted \in SessionRec /\ Chat(hinted.history) /\ Believed(hinted, world)
        /\ hinted.contract = session.contract
    <3>1. CASE session.guardrail
      BY <1>2, <3>1, SystemSaid
    <3>2. CASE ~session.guardrail
      BY <1>2, <3>2
    <3>3. QED
      BY <3>1, <3>2
  <2> HIDE DEF hinted
  <2>3. PICK c \in BOOLEAN : c = (session.contract # NULL)
    OBVIOUS
  <2>4. StartTurn(hinted, Plain, c, FALSE) /\ (c => hinted.contract # NULL)
    BY <2>1, <2>2, <2>3
  <2>5. QED
    BY <1>2, <2>2, <2>4, StartTurnStep
<1>6. QED
  BY <1>3, <1>4, <1>5

LEMMA StayIdle ==
  ASSUME IInv, turn.pc = "idle", turn' = turn, session' \in SessionRec, Chat(session'.history),
         Believed(session', world'), world' \in WorldRec, Placed(world')
  PROVE  IInv'
<1>1. Types'
  BY DEF IInv, Types, Active
<1>2. (DeliveredOnEvidence /\ DeliveredQuiet)'
  BY DEF DeliveredOnEvidence, DeliveredQuiet, Delivered
<1>3. QED
  BY <1>1, <1>2 DEF IInv, Active

LEMMA OtherCommandStep ==
  ASSUME IInv, (\E m \in Modes : SwitchMode(m)) \/ Compact \/ (\E all \in BOOLEAN : Clear(all))
  PROVE  IInv'
<1>1. turn.pc = "idle" /\ turn' = turn
  BY DEF SwitchMode, Compact, Clear, Command
<1>2. /\ Types /\ session \in SessionRec /\ Chat(session.history) /\ Believed(session, world)
      /\ world \in WorldRec /\ Placed(world)
  BY <1>1, IdleFacts DEF Types
<1>3. CASE \E m \in Modes : SwitchMode(m)
  <2>1. PICK m \in Mode : SwitchMode(m)
    BY <1>3, LoopAssumption
  <2>2. PICK s : s = [session EXCEPT !.history = Append(session.history, Msg("system", 0, FALSE))]
    OBVIOUS
  <2>3. s \in SessionRec /\ Chat(s.history) /\ Believed(s, world)
    BY <1>2, <2>2, SystemSaid
  <2>4. session' = [s EXCEPT !.mode = m, !.always = {}] /\ world' = world
    BY <1>2, <2>1, <2>2 DEF SwitchMode, SessionRec
  <2>5. /\ session' \in SessionRec /\ session'.history = s.history
        /\ session'.evidence = s.evidence /\ session'.rev = s.rev
        /\ session'.unverified = s.unverified /\ session'.procs = s.procs
    BY <2>3, <2>4 DEF SessionRec
  <2>6. Believed(session', world') /\ Chat(session'.history)
    BY <2>3, <2>4, <2>5 DEF Believed
  <2>7. QED
    BY <1>1, <1>2, <2>4, <2>5, <2>6, StayIdle
<1>4. CASE Compact
  <2>1. PICK h : h = CompactHistory(session.history)
    OBVIOUS
  <2>2. session' = [session EXCEPT !.history = h] /\ world' = world
    BY <1>4, <2>1 DEF Compact
  <2>3. Chat(h) /\ h \in Seq(Message)
    BY <1>2, <2>1, CompactHistoryChat, ChatFacts
  <2>4. /\ session' \in SessionRec /\ session'.history = h
        /\ session'.evidence = session.evidence /\ session'.rev = session.rev
        /\ session'.unverified = session.unverified /\ session'.procs = session.procs
    BY <1>2, <2>2, <2>3 DEF SessionRec
  <2>5. Believed(session', world') /\ Chat(session'.history)
    BY <1>2, <2>2, <2>3, <2>4 DEF Believed
  <2>6. QED
    BY <1>1, <1>2, <2>2, <2>4, <2>5, StayIdle
<1>5. CASE \E all \in BOOLEAN : Clear(all)
  <2>1. PICK all \in BOOLEAN : Clear(all)
    BY <1>5
  <2>2. PICK m, h, A : /\ m = Head(session.history) /\ h = <<m>>
                       /\ A = IF all THEN {} ELSE session.always
    OBVIOUS
  <2>3. session.history \in Seq(Message) /\ session.history # <<>> /\ m = session.history[1]
    BY <1>2, <2>2 DEF Chat
  <2>4. m \in Message /\ m.role = "system"
    BY <1>2, <2>3 DEF Chat
  <2>5. h \in Seq(Message) /\ Len(h) = 1 /\ h[1] = m /\ DOMAIN h = {1}
    BY <2>2, <2>4, SMTT(30)
  <2>6. Chat(h)
    BY <2>4, <2>5, SMTT(30) DEF Chat, WellFormed
  <2>7. session' = [session EXCEPT !.history = h, !.contract = NULL, !.plan = FALSE,
                                   !.evidence = NULL, !.unverified = NULL, !.cache = {},
                                   !.always = A]
    BY <2>1, <2>2 DEF Clear, ClearHistory
  <2>8. A \in SUBSET Tool
    BY <1>2, <2>2 DEF SessionRec
  <2>9. /\ session' \in SessionRec /\ session'.history = h /\ session'.evidence = NULL
        /\ session'.procs = session.procs
    BY <1>2, <2>5, <2>7, <2>8 DEF SessionRec
  <2>10. world' = [world EXCEPT !.checked = world.disk]
    BY <2>1 DEF Clear
  <2>11. /\ world' \in WorldRec /\ world'.checked = world.disk /\ world'.told = world.told
         /\ world'.alive = world.alive /\ world'.lost = world.lost /\ Placed(world')
    BY <1>2, <2>10 DEF WorldRec, Placed
  <2>12. Believed(session', world')
    BY <1>2, <2>9, <2>11 DEF Believed, Placed
  <2>13. QED
    BY <1>1, <1>2, <2>6, <2>9, <2>11, <2>12, StayIdle
<1>6. QED
  BY <1>3, <1>4, <1>5
-----------------------------------------------------------------------------
(* The steps of a turn *)
LEMMA Rewritten ==
  ASSUME NEW s \in SessionRec, NEW w, Believed(s, w), NEW h \in Seq(Message), NEW t,
         t = [s EXCEPT !.history = h]
  PROVE  /\ t \in SessionRec /\ t.history = h /\ Believed(t, w) /\ t.contract = s.contract
         /\ t.cache = s.cache /\ t.plan = s.plan
<1>1. /\ t \in SessionRec /\ t.history = h /\ t.contract = s.contract /\ t.cache = s.cache
      /\ t.evidence = s.evidence /\ t.rev = s.rev /\ t.unverified = s.unverified
      /\ t.procs = s.procs /\ t.plan = s.plan
  BY DEF SessionRec
<1>2. QED
  BY <1>1 DEF Believed

(* An answer without calls *)
LEMMA Answered ==
  ASSUME IInv, turn.pc = "llm", NEW s, s = Said(0, TRUE)
  PROVE  /\ s \in SessionRec /\ Chat(s.history) /\ HasUser(s.history) /\ Believed(s, world)
         /\ Fresh(s, world) /\ s.contract = session.contract /\ s.plan = session.plan
         /\ s.procs = session.procs
<1>1. /\ session \in SessionRec /\ Chat(session.history) /\ HasUser(session.history)
      /\ Believed(session, world) /\ Fresh(session, world) /\ session.history \in Seq(Message)
  BY TypeFacts DEF IInv, Active
<1>2. PICK g, m, h : g = session.history /\ m = Msg("assistant", 0, TRUE) /\ h = Append(g, m)
  OBVIOUS
<1>3. m \in Message /\ m.role = "assistant" /\ m.calls = 0
  BY <1>2 DEF Msg, Message
<1>4. Owing(h, m.calls)
  BY <1>1, <1>2, <1>3, Requested
<1>5. Chat(h)
  BY <1>3, <1>4, Settled
<1>6. h \in Seq(Message)
  BY <1>5, ChatFacts
<1>7. s = [session EXCEPT !.history = h]
  BY <1>2 DEF Said
<1>8. /\ s \in SessionRec /\ s.history = h /\ Believed(s, world) /\ s.contract = session.contract
      /\ s.cache = session.cache /\ s.plan = session.plan
  <2>1. PICK t : t = [session EXCEPT !.history = h]
    OBVIOUS
  <2>2. session \in SessionRec /\ Believed(session, world)
    BY <1>1
  <2>3. /\ t \in SessionRec /\ t.history = h /\ Believed(t, world) /\ t.contract = session.contract
        /\ t.cache = session.cache /\ t.plan = session.plan
    BY <1>6, <2>1, <2>2, Rewritten
  <2>4. QED
    BY <1>7, <2>1, <2>3
<1>9. s.procs = session.procs
  BY <1>1, <1>7 DEF SessionRec
<1>10. HasUser(h)
  <2>1. g \in Seq(Message) /\ HasUser(g)
    BY <1>1, <1>2
  <2>2. m \in Message /\ h = Append(g, m)
    BY <1>2, <1>3
  <2>3. Len(h) = Len(g) + 1 /\ Len(g) \in Nat /\ \A i \in 1 .. Len(g) : h[i] = g[i]
    BY <2>1, <2>2, Appended
  <2>4. QED
    BY <1>6, <2>1, <2>3, UserKept
<1>11. QED
  BY <1>1, <1>5, <1>8, <1>9, <1>10 DEF Fresh

LEMMA TurnFacts ==
  ASSUME IInv, Active
  PROVE  /\ Types /\ session \in SessionRec /\ turn \in TurnRec /\ world \in WorldRec
         /\ session.contract # NULL /\ HasUser(session.history) /\ Believed(session, world)
         /\ Fresh(session, world) /\ Placed(world)
         /\ session.history \in Seq(Message)
BY TypeFacts DEF IInv, Types

LEMMA ExceedStepsStep ==
  ASSUME IInv, ExceedSteps \/ ModelFails
  PROVE  IInv'
<1>1. world' = world /\ turn.pc \in {"top", "llm"} /\ Chat(session.history)
      /\ \E b \in BOOLEAN : Stop(session, b)
  BY DEF ExceedSteps, ModelFails, IInv
<1>2. QED
  BY <1>1, TurnFacts, ToStopped DEF Active

LEMMA AskModelStep ==
  ASSUME IInv, AskModel
  PROVE  IInv'
<1>1. turn.pc = "top" /\ turn.step < MaxSteps /\ world' = world /\ Chat(session.history)
  BY DEF AskModel, IInv
<1>2. /\ Types /\ session \in SessionRec /\ turn \in TurnRec /\ world \in WorldRec
      /\ session.contract # NULL /\ HasUser(session.history) /\ Believed(session, world)
      /\ Fresh(session, world) /\ Placed(world)
  BY <1>1, TurnFacts DEF Active
<1>3. PICK h, s : h = Prepared(session.history) /\ s = [session EXCEPT !.history = h]
  OBVIOUS
<1>4. Chat(h) /\ HasUser(h) /\ h \in Seq(Message)
  BY <1>1, <1>2, <1>3, PreparedChat, ChatFacts
<1>5. /\ s \in SessionRec /\ s.history = h /\ Believed(s, world) /\ s.contract = session.contract
      /\ s.cache = session.cache
  BY <1>2, <1>3, <1>4, Rewritten
<1>6. \/ \E b \in BOOLEAN : Stop(s, b)
      \/ session' = s /\ turn' = [turn EXCEPT !.pc = "llm"]
  BY <1>3 DEF AskModel
<1>7. CASE \E b \in BOOLEAN : Stop(s, b)
  BY <1>1, <1>2, <1>4, <1>5, <1>7, ToStopped
<1>8. CASE session' = s /\ turn' = [turn EXCEPT !.pc = "llm"]
  <2>1. turn' \in TurnRec /\ turn'.pc = "llm" /\ turn'.step = turn.step /\ turn'.calls = turn.calls
    BY <1>2, <1>8 DEF TurnRec
  <2>2. Types'
    BY <1>1, <1>2, <1>5, <1>8, <2>1 DEF Types, Active
  <2>3. (DeliveredOnEvidence /\ DeliveredQuiet)'
    BY <2>1 DEF DeliveredOnEvidence, DeliveredQuiet, Delivered
  <2>4. (Believed(session, world) /\ Fresh(session, world))'
    BY <1>1, <1>2, <1>5, <1>8 DEF Fresh
  <2>5. (Chat(session.history) /\ HasUser(session.history))'
    BY <1>4, <1>5, <1>8
  <2>6. QED
    BY <2>1, <2>2, <2>3, <2>4, <2>5 DEF IInv
<1>9. QED
  BY <1>6, <1>7, <1>8

LEMMA ModelTimesOutStep ==
  ASSUME IInv, ModelTimesOut
  PROVE  IInv'
<1>1. turn.pc = "llm" /\ turn.step < MaxSteps /\ world' = world /\ Chat(session.history)
  BY DEF ModelTimesOut, IInv, Types
<1>2. /\ Types /\ session \in SessionRec /\ turn \in TurnRec /\ world \in WorldRec
      /\ session.contract # NULL /\ HasUser(session.history) /\ Believed(session, world)
      /\ Fresh(session, world) /\ Placed(world)
  BY <1>1, TurnFacts DEF Active
<1>3. PICK h, s, t : /\ h = CompactHistory(session.history) /\ s = [session EXCEPT !.history = h]
                     /\ t = [turn EXCEPT !.retried = TRUE]
  OBVIOUS
<1>4. Chat(h) /\ HasUser(h) /\ h \in Seq(Message)
  BY <1>1, <1>2, <1>3, CompactHistoryChat, ChatFacts
<1>5. /\ s \in SessionRec /\ s.history = h /\ Believed(s, world) /\ s.contract = session.contract
      /\ s.cache = session.cache
  BY <1>2, <1>3, <1>4, Rewritten
<1>6. t \in TurnRec /\ t.step = turn.step
  BY <1>2, <1>3 DEF TurnRec
<1>7. Stop(session, TRUE) \/ NextStep(s, t)
  BY <1>3 DEF ModelTimesOut
<1>8. CASE Stop(session, TRUE)
  BY <1>1, <1>2, <1>8, ToStopped
<1>9. CASE NextStep(s, t)
  <2>1. Fresh(s, world')
    BY <1>1, <1>2, <1>5 DEF Fresh
  <2>2. QED
    BY <1>1, <1>2, <1>4, <1>5, <1>6, <1>9, <2>1, ToTop
<1>10. QED
  BY <1>7, <1>8, <1>9

LEMMA PlanStep ==
  ASSUME IInv, Plan
  PROVE  IInv'
<1>1. turn.pc = "llm" /\ turn.step < MaxSteps /\ world' = world
  BY DEF Plan, IInv, Types
<1>2. /\ Types /\ turn \in TurnRec /\ world \in WorldRec /\ session.contract # NULL
      /\ Placed(world)
  BY <1>1, TurnFacts DEF Active
<1>3. PICK a, s, t : /\ a = Said(0, TRUE) /\ s = [a EXCEPT !.plan = TRUE]
                     /\ t = [turn EXCEPT !.planned = TRUE]
  OBVIOUS
<1>4. /\ a \in SessionRec /\ Chat(a.history) /\ HasUser(a.history) /\ Believed(a, world)
      /\ Fresh(a, world) /\ a.contract = session.contract
  BY <1>1, <1>3, Answered
<1>5. /\ s \in SessionRec /\ s.history = a.history /\ s.contract = a.contract /\ s.cache = a.cache
      /\ s.evidence = a.evidence /\ s.rev = a.rev /\ s.unverified = a.unverified
      /\ s.procs = a.procs
  BY <1>3, <1>4 DEF SessionRec
<1>6. t \in TurnRec /\ t.step = turn.step
  BY <1>2, <1>3 DEF TurnRec
<1>7. Believed(s, world') /\ Fresh(s, world')
  BY <1>1, <1>4, <1>5 DEF Believed, Fresh
<1>8. NextStep(s, t)
  BY <1>3 DEF Plan
<1>9. QED
  BY <1>1, <1>2, <1>4, <1>5, <1>6, <1>7, <1>8, ToTop

LEMMA RefuseAnswerStep ==
  ASSUME IInv, RefuseAnswer
  PROVE  IInv'
<1>1. turn.pc = "llm" /\ turn.step < MaxSteps /\ world' = world
  BY DEF RefuseAnswer, IInv, Types
<1>2. /\ Types /\ turn \in TurnRec /\ world \in WorldRec /\ session.contract # NULL
      /\ Placed(world)
  BY <1>1, TurnFacts DEF Active
<1>3. PICK s : s = Said(0, TRUE)
  OBVIOUS
<1>4. /\ s \in SessionRec /\ Chat(s.history) /\ HasUser(s.history) /\ Believed(s, world)
      /\ Fresh(s, world) /\ s.contract = session.contract
  BY <1>1, <1>3, Answered
<1>5. CASE RepairsLeft
  <2>1. PICK k, t : k = turn.repairs + 1 /\ t = [turn EXCEPT !.repairs = k]
    OBVIOUS
  <2>2. NextStep(s, t)
    BY <1>3, <1>5, <2>1 DEF RefuseAnswer
  <2>3. k \in 0 .. MaxFinalRepairs
    BY <1>2, <1>5, <2>1, LoopAssumption DEF RepairsLeft, TurnRec
  <2>4. t \in TurnRec /\ t.step = turn.step
    BY <1>2, <2>1, <2>3 DEF TurnRec
  <2>5. QED
    BY <1>1, <1>2, <1>4, <2>2, <2>4, ToTop
<1>6. CASE ~RepairsLeft
  <2>1. Stop(s, TRUE)
    BY <1>3, <1>6 DEF RefuseAnswer
  <2>2. QED
    BY <1>1, <1>2, <1>4, <2>1, ToStopped
<1>7. QED
  BY <1>5, <1>6

(* What was required is there when an answer is delivered. *)
LEMMA DeliverStep ==
  ASSUME IInv, Deliver
  PROVE  IInv'
<1>1. turn.pc = "llm" /\ world' = world /\ ~Refused
  BY DEF Deliver
<1>2. /\ Types /\ session \in SessionRec /\ turn \in TurnRec /\ world \in WorldRec
      /\ session.contract # NULL /\ Placed(world) /\ Believed(session, world)
  BY <1>1, TurnFacts DEF Active
<1>3. PICK a, h : a = Said(0, TRUE) /\ h = TrimHistory(a.history)
  OBVIOUS
<1>4. /\ a \in SessionRec /\ Chat(a.history) /\ Believed(a, world)
      /\ a.contract = session.contract
  BY <1>1, <1>3, Answered
<1>5. Chat(h) /\ h \in Seq(Message)
  BY <1>3, <1>4, TrimHistoryChat, ChatFacts
<1>6. session' = [a EXCEPT !.history = h]
  BY <1>3 DEF Deliver
<1>7. /\ session' \in SessionRec /\ session'.history = h /\ Believed(session', world)
      /\ session'.contract = session.contract
  BY <1>4, <1>5, <1>6, Rewritten
<1>8. turn' = [NoTurn EXCEPT !.pc = "done", !.outcome = "delivered", !.repl = turn.repl]
      /\ turn.repl \in BOOLEAN
  BY <1>2 DEF Deliver, TurnRec
<1>9. turn' \in TurnRec /\ turn'.pc = "done" /\ turn'.calls = <<>>
  BY <1>8, NoTurnType DEF TurnRec
<1>10. Types'
  BY <1>1, <1>2, <1>7, <1>9 DEF Types, Active
<1>11. DeliveredQuiet'
  BY <1>1, <1>2 DEF DeliveredQuiet, Refused, Believed
<1>12. DeliveredOnEvidence'
  <2>1. ASSUME session.contract.policy # "none" PROVE world.told <= world.checked
    <3>1. session.contract.policy \in {"requested", "after_mutation"}
      BY <1>2, <2>1 DEF SessionRec, TaskContract
    <3>2. session.unverified = NULL
      BY <1>1, <1>2, <3>1 DEF Refused, VerificationRequired, VerificationCurrent, Believed
    <3>3. QED
      BY <1>2, <3>2 DEF Believed
  <2>2. ASSUME session.contract.policy = "requested" PROVE world.check = "passed"
    BY <1>1, <1>2, <2>2 DEF Refused, VerificationRequired, VerificationCurrent, Believed
  <2>3. QED
    BY <1>1, <1>7, <2>1, <2>2 DEF DeliveredOnEvidence
<1>13. QED
  BY <1>1, <1>5, <1>7, <1>9, <1>10, <1>11, <1>12 DEF IInv, Active

LEMMA EndTurnStep ==
  ASSUME IInv, EndTurn
  PROVE  IInv'
<1>1. turn.pc = "done" /\ turn' = NoTurn /\ Chat(session.history)
  BY DEF EndTurn, IInv
<1>2. turn' \in TurnRec /\ turn'.pc = "idle" /\ turn'.calls = <<>>
  BY <1>1, NoTurnType DEF NoTurn
<1>3. /\ session \in SessionRec /\ world \in WorldRec /\ Believed(session, world)
      /\ Placed(world)
  BY TypeFacts DEF IInv, Types
<1>4. /\ session' \in SessionRec /\ world' \in WorldRec /\ Believed(session', world')
      /\ Placed(world') /\ session'.history = session.history
  <2>1. CASE turn.repl
    <3>1. session' = [session EXCEPT !.procs = {}]
          /\ world' = [world EXCEPT !.alive = @ \cap {Orphan}, !.lost = @ \cap {Orphan},
                                    !.managed = {}]
      BY <2>1 DEF EndTurn, CloseManager
    <3>2. /\ session' \in SessionRec /\ session'.history = session.history
          /\ session'.evidence = session.evidence /\ session'.rev = session.rev
          /\ session'.unverified = session.unverified
      BY <1>3, <3>1 DEF SessionRec
    <3>3. /\ world' \in WorldRec /\ world'.alive = world.alive \cap {Orphan}
          /\ world'.lost = world.lost \cap {Orphan} /\ world'.managed = {}
          /\ world'.check = world.check /\ world'.told = world.told
          /\ world'.checked = world.checked /\ world'.opened = world.opened
          /\ world'.disk = world.disk
      BY <1>3, <3>1 DEF WorldRec
    <3>4. Placed(world')
      BY <1>3, <3>3 DEF Placed
    <3>5. world'.alive \ world'.lost = {}
      <4>1. world.alive \ world.lost \subseteq Proc
        BY <1>3 DEF Believed, SessionRec
      <4>2. Orphan \notin Proc
        BY DEF Orphan, Proc
      <4>3. QED
        BY <3>3, <4>1, <4>2
    <3>6. Believed(session', world')
      BY <1>3, <3>2, <3>3, <3>5 DEF Believed
    <3>7. QED
      BY <3>2, <3>3, <3>4, <3>6
  <2>2. CASE ~turn.repl
    BY <1>3, <2>2 DEF EndTurn
  <2>3. QED
    BY <2>1, <2>2
<1>5. Types'
  BY <1>2, <1>4 DEF Types, Active
<1>6. (DeliveredOnEvidence /\ DeliveredQuiet)'
  BY <1>2 DEF DeliveredOnEvidence, DeliveredQuiet, Delivered
<1>7. QED
  BY <1>1, <1>2, <1>4, <1>5, <1>6 DEF IInv, Active

(* What _plan_tool_calls selects: a change alone, or reads only. *)
LEMMA SelectedFacts ==
  ASSUME NEW calls \in Seq(Call), calls # <<>>
  PROVE  /\ Selected(calls) \in Seq(Call) /\ Len(Selected(calls)) \in Nat
         /\ Len(Selected(calls)) <= Len(calls) /\ RunsAlone(Selected(calls))
<1>1. calls[1] \in Call /\ Len(calls) \in Nat /\ Len(calls) >= 1
  OBVIOUS
<1>2. CASE Tier(calls[1].tool) # "read_only"
  <2>1. PICK c, s : c = calls[1] /\ s = <<c>>
    OBVIOUS
  <2>2. Selected(calls) = s
    BY <1>2, <2>1 DEF Selected
  <2>3. s \in Seq(Call) /\ Len(s) = 1
    BY <1>1, <2>1
  <2>4. QED
    BY <1>1, <2>2, <2>3 DEF RunsAlone
<1>3. CASE Tier(calls[1].tool) = "read_only"
  <2>1. PICK K : K = {i \in DOMAIN calls : ReadOnly(calls[i])}
    OBVIOUS
  <2>2. PICK reads : reads = Pick(calls, K)
    OBVIOUS
  <2>3. PICK n : n = IF Len(reads) < MaxParallel THEN Len(reads) ELSE MaxParallel
    OBVIOUS
  <2>4. PICK s : s = SubSeq(reads, 1, n)
    OBVIOUS
  <2>5. Selected(calls) = s
    BY <1>3, <2>1, <2>2, <2>3, <2>4 DEF Selected
  <2>6. K \in SUBSET (DOMAIN calls) /\ \A i \in K : ReadOnly(calls[i])
    BY <2>1
  <2>7. /\ reads \in Seq(Call) /\ Len(reads) = Cardinality(K) /\ Cardinality(K) \in Nat
        /\ Cardinality(K) <= Len(calls)
        /\ \A k \in 1 .. Cardinality(K) : Place(K, k) \in K /\ reads[k] = calls[Place(K, k)]
    BY <2>2, <2>6, PickType
  <2>8. \A k \in 1 .. Len(reads) : ReadOnly(reads[k])
    BY <2>6, <2>7
  <2>9. n \in Nat /\ n <= Len(reads)
    BY <2>3, <2>7, LoopAssumption
  <2>10. s \in Seq(Call) /\ Len(s) = n /\ DOMAIN s = 1 .. n /\ \A k \in 1 .. n : s[k] = reads[k]
    BY <2>4, <2>7, <2>9
  <2>11. \A k \in DOMAIN s : ReadOnly(s[k])
    BY <2>7, <2>8, <2>9, <2>10
  <2>12. \A k \in DOMAIN s : ~Mutates(s[k].tool)
    BY <2>11 DEF ReadOnly, Tier, Mutates
  <2>13. QED
    BY <1>1, <2>5, <2>7, <2>9, <2>10, <2>12 DEF RunsAlone
<1>4. QED
  BY <1>2, <1>3

LEMMA PlanningType ==
  ASSUME session \in SessionRec, session.contract # NULL, turn \in TurnRec
  PROVE  Planning \in BOOLEAN
<1>1. session.contract \in TaskContract /\ turn.planned \in BOOLEAN
  BY DEF SessionRec, TurnRec
<1>2. session.contract.plan \in BOOLEAN
  BY <1>1 DEF TaskContract
<1>3. QED
  BY <1>1, <1>2, Zenon DEF Planning

LEMMA SelectCallsStep ==
  ASSUME IInv, NEW calls \in Answers, SelectCalls(calls)
  PROVE  IInv'
<1>1. turn.pc = "llm" /\ turn.step < MaxSteps /\ world' = world /\ calls # <<>>
      /\ Chat(session.history)
  BY DEF SelectCalls, IInv, Types
<1>2. /\ Types /\ session \in SessionRec /\ turn \in TurnRec /\ world \in WorldRec
      /\ session.contract # NULL /\ HasUser(session.history) /\ Believed(session, world)
      /\ Fresh(session, world) /\ Placed(world)
      /\ session.history \in Seq(Message)
  BY <1>1, TurnFacts DEF Active
<1>3. calls \in Seq(Call) /\ Len(calls) <= 3 /\ Len(calls) \in Nat
  BY LoopAssumption
<1>4. PICK b : b = Planning /\ b \in BOOLEAN
  BY <1>2, PlanningType
<1>5. PICK chosen : chosen = Selected(calls)
  OBVIOUS
<1>6. /\ chosen \in Seq(Call) /\ Len(chosen) \in Nat /\ Len(chosen) <= Len(calls)
      /\ RunsAlone(chosen)
  BY <1>1, <1>3, <1>5, SelectedFacts
<1>7. PICK n, k, r : n = Len(calls) /\ k = Len(chosen) /\ r = n - k
  OBVIOUS
<1>8. k \in Nat /\ r \in Nat /\ n = k + r /\ n \in 0 .. 3 /\ k <= 3
  BY <1>3, <1>6, <1>7
<1>9. PICK g, m, a, h : /\ g = session.history /\ m = Msg("assistant", n, b) /\ a = Append(g, m)
                        /\ h = a \o Rejections(r)
  OBVIOUS
<1>10. m \in Message /\ m.role = "assistant" /\ m.calls = n
  BY <1>4, <1>8, <1>9 DEF Msg, Message
<1>11. Owing(a, n)
  BY <1>1, <1>9, <1>10, Requested
<1>12. HasUser(a)
  <2>1. g \in Seq(Message) /\ HasUser(g)
    BY <1>2, <1>9
  <2>2. m \in Message /\ a = Append(g, m)
    BY <1>9, <1>10
  <2>3. Len(a) = Len(g) + 1 /\ Len(g) \in Nat /\ a \in Seq(Message) /\ \A i \in 1 .. Len(g) : a[i] = g[i]
    BY <2>1, <2>2, Appended
  <2>4. QED
    BY <2>1, <2>3, UserKept
<1>13. Owing(h, k) /\ HasUser(h)
  <2>1. Owing(a, k + r)
    BY <1>8, <1>11
  <2>2. QED
    BY <1>8, <1>9, <1>12, <2>1, Rejected
<1>14. h \in Seq(Message)
  BY <1>13 DEF Owing
<1>15. PICK q : q = (session.plan \/ b) /\ q \in BOOLEAN
  OBVIOUS
<1>16. session' = [session EXCEPT !.history = h, !.plan = q]
  <2>1. session' = [Said(n, b) EXCEPT !.plan = @ \/ b, !.history = @ \o Rejections(r)]
    BY <1>4, <1>5, <1>7 DEF SelectCalls
  <2>2. Said(n, b) = [session EXCEPT !.history = a]
    BY <1>9 DEF Said
  <2>3. QED
    BY <1>2, <1>9, <1>15, <2>1, <2>2 DEF SessionRec
<1>17. /\ session' \in SessionRec /\ session'.history = h /\ session'.contract = session.contract
       /\ session'.cache = session.cache /\ session'.evidence = session.evidence
       /\ session'.rev = session.rev /\ session'.unverified = session.unverified
       /\ session'.procs = session.procs
  BY <1>2, <1>14, <1>15, <1>16 DEF SessionRec
<1>18. PICK z : z = (turn.planned \/ b) /\ z \in BOOLEAN
  OBVIOUS
<1>19. turn' = [turn EXCEPT !.pc = "tools", !.calls = chosen, !.planned = z]
  BY <1>4, <1>5, <1>18 DEF SelectCalls
<1>20. turn' \in TurnRec /\ turn'.pc = "tools" /\ turn'.calls = chosen /\ turn'.step = turn.step
  BY <1>2, <1>6, <1>18, <1>19 DEF TurnRec
<1>21. Types'
  BY <1>1, <1>2, <1>7, <1>8, <1>17, <1>20 DEF Types, Active
<1>22. Believed(session, world)' /\ Fresh(session, world)'
  BY <1>1, <1>2, <1>17 DEF Believed, Fresh
<1>23. (DeliveredOnEvidence /\ DeliveredQuiet)'
  BY <1>20 DEF DeliveredOnEvidence, DeliveredQuiet, Delivered
<1>24. Owing(session'.history, Len(turn'.calls)) /\ RunsAlone(turn'.calls) /\ HasUser(session'.history)
  BY <1>6, <1>7, <1>13, <1>17, <1>20
<1>25. QED
  BY <1>20, <1>21, <1>22, <1>23, <1>24 DEF IInv

LEMMA ApprovedType ==
  ASSUME turn.calls \in Seq(Call), NEW v, DOMAIN v = DOMAIN turn.calls
  PROVE  Approved(v) \subseteq Tool
<1>1. \A i \in DOMAIN v : turn.calls[i] \in Call
  OBVIOUS
<1>2. \A i \in DOMAIN v : turn.calls[i].tool \in Tool
  BY <1>1 DEF Call
<1>3. QED
  BY <1>2 DEF Approved

(* What RunTools leaves the session with, once the observations are in *)
Trimmed(x, always, v) ==
  [x.session EXCEPT !.history = TrimHistory(@),
                    !.always = IF always THEN @ \cup Approved(v) ELSE @]

LEMMA RunToolsStep ==
  ASSUME IInv, RunTools
  PROVE  IInv'
<1>1. turn.pc = "tools" /\ turn.step < MaxSteps /\ Types /\ session.contract # NULL
  BY DEF RunTools, IInv, Types, Active
<1>2. turn.calls \in Seq(Call) /\ turn \in TurnRec
  BY <1>1, TypeFacts
<1>3. PICK v \in Outcomes, p \in Proc, wrote \in BOOLEAN, stuck \in BOOLEAN, always \in BOOLEAN :
        /\ world' = Handled(v, p, wrote, stuck).world
        /\ Proceed(Trimmed(Handled(v, p, wrote, stuck), always, v), Handled(v, p, wrote, stuck).turn)
  <2>1. PICK v \in Outcomes, p \in Proc, wrote \in BOOLEAN, stuck \in BOOLEAN, always \in BOOLEAN :
          /\ Fits(v, p)
          /\ always => Approved(v) # {}
          /\ stuck => turn.print.n + Len(v) >= Window
          /\ wrote => /\ world.disk < MaxUntold
                      /\ \E i \in DOMAIN v : MayWrite(world, turn.calls[i], v[i])
          /\ LET x == Handled(v, p, wrote, stuck)
             IN /\ world' = x.world
                /\ Proceed([x.session EXCEPT !.history = TrimHistory(@),
                                             !.always = IF always THEN @ \cup Approved(v) ELSE @],
                           x.turn)
    BY Zenon DEF RunTools
  <2>2. /\ world' = Handled(v, p, wrote, stuck).world
        /\ Proceed(Trimmed(Handled(v, p, wrote, stuck), always, v), Handled(v, p, wrote, stuck).turn)
    BY <2>1, Zenon DEF Trimmed
  <2>3. QED
    BY <2>2
<1>4. DOMAIN v = DOMAIN turn.calls /\ \A i \in DOMAIN v : v[i] \in Verdicts(turn.calls[i])
  BY DEF Outcomes
<1>5. \A i \in DOMAIN v : v[i] \in Verdict
  BY <1>4, VerdictsType
<1>6. PICK x, s : x = Handled(v, p, wrote, stuck) /\ s = Trimmed(x, always, v)
  OBVIOUS
<1>7. Good(x, 3) /\ Chat(x.session.history)
  BY <1>4, <1>1, <1>5, <1>6, HandledFacts
<1>8. /\ x.session \in SessionRec /\ HasUser(x.session.history) /\ Believed(x.session, x.world)
      /\ Fresh(x.session, x.world) /\ x.world \in WorldRec /\ Placed(x.world)
      /\ x.session.contract = session.contract /\ x.turn \in TurnRec /\ x.turn.step = turn.step
  BY <1>7 DEF Good
<1>9. Approved(v) \in SUBSET Tool
  BY <1>4, <1>2, ApprovedType
<1>10. PICK z, w : z = x.session /\ w = x.world
  OBVIOUS
<1>11. /\ s \in SessionRec /\ Chat(s.history) /\ HasUser(s.history) /\ Believed(s, w)
       /\ Fresh(s, w) /\ s.contract = z.contract
  <2>1. /\ z \in SessionRec /\ Chat(z.history) /\ HasUser(z.history) /\ Believed(z, w) /\ Fresh(z, w)
    BY <1>7, <1>8, <1>10
  <2>2. PICK h, e : h = TrimHistory(z.history)
                    /\ e = IF always THEN z.always \cup Approved(v) ELSE z.always
    OBVIOUS
  <2>3. e \in SUBSET Tool
    BY <1>9, <2>1, <2>2 DEF SessionRec
  <2>4. s = [z EXCEPT !.history = h, !.always = e]
    BY <1>6, <1>10, <2>2 DEF Trimmed
  <2>5. Chat(h) /\ HasUser(h)
    BY <2>1, <2>2, TrimHistoryChat
  <2>6. h \in Seq(Message)
    BY <2>5, ChatFacts
  <2>7. /\ s \in SessionRec /\ s.history = h /\ s.contract = z.contract /\ s.cache = z.cache
        /\ s.evidence = z.evidence /\ s.rev = z.rev /\ s.unverified = z.unverified
        /\ s.procs = z.procs
    BY <2>1, <2>3, <2>4, <2>6 DEF SessionRec
  <2>8. QED
    BY <2>1, <2>5, <2>7 DEF Believed, Fresh
<1>12. world' = w /\ w \in WorldRec /\ Placed(w) /\ s.contract # NULL
  BY <1>1, <1>3, <1>6, <1>8, <1>10, <1>11
<1>13. PICK u, t : /\ u = [s EXCEPT !.history = Append(s.history, Msg("system", 0, FALSE))]
                   /\ t = [x.turn EXCEPT !.outcome = "none"]
  OBVIOUS
<1>14. Stop(s, TRUE) \/ NextStep(u, t) \/ NextStep(s, x.turn)
  <2>1. CASE x.turn.outcome = "stopped"
    BY <1>3, <1>6, <2>1 DEF Proceed
  <2>2. CASE x.turn.outcome = "rethink"
    BY <1>3, <1>6, <1>13, <2>2 DEF Proceed
  <2>3. CASE x.turn.outcome \notin {"stopped", "rethink"}
    BY <1>3, <1>6, <2>3 DEF Proceed
  <2>4. QED
    BY <2>1, <2>2, <2>3
<1>15. CASE Stop(s, TRUE)
  BY <1>1, <1>11, <1>12, <1>15, ToStopped
<1>16. CASE NextStep(u, t)
  <2>1. /\ u \in SessionRec /\ Chat(u.history) /\ Believed(u, w) /\ u.contract = s.contract
        /\ u.cache = s.cache /\ HasUser(u.history)
    <3>1. s \in SessionRec /\ Chat(s.history) /\ Believed(s, w) /\ HasUser(s.history)
      BY <1>11
    <3>2. u = [s EXCEPT !.history = Append(s.history, Msg("system", 0, FALSE))]
      BY <1>13
    <3>3. QED
      BY <3>1, <3>2, SystemSaid, ZenonT(40)
  <2>2. Fresh(u, w)
    BY <1>11, <2>1 DEF Fresh
  <2>3. t \in TurnRec /\ t.step = turn.step
    BY <1>8, <1>13 DEF TurnRec
  <2>4. QED
    BY <1>1, <1>12, <1>16, <2>1, <2>2, <2>3, ToTop
<1>17. CASE NextStep(s, x.turn)
  BY <1>1, <1>8, <1>11, <1>12, <1>17, ToTop
<1>18. QED
  BY <1>14, <1>15, <1>16, <1>17
-----------------------------------------------------------------------------
LEMMA Initially == Init => IInv
<1> SUFFICES ASSUME Init PROVE IInv
  OBVIOUS
<1>1. PICK m, h : m = Msg("system", 0, FALSE) /\ h = <<m>>
  OBVIOUS
<1>2. m \in Message /\ m.role = "system" /\ m.calls = 0
  BY <1>1 DEF Msg, Message
<1>3. h \in Seq(Message) /\ Len(h) = 1 /\ h[1] = m /\ h # <<>> /\ DOMAIN h = 1 .. 1
  <2>1. m \in Message /\ h = <<m>>
    BY <1>1, <1>2
  <2>2. Len(h) = 1 /\ h[1] = m /\ h # <<>> /\ DOMAIN h = 1 .. 1
    BY <2>1
  <2>3. h \in Seq(Message)
    BY <2>1
  <2>4. QED
    BY <2>2, <2>3
<1>4. WellFormed(h)
  BY <1>2, <1>3 DEF WellFormed
<1>5. Chat(h)
  BY <1>2, <1>3, <1>4 DEF Chat
<1>6. session = [history |-> h, mode |-> "agent", always |-> {}, contract |-> NULL,
                 plan |-> FALSE, input |-> NULL, guardrail |-> FALSE, rev |-> 0,
                 unverified |-> NULL, evidence |-> NULL, procs |-> {}, cache |-> {}]
  BY <1>1 DEF Init, NewSession
<1>7. session \in SessionRec /\ session.history = h /\ session.evidence = NULL
  BY <1>3, <1>6 DEF SessionRec, Mode
<1>8. turn = NoTurn /\ turn \in TurnRec /\ turn.pc = "idle" /\ turn.calls = <<>>
  BY NoTurnType DEF Init, NoTurn
<1>9. /\ world \in WorldRec /\ Placed(world) /\ world.alive = {} /\ world.told <= world.checked
  BY DEF Init, NewWorld, WorldRec, Placed
<1>10. Types
  BY <1>7, <1>8, <1>9 DEF Types, Active
<1>11. Believed(session, world)
  BY <1>7, <1>9 DEF Believed
<1>12. DeliveredOnEvidence /\ DeliveredQuiet
  BY <1>8 DEF DeliveredOnEvidence, DeliveredQuiet, Delivered
<1>13. QED
  BY <1>5, <1>7, <1>8, <1>10, <1>11, <1>12 DEF IInv, Active

LEMMA Stuttering ==
  ASSUME IInv, UNCHANGED vars
  PROVE  IInv'
<1>1. session' = session /\ turn' = turn /\ world' = world
  BY DEF vars
<1>2. Types' /\ (DeliveredOnEvidence /\ DeliveredQuiet)'
  BY <1>1 DEF IInv, Types, Active, DeliveredOnEvidence, DeliveredQuiet, Delivered
<1>3. QED
  BY <1>1, <1>2 DEF IInv, Active

(* The conversation, the session's beliefs about the workspace and the     *)
(* tools and the turn's counters agree at every step of run_turn and at    *)
(* every command between turns.                                            *)
THEOREM Invariance == Spec => []IInv
<1>1. IInv /\ [Next]_vars => IInv'
  <2> SUFFICES ASSUME IInv, [Next]_vars PROVE IInv'
    OBVIOUS
  <2>1. CASE Between
    BY <2>1, TurnCommandStep, OtherCommandStep DEF Between
  <2>2. CASE ExceedSteps \/ ModelFails
    BY <2>2, ExceedStepsStep
  <2>3. CASE AskModel
    BY <2>3, AskModelStep
  <2>4. CASE ModelTimesOut
    BY <2>4, ModelTimesOutStep
  <2>5. CASE Plan
    BY <2>5, PlanStep
  <2>6. CASE RefuseAnswer
    BY <2>6, RefuseAnswerStep
  <2>7. CASE Deliver
    BY <2>7, DeliverStep
  <2>8. CASE RunTools
    BY <2>8, RunToolsStep
  <2>9. CASE EndTurn
    BY <2>9, EndTurnStep
  <2>10. CASE \E calls \in Answers : SelectCalls(calls)
    BY <2>10, SelectCallsStep
  <2>11. CASE UNCHANGED vars
    BY <2>11, Stuttering
  <2>12. QED
    BY <2>1, <2>2, <2>3, <2>4, <2>5, <2>6, <2>7, <2>8, <2>9, <2>10, <2>11 DEF Next, During
<1>2. QED
  BY <1>1, Initially, PTL DEF Spec

(* The session, the locals of run_turn and the world keep their types: the *)
(* limits on steps, repairs, failures and recoveries are never overrun,    *)
(* whatever the model answers.                                             *)
THEOREM TypeCorrect == Spec => []TypeOK
<1>1. IInv => TypeOK
  <2> SUFFICES ASSUME IInv PROVE TypeOK
    OBVIOUS
  <2>1. /\ session \in SessionRec /\ turn \in TurnRec /\ world \in WorldRec /\ Types
    BY DEF IInv, Types
  <2>2. /\ session.history \in Seq(Message) /\ session.mode \in Mode /\ session.always \subseteq Tool
        /\ session.plan \in BOOLEAN /\ session.guardrail \in BOOLEAN
        /\ session.rev \in Nat /\ session.unverified \in Nat \cup {NULL}
        /\ session.evidence \in Nat \cup {NULL} /\ session.procs \subseteq Proc
    BY <2>1 DEF SessionRec
  <2>3. /\ turn.pc \in {"idle", "top", "llm", "tools", "done"} /\ turn.step \in 0 .. MaxSteps
        /\ turn.repairs \in 0 .. MaxFinalRepairs /\ turn.fails \in 0 .. MaxFailures
        /\ turn.recoveries \in 0 .. 2 /\ turn.calls \in Seq(Call)
    BY <2>1 DEF TurnRec
  <2>4. world.disk \in Nat /\ world.managed \subseteq Proc
    BY <2>1 DEF WorldRec
  <2>5. QED
    BY <2>1, <2>2, <2>3, <2>4 DEF TypeOK, Types, Active, Placed
<1>2. QED
  BY <1>1, Invariance, PTL

(* Every request of run_turn to the model is a conversation the chat       *)
(* protocol accepts: trimming drops whole groups (_atomic_message_groups), *)
(* a summary replaces whole turns, every call of an answer gets a result   *)
(* before the next request, and neither the system prompt nor the user's   *)
(* latest message is lost.                                                 *)
THEOREM RequestsAccepted == Spec => []RequestsWellFormed
<1>1. IInv => RequestsWellFormed
  <2> SUFFICES ASSUME IInv, turn.pc = "llm"
               PROVE  /\ WellFormed(session.history) /\ Head(session.history).role = "system"
                      /\ LatestUser(session.history) # 0
    BY DEF RequestsWellFormed
  <2>1. Chat(session.history) /\ HasUser(session.history)
    BY DEF IInv, Active
  <2>2. /\ session.history \in Seq(Message) /\ session.history # <<>>
        /\ WellFormed(session.history) /\ session.history[1].role = "system"
    BY <2>1 DEF Chat
  <2>3. Head(session.history) = session.history[1]
    BY <2>2
  <2>4. QED
    BY <2>1, <2>2, <2>3, LatestUserIs
<1>2. QED
  BY <1>1, Invariance, PTL

(* An answer that run_turn delivers rests on evidence: a check passed      *)
(* since the last change of a change or verification task that the session *)
(* was told of, and the last check of a verification task passed (the      *)
(* guard of run_turn on final answers).  Of changes that no result of a    *)
(* mutates_workspace tool reports, it says nothing.                        *)
THEOREM DeliveredBacked == Spec => []DeliveredOnEvidence
<1>1. IInv => DeliveredOnEvidence
  BY DEF IInv
<1>2. QED
  BY <1>1, Invariance, PTL

(* No process outlives a delivered answer unless no result handed its id   *)
(* to the session, though a stop by a short id and a turn outside of the   *)
(* prompt's cleanup leave the session's set and the process manager out of *)
(* step.                                                                   *)
THEOREM DeliveredClean == Spec => []DeliveredQuiet
<1>1. IInv => DeliveredQuiet
  BY DEF IInv
<1>2. QED
  BY <1>1, Invariance, PTL

(* The read cache of a turn holds nothing older than the turn or than the  *)
(* last change the session was told of: a call that reports such a change  *)
(* empties it, and no other call runs beside it (tool_result_cache).       *)
THEOREM CacheFresh == Spec => []CacheIsFresh
<1>1. IInv => CacheIsFresh
  BY DEF IInv, CacheIsFresh, Fresh, Active
<1>2. QED
  BY <1>1, Invariance, PTL
=============================================================================
