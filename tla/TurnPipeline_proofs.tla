------------------------- MODULE TurnPipeline_proofs -------------------------
(***************************************************************************)
(* Proofs about TurnPipeline, for any drafts, answers and tools: whatever   *)
(* graph the store runs, the guards that were visited bind, and a turn of   *)
(* the default graph leaves one question and one answer.  The second part   *)
(* is about CommandAccess, which decides whether a command a turn planned   *)
(* may run.                                                                 *)
(***************************************************************************)
EXTENDS TurnPipeline, CommandAccess, FiniteSetTheorems, SequenceTheorems, WellFoundedInduction, TLAPS

-----------------------------------------------------------------------------
(* Numbers.                                                                  *)

LEMMA Least ==
  ASSUME NEW T, T \subseteq Nat, T # {}
  PROVE  \E m \in T : \A n \in T : ~(n < m)
<1> DEFINE R == OpToRel(<, Nat)
<1>1. IsWellFoundedOn(R, Nat)
  BY NatLessThanWellFounded
<1>2. \A a, b \in Nat : a < b => <<a, b>> \in R
  BY DEF OpToRel
<1> HIDE DEF R
<1>3. PICK x \in T : \A y \in T : ~(<<y, x>> \in R)
  BY <1>1, WFMin
<1> QED
  BY <1>2, <1>3

\* Induction, for a claim that is a set of numbers.
LEMMA Climb ==
  ASSUME NEW n \in Nat, NEW T, 0 \in T, \A i \in 0 .. n : i \in T /\ i < n => i + 1 \in T
  PROVE  \A i \in 0 .. n : i \in T
<1> DEFINE B == (0 .. n) \ T
<1> SUFFICES ASSUME B # {} PROVE FALSE
  OBVIOUS
<1>1. B \subseteq Nat
  OBVIOUS
<1>2. PICK x \in B : \A y \in B : ~(y < x)
  <2> HIDE DEF B
  <2> QED
    BY <1>1, Least
<1>3. x \in 1 .. n /\ x - 1 \in 0 .. n /\ x - 1 < x /\ x - 1 < n
  OBVIOUS
<1>4. x - 1 \in T
  BY <1>2, <1>3
<1>5. x - 1 + 1 = x
  BY <1>3
<1> QED
  BY <1>3, <1>4, <1>5

LEMMA FirstIs ==
  ASSUME NEW I, I \subseteq Nat, I # {}
  PROVE  First(I) \in I /\ \A j \in I : First(I) <= j
<1>1. PICK m \in I : \A n \in I : ~(n < m)
  BY Least
<1>2. \A n \in I : m <= n
  BY <1>1
<1> QED
  BY <1>2 DEF First

-----------------------------------------------------------------------------
(* What the validation of a graph shows: a place for every node, before that *)
(* of every node an edge leads to, in the required order where a type has    *)
(* one node.                                                                 *)

Places(g, place) ==
  /\ place \in [g.on -> Nat]
  /\ \A a \in Arcs(g) : place[a[1]] < place[a[2]]
  /\ UniqueTypes(g) => \A m, n \in g.on : <<TypeOf[m], TypeOf[n]>> \in RequiredOrder => place[m] < place[n]

Runnable(g) ==
  /\ g.on \subseteq Nodes /\ Required \subseteq Types(g) /\ DOMAIN g.edges \subseteq Nat
  /\ Entries(g) # {}
  /\ \E place : Places(g, place)

LEMMA NodeTypesAre ==
  /\ NodeTypes = {"summary_history", "normalize_input", "append_user_message",
       "route", "local_rag", "direct_vision_reply", "extract", "plan",
       "execution_policy", "external_rag", "plan_tasks", "validate_tasks", "persist"}
  /\ DOMAIN NodeOrder = 1 .. 13
  /\ IsFiniteSet(NodeTypes)
<1>1. DOMAIN NodeOrder = 1 .. 13
  BY DEF NodeOrder
<1>2. NodeTypes = {NodeOrder[i] : i \in 1 .. 13}
  BY <1>1 DEF NodeTypes, ToSet
<1>3. NodeOrder \in [1 .. 13 -> NodeTypes] /\ \A n \in NodeTypes : \E i \in 1 .. 13 : NodeOrder[i] = n
  <2>1. NodeOrder = [i \in 1 .. 13 |-> NodeOrder[i]]
    BY DEF NodeOrder
  <2> QED
    BY <1>2, <2>1
<1>4. ExistsSurjection(1 .. 13, NodeTypes)
  BY <1>3 DEF ExistsSurjection, Surjection
<1>5. IsFiniteSet(NodeTypes)
  BY <1>4, FS_NatSurjection
<1>6. \A i \in 1 .. 13 : i = 1 \/ i = 2 \/ i = 3 \/ i = 4 \/ i = 5 \/ i = 6 \/ i = 7 \/ i = 8
        \/ i = 9 \/ i = 10 \/ i = 11 \/ i = 12 \/ i = 13
  OBVIOUS
<1>7. /\ NodeOrder[1] = "summary_history" /\ NodeOrder[2] = "normalize_input"
      /\ NodeOrder[3] = "append_user_message" /\ NodeOrder[4] = "route" /\ NodeOrder[5] = "local_rag"
      /\ NodeOrder[6] = "direct_vision_reply" /\ NodeOrder[7] = "extract" /\ NodeOrder[8] = "plan"
      /\ NodeOrder[9] = "execution_policy" /\ NodeOrder[10] = "external_rag"
      /\ NodeOrder[11] = "plan_tasks" /\ NodeOrder[12] = "validate_tasks" /\ NodeOrder[13] = "persist"
  BY DEF NodeOrder
<1>8. NodeTypes = {"summary_history", "normalize_input", "append_user_message",
       "route", "local_rag", "direct_vision_reply", "extract", "plan",
       "execution_policy", "external_rag", "plan_tasks", "validate_tasks", "persist"}
  BY <1>2, <1>6, <1>7
<1> QED
  BY <1>1, <1>5, <1>8

\* A sorted part of the graph: no node twice, and each behind its predecessors.
Sorted(g, s) ==
  /\ s \in Seq(g.on)
  /\ \A i, j \in DOMAIN s : s[i] = s[j] => i = j
  /\ \A i \in DOMAIN s : \A m \in g.on :
       <<m, s[i]>> \in Arcs(g) => \E j \in DOMAIN s : j < i /\ s[j] = m

LEMMA LatestIs ==
  ASSUME NEW k \in Nat, NEW I, I \subseteq 1 .. k
  PROVE  /\ Latest(I) \in 0 .. k
         /\ I # {} => Latest(I) \in I /\ \A j \in I : j <= Latest(I)
<1> DEFINE D == {k - i : i \in I}
<1>1. CASE I = {}
  BY <1>1 DEF Latest
<1>2. CASE I # {}
  <2>1. D \subseteq Nat /\ D # {}
    <3>1. \A i \in I : k - i \in Nat
      OBVIOUS
    <3> QED
      BY <1>2, <3>1
  <2>2. PICK d \in D : \A e \in D : ~(e < d)
    <3> HIDE DEF D
    <3> QED
      BY <2>1, Least
  <2>3. PICK i \in I : d = k - i
    BY <2>2
  <2>4. \A j \in I : j <= i
    <3> TAKE j \in I
    <3>1. k - j \in D
      OBVIOUS
    <3> HIDE DEF D
    <3>2. ~(k - j < k - i) /\ i \in 1 .. k /\ j \in 1 .. k
      BY <2>2, <2>3, <3>1
    <3> QED
      BY <3>2
  <2>5. Latest(I) \in I /\ \A j \in I : j <= Latest(I)
    BY <1>2, <2>4 DEF Latest
  <2>6. Latest(I) \in 0 .. k
    <3>1. Latest(I) \in 1 .. k
      BY <2>5
    <3> QED
      BY <3>1
  <2> QED
    BY <2>5, <2>6
<1> QED
  BY <1>1, <1>2

LEMMA LowestIs ==
  ASSUME NEW S, NEW f \in [S -> Nat], S # {}
  PROVE  Lowest(S, f) # {} /\ Lowest(S, f) \subseteq S
<1>1. {f[x] : x \in S} \subseteq Nat /\ {f[x] : x \in S} # {}
  OBVIOUS
<1>2. PICK m \in {f[x] : x \in S} : \A n \in {f[x] : x \in S} : ~(n < m)
  BY <1>1, Least
<1>3. PICK x \in S : m = f[x]
  BY <1>2
<1>4. \A y \in S : f[x] <= f[y]
  BY <1>2, <1>3
<1> QED
  BY <1>3, <1>4 DEF Lowest

LEMMA ForemostIs ==
  ASSUME NEW g, NEW s, s \in Seq(g.on), g.on \subseteq Nodes, g.edges \in Seq(ToSet(g.edges)), Ready(g, s) # {}
  PROVE  Foremost(g, s) # {} /\ Foremost(g, s) \subseteq Ready(g, s)
<1> DEFINE ready == Ready(g, s)
           ranks(n) == {i \in DOMAIN NodeOrder : NodeOrder[i] = TypeOf[n]}
           places(n) == {i \in DOMAIN s : <<s[i], n>> \in Arcs(g)}
           rank == [n \in ready |-> First(ranks(n))]
           after == [n \in ready |-> Latest(places(n))]
           edges(n) == {i \in DOMAIN g.edges :
                 g.edges[i].target = n /\ Active(g, g.edges[i]) /\ g.edges[i].source = s[after[n]]}
           edge == [n \in ready |-> Latest(edges(n))]
<1>1. Foremost(g, s) = Lowest(Lowest(Lowest(ready, rank), after), edge)
  BY DEF Foremost
<1>2. rank \in [ready -> Nat]
  <2>1. ASSUME NEW n \in ready PROVE First(ranks(n)) \in Nat
    <3>1. TypeOf[n] \in NodeTypes
      BY TypeAssumption DEF Ready
    <3>2. ranks(n) # {} /\ ranks(n) \subseteq Nat
      BY <3>1, NodeTypesAre DEF NodeTypes, ToSet
    <3> HIDE DEF ranks
    <3> QED
      BY <3>2, FirstIs
  <2> HIDE DEF ranks, ready
  <2> QED
    BY <2>1
<1>3. after \in [ready -> Nat]
  <2>1. ASSUME NEW n \in ready PROVE Latest(places(n)) \in Nat
    <3>1. Len(s) \in Nat /\ places(n) \subseteq 1 .. Len(s)
      BY LenProperties
    <3> HIDE DEF places
    <3>2. Latest(places(n)) \in 0 .. Len(s)
      BY <3>1, LatestIs
    <3> QED
      BY <3>1, <3>2
  <2> HIDE DEF places, ready
  <2> QED
    BY <2>1
<1>4. edge \in [ready -> Nat]
  <2>1. ASSUME NEW n \in ready PROVE Latest(edges(n)) \in Nat
    <3>1. Len(g.edges) \in Nat /\ DOMAIN g.edges = 1 .. Len(g.edges)
      BY LenProperties
    <3>2. edges(n) \subseteq 1 .. Len(g.edges)
      BY <3>1
    <3> HIDE DEF edges
    <3>3. Latest(edges(n)) \in 0 .. Len(g.edges)
      BY <3>1, <3>2, LatestIs
    <3> QED
      BY <3>1, <3>3
  <2> HIDE DEF edges, ready
  <2> QED
    BY <2>1
<1> HIDE DEF rank, after, edge, ready
<1>5. ASSUME NEW S, S \subseteq ready, S # {}, NEW f \in [ready -> Nat]
      PROVE  Lowest(S, f) # {} /\ Lowest(S, f) \subseteq S
  <2> DEFINE h == [n \in S |-> f[n]]
  <2>1. h \in [S -> Nat] /\ Lowest(S, f) = Lowest(S, h)
    BY <1>5 DEF Lowest
  <2> HIDE DEF h
  <2> QED
    BY <1>5, <2>1, LowestIs
<1>6. ready # {}
  BY DEF ready
<1>7. Lowest(ready, rank) # {} /\ Lowest(ready, rank) \subseteq ready
  BY <1>2, <1>5, <1>6
<1>8. Lowest(Lowest(ready, rank), after) # {} /\ Lowest(Lowest(ready, rank), after) \subseteq ready
  BY <1>3, <1>5, <1>7
<1>9. Lowest(Lowest(Lowest(ready, rank), after), edge) # {}
        /\ Lowest(Lowest(Lowest(ready, rank), after), edge) \subseteq ready
  BY <1>4, <1>5, <1>8
<1> QED
  BY <1>1, <1>9 DEF ready

LEMMA SortNextSorts ==
  ASSUME NEW g, NEW s, Sorted(g, s), g.on \subseteq Nodes, g.edges \in Seq(ToSet(g.edges))
  PROVE  Sorted(g, SortNext(g, s))
<1> DEFINE left == g.on \ ToSet(s)
           n == CHOOSE x \in Foremost(g, s) : TRUE
<1>1. CASE Ready(g, s) = {}
  BY <1>1 DEF SortNext
<1>2. CASE Ready(g, s) # {}
  <2>1. SortNext(g, s) = Append(s, n)
    BY <1>2 DEF SortNext
  <2>2. n \in Ready(g, s)
    <3>1. s \in Seq(g.on)
      BY DEF Sorted
    <3>2. Foremost(g, s) # {} /\ Foremost(g, s) \subseteq Ready(g, s)
      BY <1>2, <3>1, ForemostIs
    <3> QED
      BY <3>2
  <2>3. n \in left /\ \A m \in left : <<m, n>> \notin Arcs(g)
    <3> HIDE DEF n
    <3> QED
      BY <2>2 DEF Ready
  <2> HIDE DEF n
  <2>4. s \in Seq(g.on) /\ Len(s) \in Nat /\ DOMAIN s = 1 .. Len(s) /\ n \in g.on
    BY <2>3, LenProperties DEF Sorted
  <2>5. /\ Append(s, n) \in Seq(g.on) /\ DOMAIN Append(s, n) = 1 .. Len(s) + 1
        /\ \A i \in 1 .. Len(s) : Append(s, n)[i] = s[i]
        /\ Append(s, n)[Len(s) + 1] = n
    BY <2>4, AppendProperties
  <2>6. \A i \in 1 .. Len(s) : s[i] # n
    BY <2>3, <2>4 DEF ToSet
  <2> DEFINE t == Append(s, n)
             k == Len(s)
  <2> HIDE DEF t, k
  <2>7. t \in Seq(g.on) /\ DOMAIN t = 1 .. k + 1 /\ k \in Nat /\ DOMAIN s = 1 .. k
        /\ (\A i \in 1 .. k : t[i] = s[i] /\ s[i] # n) /\ t[k + 1] = n
    BY <2>4, <2>5, <2>6 DEF t, k
  <2>8. \A i, j \in 1 .. k + 1 : t[i] = t[j] => i = j
    <3>1. \A i \in 1 .. k + 1 : i \in 1 .. k \/ i = k + 1
      BY <2>7
    <3> QED
      BY <2>7, <3>1 DEF Sorted
  <2>9. ASSUME NEW i \in 1 .. k + 1, NEW m \in g.on, <<m, t[i]>> \in Arcs(g)
        PROVE  \E j \in 1 .. k + 1 : j < i /\ t[j] = m
    <3>1. CASE i = k + 1
      <4>1. m \notin left
        BY <2>3, <2>7, <2>9, <3>1
      <4>2. PICK j \in 1 .. k : s[j] = m
        BY <2>7, <4>1 DEF ToSet
      <4> QED
        BY <2>7, <3>1, <4>2
    <3>2. CASE i \in 1 .. k
      <4>1. PICK j \in 1 .. k : j < i /\ s[j] = m
        BY <2>7, <2>9, <3>2 DEF Sorted
      <4> QED
        BY <2>7, <4>1
    <3> QED
      BY <2>7, <3>1, <3>2
  <2>10. Sorted(g, t)
    BY <2>7, <2>8, <2>9 DEF Sorted
  <2> QED
    BY <2>1, <2>10 DEF t
<1> QED
  BY <1>1, <1>2

\* The sort as far as k nodes.
Sorts(f, g, k) ==
  f = [i \in 0 .. k |-> f[i]] /\ f[0] = <<>> /\ \A i \in 1 .. k : f[i] = SortNext(g, f[i - 1])

LEMMA SortsSome ==
  ASSUME NEW g, NEW n \in Nat
  PROVE  \E f : Sorts(f, g, n)
<1> DEFINE T == {k \in 0 .. n : \E f : Sorts(f, g, k)}
<1>1. 0 \in T
  <2>1. Sorts([i \in 0 .. 0 |-> <<>>], g, 0)
    BY DEF Sorts
  <2> QED
    BY <2>1
<1>2. ASSUME NEW k \in 0 .. n, k \in T, k < n PROVE k + 1 \in T
  <2>1. PICK f : Sorts(f, g, k)
    BY <1>2
  <2> DEFINE h == [i \in 0 .. k + 1 |-> IF i = k + 1 THEN SortNext(g, f[k]) ELSE f[i]]
  <2>2. h = [i \in 0 .. k + 1 |-> h[i]] /\ h[0] = <<>>
    BY <2>1 DEF Sorts
  <2>3. ASSUME NEW i \in 1 .. k + 1 PROVE h[i] = SortNext(g, h[i - 1])
    <3>1. CASE i = k + 1
      BY <3>1
    <3>2. CASE i \in 1 .. k
      <4>1. h[i] = f[i] /\ h[i - 1] = f[i - 1]
        BY <3>2
      <4> QED
        BY <2>1, <3>2, <4>1 DEF Sorts
    <3> QED
      BY <3>1, <3>2
  <2> HIDE DEF h
  <2>4. Sorts(h, g, k + 1)
    BY <2>2, <2>3 DEF Sorts
  <2>5. k + 1 \in 0 .. n
    BY <1>2
  <2> QED
    BY <2>4, <2>5
<1>3. n \in T
  <2> HIDE DEF T
  <2> QED
    BY <1>1, <1>2, Climb
<1> QED
  BY <1>3

LEMMA OrderSorted ==
  ASSUME NEW g, IsFiniteSet(g.on), g.on \subseteq Nodes, g.edges \in Seq(ToSet(g.edges))
  PROVE  Sorted(g, TopologicalOrder(g))
<1> DEFINE n == Cardinality(g.on)
           Rec(f) == f = [k \in 0 .. n |-> IF k = 0 THEN <<>> ELSE SortNext(g, f[k - 1])]
           f == CHOOSE f : Rec(f)
<1>1. n \in Nat
  BY FS_CardinalityType
<1>2. TopologicalOrder(g) = f[n]
  BY DEF TopologicalOrder
<1> HIDE DEF n
<1>3. Rec(f)
  <2>1. PICK h : Sorts(h, g, n)
    BY <1>1, SortsSome
  <2>2. Rec(h)
    <3>1. h = [i \in 0 .. n |-> h[i]]
      BY <2>1 DEF Sorts
    <3>2. ASSUME NEW i \in 0 .. n
          PROVE  h[i] = IF i = 0 THEN <<>> ELSE SortNext(g, h[i - 1])
      <4>1. h[0] = <<>> /\ \A j \in 1 .. n : h[j] = SortNext(g, h[j - 1])
        BY <2>1 DEF Sorts
      <4>2. i = 0 \/ i \in 1 .. n
        BY <1>1
      <4> QED
        BY <4>1, <4>2
    <3> QED
      BY <3>1, <3>2
  <2> HIDE DEF Rec
  <2> QED
    BY <2>2
<1> HIDE DEF f
<1> DEFINE T == {i \in 0 .. n : Sorted(g, f[i])}
<1>4. 0 \in T
  <2>1. Sorted(g, <<>>)
    BY DEF Sorted
  <2>2. f[0] = <<>>
    BY <1>1, <1>3
  <2> QED
    BY <1>1, <2>1, <2>2
<1>5. ASSUME NEW i \in 0 .. n, i \in T, i < n PROVE i + 1 \in T
  <2>1. i + 1 \in 0 .. n /\ f[i + 1] = SortNext(g, f[i])
    BY <1>1, <1>3, <1>5
  <2>2. Sorted(g, f[i])
    BY <1>5
  <2>3. Sorted(g, SortNext(g, f[i]))
    BY <2>2, SortNextSorts
  <2> QED
    BY <2>1, <2>3
<1>6. n \in T
  <2> HIDE DEF T
  <2>1. \A i \in 0 .. n : i \in T /\ i < n => i + 1 \in T
    BY <1>5
  <2>2. \A i \in 0 .. n : i \in T
    BY <1>1, <1>4, <2>1, Climb
  <2> QED
    BY <1>1, <2>2
<1> QED
  BY <1>2, <1>6

LEMMA ArcsAre ==
  ASSUME NEW g, NEW a \in Arcs(g)
  PROVE  a[1] \in g.on /\ a[2] \in g.on /\ a = <<a[1], a[2]>>
BY DEF Arcs, Active

LEMMA AcceptedRunnable ==
  ASSUME NEW g, g.on \subseteq Nodes, IsFiniteSet(g.on), g.edges \in Seq(ToSet(g.edges)), Accepted(g)
  PROVE  Runnable(g)
<1> DEFINE s == TopologicalOrder(g)
           n == Cardinality(g.on)
           place == [x \in g.on |-> CHOOSE i \in 1 .. n : s[i] = x]
<1>1. IsFiniteSet(g.on) /\ n \in Nat
  BY FS_CardinalityType
<1>2. Required \subseteq Types(g) /\ Cardinality(Entries(g)) = 1 /\ Len(s) = n /\ InRequiredOrder(s)
  BY DEF Accepted
<1>3. Entries(g) # {}
  <2>1. Entries(g) = {} => Cardinality(Entries(g)) = 0
    BY FS_EmptySet, Zenon
  <2> QED
    BY <1>2, <2>1
<1>4. Sorted(g, s)
  BY <1>1, OrderSorted
<1> HIDE DEF s, n
<1>5. s \in [1 .. n -> g.on] /\ DOMAIN s = 1 .. n
  BY <1>2, <1>4, LenProperties DEF Sorted
<1>6. s \in Injection(1 .. n, g.on)
  BY <1>4, <1>5 DEF Sorted, Injection, IsInjective
<1>7. IsFiniteSet(1 .. n) /\ Cardinality(1 .. n) = n
  <2>1. IsFiniteSet(1 .. n) /\ Cardinality(1 .. n) = IF 1 > n THEN 0 ELSE n - 1 + 1
    BY <1>1, FS_Interval
  <2> QED
    BY <1>1, <2>1
<1>8. s \in Surjection(1 .. n, g.on)
  BY <1>1, <1>6, <1>7, FS_Injection DEF n
<1>9. \A x \in g.on : place[x] \in 1 .. n /\ s[place[x]] = x
  <2>1. \A x \in g.on : \E i \in 1 .. n : s[i] = x
    BY <1>8 DEF Surjection
  <2> QED
    BY <2>1
<1>10. place \in [g.on -> Nat]
  <2>1. \A x \in g.on : place[x] \in Nat
    <3> HIDE DEF place
    <3> QED
      BY <1>1, <1>9
  <2> QED
    BY <2>1
<1> HIDE DEF place
<1>11. ASSUME NEW a \in Arcs(g) PROVE place[a[1]] < place[a[2]]
  <2>1. a[1] \in g.on /\ a[2] \in g.on /\ a = <<a[1], a[2]>>
    BY ArcsAre
  <2>2. place[a[2]] \in 1 .. n /\ s[place[a[2]]] = a[2] /\ place[a[1]] \in 1 .. n /\ s[place[a[1]]] = a[1]
    BY <1>9, <2>1
  <2>3. PICK j \in 1 .. n : j < place[a[2]] /\ s[j] = a[1]
    BY <1>4, <1>5, <2>1, <2>2 DEF Sorted
  <2>4. j = place[a[1]]
    BY <1>4, <1>5, <2>2, <2>3 DEF Sorted
  <2> QED
    BY <2>3, <2>4
<1>12. ASSUME UniqueTypes(g), NEW x \in g.on, NEW y \in g.on, <<TypeOf[x], TypeOf[y]>> \in RequiredOrder
       PROVE  place[x] < place[y]
  <2> DEFINE position(type) == Latest({i \in DOMAIN s : TypeOf[s[i]] = type})
  <2>1. ASSUME NEW z \in g.on PROVE position(TypeOf[z]) = place[z]
    <3>1. \A i \in 1 .. n : TypeOf[s[i]] = TypeOf[z] <=> s[i] = z
      BY <1>5, <1>12 DEF UniqueTypes
    <3>2. \A i \in 1 .. n : s[i] = z <=> i = place[z]
      BY <1>4, <1>5, <1>9 DEF Sorted
    <3>3. {i \in DOMAIN s : TypeOf[s[i]] = TypeOf[z]} = {place[z]}
      BY <1>5, <1>9, <3>1, <3>2
    <3>4. Latest({place[z]}) \in {place[z]}
      BY <1>1, <1>9, LatestIs
    <3> QED
      BY <3>3, <3>4
  <2>2. position(TypeOf[y]) = 0 \/ position(TypeOf[x]) < position(TypeOf[y])
    <3>1. \A p \in RequiredOrder : position(p[2]) = 0 \/ position(p[1]) < position(p[2])
      BY <1>2 DEF InRequiredOrder
    <3> HIDE DEF position
    <3>2. position(<<TypeOf[x], TypeOf[y]>>[2]) = 0
            \/ position(<<TypeOf[x], TypeOf[y]>>[1]) < position(<<TypeOf[x], TypeOf[y]>>[2])
      BY <1>12, <3>1
    <3> QED
      BY <3>2
  <2> HIDE DEF position
  <2>3. place[y] # 0
    BY <1>1, <1>9
  <2> QED
    BY <2>1, <2>2, <2>3
<1>13. Places(g, place)
  BY <1>10, <1>11, <1>12 DEF Places
<1>14. DOMAIN g.edges \subseteq Nat
  BY LenProperties
<1> QED
  BY <1>2, <1>3, <1>13, <1>14 DEF Runnable

\* The default graph is run unseen; its nodes stand in the order of NodeOrder.
DefaultPlace ==
  [summary_history |-> 1, normalize_input |-> 2, append_user_message |-> 3, route |-> 4, local_rag |-> 5,
   direct_vision_reply |-> 6, extract |-> 7, plan |-> 8, execution_policy |-> 9, external_rag |-> 10,
   plan_tasks |-> 11, validate_tasks |-> 12, persist |-> 13]

DefaultEnds == {
  <<"summary_history", "normalize_input">>, <<"normalize_input", "append_user_message">>,
  <<"append_user_message", "route">>, <<"route", "persist">>, <<"route", "local_rag">>,
  <<"route", "direct_vision_reply">>, <<"route", "extract">>, <<"local_rag", "direct_vision_reply">>,
  <<"local_rag", "extract">>, <<"direct_vision_reply", "persist">>, <<"direct_vision_reply", "extract">>,
  <<"extract", "plan">>, <<"plan", "execution_policy">>, <<"execution_policy", "persist">>,
  <<"execution_policy", "external_rag">>, <<"execution_policy", "plan_tasks">>,
  <<"external_rag", "plan_tasks">>, <<"plan_tasks", "validate_tasks">>, <<"validate_tasks", "persist">>}

LEMMA DefaultIs ==
  /\ DefaultGraph.on = NodeTypes
  /\ DOMAIN DefaultGraph.edges = 1 .. 19
  /\ \A i \in 1 .. 19 : LET e == DefaultGraph.edges[i] IN <<e.source, e.target>> \in DefaultEnds
<1>1. DefaultGraph.on = NodeTypes /\ DOMAIN DefaultGraph.edges = 1 .. 19
  BY DEF DefaultGraph
<1> DEFINE E == DefaultGraph.edges
<1>2. \A i \in 1 .. 19 : i = 1 \/ i = 2 \/ i = 3 \/ i = 4 \/ i = 5 \/ i = 6 \/ i = 7 \/ i = 8
        \/ i = 9 \/ i = 10 \/ i = 11 \/ i = 12 \/ i = 13 \/ i = 14 \/ i = 15 \/ i = 16 \/ i = 17
        \/ i = 18 \/ i = 19
  OBVIOUS
<1>3. /\ <<E[1].source, E[1].target>> \in DefaultEnds /\ <<E[2].source, E[2].target>> \in DefaultEnds
      /\ <<E[3].source, E[3].target>> \in DefaultEnds /\ <<E[4].source, E[4].target>> \in DefaultEnds
      /\ <<E[5].source, E[5].target>> \in DefaultEnds /\ <<E[6].source, E[6].target>> \in DefaultEnds
      /\ <<E[7].source, E[7].target>> \in DefaultEnds /\ <<E[8].source, E[8].target>> \in DefaultEnds
      /\ <<E[9].source, E[9].target>> \in DefaultEnds /\ <<E[10].source, E[10].target>> \in DefaultEnds
  BY DEF DefaultGraph, DefaultEnds, Edge
<1>4. /\ <<E[11].source, E[11].target>> \in DefaultEnds /\ <<E[12].source, E[12].target>> \in DefaultEnds
      /\ <<E[13].source, E[13].target>> \in DefaultEnds /\ <<E[14].source, E[14].target>> \in DefaultEnds
      /\ <<E[15].source, E[15].target>> \in DefaultEnds /\ <<E[16].source, E[16].target>> \in DefaultEnds
      /\ <<E[17].source, E[17].target>> \in DefaultEnds /\ <<E[18].source, E[18].target>> \in DefaultEnds
      /\ <<E[19].source, E[19].target>> \in DefaultEnds
  BY DEF DefaultGraph, DefaultEnds, Edge
<1> HIDE DEF E
<1>5. \A i \in 1 .. 19 : <<E[i].source, E[i].target>> \in DefaultEnds
  BY <1>2, <1>3, <1>4
<1> QED
  BY <1>1, <1>5 DEF E

LEMMA DefaultRunnable == Runnable(DefaultGraph)
<1>1. /\ DefaultGraph.on \subseteq Nodes /\ Required \subseteq Types(DefaultGraph)
      /\ DOMAIN DefaultGraph.edges \subseteq Nat
  BY DefaultIs, TypeAssumption DEF Required, Types
<1>2. Arcs(DefaultGraph) \subseteq DefaultEnds
  BY DefaultIs DEF Arcs, ToSet
<1>3. DefaultPlace \in [NodeTypes -> Nat]
  BY NodeTypesAre DEF DefaultPlace
<1>4. \A a \in DefaultEnds : DefaultPlace[a[1]] < DefaultPlace[a[2]] /\ a[2] # "summary_history"
  BY DEF DefaultEnds, DefaultPlace
<1>5. \A m, n \in NodeTypes : <<TypeOf[m], TypeOf[n]>> \in RequiredOrder => DefaultPlace[m] < DefaultPlace[n]
  <2>1. \A p \in RequiredOrder : DefaultPlace[p[1]] < DefaultPlace[p[2]]
    BY DEF RequiredOrder, DefaultPlace
  <2>2. \A m, n \in NodeTypes : <<m, n>> \in RequiredOrder => DefaultPlace[<<m, n>>[1]] < DefaultPlace[<<m, n>>[2]]
    BY <2>1
  <2>3. \A m, n \in NodeTypes : <<m, n>> \in RequiredOrder => DefaultPlace[m] < DefaultPlace[n]
    BY <2>2
  <2> QED
    BY <2>3, TypeAssumption
<1>6. Places(DefaultGraph, DefaultPlace)
  BY <1>2, <1>3, <1>4, <1>5, DefaultIs DEF Places
<1>7. "summary_history" \in Entries(DefaultGraph)
  BY <1>2, <1>4, DefaultIs, NodeTypesAre DEF Entries
<1> QED
  BY <1>1, <1>6, <1>7, DefaultIs DEF Runnable

\* Whatever the file holds, the graph the store runs has places for its nodes.
LEMMA LoadRunnable ==
  ASSUME NEW f
  PROVE  Runnable(Load(f))
<1>1. ASSUME NEW d \in Drafts
      PROVE  d.on \subseteq Nodes /\ IsFiniteSet(d.on) /\ d.edges \in Seq(ToSet(d.edges))
  BY DraftsAssumption
<1>2. ASSUME NEW d \in Drafts
      PROVE  Normalized(d).on = d.on /\ Normalized(d).edges \in Seq(ToSet(Normalized(d).edges))
  <2> DEFINE E == Normalized(d).edges
  <2>1. DOMAIN d = {"on", "edges"}
    BY DraftsAssumption
  <2>2. Normalized(d).on = d.on /\ E = [i \in DOMAIN d.edges |-> E[i]]
    BY <2>1 DEF Normalized
  <2>3. DOMAIN d.edges = 1 .. Len(d.edges) /\ Len(d.edges) \in Nat
    BY <1>1, LenProperties
  <2> HIDE DEF E
  <2>4. E \in Seq(ToSet(E))
    <3>1. E = [i \in 1 .. Len(d.edges) |-> E[i]] /\ \A i \in 1 .. Len(d.edges) : E[i] \in ToSet(E)
      BY <2>2, <2>3 DEF ToSet
    <3> QED
      BY <2>3, <3>1, SeqDef
  <2> QED
    BY <2>2, <2>4 DEF E
<1>3. ASSUME NEW g \in Valid
      PROVE  Runnable(g)
  <2>1. g.on \subseteq Nodes /\ IsFiniteSet(g.on) /\ g.edges \in Seq(ToSet(g.edges))
    BY <1>1, <1>2 DEF Valid
  <2>2. Accepted(g)
    BY DEF Valid
  <2> QED
    BY <2>1, <2>2, AcceptedRunnable
<1> QED
  BY <1>3, DefaultRunnable DEF Load

-----------------------------------------------------------------------------
(* The path of a turn.                                                       *)

Fields == {"at", "node", "graph", "image", "mcp", "scene", "route", "plan", "context", "tasks", "ran"}

\* A turn is at a node of its graph; where a type has one node, those that were
\* visited have places before it.
OnPath(t) ==
  Running(t) =>
    /\ t.node \in t.graph.on /\ TypeOf[t.node] = t.at
    /\ UniqueTypes(t.graph) =>
         \E place : /\ Places(t.graph, place)
                   /\ \A n \in t.graph.on : TypeOf[n] \in t.ran => place[n] < place[t.node]

Left(t) ==
  [t EXCEPT !.ran = @ \cup {t.at}, !.node = NextNode(t),
            !.at = IF NextNode(t) = "ended" THEN "ended" ELSE TypeOf[NextNode(t)]]

LEMMA NextNodeIs ==
  ASSUME NEW t, Runnable(t.graph)
  PROVE  \/ /\ NextNode(t) = "ended"
            /\ \A i \in DOMAIN t.graph.edges :
                 ~(t.graph.edges[i].source = t.node /\ Active(t.graph, t.graph.edges[i]) /\ Matches(t.graph.edges[i], t))
         \/ \E i \in DOMAIN t.graph.edges :
              LET e == t.graph.edges[i] IN
              e.source = t.node /\ Active(t.graph, e) /\ Matches(e, t) /\ NextNode(t) = e.target
<1> DEFINE E == t.graph.edges
           out == {i \in DOMAIN E : E[i].source = t.node /\ Active(t.graph, E[i]) /\ Matches(E[i], t)}
<1>1. NextNode(t) = IF out = {} THEN "ended" ELSE E[First(out)].target
  BY DEF NextNode
<1>2. CASE out = {}
  BY <1>1, <1>2
<1>3. CASE out # {}
  <2>1. out \subseteq Nat
    BY DEF Runnable
  <2>2. First(out) \in out
    <3> HIDE DEF out
    <3> QED
      BY <1>3, <2>1, FirstIs
  <2>3. NextNode(t) = E[First(out)].target
    BY <1>1, <1>3
  <2>4. PICK i \in out : NextNode(t) = E[i].target
    BY <2>2, <2>3
  <2> QED
    BY <2>4
<1> QED
  BY <1>2, <1>3

LEMMA LeftIs ==
  ASSUME NEW t, DOMAIN t = Fields
  PROVE  /\ DOMAIN Left(t) = Fields
         /\ Left(t).at = IF NextNode(t) = "ended" THEN "ended" ELSE TypeOf[NextNode(t)]
         /\ Left(t).node = NextNode(t) /\ Left(t).ran = t.ran \cup {t.at}
         /\ Left(t).graph = t.graph /\ Left(t).mcp = t.mcp /\ Left(t).scene = t.scene
         /\ Left(t).plan = t.plan /\ Left(t).tasks = t.tasks /\ Left(t).context = t.context
BY DEF Left, Fields

LEMMA LeftOnPath ==
  ASSUME NEW t, DOMAIN t = Fields, Runnable(t.graph), Running(t), OnPath(t)
  PROVE  OnPath(Left(t)) /\ Left(t).at \in NodeTypes \cup {"ended"}
<1> DEFINE u == Left(t)
           m == NextNode(t)
<1>1. u.node = m /\ u.at = (IF m = "ended" THEN "ended" ELSE TypeOf[m]) /\ u.ran = t.ran \cup {t.at} /\ u.graph = t.graph
  BY LeftIs
<1> HIDE DEF u
<1>2. CASE m = "ended"
  BY <1>1, <1>2, NodeTypesAre DEF OnPath, Running, u
<1>3. CASE m # "ended"
  <2>1. PICK i \in DOMAIN t.graph.edges :
          LET e == t.graph.edges[i] IN
          e.source = t.node /\ Active(t.graph, e) /\ Matches(e, t) /\ m = e.target
    BY <1>3, NextNodeIs
  <2>2. <<t.node, m>> \in Arcs(t.graph)
    BY <2>1 DEF Arcs, ToSet
  <2>3. t.node \in t.graph.on /\ m \in t.graph.on /\ TypeOf[t.node] = t.at
    BY <2>1 DEF Active, OnPath
  <2>4. u.at = TypeOf[m] /\ TypeOf[m] \in NodeTypes
    BY <1>1, <1>3, <2>3, TypeAssumption DEF Runnable
  <2> HIDE DEF m
  <2>5. ASSUME UniqueTypes(t.graph)
        PROVE  \E place : /\ Places(t.graph, place)
                         /\ \A n \in t.graph.on : TypeOf[n] \in u.ran => place[n] < place[m]
    <3>1. PICK place : Places(t.graph, place) /\ \A n \in t.graph.on : TypeOf[n] \in t.ran => place[n] < place[t.node]
      BY <2>5 DEF OnPath
    <3>2. place[t.node] < place[m] /\ \A n \in t.graph.on : place[n] \in Nat
      <4>1. place[<<t.node, m>>[1]] < place[<<t.node, m>>[2]] /\ place \in [t.graph.on -> Nat]
        BY <2>2, <3>1 DEF Places
      <4> QED
        BY <4>1
    <3>3. ASSUME NEW n \in t.graph.on, TypeOf[n] \in u.ran PROVE place[n] < place[m]
      <4>1. CASE TypeOf[n] \in t.ran
        <5>1. place[n] < place[t.node] /\ place[n] \in Nat /\ place[t.node] \in Nat /\ place[m] \in Nat
          BY <2>3, <3>1, <3>2, <3>3, <4>1
        <5> QED
          BY <3>2, <5>1
      <4>2. CASE TypeOf[n] = t.at
        <5>1. n = t.node
          BY <2>3, <2>5, <3>3, <4>2 DEF UniqueTypes
        <5> QED
          BY <3>2, <5>1
      <4> QED
        BY <1>1, <3>3, <4>1, <4>2
    <3> QED
      BY <3>1, <3>3
  <2> QED
    BY <1>1, <2>3, <2>4, <2>5 DEF OnPath, u
<1> QED
  BY <1>2, <1>3 DEF u

\* Where a type has one node, the path does not meet a node again, nor one that
\* must come first after the other.
LEMMA NotBack ==
  ASSUME NEW t, Runnable(t.graph), Running(t), OnPath(t), UniqueTypes(t.graph)
  PROVE  /\ t.at \notin t.ran
         /\ t.at = "plan" => "execution_policy" \notin t.ran /\ "validate_tasks" \notin t.ran
         /\ t.at = "execution_policy" => "plan_tasks" \notin t.ran
         /\ t.at = "plan_tasks" => "validate_tasks" \notin t.ran
<1>1. PICK place : Places(t.graph, place) /\ \A n \in t.graph.on : TypeOf[n] \in t.ran => place[n] < place[t.node]
  BY DEF OnPath
<1>2. place \in [t.graph.on -> Nat] /\ t.node \in t.graph.on /\ TypeOf[t.node] = t.at
  BY <1>1 DEF Places, OnPath
<1>3. \A n \in t.graph.on : place[n] \in Nat
  BY <1>2
<1>4. {"plan", "execution_policy", "plan_tasks", "validate_tasks"} \subseteq Types(t.graph)
  BY NodeTypesAre DEF Runnable, Required, Optional
<1>5. PICK p \in t.graph.on, x \in t.graph.on, k \in t.graph.on, v \in t.graph.on :
        TypeOf[p] = "plan" /\ TypeOf[x] = "execution_policy" /\ TypeOf[k] = "plan_tasks" /\ TypeOf[v] = "validate_tasks"
  BY <1>4 DEF Types
<1>6. place[p] < place[x] /\ place[x] < place[k] /\ place[k] < place[v]
  <2>1. /\ <<"plan", "execution_policy">> \in RequiredOrder /\ <<"execution_policy", "plan_tasks">> \in RequiredOrder
        /\ <<"plan_tasks", "validate_tasks">> \in RequiredOrder
    BY DEF RequiredOrder
  <2> QED
    BY <1>1, <1>5, <2>1 DEF Places
<1>7. place[p] < place[v]
  BY <1>3, <1>5, <1>6
<1>8. \A n \in t.graph.on : TypeOf[n] = t.at => n = t.node
  BY <1>2 DEF UniqueTypes
<1>9. \A n \in t.graph.on : TypeOf[n] \in t.ran => ~(place[t.node] < place[n]) /\ n # t.node
  BY <1>1, <1>2, <1>3
<1> QED
  BY <1>2, <1>5, <1>6, <1>7, <1>8, <1>9

-----------------------------------------------------------------------------
(* The state of a turn, and what its guards leave behind.                    *)

Scenes == {"chat", "command", "knowledge", "vision", "task", "violation"}

Shaped(t) ==
  /\ DOMAIN t = Fields
  /\ t.at \in NodeTypes \cup {"idle", "ended", "failed"}
  /\ t.scene \in Scenes
  /\ t.tasks = NoTasks \/ DOMAIN t.tasks = {"names", "confirm", "violation"}
  /\ Runnable(t.graph)
  /\ OnPath(t)

\* The plan's command is one the policy must not let through.
Refused(t) == t.plan.command /\ (t.plan.risk = "high" \/ ~t.plan.execute \/ AllowedCommands(t) = {})

\* In a graph with one node of each type only plan_tasks names tasks; once the policy was visited, a plan it must not
\* let through has an empty list; once the list was validated, all of it is valid.
Guarded(t) ==
  UniqueTypes(t.graph) =>
    /\ "plan_tasks" \notin t.ran /\ Answered(t) => t.tasks.names = {}
    /\ "execution_policy" \in t.ran => \/ Answered(t) /\ t.tasks.names = {}
                                       \/ t.plan = NoPlan
                                       \/ ~Refused(t)
    /\ "validate_tasks" \in t.ran /\ Answered(t) => \A n \in t.tasks.names : ValidTask(n, t)

LEMMA TasksAre ==
  ASSUME NEW names, NEW confirm
  PROVE  /\ DOMAIN Tasks(names, confirm) = {"names", "confirm", "violation"}
         /\ Tasks(names, confirm) # NoTasks /\ Tasks(names, confirm).names = names
         /\ DOMAIN NoTasks = {"names"}
BY DEF Tasks, NoTasks

LEMMA LeftShaped ==
  ASSUME NEW t, Shaped(t), Running(t), NEW s, DOMAIN s = Fields,
         s.graph = t.graph, s.at = t.at, s.node = t.node, s.ran = t.ran, s.scene \in Scenes,
         s.tasks = NoTasks \/ DOMAIN s.tasks = {"names", "confirm", "violation"}
  PROVE  Shaped(Left(s))
<1>1. Running(s) /\ Runnable(s.graph) /\ OnPath(s)
  BY DEF Shaped, OnPath, Running
<1>2. OnPath(Left(s)) /\ Left(s).at \in NodeTypes \cup {"ended"}
  BY <1>1, LeftOnPath
<1> QED
  BY <1>1, <1>2, LeftIs DEF Shaped

LEMMA ValidStays ==
  ASSUME NEW t, NEW u, u.mcp = t.mcp, u.plan = t.plan
  PROVE  /\ AllowedCommands(u) = AllowedCommands(t) /\ AllowedTools(u) = AllowedTools(t)
         /\ Refused(u) = Refused(t)
         /\ \A n : ValidTask(n, u) = ValidTask(n, t)
<1>1. AllowedCommands(u) = AllowedCommands(t) /\ AllowedTools(u) = AllowedTools(t)
  BY DEF AllowedCommands, AllowedTools
<1> QED
  BY <1>1 DEF Refused, ValidTask

\* A node other than the planner, the guards and the task model.
LEMMA LeftGuarded ==
  ASSUME NEW t, Guarded(t), NEW s, DOMAIN s = Fields, s.graph = t.graph,
         s.at = t.at, s.node = t.node, s.ran = t.ran, s.mcp = t.mcp, s.plan = t.plan,
         s.tasks = t.tasks \/ (Answered(s) /\ s.tasks.names = {}),
         s.at \notin {"execution_policy", "validate_tasks"}
  PROVE  Guarded(Left(s))
<1> DEFINE u == Left(s)
<1>1. u.ran = s.ran \cup {s.at} /\ u.mcp = s.mcp /\ u.graph = s.graph /\ u.plan = s.plan /\ u.tasks = s.tasks
  BY LeftIs
<1> HIDE DEF u
<1>2. Refused(u) = Refused(t) /\ \A n : ValidTask(n, u) = ValidTask(n, t)
  BY <1>1, ValidStays
<1>3. CASE Answered(u) /\ u.tasks.names = {}
  BY <1>3 DEF Guarded, u
<1>4. CASE u.tasks = t.tasks
  BY <1>1, <1>2, <1>4 DEF Guarded, Answered, u
<1> QED
  BY <1>1, <1>3, <1>4 DEF Answered

LEMMA SceneIs ==
  ASSUME NEW t, t.scene \in Scenes
  PROVE  Scene(t) \in Scenes
BY DEF Scene, Scenes

Sound(t) == Shaped(t) /\ Guarded(t)

\* What the nodes do to a turn before they leave it.
LEMMA LeftSound ==
  ASSUME NEW t, Sound(t), Running(t), NEW s, DOMAIN s = Fields,
         s.graph = t.graph, s.at = t.at, s.node = t.node, s.ran = t.ran, s.mcp = t.mcp, s.plan = t.plan,
         s.scene \in Scenes,
         s.tasks = NoTasks \/ DOMAIN s.tasks = {"names", "confirm", "violation"},
         s.tasks = t.tasks \/ (Answered(s) /\ s.tasks.names = {}),
         s.at \notin {"execution_policy", "validate_tasks"}
  PROVE  Sound(Left(s))
<1>1. Shaped(Left(s))
  BY LeftShaped DEF Sound
<1>2. Guarded(Left(s))
  BY LeftGuarded DEF Sound
<1> QED
  BY <1>1, <1>2 DEF Sound

LEMMA StaysSound ==
  ASSUME Sound(turn), Running(turn), turn.at \notin {"execution_policy", "validate_tasks"}, Leave(turn)
  PROVE  Sound(turn')
<1>1. turn' = Left(turn)
  BY DEF Leave, Left
<1> QED
  BY <1>1, LeftSound DEF Sound, Shaped

LEMMA IntentRouteSound ==
  ASSUME Sound(turn), NEW r, IntentRoute(r)
  PROVE  Sound(turn')
<1> DEFINE t == [turn EXCEPT !.route = Available(r, turn)]
           s == [t EXCEPT !.scene = Scene(t)]
           x == [s EXCEPT !.scene = "violation", !.tasks = [Tasks({}, FALSE) EXCEPT !.violation = TRUE]]
           y == [s EXCEPT !.tasks = Tasks({}, t.route.confirm)]
<1>1. Running(turn) /\ DOMAIN turn = Fields /\ turn.scene \in Scenes /\ turn.at = "route"
  BY NodeTypesAre DEF IntentRoute, Sound, Shaped, Running
<1>2. /\ DOMAIN t = Fields /\ t.scene = turn.scene /\ t.graph = turn.graph /\ t.at = turn.at /\ t.node = turn.node
      /\ t.ran = turn.ran /\ t.mcp = turn.mcp /\ t.plan = turn.plan /\ t.tasks = turn.tasks
  BY <1>1 DEF Fields
<1> HIDE DEF t
<1>3. /\ DOMAIN s = Fields /\ s.scene \in Scenes /\ s.graph = turn.graph /\ s.at = turn.at /\ s.node = turn.node
      /\ s.ran = turn.ran /\ s.mcp = turn.mcp /\ s.plan = turn.plan /\ s.tasks = turn.tasks
  BY <1>1, <1>2, SceneIs DEF Fields
<1>4. turn' = Left(s) \/ turn' = Left(x) \/ turn' = Left(y)
  BY DEF IntentRoute, Leave, Left, t
<1> HIDE DEF s
<1>5. Sound(Left(s))
  BY <1>1, <1>3, LeftSound DEF Sound, Shaped
<1>6. /\ DOMAIN x = Fields /\ x.scene = "violation" /\ x.graph = turn.graph /\ x.at = turn.at /\ x.node = turn.node
      /\ x.ran = turn.ran /\ x.mcp = turn.mcp /\ x.plan = turn.plan
      /\ x.tasks = [Tasks({}, FALSE) EXCEPT !.violation = TRUE]
  BY <1>3 DEF Fields
<1>7. DOMAIN x.tasks = {"names", "confirm", "violation"} /\ x.tasks.names = {}
  BY <1>6 DEF Tasks
<1>8. /\ DOMAIN y = Fields /\ y.scene = s.scene /\ y.graph = turn.graph /\ y.at = turn.at /\ y.node = turn.node
      /\ y.ran = turn.ran /\ y.mcp = turn.mcp /\ y.plan = turn.plan /\ y.tasks = Tasks({}, t.route.confirm)
  BY <1>3 DEF Fields
<1> HIDE DEF x, y
<1>9. Answered(x)
  BY <1>7, TasksAre DEF Answered
<1>10. Sound(Left(x))
  BY <1>1, <1>6, <1>7, <1>9, LeftSound DEF Scenes
<1>11. Answered(y) /\ y.tasks.names = {} /\ DOMAIN y.tasks = {"names", "confirm", "violation"}
  BY <1>8, TasksAre DEF Answered
<1>12. Sound(Left(y))
  BY <1>1, <1>3, <1>8, <1>11, LeftSound
<1> QED
  BY <1>4, <1>5, <1>10, <1>12

LEMMA DirectVisionReplySound ==
  ASSUME Sound(turn), DirectVisionReply
  PROVE  Sound(turn')
<1> DEFINE s == [turn EXCEPT !.scene = "vision", !.tasks = Tasks({}, FALSE)]
<1>1. Running(turn) /\ DOMAIN turn = Fields /\ turn.at = "direct_vision_reply"
  BY NodeTypesAre DEF DirectVisionReply, Sound, Shaped, Running
<1>2. CASE Leave(turn)
  BY <1>1, <1>2, StaysSound
<1>3. CASE Leave(s)
  <2>1. turn' = Left(s)
    BY <1>3 DEF Leave, Left
  <2>2. /\ DOMAIN s = Fields /\ s.scene = "vision" /\ s.graph = turn.graph /\ s.at = turn.at /\ s.node = turn.node
        /\ s.ran = turn.ran /\ s.mcp = turn.mcp /\ s.plan = turn.plan /\ s.tasks = Tasks({}, FALSE)
    BY <1>1 DEF Fields
  <2> HIDE DEF s
  <2>3. s.tasks.names = {} /\ DOMAIN s.tasks = {"names", "confirm", "violation"}
    BY <2>2 DEF Tasks
  <2>4. Answered(s)
    BY <2>3, TasksAre DEF Answered
  <2> QED
    BY <1>1, <2>1, <2>2, <2>3, <2>4, LeftSound DEF Scenes
<1> QED
  BY <1>2, <1>3 DEF DirectVisionReply

LEMMA ExtractContextSound ==
  ASSUME Sound(turn), ExtractContext
  PROVE  Sound(turn')
<1> DEFINE s == [turn EXCEPT !.context = TRUE]
<1>1. Running(turn) /\ DOMAIN turn = Fields /\ turn.at = "extract"
  BY NodeTypesAre DEF ExtractContext, Sound, Shaped, Running
<1>2. CASE Leave(turn)
  BY <1>1, <1>2, StaysSound
<1>3. CASE Leave(s)
  <2>1. turn' = Left(s)
    BY <1>3 DEF Leave, Left
  <2>2. /\ DOMAIN s = Fields /\ s.scene = turn.scene /\ s.graph = turn.graph /\ s.at = turn.at /\ s.node = turn.node
        /\ s.ran = turn.ran /\ s.mcp = turn.mcp /\ s.plan = turn.plan /\ s.tasks = turn.tasks
    BY <1>1 DEF Fields
  <2> HIDE DEF s
  <2> QED
    BY <1>1, <2>1, <2>2, LeftSound DEF Sound, Shaped
<1> QED
  BY <1>2, <1>3 DEF ExtractContext

LEMMA NormalizeInputSound ==
  ASSUME Sound(turn), NEW image, NormalizeInput(image)
  PROVE  Sound(turn')
<1> DEFINE s == [turn EXCEPT !.image = image]
<1>1. Running(turn) /\ DOMAIN turn = Fields /\ turn.at = "normalize_input"
  BY NodeTypesAre DEF NormalizeInput, Sound, Shaped, Running
<1>2. turn' = Left(s)
  BY DEF NormalizeInput, Leave, Left
<1>3. /\ DOMAIN s = Fields /\ s.scene = turn.scene /\ s.graph = turn.graph /\ s.at = turn.at /\ s.node = turn.node
      /\ s.ran = turn.ran /\ s.mcp = turn.mcp /\ s.plan = turn.plan /\ s.tasks = turn.tasks
  BY <1>1 DEF Fields
<1> HIDE DEF s
<1> QED
  BY <1>1, <1>2, <1>3, LeftSound DEF Sound, Shaped

\* A new plan: neither the policy nor the validation of the tasks was visited.
LEMMA PlanSound ==
  ASSUME Sound(turn), NEW p, Plan(p)
  PROVE  Sound(turn')
<1> DEFINE s == [turn EXCEPT !.plan = p, !.tasks = IF p.ask THEN Tasks({}, TRUE) ELSE @]
           u == Left(s)
<1>1. Running(turn) /\ DOMAIN turn = Fields /\ turn.at = "plan" /\ ~Answered(turn)
  BY NodeTypesAre DEF Plan, Sound, Shaped, Running
<1>2. turn' = u
  BY DEF Plan, Leave, Left
<1>3. /\ DOMAIN s = Fields /\ s.scene = turn.scene /\ s.graph = turn.graph /\ s.at = turn.at /\ s.node = turn.node
      /\ s.ran = turn.ran /\ s.tasks = IF p.ask THEN Tasks({}, TRUE) ELSE turn.tasks
  BY <1>1 DEF Fields
<1> HIDE DEF s
<1>4. /\ s.tasks = NoTasks \/ DOMAIN s.tasks = {"names", "confirm", "violation"}
      /\ s.tasks # NoTasks => s.tasks.names = {}
  <2>1. CASE p.ask
    BY <1>3, <2>1 DEF Tasks
  <2>2. CASE ~p.ask
    BY <1>1, <1>3, <2>2 DEF Answered
  <2> QED
    BY <2>1, <2>2
<1>5. Shaped(u)
  BY <1>1, <1>3, <1>4, LeftShaped DEF Sound, Shaped
<1>6. UniqueTypes(turn.graph) => "execution_policy" \notin turn.ran /\ "validate_tasks" \notin turn.ran
  BY <1>1, NotBack DEF Sound, Shaped
<1>7. u.ran = turn.ran \cup {"plan"} /\ u.tasks = s.tasks /\ u.graph = turn.graph
  BY <1>1, <1>3, LeftIs
<1> HIDE DEF u
<1>8. Guarded(u)
  BY <1>4, <1>6, <1>7 DEF Guarded, Answered
<1> QED
  BY <1>2, <1>5, <1>8 DEF Sound

\* The policy answers for a plan it must not let through, and the task model
\* was not asked before it.
LEMMA ExecutionPolicySound ==
  ASSUME Sound(turn), ExecutionPolicy
  PROVE  Sound(turn')
<1>1. Running(turn) /\ DOMAIN turn = Fields /\ turn.at = "execution_policy"
  BY NodeTypesAre DEF ExecutionPolicy, Sound, Shaped, Running
<1>2. UniqueTypes(turn.graph) => "plan_tasks" \notin turn.ran
  BY <1>1, NotBack DEF Sound, Shaped
<1>3. CASE Leave(turn) /\ (Answered(turn) \/ turn.plan = NoPlan \/ ~(turn.plan.unavailable \/ MustAsk(turn)))
  <2> DEFINE u == Left(turn)
  <2>1. turn' = u
    BY <1>3 DEF Leave, Left
  <2>2. Shaped(u)
    BY <1>1, LeftShaped DEF Sound, Shaped
  <2>3. /\ u.ran = turn.ran \cup {"execution_policy"} /\ u.mcp = turn.mcp /\ u.plan = turn.plan
        /\ u.tasks = turn.tasks /\ u.graph = turn.graph
    BY <1>1, LeftIs
  <2> HIDE DEF u
  <2>4. Refused(u) = Refused(turn) /\ \A n : ValidTask(n, u) = ValidTask(n, turn)
    BY <2>3, ValidStays
  <2>5. UniqueTypes(turn.graph) /\ Answered(turn) => turn.tasks.names = {}
    BY <1>2 DEF Sound, Guarded
  <2>6. Answered(u) = Answered(turn)
    BY <2>3 DEF Answered
  <2>7. UniqueTypes(u.graph) => \/ Answered(u) /\ u.tasks.names = {}
                                \/ u.plan = NoPlan
                                \/ ~Refused(u)
    <3>1. MustAsk(turn) \/ ~Refused(turn)
      BY DEF MustAsk, Refused
    <3> QED
      BY <1>3, <2>3, <2>4, <2>5, <2>6, <3>1
  <2>8. Guarded(u)
    <3>1. Guarded(turn)
      BY DEF Sound
    <3>2. UniqueTypes(u.graph) /\ "plan_tasks" \notin u.ran /\ Answered(u) => u.tasks.names = {}
      BY <2>3, <2>5, <2>6
    <3>3. UniqueTypes(u.graph) /\ "validate_tasks" \in u.ran /\ Answered(u) => \A n \in u.tasks.names : ValidTask(n, u)
      BY <2>3, <2>4, <2>5, <2>6
    <3> QED
      BY <2>7, <3>2, <3>3 DEF Guarded
  <2> QED
    BY <2>1, <2>2, <2>8 DEF Sound
<1>4. CASE Leave([turn EXCEPT !.tasks = Tasks({}, ~turn.plan.unavailable)])
  <2> DEFINE s == [turn EXCEPT !.tasks = Tasks({}, ~turn.plan.unavailable)]
             u == Left(s)
  <2>1. turn' = u
    BY <1>4 DEF Leave, Left
  <2>2. /\ DOMAIN s = Fields /\ s.scene = turn.scene /\ s.graph = turn.graph /\ s.at = turn.at /\ s.node = turn.node
        /\ s.ran = turn.ran /\ s.tasks = Tasks({}, ~turn.plan.unavailable)
    BY <1>1 DEF Fields
  <2> HIDE DEF s
  <2>3. DOMAIN s.tasks = {"names", "confirm", "violation"} /\ s.tasks.names = {}
    BY <2>2 DEF Tasks
  <2>4. Shaped(u)
    BY <1>1, <2>2, <2>3, LeftShaped DEF Sound, Shaped
  <2>5. u.tasks = s.tasks
    BY <2>2, LeftIs
  <2> HIDE DEF u
  <2>6. Answered(u)
    BY <2>3, <2>5, TasksAre DEF Answered
  <2>7. Guarded(u)
    BY <2>3, <2>5, <2>6 DEF Guarded
  <2> QED
    BY <2>1, <2>4, <2>7 DEF Sound
<1> QED
  BY <1>3, <1>4 DEF ExecutionPolicy

\* The task model is asked before the list is validated, and only while the
\* policy has not answered.
LEMMA PlanTasksSound ==
  ASSUME Sound(turn), NEW names, NEW confirm, PlanTasks(names, confirm)
  PROVE  Sound(turn')
<1>1. Running(turn) /\ DOMAIN turn = Fields /\ turn.at = "plan_tasks" /\ ~Answered(turn)
  BY NodeTypesAre DEF PlanTasks, Sound, Shaped, Running
<1>2. UniqueTypes(turn.graph) => "validate_tasks" \notin turn.ran
  BY <1>1, NotBack DEF Sound, Shaped
<1>3. ASSUME NEW t, DOMAIN t = {"names", "confirm", "violation"}, Leave([turn EXCEPT !.tasks = t])
      PROVE  Sound(turn')
  <2> DEFINE s == [turn EXCEPT !.tasks = t]
             u == Left(s)
  <2>1. turn' = u
    BY <1>3 DEF Leave, Left
  <2>2. /\ DOMAIN s = Fields /\ s.scene = turn.scene /\ s.graph = turn.graph /\ s.at = turn.at /\ s.node = turn.node
        /\ s.ran = turn.ran /\ s.mcp = turn.mcp /\ s.plan = turn.plan /\ s.tasks = t
    BY <1>1 DEF Fields
  <2> HIDE DEF s
  <2>3. Shaped(u)
    BY <1>1, <1>3, <2>2, LeftShaped DEF Sound, Shaped
  <2>4. u.ran = turn.ran \cup {"plan_tasks"} /\ u.mcp = turn.mcp /\ u.plan = turn.plan /\ u.graph = turn.graph
    BY <1>1, <2>2, LeftIs
  <2> HIDE DEF u
  <2>5. Refused(u) = Refused(turn)
    BY <2>4, ValidStays
  <2>6. Guarded(u)
    BY <1>1, <1>2, <2>4, <2>5 DEF Sound, Guarded
  <2> QED
    BY <2>1, <2>3, <2>6 DEF Sound
<1>4. CASE \E tool \in AllowedTools(turn) : Leave([turn EXCEPT !.tasks = Tasks({tool}, FALSE)])
  <2>1. PICK tool \in AllowedTools(turn) : Leave([turn EXCEPT !.tasks = Tasks({tool}, FALSE)])
    BY <1>4
  <2>2. DOMAIN Tasks({tool}, FALSE) = {"names", "confirm", "violation"}
    BY DEF Tasks
  <2> QED
    BY <1>3, <2>1, <2>2
<1>5. CASE Leave([turn EXCEPT !.tasks = Tasks(names, confirm)])
  <2>1. DOMAIN Tasks(names, confirm) = {"names", "confirm", "violation"}
    BY DEF Tasks
  <2> QED
    BY <1>3, <1>5, <2>1
<1> QED
  BY <1>4, <1>5 DEF PlanTasks

LEMMA ValidateAutoTasksSound ==
  ASSUME Sound(turn), ValidateAutoTasks
  PROVE  Sound(turn')
<1> DEFINE names == turn.tasks.names
           valid == {n \in names : ValidTask(n, turn)}
           promised == turn.plan # NoPlan /\ turn.plan.execute /\ turn.plan.tools # {}
           asked == turn.tasks.confirm \/ (names = {} /\ promised) \/ (names # {} /\ valid = {})
           s == IF Answered(turn) THEN [turn EXCEPT !.tasks.names = valid, !.tasks.confirm = asked] ELSE turn
           u == Left(s)
<1>1. Running(turn) /\ DOMAIN turn = Fields /\ turn.at = "validate_tasks"
  BY NodeTypesAre DEF ValidateAutoTasks, Sound, Shaped, Running
<1>2. turn' = u
  BY DEF ValidateAutoTasks, Leave, Left
<1>3. /\ DOMAIN s = Fields /\ s.scene = turn.scene /\ s.graph = turn.graph /\ s.at = turn.at /\ s.node = turn.node
      /\ s.ran = turn.ran /\ s.mcp = turn.mcp /\ s.plan = turn.plan
  BY <1>1 DEF Fields
<1>4. Answered(turn) => DOMAIN turn.tasks = {"names", "confirm", "violation"}
  BY DEF Sound, Shaped, Answered
<1>5. /\ Answered(turn) => DOMAIN s.tasks = {"names", "confirm", "violation"} /\ s.tasks.names = valid
      /\ ~Answered(turn) => s.tasks = NoTasks
  <2>1. CASE Answered(turn)
    <3>1. s.tasks = [turn.tasks EXCEPT !.names = valid, !.confirm = asked]
      BY <1>1, <2>1 DEF Fields
    <3> HIDE DEF s, valid, asked
    <3> QED
      BY <1>4, <2>1, <3>1
  <2>2. CASE ~Answered(turn)
    BY <2>2 DEF Answered
  <2> QED
    BY <2>1, <2>2
<1>6. /\ u.ran = turn.ran \cup {"validate_tasks"} /\ u.mcp = turn.mcp /\ u.plan = turn.plan
      /\ u.tasks = s.tasks /\ u.graph = turn.graph
  <2> HIDE DEF s
  <2> QED
    BY <1>1, <1>3, LeftIs
<1>7. Shaped(u)
  <2> HIDE DEF s, valid
  <2> QED
    BY <1>1, <1>3, <1>5, LeftShaped DEF Sound, Shaped
<1>8. Refused(u) = Refused(turn) /\ \A n : ValidTask(n, u) = ValidTask(n, turn)
  <2> HIDE DEF u
  <2> QED
    BY <1>6, ValidStays
<1> HIDE DEF u, s
<1>9. Answered(u) = Answered(turn)
  BY <1>5, <1>6, TasksAre DEF Answered
<1>10. valid \subseteq names /\ \A n \in valid : ValidTask(n, turn)
  OBVIOUS
<1> HIDE DEF valid
<1>11. Guarded(u)
  <2>1. UniqueTypes(u.graph) /\ "plan_tasks" \notin u.ran /\ Answered(u) => u.tasks.names = {}
    BY <1>5, <1>6, <1>9, <1>10 DEF Sound, Guarded
  <2>2. "validate_tasks" \in u.ran /\ Answered(u) => \A n \in u.tasks.names : ValidTask(n, u)
    BY <1>5, <1>6, <1>8, <1>9, <1>10
  <2>3. UniqueTypes(u.graph) /\ "execution_policy" \in u.ran =>
          (Answered(u) /\ u.tasks.names = {}) \/ u.plan = NoPlan \/ ~Refused(u)
    <3>1. UniqueTypes(turn.graph) /\ "execution_policy" \in turn.ran =>
            (Answered(turn) /\ names = {}) \/ turn.plan = NoPlan \/ ~Refused(turn)
      BY DEF Sound, Guarded
    <3>2. Answered(turn) /\ names = {} => u.tasks.names = {}
      BY <1>5, <1>6, <1>10
    <3> QED
      BY <1>6, <1>8, <1>9, <3>1, <3>2
  <2> QED
    BY <2>1, <2>2, <2>3 DEF Guarded
<1> QED
  BY <1>2, <1>7, <1>11 DEF Sound

-----------------------------------------------------------------------------
(* The invariant.                                                            *)

IInv == Runnable(snapshot.graph) /\ Sound(turn)

LEMMA IdleSound == Sound(Idle)
<1>1. /\ DOMAIN Idle = Fields /\ Idle.at = "idle" /\ Idle.scene = "chat" /\ Idle.tasks = NoTasks
      /\ Idle.graph = DefaultGraph /\ Idle.ran = {}
  BY DEF Idle, Fields
<1>2. OnPath(Idle) /\ ~Answered(Idle)
  BY <1>1, NodeTypesAre DEF OnPath, Running, Answered
<1> QED
  BY <1>1, <1>2, DefaultRunnable DEF Sound, Shaped, Guarded, Scenes

LEMMA StartTurnSound ==
  ASSUME IInv, NEW tools, StartTurn(tools)
  PROVE  IInv'
<1> DEFINE g == snapshot'.graph
           entry == CHOOSE n \in Entries(g) : TRUE
<1>1. Runnable(g)
  <2>1. Reloaded(file).graph = Load(file)
    BY DEF Reloaded
  <2>2. snapshot' = Snapshot
    BY DEF StartTurn
  <2> QED
    BY <2>1, <2>2, LoadRunnable DEF Snapshot, IInv
<1>2. turn' = [Idle EXCEPT !.graph = g, !.mcp = tools, !.node = entry, !.at = TypeOf[entry]]
  BY DEF StartTurn
<1>3. entry \in Entries(g)
  BY <1>1 DEF Runnable
<1>4. entry \in g.on /\ TypeOf[entry] \in NodeTypes
  BY <1>1, <1>3, TypeAssumption DEF Entries, Runnable
<1> HIDE DEF entry, g
<1>5. /\ DOMAIN turn' = Fields /\ turn'.node = entry /\ turn'.at = TypeOf[entry] /\ turn'.scene = "chat" /\ turn'.tasks = NoTasks
      /\ turn'.graph = g /\ turn'.ran = {}
  BY <1>2 DEF Idle, Fields
<1>6. OnPath(turn')
  <2>1. \E place : Places(g, place)
    BY <1>1 DEF Runnable
  <2> QED
    BY <1>4, <1>5, <2>1 DEF OnPath
<1>7. Guarded(turn')
  <2>1. ~Answered(turn')
    BY <1>5 DEF Answered
  <2> QED
    BY <1>5, <2>1 DEF Guarded
<1>8. Sound(turn')
  BY <1>1, <1>4, <1>5, <1>6, <1>7 DEF Sound, Shaped, Scenes
<1> QED
  BY <1>1, <1>8 DEF IInv, g

LEMMA NodeSound ==
  ASSUME Sound(turn), RunNode
  PROVE  Sound(turn')
<1>1. ASSUME NEW n \in NodeTypes, turn.at = n, n \notin {"execution_policy", "validate_tasks"}, Leave(turn)
      PROVE  Sound(turn')
  BY <1>1, StaysSound DEF Running
<1>2. CASE SummaryHistory
  BY <1>1, <1>2, NodeTypesAre DEF SummaryHistory
<1>3. CASE \E image \in BOOLEAN : NormalizeInput(image)
  BY <1>3, NormalizeInputSound
<1>4. CASE AppendUserMessage
  BY <1>1, <1>4, NodeTypesAre DEF AppendUserMessage
<1>5. CASE \E r \in Routes \cup {UnparsedRoute} : IntentRoute(r)
  BY <1>5, IntentRouteSound
<1>6. CASE RetrieveLocalKnowledge
  BY <1>1, <1>6, NodeTypesAre DEF RetrieveLocalKnowledge
<1>7. CASE DirectVisionReply
  BY <1>7, DirectVisionReplySound
<1>8. CASE ExtractContext
  BY <1>8, ExtractContextSound
<1>9. CASE Planner
  BY <1>9, PlanSound DEF Planner
<1>10. CASE ExecutionPolicy
  BY <1>10, ExecutionPolicySound
<1>11. CASE RetrieveKnowledge
  BY <1>1, <1>11, NodeTypesAre DEF RetrieveKnowledge
<1>12. CASE \E names \in TaskNames \cup {{}}, confirm \in BOOLEAN : PlanTasks(names, confirm)
  BY <1>12, PlanTasksSound
<1>13. CASE ValidateAutoTasks
  BY <1>13, ValidateAutoTasksSound
<1>14. CASE PersistAssistantReply
  BY <1>1, <1>14, NodeTypesAre DEF PersistAssistantReply
<1>15. CASE NothingToDo
  BY <1>1, <1>15, NodeTypesAre DEF NothingToDo
<1>16. CASE CallFails
  <2>1. turn' = [turn EXCEPT !.at = "failed"]
    BY <1>16 DEF CallFails
  <2>2. DOMAIN turn = Fields
    BY DEF Sound, Shaped
  <2>3. /\ DOMAIN turn' = Fields /\ turn'.at = "failed" /\ turn'.scene = turn.scene
        /\ turn'.tasks = turn.tasks /\ turn'.graph = turn.graph /\ turn'.ran = turn.ran
        /\ turn'.mcp = turn.mcp /\ turn'.plan = turn.plan
    BY <2>1, <2>2 DEF Fields
  <2>4. ~Running(turn')
    BY <2>3, NodeTypesAre DEF Running
  <2>5. Refused(turn') = Refused(turn) /\ \A n : ValidTask(n, turn') = ValidTask(n, turn)
    BY <2>3, ValidStays
  <2>6. Shaped(turn')
    BY <2>3, <2>4 DEF Sound, Shaped, OnPath
  <2>7. Guarded(turn')
    BY <2>3, <2>5 DEF Sound, Guarded, Answered
  <2> QED
    BY <2>6, <2>7 DEF Sound
<1> QED
  BY <1>2, <1>3, <1>4, <1>5, <1>6, <1>7, <1>8, <1>9, <1>10, <1>11, <1>12, <1>13, <1>14, <1>15, <1>16 DEF RunNode

LEMMA InitInvariant == Init => IInv
BY IdleSound, DefaultRunnable DEF Init, IInv

LEMMA StepInvariant == IInv /\ [Next]_vars => IInv'
<1> SUFFICES ASSUME IInv, [Next]_vars
             PROVE  IInv'
  OBVIOUS
<1>1. CASE RunNode
  BY <1>1, NodeSound DEF IInv, RunNode
<1>2. CASE EndTurn
  BY <1>2, IdleSound DEF EndTurn, IInv
<1>3. CASE \E tools \in SUBSET McpTools : StartTurn(tools)
  BY <1>3, StartTurnSound
<1>4. CASE \E g \in Drafts : ApplyDraft(g)
  <2>1. snapshot' = Reloaded(file') /\ turn' = turn
    BY <1>4 DEF ApplyDraft
  <2>2. snapshot'.graph = Load(file')
    BY <2>1 DEF Reloaded
  <2> QED
    BY <2>1, <2>2, LoadRunnable DEF IInv
<1>5. CASE \E f \in Files : EditFile(f)
  BY <1>5 DEF EditFile, IInv
<1>6. CASE UNCHANGED vars
  BY <1>6 DEF vars, IInv
<1> QED
  BY <1>1, <1>2, <1>3, <1>4, <1>5, <1>6 DEF Next

\* In every state the turn is at a node of an accepted graph, and where a type
\* has one node it is on a path of nodes with places, and has what the guards it
\* visited left.
THEOREM InvariantHolds == Spec => []IInv
<1>1. Init => IInv
  BY InitInvariant
<1>2. IInv /\ [Next]_vars => IInv'
  BY StepInvariant
<1> QED
  BY <1>1, <1>2, PTL DEF Spec

\* Whatever graph is drawn, written into the file and accepted, if it has one
\* node of each type, and whatever the models answer: a command of a plan the
\* policy must not let through is not executed once the policy was visited, nor
\* a task that is not valid once the list was.
THEOREM GuardsBindHolds == Spec => []GuardsBind
<1>1. IInv => GuardsBind
  <2> SUFFICES ASSUME IInv, Executes(turn), UniqueTypes(turn.graph)
               PROVE  /\ "execution_policy" \in turn.ran /\ turn.plan # NoPlan /\ turn.plan.command =>
                           turn.plan.risk # "high" /\ turn.plan.execute /\ AllowedCommands(turn) # {}
                      /\ "validate_tasks" \in turn.ran => \A n \in turn.tasks.names : ValidTask(n, turn)
    BY DEF GuardsBind
  <2>1. Guarded(turn) /\ Answered(turn) /\ turn.tasks.names # {}
    BY DEF IInv, Sound, Executes
  <2>2. "validate_tasks" \in turn.ran => \A n \in turn.tasks.names : ValidTask(n, turn)
    BY <2>1 DEF Guarded
  <2>3. ASSUME "execution_policy" \in turn.ran, turn.plan # NoPlan, turn.plan.command
        PROVE  turn.plan.risk # "high" /\ turn.plan.execute /\ AllowedCommands(turn) # {}
    <3>1. ~Refused(turn)
      BY <2>1, <2>3 DEF Guarded
    <3> QED
      BY <2>3, <3>1 DEF Refused
  <2> QED
    BY <2>2, <2>3
<1> QED
  BY <1>1, InvariantHolds, PTL

-----------------------------------------------------------------------------
(* The conversation of the default graph.                                    *)

\* Every node but the last can always be left, and an edge that skips the
\* task list is taken by a turn that is answered.
LEMMA DefaultEdges ==
  /\ \A n \in NodeTypes \ {"persist"} : \E i \in 1 .. 19 :
       LET e == DefaultGraph.edges[i] IN e.source = n /\ e.condition = "always" /\ e.scene = "any"
  /\ \A i \in 1 .. 19 : LET e == DefaultGraph.edges[i] IN
       e.target = "persist" /\ e.source # "validate_tasks" => e.condition = "has_auto_tasks"
<1> DEFINE E == DefaultGraph.edges
           Always(i, n) == E[i].source = n /\ E[i].condition = "always" /\ E[i].scene = "any"
<1>1. /\ Always(1, "summary_history") /\ Always(2, "normalize_input") /\ Always(3, "append_user_message")
      /\ Always(7, "route") /\ Always(9, "local_rag") /\ Always(11, "direct_vision_reply")
  BY DEF DefaultGraph, Edge
<1>2. /\ Always(12, "extract") /\ Always(13, "plan") /\ Always(16, "execution_policy")
      /\ Always(17, "external_rag") /\ Always(18, "plan_tasks") /\ Always(19, "validate_tasks")
  BY DEF DefaultGraph, Edge
<1>3. /\ E[4].condition = "has_auto_tasks" /\ E[10].condition = "has_auto_tasks" /\ E[14].condition = "has_auto_tasks"
      /\ E[1].target # "persist" /\ E[2].target # "persist" /\ E[3].target # "persist"
      /\ E[5].target # "persist" /\ E[6].target # "persist" /\ E[7].target # "persist"
      /\ E[8].target # "persist" /\ E[9].target # "persist"
  BY DEF DefaultGraph, Edge
<1>4. /\ E[11].target # "persist" /\ E[12].target # "persist" /\ E[13].target # "persist"
      /\ E[15].target # "persist" /\ E[16].target # "persist" /\ E[17].target # "persist"
      /\ E[18].target # "persist" /\ E[19].source = "validate_tasks"
  BY DEF DefaultGraph, Edge
<1>5. \A i \in 1 .. 19 : i = 1 \/ i = 2 \/ i = 3 \/ i = 4 \/ i = 5 \/ i = 6 \/ i = 7 \/ i = 8
        \/ i = 9 \/ i = 10 \/ i = 11 \/ i = 12 \/ i = 13 \/ i = 14 \/ i = 15 \/ i = 16 \/ i = 17
        \/ i = 18 \/ i = 19
  OBVIOUS
<1> HIDE DEF E, Always
<1>6. \A n \in NodeTypes \ {"persist"} : \E i \in 1 .. 19 : Always(i, n)
  BY <1>1, <1>2, NodeTypesAre
<1>7. \A i \in 1 .. 19 : E[i].target = "persist" /\ E[i].source # "validate_tasks" => E[i].condition = "has_auto_tasks"
  BY <1>3, <1>4, <1>5
<1> QED
  BY <1>6, <1>7 DEF E, Always

LEMMA DefaultMoves ==
  ASSUME NEW t, t.graph = DefaultGraph, t.at \in NodeTypes, t.node = t.at, t.scene \in Scenes
  PROVE  /\ t.at # "persist" => <<t.at, NextNode(t)>> \in DefaultEnds
         /\ t.at = "persist" => NextNode(t) = "ended"
         /\ NextNode(t) = "persist" /\ t.at # "validate_tasks" => Answered(t)
<1> DEFINE E == t.graph.edges
<1>1. DOMAIN E = 1 .. 19 /\ \A i \in 1 .. 19 : <<E[i].source, E[i].target>> \in DefaultEnds
  BY DefaultIs
<1>2. Scene(t) \in Scenes
  BY SceneIs
<1>3. SceneCondition[Scene(t)] # "has_auto_tasks"
  BY <1>2 DEF Scenes, SceneCondition
<1>4. \A e : e.condition = "always" /\ e.scene = "any" => Matches(e, t)
  BY DEF Matches
<1>5. \A e : e.condition = "has_auto_tasks" /\ Matches(e, t) => Answered(t)
  BY <1>3 DEF Matches
<1>6. \A i \in 1 .. 19 : E[i].source \in NodeTypes /\ E[i].target \in NodeTypes /\ E[i].source # "persist"
  BY <1>1, NodeTypesAre DEF DefaultEnds
<1>7. \A i \in 1 .. 19 : Active(t.graph, E[i])
  BY <1>6, DefaultIs DEF Active
<1>8. CASE t.at = "persist"
  <2>1. NextNode(t) = "ended"
    BY <1>1, <1>6, <1>8, NextNodeIs, DefaultRunnable
  <2> QED
    BY <1>8, <2>1
<1>9. CASE t.at # "persist"
  <2>1. PICK i \in 1 .. 19 : E[i].source = t.at /\ E[i].condition = "always" /\ E[i].scene = "any"
    BY <1>9, DefaultEdges
  <2>2. Active(t.graph, E[i]) /\ Matches(E[i], t)
    BY <1>4, <1>7, <2>1
  <2>3. PICK j \in 1 .. 19 : E[j].source = t.at /\ Matches(E[j], t) /\ NextNode(t) = E[j].target
    BY <1>1, <2>1, <2>2, NextNodeIs, DefaultRunnable
  <2>4. <<t.at, NextNode(t)>> \in DefaultEnds
    BY <1>1, <2>3
  <2>5. NextNode(t) = "persist" /\ t.at # "validate_tasks" => Answered(t)
    <3>1. E[j].target = "persist" /\ E[j].source # "validate_tasks" => E[j].condition = "has_auto_tasks"
      BY DefaultEdges
    <3>2. E[j].condition = "has_auto_tasks" => Answered(t)
      BY <1>5, <2>3
    <3> QED
      BY <2>3, <3>1, <3>2
  <2> QED
    BY <1>9, <2>4, <2>5
<1> QED
  BY <1>8, <1>9

LEMMA DefaultEntry == Entries(DefaultGraph) = {"summary_history"}
<1>1. Arcs(DefaultGraph) \subseteq DefaultEnds
  BY DefaultIs DEF Arcs, ToSet
<1>2. \A a \in DefaultEnds : a[2] # "summary_history"
  BY DEF DefaultEnds
<1>3. "summary_history" \in Entries(DefaultGraph)
  BY <1>1, <1>2, DefaultIs, NodeTypesAre DEF Entries
<1> DEFINE E == DefaultGraph.edges
<1>4. \A i \in 1 .. 19 : <<E[i].source, E[i].target>> \in Arcs(DefaultGraph)
  <2>1. \A i \in 1 .. 19 : Active(DefaultGraph, E[i])
    <3>1. \A i \in 1 .. 19 : <<E[i].source, E[i].target>> \in DefaultEnds
      BY DefaultIs
    <3> HIDE DEF E
    <3>2. \A i \in 1 .. 19 : E[i].source \in NodeTypes /\ E[i].target \in NodeTypes
      BY <3>1, NodeTypesAre DEF DefaultEnds
    <3> QED
      BY <3>2, DefaultIs DEF Active
  <2>2. DOMAIN E = 1 .. 19
    BY DefaultIs
  <2> QED
    BY <2>1, <2>2 DEF Arcs, ToSet
<1>5. /\ E[1].target = "normalize_input" /\ E[2].target = "append_user_message" /\ E[3].target = "route"
      /\ E[5].target = "local_rag" /\ E[6].target = "direct_vision_reply" /\ E[7].target = "extract"
      /\ E[12].target = "plan" /\ E[13].target = "execution_policy" /\ E[15].target = "external_rag"
      /\ E[16].target = "plan_tasks" /\ E[18].target = "validate_tasks" /\ E[19].target = "persist"
  BY DEF DefaultGraph, Edge
<1> HIDE DEF E
<1>6. \A n \in NodeTypes \ {"summary_history"} : \E i \in 1 .. 19 : E[i].target = n
  BY <1>5, NodeTypesAre
<1>7. \A n \in NodeTypes \ {"summary_history"} : \E a \in Arcs(DefaultGraph) : a[2] = n
  <2> TAKE n \in NodeTypes \ {"summary_history"}
  <2>1. PICK i \in 1 .. 19 : E[i].target = n
    BY <1>6
  <2>2. <<E[i].source, n>> \in Arcs(DefaultGraph)
    BY <1>4, <2>1
  <2> QED
    BY <2>2
<1> QED
  BY <1>3, <1>7, DefaultIs DEF Entries

Before == {"summary_history", "normalize_input", "append_user_message"}

\* What the turn has said, by the place it has reached.
Talk(t, h) ==
  /\ t.at = "idle" => h = <<>>
  /\ t.graph = DefaultGraph =>
       /\ t.at \in Before => h = <<>>
       /\ t.at \in NodeTypes \ Before => h = <<"user">>
       /\ t.at \in {"plan", "execution_policy", "external_rag", "plan_tasks"} => Answered(t) \/ t.context
       /\ t.at \in {"validate_tasks", "persist"} => Answered(t)
       /\ t.at = "ended" => h = <<"user", "assistant">>

\* The work of a node: an answer and an extracted context stay.
Worked(t, s) ==
  /\ DOMAIN s = Fields /\ s.graph = t.graph /\ s.at = t.at /\ s.node = t.node /\ s.scene \in Scenes
  /\ Answered(t) => Answered(s)
  /\ t.context => s.context
  /\ t.at = "extract" => Answered(s) \/ s.context
  /\ t.at = "plan_tasks" /\ (Answered(t) \/ t.context) => Answered(s)

\* What it has added to the session.
Said(at, h, h2) ==
  /\ at \in {"summary_history", "normalize_input"} /\ h = <<>> => h2 = <<>>
  /\ at = "append_user_message" => h2 = Append(h, "user")
  /\ at \in NodeTypes \ (Before \cup {"persist"}) => h2 = h

LEMMA WorkedTalk ==
  ASSUME NEW t, NEW s, NEW h, NEW h2, t.at \in NodeTypes, Talk(t, h), Worked(t, s), Said(t.at, h, h2),
         t.graph = DefaultGraph => t.node = t.at,
         t.at = "persist" => h2 = IF Answered(t) THEN Append(h, "assistant") ELSE h,
         Left(s).at # "idle"
  PROVE  Talk(Left(s), h2)
<1> DEFINE u == Left(s)
<1>1. /\ u.at = IF NextNode(s) = "ended" THEN "ended" ELSE TypeOf[NextNode(s)]
      /\ u.graph = s.graph /\ u.tasks = s.tasks /\ u.context = s.context
  BY LeftIs DEF Worked
<1>2. s.graph = t.graph /\ s.at = t.at /\ s.node = t.node /\ s.scene \in Scenes
  BY DEF Worked
<1> SUFFICES ASSUME t.graph = DefaultGraph PROVE Talk(u, h2)
  BY <1>1, <1>2 DEF Talk
<1>3. Answered(u) = Answered(s)
  BY <1>1 DEF Answered
<1>4. /\ s.at # "persist" => <<s.at, NextNode(s)>> \in DefaultEnds
      /\ s.at = "persist" => NextNode(s) = "ended"
      /\ NextNode(s) = "persist" /\ s.at # "validate_tasks" => Answered(s)
  BY <1>2, DefaultMoves
<1> HIDE DEF u
<1>5. u.at # "idle"
  BY DEF u
<1>10. u.at = NextNode(s)
  <2>1. NextNode(s) \in NodeTypes \cup {"ended"}
    BY <1>4, NodeTypesAre DEF DefaultEnds
  <2> QED
    BY <1>1, <2>1, TypeAssumption
<1>6. CASE t.at = "persist"
  <2>1. u.at = "ended" /\ h = <<"user">> /\ Answered(t)
    BY <1>2, <1>4, <1>10, <1>6 DEF Talk, Before
  <2>2. h2 = <<"user", "assistant">>
    BY <1>6, <2>1
  <2> QED
    BY <2>1, <2>2, NodeTypesAre DEF Talk, Before
<1>7. CASE t.at \in {"summary_history", "normalize_input"}
  <2>1. h = <<>> /\ h2 = <<>>
    BY <1>7 DEF Talk, Before, Said
  <2>2. u.at \in {"normalize_input", "append_user_message"}
    BY <1>2, <1>4, <1>10, <1>7 DEF DefaultEnds
  <2> QED
    BY <2>1, <2>2 DEF Talk, Before
<1>8. CASE t.at = "append_user_message"
  <2>1. h = <<>> /\ h2 = Append(h, "user")
    BY <1>8 DEF Talk, Before, Said
  <2>2. h2 = <<"user">>
    BY <2>1
  <2>3. u.at = "route"
    BY <1>2, <1>4, <1>10, <1>8 DEF DefaultEnds
  <2> QED
    BY <2>2, <2>3 DEF Talk, Before
<1>9. CASE t.at \in NodeTypes \ (Before \cup {"persist"})
  <2>1. h2 = <<"user">>
    BY <1>9 DEF Talk, Said
  <2>2. <<t.at, u.at>> \in DefaultEnds
    BY <1>2, <1>4, <1>10, <1>9
  <2>3. u.at \notin Before /\ u.at # "ended"
    BY <1>9, <2>2 DEF DefaultEnds, Before
  <2>4. u.at = "plan" => t.at = "extract"
    BY <2>2 DEF DefaultEnds
  <2>5. u.at \in {"execution_policy", "external_rag", "plan_tasks"} => t.at \in {"plan", "execution_policy", "external_rag"}
    BY <2>2 DEF DefaultEnds
  <2>6. u.at = "validate_tasks" => t.at = "plan_tasks"
    BY <2>2 DEF DefaultEnds
  <2>7. u.at = "persist" => Answered(s)
    <3>1. CASE t.at = "validate_tasks"
      BY <3>1 DEF Talk, Worked
    <3>2. CASE t.at # "validate_tasks"
      BY <1>2, <1>4, <1>10, <3>2
    <3> QED
      BY <3>1, <3>2
  <2>8. u.at \in {"plan", "execution_policy", "external_rag", "plan_tasks"} => Answered(u) \/ u.context
    BY <1>1, <1>3, <2>4, <2>5 DEF Talk, Worked
  <2>9. u.at \in {"validate_tasks", "persist"} => Answered(u)
    BY <1>3, <2>6, <2>7 DEF Talk, Worked
  <2> QED
    BY <1>5, <2>1, <2>3, <2>8, <2>9 DEF Talk
<1> QED
  BY <1>6, <1>7, <1>8, <1>9 DEF Before

\* Every node that does not fail does its work and is left.
LEMMA NodeWorks ==
  ASSUME Sound(turn), RunNode, turn'.at # "failed"
  PROVE  turn.at \in NodeTypes /\ \E s : turn' = Left(s) /\ Worked(turn, s)
<1> DEFINE Goal == turn.at \in NodeTypes /\ \E s : turn' = Left(s) /\ Worked(turn, s)
<1>1. DOMAIN turn = Fields /\ turn.scene \in Scenes
  BY DEF Sound, Shaped
<1>2. ASSUME turn.at \in NodeTypes, turn.at # "extract" \/ Answered(turn), Leave(turn),
             turn.at = "plan_tasks" /\ turn.context => Answered(turn)
      PROVE  Goal
  <2>1. turn' = Left(turn)
    BY <1>2 DEF Leave, Left
  <2>2. Worked(turn, turn)
    BY <1>1, <1>2 DEF Worked
  <2> QED
    BY <1>2, <2>1, <2>2
<1>3. ASSUME turn.at \in NodeTypes \ {"extract"}, NEW scene \in Scenes, NEW tasks, tasks # NoTasks,
             NEW s, Leave(s), DOMAIN s = Fields, s.graph = turn.graph, s.at = turn.at /\ s.node = turn.node, s.scene = scene,
             s.tasks = tasks, s.context = turn.context
      PROVE  Goal
  <2>1. turn' = Left(s)
    BY <1>3 DEF Leave, Left
  <2>2. Worked(turn, s)
    BY <1>3 DEF Worked, Answered
  <2> QED
    BY <1>3, <2>1, <2>2
<1>4. CASE SummaryHistory
  BY <1>2, <1>4, NodeTypesAre DEF SummaryHistory
<1>5. CASE \E image \in BOOLEAN : NormalizeInput(image)
  <2>1. PICK image : NormalizeInput(image)
    BY <1>5
  <2> DEFINE s == [turn EXCEPT !.image = image]
  <2>2. turn' = Left(s) /\ turn.at = "normalize_input"
    BY <2>1 DEF NormalizeInput, Leave, Left
  <2>3. /\ DOMAIN s = Fields /\ s.scene = turn.scene /\ s.graph = turn.graph /\ s.at = turn.at /\ s.node = turn.node
        /\ s.tasks = turn.tasks /\ s.context = turn.context
    BY <1>1 DEF Fields
  <2> HIDE DEF s
  <2>4. Worked(turn, s)
    BY <1>1, <2>2, <2>3 DEF Worked, Answered
  <2> QED
    BY <2>2, <2>4, NodeTypesAre
<1>6. CASE AppendUserMessage
  BY <1>2, <1>6, NodeTypesAre DEF AppendUserMessage
<1>7. CASE \E r \in Routes \cup {UnparsedRoute} : IntentRoute(r)
  <2>1. PICK r : IntentRoute(r)
    BY <1>7
  <2> DEFINE t == [turn EXCEPT !.route = Available(r, turn)]
             s == [t EXCEPT !.scene = Scene(t)]
             x == [s EXCEPT !.scene = "violation", !.tasks = [Tasks({}, FALSE) EXCEPT !.violation = TRUE]]
             y == [s EXCEPT !.tasks = Tasks({}, t.route.confirm)]
  <2>2. turn.at = "route"
    BY <2>1 DEF IntentRoute
  <2>3. Leave(s) \/ Leave(x) \/ Leave(y)
    BY <2>1 DEF IntentRoute
  <2>4. /\ DOMAIN t = Fields /\ t.scene = turn.scene /\ t.graph = turn.graph /\ t.at = turn.at /\ t.node = turn.node
        /\ t.tasks = turn.tasks /\ t.context = turn.context
    BY <1>1 DEF Fields
  <2> HIDE DEF t
  <2>5. /\ DOMAIN s = Fields /\ s.scene \in Scenes /\ s.graph = turn.graph /\ s.at = turn.at /\ s.node = turn.node
        /\ s.tasks = turn.tasks /\ s.context = turn.context
    BY <1>1, <2>4, SceneIs DEF Fields
  <2> HIDE DEF s
  <2>6. CASE Leave(s)
    <3>1. turn' = Left(s)
      BY <2>6 DEF Leave, Left
    <3>2. Worked(turn, s)
      BY <2>2, <2>5 DEF Worked, Answered
    <3> QED
      BY <2>2, <3>1, <3>2, NodeTypesAre
  <2>7. CASE Leave(x)
    <3>1. /\ DOMAIN x = Fields /\ x.graph = turn.graph /\ x.at = turn.at /\ x.node = turn.node /\ x.scene = "violation"
          /\ x.tasks = [Tasks({}, FALSE) EXCEPT !.violation = TRUE] /\ x.context = turn.context
      BY <2>5 DEF Fields
    <3> HIDE DEF x
    <3>2. DOMAIN x.tasks = {"names", "confirm", "violation"}
      BY <3>1 DEF Tasks
    <3>3. x.tasks # NoTasks
      BY <3>2, TasksAre
    <3> QED
      BY <1>3, <2>2, <2>7, <3>1, <3>3, NodeTypesAre DEF Scenes
  <2>8. CASE Leave(y)
    <3>1. /\ DOMAIN y = Fields /\ y.graph = turn.graph /\ y.at = turn.at /\ y.node = turn.node /\ y.scene = s.scene
          /\ y.tasks = Tasks({}, t.route.confirm) /\ y.context = turn.context
      BY <2>5 DEF Fields
    <3> HIDE DEF y
    <3>2. y.tasks # NoTasks
      BY <3>1, TasksAre
    <3> QED
      BY <1>3, <2>2, <2>5, <2>8, <3>1, <3>2, NodeTypesAre
  <2> QED
    BY <2>3, <2>6, <2>7, <2>8
<1>8. CASE RetrieveLocalKnowledge
  BY <1>2, <1>8, NodeTypesAre DEF RetrieveLocalKnowledge
<1>9. CASE DirectVisionReply
  <2> DEFINE s == [turn EXCEPT !.scene = "vision", !.tasks = Tasks({}, FALSE)]
  <2>1. turn.at = "direct_vision_reply" /\ (Leave(turn) \/ Leave(s))
    BY <1>9 DEF DirectVisionReply
  <2>2. CASE Leave(turn)
    BY <1>2, <2>1, <2>2, NodeTypesAre
  <2>3. CASE Leave(s)
    <3>1. /\ DOMAIN s = Fields /\ s.graph = turn.graph /\ s.at = turn.at /\ s.node = turn.node /\ s.scene = "vision"
          /\ s.tasks = Tasks({}, FALSE) /\ s.context = turn.context
      BY <1>1 DEF Fields
    <3> HIDE DEF s
    <3>2. DOMAIN s.tasks = {"names", "confirm", "violation"}
      BY <3>1 DEF Tasks
    <3>3. s.tasks # NoTasks
      BY <3>2, TasksAre
    <3> QED
      BY <1>3, <2>1, <2>3, <3>1, <3>3, NodeTypesAre DEF Scenes
  <2> QED
    BY <2>1, <2>2, <2>3
<1>10. CASE ExtractContext
  <2> DEFINE s == [turn EXCEPT !.context = TRUE]
  <2>1. turn.at = "extract" /\ ((Answered(turn) /\ Leave(turn)) \/ Leave(s))
    BY <1>10 DEF ExtractContext
  <2>2. CASE Answered(turn) /\ Leave(turn)
    BY <1>2, <2>1, <2>2, NodeTypesAre
  <2>3. CASE Leave(s)
    <3>1. /\ DOMAIN s = Fields /\ s.graph = turn.graph /\ s.at = turn.at /\ s.node = turn.node /\ s.scene = turn.scene
          /\ s.tasks = turn.tasks /\ s.context = TRUE
      BY <1>1 DEF Fields
    <3>2. turn' = Left(s)
      BY <2>3 DEF Leave, Left
    <3> HIDE DEF s
    <3>3. Worked(turn, s)
      BY <1>1, <2>1, <3>1 DEF Worked, Answered
    <3> QED
      BY <2>1, <3>2, <3>3, NodeTypesAre
  <2> QED
    BY <2>1, <2>2, <2>3
<1>11. CASE Planner
  <2>1. PICK p : Plan(p)
    BY <1>11 DEF Planner
  <2> DEFINE s == [turn EXCEPT !.plan = p, !.tasks = IF p.ask THEN Tasks({}, TRUE) ELSE @]
  <2>2. turn.at = "plan" /\ ~Answered(turn) /\ turn' = Left(s)
    BY <2>1 DEF Plan, Leave, Left
  <2>3. /\ DOMAIN s = Fields /\ s.scene = turn.scene /\ s.graph = turn.graph /\ s.at = turn.at /\ s.node = turn.node
        /\ s.context = turn.context
    BY <1>1 DEF Fields
  <2> HIDE DEF s
  <2>4. Worked(turn, s)
    BY <1>1, <2>2, <2>3 DEF Worked
  <2> QED
    BY <2>2, <2>4, NodeTypesAre
<1>12. CASE ExecutionPolicy
  <2> DEFINE s == [turn EXCEPT !.tasks = Tasks({}, ~turn.plan.unavailable)]
  <2>1. turn.at = "execution_policy" /\ (Leave(turn) \/ Leave(s))
    BY <1>12 DEF ExecutionPolicy
  <2>2. CASE Leave(turn)
    BY <1>2, <2>1, <2>2, NodeTypesAre
  <2>3. CASE Leave(s)
    <3>1. /\ DOMAIN s = Fields /\ s.graph = turn.graph /\ s.at = turn.at /\ s.node = turn.node /\ s.scene = turn.scene
          /\ s.tasks = Tasks({}, ~turn.plan.unavailable) /\ s.context = turn.context
      BY <1>1 DEF Fields
    <3> HIDE DEF s
    <3>2. DOMAIN s.tasks = {"names", "confirm", "violation"}
      BY <3>1 DEF Tasks
    <3>3. s.tasks # NoTasks
      BY <3>2, TasksAre
    <3> QED
      BY <1>1, <1>3, <2>1, <2>3, <3>1, <3>3, NodeTypesAre
  <2> QED
    BY <2>1, <2>2, <2>3
<1>13. CASE RetrieveKnowledge
  BY <1>2, <1>13, NodeTypesAre DEF RetrieveKnowledge
<1>14. CASE \E names \in TaskNames \cup {{}}, confirm \in BOOLEAN : PlanTasks(names, confirm)
  <2>1. PICK names, confirm : PlanTasks(names, confirm)
    BY <1>14
  <2>2. PICK n, c : Leave([turn EXCEPT !.tasks = Tasks(n, c)])
    BY <2>1 DEF PlanTasks
  <2> DEFINE s == [turn EXCEPT !.tasks = Tasks(n, c)]
  <2>3. /\ DOMAIN s = Fields /\ s.graph = turn.graph /\ s.at = turn.at /\ s.node = turn.node /\ s.scene = turn.scene
        /\ s.tasks = Tasks(n, c) /\ s.context = turn.context
    BY <1>1 DEF Fields
  <2>4. Leave(s) /\ turn.at = "plan_tasks"
    BY <2>1, <2>2 DEF PlanTasks
  <2> HIDE DEF s
  <2>5. s.tasks # NoTasks
    BY <2>3, TasksAre
  <2> QED
    BY <1>1, <1>3, <2>3, <2>4, <2>5, NodeTypesAre
<1>15. CASE ValidateAutoTasks
  <2> DEFINE valid == {n \in turn.tasks.names : ValidTask(n, turn)}
             promised == turn.plan # NoPlan /\ turn.plan.execute /\ turn.plan.tools # {}
             asked == turn.tasks.confirm \/ (turn.tasks.names = {} /\ promised) \/ (turn.tasks.names # {} /\ valid = {})
             s == IF Answered(turn) THEN [turn EXCEPT !.tasks.names = valid, !.tasks.confirm = asked] ELSE turn
  <2>1. turn.at = "validate_tasks" /\ turn' = Left(s)
    BY <1>15 DEF ValidateAutoTasks, Leave, Left
  <2>2. DOMAIN s = Fields /\ s.scene = turn.scene /\ s.graph = turn.graph /\ s.at = turn.at /\ s.node = turn.node /\ s.context = turn.context
    BY <1>1 DEF Fields
  <2>3. Answered(turn) => DOMAIN s.tasks = {"names", "confirm", "violation"}
    <3>1. Answered(turn) => DOMAIN turn.tasks = {"names", "confirm", "violation"}
      BY DEF Sound, Shaped, Answered
    <3>2. Answered(turn) => s.tasks = [turn.tasks EXCEPT !.names = valid, !.confirm = asked]
      BY <1>1 DEF Fields
    <3> HIDE DEF s, valid, asked
    <3> QED
      BY <3>1, <3>2
  <2> HIDE DEF s
  <2>4. Answered(turn) => Answered(s)
    BY <2>3, TasksAre DEF Answered
  <2>5. Worked(turn, s)
    BY <1>1, <2>1, <2>2, <2>4 DEF Worked
  <2> QED
    BY <2>1, <2>5, NodeTypesAre
<1>16. CASE PersistAssistantReply
  BY <1>2, <1>16, NodeTypesAre DEF PersistAssistantReply
<1>17. CASE NothingToDo
  <2>1. turn.at \in {"route", "plan", "plan_tasks"} /\ Leave(turn)
    BY <1>17 DEF NothingToDo
  <2>2. turn.at = "plan_tasks" /\ turn.context => Answered(turn)
    BY <1>17 DEF NothingToDo
  <2> QED
    BY <1>2, <2>1, <2>2, NodeTypesAre
<1>18. CASE CallFails
  BY <1>1, <1>18 DEF CallFails, Fields
<1> QED
  BY <1>4, <1>5, <1>6, <1>7, <1>8, <1>9, <1>10, <1>11, <1>12, <1>13, <1>14, <1>15, <1>16, <1>17, <1>18
     DEF RunNode

LEMMA NodeSays ==
  ASSUME RunNode, turn'.at # "failed"
  PROVE  /\ Said(turn.at, history, history')
         /\ turn.at = "persist" => history' = IF Answered(turn) THEN Append(history, "assistant") ELSE history
<1>1. CASE UNCHANGED history /\ turn.at \notin {"append_user_message", "persist"}
  BY <1>1 DEF Said
<1>2. CASE SummaryHistory
  BY <1>2 DEF SummaryHistory, Said, Before
<1>3. CASE AppendUserMessage
  BY <1>3 DEF AppendUserMessage, Said, Before
<1>4. CASE PersistAssistantReply
  BY <1>4 DEF PersistAssistantReply, Said, Before
<1>5. CASE \/ \E image \in BOOLEAN : NormalizeInput(image)
           \/ \E r \in Routes \cup {UnparsedRoute} : IntentRoute(r)
           \/ RetrieveLocalKnowledge \/ DirectVisionReply \/ ExtractContext
  BY <1>1, <1>5 DEF NormalizeInput, IntentRoute, RetrieveLocalKnowledge, DirectVisionReply, ExtractContext
<1>6. CASE \/ Planner \/ ExecutionPolicy \/ RetrieveKnowledge
           \/ \E names \in TaskNames \cup {{}}, confirm \in BOOLEAN : PlanTasks(names, confirm)
           \/ ValidateAutoTasks \/ NothingToDo \/ CallFails
  BY <1>1, <1>6 DEF Planner, Plan, ExecutionPolicy, RetrieveKnowledge, PlanTasks, ValidateAutoTasks, NothingToDo, CallFails
<1> QED
  BY <1>2, <1>3, <1>4, <1>5, <1>6 DEF RunNode

LEMMA NodeTalk ==
  ASSUME Sound(turn), Talk(turn, history), RunNode
  PROVE  Talk(turn', history')
<1>1. CASE turn'.at = "failed"
  BY <1>1, NodeTypesAre DEF Talk, Before
<1>2. CASE turn'.at # "failed"
  <2>1. turn.at \in NodeTypes
    BY <1>2, NodeWorks
  <2>2. PICK s : turn' = Left(s) /\ Worked(turn, s)
    BY <1>2, NodeWorks
  <2>3. Left(s).at # "idle"
    <3>1. Runnable(s.graph) /\ Left(s).at = IF NextNode(s) = "ended" THEN "ended" ELSE TypeOf[NextNode(s)]
      BY <2>2, LeftIs DEF Sound, Shaped, Worked
    <3>2. NextNode(s) \in Nodes \cup {"ended"}
      BY <3>1, NextNodeIs DEF Active, Runnable
    <3>3. Left(s).at \in NodeTypes \cup {"ended"}
      BY <3>1, <3>2, TypeAssumption
    <3> QED
      BY <3>3, NodeTypesAre
  <2>4. turn.graph = DefaultGraph => turn.node = turn.at
    BY <2>1, DefaultIs, TypeAssumption DEF Sound, Shaped, OnPath, Running
  <2>5. Talk(Left(s), history')
    BY <1>2, <2>1, <2>2, <2>3, <2>4, NodeSays, WorkedTalk
  <2> QED
    BY <2>2, <2>5
<1> QED
  BY <1>1, <1>2

LEMMA IdleTalk == Idle.at = "idle" /\ Talk(Idle, <<>>)
BY NodeTypesAre DEF Idle, Talk, Before

LEMMA StepTalk ==
  ASSUME IInv, Talk(turn, history), [Next]_vars
  PROVE  Talk(turn', history')
<1>1. CASE RunNode
  BY <1>1, NodeTalk DEF IInv
<1>2. CASE EndTurn
  BY <1>2, IdleTalk DEF EndTurn
<1>3. CASE \E tools \in SUBSET McpTools : StartTurn(tools)
  <2>1. PICK tools : StartTurn(tools)
    BY <1>3
  <2> DEFINE g == snapshot'.graph
             entry == CHOOSE n \in Entries(g) : TRUE
  <2>2. turn' = [Idle EXCEPT !.graph = g, !.mcp = tools, !.node = entry, !.at = TypeOf[entry]]
    BY <2>1 DEF StartTurn
  <2>3. history' = <<>>
    BY <2>1 DEF StartTurn, Talk
  <2>4. turn'.at = TypeOf[entry] /\ turn'.graph = g
    <3> HIDE DEF entry, g
    <3> QED
      BY <2>2 DEF Idle
  <2>5. entry \in Entries(g) /\ Runnable(g)
    <3>1. Runnable(snapshot'.graph)
      BY <2>1, StartTurnSound DEF IInv
    <3> QED
      BY <3>1 DEF Runnable
  <2>6. TypeOf[entry] \in NodeTypes
    BY <2>5, TypeAssumption DEF Entries, Runnable
  <2>7. g = DefaultGraph => TypeOf[entry] = "summary_history"
    BY <2>5, DefaultEntry, NodeTypesAre, TypeAssumption
  <2> HIDE DEF entry, g
  <2> QED
    BY <2>3, <2>4, <2>6, <2>7, NodeTypesAre DEF Talk, Before
<1>4. CASE \E g \in Drafts : ApplyDraft(g)
  BY <1>4 DEF ApplyDraft
<1>5. CASE \E f \in Files : EditFile(f)
  BY <1>5 DEF EditFile
<1>6. CASE UNCHANGED vars
  BY <1>6 DEF vars
<1> QED
  BY <1>1, <1>2, <1>3, <1>4, <1>5, <1>6 DEF Next

Conversation == Talk(turn, history)

\* A turn of the default graph that does not fail leaves one question and one
\* answer, whichever edges it took and whatever the models answered.
THEOREM QuestionAndAnswerHolds == Spec => []QuestionAndAnswer
<1>1. Init => Conversation
  BY IdleTalk DEF Init, Conversation
<1>2. IInv /\ Conversation /\ [Next]_vars => Conversation'
  BY StepTalk DEF Conversation
<1>3. Conversation => QuestionAndAnswer
  BY DEF Conversation, Talk, QuestionAndAnswer
<1> QED
  BY <1>1, <1>2, <1>3, InvariantHolds, PTL DEF Spec

-----------------------------------------------------------------------------
(* CommandAccess: who may run which command.                                 *)

Keys(p, m) == DOMAIN p \intersect Packages[m]

\* Below the longest key that covers a module lie all the others, so that key
\* resolves as the module does.
LEMMA LongestResolvesAlike ==
  ASSUME NEW p, NEW m \in Modules, NEW k \in Keys(p, m),
         \A j \in Keys(p, m) : SortRank[j] <= SortRank[k]
  PROVE  k \in Modules /\ Keys(p, k) = Keys(p, m) /\ (PluginOn(p, k) <=> PluginOn(p, m))
<1>1. k \in Modules /\ Packages[k] = {j \in Packages[m] : SortRank[j] <= SortRank[k]}
  BY ModulesAssumption DEF Keys
<1>2. Keys(p, k) = Keys(p, m)
  BY <1>1 DEF Keys
<1>3. DOMAIN p \intersect Packages[k] = DOMAIN p \intersect Packages[m]
  BY <1>2 DEF Keys
<1>. QED BY <1>1, <1>2, <1>3 DEF PluginOn

\* Read back, the longest key decides.
LEMMA LoadedResolvesByLongest ==
  ASSUME NEW c, NEW p, NEW m \in Modules, NEW k \in Keys(p, m),
         \A j \in Keys(p, m) : SortRank[j] <= SortRank[k]
  PROVE  PluginOn(LoadedPlugins(Saved(c, p)), m) <=> PluginOn(p, k)
<1> DEFINE L == LoadedPlugins(Saved(c, p))
<1>1. DOMAIN L = DOMAIN p
  BY DEF LoadedPlugins, Saved
<1>2. \A j \in DOMAIN p : L[j].at = SortRank[j] /\ L[j].on = PluginOn(p, j)
  BY DEF LoadedPlugins, Saved
<1>3. Keys(p, m) \subseteq Modules /\ \A j \in Keys(p, m) : SortRank[j] \in Nat
  BY ModulesAssumption DEF Keys
<1>4. ASSUME NEW j \in Keys(p, m), \A o \in Keys(p, m) : SortRank[o] <= SortRank[j]
      PROVE  j = k
  <2>1. SortRank[j] = SortRank[k]
    BY <1>3, <1>4
  <2>. QED BY <2>1, ModulesAssumption DEF Keys
<1>5. PluginOn(L, m) <=> \A j \in Keys(p, m) : (\A o \in Keys(p, m) : L[o].at <= L[j].at) => L[j].on
  BY <1>1 DEF PluginOn, Keys
<1>6. \A j \in Keys(p, m) : L[j].at = SortRank[j] /\ L[j].on = PluginOn(p, j)
  BY <1>2 DEF Keys
<1> HIDE DEF L
<1>7. PluginOn(L, m) <=> \A j \in Keys(p, m) : (\A o \in Keys(p, m) : SortRank[o] <= SortRank[j]) => PluginOn(p, j)
  BY <1>5, <1>6
<1>. QED BY <1>4, <1>7 DEF L

\* What is saved decides as what it is saved from.
LEMMA SavedDecidesAlike ==
  ASSUME NEW c, NEW p, NEW m \in Modules
  PROVE  PluginOn(LoadedPlugins(Saved(c, p)), m) <=> PluginOn(p, m)
<1>1. CASE Keys(p, m) = {}
  <2>1. DOMAIN LoadedPlugins(Saved(c, p)) = DOMAIN p
    BY DEF LoadedPlugins, Saved
  <2>. QED BY <1>1, <2>1 DEF PluginOn, Keys
<1>2. CASE Keys(p, m) # {}
  <2>0. Keys(p, m) \in SUBSET Packages[m]
    BY DEF Keys
  <2>1. PICK k \in Keys(p, m) : \A j \in Keys(p, m) : SortRank[j] <= SortRank[k]
    BY <1>2, <2>0, ModulesAssumption
  <2>. QED BY <2>1, LongestResolvesAlike, LoadedResolvesByLongest
<1>. QED BY <1>1, <1>2

LEMMA FilesAreWhole == NoFile # Torn /\ \A c, p : Saved(c, p) # Torn
<1>1. \A c, p : DOMAIN [commands |-> c, plugins |-> p] = {"commands", "plugins"}
  OBVIOUS
<1>2. DOMAIN Torn = {"is"}
  BY DEF Torn
<1>. QED BY <1>1, <1>2 DEF NoFile, Saved

LEMMA InitKeeps == AccessInit => RestartKeepsDecisions
<1> SUFFICES ASSUME AccessInit PROVE RestartKeepsDecisions
  OBVIOUS
<1>1. disk # Torn /\ disk.commands = commands
  BY FilesAreWhole DEF AccessInit, NoFile
<1>2. DOMAIN plugins = {} /\ DOMAIN LoadedPlugins(disk) = {}
  BY DEF AccessInit, NoFile, LoadedPlugins
<1>. QED BY <1>1, <1>2 DEF RestartKeepsDecisions, PluginOn

\* A save that goes through writes what decides alike; one that does not makes
\* no claim.
LEMMA SwitchKeeps ==
  ASSUME NEW c, NEW p, Switch(c, p)
  PROVE  RestartKeepsDecisions'
<1>1. CASE disk' = Saved(c, p)
  <2>1. disk' # Torn /\ disk'.commands = commands'
    BY <1>1, FilesAreWhole DEF Switch, Saved
  <2>2. \A m \in Modules : PluginOn(LoadedPlugins(disk'), m) <=> PluginOn(plugins', m)
    BY <1>1, SavedDecidesAlike DEF Switch
  <2>. QED BY <2>1, <2>2 DEF RestartKeepsDecisions
<1>2. CASE disk' # Saved(c, p)
  BY <1>2 DEF Switch, RestartKeepsDecisions
<1>. QED BY <1>1, <1>2

LEMMA RestartKeeps == Restart => RestartKeepsDecisions'
<1> SUFFICES ASSUME Restart, kept' PROVE RestartKeepsDecisions'
  BY DEF RestartKeepsDecisions
<1>1. disk' # Torn /\ commands' = disk'.commands /\ plugins' = LoadedPlugins(disk')
  BY DEF Restart, Readable
<1>. QED BY <1>1 DEF RestartKeepsDecisions

LEMMA OthersKeep ==
  ASSUME RestartKeepsDecisions, UNCHANGED <<commands, plugins, disk, kept>>
  PROVE  RestartKeepsDecisions'
BY DEF RestartKeepsDecisions, PluginOn, LoadedPlugins

LEMMA StepKeeps == RestartKeepsDecisions /\ [AccessNext]_accessVars => RestartKeepsDecisions'
<1> SUFFICES ASSUME RestartKeepsDecisions, [AccessNext]_accessVars PROVE RestartKeepsDecisions'
  OBVIOUS
<1>1. ASSUME NEW n \in Names, NEW on \in BOOLEAN, UpdateCommandState(n, on) PROVE RestartKeepsDecisions'
  BY <1>1, SwitchKeeps DEF UpdateCommandState
<1>2. ASSUME NEW m \in Modules, NEW on \in BOOLEAN, UpdatePluginState(m, on) PROVE RestartKeepsDecisions'
  BY <1>2, SwitchKeeps DEF UpdatePluginState
<1>3. CASE Restart
  BY <1>3, RestartKeeps
<1>4. CASE ChangeRoles
  BY <1>4, OthersKeep DEF ChangeRoles
<1>5. ASSUME NEW s \in Slots, NEW x \in Commands \union {Chat}, Receive(s, x) PROVE RestartKeepsDecisions'
  BY <1>5, OthersKeep DEF Receive
<1>6. ASSUME NEW s \in Slots, Guard(s) \/ Handle(s) \/ OpenSession(s) PROVE RestartKeepsDecisions'
  BY <1>6, OthersKeep DEF Guard, Handle, OpenSession
<1>7. CASE OfferCommand \/ Clear
  BY <1>7, OthersKeep DEF OfferCommand, Clear
<1>8. ASSUME NEW o \in Owners, NEW x \in Commands, Dispatch(o, x) PROVE RestartKeepsDecisions'
  BY <1>8, OthersKeep DEF Dispatch
<1>9. CASE UNCHANGED accessVars
  BY <1>9, OthersKeep DEF accessVars
<1>. QED BY <1>1, <1>2, <1>3, <1>4, <1>5, <1>6, <1>7, <1>8, <1>9 DEF AccessNext

\* For any modules and any switches, set in any order: a restart after a save
\* that went through changes no decision.
THEOREM DecisionsSurvive == System => []RestartKeepsDecisions
BY InitKeeps, StepKeeps, PTL DEF System

-----------------------------------------------------------------------------
\* What the steps before a handler have established, of sessions and messages.

RolesTyped == roles \in RoleSets
SessionsTyped == sessions \in [Owners -> Sessions \union {None}]
InboxTyped == inbox \in [Slots -> Messages \union {None}]

\* The roles a session holds are ones its user has had since.
SessionKnown(o) == sessions[o] # None =>
  \A x \in Commands : CommandSpec[x].callable /\ Fits(x, sessions[o].roles) => x \in sessions[o].fits

\* So are those a message holds; what is open now has been recorded; and a
\* message that has passed a guard fitted and was open then.
MessageFacts(q) ==
  /\ \A x \in Of(q.cmd) : Fits(x, q.roles) => x \in q.fits
  /\ \A x \in Of(q.cmd) : x \in Open => x \in q.open
  /\ q.step = "guarded" => q.cmd \in Commands /\ (CommandSpec[q.cmd].visible => q.cmd \in q.fits \intersect q.open)
MessageKnown(s) == inbox[s] # None => MessageFacts(inbox[s])

Known ==
  /\ RolesTyped /\ SessionsTyped /\ InboxTyped
  /\ \A o \in Owners : SessionKnown(o)
  /\ \A s \in Slots : MessageKnown(s)

LEMMA OfCommands == \A x \in Commands \union {Chat} :
  Of(x) \subseteq Commands /\ (x \in Commands => Of(x) = {x})
BY SpecsAssumption DEF Of, Chat

LEMMA InitKnown == AccessInit => Known
BY DEF AccessInit, Known, RolesTyped, SessionsTyped, InboxTyped, SessionKnown, MessageKnown, Owners

\* Recording what fits or is open now takes nothing from what was recorded.
LEMMA SeenTyped ==
  ASSUME InboxTyped, NEW fit \in SUBSET Commands, NEW open \in SUBSET Commands, inbox' = Seen(inbox, fit, open)
  PROVE  InboxTyped'
<1> SUFFICES ASSUME NEW s \in Slots PROVE Seen(inbox, fit, open)[s] \in Messages \union {None}
  BY DEF InboxTyped, Seen
<1>1. CASE inbox[s] = None
  BY <1>1 DEF Seen
<1>2. CASE inbox[s] # None
  <2>1. inbox[s] \in Messages
    BY <1>2 DEF InboxTyped
  <2>. QED BY <1>2, <2>1 DEF Seen, Messages
<1>. QED BY <1>1, <1>2

LEMMA SeenFields ==
  ASSUME InboxTyped, NEW fit, NEW open, NEW s \in Slots, inbox' = Seen(inbox, fit, open), inbox'[s] # None
  PROVE  /\ inbox[s] # None /\ inbox[s] \in Messages
         /\ inbox'[s].cmd = inbox[s].cmd /\ inbox'[s].step = inbox[s].step /\ inbox'[s].roles = inbox[s].roles
         /\ inbox'[s].fits = inbox[s].fits \union (fit \intersect Of(inbox[s].cmd))
         /\ inbox'[s].open = inbox[s].open \union (open \intersect Of(inbox[s].cmd))
<1>1. inbox[s] # None
  BY DEF Seen
<1>2. inbox[s] \in Messages
  BY <1>1 DEF InboxTyped
<1>. QED BY <1>1, <1>2 DEF Seen, Messages

LEMMA SwitchKnown ==
  ASSUME Known, NEW c, NEW p, Switch(c, p)
  PROVE  Known'
<1> DEFINE open == {x \in Commands : AvailabilityCheck(c, p, x)}
<1>1. RolesTyped' /\ SessionsTyped' /\ \A o \in Owners : SessionKnown(o)'
  BY DEF Switch, Known, RolesTyped, SessionsTyped, SessionKnown
<1>2. inbox' = Seen(inbox, {}, open) /\ Open' = open
  BY DEF Switch, Open, AvailabilityCheck
<1>3. InboxTyped'
  BY <1>2, SeenTyped DEF Known
<1>4. ASSUME NEW s \in Slots, inbox'[s] # None PROVE MessageFacts(inbox[s])'
  <2>1. /\ inbox[s] # None /\ inbox[s] \in Messages
        /\ inbox'[s].cmd = inbox[s].cmd /\ inbox'[s].step = inbox[s].step /\ inbox'[s].roles = inbox[s].roles
        /\ inbox[s].fits \subseteq inbox'[s].fits /\ inbox[s].open \subseteq inbox'[s].open
        /\ open \intersect Of(inbox[s].cmd) \subseteq inbox'[s].open
    BY <1>2, <1>4, SeenFields DEF Known
  <2>2. MessageFacts(inbox[s])
    BY <2>1 DEF Known, MessageKnown
  <2> HIDE DEF open
  <2>. QED BY <1>2, <2>1, <2>2 DEF MessageFacts
<1>. QED BY <1>1, <1>3, <1>4 DEF Known, MessageKnown

LEMMA ChangeRolesKnown ==
  ASSUME Known, ChangeRoles
  PROVE  Known'
<1>1. RolesTyped' /\ roles' \in RoleSets
  BY DEF ChangeRoles, RolesTyped
<1>2. inbox' = Seen(inbox, Fitting(roles'), {}) /\ Open' = Open /\ Fitting(roles') \in SUBSET Commands
  BY DEF ChangeRoles, Open, AvailabilityCheck, Fitting
<1>3. InboxTyped'
  BY <1>2, SeenTyped DEF Known
<1>4. ASSUME NEW s \in Slots, inbox'[s] # None PROVE MessageFacts(inbox[s])'
  <2>1. /\ inbox[s] # None
        /\ inbox'[s].cmd = inbox[s].cmd /\ inbox'[s].step = inbox[s].step /\ inbox'[s].roles = inbox[s].roles
        /\ inbox[s].fits \subseteq inbox'[s].fits /\ inbox[s].open \subseteq inbox'[s].open
    BY <1>2, <1>4, SeenFields DEF Known
  <2>2. MessageFacts(inbox[s])
    BY <2>1 DEF Known, MessageKnown
  <2>. QED BY <1>2, <2>1, <2>2 DEF MessageFacts
<1>5. ASSUME NEW o \in Owners
      PROVE  sessions'[o] \in Sessions \union {None} /\ SessionKnown(o)'
  <2>1. CASE sessions[o] = None
    BY <2>1 DEF ChangeRoles, SessionKnown
  <2>2. CASE sessions[o] # None
    <3>1. sessions[o] \in Sessions
      BY <2>2 DEF Known, SessionsTyped
    <3>2. sessions'[o] = [sessions[o] EXCEPT !.fits = @ \union Fitting(roles')]
      BY <2>2 DEF ChangeRoles
    <3>3. sessions'[o] \in Sessions /\ sessions'[o].roles = sessions[o].roles
          /\ sessions[o].fits \subseteq sessions'[o].fits
      BY <1>2, <3>1, <3>2 DEF Sessions
    <3>. QED BY <2>2, <3>3 DEF Known, SessionKnown
  <2>. QED BY <2>1, <2>2
<1>6. SessionsTyped'
  BY <1>5 DEF ChangeRoles, SessionsTyped
<1>. QED BY <1>1, <1>3, <1>4, <1>5, <1>6 DEF Known, MessageKnown

LEMMA RestartKnown ==
  ASSUME Known, Restart
  PROVE  Known'
BY DEF Restart, Known, RolesTyped, SessionsTyped, InboxTyped, SessionKnown, MessageKnown

\* A step that replaces one message by what satisfies the facts, or by none.
LEMMA OneMessageKnown ==
  ASSUME Known, NEW s \in Slots, NEW q \in Messages \union {None},
         inbox' = [inbox EXCEPT ![s] = q], q # None => MessageFacts(q),
         UNCHANGED <<commands, plugins, roles>>
  PROVE  InboxTyped' /\ RolesTyped' /\ \A r \in Slots : MessageKnown(r)'
<1>1. InboxTyped' /\ RolesTyped' /\ Open' = Open
  BY DEF Known, InboxTyped, RolesTyped, Open, AvailabilityCheck
<1>2. ASSUME NEW r \in Slots PROVE MessageKnown(r)'
  <2>1. inbox'[r] = IF r = s THEN q ELSE inbox[r]
    BY DEF Known, InboxTyped
  <2>. QED BY <1>1, <2>1 DEF Known, MessageKnown, MessageFacts
<1>. QED BY <1>1, <1>2

LEMMA ReceiveKnown ==
  ASSUME Known, NEW s \in Slots, NEW x \in Commands \union {Chat}, Receive(s, x)
  PROVE  Known'
<1> DEFINE q == [cmd |-> x, step |-> "loaded", roles |-> roles,
                 fits |-> Fitting(roles) \intersect Of(x), open |-> Open \intersect Of(x)]
<1>1. q \in Messages
  BY SpecsAssumption DEF Known, RolesTyped, Messages, Fitting, Open
<1>2. MessageFacts(q)
  BY OfCommands DEF MessageFacts, Fitting
<1>3. InboxTyped' /\ RolesTyped' /\ \A r \in Slots : MessageKnown(r)'
  BY <1>1, <1>2, OneMessageKnown DEF Receive
<1>. QED BY <1>3 DEF Receive, Known, SessionsTyped, SessionKnown

LEMMA GuardKnown ==
  ASSUME Known, NEW s \in Slots, Guard(s)
  PROVE  Known'
<1> DEFINE q == inbox[s]
           passed == [q EXCEPT !.step = "guarded"]
<1>1. q \in Messages /\ q.cmd \in Commands /\ MessageFacts(q)
  BY DEF Guard, Known, InboxTyped, Messages, MessageKnown
<1>2. /\ passed \in Messages /\ passed.cmd = q.cmd /\ passed.roles = q.roles
      /\ passed.fits = q.fits /\ passed.open = q.open
  BY <1>1 DEF Messages
<1>3. ASSUME CommandSpec[q.cmd].visible => Allowed(q.cmd, "user", q.roles) PROVE MessageFacts(passed)
  <2>1. CommandSpec[q.cmd].visible => q.cmd \in q.fits \intersect q.open
    BY <1>1, <1>3, OfCommands DEF Allowed, MessageFacts
  <2>. QED BY <1>1, <1>2, <2>1 DEF MessageFacts
<1>4. InboxTyped' /\ RolesTyped' /\ \A r \in Slots : MessageKnown(r)'
  <2>1. CASE CommandSpec[q.cmd].visible => Allowed(q.cmd, "user", q.roles)
    BY <1>2, <1>3, <2>1, OneMessageKnown DEF Guard
  <2>2. CASE ~(CommandSpec[q.cmd].visible => Allowed(q.cmd, "user", q.roles))
    BY <2>2, OneMessageKnown DEF Guard
  <2>. QED BY <2>1, <2>2
<1>. QED BY <1>4 DEF Guard, Known, SessionsTyped, SessionKnown

LEMMA HandleKnown ==
  ASSUME Known, NEW s \in Slots, Handle(s)
  PROVE  Known'
<1>1. InboxTyped' /\ RolesTyped' /\ \A r \in Slots : MessageKnown(r)'
  BY OneMessageKnown DEF Handle
<1>. QED BY <1>1 DEF Handle, Known, SessionsTyped, SessionKnown

LEMMA OpenSessionKnown ==
  ASSUME Known, NEW s \in Slots, OpenSession(s)
  PROVE  Known'
<1> DEFINE q == inbox[s]
           new == [shown |-> Shown(q.roles), roles |-> q.roles, fits |-> q.fits]
<1>1. InboxTyped' /\ RolesTyped' /\ \A r \in Slots : MessageKnown(r)'
  BY OneMessageKnown DEF OpenSession
<1>2. q \in Messages /\ q.cmd = Chat /\ MessageFacts(q)
  BY DEF OpenSession, Known, InboxTyped, MessageKnown
<1>3. new \in Sessions /\ \A x \in Commands : CommandSpec[x].callable /\ Fits(x, new.roles) => x \in new.fits
  BY <1>2 DEF Sessions, Messages, Shown, MessageFacts, Of
<1>4. sessions' = [sessions EXCEPT !.current = new]
  BY DEF OpenSession
<1> HIDE DEF new
<1>5. SessionsTyped' /\ \A o \in Owners : SessionKnown(o)'
  BY <1>3, <1>4 DEF Known, SessionsTyped, SessionKnown, Owners
<1>. QED BY <1>1, <1>5 DEF Known

LEMMA ClearKnown ==
  ASSUME Known, Clear
  PROVE  Known'
<1>1. SessionsTyped' /\ \A o \in Owners : SessionKnown(o)'
  BY DEF Clear, Known, SessionsTyped, SessionKnown, Owners
<1>2. InboxTyped' /\ RolesTyped' /\ Open' = Open /\ inbox' = inbox
  BY DEF Clear, Known, InboxTyped, RolesTyped, Open, AvailabilityCheck
<1>. QED BY <1>1, <1>2 DEF Known, MessageKnown, MessageFacts

LEMMA OthersKnown ==
  ASSUME Known, UNCHANGED <<commands, plugins, roles, sessions, inbox>>
  PROVE  Known'
<1>1. Open' = Open
  BY DEF Open, AvailabilityCheck
<1>. QED BY <1>1 DEF Known, RolesTyped, SessionsTyped, InboxTyped, SessionKnown, MessageKnown, MessageFacts

LEMMA StepKnown == Known /\ [AccessNext]_accessVars => Known'
<1> SUFFICES ASSUME Known, [AccessNext]_accessVars PROVE Known'
  OBVIOUS
<1>1. ASSUME NEW n \in Names, NEW on \in BOOLEAN, UpdateCommandState(n, on) PROVE Known'
  BY <1>1, SwitchKnown DEF UpdateCommandState
<1>2. ASSUME NEW m \in Modules, NEW on \in BOOLEAN, UpdatePluginState(m, on) PROVE Known'
  BY <1>2, SwitchKnown DEF UpdatePluginState
<1>3. CASE Restart
  BY <1>3, RestartKnown
<1>4. CASE ChangeRoles
  BY <1>4, ChangeRolesKnown
<1>5. ASSUME NEW s \in Slots, NEW x \in Commands \union {Chat}, Receive(s, x) PROVE Known'
  BY <1>5, ReceiveKnown
<1>6. ASSUME NEW s \in Slots, Guard(s) \/ Handle(s) \/ OpenSession(s) PROVE Known'
  BY <1>6, GuardKnown, HandleKnown, OpenSessionKnown
<1>7. CASE OfferCommand
  BY <1>7, OthersKnown DEF OfferCommand
<1>8. CASE Clear
  BY <1>8, ClearKnown
<1>9. ASSUME NEW o \in Owners, NEW x \in Commands, Dispatch(o, x) PROVE Known'
  BY <1>9, OthersKnown DEF Dispatch
<1>10. CASE UNCHANGED accessVars
  BY <1>10, OthersKnown DEF accessVars
<1>. QED BY <1>1, <1>2, <1>3, <1>4, <1>5, <1>6, <1>7, <1>8, <1>9, <1>10 DEF AccessNext

-----------------------------------------------------------------------------
\* A handler that begins.
Begun(x, by) == [cmd |-> x, by |-> by]

EntitledStep ==
  \A x \in Commands :
    /\ \A o \in Owners : ran' = Begun(x, o) /\ ran' # ran =>
         x \in Open /\ CommandSpec[x].callable /\ x \in sessions[o].fits
    /\ \A s \in Slots : ran' = Begun(x, s) /\ ran' # ran /\ CommandSpec[x].visible =>
         x \in inbox[s].fits \intersect inbox[s].open

LEMMA BegunIsRecord ==
  \A x, by : Begun(x, by) # None /\ Begun(x, by).cmd = x /\ Begun(x, by).by = by
<1>1. \A x, by : DOMAIN Begun(x, by) = {"cmd", "by"}
  BY DEF Begun
<1>2. DOMAIN None = {"is"}
  BY DEF None
<1>. QED BY <1>1, <1>2 DEF Begun

LEMMA SilentStep == ran' = None \/ ran' = ran => EntitledStep
BY BegunIsRecord DEF EntitledStep

LEMMA HandleEntitled ==
  ASSUME Known, NEW s \in Slots, Handle(s)
  PROVE  EntitledStep
<1>1. CASE ran' = Begun(inbox[s].cmd, s)
  <2>1. ASSUME NEW x, NEW by, ran' = Begun(x, by) PROVE x = inbox[s].cmd /\ by = s
    <3>1. ran'.cmd = x /\ ran'.by = by
      BY <2>1, BegunIsRecord
    <3>. QED BY <1>1, <3>1, BegunIsRecord
  <2>2. CommandSpec[inbox[s].cmd].visible => inbox[s].cmd \in inbox[s].fits \intersect inbox[s].open
    BY DEF Handle, Known, MessageKnown, MessageFacts
  <2>. QED BY <2>1, <2>2, SpecsAssumption DEF EntitledStep, Owners
<1>2. CASE ran' = None
  BY <1>2, SilentStep
<1>. QED BY <1>1, <1>2 DEF Handle, Begun

LEMMA DispatchEntitled ==
  ASSUME Known, NEW o \in Owners, NEW x \in Commands, Dispatch(o, x)
  PROVE  EntitledStep
<1>1. CASE ran' = Begun(x, o) /\ Allowed(x, "agent", sessions[o].roles)
  <2>1. ASSUME NEW y, NEW by, ran' = Begun(y, by) PROVE y = x /\ by = o
    <3>1. ran'.cmd = y /\ ran'.by = by
      BY <2>1, BegunIsRecord
    <3>. QED BY <1>1, <3>1, BegunIsRecord
  <2>2. x \in Open /\ CommandSpec[x].callable /\ x \in sessions[o].fits
    BY <1>1 DEF Dispatch, Allowed, Known, SessionKnown
  <2>. QED BY <2>1, <2>2, SpecsAssumption DEF EntitledStep, Owners
<1>2. CASE ran' = None
  BY <1>2, SilentStep
<1>. QED BY <1>1, <1>2 DEF Dispatch, ExecutorRuns, Begun

LEMMA StepEntitled == Known /\ [AccessNext]_accessVars => EntitledStep
<1> SUFFICES ASSUME Known, [AccessNext]_accessVars PROVE EntitledStep
  OBVIOUS
<1>1. ASSUME NEW s \in Slots, Handle(s) PROVE EntitledStep
  BY <1>1, HandleEntitled
<1>2. ASSUME NEW o \in Owners, NEW x \in Commands, Dispatch(o, x) PROVE EntitledStep
  BY <1>2, DispatchEntitled
<1>3. ASSUME NEW c, NEW p, Switch(c, p) PROVE EntitledStep
  BY <1>3, SilentStep DEF Switch
<1>4. CASE Restart \/ ChangeRoles \/ OfferCommand \/ Clear
  BY <1>4, SilentStep DEF Restart, ChangeRoles, OfferCommand, Clear
<1>5. ASSUME NEW s \in Slots, NEW x, Receive(s, x) PROVE EntitledStep
  BY <1>5, SilentStep DEF Receive
<1>6. ASSUME NEW s \in Slots, Guard(s) \/ OpenSession(s) PROVE EntitledStep
  BY <1>6, SilentStep DEF Guard, OpenSession
<1>7. CASE UNCHANGED accessVars
  BY <1>7, SilentStep DEF accessVars
<1>. QED BY <1>1, <1>2, <1>3, <1>4, <1>5, <1>6, <1>7 DEF AccessNext, UpdateCommandState, UpdatePluginState

\* For any commands, roles and number of messages: a handler begins only for whom
\* it may, whatever switches, roles, sessions and processes have changed between.
THEOREM OnlyEntitledRun == System => EntitledRuns
<1>1. Known /\ [AccessNext]_accessVars => [EntitledStep]_accessVars
  BY StepEntitled
<1>2. System => [][EntitledStep]_accessVars
  BY InitKnown, StepKnown, <1>1, PTL DEF System
<1>. QED BY <1>2 DEF EntitledRuns, EntitledStep, Begun

=============================================================================
