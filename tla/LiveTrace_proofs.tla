--------------------------- MODULE LiveTrace_proofs ---------------------------
(***************************************************************************)
(* What the live trace registry keeps true for every limit and any number   *)
(* of traces and events, and what its watcher is shown.                     *)
(***************************************************************************)
EXTENDS LiveTrace, FiniteSetTheorems, TLAPS

-----------------------------------------------------------------------------
(* Subsequences.                                                           *)

\* r consists of some of the elements of o, in their order.
Sub(r, o) ==
  \E f \in [1..Len(r) -> 1..Len(o)] :
    /\ \A k \in 1..Len(r) : r[k] = o[f[k]]
    /\ \A j, k \in 1..Len(r) : j < k => f[j] < f[k]

\* How many elements of a set of indexes come before one of them.
Below(I, i) == {j \in I : j < i}

\* The indexes of a finite set are numbered by how many come before them.
LEMMA Ranks ==
  ASSUME NEW n \in Nat, NEW I \in SUBSET (1..n)
  PROVE  /\ IsFiniteSet(I) /\ Cardinality(I) \in Nat
         /\ \A i \in I : Cardinality(Below(I, i)) \in 0..Cardinality(I) - 1
         /\ \A i, j \in I : i < j => Cardinality(Below(I, i)) < Cardinality(Below(I, j))
         /\ \A k \in 1..Cardinality(I) :
              \E i \in I : Cardinality(Below(I, i)) = k - 1
<1> DEFINE N == Cardinality(I)
<1>1. IsFiniteSet(I) /\ N \in Nat
  <2>1. IsFiniteSet(1..n)
    BY FS_Interval
  <2>2. IsFiniteSet(I)
    BY <2>1, FS_Subset
  <2> QED
    BY <2>2, FS_CardinalityType
<1>2. ASSUME NEW i \in I
      PROVE  /\ IsFiniteSet(Below(I, i)) /\ Cardinality(Below(I, i)) \in Nat
             /\ Cardinality(Below(I, i)) <= N - 1 /\ i \in Int
  <2>1. IsFiniteSet(I \ {i}) /\ Cardinality(I \ {i}) = N - 1
    BY <1>1, FS_RemoveElement
  <2>2. Below(I, i) \in SUBSET (I \ {i}) /\ i \in Int
    BY DEF Below
  <2> QED
    BY <2>1, <2>2, FS_Subset, FS_CardinalityType
<1>3. ASSUME NEW i \in I, NEW j \in I, i < j
      PROVE  Cardinality(Below(I, i)) < Cardinality(Below(I, j))
  <2>1. i \notin Below(I, i)
    BY <1>2 DEF Below
  <2>2. /\ IsFiniteSet(Below(I, i) \cup {i})
        /\ Cardinality(Below(I, i) \cup {i}) = Cardinality(Below(I, i)) + 1
    BY <1>2, <2>1, FS_AddElement
  <2>3. Below(I, i) \cup {i} \in SUBSET Below(I, j)
    <3>1. i \in Int /\ j \in Int /\ \A x \in I : x \in Int
      OBVIOUS
    <3>2. \A x \in I : x < i => x < j
      BY <1>3, <3>1
    <3> QED
      BY <1>3, <3>2 DEF Below
  <2>4. Cardinality(Below(I, i) \cup {i}) <= Cardinality(Below(I, j))
    BY <1>2, <2>3, FS_Subset
  <2> QED
    BY <1>2, <2>2, <2>4
<1>4. ASSUME NEW k \in 1..N
      PROVE  \E i \in I : Cardinality(Below(I, i)) = k - 1
  <2> DEFINE rk == [i \in I |-> Cardinality(Below(I, i)) + 1]
  <2>1. rk \in [I -> 1..N]
    BY <1>1, <1>2
  <2>2. ASSUME NEW i \in I, NEW j \in I, rk[i] = rk[j]
        PROVE  i = j
    <3>1. Cardinality(Below(I, i)) = Cardinality(Below(I, j))
      BY <1>2, <2>2
    <3> QED
      BY <1>2, <1>3, <3>1
  <2>3. rk \in Injection(I, 1..N)
    BY <2>1, <2>2 DEF Injection, IsInjective
  <2>4. IsFiniteSet(1..N) /\ Cardinality(1..N) = N
    BY <1>1, FS_Interval
  <2>5. rk \in Surjection(I, 1..N)
    BY <2>3, <2>4, FS_Injection
  <2>6. PICK i \in I : rk[i] = k
    BY <2>5 DEF Surjection
  <2> QED
    BY <1>2, <2>6
<1> QED
  BY <1>1, <1>2, <1>3, <1>4

\* Keeping some elements of a sequence: they stay in their order, and none of them
\* is lost.
LEMMA KeepingSub ==
  ASSUME NEW T, NEW o \in Seq(T), NEW S, NEW r, r = Keeping(o, S)
  PROVE  /\ r \in Seq(T) /\ Len(r) <= Len(o)
         /\ Sub(r, o)
         /\ ToSet(r) = ToSet(o) \cap S
         /\ o # <<>> /\ Last(o) \in S => r # <<>> /\ Last(r) = Last(o)
         /\ Len(r) < Len(o) \/ ToSet(o) \subseteq S
<1> DEFINE I == {i \in DOMAIN o : o[i] \in S}
           N == Cardinality(I)
           f == [k \in 1..N |-> CHOOSE i \in I : Cardinality(Below(I, i)) = k - 1]
<1>0. DOMAIN o = 1..Len(o) /\ Len(o) \in Nat /\ \A i \in 1..Len(o) : o[i] \in T
  OBVIOUS
<1>1. I \in SUBSET (1..Len(o))
  BY <1>0
<1>2. r = [k \in 1..N |-> o[f[k]]]
  BY DEF Keeping, Below
<1>3. /\ IsFiniteSet(I) /\ N \in Nat
      /\ \A i \in I : Cardinality(Below(I, i)) \in 0..N - 1
      /\ \A i, j \in I : i < j => Cardinality(Below(I, i)) < Cardinality(Below(I, j))
      /\ \A k \in 1..N : \E i \in I : Cardinality(Below(I, i)) = k - 1
  <2> HIDE DEF I
  <2> QED
    BY <1>0, <1>1, Ranks
<1>4. ASSUME NEW k \in 1..N
      PROVE  f[k] \in I /\ Cardinality(Below(I, f[k])) = k - 1
  <2> HIDE DEF I
  <2> QED
    BY <1>3
<1>5. f \in [1..N -> 1..Len(o)]
  <2>1. \A k \in 1..N : f[k] \in 1..Len(o)
    BY <1>1, <1>4
  <2> QED
    BY <2>1
<1>6. \A k \in 1..N : f[k] \in 1..Len(o) /\ o[f[k]] \in S
  BY <1>0, <1>4
<1>7. \A j, k \in 1..N : j < k => f[j] < f[k]
  <2> SUFFICES ASSUME NEW j \in 1..N, NEW k \in 1..N, j < k, ~(f[j] < f[k])
               PROVE  FALSE
    OBVIOUS
  <2> HIDE DEF I, f
  <2>1. /\ f[j] \in I /\ f[k] \in I /\ f[j] \in Int /\ f[k] \in Int
        /\ Cardinality(Below(I, f[j])) = j - 1 /\ Cardinality(Below(I, f[k])) = k - 1
    BY <1>4, <1>6
  <2>2. f[j] = f[k] \/ f[k] < f[j]
    BY <2>1
  <2> QED
    BY <1>3, <2>1, <2>2
<1>8. \A i \in I : \E k \in 1..N : f[k] = i
  <2> TAKE i \in I
  <2> DEFINE k == Cardinality(Below(I, i)) + 1
  <2>1. k \in 1..N /\ Cardinality(Below(I, i)) = k - 1
    BY <1>3
  <2>2. f[k] \in I /\ Cardinality(Below(I, f[k])) = k - 1
    BY <1>4, <2>1
  <2>3. i \in Int /\ f[k] \in Int
    BY <1>1, <2>2
  <2> HIDE DEF I, f, k
  <2>4. f[k] = i
    BY <1>3, <2>1, <2>2, <2>3
  <2> QED
    BY <2>1, <2>4
<1> HIDE DEF f
<1>9. r \in Seq(T) /\ Len(r) = N
  BY <1>0, <1>2, <1>3, <1>6
<1>10. N <= Len(o) /\ (N = Len(o) => I = 1..Len(o))
  <2>1. IsFiniteSet(1..Len(o)) /\ Cardinality(1..Len(o)) = Len(o)
    <3>1. \A n \in Nat : IsFiniteSet(1..n) /\ Cardinality(1..n) = n
      BY FS_Interval
    <3> QED
      BY <1>0, <3>1
  <2> HIDE DEF I
  <2> QED
    BY <1>1, <2>1, FS_Subset
<1>11. Sub(r, o)
  <2>1. \A k \in 1..Len(r) : r[k] = o[f[k]]
    BY <1>2, <1>9
  <2> QED
    BY <1>5, <1>7, <1>9, <2>1 DEF Sub
<1>12. ToSet(r) = ToSet(o) \cap S
  <2>1. \A k \in 1..N : r[k] = o[f[k]]
    BY <1>2
  <2>2. DOMAIN r = 1..N
    BY <1>2
  <2>3. ToSet(r) \subseteq ToSet(o) \cap S
    BY <1>0, <1>6, <2>1, <2>2 DEF ToSet
  <2>4. ASSUME NEW x \in ToSet(o) \cap S PROVE x \in ToSet(r)
    <3>1. PICK i \in I : o[i] = x
      BY <2>4 DEF ToSet
    <3>2. PICK k \in 1..N : f[k] = i
      BY <1>8, <3>1
    <3> QED
      BY <2>1, <2>2, <3>1, <3>2 DEF ToSet
  <2> QED
    BY <2>3, <2>4
<1>13. ASSUME o # <<>>, Last(o) \in S
       PROVE  r # <<>> /\ Last(r) = Last(o)
  <2>1. Len(o) \in I
    BY <1>0, <1>13 DEF Last
  <2>2. PICK k \in 1..N : f[k] = Len(o)
    BY <1>8, <2>1
  <2>3. N \in 1..N /\ f[N] \in 1..Len(o)
    BY <1>3, <1>6, <2>2
  <2>4. k = N
    BY <1>3, <1>7, <2>2, <2>3
  <2>5. r[N] = o[Len(o)] /\ Len(r) = N
    BY <1>2, <1>9, <2>2, <2>3, <2>4
  <2> QED
    BY <1>9, <2>3, <2>5 DEF Last
<1>14. N = Len(o) => ToSet(o) \subseteq S
  BY <1>0, <1>10 DEF ToSet
<1> HIDE DEF I
<1>15. N < Len(o) \/ N = Len(o)
  BY <1>0, <1>3, <1>10
<1> QED
  BY <1>9, <1>10, <1>11, <1>12, <1>13, <1>14, <1>15

\* The newest elements of a sequence.
LEMMA NewestSub ==
  ASSUME NEW T, NEW o \in Seq(T), NEW n \in Nat \ {0}, NEW r, r = Newest(o, n)
  PROVE  /\ r \in Seq(T) /\ Len(r) <= n /\ Len(r) <= Len(o)
         /\ Sub(r, o)
         /\ o # <<>> => r # <<>> /\ Last(r) = Last(o)
<1>0. DOMAIN o = 1..Len(o) /\ Len(o) \in Nat /\ \A i \in 1..Len(o) : o[i] \in T
  OBVIOUS
<1>1. CASE Len(o) <= n
  <2>1. r = o
    BY <1>1 DEF Newest
  <2>2. Sub(o, o)
    <3> DEFINE f == [k \in 1..Len(o) |-> k]
    <3>1. /\ f \in [1..Len(o) -> 1..Len(o)] /\ \A k \in 1..Len(o) : o[k] = o[f[k]]
          /\ \A j, k \in 1..Len(o) : j < k => f[j] < f[k]
      OBVIOUS
    <3> HIDE DEF f
    <3> QED
      BY <3>1 DEF Sub
  <2> QED
    BY <1>1, <2>1, <2>2
<1>2. CASE ~(Len(o) <= n)
  <2> DEFINE m == Len(o) - n
             f == [k \in 1..n |-> k + m]
  <2>1. m \in Nat /\ Len(o) - n + 1 \in Int
    BY <1>0, <1>2
  <2>2. r = SubSeq(o, Len(o) - n + 1, Len(o))
    BY <1>2 DEF Newest, Latest
  <2>3. \A i \in Len(o) - n + 1..Len(o) : o[i] \in T
    BY <1>0, <1>2
  <2>4. /\ r \in Seq(T) /\ Len(r) = n
        /\ \A i \in 1..n : r[i] = o[i + m]
    BY <1>0, <1>2, <2>2, <2>3
  <2>5. f \in [1..n -> 1..Len(o)] /\ \A k \in 1..n : r[k] = o[f[k]]
    BY <1>0, <2>1, <2>4
  <2>6. \A j, k \in 1..n : j < k => f[j] < f[k]
    BY <2>1
  <2>7. Last(r) = Last(o) /\ r # <<>>
    <3>1. n \in 1..n /\ r[n] = o[n + m] /\ n + m = Len(o)
      BY <1>0, <2>1, <2>4
    <3> QED
      BY <2>4, <3>1 DEF Last
  <2> HIDE DEF f, m
  <2>8. Sub(r, o)
    BY <2>4, <2>5, <2>6 DEF Sub
  <2>9. n <= n /\ n <= Len(o)
    BY <1>0, <1>2
  <2> QED
    BY <2>4, <2>7, <2>8, <2>9
<1> QED
  BY <1>1, <1>2

\* A subsequence of a subsequence.
LEMMA SubTrans ==
  ASSUME NEW T, NEW o \in Seq(T), NEW p \in Seq(T), NEW r \in Seq(T), Sub(r, p), Sub(p, o)
  PROVE  Sub(r, o)
<1>1. PICK f \in [1..Len(r) -> 1..Len(p)] :
        /\ \A k \in 1..Len(r) : r[k] = p[f[k]]
        /\ \A j, k \in 1..Len(r) : j < k => f[j] < f[k]
  BY DEF Sub
<1>2. PICK g \in [1..Len(p) -> 1..Len(o)] :
        /\ \A k \in 1..Len(p) : p[k] = o[g[k]]
        /\ \A j, k \in 1..Len(p) : j < k => g[j] < g[k]
  BY DEF Sub
<1> DEFINE h == [k \in 1..Len(r) |-> g[f[k]]]
<1>3. h \in [1..Len(r) -> 1..Len(o)]
  BY <1>1, <1>2
<1>4. \A k \in 1..Len(r) : r[k] = o[h[k]]
  BY <1>1, <1>2
<1>5. \A j, k \in 1..Len(r) : j < k => h[j] < h[k]
  BY <1>1, <1>2
<1> HIDE DEF h
<1> QED
  BY <1>3, <1>4, <1>5 DEF Sub

\* The elements of a subsequence are among those of the sequence.
LEMMA SubSet ==
  ASSUME NEW T, NEW o \in Seq(T), NEW r \in Seq(T), Sub(r, o)
  PROVE  ToSet(r) \subseteq ToSet(o)
<1>1. PICK f \in [1..Len(r) -> 1..Len(o)] : \A k \in 1..Len(r) : r[k] = o[f[k]]
  BY DEF Sub
<1>2. DOMAIN r = 1..Len(r) /\ DOMAIN o = 1..Len(o)
  OBVIOUS
<1> QED
  BY <1>1, <1>2 DEF ToSet

\* What is added to a sequence is one more of its elements, and the last.
LEMMA AppendSet ==
  ASSUME NEW T, NEW o \in Seq(T), NEW t \in T
  PROVE  /\ ToSet(Append(o, t)) = ToSet(o) \cup {t}
         /\ Append(o, t) # <<>> /\ Last(Append(o, t)) = t
<1>1. /\ Len(Append(o, t)) = Len(o) + 1 /\ Append(o, t)[Len(o) + 1] = t
      /\ \A i \in 1..Len(o) : Append(o, t)[i] = o[i]
      /\ DOMAIN Append(o, t) = 1..Len(o) + 1 /\ DOMAIN o = 1..Len(o)
  OBVIOUS
<1> QED
  BY <1>1 DEF ToSet, Last

-----------------------------------------------------------------------------
(* The operations of the registry on the order of its traces.              *)

\* Pruning leaves at most max_traces, none of them overdue, in their order, and
\* never gives up the last one if it is not overdue.
LEMMA PrunedSub ==
  ASSUME NEW o \in Seq(Traces), NEW late, NEW r, r = Pruned(o, late)
  PROVE  /\ r \in Seq(Traces) /\ Len(r) <= MaxTraces
         /\ Sub(r, o) /\ ToSet(r) \subseteq ToSet(o) \ late
         /\ o # <<>> /\ Last(o) \notin late => r # <<>> /\ Last(r) = Last(o)
<1> DEFINE q == Keeping(o, Traces \ late)
<1>1. r = Newest(q, MaxTraces)
  BY DEF Pruned
<1>a. PICK S : S = Traces \ late
  OBVIOUS
<1>b. q = Keeping(o, S)
  BY <1>a
<1> HIDE DEF q
<1>2. /\ q \in Seq(Traces) /\ Sub(q, o)
      /\ ToSet(q) = ToSet(o) \cap (Traces \ late)
      /\ o # <<>> /\ Last(o) \in Traces \ late => q # <<>> /\ Last(q) = Last(o)
  <2>1. q \in Seq(Traces) /\ Sub(q, o) /\ ToSet(q) = ToSet(o) \cap S
    BY <1>b, KeepingSub
  <2>2. o # <<>> /\ Last(o) \in S => q # <<>> /\ Last(q) = Last(o)
    BY <1>b, KeepingSub
  <2> QED
    BY <1>a, <2>1, <2>2
<1>3. MaxTraces \in Nat \ {0}
  BY LimitAssumption
<1>4. /\ r \in Seq(Traces) /\ Len(r) <= MaxTraces /\ Sub(r, q)
      /\ q # <<>> => r # <<>> /\ Last(r) = Last(q)
  BY <1>1, <1>2, <1>3, NewestSub
<1>5. Sub(r, o) /\ ToSet(r) \subseteq ToSet(q)
  BY <1>2, <1>4, SubTrans, SubSet
<1>6. o # <<>> => Last(o) \in Traces
  BY DEF Last
<1> QED
  BY <1>2, <1>4, <1>5, <1>6

\* The order of the traces, as far as it follows their latest events.
Ascends(o, b) ==
  \A i, j \in 1..Len(o) : i < j => Last(b[o[i]]) < Last(b[o[j]])

LEMMA SubAscends ==
  ASSUME NEW o \in Seq(Traces), NEW r \in Seq(Traces), Sub(r, o), NEW b, NEW c,
         Ascends(o, b), \A t \in ToSet(r) : c[t] = b[t]
  PROVE  Ascends(r, c)
<1>1. PICK f \in [1..Len(r) -> 1..Len(o)] :
        /\ \A k \in 1..Len(r) : r[k] = o[f[k]]
        /\ \A j, k \in 1..Len(r) : j < k => f[j] < f[k]
  BY DEF Sub
<1>2. \A k \in 1..Len(r) : c[r[k]] = b[o[f[k]]]
  BY <1>1 DEF ToSet
<1> QED
  BY <1>1, <1>2 DEF Ascends

LEMMA AppendAscends ==
  ASSUME NEW o \in Seq(Traces), NEW t \in Traces, NEW b, Ascends(o, b),
         \A u \in ToSet(o) : Last(b[u]) < Last(b[t])
  PROVE  Ascends(Append(o, t), b)
<1>1. /\ Len(Append(o, t)) = Len(o) + 1 /\ Append(o, t)[Len(o) + 1] = t
      /\ \A i \in 1..Len(o) : Append(o, t)[i] = o[i]
      /\ Len(o) \in Nat
  OBVIOUS
<1>2. \A i \in 1..Len(o) : Last(b[o[i]]) < Last(b[t])
  BY DEF ToSet
<1> SUFFICES ASSUME NEW i \in 1..Len(o) + 1, NEW j \in 1..Len(o) + 1, i < j
             PROVE  Last(b[Append(o, t)[i]]) < Last(b[Append(o, t)[j]])
  BY <1>1 DEF Ascends
<1>3. i \in 1..Len(o)
  BY <1>1
<1>4. CASE j \in 1..Len(o)
  BY <1>1, <1>3, <1>4 DEF Ascends
<1>5. CASE j = Len(o) + 1
  BY <1>1, <1>2, <1>3, <1>5
<1> QED
  BY <1>1, <1>4, <1>5

-----------------------------------------------------------------------------
(* The events a trace keeps.                                               *)

\* Sequence numbers of events, in their order, none greater than n.
Rising(b, n) ==
  /\ \A i \in 1..Len(b) : b[i] <= n
  /\ \A i, j \in 1..Len(b) : i < j => b[i] < b[j]

LEMMA NumbersKept ==
  ASSUME NEW b \in Seq(1..MaxSequence)
  PROVE  /\ \A i \in 1..Len(b) : b[i] \in 1..MaxSequence /\ b[i] \in Int
         /\ ToSet(b) \subseteq Int /\ DOMAIN b = 1..Len(b)
<1>1. PICK T : T = 1..MaxSequence
  OBVIOUS
<1>2. b \in Seq(T)
  BY <1>1
<1>3. (\A i \in 1..Len(b) : b[i] \in T) /\ DOMAIN b = 1..Len(b)
  BY <1>2
<1>4. T \subseteq Int
  BY <1>1
<1> QED
  BY <1>1, <1>3, <1>4 DEF ToSet

\* One more event: the buffer stays within its size and in order.
LEMMA BufferGrows ==
  ASSUME NEW b \in Seq(1..MaxSequence), NEW n \in 0..MaxSequence, n < MaxSequence,
         NEW c, c = Newest(Append(b, n + 1), MaxEvents)
  PROVE  /\ c \in Seq(1..MaxSequence) /\ c # <<>> /\ Last(c) = n + 1
         /\ Len(c) <= MaxEvents
         /\ ToSet(c) \subseteq ToSet(b) \cup {n + 1}
         /\ Rising(b, n) => Rising(c, n + 1)
<1>1. MaxEvents \in Nat \ {0} /\ MaxSequence \in Nat
  BY LimitAssumption
<1>m. PICK m \in 1..MaxSequence : m = n + 1
  BY <1>1
<1>n. PICK T : T = 1..MaxSequence
  OBVIOUS
<1>t. b \in Seq(T) /\ m \in T
  BY <1>m, <1>n
<1> DEFINE a == Append(b, m)
<1>2. /\ a \in Seq(1..MaxSequence) /\ a # <<>> /\ Last(a) = m
      /\ ToSet(a) = ToSet(b) \cup {m}
  <2>1. a \in Seq(T)
    BY <1>t
  <2>2. a # <<>> /\ Last(a) = m /\ ToSet(a) = ToSet(b) \cup {m}
    BY <1>t, AppendSet
  <2> QED
    BY <1>n, <2>1, <2>2
<1>3. Rising(b, n) => Rising(a, n + 1)
  <2> SUFFICES ASSUME Rising(b, n) PROVE Rising(a, n + 1)
    OBVIOUS
  <2>a. /\ Len(a) = Len(b) + 1 /\ a[Len(b) + 1] = m /\ Len(b) \in Nat
        /\ \A i \in 1..Len(b) : a[i] = b[i]
    BY <1>m
  <2>b. \A i \in 1..Len(b) : b[i] \in 1..MaxSequence
    <3>1. \A i \in 1..Len(b) : b[i] \in T
      BY <1>t
    <3> QED
      BY <1>n, <3>1
  <2>1. /\ Len(a) = Len(b) + 1 /\ a[Len(b) + 1] = n + 1 /\ Len(b) \in Nat
        /\ \A i \in 1..Len(b) : a[i] = b[i] /\ b[i] \in 1..MaxSequence
    BY <1>m, <2>a, <2>b
  <2> HIDE DEF a
  <2>2. \A i \in 1..Len(b) : a[i] <= n /\ a[i] < n + 1 /\ a[i] <= n + 1
    BY <2>1 DEF Rising
  <2>3. \A i \in 1..Len(a) : i \in 1..Len(b) \/ i = Len(b) + 1
    BY <2>1
  <2>4. \A i \in 1..Len(a) : a[i] <= n + 1
    BY <2>1, <2>2, <2>3
  <2>5. ASSUME NEW i \in 1..Len(a), NEW j \in 1..Len(a), i < j
        PROVE  a[i] < a[j]
    <3>1. i \in 1..Len(b)
      BY <2>1, <2>5
    <3>2. CASE j \in 1..Len(b)
      BY <2>1, <2>5, <3>1, <3>2 DEF Rising
    <3>3. CASE j = Len(b) + 1
      BY <2>1, <2>2, <3>1, <3>3
    <3> QED
      BY <2>3, <3>2, <3>3
  <2> QED
    BY <2>4, <2>5 DEF Rising
<1>4. c = Newest(a, MaxEvents)
  BY <1>m
<1> HIDE DEF a
<1>5. /\ c \in Seq(1..MaxSequence) /\ Len(c) <= MaxEvents /\ Sub(c, a)
      /\ c # <<>> /\ Last(c) = Last(a)
  BY <1>1, <1>2, <1>4, NewestSub
<1>6. ToSet(c) \subseteq ToSet(a)
  BY <1>2, <1>5, SubSet
<1>7. Rising(a, n + 1) => Rising(c, n + 1)
  <2> SUFFICES ASSUME Rising(a, n + 1) PROVE Rising(c, n + 1)
    OBVIOUS
  <2>1. PICK f \in [1..Len(c) -> 1..Len(a)] :
          /\ \A k \in 1..Len(c) : c[k] = a[f[k]]
          /\ \A j, k \in 1..Len(c) : j < k => f[j] < f[k]
    BY <1>5 DEF Sub
  <2>2. /\ \A i \in 1..Len(a) : a[i] <= n + 1
        /\ \A i, j \in 1..Len(a) : i < j => a[i] < a[j]
    BY DEF Rising
  <2>3. \A k \in 1..Len(c) : f[k] \in 1..Len(a)
    OBVIOUS
  <2>4. \A k \in 1..Len(c) : c[k] <= n + 1
    BY <2>1, <2>2, <2>3
  <2>5. \A j, k \in 1..Len(c) : j < k => c[j] < c[k]
    BY <2>1, <2>2, <2>3
  <2> QED
    BY <2>4, <2>5 DEF Rising
<1> QED
  BY <1>m, <1>2, <1>3, <1>5, <1>6, <1>7

-----------------------------------------------------------------------------
(* Type correctness.                                                       *)

LEMMA PrunedType ==
  ASSUME TypeOK
  PROVE  Pruned(order, overdue) \in Seq(Traces)
BY PrunedSub DEF TypeOK

LEMMA ForgetType ==
  ASSUME TypeOK, NEW o \in Seq(Traces), Forget(o)
  PROVE  /\ order' \in Seq(Traces)
         /\ status' \in [Traces -> RecordStatuses]
         /\ buffer' \in [Traces -> Seq(1..MaxSequence)]
         /\ finished' \subseteq Traces /\ overdue' \subseteq finished'
<1>1. <<>> \in Seq(1..MaxSequence) /\ "running" \in RecordStatuses
  BY DEF RecordStatuses
<1> QED
  BY <1>1 DEF TypeOK, Forget

LEMMA StatusAfterType ==
  ASSUME TypeOK, NEW t \in Traces, NEW s \in EventStatuses
  PROVE  StatusAfter(t, s) \in RecordStatuses
BY StatusAssumption DEF TypeOK, StatusAfter, RecordStatuses

LEMMA NotifyType == TypeOK /\ Notify => queued' \in 0..QueueSize
BY LimitAssumption DEF TypeOK, Notify

\* Taking the order of a trace up again.
LEMMA TouchedSub ==
  ASSUME NEW o \in Seq(Traces), NEW t \in Traces
  PROVE  \E p \in Seq(Traces) :
           /\ Touched(o, t) = Append(p, t) /\ Sub(p, o) /\ t \notin ToSet(p)
           /\ ToSet(p) = ToSet(o) \ {t}
           /\ t \in ToSet(o) => Len(p) < Len(o)
<1> DEFINE p == Keeping(o, Traces \ {t})
<1>1. Touched(o, t) = Append(p, t) /\ p = Keeping(o, Traces \ {t})
  BY DEF Touched
<1> HIDE DEF p
<1>2. p \in Seq(Traces) /\ Sub(p, o)
  BY <1>1, KeepingSub
<1>3. ToSet(p) = ToSet(o) \cap (Traces \ {t})
  BY <1>1, KeepingSub
<1>4. Len(p) < Len(o) \/ ToSet(o) \subseteq Traces \ {t}
  BY <1>1, KeepingSub
<1>5. ToSet(o) \subseteq Traces
  BY DEF ToSet
<1> QED
  BY <1>1, <1>2, <1>3, <1>4, <1>5

LEMMA StartType ==
  ASSUME TypeOK, NEW t \in Traces, StartTrace(t)
  PROVE  TypeOK'
<1> DEFINE p == Pruned(order, overdue)
           o == Pruned(Append(p, t), {})
<1>1. p \in Seq(Traces)
  BY PrunedType
<1> HIDE DEF p
<1>2. Append(p, t) \in Seq(Traces)
  BY <1>1
<1>3. o \in Seq(Traces)
  BY <1>2, PrunedSub
<1>4. /\ order' = o /\ overdue' = {} /\ finished' = finished \cap ToSet(o)
      /\ buffer' = [u \in Traces |->
           IF u = t THEN <<sequence + 1>> ELSE IF u \in ToSet(o) THEN buffer[u] ELSE <<>>]
      /\ status' = [u \in Traces |->
           IF u \in ToSet(o) \ {t} THEN status[u] ELSE "running"]
      /\ started' = t /\ sequence' = sequence + 1 /\ sequence < MaxSequence
      /\ Notify /\ UNCHANGED watching
  BY DEF StartTrace, NextSequence, p
<1> HIDE DEF o
<1>5. sequence' \in 0..MaxSequence /\ started' \in 0..MaxStarted
  BY <1>4, LimitAssumption DEF TypeOK, Traces
<1>6. sequence + 1 \in 1..MaxSequence /\ <<>> \in Seq(1..MaxSequence)
  BY <1>4, LimitAssumption DEF TypeOK
<1>7. <<sequence + 1>> \in Seq(1..MaxSequence)
  BY <1>6
<1>8. buffer' \in [Traces -> Seq(1..MaxSequence)]
  BY <1>4, <1>6, <1>7 DEF TypeOK
<1>9. status' \in [Traces -> RecordStatuses]
  BY <1>4 DEF TypeOK, RecordStatuses
<1>10. queued' \in 0..QueueSize
  BY <1>4, NotifyType
<1> QED
  BY <1>3, <1>4, <1>5, <1>8, <1>9, <1>10 DEF TypeOK, watching

LEMMA BufferAfterType ==
  ASSUME TypeOK, NEW t \in Traces, NextSequence
  PROVE  BufferAfter(t) \in Seq(1..MaxSequence) /\ sequence' \in 0..MaxSequence
<1>1. /\ sequence \in 0..MaxSequence /\ sequence < MaxSequence /\ sequence' = sequence + 1
      /\ buffer[t] \in Seq(1..MaxSequence)
  BY DEF TypeOK, NextSequence
<1>2. PICK b \in Seq(1..MaxSequence), n \in 0..MaxSequence : b = buffer[t] /\ n = sequence
  BY <1>1
<1>3. Newest(Append(b, n + 1), MaxEvents) \in Seq(1..MaxSequence)
  BY <1>1, <1>2, BufferGrows
<1> QED
  BY <1>1, <1>2, <1>3, LimitAssumption DEF BufferAfter

LEMMA EmitType ==
  ASSUME TypeOK, NEW t \in Traces, NEW s \in EventStatuses, Emit(t, s)
  PROVE  TypeOK'
<1>1. BufferAfter(t) \in Seq(1..MaxSequence) /\ sequence' \in 0..MaxSequence
  BY BufferAfterType DEF Emit
<1>2. PICK p \in Seq(Traces) : Touched(order, t) = Append(p, t)
  BY TouchedSub DEF TypeOK
<1>3. order' \in Seq(Traces)
  BY <1>2 DEF Emit
<1>4. StatusAfter(t, s) \in RecordStatuses
  BY StatusAfterType
<1>5. queued' \in 0..QueueSize
  BY NotifyType DEF Emit
<1> QED
  BY <1>1, <1>3, <1>4, <1>5 DEF Emit, TypeOK, watching

LEMMA FinishType ==
  ASSUME TypeOK, NEW t \in Traces, NEW s \in FinalStatuses, FinishTrace(t, s)
  PROVE  TypeOK'
<1> DEFINE o == Pruned(Touched(order, t), overdue \ {t})
<1>1. BufferAfter(t) \in Seq(1..MaxSequence) /\ sequence' \in 0..MaxSequence
  BY BufferAfterType DEF FinishTrace
<1>2. Touched(order, t) \in Seq(Traces)
  <2>1. PICK p \in Seq(Traces) : Touched(order, t) = Append(p, t)
    BY TouchedSub DEF TypeOK
  <2> QED
    BY <2>1
<1>3. o \in Seq(Traces)
  BY <1>2, PrunedSub
<1>4. /\ order' = o /\ overdue' = {} /\ finished' = (finished \cap ToSet(o)) \cup {t}
      /\ buffer' = [u \in Traces |->
           IF u = t THEN BufferAfter(t) ELSE IF u \in ToSet(o) THEN buffer[u] ELSE <<>>]
      /\ status' = [u \in Traces |->
           IF u = t THEN s ELSE IF u \in ToSet(o) THEN status[u] ELSE "running"]
      /\ Notify /\ UNCHANGED <<started, watching>>
  BY DEF FinishTrace
<1> HIDE DEF o
<1>5. s \in RecordStatuses /\ "running" \in RecordStatuses /\ <<>> \in Seq(1..MaxSequence)
  <2>1. s \in {"completed", "failed"}
    BY StatusAssumption
  <2> QED
    BY <2>1 DEF RecordStatuses
<1>6. buffer' \in [Traces -> Seq(1..MaxSequence)]
  BY <1>1, <1>4, <1>5 DEF TypeOK
<1>7. status' \in [Traces -> RecordStatuses]
  BY <1>4, <1>5 DEF TypeOK
<1>8. queued' \in 0..QueueSize
  BY <1>4, NotifyType
<1> QED
  BY <1>1, <1>3, <1>4, <1>6, <1>7, <1>8 DEF TypeOK, watching

LEMMA TypeNext == TypeOK /\ [Next]_vars => TypeOK'
<1> SUFFICES ASSUME TypeOK, [Next]_vars PROVE TypeOK'
  OBVIOUS
<1>1. CASE \E t \in Traces : StartTrace(t)
  BY <1>1, StartType
<1>2. CASE \E t \in Traces : \E s \in EventStatuses : Emit(t, s)
  BY <1>2, EmitType
<1>3. CASE \E t \in Traces : \E s \in FinalStatuses : FinishTrace(t, s)
  BY <1>3, FinishType
<1>4. CASE \E t \in Traces : RetentionPasses(t)
  BY <1>4 DEF RetentionPasses, TypeOK, watching
<1>5. CASE Clear
  <2>1. <<>> \in Seq(Traces) /\ 0 \in 0..MaxSequence
    BY LimitAssumption
  <2>2. /\ order' \in Seq(Traces) /\ status' \in [Traces -> RecordStatuses]
        /\ buffer' \in [Traces -> Seq(1..MaxSequence)]
        /\ finished' \subseteq Traces /\ overdue' \subseteq finished'
    BY <1>5, <2>1, ForgetType DEF Clear
  <2>3. queued' \in 0..QueueSize
    BY <1>5, NotifyType DEF Clear
  <2> QED
    BY <1>5, <2>1, <2>2, <2>3 DEF Clear, TypeOK, watching
<1>6. CASE SendSnapshot \/ LookUpHistory \/ SendListed
  <2>1. Forget(Pruned(order, overdue))
    BY <1>6 DEF SendSnapshot, LookUpHistory, SendListed
  <2>2. /\ order' \in Seq(Traces) /\ status' \in [Traces -> RecordStatuses]
        /\ buffer' \in [Traces -> Seq(1..MaxSequence)]
        /\ finished' \subseteq Traces /\ overdue' \subseteq finished'
    BY <2>1, PrunedType, ForgetType
  <2>3. /\ viewer' \in {"waiting", "listing"}
        /\ UNCHANGED <<sequence, started, selected, queued>>
    BY <1>6 DEF SendSnapshot, LookUpHistory, SendListed, Show
  <2> QED
    BY <2>2, <2>3 DEF TypeOK
<1>7. CASE TakeNotification \/ Connect \/ SelectTrace \/ Disconnect
  BY <1>7, LimitAssumption DEF TakeNotification, Connect, SelectTrace, Disconnect, TypeOK, records
<1>8. CASE UNCHANGED vars
  BY <1>8 DEF vars, records, watching, TypeOK
<1> QED
  BY <1>1, <1>2, <1>3, <1>4, <1>5, <1>6, <1>7, <1>8 DEF Next, Registry, Handler

LEMMA TypeInit == Init => TypeOK
<1>1. <<>> \in Seq(Traces) /\ <<>> \in Seq(1..MaxSequence) /\ "running" \in RecordStatuses
  BY DEF RecordStatuses
<1> QED
  BY <1>1, LimitAssumption DEF Init, TypeOK

\* The variables keep their types, for every limit and any number of traces.
THEOREM TypeCorrect == Spec => []TypeOK
BY TypeInit, TypeNext, PTL DEF Spec

-----------------------------------------------------------------------------
(* The registry.  The order of the traces is that of their latest events,   *)
(* so it holds each at most once; numbers are never used again, for none is *)
(* greater than the last one given out, and a trace that starts is new.     *)

RegInv ==
  /\ Len(order) <= MaxTraces
  /\ Ascends(order, buffer)
  /\ Known \subseteq 1..started
  /\ finished \subseteq Known
  /\ \A t \in Traces :
       /\ buffer[t] # <<>> <=> t \in Known
       /\ Len(buffer[t]) <= MaxEvents
       /\ Rising(buffer[t], sequence)
  /\ \A t, u \in Traces : t # u => ToSet(buffer[t]) \cap ToSet(buffer[u]) = {}

\* The order r after an event of t: what was left of the order, then t, pruned.
Moved(r, o, t) ==
  /\ r \in Seq(Traces) /\ Len(r) <= MaxTraces /\ t \in ToSet(r)
  /\ ToSet(r) \subseteq ToSet(o) \cup {t}
  /\ \E p \in Seq(Traces) : Sub(p, o) /\ t \notin ToSet(p) /\ Sub(r, Append(p, t))

LEMMA LastIn ==
  ASSUME NEW T, NEW o \in Seq(T), o # <<>>
  PROVE  Last(o) \in ToSet(o)
<1>1. Len(o) \in 1..Len(o) /\ DOMAIN o = 1..Len(o)
  OBVIOUS
<1> QED
  BY <1>1 DEF ToSet, Last

LEMMA SubSelf ==
  ASSUME NEW T, NEW o \in Seq(T)
  PROVE  Sub(o, o)
<1> DEFINE f == [k \in 1..Len(o) |-> k]
<1>1. /\ f \in [1..Len(o) -> 1..Len(o)] /\ \A k \in 1..Len(o) : o[k] = o[f[k]]
      /\ \A j, k \in 1..Len(o) : j < k => f[j] < f[k]
  OBVIOUS
<1> HIDE DEF f
<1> QED
  BY <1>1 DEF Sub

\* A trace that starts, one that says something, and one that finishes.
LEMMA StartMoves ==
  ASSUME NEW o \in Seq(Traces), NEW t \in Traces, t \notin ToSet(o), NEW late,
         NEW r, r = Pruned(Append(Pruned(o, late), t), {})
  PROVE  Moved(r, o, t)
<1>1. PICK p : p = Pruned(o, late)
  OBVIOUS
<1>2. p \in Seq(Traces) /\ Sub(p, o) /\ ToSet(p) \subseteq ToSet(o)
  BY <1>1, PrunedSub
<1>a. Append(p, t) \in Seq(Traces)
  BY <1>2
<1>3. PICK a \in Seq(Traces) : a = Append(p, t)
  BY <1>a
<1>4. a # <<>> /\ Last(a) = t /\ ToSet(a) = ToSet(p) \cup {t}
  BY <1>2, <1>3, AppendSet
<1>b. r = Pruned(a, {}) /\ Last(a) \notin {}
  BY <1>1, <1>3
<1>c. r \in Seq(Traces) /\ Len(r) <= MaxTraces /\ Sub(r, a) /\ ToSet(r) \subseteq ToSet(a)
  BY <1>b, PrunedSub
<1>d. r # <<>> /\ Last(r) = t
  BY <1>b, <1>4, PrunedSub
<1>5. /\ r \in Seq(Traces) /\ Len(r) <= MaxTraces /\ Sub(r, a) /\ ToSet(r) \subseteq ToSet(a)
      /\ r # <<>> /\ Last(r) = t
  BY <1>c, <1>d
<1>6. t \in ToSet(r)
  BY <1>5, LastIn
<1> QED
  BY <1>2, <1>3, <1>4, <1>5, <1>6 DEF Moved

LEMMA EmitMoves ==
  ASSUME NEW o \in Seq(Traces), NEW t \in ToSet(o), Len(o) <= MaxTraces,
         NEW r, r = Touched(o, t)
  PROVE  Moved(r, o, t) /\ ToSet(r) = ToSet(o)
<1>0. t \in Traces
  BY DEF ToSet
<1>1. PICK p \in Seq(Traces) :
        /\ r = Append(p, t) /\ Sub(p, o) /\ t \notin ToSet(p)
        /\ ToSet(p) = ToSet(o) \ {t} /\ Len(p) < Len(o)
  BY <1>0, TouchedSub
<1>2. r \in Seq(Traces) /\ Len(r) = Len(p) + 1 /\ Len(p) \in Nat /\ Len(o) \in Nat
  BY <1>0, <1>1
<1>3. Len(r) <= MaxTraces
  BY <1>1, <1>2, LimitAssumption
<1>4. ToSet(r) = ToSet(o)
  <2>1. ToSet(r) = ToSet(p) \cup {t}
    BY <1>0, <1>1, AppendSet
  <2> QED
    BY <1>1, <2>1
<1>5. Sub(r, Append(p, t))
  BY <1>1, <1>2, SubSelf
<1> QED
  BY <1>1, <1>2, <1>3, <1>4, <1>5 DEF Moved

LEMMA FinishMoves ==
  ASSUME NEW o \in Seq(Traces), NEW t \in ToSet(o), NEW late,
         NEW r, r = Pruned(Touched(o, t), late \ {t})
  PROVE  Moved(r, o, t)
<1>0. t \in Traces
  BY DEF ToSet
<1>1. PICK p \in Seq(Traces) :
        /\ Touched(o, t) = Append(p, t) /\ Sub(p, o) /\ t \notin ToSet(p)
        /\ ToSet(p) = ToSet(o) \ {t}
  BY <1>0, TouchedSub
<1>2. PICK a \in Seq(Traces) : a = Append(p, t)
  BY <1>0, <1>1
<1>3. a # <<>> /\ Last(a) = t /\ ToSet(a) = ToSet(p) \cup {t}
  BY <1>0, <1>1, <1>2, AppendSet
<1>4. PICK l : l = late \ {t}
  OBVIOUS
<1>5. r = Pruned(a, l) /\ t \notin l
  BY <1>1, <1>2, <1>4
<1>6. r \in Seq(Traces) /\ Len(r) <= MaxTraces /\ Sub(r, a) /\ ToSet(r) \subseteq ToSet(a)
  BY <1>5, PrunedSub
<1>7. r # <<>> /\ Last(r) = t
  BY <1>3, <1>5, PrunedSub
<1>8. t \in ToSet(r)
  BY <1>6, <1>7, LastIn
<1> QED
  BY <1>1, <1>2, <1>3, <1>6, <1>8 DEF Moved

\* What a trace's buffer is after an event of it.
Fresh(b, old) ==
  /\ b \in Seq(1..MaxSequence) /\ b # <<>> /\ Last(b) = sequence + 1
  /\ Len(b) <= MaxEvents /\ Rising(b, sequence + 1)
  /\ ToSet(b) \subseteq ToSet(old) \cup {sequence + 1}

\* An event of a trace keeps the registry in order, whatever is pruned with it.
LEMMA EventKeeps ==
  ASSUME TypeOK, TypeOK', RegInv, NEW t \in Traces, sequence' = sequence + 1,
         Moved(order', order, t), Fresh(buffer'[t], buffer[t]),
         \A u \in Traces \ {t} :
           buffer'[u] = IF u \in ToSet(order') THEN buffer[u] ELSE <<>>,
         finished' \subseteq ToSet(order'),
         ToSet(order') \subseteq 1..started'
  PROVE  RegInv'
<1>0. /\ order \in Seq(Traces) /\ buffer \in [Traces -> Seq(1..MaxSequence)]
      /\ sequence \in Nat /\ DOMAIN order = 1..Len(order) /\ Known \subseteq Traces
  BY LimitAssumption DEF TypeOK, Known, ToSet
<1>1. PICK p \in Seq(Traces) : Sub(p, order) /\ t \notin ToSet(p) /\ Sub(order', Append(p, t))
  BY DEF Moved
<1>2. /\ order' \in Seq(Traces) /\ Len(order') <= MaxTraces /\ t \in ToSet(order')
      /\ ToSet(order') \subseteq Known \cup {t}
  BY DEF Moved, Known
<1>3. ASSUME NEW u \in Known
      PROVE  Last(buffer[u]) \in ToSet(buffer[u]) /\ Last(buffer[u]) <= sequence
  <2>1. buffer[u] # <<>> /\ buffer[u] \in Seq(1..MaxSequence) /\ Rising(buffer[u], sequence)
    BY <1>0, <1>3 DEF RegInv
  <2>2. Len(buffer[u]) \in 1..Len(buffer[u])
    BY <2>1
  <2> QED
    BY <2>1, <2>2, LastIn DEF Rising, Last
<1> DEFINE c == [u \in Traces |-> IF u = t THEN buffer'[t] ELSE buffer[u]]
<1>4. Ascends(order', buffer')
  <2>1. Ascends(p, c)
    <3>1. \A u \in ToSet(p) : c[u] = buffer[u]
      BY <1>1 DEF ToSet
    <3> HIDE DEF c
    <3>2. Ascends(order, buffer)
      BY DEF RegInv
    <3>3. order \in Seq(Traces) /\ p \in Seq(Traces) /\ Sub(p, order)
      BY <1>0, <1>1
    <3> QED
      BY <3>1, <3>2, <3>3, SubAscends
  <2>2. \A u \in ToSet(p) : Last(c[u]) < Last(c[t])
    <3>1. ToSet(p) \subseteq Known
      BY <1>0, <1>1, SubSet DEF Known
    <3>2. \A u \in ToSet(p) : c[u] = buffer[u] /\ Last(buffer[u]) <= sequence
                              /\ Last(buffer[u]) \in ToSet(buffer[u])
      BY <1>0, <1>1, <1>3, <3>1
    <3>3. Last(c[t]) = sequence + 1
      BY DEF Fresh
    <3>4. \A u \in ToSet(p) : ToSet(buffer[u]) \subseteq Int
      <4> TAKE u \in ToSet(p)
      <4>1. buffer[u] \in Seq(1..MaxSequence)
        BY <1>0, <3>1
      <4> QED
        BY <4>1, NumbersKept
    <3>5. \A u \in ToSet(p) : Last(buffer[u]) \in Int
      BY <3>2, <3>4
    <3> HIDE DEF c
    <3> QED
      BY <1>0, <3>2, <3>3, <3>5
  <2> HIDE DEF c
  <2>3. Ascends(Append(p, t), c)
    BY <2>1, <2>2, AppendAscends
  <2>4. \A u \in ToSet(order') : buffer'[u] = c[u]
    BY <1>0, <1>2 DEF c
  <2>5. Append(p, t) \in Seq(Traces)
    BY <1>1
  <2> QED
    BY <1>1, <1>2, <2>3, <2>4, <2>5, SubAscends
<1>5. ASSUME NEW u \in Traces
      PROVE  /\ buffer'[u] # <<>> <=> u \in ToSet(order')
             /\ Len(buffer'[u]) <= MaxEvents
             /\ Rising(buffer'[u], sequence')
  <2>1. CASE u = t
    BY <1>2, <2>1 DEF Fresh
  <2>2. CASE u # t /\ u \notin ToSet(order')
    <3>1. buffer'[u] = <<>>
      BY <2>2
    <3> QED
      BY <2>2, <3>1, LimitAssumption DEF Rising
  <2>3. CASE u # t /\ u \in ToSet(order')
    <3>1. buffer'[u] = buffer[u] /\ u \in Known
      BY <1>2, <2>3
    <3>2. /\ buffer[u] # <<>> /\ Len(buffer[u]) <= MaxEvents /\ Rising(buffer[u], sequence)
          /\ buffer[u] \in Seq(1..MaxSequence)
      BY <1>0, <3>1 DEF RegInv
    <3>3. \A i \in 1..Len(buffer[u]) : buffer[u][i] \in Int
      BY <3>2, NumbersKept
    <3>4. Rising(buffer[u], sequence + 1)
      BY <1>0, <3>2, <3>3 DEF Rising
    <3> QED
      BY <2>3, <3>1, <3>2, <3>4
  <2> QED
    BY <2>1, <2>2, <2>3
<1>6. ASSUME NEW u \in Traces
      PROVE  ToSet(buffer'[u]) \subseteq ToSet(buffer[u]) \cup (IF u = t THEN {sequence + 1} ELSE {})
  <2>1. ToSet(<<>>) = {}
    BY DEF ToSet
  <2> QED
    BY <2>1 DEF Fresh
<1>7. \A u \in Traces : sequence + 1 \notin ToSet(buffer[u])
  <2> TAKE u \in Traces
  <2>1. buffer[u] \in Seq(1..MaxSequence) /\ Rising(buffer[u], sequence)
    BY <1>0 DEF RegInv
  <2>2. \A i \in DOMAIN buffer[u] : buffer[u][i] <= sequence
    BY <2>1 DEF Rising
  <2> QED
    BY <1>0, <2>2 DEF ToSet
<1>8. \A v, u \in Traces : v # u => ToSet(buffer'[v]) \cap ToSet(buffer'[u]) = {}
  <2> TAKE v, u \in Traces
  <2>1. v # u => ToSet(buffer[v]) \cap ToSet(buffer[u]) = {}
    BY DEF RegInv
  <2> QED
    BY <1>6, <1>7, <2>1
<1> QED
  BY <1>2, <1>4, <1>5, <1>8 DEF RegInv, Known

\* Pruning alone keeps it in order.
LEMMA ForgetKeeps ==
  ASSUME TypeOK, RegInv, NEW o \in Seq(Traces), Sub(o, order), Len(o) <= MaxTraces,
         Forget(o), sequence' = sequence \/ o = <<>>, started' = started
  PROVE  RegInv'
<1>0. /\ order \in Seq(Traces) /\ buffer \in [Traces -> Seq(1..MaxSequence)]
      /\ Known' = ToSet(o) /\ ToSet(o) \subseteq Known /\ order' = o
      /\ finished' \subseteq ToSet(o)
  BY SubSet DEF TypeOK, Known, Forget
<1>1. \A u \in Traces : buffer'[u] = IF u \in ToSet(o) THEN buffer[u] ELSE <<>>
  BY DEF Forget
<1>2. \A u \in ToSet(o) : buffer'[u] = buffer[u]
  <2>1. ToSet(o) \subseteq Traces
    BY DEF ToSet
  <2> QED
    BY <1>1, <2>1
<1>3. Ascends(o, buffer')
  BY <1>0, <1>2, SubAscends DEF RegInv
<1>4. ToSet(<<>>) = {} /\ Len(<<>>) <= MaxEvents /\ Rising(<<>>, sequence')
  BY LimitAssumption DEF ToSet, Rising
<1>5. ASSUME NEW u \in Traces
      PROVE  /\ buffer'[u] # <<>> <=> u \in ToSet(o)
             /\ Len(buffer'[u]) <= MaxEvents
             /\ Rising(buffer'[u], sequence')
             /\ ToSet(buffer'[u]) \subseteq ToSet(buffer[u])
  <2>1. CASE u \notin ToSet(o)
    BY <1>1, <1>4, <2>1
  <2>2. CASE u \in ToSet(o)
    <3>1. buffer'[u] = buffer[u] /\ u \in Known
      BY <1>0, <1>2, <2>2
    <3>2. sequence' = sequence
      BY <1>4, <2>2
    <3> QED
      BY <2>2, <3>1, <3>2 DEF RegInv
  <2> QED
    BY <2>1, <2>2
<1>6. \A t, u \in Traces : t # u => ToSet(buffer'[t]) \cap ToSet(buffer'[u]) = {}
  <2> TAKE t, u \in Traces
  <2>1. t # u => ToSet(buffer[t]) \cap ToSet(buffer[u]) = {}
    BY DEF RegInv
  <2> QED
    BY <1>5, <2>1
<1>7. Known' \subseteq 1..started'
  BY <1>0 DEF RegInv
<1> QED
  BY <1>0, <1>3, <1>5, <1>6, <1>7 DEF RegInv

LEMMA StartKeeps ==
  ASSUME TypeOK, TypeOK', RegInv, NEW t \in Traces, StartTrace(t)
  PROVE  RegInv'
<1>0. order \in Seq(Traces) /\ sequence \in Nat /\ started \in Nat
  BY LimitAssumption DEF TypeOK
<1>1. /\ t = started + 1 /\ started' = t /\ sequence' = sequence + 1
      /\ order' = Pruned(Append(Pruned(order, overdue), t), {})
      /\ finished' = finished \cap ToSet(order')
      /\ buffer' = [u \in Traces |->
           IF u = t THEN <<sequence + 1>> ELSE IF u \in ToSet(order') THEN buffer[u] ELSE <<>>]
  BY DEF StartTrace, NextSequence
<1>2. t \notin Known
  BY <1>0, <1>1 DEF RegInv
<1>3. Moved(order', order, t)
  BY <1>0, <1>1, <1>2, StartMoves DEF Known
<1>4. Fresh(buffer'[t], buffer[t])
  <2>1. buffer'[t] = <<sequence + 1>> /\ buffer'[t] \in Seq(1..MaxSequence)
    BY <1>1 DEF TypeOK
  <2>2. MaxEvents >= 1 /\ MaxEvents \in Nat
    BY LimitAssumption
  <2>3. /\ Len(<<sequence + 1>>) = 1 /\ <<sequence + 1>>[1] = sequence + 1
        /\ <<sequence + 1>> # <<>> /\ DOMAIN <<sequence + 1>> = 1..1
    OBVIOUS
  <2>4. Rising(<<sequence + 1>>, sequence + 1)
    BY <1>0, <2>3 DEF Rising
  <2>5. Last(<<sequence + 1>>) = sequence + 1 /\ ToSet(<<sequence + 1>>) = {sequence + 1}
    BY <2>3 DEF Last, ToSet
  <2> QED
    BY <2>1, <2>2, <2>3, <2>4, <2>5 DEF Fresh
<1>5. \A u \in Traces \ {t} :
        buffer'[u] = IF u \in ToSet(order') THEN buffer[u] ELSE <<>>
  BY <1>1
<1>6. ToSet(order') \subseteq 1..started' /\ finished' \subseteq ToSet(order')
  <2>1. ToSet(order') \subseteq Known \cup {t} /\ Known \subseteq 1..started
    BY <1>3 DEF Moved, Known, RegInv
  <2>2. 1..started \cup {t} \subseteq 1..started'
    <3>1. t = started + 1 /\ started' = started + 1 /\ started \in Nat
      BY <1>0, <1>1
    <3> QED
      BY <3>1
  <2>3. finished' \subseteq ToSet(order')
    BY <1>1
  <2> QED
    BY <2>1, <2>2, <2>3
<1> QED
  BY <1>1, <1>3, <1>4, <1>5, <1>6, EventKeeps

LEMMA FreshAfter ==
  ASSUME TypeOK, RegInv, NEW t \in Traces, NextSequence
  PROVE  Fresh(BufferAfter(t), buffer[t])
<1>1. PICK b \in Seq(1..MaxSequence), n \in 0..MaxSequence : b = buffer[t] /\ n = sequence
  BY DEF TypeOK
<1>2. PICK c : c = Newest(Append(b, n + 1), MaxEvents)
  OBVIOUS
<1>3. n < MaxSequence
  BY <1>1 DEF NextSequence
<1>4. /\ c \in Seq(1..MaxSequence) /\ c # <<>> /\ Last(c) = n + 1 /\ Len(c) <= MaxEvents
      /\ ToSet(c) \subseteq ToSet(b) \cup {n + 1}
      /\ Rising(b, n) => Rising(c, n + 1)
  BY <1>2, <1>3, BufferGrows
<1>5. Rising(b, n) /\ BufferAfter(t) = c
  BY <1>1, <1>2 DEF RegInv, BufferAfter
<1> QED
  BY <1>1, <1>4, <1>5 DEF Fresh

LEMMA EmitKeeps ==
  ASSUME TypeOK, TypeOK', RegInv, NEW t \in Traces, NEW s, Emit(t, s)
  PROVE  RegInv'
<1>0. order \in Seq(Traces) /\ t \in ToSet(order) /\ Len(order) <= MaxTraces
  BY DEF TypeOK, Emit, Known, RegInv
<1>1. /\ NextSequence /\ sequence' = sequence + 1 /\ order' = Touched(order, t)
      /\ buffer' = [buffer EXCEPT ![t] = BufferAfter(t)]
      /\ finished' = finished /\ started' = started
  BY DEF Emit, NextSequence
<1>2. Moved(order', order, t) /\ ToSet(order') = Known
  BY <1>0, <1>1, EmitMoves DEF Known
<1>3. buffer'[t] = BufferAfter(t) /\ \A u \in Traces \ {t} : buffer'[u] = buffer[u]
  BY <1>1 DEF TypeOK
<1>4. Fresh(buffer'[t], buffer[t])
  BY <1>1, <1>3, FreshAfter
<1>5. \A u \in Traces \ {t} :
        buffer'[u] = IF u \in ToSet(order') THEN buffer[u] ELSE <<>>
  BY <1>2, <1>3 DEF RegInv
<1>6. ToSet(order') \subseteq 1..started' /\ finished' \subseteq ToSet(order')
  BY <1>1, <1>2 DEF RegInv
<1> QED
  BY <1>1, <1>2, <1>4, <1>5, <1>6, EventKeeps

LEMMA FinishKeeps ==
  ASSUME TypeOK, TypeOK', RegInv, NEW t \in Traces, NEW s, FinishTrace(t, s)
  PROVE  RegInv'
<1>0. order \in Seq(Traces) /\ t \in ToSet(order)
  BY DEF TypeOK, FinishTrace, Known
<1>1. /\ NextSequence /\ sequence' = sequence + 1
      /\ order' = Pruned(Touched(order, t), overdue \ {t})
      /\ finished' = (finished \cap ToSet(order')) \cup {t}
      /\ buffer' = [u \in Traces |->
           IF u = t THEN BufferAfter(t) ELSE IF u \in ToSet(order') THEN buffer[u] ELSE <<>>]
      /\ started' = started
  BY DEF FinishTrace, NextSequence
<1>2. Moved(order', order, t)
  BY <1>0, <1>1, FinishMoves
<1>3. /\ buffer'[t] = BufferAfter(t)
      /\ \A u \in Traces \ {t} :
           buffer'[u] = IF u \in ToSet(order') THEN buffer[u] ELSE <<>>
  BY <1>1
<1>4. Fresh(buffer'[t], buffer[t])
  BY <1>1, <1>3, FreshAfter
<1>5. t \in ToSet(order') /\ ToSet(order') \subseteq Known
  BY <1>0, <1>2 DEF Moved, Known
<1>6. ToSet(order') \subseteq 1..started' /\ finished' \subseteq ToSet(order')
  BY <1>1, <1>5 DEF RegInv
<1> QED
  BY <1>1, <1>2, <1>3, <1>4, <1>6, EventKeeps

\* What the websocket handler forgets when it looks at the registry.
LEMMA HandlerForgets ==
  ASSUME TypeOK, RegInv, Forget(Pruned(order, overdue)),
         UNCHANGED <<sequence, started>>
  PROVE  RegInv' /\ Known' \subseteq Known
<1>1. PICK o : o = Pruned(order, overdue)
  OBVIOUS
<1>2. /\ o \in Seq(Traces) /\ Sub(o, order) /\ Len(o) <= MaxTraces
      /\ ToSet(o) \subseteq ToSet(order)
  BY <1>1, PrunedSub DEF TypeOK
<1>3. order' = o
  BY <1>1 DEF Forget
<1> QED
  BY <1>1, <1>2, <1>3, ForgetKeeps DEF Known

LEMMA RegNext == TypeOK /\ TypeOK' /\ RegInv /\ [Next]_vars => RegInv'
<1> SUFFICES ASSUME TypeOK, TypeOK', RegInv, [Next]_vars PROVE RegInv'
  OBVIOUS
<1>1. CASE \E t \in Traces : StartTrace(t)
  BY <1>1, StartKeeps
<1>2. CASE \E t \in Traces : \E s \in EventStatuses : Emit(t, s)
  BY <1>2, EmitKeeps
<1>3. CASE \E t \in Traces : \E s \in FinalStatuses : FinishTrace(t, s)
  BY <1>3, FinishKeeps
<1>4. CASE Clear
  <2>1. <<>> \in Seq(Traces) /\ Len(<<>>) <= MaxTraces
    BY LimitAssumption
  <2>2. Sub(<<>>, order)
    <3>1. 1..Len(<<>>) = {}
      OBVIOUS
    <3> DEFINE f == [k \in 1..Len(<<>>) |-> 1]
    <3>2. f \in [1..Len(<<>>) -> 1..Len(order)]
      BY <3>1
    <3>3. /\ \A i, j \in 1..Len(<<>>) : i < j => f[i] < f[j]
          /\ \A i \in 1..Len(<<>>) : <<>>[i] = order[f[i]]
      BY <3>1
    <3> HIDE DEF f
    <3> QED
      BY <3>2, <3>3 DEF Sub
  <2>3. Forget(<<>>) /\ started' = started
    BY <1>4 DEF Clear
  <2> QED
    BY <2>1, <2>2, <2>3, ForgetKeeps
<1>5. CASE SendSnapshot \/ LookUpHistory \/ SendListed
  <2>1. Forget(Pruned(order, overdue)) /\ UNCHANGED <<sequence, started>>
    BY <1>5 DEF SendSnapshot, LookUpHistory, SendListed, Show
  <2> QED
    BY <2>1, HandlerForgets
<1>6. CASE \/ \E t \in Traces : RetentionPasses(t)
           \/ TakeNotification \/ Connect \/ SelectTrace \/ Disconnect \/ UNCHANGED vars
  <2>1. UNCHANGED <<order, buffer, finished, sequence, started>>
    BY <1>6 DEF RetentionPasses, TakeNotification, Connect, SelectTrace, Disconnect, vars, records
  <2> QED
    BY <2>1 DEF RegInv, Known, Ascends, Rising
<1> QED
  BY <1>1, <1>2, <1>3, <1>4, <1>5, <1>6 DEF Next, Registry, Handler

LEMMA RegInit == Init => RegInv
<1> SUFFICES ASSUME Init PROVE RegInv
  OBVIOUS
<1>1. order = <<>> /\ ToSet(<<>>) = {} /\ \A t \in Traces : buffer[t] = <<>>
  BY DEF Init, ToSet
<1> QED
  BY <1>1, LimitAssumption DEF Init, RegInv, Known, Ascends, Rising

\* The invariant in the words of the two properties.
LEMMA RegMeans ==
  ASSUME TypeOK, RegInv
  PROVE  RegistryBounded /\ SilentTracesGoFirst
<1>0. /\ order \in Seq(Traces) /\ buffer \in [Traces -> Seq(1..MaxSequence)]
      /\ DOMAIN order = 1..Len(order) /\ \A i \in 1..Len(order) : order[i] \in Known /\ order[i] \in Traces
  BY DEF TypeOK, Known, ToSet
<1>1. SilentTracesGoFirst
  BY <1>0 DEF SilentTracesGoFirst, RegInv, Ascends
<1>2. IsInjective(order)
  <2> SUFFICES ASSUME NEW i \in 1..Len(order), NEW j \in 1..Len(order),
                      order[i] = order[j], i < j
               PROVE  FALSE
    BY <1>0 DEF IsInjective
  <2>1. buffer[order[i]] # <<>> /\ buffer[order[i]] \in Seq(1..MaxSequence)
    BY <1>0 DEF RegInv
  <2>2. Last(buffer[order[i]]) \in Int
    BY <2>1, LastIn, NumbersKept
  <2>3. Last(buffer[order[i]]) < Last(buffer[order[j]])
    BY DEF RegInv, Ascends
  <2> QED
    BY <2>2, <2>3
<1>3. ASSUME NEW t \in Traces
      PROVE  \A i, j \in DOMAIN buffer[t] : i < j => buffer[t][i] < buffer[t][j]
  <2>1. DOMAIN buffer[t] = 1..Len(buffer[t])
    BY <1>0, NumbersKept
  <2> QED
    BY <2>1 DEF RegInv, Rising
<1>4. RegistryBounded
  BY <1>2, <1>3 DEF RegistryBounded, RegInv
<1> QED
  BY <1>1, <1>4

THEOREM RegistryInOrder == Spec => []RegInv
<1>1. Init => RegInv
  BY RegInit
<1>2. TypeOK /\ TypeOK' /\ RegInv /\ [Next]_vars => RegInv'
  BY RegNext
<1> QED
  BY <1>1, <1>2, TypeCorrect, PTL DEF Spec

\* For every limit and any number of traces and events: the registry keeps at most
\* max_traces records, each once, with at most max_events_per_trace events in their
\* order, no number used twice, and its maps know no trace that has no record.
THEOREM RegistryStaysBounded == Spec => []RegistryBounded
BY RegistryInOrder, TypeCorrect, RegMeans, PTL

\* Whatever is started, finished, pruned and cleared: the records stand in the
\* order of their latest events, so the one given up is the one silent for longest.
THEOREM SilentGoFirst == Spec => []SilentTracesGoFirst
BY RegistryInOrder, TypeCorrect, RegMeans, PTL

-----------------------------------------------------------------------------
(* The watcher.  An entry in its queue stands for everything it has not     *)
(* seen; while it looks up a trace in the run history, one of that id can   *)
(* only have started with an entry in the queue.                            *)

ViewInv ==
  /\ NoUpdateLost
  /\ viewer = "listing" /\ queued = 0 => selected \notin Known

\* Every operation of the registry leaves an entry for a watcher.
LEMMA Notified ==
  ASSUME TypeOK, Notify, viewer # "away"
  PROVE  queued' # 0
BY LimitAssumption DEF TypeOK, Notify

LEMMA ViewNext == TypeOK /\ RegInv /\ ViewInv /\ [Next]_vars => ViewInv'
<1> SUFFICES ASSUME TypeOK, RegInv, ViewInv, [Next]_vars PROVE ViewInv'
  OBVIOUS
<1>1. CASE \/ \E t \in Traces : \/ StartTrace(t)
                                \/ \E s \in EventStatuses : Emit(t, s)
                                \/ \E s \in FinalStatuses : FinishTrace(t, s)
           \/ Clear
  <2>1. Notify /\ viewer' = viewer
    BY <1>1 DEF StartTrace, Emit, FinishTrace, Clear, watching
  <2> QED
    BY <2>1, Notified DEF ViewInv, NoUpdateLost
<1>2. CASE (\E t \in Traces : RetentionPasses(t)) \/ UNCHANGED vars
  <2>1. UNCHANGED <<order, status, buffer, viewer, selected, queued, shown, detail>>
    BY <1>2 DEF RetentionPasses, vars, records, watching
  <2> QED
    BY <2>1 DEF ViewInv, NoUpdateLost, ShowsCurrent, Known, Summary
<1>3. CASE SendSnapshot \/ SendListed
  <2>1. PICK d : Forget(Pruned(order, overdue)) /\ Show(order', d)
    BY <1>3 DEF SendSnapshot, SendListed
  <2>2. /\ viewer' = "waiting" /\ selected' = selected /\ queued' = queued /\ detail' = d
        /\ shown' = [t \in Traces |-> IF t \in Known' THEN Summary(t) ELSE Nothing]
        /\ UNCHANGED <<sequence, started>>
    BY <2>1 DEF Show, Known
  <2>3. \A t \in Traces \cap Known' : buffer'[t] = buffer[t] /\ status'[t] = status[t]
    BY <2>1 DEF Forget, Known
  <2>4. Known' \subseteq Known /\ Known \subseteq Traces
    <3>1. Known' \subseteq Known
      BY <2>1, <2>2, HandlerForgets
    <3>2. Known \subseteq Traces
      BY DEF TypeOK, Known, ToSet
    <3> QED
      BY <3>1, <3>2
  <2>5. \A t \in Known' : shown'[t] = Summary(t)'
    BY <2>2, <2>3, <2>4 DEF Summary
  <2>6. queued' = 0 /\ selected' \in Known' => detail' = buffer'[selected']
    <3> SUFFICES ASSUME queued' = 0, selected' \in Known'
                 PROVE  detail' = buffer'[selected']
      OBVIOUS
    <3>1. selected \in Traces /\ selected \in Known /\ selected # NoTrace /\ queued = 0
      BY <2>2, <2>4 DEF Traces, NoTrace
    <3>2. ~SendListed
      BY <3>1 DEF SendListed, ViewInv
    <3>3. detail' = buffer[selected]
      BY <1>3, <3>1, <3>2 DEF SendSnapshot, Show
    <3> QED
      BY <2>2, <2>3, <3>1, <3>3
  <2> QED
    BY <2>2, <2>5, <2>6 DEF ViewInv, NoUpdateLost, ShowsCurrent
<1>4. CASE LookUpHistory
  <2>1. viewer' = "listing" /\ selected' = selected /\ order' = Pruned(order, overdue)
        /\ selected \notin ToSet(Pruned(order, overdue))
    BY <1>4 DEF LookUpHistory, Forget
  <2> QED
    BY <2>1 DEF ViewInv, NoUpdateLost, Known
<1>5. CASE TakeNotification \/ Connect \/ SelectTrace \/ Disconnect
  BY <1>5 DEF TakeNotification, Connect, SelectTrace, Disconnect, ViewInv, NoUpdateLost
<1> QED
  BY <1>1, <1>2, <1>3, <1>4, <1>5 DEF Next, Registry, Handler
LEMMA ViewInit == Init => ViewInv
BY DEF Init, ViewInv, NoUpdateLost

\* For every limit of the registry and the queue, and any number of traces and
\* events: when the websocket handler waits and its queue is empty, the manager has
\* been shown every trace as it is and the latest events of the selected one, though
\* a full queue drops entries and a lookup awaits between the detail and the list.
THEOREM NothingIsMissed == Spec => []NoUpdateLost
<1>1. Init => ViewInv
  BY ViewInit
<1>2. TypeOK /\ RegInv /\ ViewInv /\ [Next]_vars => ViewInv'
  BY ViewNext
<1>3. ViewInv => NoUpdateLost
  BY DEF ViewInv
<1> QED
  BY <1>1, <1>2, <1>3, TypeCorrect, RegistryInOrder, PTL DEF Spec

=============================================================================
