------------------------- MODULE ChatHistory_proofs --------------------------
(***************************************************************************)
(* Proofs about ChatHistory, for any owners, messages and number of          *)
(* recordings: the mirror of a user, the view of a group and what a search   *)
(* answers.  The second part is about LocalRag, which indexes what those     *)
(* views and the file spaces hold.                                           *)
(***************************************************************************)
EXTENDS ChatHistory, LocalRag, FiniteSetTheorems, SequenceTheorems, WellFoundedInduction, TLAPS

-----------------------------------------------------------------------------
(* Numbers.                                                                  *)

LEMMA Least ==
  ASSUME NEW T, T \subseteq Nat, T # {}
  PROVE  \E m \in T : \A n \in T : ~(n < m)
<1> DEFINE R == OpToRel(<, Nat)
<1>1. IsWellFoundedOn(R, Nat)
  BY NatLessThanWellFounded
<1>2. \A a, b \in Nat : a < b => <<a, b>> \in R
  BY DEF OpToRel
<1> HIDE DEF R
<1>3. PICK x \in T : \A y \in T : ~(<<y, x>> \in R)
  BY <1>1, WFMin
<1> QED
  BY <1>2, <1>3

\* Induction, for a claim that is a set of numbers.
LEMMA Climb ==
  ASSUME NEW n \in Nat, NEW T, 0 \in T, \A i \in 0 .. n : i \in T /\ i < n => i + 1 \in T
  PROVE  \A i \in 0 .. n : i \in T
<1> DEFINE B == (0 .. n) \ T
<1> SUFFICES ASSUME B # {} PROVE FALSE
  OBVIOUS
<1>1. B \subseteq Nat
  OBVIOUS
<1>2. PICK x \in B : \A y \in B : ~(y < x)
  <2> HIDE DEF B
  <2> QED
    BY <1>1, Least
<1>3. x \in 1 .. n /\ x - 1 \in 0 .. n /\ x - 1 < x /\ x - 1 < n
  OBVIOUS
<1>4. x - 1 \in T
  BY <1>2, <1>3
<1>5. x - 1 + 1 = x
  BY <1>3
<1> QED
  BY <1>3, <1>4, <1>5

-----------------------------------------------------------------------------
(* The elements of a finite set in a linear order; U[i] is what lies before i. *)

Linear(I, U) ==
  /\ U \in [I -> SUBSET I]
  /\ \A i \in I : i \notin U[i]
  /\ \A i, j \in I : j \in U[i] => U[j] \subseteq U[i]
  /\ \A i, j \in I : i # j => i \in U[j] \/ j \in U[i]

\* They are numbered by how many come before them.
LEMMA Numbered ==
  ASSUME NEW I, IsFiniteSet(I), NEW U, Linear(I, U)
  PROVE  /\ Cardinality(I) \in Nat
         /\ \A i \in I : Cardinality(U[i]) \in 0 .. Cardinality(I) - 1
         /\ \A i, j \in I : j \in U[i] => Cardinality(U[j]) < Cardinality(U[i])
         /\ \A k \in 1 .. Cardinality(I) : \E i \in I : Cardinality(U[i]) = k - 1
<1> DEFINE N == Cardinality(I)
<1>1. N \in Nat
  BY FS_CardinalityType
<1>2. ASSUME NEW i \in I
      PROVE  IsFiniteSet(U[i]) /\ Cardinality(U[i]) \in Nat /\ Cardinality(U[i]) <= N - 1
  <2>1. IsFiniteSet(I \ {i}) /\ Cardinality(I \ {i}) = N - 1
    BY FS_RemoveElement
  <2>2. U[i] \in SUBSET (I \ {i})
    BY DEF Linear
  <2> QED
    BY <2>1, <2>2, FS_Subset, FS_CardinalityType
<1>3. ASSUME NEW i \in I, NEW j \in I, j \in U[i]
      PROVE  Cardinality(U[j]) < Cardinality(U[i])
  <2>1. j \notin U[j]
    BY DEF Linear
  <2>2. IsFiniteSet(U[j] \cup {j}) /\ Cardinality(U[j] \cup {j}) = Cardinality(U[j]) + 1
    BY <1>2, <2>1, FS_AddElement
  <2>3. U[j] \cup {j} \in SUBSET U[i]
    BY <1>3 DEF Linear
  <2>4. Cardinality(U[j] \cup {j}) <= Cardinality(U[i])
    BY <1>2, <2>3, FS_Subset
  <2> QED
    BY <1>2, <2>2, <2>4
<1>4. ASSUME NEW k \in 1 .. N
      PROVE  \E i \in I : Cardinality(U[i]) = k - 1
  <2> DEFINE rk == [i \in I |-> Cardinality(U[i]) + 1]
  <2>1. rk \in [I -> 1 .. N]
    BY <1>1, <1>2
  <2>2. ASSUME NEW i \in I, NEW j \in I, rk[i] = rk[j]
        PROVE  i = j
    <3>1. Cardinality(U[i]) = Cardinality(U[j])
      BY <1>2, <2>2
    <3>2. ~(Cardinality(U[i]) < Cardinality(U[j])) /\ ~(Cardinality(U[j]) < Cardinality(U[i]))
      BY <1>2, <3>1
    <3>3. i \notin U[j] /\ j \notin U[i]
      BY <1>3, <3>2
    <3> QED
      BY <3>3 DEF Linear
  <2>3. rk \in Injection(I, 1 .. N)
    BY <2>1, <2>2 DEF Injection, IsInjective
  <2>4. IsFiniteSet(1 .. N) /\ Cardinality(1 .. N) = N
    BY <1>1, FS_Interval
  <2>5. rk \in Surjection(I, 1 .. N)
    BY <2>3, <2>4, FS_Injection
  <2>6. PICK i \in I : rk[i] = k
    BY <2>5 DEF Surjection
  <2> QED
    BY <1>2, <2>6
<1> QED
  BY <1>1, <1>2, <1>3, <1>4

Nth(I, U, k) == CHOOSE i \in I : Cardinality(U[i]) = k - 1
Numbering(I, U) == [k \in 1 .. Cardinality(I) |-> Nth(I, U, k)]
Read(s, f, n) == [k \in 1 .. n |-> s[f[k]]]

\* f lists the elements of I in their order.
Lists(f, I, U) ==
  /\ f \in [1 .. Cardinality(I) -> I]
  /\ \A i \in I : \E k \in 1 .. Cardinality(I) : f[k] = i
  /\ \A j, k \in 1 .. Cardinality(I) : j < k => f[j] \in U[f[k]]
  /\ \A j, k \in 1 .. Cardinality(I) : f[j] = f[k] => j = k

LEMMA Listed ==
  ASSUME NEW I, IsFiniteSet(I), NEW U, Linear(I, U)
  PROVE  /\ Cardinality(I) \in Nat
         /\ Lists(Numbering(I, U), I, U)
         /\ \A i \in I, k \in 1 .. Cardinality(I) : Cardinality(U[i]) = k - 1 => Nth(I, U, k) = i
<1> DEFINE N == Cardinality(I)
           f == [k \in 1 .. N |-> Nth(I, U, k)]
<1>1. /\ N \in Nat
      /\ \A i \in I : Cardinality(U[i]) \in 0 .. N - 1
      /\ \A i, j \in I : j \in U[i] => Cardinality(U[j]) < Cardinality(U[i])
      /\ \A k \in 1 .. N : \E i \in I : Cardinality(U[i]) = k - 1
  BY Numbered
<1>2. \A i, j \in I : Cardinality(U[i]) = Cardinality(U[j]) => i = j
  <2> SUFFICES ASSUME NEW i \in I, NEW j \in I, Cardinality(U[i]) = Cardinality(U[j]), i # j PROVE FALSE
    OBVIOUS
  <2>1. Cardinality(U[i]) \in Nat /\ Cardinality(U[j]) \in Nat
    BY <1>1
  <2>2. i \in U[j] \/ j \in U[i]
    BY DEF Linear
  <2> QED
    BY <1>1, <2>1, <2>2
<1> HIDE DEF N
<1>3. \A k \in 1 .. N : Nth(I, U, k) \in I /\ Cardinality(U[Nth(I, U, k)]) = k - 1
  BY <1>1 DEF Nth
<1>4. \A k \in 1 .. N : f[k] \in I /\ Cardinality(U[f[k]]) = k - 1
  BY <1>3
<1>5. f \in [1 .. N -> I]
  BY <1>3
<1>6. ASSUME NEW i \in I PROVE \E k \in 1 .. N : f[k] = i
  <2> DEFINE k == Cardinality(U[i]) + 1
  <2>1. k \in 1 .. N /\ Cardinality(U[i]) = k - 1
    BY <1>1
  <2> HIDE DEF k, f
  <2> QED
    BY <1>2, <1>4, <2>1
<1> HIDE DEF f
<1>7. ASSUME NEW j \in 1 .. N, NEW k \in 1 .. N, f[j] = f[k] PROVE j = k
  <2>1. j - 1 = k - 1
    BY <1>4, <1>7
  <2> QED
    BY <1>1, <2>1
<1>8. ASSUME NEW j \in 1 .. N, NEW k \in 1 .. N, j < k PROVE f[j] \in U[f[k]]
  <2>1. f[j] \in I /\ f[k] \in I /\ Cardinality(U[f[j]]) = j - 1 /\ Cardinality(U[f[k]]) = k - 1
    BY <1>4
  <2>2. f[j] # f[k]
    BY <1>1, <1>7, <1>8
  <2>3. f[k] \notin U[f[j]]
    <3>1. ~(k - 1 < j - 1)
      BY <1>1, <1>8
    <3> QED
      BY <1>1, <2>1, <3>1
  <2> QED
    BY <2>1, <2>2, <2>3 DEF Linear
<1>9. Lists(f, I, U)
  BY <1>5, <1>6, <1>7, <1>8 DEF Lists, N
<1>10. \A i \in I, k \in 1 .. N : Cardinality(U[i]) = k - 1 => Nth(I, U, k) = i
  BY <1>2, <1>3
<1> QED
  BY <1>1, <1>9, <1>10 DEF f, N, Numbering

\* There is only one such list.
LEMMA ListUnique ==
  ASSUME NEW I, IsFiniteSet(I), NEW U, Linear(I, U), NEW n \in Nat, NEW f \in [1 .. n -> I],
         \A i \in I : \E k \in 1 .. n : f[k] = i,
         \A j, k \in 1 .. n : j < k => f[j] \in U[f[k]]
  PROVE  Cardinality(I) = n /\ \A k \in 1 .. n : f[k] = Nth(I, U, k)
<1>1. ASSUME NEW j \in 1 .. n, NEW k \in 1 .. n, f[j] = f[k] PROVE j = k
  <2> SUFFICES ASSUME j # k PROVE FALSE
    OBVIOUS
  <2>1. j < k \/ k < j
    OBVIOUS
  <2>2. f[j] \in U[f[j]]
    BY <1>1, <2>1
  <2> QED
    BY <2>2 DEF Linear
<1>2. Cardinality(I) = n
  <2>1. f \in Bijection(1 .. n, I)
    BY <1>1 DEF Bijection, Injection, Surjection, IsInjective
  <2> QED
    BY <2>1, FS_CountingElements DEF ExistsBijection
<1>3. ASSUME NEW k \in 1 .. n PROVE Cardinality(U[f[k]]) = k - 1
  <2> DEFINE V == U[f[k]]
             h == [j \in 1 .. k - 1 |-> f[j]]
  <2>0. k - 1 \in Nat /\ \A j \in 1 .. k - 1 : j \in 1 .. n /\ j < k
    OBVIOUS
  <2>1. h \in [1 .. k - 1 -> V]
    BY <2>0
  <2>2. \A i, j \in 1 .. k - 1 : h[i] = h[j] => i = j
    BY <1>1, <2>0
  <2>3. ASSUME NEW i \in V PROVE \E j \in 1 .. k - 1 : h[j] = i
    <3>1. i \in I /\ i # f[k]
      BY DEF Linear
    <3>2. PICK j \in 1 .. n : f[j] = i
      BY <3>1
    <3>3. ~(k < j)
      <4> SUFFICES ASSUME k < j PROVE FALSE
        OBVIOUS
      <4>1. f[k] \in U[i] /\ U[i] \subseteq U[f[k]]
        BY <3>1, <3>2 DEF Linear
      <4> QED
        BY <4>1 DEF Linear
    <3>4. j \in 1 .. k - 1
      BY <3>1, <3>2, <3>3
    <3> QED
      BY <3>2, <3>4
  <2> HIDE DEF h, V
  <2>4. h \in Bijection(1 .. k - 1, V)
    BY <2>1, <2>2, <2>3 DEF Bijection, Injection, Surjection, IsInjective
  <2> QED
    BY <2>0, <2>4, FS_CountingElements DEF ExistsBijection, V
<1>4. \A i \in I, k \in 1 .. Cardinality(I) : Cardinality(U[i]) = k - 1 => Nth(I, U, k) = i
  BY Listed
<1>5. ASSUME NEW k \in 1 .. n PROVE f[k] = Nth(I, U, k)
  <2>1. f[k] \in I /\ k \in 1 .. Cardinality(I) /\ Cardinality(U[f[k]]) = k - 1
    BY <1>2, <1>3
  <2> QED
    BY <1>4, <2>1
<1> QED
  BY <1>2, <1>5

-----------------------------------------------------------------------------
(* Keeping and InTime as such lists.                                         *)

Below(I) == [i \in I |-> {j \in I : j < i}]

Earlier(table, I) ==
  [i \in I |-> {j \in I : table[j].at < table[i].at \/ (table[j].at = table[i].at /\ j < i)}]

LEMMA BelowLinear ==
  ASSUME NEW I, I \subseteq Nat
  PROVE  Linear(I, Below(I))
<1>1. \A i \in I : Below(I)[i] = {j \in I : j < i}
  BY DEF Below
<1>2. Below(I) \in [I -> SUBSET I]
  BY DEF Below
<1>3. \A i \in I : i \in Nat
  OBVIOUS
<1>4. \A i \in I : i \notin Below(I)[i]
  BY <1>1, <1>3
<1>5. ASSUME NEW i \in I, NEW j \in I, j \in Below(I)[i], NEW k \in Below(I)[j]
      PROVE  k \in Below(I)[i]
  <2>1. k \in I /\ k < j /\ j < i
    BY <1>1, <1>5
  <2>2. k < i
    BY <1>3, <2>1
  <2> QED
    BY <1>1, <2>1, <2>2
<1>6. \A i, j \in I : i # j => i \in Below(I)[j] \/ j \in Below(I)[i]
  BY <1>1, <1>3
<1> QED
  BY <1>2, <1>4, <1>5, <1>6 DEF Linear

LEMMA EarlierLinear ==
  ASSUME NEW table, NEW I, I \subseteq Nat, \A i \in I : table[i].at \in Nat
  PROVE  Linear(I, Earlier(table, I))
<1> DEFINE U == Earlier(table, I)
           at == [i \in I |-> table[i].at]
<1>1. \A i \in I : U[i] = {j \in I : at[j] < at[i] \/ (at[j] = at[i] /\ j < i)}
  BY DEF Earlier
<1>2. U \in [I -> SUBSET I]
  BY DEF Earlier
<1>3. \A i \in I : i \in Nat /\ at[i] \in Nat
  OBVIOUS
<1> HIDE DEF U, at
<1>4. \A i \in I : i \notin U[i]
  BY <1>1, <1>3
<1>5. ASSUME NEW i \in I, NEW j \in I, j \in U[i], NEW k \in U[j]
      PROVE  k \in U[i]
  <2>1. k \in I /\ (at[k] < at[j] \/ (at[k] = at[j] /\ k < j))
    BY <1>1, <1>2
  <2>2. at[j] < at[i] \/ (at[j] = at[i] /\ j < i)
    BY <1>1, <1>5
  <2>3. at[k] < at[i] \/ (at[k] = at[i] /\ k < i)
    BY <1>3, <2>1, <2>2
  <2> QED
    BY <1>1, <2>1, <2>3
<1>6. ASSUME NEW i \in I, NEW j \in I, i # j
      PROVE  i \in U[j] \/ j \in U[i]
  <2>1. i \in Nat /\ j \in Nat /\ at[i] \in Nat /\ at[j] \in Nat
    BY <1>3
  <2>2. at[i] < at[j] \/ at[j] < at[i] \/ (at[i] = at[j] /\ (i < j \/ j < i))
    BY <1>6, <2>1
  <2> QED
    BY <1>1, <2>2
<1>7. Linear(I, U)
  BY <1>2, <1>4, <1>5, <1>6 DEF Linear
<1> QED
  BY <1>7 DEF U

LEMMA KeepingNth ==
  ASSUME NEW s, NEW I, I \subseteq Nat, IsFiniteSet(I)
  PROVE  Keeping(s, I) = Read(s, Numbering(I, Below(I)), Cardinality(I))
<1> DEFINE U == Below(I)
           N == Cardinality(I)
<1>1. Linear(I, U)
  BY BelowLinear
<1>2. N \in Nat /\ \A i \in I, k \in 1 .. N : Cardinality(U[i]) = k - 1 => Nth(I, U, k) = i
  BY <1>1, Listed
<1>3. \A k \in 1 .. N : \E i \in I : Cardinality(U[i]) = k - 1
  BY <1>1, Numbered
<1>4. ASSUME NEW k \in 1 .. N
      PROVE  (CHOOSE i \in I : Cardinality({j \in I : j < i}) = k - 1) = Nth(I, U, k)
  <2> DEFINE x == CHOOSE i \in I : Cardinality({j \in I : j < i}) = k - 1
  <2>1. \E i \in I : Cardinality({j \in I : j < i}) = k - 1
    BY <1>3 DEF Below
  <2>2. x \in I /\ Cardinality({j \in I : j < x}) = k - 1
    BY <2>1
  <2> HIDE DEF x
  <2>3. Cardinality(U[x]) = k - 1
    BY <2>2 DEF Below
  <2> QED
    BY <1>2, <2>2, <2>3 DEF x
<1>5. Keeping(s, I) = [k \in 1 .. N |-> s[Nth(I, U, k)]]
  <2> DEFINE Under(i) == {j \in I : j < i}
  <2>1. Keeping(s, I) = [k \in 1 .. N |-> s[CHOOSE i \in I : Cardinality(Under(i)) = k - 1]]
    BY DEF Keeping
  <2>2. \A k \in 1 .. N : (CHOOSE i \in I : Cardinality(Under(i)) = k - 1) = Nth(I, U, k)
    BY <1>4
  <2> HIDE DEF U, Under
  <2> QED
    BY <2>1, <2>2
<1> QED
  BY <1>5 DEF Read, Numbering

LEMMA KeepingLists ==
  ASSUME NEW s, NEW I, I \subseteq Nat, IsFiniteSet(I)
  PROVE  /\ Cardinality(I) \in Nat
         /\ \E f : Lists(f, I, Below(I)) /\ Keeping(s, I) = Read(s, f, Cardinality(I))
<1>1. Cardinality(I) \in Nat /\ Lists(Numbering(I, Below(I)), I, Below(I))
  BY BelowLinear, Listed
<1> QED
  BY <1>1, KeepingNth

LEMMA InTimeLists ==
  ASSUME NEW table, NEW I, I \subseteq Nat, IsFiniteSet(I), \A i \in I : table[i].at \in Nat
  PROVE  /\ Cardinality(I) \in Nat
         /\ \E f : Lists(f, I, Earlier(table, I)) /\ InTime(table, I) = Read(table, f, Cardinality(I))
<1> DEFINE U == Earlier(table, I)
           N == Cardinality(I)
           Sooner(i) == {j \in I : table[j].at < table[i].at \/ (table[j].at = table[i].at /\ j < i)}
<1>1. Linear(I, U)
  BY EarlierLinear
<1>2. N \in Nat /\ Lists(Numbering(I, U), I, U) /\ \A i \in I, k \in 1 .. N : Cardinality(U[i]) = k - 1 => Nth(I, U, k) = i
  BY <1>1, Listed
<1>3. \A k \in 1 .. N : \E i \in I : Cardinality(U[i]) = k - 1
  BY <1>1, Numbered
<1>4. \A i \in I : U[i] = Sooner(i)
  BY DEF Earlier
<1>5. ASSUME NEW k \in 1 .. N
      PROVE  (CHOOSE i \in I : Cardinality(Sooner(i)) = k - 1) = Nth(I, U, k)
  <2> DEFINE x == CHOOSE i \in I : Cardinality(Sooner(i)) = k - 1
  <2> HIDE DEF U, Sooner
  <2>1. \E i \in I : Cardinality(Sooner(i)) = k - 1
    BY <1>3, <1>4
  <2>2. x \in I /\ Cardinality(Sooner(x)) = k - 1
    BY <2>1
  <2> HIDE DEF x
  <2>3. Cardinality(U[x]) = k - 1
    BY <1>4, <2>2
  <2> QED
    BY <1>2, <2>2, <2>3 DEF x
<1>6. InTime(table, I) = [k \in 1 .. N |-> table[Nth(I, U, k)]]
  <2>1. InTime(table, I) = [k \in 1 .. N |-> table[CHOOSE i \in I : Cardinality(Sooner(i)) = k - 1]]
    BY DEF InTime
  <2> HIDE DEF U, Sooner
  <2> QED
    BY <1>5, <2>1
<1>7. InTime(table, I) = Read(table, Numbering(I, U), N)
  BY <1>6 DEF Read, Numbering
<1> QED
  BY <1>2, <1>7

\* Any list of I from below is the one Keeping follows.
LEMMA KeepingBy ==
  ASSUME NEW s, NEW I, I \subseteq Nat, IsFiniteSet(I), NEW n \in Nat, NEW f \in [1 .. n -> I],
         \A i \in I : \E k \in 1 .. n : f[k] = i,
         \A j, k \in 1 .. n : j < k => f[j] < f[k]
  PROVE  Cardinality(I) = n /\ Keeping(s, I) = Read(s, f, n)
<1>1. Linear(I, Below(I))
  BY BelowLinear
<1>2. \A j, k \in 1 .. n : j < k => f[j] \in Below(I)[f[k]]
  BY DEF Below
<1>3. Cardinality(I) = n /\ \A k \in 1 .. n : f[k] = Nth(I, Below(I), k)
  BY <1>1, <1>2, ListUnique
<1>4. Keeping(s, I) = Read(s, Numbering(I, Below(I)), n)
  BY <1>3, KeepingNth
<1> QED
  BY <1>3, <1>4 DEF Read, Numbering

LEMMA ReadSeq ==
  ASSUME NEW s, NEW f, NEW n \in Nat, NEW T, \A k \in 1 .. n : s[f[k]] \in T
  PROVE  /\ Read(s, f, n) \in Seq(T) /\ Len(Read(s, f, n)) = n
         /\ \A k \in 1 .. n : Read(s, f, n)[k] = s[f[k]]
BY DEF Read

-----------------------------------------------------------------------------
(* The end of a sequence.                                                    *)

Ending(r, s) ==
  \E m \in 0 .. Len(s) : Len(r) = Len(s) - m /\ \A i \in 1 .. Len(r) : r[i] = s[i + m]

LEMMA LatestEnding ==
  ASSUME NEW T, NEW s \in Seq(T), NEW n \in Nat
  PROVE  /\ Latest(s, n) \in Seq(T) /\ Ending(Latest(s, n), s)
         /\ Len(Latest(s, n)) = IF Len(s) > n THEN n ELSE Len(s)
<1> DEFINE m == IF Len(s) > n THEN Len(s) - n ELSE 0
           r == Latest(s, n)
<1>1. Len(s) \in Nat /\ m \in 0 .. Len(s) /\ \A i \in 1 .. Len(s) : s[i] \in T
  BY LenProperties
<1>2. r = SubSeq(s, m + 1, Len(s))
  <2>1. CASE Len(s) > n
    BY <1>1, <2>1 DEF Latest
  <2>2. CASE ~(Len(s) > n)
    BY <1>1, <2>2 DEF Latest
  <2> QED
    BY <2>1, <2>2
<1> HIDE DEF r, m
<1>3. /\ r \in Seq(T) /\ Len(r) = IF m + 1 <= Len(s) THEN Len(s) - (m + 1) + 1 ELSE 0
      /\ \A i \in 1 .. Len(s) - (m + 1) + 1 : r[i] = s[m + 1 + i - 1]
  <2>1. m + 1 \in Int /\ Len(s) \in Int /\ \A i \in m + 1 .. Len(s) : s[i] \in T
    BY <1>1
  <2> QED
    BY <1>2, <2>1, SubSeqProperties
<1>4. Len(r) = Len(s) - m
  BY <1>1, <1>3
<1>5. \A i \in 1 .. Len(r) : r[i] = s[i + m]
  <2> TAKE i \in 1 .. Len(r)
  <2>1. i \in 1 .. Len(s) - (m + 1) + 1 /\ m + 1 + i - 1 = i + m
    BY <1>1, <1>4
  <2> QED
    BY <1>3, <2>1
<1>6. Ending(r, s)
  BY <1>1, <1>4, <1>5 DEF Ending
<1>7. Len(r) = IF Len(s) > n THEN n ELSE Len(s)
  BY <1>1, <1>4 DEF m
<1> QED
  BY <1>3, <1>6, <1>7 DEF r

LEMMA EndingTrans ==
  ASSUME NEW T, NEW p \in Seq(T), NEW r \in Seq(T), NEW s \in Seq(T), Ending(p, r), Ending(r, s)
  PROVE  Ending(p, s)
<1>1. Len(p) \in Nat /\ Len(r) \in Nat /\ Len(s) \in Nat
  BY LenProperties
<1>2. PICK m \in 0 .. Len(r) : Len(p) = Len(r) - m /\ \A i \in 1 .. Len(p) : p[i] = r[i + m]
  BY DEF Ending
<1>3. PICK n \in 0 .. Len(s) : Len(r) = Len(s) - n /\ \A i \in 1 .. Len(r) : r[i] = s[i + n]
  BY DEF Ending
<1>4. m + n \in 0 .. Len(s) /\ Len(p) = Len(s) - (m + n)
  BY <1>1, <1>2, <1>3
<1>5. \A i \in 1 .. Len(p) : p[i] = s[i + (m + n)]
  <2> TAKE i \in 1 .. Len(p)
  <2>1. i + m \in 1 .. Len(r) /\ i + m + n = i + (m + n)
    BY <1>1, <1>2, <1>3
  <2> QED
    BY <1>2, <1>3, <2>1
<1> QED
  BY <1>4, <1>5 DEF Ending

LEMMA EndingOfLonger ==
  ASSUME NEW T, NEW p \in Seq(T), NEW r \in Seq(T), NEW s \in Seq(T), Ending(p, s), Ending(r, s), Len(p) <= Len(r)
  PROVE  Ending(p, r)
<1>1. Len(p) \in Nat /\ Len(r) \in Nat /\ Len(s) \in Nat
  BY LenProperties
<1>2. PICK m \in 0 .. Len(s) : Len(p) = Len(s) - m /\ \A i \in 1 .. Len(p) : p[i] = s[i + m]
  BY DEF Ending
<1>3. PICK n \in 0 .. Len(s) : Len(r) = Len(s) - n /\ \A i \in 1 .. Len(r) : r[i] = s[i + n]
  BY DEF Ending
<1>4. m - n \in 0 .. Len(r) /\ Len(p) = Len(r) - (m - n)
  BY <1>1, <1>2, <1>3
<1>5. \A i \in 1 .. Len(p) : p[i] = r[i + (m - n)]
  <2> TAKE i \in 1 .. Len(p)
  <2>1. i + (m - n) \in 1 .. Len(r) /\ i + (m - n) + n = i + m
    BY <1>1, <1>2, <1>3
  <2> QED
    BY <1>2, <1>3, <2>1
<1> QED
  BY <1>4, <1>5 DEF Ending

LEMMA EndingWhole ==
  ASSUME NEW T, NEW r \in Seq(T), NEW s \in Seq(T), Ending(r, s), Len(r) = Len(s)
  PROVE  r = s
<1>1. PICK m \in 0 .. Len(s) : Len(r) = Len(s) - m /\ \A i \in 1 .. Len(r) : r[i] = s[i + m]
  BY DEF Ending
<1>2. Len(s) \in Nat /\ m = 0
  BY <1>1, LenProperties
<1>3. \A i \in 1 .. Len(s) : r[i] = s[i]
  BY <1>1, <1>2
<1> QED
  BY <1>3

LEMMA EndingSuffix ==
  ASSUME NEW T, NEW r \in Seq(T), NEW s \in Seq(T), Ending(r, s)
  PROVE  IsSuffix(r, s)
<1> DEFINE p == Reverse(r)
           q == Reverse(s)
           k == Len(r)
           n == Len(s)
<1>1. PICK m \in 0 .. n : k = n - m /\ \A i \in 1 .. k : r[i] = s[i + m]
  BY DEF Ending
<1>2. k \in Nat /\ n \in Nat /\ (\A i \in 1 .. k : r[i] \in T) /\ \A i \in 1 .. n : s[i] \in T
  BY LenProperties
<1>3. p = [i \in 1 .. k |-> r[k - i + 1]] /\ q = [i \in 1 .. n |-> s[n - i + 1]]
  BY DEF Reverse
<1> HIDE DEF p, q, k, n
<1>4. p \in Seq(T) /\ q \in Seq(T) /\ Len(p) = k /\ Len(q) = n
  <2>1. (\A i \in 1 .. k : r[k - i + 1] \in T) /\ \A i \in 1 .. n : s[n - i + 1] \in T
    <3>1. (\A i \in 1 .. k : k - i + 1 \in 1 .. k) /\ \A i \in 1 .. n : n - i + 1 \in 1 .. n
      BY <1>2
    <3> QED
      BY <1>2, <3>1
  <2> QED
    BY <1>2, <1>3, <2>1
<1>5. \A i \in 1 .. k : p[i] = q[i]
  <2> TAKE i \in 1 .. k
  <2>1. k - i + 1 \in 1 .. k /\ i \in 1 .. n /\ k - i + 1 + m = n - i + 1
    BY <1>1, <1>2
  <2> QED
    BY <1>1, <1>3, <2>1
<1>6. SubSeq(p, 1, k) = SubSeq(q, 1, k)
  <2>1. \A i \in 1 .. k : p[i] \in T /\ q[i] \in T /\ i \in 1 .. n
    BY <1>1, <1>2, <1>4
  <2>2. /\ SubSeq(p, 1, k) \in Seq(T) /\ Len(SubSeq(p, 1, k)) = IF 1 <= k THEN k - 1 + 1 ELSE 0
        /\ \A i \in 1 .. k - 1 + 1 : SubSeq(p, 1, k)[i] = p[1 + i - 1]
    BY <1>2, <2>1, SubSeqProperties
  <2>3. /\ SubSeq(q, 1, k) \in Seq(T) /\ Len(SubSeq(q, 1, k)) = IF 1 <= k THEN k - 1 + 1 ELSE 0
        /\ \A i \in 1 .. k - 1 + 1 : SubSeq(q, 1, k)[i] = q[1 + i - 1]
    BY <1>2, <2>1, SubSeqProperties
  <2>4. Len(SubSeq(p, 1, k)) = k /\ Len(SubSeq(q, 1, k)) = k
    BY <1>2, <2>2, <2>3
  <2>5. \A i \in 1 .. k : SubSeq(p, 1, k)[i] = SubSeq(q, 1, k)[i]
    BY <1>2, <1>5, <2>2, <2>3
  <2> QED
    BY <2>2, <2>3, <2>4, <2>5
<1>7. k <= n
  BY <1>1, <1>2
<1> QED
  BY <1>4, <1>6, <1>7 DEF IsSuffix, IsPrefix, p, q

-----------------------------------------------------------------------------
(* Keeping a part of a sequence.                                             *)

LEMMA IndexSet ==
  ASSUME NEW T, NEW s \in Seq(T), NEW I, I \subseteq DOMAIN s
  PROVE  I \subseteq Nat /\ IsFiniteSet(I) /\ \A i \in I : i \in 1 .. Len(s) /\ s[i] \in T
<1>1. DOMAIN s = 1 .. Len(s) /\ Len(s) \in Nat
  BY LenProperties
<1>2. IsFiniteSet(1 .. Len(s))
  BY <1>1, FS_Interval
<1>3. I \in SUBSET (1 .. Len(s))
  BY <1>1
<1>4. IsFiniteSet(I)
  BY <1>2, <1>3, FS_Subset
<1>5. \A i \in I : i \in 1 .. Len(s) /\ s[i] \in T
  BY <1>1
<1> QED
  BY <1>1, <1>4, <1>5

\* What is kept is listed by an increasing f.
Follows(r, s, I, f) ==
  /\ f \in [1 .. Len(r) -> I] /\ Len(r) \in Nat
  /\ \A k \in 1 .. Len(r) : r[k] = s[f[k]]
  /\ \A i \in I : \E k \in 1 .. Len(r) : f[k] = i
  /\ \A j, k \in 1 .. Len(r) : j < k => f[j] < f[k]
  /\ \A j, k \in 1 .. Len(r) : f[j] = f[k] => j = k

LEMMA KeepingFollows ==
  ASSUME NEW T, NEW s \in Seq(T), NEW I, I \subseteq DOMAIN s
  PROVE  /\ Keeping(s, I) \in Seq(T)
         /\ \E f : Follows(Keeping(s, I), s, I, f)
<1> DEFINE r == Keeping(s, I)
           n == Cardinality(I)
<1>1. I \subseteq Nat /\ IsFiniteSet(I) /\ \A i \in I : s[i] \in T
  BY IndexSet
<1>2. PICK f : Lists(f, I, Below(I)) /\ r = Read(s, f, n)
  BY <1>1, KeepingLists
<1>3. n \in Nat
  BY <1>1, FS_CardinalityType
<1>4. \A k \in 1 .. n : f[k] \in I
  BY <1>2 DEF Lists
<1>5. r \in Seq(T) /\ Len(r) = n /\ \A k \in 1 .. n : r[k] = s[f[k]]
  BY <1>1, <1>2, <1>3, <1>4, ReadSeq
<1>6. \A j, k \in 1 .. n : j < k => f[j] < f[k]
  BY <1>2, <1>4 DEF Lists, Below
<1>7. Follows(r, s, I, f)
  BY <1>2, <1>3, <1>5, <1>6 DEF Lists, Follows
<1> QED
  BY <1>5, <1>7

LEMMA KeepingWhole ==
  ASSUME NEW T, NEW s \in Seq(T)
  PROVE  Keeping(s, DOMAIN s) = s
<1> DEFINE n == Len(s)
           f == [k \in 1 .. n |-> k]
<1>1. n \in Nat /\ DOMAIN s = 1 .. n /\ 1 .. n \subseteq Nat /\ IsFiniteSet(1 .. n)
  BY LenProperties, FS_Interval
<1>2. f \in [1 .. n -> 1 .. n] /\ \A k \in 1 .. n : f[k] = k
  OBVIOUS
<1> HIDE DEF f, n
<1>3. Keeping(s, 1 .. n) = Read(s, f, n)
  BY <1>1, <1>2, KeepingBy
<1>4. Read(s, f, n) = s
  <2>1. \A k \in 1 .. n : s[f[k]] \in T
    BY <1>1, <1>2
  <2>2. Read(s, f, n) \in Seq(T) /\ Len(Read(s, f, n)) = n /\ \A k \in 1 .. n : Read(s, f, n)[k] = s[k]
    BY <1>1, <1>2, <2>1, ReadSeq
  <2> QED
    BY <2>2 DEF n
<1> QED
  BY <1>1, <1>3, <1>4

\* An increasing list crosses a bound once.
LEMMA Cut ==
  ASSUME NEW N \in Nat, NEW f, \A k \in 1 .. N : f[k] \in Nat,
         \A j, k \in 1 .. N : j < k => f[j] < f[k], NEW m \in Nat
  PROVE  \E c \in 0 .. N : \A k \in 1 .. N : k <= c <=> f[k] <= m
<1> DEFINE T == {k \in 1 .. N : ~(f[k] <= m)}
<1>1. CASE T = {}
  <2>1. \A k \in 1 .. N : k <= N <=> f[k] <= m
    BY <1>1
  <2> QED
    BY <2>1
<1>2. CASE T # {}
  <2>1. PICK t \in T : \A k \in T : ~(k < t)
    <3>1. T \subseteq Nat
      OBVIOUS
    <3> HIDE DEF T
    <3> QED
      BY <1>2, <3>1, Least
  <2>2. t \in 1 .. N /\ ~(f[t] <= m) /\ t - 1 \in 0 .. N
    OBVIOUS
  <2>3. ASSUME NEW k \in 1 .. N PROVE k <= t - 1 <=> f[k] <= m
    <3>1. CASE k < t
      BY <2>1, <2>2, <3>1
    <3>2. CASE k = t
      BY <2>2, <3>2
    <3>3. CASE t < k
      <4>1. f[t] < f[k] /\ f[t] \in Nat /\ f[k] \in Nat
        BY <2>2, <3>3
      <4> QED
        BY <2>2, <3>3, <4>1
    <3> QED
      BY <2>2, <3>1, <3>2, <3>3
  <2> QED
    BY <2>2, <2>3
<1> QED
  BY <1>1, <1>2

\* The view of the end of the records is the end of their view.
LEMMA ViewEnding ==
  ASSUME NEW T, NEW r \in Seq(T), NEW s \in Seq(T), Ending(r, s)
  PROVE  View(r) \in Seq(T) /\ View(s) \in Seq(T) /\ Ending(View(r), View(s))
<1> DEFINE I == {i \in DOMAIN s : Shown(s[i])}
           J == {i \in DOMAIN r : Shown(r[i])}
           v == Keeping(s, I)
           N == Len(v)
<1>1. View(s) = v /\ View(r) = Keeping(r, J)
  BY DEF View
<1>2. PICK m \in 0 .. Len(s) : Len(r) = Len(s) - m /\ \A i \in 1 .. Len(r) : r[i] = s[i + m]
  BY DEF Ending
<1>3. /\ Len(r) \in Nat /\ Len(s) \in Nat /\ m \in Nat
      /\ DOMAIN r = 1 .. Len(r) /\ DOMAIN s = 1 .. Len(s)
  BY LenProperties
<1>4. \A i \in 1 .. Len(r) : i \in J <=> i + m \in I
  BY <1>2, <1>3
<1>5. I \subseteq 1 .. Len(s) /\ J \subseteq 1 .. Len(r) /\ I \subseteq DOMAIN s /\ J \subseteq DOMAIN r
  BY <1>3
<1> HIDE DEF I, J
<1>6. v \in Seq(T) /\ Keeping(r, J) \in Seq(T)
  BY <1>5, KeepingFollows
<1>7. PICK f : Follows(v, s, I, f)
  BY <1>5, KeepingFollows
<1> HIDE DEF v
<1>8. N \in Nat /\ \A k \in 1 .. N : f[k] \in I /\ f[k] \in 1 .. Len(s)
  BY <1>5, <1>7 DEF Follows
<1> HIDE DEF N
<1>9. \A j, k \in 1 .. N : j < k => f[j] < f[k]
  BY <1>7 DEF Follows, N
<1>10. PICK c \in 0 .. N : \A k \in 1 .. N : k <= c <=> f[k] <= m
  <2>1. \A k \in 1 .. N : f[k] \in Nat
    BY <1>8
  <2> QED
    BY <1>3, <1>8, <1>9, <2>1, Cut
<1> DEFINE n == N - c
           h == [k \in 1 .. n |-> f[k + c] - m]
<1>11. n \in Nat /\ \A k \in 1 .. n : k + c \in 1 .. N /\ ~(k + c <= c)
  BY <1>8
<1>12. \A k \in 1 .. n : f[k + c] - m \in J
  <2> TAKE k \in 1 .. n
  <2>1. k + c \in 1 .. N /\ ~(f[k + c] <= m)
    BY <1>10, <1>11
  <2>2. f[k + c] \in I /\ f[k + c] \in 1 .. Len(s)
    BY <1>8, <2>1
  <2>3. f[k + c] - m \in 1 .. Len(r) /\ f[k + c] - m + m = f[k + c]
    BY <1>2, <1>3, <2>1, <2>2
  <2> QED
    BY <1>4, <2>2, <2>3
<1>13. h \in [1 .. n -> J] /\ \A k \in 1 .. n : h[k] = f[k + c] - m
  BY <1>12
<1>14. \A j, k \in 1 .. n : j < k => h[j] < h[k]
  <2> TAKE j, k \in 1 .. n
  <2>1. j + c \in 1 .. N /\ k + c \in 1 .. N /\ (j < k => j + c < k + c)
    BY <1>8, <1>11
  <2>2. f[j + c] \in Nat /\ f[k + c] \in Nat /\ (j < k => f[j + c] < f[k + c])
    BY <1>8, <1>9, <2>1
  <2> QED
    BY <1>3, <1>13, <2>2
<1>15. ASSUME NEW i \in J PROVE \E k \in 1 .. n : h[k] = i
  <2>1. i \in 1 .. Len(r) /\ i + m \in I
    BY <1>4, <1>5
  <2>2. PICK k \in 1 .. N : f[k] = i + m
    BY <1>7, <2>1 DEF Follows, N
  <2>3. ~(k <= c)
    BY <1>3, <1>10, <2>1, <2>2
  <2>4. k - c \in 1 .. n /\ k - c + c = k
    BY <1>8, <2>2, <2>3
  <2>5. h[k - c] = i
    BY <1>3, <1>13, <2>1, <2>2, <2>4
  <2> QED
    BY <2>4, <2>5
<1> HIDE DEF h, n
<1>16. Keeping(r, J) = Read(r, h, n)
  <2>1. J \subseteq Nat /\ IsFiniteSet(J)
    BY <1>5, IndexSet
  <2>2. n \in Nat /\ h \in [1 .. n -> J]
    BY <1>11, <1>13
  <2>3. \A i \in J : \E k \in 1 .. n : h[k] = i
    BY <1>15
  <2> QED
    BY <1>14, <2>1, <2>2, <2>3, KeepingBy
<1>17. Len(Read(r, h, n)) = n /\ \A k \in 1 .. n : Read(r, h, n)[k] = r[h[k]]
  <2>1. \A k \in 1 .. n : h[k] \in J /\ r[h[k]] \in T
    BY <1>3, <1>5, <1>13
  <2> QED
    BY <1>11, <2>1, ReadSeq
<1>18. \A k \in 1 .. n : r[h[k]] = v[k + c]
  <2> TAKE k \in 1 .. n
  <2>1. h[k] \in 1 .. Len(r) /\ h[k] + m = f[k + c] /\ k + c \in 1 .. N
    <3>1. h[k] \in J
      BY <1>13
    <3>2. k + c \in 1 .. N /\ f[k + c] \in 1 .. Len(s)
      BY <1>8, <1>11
    <3> QED
      BY <1>3, <1>5, <1>13, <3>1, <3>2
  <2>2. r[h[k]] = s[f[k + c]]
    BY <1>2, <2>1
  <2>3. \A l \in 1 .. N : v[l] = s[f[l]]
    BY <1>7 DEF Follows, N
  <2> QED
    BY <2>1, <2>2, <2>3
<1>19. Ending(Keeping(r, J), v)
  <2>1. c \in 0 .. Len(v) /\ n = Len(v) - c
    BY DEF n, N
  <2> DEFINE w == Read(r, h, n)
  <2>2. Len(w) = n /\ \A k \in 1 .. n : w[k] = v[k + c]
    BY <1>17, <1>18
  <2> HIDE DEF w
  <2>3. Ending(w, v)
    BY <2>1, <2>2 DEF Ending
  <2>4. Keeping(r, J) = w
    BY <1>16 DEF w
  <2> QED
    BY <2>3, <2>4
<1> QED
  BY <1>1, <1>6, <1>19

-----------------------------------------------------------------------------
(* Rows, their keys and the tables they keep unique.                         *)

\* The rows that a recording makes: of a message or of an answer, under the key
\* made of it, at the time the platform gave where there is one.
Recorded ==
  {m \in {Row(kind, role, e, at) : kind \in {"collect", "chat"}, role \in {"user", "assistant"},
                                   e \in Messages \cup Replies, at \in Nat} :
     \/ m.role = "user" /\ m.of \in Messages /\ (m.of.time # None => m.at = m.of.time)
     \/ m.role = "assistant" /\ m.kind = "chat" /\ m.of \in Replies}

\* The rows an owner can have: a user's are all chat, a group has old ones too.
RowsOf(o) == IF o \in Groups THEN ToSet(Legacy[o]) \cup Recorded ELSE {m \in Recorded : m.kind = "chat"}
Rows == UNION {RowsOf(o) : o \in Owners}

Unique(table) == \A i, j \in DOMAIN table : table[i].key = table[j].key => i = j

LEMMA RecordedIs ==
  ASSUME NEW m \in Recorded
  PROVE  /\ m.kind \in {"collect", "chat"} /\ m.role \in {"user", "assistant"} /\ m.at \in Nat
         /\ m.of \in Messages \cup Replies
         /\ m.key = EventKey(m.kind, m.role, m.of, m.at)
         /\ m.role = "user" => (m.of \in Messages /\ (m.of.time # None => m.at = m.of.time))
         /\ m.role = "assistant" => m.kind = "chat"
<1>1. PICK kind \in {"collect", "chat"}, role \in {"user", "assistant"}, e \in Messages \cup Replies, at \in Nat :
        m = Row(kind, role, e, at)
  BY DEF Recorded
<1>2. m.kind = kind /\ m.role = role /\ m.of = e /\ m.at = at /\ m.key = EventKey(kind, role, e, at)
  BY <1>1 DEF Row
<1>3. \/ m.role = "user" /\ m.of \in Messages /\ (m.of.time # None => m.at = m.of.time)
      \/ m.role = "assistant" /\ m.kind = "chat" /\ m.of \in Replies
  BY DEF Recorded
<1>4. "user" # "assistant"
  OBVIOUS
<1> QED
  BY <1>1, <1>2, <1>3, <1>4

\* An old row of a group.
LEMMA OldIs ==
  ASSUME NEW g \in Groups, NEW l \in ToSet(Legacy[g])
  PROVE  /\ l.kind = "collect" /\ l.role = "user" /\ l.at \in Nat
         /\ l.key[1] \notin {"collect", "chat"} /\ l.of \notin Messages \cup Replies
         /\ \A m \in ToSet(Legacy[g]) : l.key = m.key \/ l.of = m.of => l = m
BY LegacyAssumption

\* A key tells the kind of a row and whether two things are alike.
LEMMA KeyAlike ==
  ASSUME NEW m \in Recorded, NEW n \in Recorded, m.key = n.key
  PROVE  m.kind = n.kind /\ Alike(Heard(m), Heard(n))
<1> DEFINE K(x) == x.key = IF x.of.id # None THEN <<x.kind, x.role, x.of.id>>
                                             ELSE <<x.kind, x.role, x.of.sender, x.at, x.of.words>>
<1>1. K(m) /\ K(n)
  BY RecordedIs DEF EventKey
<1>2. \A a, b, c, d, e, f, g, h : <<a, b, c>> # <<d, e, f, g, h>>
  <2> TAKE a, b, c, d, e, f, g, h
  <2>1. Len(<<a, b, c>>) = 3 /\ Len(<<d, e, f, g, h>>) = 5
    OBVIOUS
  <2> QED
    BY <2>1
<1>3. m.of.id # None <=> n.of.id # None
  BY <1>1, <1>2
<1>4. /\ m.kind = n.kind /\ m.role = n.role /\ m.of.id = n.of.id
      /\ m.of.id = None => m.of.sender = n.of.sender /\ m.at = n.at /\ m.of.words = n.of.words
  <2>1. CASE m.of.id # None
    <3>1. <<m.kind, m.role, m.of.id>> = <<n.kind, n.role, n.of.id>>
      BY <1>1, <1>3, <2>1
    <3> QED
      BY <2>1, <3>1
  <2>2. CASE m.of.id = None
    <3>1. <<m.kind, m.role, m.of.sender, m.at, m.of.words>> = <<n.kind, n.role, n.of.sender, n.at, n.of.words>>
      BY <1>1, <1>3, <2>2
    <3> QED
      BY <1>3, <2>2, <3>1
  <2> QED
    BY <2>1, <2>2
<1> QED
  BY <1>4 DEF Alike, Heard

\* In the table of an owner the key tells what was said.
LEMMA SameKeyAlike ==
  ASSUME NEW o \in Owners, NEW m \in RowsOf(o), NEW n \in RowsOf(o), m.key = n.key
  PROVE  m.kind = n.kind /\ Alike(Heard(m), Heard(n))
<1>1. ASSUME NEW x \in Recorded PROVE x.key[1] \in {"collect", "chat"}
  <2>0. x.key = EventKey(x.kind, x.role, x.of, x.at)
    BY RecordedIs
  <2>1. x.key[1] = x.kind
    <3>1. CASE x.of.id # None
      <4>1. x.key = <<x.kind, x.role, x.of.id>>
        BY <2>0, <3>1 DEF EventKey
      <4> QED
        BY <4>1
    <3>2. CASE x.of.id = None
      <4>1. x.key = <<x.kind, x.role, x.of.sender, x.at, x.of.words>>
        BY <2>0, <3>2 DEF EventKey
      <4> QED
        BY <4>1
    <3> QED
      BY <3>1, <3>2
  <2> QED
    BY <2>1, RecordedIs
<1>2. CASE m \in Recorded /\ n \in Recorded
  BY <1>2, KeyAlike
<1>3. CASE m \notin Recorded \/ n \notin Recorded
  <2>1. o \in Groups /\ (m \in ToSet(Legacy[o]) \/ n \in ToSet(Legacy[o]))
    BY <1>3 DEF RowsOf
  <2>2. m \in ToSet(Legacy[o]) /\ n \in ToSet(Legacy[o])
    BY <1>1, <2>1, OldIs DEF RowsOf
  <2>3. m = n
    BY <2>1, <2>2, OldIs
  <2> QED
    BY <2>3 DEF Alike
<1> QED
  BY <1>2, <1>3

\* Whom a view shows a row.
Seen(o, m) == o \in Groups => Shown(m)

\* A stable thing has one key in what is visible of an owner.
LEMMA StableKey ==
  ASSUME NEW o \in Owners, NEW m \in RowsOf(o), NEW n \in RowsOf(o), Seen(o, m), Seen(o, n),
         Stable(Heard(m)), Same(Heard(m), Heard(n))
  PROVE  m.key = n.key
<1>1. m.of = n.of /\ m.role = n.role /\ (m.of.id # None \/ (m.role = "user" /\ m.of.time # None))
  BY DEF Same, Stable, Heard
<1>2. CASE m \in Recorded /\ n \in Recorded
  <2>1. m.kind = n.kind
    <3>1. CASE o \in Groups
      <4>1. m.kind = "collect" \/ m.role = "assistant"
        BY <3>1 DEF Seen, Shown
      <4>2. n.kind = "collect" \/ n.role = "assistant"
        BY <3>1 DEF Seen, Shown
      <4>3. "collect" # "chat"
        OBVIOUS
      <4> QED
        BY <1>1, <1>2, <4>1, <4>2, <4>3, RecordedIs
    <3>2. CASE o \notin Groups
      BY <3>2 DEF RowsOf
    <3> QED
      BY <3>1, <3>2
  <2>2. m.of.id = None => m.at = n.at
    BY <1>1, <1>2, RecordedIs
  <2>3. m.key = EventKey(m.kind, m.role, m.of, m.at) /\ n.key = EventKey(n.kind, n.role, n.of, n.at)
    BY <1>2, RecordedIs
  <2> QED
    BY <1>1, <2>1, <2>2, <2>3 DEF EventKey
<1>3. CASE m \notin Recorded \/ n \notin Recorded
  <2>1. o \in Groups /\ (m \in ToSet(Legacy[o]) \/ n \in ToSet(Legacy[o]))
    BY <1>3 DEF RowsOf
  <2>2. m \in ToSet(Legacy[o]) /\ n \in ToSet(Legacy[o])
    BY <1>1, <2>1, OldIs, RecordedIs DEF RowsOf
  <2>3. m = n
    BY <1>1, <2>1, <2>2, OldIs
  <2> QED
    BY <2>3
<1> QED
  BY <1>2, <1>3

\* Two alike of which none is second are the same.
LEMMA DistinctSame ==
  ASSUME NEW o, NEW s \in said[o], NEW t \in said[o], Alike(t, s), Distinct(s, o)
  PROVE  Same(t, s)
<1>1. Alike(s, t)
  BY DEF Alike
<1>2. t.of = s.of
  BY <1>1 DEF Distinct
<1> QED
  BY <1>2 DEF Same, Alike

\* INSERT OR IGNORE keeps a table unique and adds the key at most.
LEMMA InsertedIs ==
  ASSUME NEW T, NEW table \in Seq(T), NEW m \in T
  PROVE  /\ Inserted(table, m) \in Seq(T)
         /\ Keys(Inserted(table, m)) = Keys(table) \cup {m.key}
         /\ Unique(table) => Unique(Inserted(table, m))
         /\ ToSet(Inserted(table, m)) \subseteq ToSet(table) \cup {m}
         /\ m.key \in Keys(table) => Inserted(table, m) = table
         /\ m.key \notin Keys(table) => Inserted(table, m) = Append(table, m)
<1>1. CASE m.key \in Keys(table)
  <2>1. Inserted(table, m) = table
    BY <1>1 DEF Inserted
  <2> QED
    BY <1>1, <2>1
<1>2. CASE m.key \notin Keys(table)
  <2> DEFINE t == Append(table, m)
             k == Len(table)
  <2>1. Inserted(table, m) = t
    BY <1>2 DEF Inserted
  <2>2. /\ t \in Seq(T) /\ k \in Nat /\ DOMAIN table = 1 .. k /\ DOMAIN t = 1 .. k + 1
        /\ \A i \in 1 .. k : t[i] = table[i]
        /\ t[k + 1] = m
    BY LenProperties, AppendProperties
  <2> HIDE DEF t, k
  <2>3. \A i \in 1 .. k + 1 : i \in 1 .. k \/ i = k + 1
    BY <2>2
  <2>4. Keys(t) = Keys(table) \cup {m.key}
    <3>1. k + 1 \in 1 .. k + 1 /\ \A i \in 1 .. k : i \in 1 .. k + 1
      BY <2>2
    <3> QED
      BY <2>2, <2>3, <3>1 DEF Keys
  <2>5. \A i \in 1 .. k : table[i].key # m.key
    BY <1>2, <2>2 DEF Keys
  <2>6. Unique(table) => Unique(t)
    BY <2>2, <2>3, <2>5 DEF Unique
  <2>7. ToSet(t) \subseteq ToSet(table) \cup {m}
    BY <2>2, <2>3 DEF ToSet
  <2> QED
    BY <1>2, <2>1, <2>2, <2>4, <2>6, <2>7 DEF t
<1> QED
  BY <1>1, <1>2

\* The copy as far as k rows.
Copies(f, table, old, k) ==
  f = [i \in 0 .. k |-> f[i]] /\ f[0] = table /\ \A i \in 1 .. k : f[i] = Inserted(f[i - 1], old[i])

LEMMA CopiesSome ==
  ASSUME NEW table, NEW old, NEW n \in Nat
  PROVE  \E f : Copies(f, table, old, n)
<1> DEFINE T == {k \in 0 .. n : \E f : Copies(f, table, old, k)}
<1>1. 0 \in T
  <2>1. Copies([i \in 0 .. 0 |-> table], table, old, 0)
    BY DEF Copies
  <2> QED
    BY <2>1
<1>2. ASSUME NEW k \in 0 .. n, k \in T, k < n PROVE k + 1 \in T
  <2>1. PICK f : Copies(f, table, old, k)
    BY <1>2
  <2> DEFINE h == [i \in 0 .. k + 1 |-> IF i = k + 1 THEN Inserted(f[k], old[k + 1]) ELSE f[i]]
  <2>2. h = [i \in 0 .. k + 1 |-> h[i]] /\ h[0] = table
    BY <2>1 DEF Copies
  <2>3. ASSUME NEW i \in 1 .. k + 1 PROVE h[i] = Inserted(h[i - 1], old[i])
    <3>1. CASE i = k + 1
      BY <3>1
    <3>2. CASE i \in 1 .. k
      <4>1. h[i] = f[i] /\ h[i - 1] = f[i - 1]
        BY <3>2
      <4> QED
        BY <2>1, <3>2, <4>1 DEF Copies
    <3> QED
      BY <3>1, <3>2
  <2> HIDE DEF h
  <2>4. Copies(h, table, old, k + 1)
    BY <2>2, <2>3 DEF Copies
  <2>5. k + 1 \in 0 .. n
    BY <1>2
  <2> QED
    BY <2>4, <2>5
<1>3. n \in T
  <2> HIDE DEF T
  <2> QED
    BY <1>1, <1>2, Climb
<1> QED
  BY <1>3

\* What a table has become after some rows of the old one were copied.
Grown(t, table, old, i, T) ==
  /\ t \in Seq(T)
  /\ Keys(t) = Keys(table) \cup {old[x].key : x \in 1 .. i}
  /\ Unique(table) => Unique(t)
  /\ ToSet(t) \subseteq ToSet(table) \cup ToSet(old)
  /\ Keys(old) \subseteq Keys(table) => t = table

LEMMA GrownMore ==
  ASSUME NEW T, NEW table, NEW old \in Seq(T), NEW i \in Nat, i + 1 \in 1 .. Len(old),
         NEW t, Grown(t, table, old, i, T)
  PROVE  Grown(Inserted(t, old[i + 1]), table, old, i + 1, T)
<1>1. PICK m \in T : m = old[i + 1]
  OBVIOUS
<1>2. DOMAIN old = 1 .. Len(old) /\ t \in Seq(T)
  BY LenProperties DEF Grown
<1>3. m \in ToSet(old) /\ m.key \in Keys(old)
  BY <1>1, <1>2 DEF ToSet, Keys
<1>4. {old[x].key : x \in 1 .. i + 1} = {old[x].key : x \in 1 .. i} \cup {m.key}
  <2>1. \A x \in 1 .. i + 1 : x \in 1 .. i \/ x = i + 1
    OBVIOUS
  <2>2. i + 1 \in 1 .. i + 1 /\ \A x \in 1 .. i : x \in 1 .. i + 1
    OBVIOUS
  <2> QED
    BY <1>1, <2>1, <2>2
<1>5. Inserted(t, m) \in Seq(T)
  BY <1>2, InsertedIs
<1>6. Keys(Inserted(t, m)) = Keys(t) \cup {m.key}
  BY <1>2, InsertedIs
<1>7. Unique(t) => Unique(Inserted(t, m))
  BY <1>2, InsertedIs
<1>8. ToSet(Inserted(t, m)) \subseteq ToSet(t) \cup {m}
  BY <1>2, InsertedIs
<1>9. m.key \in Keys(t) => Inserted(t, m) = t
  BY <1>2, InsertedIs
<1>10. Grown(Inserted(t, m), table, old, i + 1, T)
  BY <1>3, <1>4, <1>5, <1>6, <1>7, <1>8, <1>9 DEF Grown
<1> QED
  BY <1>1, <1>10

LEMMA MigratedGrown ==
  ASSUME NEW T, NEW table \in Seq(T), NEW old \in Seq(T)
  PROVE  Grown(Migrated(table, old), table, old, Len(old), T)
<1> DEFINE n == Len(old)
           Rec(f) == f = [k \in 0 .. n |-> IF k = 0 THEN table ELSE Inserted(f[k - 1], old[k])]
           f == CHOOSE f : Rec(f)
<1>1. n \in Nat /\ DOMAIN old = 1 .. n /\ \A x \in 1 .. n : old[x] \in T
  BY LenProperties
<1>2. Migrated(table, old) = f[n]
  BY DEF Migrated
<1> HIDE DEF n
<1>3. Rec(f)
  <2>1. PICK h : Copies(h, table, old, n)
    BY <1>1, CopiesSome
  <2>2. Rec(h)
    <3>1. h = [i \in 0 .. n |-> h[i]]
      BY <2>1 DEF Copies
    <3>2. ASSUME NEW i \in 0 .. n
          PROVE  h[i] = IF i = 0 THEN table ELSE Inserted(h[i - 1], old[i])
      <4>1. h[0] = table /\ \A j \in 1 .. n : h[j] = Inserted(h[j - 1], old[j])
        BY <2>1 DEF Copies
      <4>2. i = 0 \/ i \in 1 .. n
        BY <1>1
      <4> QED
        BY <4>1, <4>2
    <3> QED
      BY <3>1, <3>2
  <2> HIDE DEF Rec
  <2> QED
    BY <2>2
<1> HIDE DEF f
<1> DEFINE S == {i \in 0 .. n : Grown(f[i], table, old, i, T)}
<1>4. 0 \in S
  <2>1. f[0] = table
    BY <1>1, <1>3
  <2>2. Grown(table, table, old, 0, T)
    BY DEF Grown
  <2> QED
    BY <1>1, <2>1, <2>2
<1>5. ASSUME NEW i \in 0 .. n, i \in S, i < n PROVE i + 1 \in S
  <2>1. i + 1 \in 0 .. n /\ i + 1 \in 1 .. n /\ f[i + 1] = Inserted(f[i], old[i + 1])
    BY <1>1, <1>3, <1>5
  <2>2. Grown(f[i], table, old, i, T)
    BY <1>5
  <2>3. Grown(Inserted(f[i], old[i + 1]), table, old, i + 1, T)
    <3>1. i + 1 \in 1 .. Len(old)
      BY <2>1 DEF n
    <3> QED
      BY <2>2, <3>1, GrownMore
  <2> QED
    BY <2>1, <2>3
<1>6. n \in S
  <2> HIDE DEF S
  <2>1. \A i \in 0 .. n : i \in S /\ i < n => i + 1 \in S
    BY <1>5
  <2>2. \A i \in 0 .. n : i \in S
    BY <1>1, <1>4, <2>1, Climb
  <2> QED
    BY <1>1, <2>2
<1> QED
  BY <1>2, <1>6 DEF n

-----------------------------------------------------------------------------
(* Types.                                                                    *)

Recording == {r \in [pc : {"insert", "append", "done"}, owner : Owners, m : Recorded] : r.m \in RowsOf(r.owner)}

TypeInv ==
  /\ DOMAIN rows = Owners /\ \A o \in Owners : rows[o] \in Seq(RowsOf(o))
  /\ DOMAIN legacy = Groups /\ \A g \in Groups : legacy[g] \in Seq(RowsOf(g))
  /\ DOMAIN daily = Users /\ \A u \in Users : daily[u] \in Seq(RowsOf(u))
  /\ now \in Nat /\ started \in Nat
  /\ DOMAIN jobs = Jobs /\ \A j \in Jobs : jobs[j] = Idle \/ jobs[j] \in Recording
  /\ DOMAIN said = Owners

LEMMA RowsAre ==
  ASSUME NEW m \in Rows
  PROVE  m.at \in Nat /\ m.kind \in {"collect", "chat"}
<1>1. PICK o \in Owners : m \in RowsOf(o)
  BY DEF Rows
<1>2. CASE m \in Recorded
  BY <1>2, RecordedIs
<1>3. CASE m \notin Recorded
  <2>1. o \in Groups /\ m \in ToSet(Legacy[o])
    BY <1>1, <1>3 DEF RowsOf
  <2> QED
    BY <2>1, OldIs
<1> QED
  BY <1>2, <1>3

LEMMA TableRows ==
  ASSUME NEW o \in Owners, NEW table \in Seq(RowsOf(o))
  PROVE  table \in Seq(Rows) /\ \A i \in DOMAIN table : table[i] \in RowsOf(o)
<1>1. RowsOf(o) \subseteq Rows
  BY DEF Rows
<1>2. /\ Len(table) \in Nat /\ DOMAIN table = 1 .. Len(table)
      /\ table = [i \in 1 .. Len(table) |-> table[i]]
      /\ \A i \in 1 .. Len(table) : table[i] \in RowsOf(o)
  BY LenProperties
<1>3. [i \in 1 .. Len(table) |-> table[i]] \in Seq(Rows)
  BY <1>1, <1>2
<1> QED
  BY <1>2, <1>3

LEMMA LegacyRows ==
  ASSUME NEW g \in Groups
  PROVE  /\ Legacy[g] \in Seq(RowsOf(g)) /\ DOMAIN Legacy = Groups
         /\ \A m \in ToSet(Legacy[g]) : Shown(m)
<1>1. Legacy[g] \in Seq(ToSet(Legacy[g])) /\ Legacy = [h \in Groups |-> Legacy[h]]
  BY ChatHistoryAssumption
<1>2. DOMAIN Legacy[g] = 1 .. Len(Legacy[g]) /\ Len(Legacy[g]) \in Nat /\ Legacy[g] = [i \in 1 .. Len(Legacy[g]) |-> Legacy[g][i]]
  BY <1>1, LenProperties
<1>3. \A i \in 1 .. Len(Legacy[g]) : Legacy[g][i] \in RowsOf(g)
  BY <1>2 DEF ToSet, RowsOf
<1>4. Legacy[g] \in Seq(RowsOf(g))
  BY <1>2, <1>3
<1>5. DOMAIN Legacy = Groups
  BY <1>1
<1>6. \A m \in ToSet(Legacy[g]) : Shown(m)
  BY OldIs DEF Shown
<1> QED
  BY <1>4, <1>5, <1>6

LEMMA OpenedIs ==
  ASSUME TypeInv, NEW o \in Owners
  PROVE  /\ Opened(o) \in Seq(RowsOf(o))
         /\ o \in Groups => Grown(Opened(o), rows[o], legacy[o], Len(legacy[o]), RowsOf(o))
         /\ o \in Users => Opened(o) = rows[o]
<1>1. CASE o \in Groups
  <2>1. rows[o] \in Seq(RowsOf(o)) /\ legacy[o] \in Seq(RowsOf(o))
    BY <1>1 DEF TypeInv
  <2>2. Grown(Migrated(rows[o], legacy[o]), rows[o], legacy[o], Len(legacy[o]), RowsOf(o))
    BY <2>1, MigratedGrown
  <2>3. Opened(o) = Migrated(rows[o], legacy[o])
    BY <1>1 DEF Opened
  <2>4. Opened(o) \in Seq(RowsOf(o))
    BY <2>2, <2>3 DEF Grown
  <2>5. o \notin Users
    BY <1>1, ChatHistoryAssumption
  <2> QED
    BY <2>2, <2>3, <2>4, <2>5
<1>2. CASE o \notin Groups
  BY <1>2 DEF Opened, TypeInv
<1> QED
  BY <1>1, <1>2

LEMMA InitType == Init => TypeInv
<1> SUFFICES ASSUME Init PROVE TypeInv
  OBVIOUS
<1>1. DOMAIN legacy = Groups /\ \A g \in Groups : legacy[g] \in Seq(RowsOf(g))
  <2>1. legacy = Legacy /\ DOMAIN Legacy = Groups
    BY ChatHistoryAssumption DEF Init
  <2> QED
    BY <2>1, LegacyRows
<1>2. \A T : <<>> \in Seq(T)
  OBVIOUS
<1> QED
  BY <1>1, <1>2 DEF Init, TypeInv

LEMMA BeginType ==
  ASSUME TypeInv, NEW o \in Owners, NEW m \in RowsOf(o), m \in Recorded, Begin(o, m)
  PROVE  TypeInv'
<1>1. started \in Nat /\ started' = started + 1 /\ UNCHANGED <<rows, legacy, daily, now, said>>
  BY DEF Begin, store, TypeInv
<1>2. [pc |-> "insert", owner |-> o, m |-> m] \in Recording
  BY DEF Recording
<1>3. DOMAIN jobs' = Jobs /\ \A j \in Jobs : jobs'[j] = jobs[j] \/ jobs'[j] = [pc |-> "insert", owner |-> o, m |-> m]
  BY DEF Begin, TypeInv
<1>4. \A j \in Jobs : jobs'[j] = Idle \/ jobs'[j] \in Recording
  BY <1>2, <1>3 DEF TypeInv
<1>5. started' \in Nat
  BY <1>1
<1> QED
  BY <1>1, <1>3, <1>4, <1>5 DEF TypeInv

LEMMA RowRecorded ==
  ASSUME NEW kind \in {"collect", "chat"}, NEW e \in Messages, now \in Nat
  PROVE  Row(kind, "user", e, CreatedAt(e)) \in Recorded /\ Row(kind, "user", e, CreatedAt(e)).kind = kind
<1> DEFINE at == CreatedAt(e)
           m == Row(kind, "user", e, at)
<1>1. at \in Nat /\ (e.time # None => at = e.time)
  BY ChatHistoryAssumption DEF CreatedAt
<1> HIDE DEF at
<1>2. m.role = "user" /\ m.of = e /\ m.at = at /\ m.kind = kind
  BY DEF Row
<1>3. m.of \in Messages /\ (m.of.time # None => m.at = m.of.time)
  BY <1>1, <1>2
<1>4. m \in {Row(k, role, x, a) : k \in {"collect", "chat"}, role \in {"user", "assistant"}, x \in Messages \cup Replies, a \in Nat}
  BY <1>1
<1> HIDE DEF m
<1>5. m \in Recorded
  BY <1>2, <1>3, <1>4 DEF Recorded
<1> QED
  BY <1>2, <1>5 DEF m, at

LEMMA ReplyRecorded ==
  ASSUME NEW r \in Replies, now \in Nat
  PROVE  Row("chat", "assistant", r, now) \in Recorded /\ Row("chat", "assistant", r, now).kind = "chat"
<1> DEFINE m == Row("chat", "assistant", r, now)
<1>1. m.role = "assistant" /\ m.of = r /\ m.kind = "chat"
  BY DEF Row
<1>2. m \in {Row(k, role, x, a) : k \in {"collect", "chat"}, role \in {"user", "assistant"}, x \in Messages \cup Replies, a \in Nat}
  OBVIOUS
<1> HIDE DEF m
<1>3. m \in Recorded
  BY <1>1, <1>2 DEF Recorded
<1> QED
  BY <1>1, <1>3 DEF m

\* What is recorded: by an owner, a row of his.
LEMMA RecordBegins ==
  ASSUME TypeInv,
         \/ \E e \in Messages : Collect(e) \/ RecordCommand(e)
         \/ \E r \in Replies : RecordReply(r)
  PROVE  \E o \in Owners : \E m \in RowsOf(o) : m \in Recorded /\ Begin(o, m)
<1>0. now \in Nat
  BY DEF TypeInv
<1>1. ASSUME NEW e \in Messages, Collect(e)
      PROVE  \E o \in Owners : \E m \in RowsOf(o) : m \in Recorded /\ Begin(o, m)
  <2> DEFINE kind == IF e.owner \in Groups THEN "collect" ELSE "chat"
             m == Row(kind, "user", e, CreatedAt(e))
  <2>1. kind \in {"collect", "chat"}
    OBVIOUS
  <2>2. m \in Recorded /\ m.kind = kind
    <3> HIDE DEF kind
    <3> QED
      BY <1>0, <2>1, RowRecorded
  <2>3. Begin(e.owner, m)
    BY <1>1 DEF Collect
  <2> HIDE DEF m
  <2>4. m \in RowsOf(e.owner)
    BY <2>2 DEF RowsOf
  <2>5. e.owner \in Owners
    BY ChatHistoryAssumption
  <2> QED
    BY <2>2, <2>3, <2>4, <2>5
<1>2. ASSUME NEW e \in Messages, RecordCommand(e)
      PROVE  \E o \in Owners : \E m \in RowsOf(o) : m \in Recorded /\ Begin(o, m)
  <2> DEFINE m == Row("chat", "user", e, CreatedAt(e))
  <2>1. m \in Recorded /\ m.kind = "chat"
    BY <1>0, RowRecorded
  <2>2. Begin(e.owner, m)
    BY <1>2 DEF RecordCommand
  <2> HIDE DEF m
  <2>3. m \in RowsOf(e.owner)
    BY <2>1 DEF RowsOf
  <2>4. e.owner \in Owners
    BY ChatHistoryAssumption
  <2> QED
    BY <2>1, <2>2, <2>3, <2>4
<1>3. ASSUME NEW r \in Replies, RecordReply(r)
      PROVE  \E o \in Owners : \E m \in RowsOf(o) : m \in Recorded /\ Begin(o, m)
  <2> DEFINE m == Row("chat", "assistant", r, now)
  <2>1. m \in Recorded /\ m.kind = "chat"
    BY <1>0, ReplyRecorded
  <2>2. Begin(r.owner, m)
    BY <1>3 DEF RecordReply
  <2> HIDE DEF m
  <2>3. m \in RowsOf(r.owner)
    BY <2>1 DEF RowsOf
  <2>4. r.owner \in Owners
    BY ChatHistoryAssumption
  <2> QED
    BY <2>1, <2>2, <2>3, <2>4
<1> QED
  BY <1>1, <1>2, <1>3

\* A recording that is at one of its steps.
LEMMA AtWork ==
  ASSUME TypeInv, NEW j \in Jobs, jobs[j].pc \in {"insert", "append"}
  PROVE  /\ jobs[j] \in Recording /\ jobs[j] # Idle
         /\ jobs[j].owner \in Owners /\ jobs[j].m \in Recorded /\ jobs[j].m \in RowsOf(jobs[j].owner)
<1>1. jobs[j] # Idle
  BY DEF Idle
<1> QED
  BY <1>1 DEF TypeInv, Recording

\* The step of a recording at j to the place pc.
LEMMA MovedType ==
  ASSUME TypeInv, NEW j \in Jobs, jobs[j] \in Recording, NEW pc \in {"insert", "append", "done"},
         jobs' = [jobs EXCEPT ![j].pc = pc]
  PROVE  /\ DOMAIN jobs' = Jobs /\ \A i \in Jobs : jobs'[i] = Idle \/ jobs'[i] \in Recording
         /\ jobs'[j] = [pc |-> pc, owner |-> jobs[j].owner, m |-> jobs[j].m]
         /\ \A i \in Jobs : i # j => jobs'[i] = jobs[i]
<1>1. jobs[j] = [pc |-> jobs[j].pc, owner |-> jobs[j].owner, m |-> jobs[j].m]
  BY DEF Recording
<1>2. [jobs[j] EXCEPT !.pc = pc] = [pc |-> pc, owner |-> jobs[j].owner, m |-> jobs[j].m]
  BY <1>1
<1>3. [pc |-> pc, owner |-> jobs[j].owner, m |-> jobs[j].m] \in Recording
  BY DEF Recording
<1>4. DOMAIN jobs' = Jobs /\ jobs'[j] = [jobs[j] EXCEPT !.pc = pc] /\ \A i \in Jobs : i # j => jobs'[i] = jobs[i]
  BY DEF TypeInv
<1>5. \A i \in Jobs : jobs'[i] = Idle \/ jobs'[i] \in Recording
  BY <1>2, <1>3, <1>4 DEF TypeInv
<1> QED
  BY <1>2, <1>4, <1>5

LEMMA InsertType ==
  ASSUME TypeInv, NEW j \in Jobs, Insert(j)
  PROVE  TypeInv'
<1> DEFINE o == jobs[j].owner
           m == jobs[j].m
           pc == AfterInsert(o, m.key \notin Keys(Opened(o)))
<1>1. jobs[j] \in Recording /\ o \in Owners /\ m \in RowsOf(o)
  BY AtWork DEF Insert
<1>2. pc \in {"insert", "append", "done"} /\ jobs' = [jobs EXCEPT ![j].pc = pc]
  BY DEF AfterInsert, Insert
<1>3. DOMAIN jobs' = Jobs /\ \A i \in Jobs : jobs'[i] = Idle \/ jobs'[i] \in Recording
  <2> HIDE DEF pc
  <2> QED
    BY <1>1, <1>2, MovedType
<1>4. rows' = [rows EXCEPT ![o] = Inserted(Opened(o), m)]
  BY DEF Insert
<1>5. Inserted(Opened(o), m) \in Seq(RowsOf(o))
  BY <1>1, OpenedIs, InsertedIs
<1>6. DOMAIN rows' = Owners /\ \A x \in Owners : rows'[x] \in Seq(RowsOf(x))
  <2> HIDE DEF o, m
  <2> QED
    BY <1>1, <1>4, <1>5 DEF TypeInv
<1>7. DOMAIN said' = Owners
  BY DEF Insert, TypeInv
<1>8. UNCHANGED <<legacy, daily, now, started>>
  BY DEF Insert
<1> QED
  BY <1>3, <1>6, <1>7, <1>8 DEF TypeInv

LEMMA AppendType ==
  ASSUME TypeInv, NEW j \in Jobs, AppendDaily(j)
  PROVE  TypeInv'
<1> DEFINE u == jobs[j].owner
           m == jobs[j].m
<1>1. jobs[j] \in Recording /\ m \in RowsOf(u)
  BY AtWork DEF AppendDaily
<1>2. DOMAIN jobs' = Jobs /\ \A i \in Jobs : jobs'[i] = Idle \/ jobs'[i] \in Recording
  BY <1>1, MovedType DEF AppendDaily
<1>3. daily' = [daily EXCEPT ![u] = Append(daily[u], m)]
  BY DEF AppendDaily
<1>4. UNCHANGED <<rows, legacy, now, started, said>>
  BY DEF AppendDaily, history
<1>5. DOMAIN daily' = Users /\ \A x \in Users : daily'[x] \in Seq(RowsOf(x))
  <2> HIDE DEF u, m
  <2>1. ASSUME NEW x \in Users PROVE daily'[x] \in Seq(RowsOf(x))
    <3>1. CASE x = u
      <4>1. Append(daily[u], m) \in Seq(RowsOf(u))
        BY <1>1, <3>1 DEF TypeInv
      <4> QED
        BY <1>3, <3>1, <4>1 DEF TypeInv
    <3>2. CASE x # u
      BY <1>3, <3>2 DEF TypeInv
    <3> QED
      BY <3>1, <3>2
  <2> QED
    BY <1>3, <2>1 DEF TypeInv
<1> QED
  BY <1>2, <1>4, <1>5 DEF TypeInv

LEMMA FailType ==
  ASSUME TypeInv, NEW j \in Jobs, AppendFails(j)
  PROVE  TypeInv'
<1>1. jobs[j] \in Recording
  BY AtWork DEF AppendFails
<1>2. DOMAIN jobs' = Jobs /\ \A i \in Jobs : jobs'[i] = Idle \/ jobs'[i] \in Recording
  BY <1>1, MovedType DEF AppendFails
<1>3. UNCHANGED <<rows, legacy, daily, now, started, said>>
  BY DEF AppendFails, store
<1> QED
  BY <1>2, <1>3 DEF TypeInv

LEMMA DeleteType ==
  ASSUME TypeInv, NEW o \in Owners, DeleteChatSpace(o)
  PROVE  TypeInv'
<1>1. \A T : <<>> \in Seq(T)
  OBVIOUS
<1>2. rows' = [rows EXCEPT ![o] = <<>>] /\ UNCHANGED <<jobs, now, started>>
  BY DEF DeleteChatSpace
<1>3. DOMAIN rows' = Owners /\ \A x \in Owners : rows'[x] \in Seq(RowsOf(x))
  BY <1>1, <1>2 DEF TypeInv
<1>4. DOMAIN legacy' = Groups /\ \A g \in Groups : legacy'[g] \in Seq(RowsOf(g))
  <2>1. legacy' = legacy \/ legacy' = [legacy EXCEPT ![o] = <<>>]
    BY DEF DeleteChatSpace
  <2> QED
    BY <1>1, <2>1 DEF TypeInv
<1>5. DOMAIN daily' = Users /\ \A u \in Users : daily'[u] \in Seq(RowsOf(u))
  <2>1. daily' = daily \/ daily' = [daily EXCEPT ![o] = <<>>]
    BY DEF DeleteChatSpace
  <2> QED
    BY <1>1, <2>1 DEF TypeInv
<1>6. DOMAIN said' = Owners
  BY DEF DeleteChatSpace, TypeInv
<1> QED
  BY <1>2, <1>3, <1>4, <1>5, <1>6 DEF TypeInv

LEMMA CrashType ==
  ASSUME TypeInv, Crash
  PROVE  TypeInv' /\ \A j \in Jobs : jobs'[j].pc \notin {"insert", "append"}
<1>1. UNCHANGED <<rows, legacy, daily, now, started, said>>
  BY DEF Crash, store
<1>2. jobs' = [j \in Jobs |-> IF jobs[j].pc \in {"insert", "append"} THEN [jobs[j] EXCEPT !.pc = "done"] ELSE jobs[j]]
  BY DEF Crash
<1>3. ASSUME NEW j \in Jobs
      PROVE  (jobs'[j] = Idle \/ jobs'[j] \in Recording) /\ jobs'[j].pc \notin {"insert", "append"}
  <2>1. CASE jobs[j].pc \in {"insert", "append"}
    <3>1. jobs[j] \in Recording /\ jobs'[j] = [jobs[j] EXCEPT !.pc = "done"]
      BY <1>2, <2>1, AtWork
    <3>2. jobs'[j] = [pc |-> "done", owner |-> jobs[j].owner, m |-> jobs[j].m]
      BY <3>1 DEF Recording
    <3> QED
      BY <3>1, <3>2 DEF Recording
  <2>2. CASE jobs[j].pc \notin {"insert", "append"}
    BY <1>2, <2>2 DEF TypeInv
  <2> QED
    BY <2>1, <2>2
<1>4. DOMAIN jobs' = Jobs
  BY <1>2
<1> QED
  BY <1>1, <1>3, <1>4 DEF TypeInv

\* Every step keeps the types.
LEMMA StepType == TypeInv /\ [Next]_vars => TypeInv'
<1> SUFFICES ASSUME TypeInv, [Next]_vars PROVE TypeInv'
  OBVIOUS
<1>1. CASE \E e \in Messages : Collect(e) \/ RecordCommand(e)
  BY <1>1, RecordBegins, BeginType
<1>2. CASE \E r \in Replies : RecordReply(r)
  BY <1>2, RecordBegins, BeginType
<1>3. CASE \E j \in Jobs : Insert(j) \/ AppendDaily(j) \/ AppendFails(j)
  BY <1>3, InsertType, AppendType, FailType
<1>4. CASE \E o \in Wipeable : DeleteChatSpace(o)
  BY <1>4, DeleteType, ChatHistoryAssumption
<1>5. CASE Crash
  BY <1>5, CrashType
<1>6. CASE Tick
  BY <1>6 DEF Tick, store, history, TypeInv
<1>7. CASE UNCHANGED vars
  BY <1>7 DEF vars, store, history, TypeInv
<1> QED
  BY <1>1, <1>2, <1>3, <1>4, <1>5, <1>6, <1>7 DEF Next

-----------------------------------------------------------------------------
(* What was said by an owner and the table it is read from.                  *)

\* Nothing is visible but what was said, and of all that was said there is
\* something alike.
Held(o, S, table) ==
  /\ \A i \in DOMAIN table : Seen(o, table[i]) => Heard(table[i]) \in S
  /\ \A s \in S : \E i \in DOMAIN table : Seen(o, table[i]) /\ Alike(Heard(table[i]), s)

TableInv == \A o \in Owners : Unique(rows[o]) /\ Held(o, said[o], Opened(o))

\* What INSERT OR IGNORE drops is alike to something that the table holds.
LEMMA HeldInserted ==
  ASSUME NEW o \in Owners, NEW table \in Seq(RowsOf(o)), NEW m \in RowsOf(o), NEW S, Held(o, S, table)
  PROVE  Held(o, IF Seen(o, m) THEN S \cup {Heard(m)} ELSE S, Inserted(table, m))
<1> DEFINE R == IF Seen(o, m) THEN S \cup {Heard(m)} ELSE S
<1>0. \A i \in DOMAIN table : table[i] \in RowsOf(o)
  BY TableRows
<1>1. CASE m.key \in Keys(table)
  <2>1. Inserted(table, m) = table
    BY <1>1 DEF Inserted
  <2>2. PICK i \in DOMAIN table : table[i].key = m.key
    BY <1>1 DEF Keys
  <2>3. table[i].kind = m.kind /\ Alike(Heard(table[i]), Heard(m))
    BY <1>0, <2>2, SameKeyAlike
  <2>4. Seen(o, table[i]) <=> Seen(o, m)
    BY <2>3 DEF Seen, Shown, Alike, Heard
  <2>5. \A x \in DOMAIN table : Seen(o, table[x]) => Heard(table[x]) \in R
    BY DEF Held
  <2>6. \A s \in R : \E x \in DOMAIN table : Seen(o, table[x]) /\ Alike(Heard(table[x]), s)
    BY <2>3, <2>4 DEF Held
  <2> QED
    BY <2>1, <2>5, <2>6 DEF Held
<1>2. CASE m.key \notin Keys(table)
  <2> DEFINE t == Append(table, m)
             k == Len(table)
  <2>1. Inserted(table, m) = t
    BY <1>2 DEF Inserted
  <2>2. /\ k \in Nat /\ DOMAIN table = 1 .. k /\ DOMAIN t = 1 .. k + 1
        /\ \A i \in 1 .. k : t[i] = table[i]
        /\ t[k + 1] = m
    BY LenProperties, AppendProperties
  <2> HIDE DEF t, k
  <2>3. k + 1 \in 1 .. k + 1 /\ (\A i \in 1 .. k : i \in 1 .. k + 1) /\ \A i \in 1 .. k + 1 : i \in 1 .. k \/ i = k + 1
    BY <2>2
  <2>4. ASSUME NEW i \in 1 .. k + 1, Seen(o, t[i]) PROVE Heard(t[i]) \in R
    <3>1. CASE i = k + 1
      BY <2>2, <2>4, <3>1
    <3>2. CASE i \in 1 .. k
      <4>1. t[i] = table[i] /\ Seen(o, table[i]) /\ i \in DOMAIN table
        BY <2>2, <2>4, <3>2
      <4>2. Heard(table[i]) \in S
        BY <4>1 DEF Held
      <4> QED
        BY <4>1, <4>2
    <3> QED
      BY <2>3, <3>1, <3>2
  <2>5. ASSUME NEW s \in R PROVE \E i \in 1 .. k + 1 : Seen(o, t[i]) /\ Alike(Heard(t[i]), s)
    <3>1. CASE s \in S
      <4>1. PICK i \in DOMAIN table : Seen(o, table[i]) /\ Alike(Heard(table[i]), s)
        BY <3>1 DEF Held
      <4> QED
        BY <2>2, <2>3, <4>1
    <3>2. CASE s \notin S
      <4>1. Seen(o, m) /\ s = Heard(m)
        BY <2>5, <3>2
      <4>2. Alike(Heard(m), s)
        BY <4>1 DEF Alike
      <4> QED
        BY <2>2, <2>3, <4>1, <4>2
    <3> QED
      BY <3>1, <3>2
  <2> HIDE DEF R
  <2> QED
    BY <2>1, <2>2, <2>4, <2>5 DEF Held, R
<1> QED
  BY <1>1, <1>2

\* The old table is copied whole, nothing of it twice.
LEMMA InitTable == Init => TableInv
<1> SUFFICES ASSUME Init, NEW o \in Owners PROVE Unique(rows[o]) /\ Held(o, said[o], Opened(o))
  BY DEF TableInv
<1>0. TypeInv /\ rows[o] = <<>>
  BY InitType DEF Init
<1>1. Keys(<<>>) = {} /\ ToSet(<<>>) = {} /\ Unique(<<>>)
  BY DEF Keys, ToSet, Unique
<1>2. CASE o \notin Groups
  <2>1. Opened(o) = <<>> /\ said[o] = {}
    BY <1>0, <1>2 DEF Opened, Init
  <2> QED
    BY <1>0, <1>1, <2>1 DEF Held
<1>3. CASE o \in Groups
  <2> DEFINE old == Legacy[o]
             t == Opened(o)
  <2>1. legacy[o] = old /\ said[o] = {Heard(m) : m \in ToSet(old)}
    BY <1>3 DEF Init
  <2>2. Grown(t, rows[o], legacy[o], Len(legacy[o]), RowsOf(o))
    BY <1>0, <1>3, OpenedIs
  <2>3. old \in Seq(RowsOf(o)) /\ \A m \in ToSet(old) : Shown(m)
    BY <1>3, LegacyRows
  <2>4. DOMAIN old = 1 .. Len(old)
    BY <2>3, LenProperties
  <2> HIDE DEF t
  <2>5. /\ t \in Seq(RowsOf(o))
        /\ Keys(t) = {old[x].key : x \in 1 .. Len(old)}
        /\ ToSet(t) \subseteq ToSet(old)
    BY <1>0, <1>1, <2>1, <2>2 DEF Grown
  <2>6. ASSUME NEW i \in DOMAIN t PROVE Seen(o, t[i]) /\ Heard(t[i]) \in said[o]
    <3>1. t[i] \in ToSet(old)
      BY <2>5 DEF ToSet
    <3> QED
      BY <2>1, <2>3, <3>1 DEF Seen
  <2>7. ASSUME NEW s \in said[o] PROVE \E i \in DOMAIN t : Seen(o, t[i]) /\ Alike(Heard(t[i]), s)
    <3>1. PICK m \in ToSet(old) : s = Heard(m)
      BY <2>1
    <3>2. PICK x \in 1 .. Len(old) : m = old[x]
      BY <2>4, <3>1 DEF ToSet
    <3>3. PICK i \in DOMAIN t : t[i].key = m.key
      BY <2>5, <3>2 DEF Keys
    <3>4. t[i] \in ToSet(old)
      BY <2>5 DEF ToSet
    <3>5. t[i] = m
      BY <1>3, <3>1, <3>3, <3>4, OldIs
    <3>6. Alike(Heard(t[i]), s)
      BY <3>1, <3>5 DEF Alike
    <3> QED
      BY <2>6, <3>6
  <2>8. Held(o, said[o], t)
    BY <2>6, <2>7 DEF Held
  <2> QED
    BY <1>0, <1>1, <2>8 DEF t
<1> QED
  BY <1>2, <1>3

\* An owner whose tables stay.
LEMMA SameTable ==
  ASSUME TableInv, NEW o \in Owners, rows'[o] = rows[o], o \in Groups => legacy'[o] = legacy[o], said'[o] = said[o]
  PROVE  Unique(rows'[o]) /\ Held(o, said'[o], Opened(o)')
<1>1. Unique(rows[o]) /\ Held(o, said[o], Opened(o))
  BY DEF TableInv
<1>2. Opened(o)' = Opened(o)
  BY DEF Opened
<1> QED
  BY <1>1, <1>2

LEMMA InsertTable ==
  ASSUME TypeInv, TableInv, NEW j \in Jobs, Insert(j)
  PROVE  TableInv'
<1> DEFINE o == jobs[j].owner
           m == jobs[j].m
<1>1. o \in Owners /\ m \in RowsOf(o)
  BY AtWork DEF Insert
<1>2. /\ rows' = [rows EXCEPT ![o] = Inserted(Opened(o), m)] /\ legacy' = legacy
      /\ said' = IF Seen(o, m) THEN [said EXCEPT ![o] = @ \cup {Heard(m)}] ELSE said
      /\ DOMAIN rows = Owners /\ DOMAIN said = Owners
  BY DEF Insert, TypeInv, Seen
<1> HIDE DEF o, m
<1> SUFFICES ASSUME NEW x \in Owners PROVE Unique(rows'[x]) /\ Held(x, said'[x], Opened(x)')
  BY DEF TableInv
<1>3. CASE x # o
  <2>1. rows'[x] = rows[x] /\ legacy' = legacy /\ said'[x] = said[x]
    BY <1>2, <1>3
  <2> QED
    BY <2>1, SameTable
<1>4. CASE x = o
  <2> DEFINE t == Opened(o)
             u == Inserted(t, m)
             R == IF Seen(o, m) THEN said[o] \cup {Heard(m)} ELSE said[o]
  <2>1. /\ t \in Seq(RowsOf(o)) /\ rows[o] \in Seq(RowsOf(o))
        /\ o \in Groups => Grown(t, rows[o], legacy[o], Len(legacy[o]), RowsOf(o))
    BY <1>1, OpenedIs DEF TypeInv
  <2>2. Unique(rows[o]) /\ Held(o, said[o], t)
    BY <1>1 DEF TableInv
  <2>3. rows'[o] = u
    BY <1>1, <1>2
  <2>4. o \notin Groups => t = rows[o]
    BY DEF Opened
  <2> HIDE DEF t
  <2>5. Unique(t)
    BY <2>1, <2>2, <2>4 DEF Grown
  <2>6. u \in Seq(RowsOf(o)) /\ Unique(u) /\ Keys(u) = Keys(t) \cup {m.key}
    BY <1>1, <2>1, <2>5, InsertedIs
  <2>7. Held(o, R, u)
    BY <1>1, <2>1, <2>2, HeldInserted
  <2>8. said'[o] = R
    BY <1>1, <1>2
  <2> HIDE DEF u, R
  <2>9. Opened(x)' = IF x \in Groups THEN Migrated(rows'[x], legacy'[x]) ELSE rows'[x]
    BY DEF Opened
  <2>10. Opened(x)' = u
    <3>1. CASE x \in Groups
      <4>1. legacy[x] \in Seq(RowsOf(x)) /\ DOMAIN legacy[x] = 1 .. Len(legacy[x])
        BY <3>1, LenProperties DEF TypeInv
      <4>2. Keys(legacy[x]) \subseteq Keys(t)
        BY <1>4, <2>1, <3>1, <4>1 DEF Grown, Keys
      <4>3. Grown(Migrated(u, legacy[x]), u, legacy[x], Len(legacy[x]), RowsOf(x))
        BY <1>4, <2>6, <4>1, MigratedGrown
      <4>4. Migrated(u, legacy[x]) = u
        BY <2>6, <4>2, <4>3 DEF Grown
      <4>5. rows'[x] = u /\ legacy'[x] = legacy[x]
        BY <1>2, <1>4, <2>3
      <4> QED
        BY <2>9, <3>1, <4>4, <4>5
    <3>2. CASE x \notin Groups
      BY <1>4, <2>3, <2>9, <3>2
    <3> QED
      BY <3>1, <3>2
  <2> QED
    BY <1>4, <2>3, <2>6, <2>7, <2>8, <2>10
<1> QED
  BY <1>3, <1>4

LEMMA DeleteTable ==
  ASSUME TypeInv, TableInv, NEW o \in Owners, DeleteChatSpace(o)
  PROVE  TableInv'
<1>1. /\ rows' = [rows EXCEPT ![o] = <<>>] /\ said' = [said EXCEPT ![o] = {}]
      /\ legacy' = IF o \in Groups THEN [legacy EXCEPT ![o] = <<>>] ELSE legacy
      /\ DOMAIN rows = Owners /\ DOMAIN said = Owners /\ DOMAIN legacy = Groups
  BY DEF DeleteChatSpace, TypeInv
<1> SUFFICES ASSUME NEW x \in Owners PROVE Unique(rows'[x]) /\ Held(x, said'[x], Opened(x)')
  BY DEF TableInv
<1>2. CASE x # o
  <2>1. rows'[x] = rows[x] /\ said'[x] = said[x] /\ (x \in Groups => legacy'[x] = legacy[x])
    BY <1>1, <1>2
  <2> QED
    BY <2>1, SameTable
<1>3. CASE x = o
  <2>1. rows'[x] = <<>> /\ said'[x] = {} /\ (x \in Groups => legacy'[x] = <<>>)
    BY <1>1, <1>3
  <2>2. Keys(<<>>) = {} /\ Unique(<<>>) /\ Held(x, {}, <<>>) /\ <<>> \in Seq(RowsOf(x))
    BY DEF Keys, Unique, Held
  <2>3. Grown(Migrated(<<>>, <<>>), <<>>, <<>>, Len(<<>>), RowsOf(x))
    BY <2>2, MigratedGrown
  <2>4. Migrated(<<>>, <<>>) = <<>>
    BY <2>2, <2>3 DEF Grown
  <2>5. Opened(x)' = <<>>
    <3>1. Opened(x)' = IF x \in Groups THEN Migrated(rows'[x], legacy'[x]) ELSE rows'[x]
      BY DEF Opened
    <3> QED
      BY <2>1, <2>4, <3>1
  <2> QED
    BY <2>1, <2>2, <2>5
<1> QED
  BY <1>2, <1>3

LEMMA StepTable == TypeInv /\ TableInv /\ [Next]_vars => TableInv'
<1> SUFFICES ASSUME TypeInv, TableInv, [Next]_vars PROVE TableInv'
  OBVIOUS
<1>1. CASE UNCHANGED <<rows, legacy, said>>
  <2> SUFFICES ASSUME NEW o \in Owners PROVE Unique(rows'[o]) /\ Held(o, said'[o], Opened(o)')
    BY DEF TableInv
  <2> QED
    BY <1>1, SameTable
<1>2. CASE \E e \in Messages : Collect(e) \/ RecordCommand(e)
  <2>1. UNCHANGED <<rows, legacy, said>>
    BY <1>2, RecordBegins DEF Begin, store
  <2> QED
    BY <1>1, <2>1
<1>3. CASE \E r \in Replies : RecordReply(r)
  <2>1. UNCHANGED <<rows, legacy, said>>
    BY <1>3, RecordBegins DEF Begin, store
  <2> QED
    BY <1>1, <2>1
<1>4. CASE \E j \in Jobs : Insert(j)
  BY <1>4, InsertTable
<1>5. CASE \E j \in Jobs : AppendDaily(j) \/ AppendFails(j)
  <2>1. UNCHANGED <<rows, legacy, said>>
    BY <1>5 DEF AppendDaily, AppendFails, history, store
  <2> QED
    BY <1>1, <2>1
<1>6. CASE \E o \in Wipeable : DeleteChatSpace(o)
  BY <1>6, DeleteTable, ChatHistoryAssumption
<1>7. CASE Crash
  BY <1>1, <1>7 DEF Crash, store
<1>8. CASE Tick
  BY <1>1, <1>8 DEF Tick, store, history
<1>9. CASE UNCHANGED vars
  BY <1>1, <1>9 DEF vars, store, history
<1> QED
  BY <1>2, <1>3, <1>4, <1>5, <1>6, <1>7, <1>8, <1>9 DEF Next

-----------------------------------------------------------------------------
(* What is read of a group.                                                  *)

\* The rows I of a table in order of time: each of them once.
InOrder(S, table, I, f) ==
  /\ S \in Seq(Rows) /\ Len(S) \in Nat
  /\ f \in [1 .. Len(S) -> I]
  /\ \A k \in 1 .. Len(S) : S[k] = table[f[k]]
  /\ \A i \in I : \E k \in 1 .. Len(S) : f[k] = i
  /\ \A j, k \in 1 .. Len(S) : f[j] = f[k] => j = k
  /\ \A j, k \in 1 .. Len(S) : j < k => S[j].at <= S[k].at
  /\ Len(S) <= Len(table)

LEMMA SortedIs ==
  ASSUME NEW table \in Seq(Rows), NEW I, I \subseteq DOMAIN table
  PROVE  \E f : InOrder(InTime(table, I), table, I, f)
<1> DEFINE N == Cardinality(I)
           S == InTime(table, I)
<1>1. I \subseteq Nat /\ IsFiniteSet(I) /\ \A i \in I : i \in 1 .. Len(table) /\ table[i] \in Rows
  BY IndexSet
<1>2. \A i \in I : table[i].at \in Nat
  BY <1>1, RowsAre
<1>3. N \in Nat /\ \E f : Lists(f, I, Earlier(table, I)) /\ S = Read(table, f, N)
  BY <1>1, <1>2, InTimeLists
<1>4. PICK f : Lists(f, I, Earlier(table, I)) /\ S = Read(table, f, N)
  BY <1>3
<1>5. /\ f \in [1 .. N -> I]
      /\ \A i \in I : \E k \in 1 .. N : f[k] = i
      /\ \A j, k \in 1 .. N : j < k => f[j] \in Earlier(table, I)[f[k]]
      /\ \A j, k \in 1 .. N : f[j] = f[k] => j = k
  BY <1>4 DEF Lists
<1>6. S \in Seq(Rows) /\ Len(S) = N /\ \A k \in 1 .. N : S[k] = table[f[k]]
  BY <1>1, <1>3, <1>4, <1>5, ReadSeq
<1>7. N <= Len(table)
  <2> DEFINE l == Len(table)
  <2>0. l \in Nat
    BY LenProperties
  <2> HIDE DEF l
  <2>1. l \in Nat /\ IsFiniteSet(1 .. l) /\ Cardinality(1 .. l) = l
    BY <2>0, FS_Interval
  <2>2. I \in SUBSET (1 .. l)
    BY <1>1 DEF l
  <2>3. N <= l
    BY <2>1, <2>2, FS_Subset
  <2> QED
    BY <2>3 DEF l
<1> HIDE DEF S, N
<1>8. \A j, k \in 1 .. N : j < k => S[j].at <= S[k].at
  <2> SUFFICES ASSUME NEW j \in 1 .. N, NEW k \in 1 .. N, j < k PROVE S[j].at <= S[k].at
    OBVIOUS
  <2>1. f[j] \in I /\ f[k] \in I /\ f[j] \in Earlier(table, I)[f[k]]
    BY <1>5
  <2>2. table[f[j]].at < table[f[k]].at \/ table[f[j]].at = table[f[k]].at
    BY <2>1 DEF Earlier
  <2>3. table[f[j]].at \in Nat /\ table[f[k]].at \in Nat
    BY <1>2, <2>1
  <2>4. S[j] = table[f[j]] /\ S[k] = table[f[k]]
    BY <1>6
  <2>5. table[f[j]].at <= table[f[k]].at
    BY <2>2, <2>3
  <2> QED
    BY <2>4, <2>5
<1>9. InOrder(S, table, I, f)
  BY <1>3, <1>5, <1>6, <1>7, <1>8 DEF InOrder
<1> QED
  BY <1>9 DEF S

GroupKinds == {"collect", "chat"}

\* The whole view of a table: what is shown of it, each row once, in order of time.
LEMMA WholeView ==
  ASSUME NEW table \in Seq(Rows), Unique(table),
         NEW S, S = InTime(table, {i \in DOMAIN table : table[i].kind \in GroupKinds})
  PROVE  /\ S \in Seq(Rows) /\ Len(S) <= Len(table)
         /\ \A k \in DOMAIN View(S) : \E i \in DOMAIN table : View(S)[k] = table[i] /\ Shown(table[i])
         /\ \A i \in DOMAIN table : Shown(table[i]) => \E k \in DOMAIN View(S) : View(S)[k] = table[i]
         /\ \A j, k \in DOMAIN View(S) : View(S)[j].key = View(S)[k].key => j = k
         /\ \A i, j \in DOMAIN View(S) : i < j => View(S)[i].at <= View(S)[j].at
<1> DEFINE I == {i \in DOMAIN table : table[i].kind \in GroupKinds}
           J == {k \in DOMAIN S : Shown(S[k])}
           all == Keeping(S, J)
           n == Len(all)
<1>1. I = DOMAIN table /\ \A i \in I : table[i] \in Rows
  <2>1. \A i \in DOMAIN table : table[i] \in Rows
    BY LenProperties
  <2> QED
    BY <2>1, RowsAre DEF GroupKinds
<1>2. PICK f : InOrder(S, table, I, f)
  <2>1. I \subseteq DOMAIN table
    OBVIOUS
  <2> QED
    BY <2>1, SortedIs
<1> HIDE DEF I
<1>3. /\ S \in Seq(Rows) /\ Len(S) <= Len(table) /\ DOMAIN S = 1 .. Len(S)
      /\ \A k \in 1 .. Len(S) : S[k] = table[f[k]] /\ f[k] \in I
      /\ \A i \in I : \E k \in 1 .. Len(S) : f[k] = i
      /\ \A j, k \in 1 .. Len(S) : f[j] = f[k] => j = k
      /\ \A j, k \in 1 .. Len(S) : j < k => S[j].at <= S[k].at
  BY <1>2, LenProperties DEF InOrder
<1>4. View(S) = all
  BY DEF View
<1>5. J \subseteq DOMAIN S /\ \A k \in J : k \in 1 .. Len(S) /\ Shown(S[k])
  BY <1>3
<1>6. \A k \in 1 .. Len(S) : Shown(S[k]) => k \in J
  BY <1>3
<1> HIDE DEF J
<1>7. all \in Seq(Rows) /\ \E h : Follows(all, S, J, h)
  BY <1>3, <1>5, KeepingFollows
<1>8. PICK h : Follows(all, S, J, h)
  BY <1>7
<1> HIDE DEF all
<1>9. /\ n \in Nat /\ DOMAIN all = 1 .. n
      /\ \A k \in 1 .. n : all[k] = S[h[k]] /\ h[k] \in J
      /\ \A i \in J : \E k \in 1 .. n : h[k] = i
      /\ \A j, k \in 1 .. n : j < k => h[j] < h[k]
      /\ \A j, k \in 1 .. n : h[j] = h[k] => j = k
  BY <1>7, <1>8, LenProperties DEF Follows
<1> HIDE DEF n
<1>10. \A k \in 1 .. n : h[k] \in 1 .. Len(S) /\ f[h[k]] \in I /\ all[k] = table[f[h[k]]] /\ Shown(all[k]) /\ all[k] \in Rows
  <2> TAKE k \in 1 .. n
  <2>1. h[k] \in 1 .. Len(S) /\ Shown(S[h[k]]) /\ all[k] = S[h[k]]
    BY <1>5, <1>9
  <2>2. S[h[k]] = table[f[h[k]]] /\ f[h[k]] \in I
    BY <1>3, <2>1
  <2> QED
    BY <1>1, <2>1, <2>2
<1>11. ASSUME NEW i \in DOMAIN table, Shown(table[i]) PROVE \E k \in 1 .. n : all[k] = table[i]
  <2>1. PICK l \in 1 .. Len(S) : f[l] = i
    BY <1>1, <1>3
  <2>2. S[l] = table[i] /\ l \in J
    BY <1>3, <1>6, <1>11, <2>1
  <2>3. PICK k \in 1 .. n : h[k] = l
    BY <1>9, <2>2
  <2> QED
    BY <1>9, <2>2, <2>3
<1>12. \A k \in 1 .. n : \E i \in DOMAIN table : all[k] = table[i] /\ Shown(table[i])
  BY <1>1, <1>10
<1>13. ASSUME NEW j \in 1 .. n, NEW k \in 1 .. n, all[j].key = all[k].key PROVE j = k
  <2>0. /\ f[h[j]] \in DOMAIN table /\ all[j] = table[f[h[j]]]
        /\ f[h[k]] \in DOMAIN table /\ all[k] = table[f[h[k]]]
    BY <1>1, <1>10
  <2>1. f[h[j]] = f[h[k]]
    BY <1>13, <2>0 DEF Unique
  <2>2. h[j] = h[k]
    BY <1>3, <1>10, <2>1
  <2> QED
    BY <1>9, <2>2
<1>15. \A i, j \in 1 .. n : i < j => all[i].at <= all[j].at
  <2> SUFFICES ASSUME NEW i \in 1 .. n, NEW j \in 1 .. n, i < j PROVE all[i].at <= all[j].at
    OBVIOUS
  <2>1. h[i] < h[j] /\ h[i] \in 1 .. Len(S) /\ h[j] \in 1 .. Len(S) /\ all[i] = S[h[i]] /\ all[j] = S[h[j]]
    BY <1>9, <1>10
  <2>2. \A k, l \in 1 .. Len(S) : k < l => S[k].at <= S[l].at
    BY <1>3
  <2>3. S[h[i]].at <= S[h[j]].at
    BY <2>1, <2>2
  <2> QED
    BY <2>1, <2>3
<1>16. View(S) = all /\ DOMAIN View(S) = 1 .. n /\ Len(View(S)) = n
  BY <1>4, <1>9 DEF n
<1>17. \A k \in DOMAIN View(S) : \E i \in DOMAIN table : View(S)[k] = table[i] /\ Shown(table[i])
  BY <1>12, <1>16
<1>18. \A i \in DOMAIN table : Shown(table[i]) => \E k \in DOMAIN View(S) : View(S)[k] = table[i]
  BY <1>11, <1>16
<1>19. \A j, k \in DOMAIN View(S) : View(S)[j].key = View(S)[k].key => j = k
  BY <1>13, <1>16
<1>20. \A i, j \in DOMAIN View(S) : i < j => View(S)[i].at <= View(S)[j].at
  BY <1>15, <1>16
<1> QED
  BY <1>3, <1>17, <1>18, <1>19, <1>20

\* A search without terms finds everything.
LEMMA FoundAll ==
  ASSUME NEW r \in Seq(Rows)
  PROVE  Found(r, {}, None) = r
<1>1. {i \in DOMAIN r : (None = None \/ r[i].of.id # None) /\ {} \subseteq r[i].of.words} = DOMAIN r
  OBVIOUS
<1>2. Keeping(r, DOMAIN r) = r
  BY KeepingWhole
<1> QED
  BY <1>1, <1>2 DEF Found

\* A limit cuts off the beginning of the view.
LEMMA LatestViews ==
  ASSUME NEW s \in Seq(Rows), NEW a \in Nat, NEW b \in Nat, NEW limit \in Nat
  PROVE  /\ IsSuffix(View(Latest(s, a)), View(s))
         /\ IsSuffix(Latest(View(Latest(Found(Latest(s, a), {}, None), b)), limit), View(s))
<1> DEFINE r == Latest(s, a)
           p == Latest(r, b)
<1>1. r \in Seq(Rows) /\ Ending(r, s)
  BY LatestEnding
<1>2. View(r) \in Seq(Rows) /\ View(s) \in Seq(Rows) /\ Ending(View(r), View(s))
  <2> HIDE DEF r
  <2> QED
    BY <1>1, ViewEnding
<1>3. IsSuffix(View(r), View(s))
  <2> HIDE DEF r
  <2> QED
    BY <1>2, EndingSuffix
<1>4. Found(r, {}, None) = r
  <2> HIDE DEF r
  <2> QED
    BY <1>1, FoundAll
<1>5. p \in Seq(Rows) /\ Ending(p, r)
  <2> HIDE DEF r
  <2> QED
    BY <1>1, LatestEnding
<1> HIDE DEF r, p
<1>6. Ending(p, s)
  BY <1>1, <1>5, EndingTrans
<1>7. View(p) \in Seq(Rows) /\ Ending(View(p), View(s))
  BY <1>5, <1>6, ViewEnding
<1>8. Latest(View(p), limit) \in Seq(Rows) /\ Ending(Latest(View(p), limit), View(p))
  BY <1>7, LatestEnding
<1>9. Ending(Latest(View(p), limit), View(s))
  BY <1>2, <1>7, <1>8, EndingTrans
<1>10. IsSuffix(Latest(View(p), limit), View(s))
  BY <1>2, <1>8, <1>9, EndingSuffix
<1> QED
  BY <1>3, <1>4, <1>10 DEF r, p

LEMMA GroupView == TypeInv /\ TableInv => GroupViewIsConversation
<1> SUFFICES ASSUME TypeInv, TableInv, NEW g \in Groups
    PROVE  LET all == LoadGroupHistory(g, Len(Opened(g)))
           IN  /\ \A i \in DOMAIN all : Heard(all[i]) \in said[g]
               /\ \A s \in said[g] : Distinct(s, g) => \E i \in DOMAIN all : Same(Heard(all[i]), s)
               /\ \A i, j \in DOMAIN all :
                    Stable(Heard(all[i])) /\ Same(Heard(all[i]), Heard(all[j])) => i = j
               /\ \A i, j \in DOMAIN all : i < j => all[i].at <= all[j].at
               /\ \A limit \in 1 .. 2 :
                    /\ IsSuffix(LoadGroupHistory(g, limit), all)
                    /\ \A window \in limit .. 2 : IsSuffix(SearchGroup(g, {}, limit, window, None), all)
  BY DEF GroupViewIsConversation
<1> DEFINE t == Opened(g)
           S == InTime(t, {i \in DOMAIN t : t[i].kind \in GroupKinds})
           all == LoadGroupHistory(g, Len(Opened(g)))
<1>0. g \in Owners
  BY DEF Owners
<1>1. t \in Seq(RowsOf(g)) /\ t \in Seq(Rows) /\ Unique(t) /\ Held(g, said[g], t)
  <2>1. Grown(t, rows[g], legacy[g], Len(legacy[g]), RowsOf(g)) /\ t \in Seq(RowsOf(g))
    BY <1>0, OpenedIs
  <2>2. Unique(rows[g]) /\ Held(g, said[g], t)
    BY <1>0 DEF TableInv
  <2> HIDE DEF t
  <2>3. t \in Seq(Rows)
    BY <1>0, <2>1, TableRows
  <2> QED
    BY <2>1, <2>2, <2>3 DEF Grown
<1>2. \A limit : RecentRows(g, limit, GroupKinds) = Latest(S, limit)
  BY DEF RecentRows
<1>3. \A limit : LoadGroupHistory(g, limit) = View(Latest(S, limit))
  BY <1>2 DEF LoadGroupHistory, GroupKinds
<1>4. \A limit, window : SearchGroup(g, {}, limit, window, None)
        = Latest(View(Latest(Found(Latest(S, MaxOf(MaxOf(limit, window), window)), {}, None), MaxOf(limit, window))), limit)
  BY <1>2 DEF SearchGroup, SearchMessages, GroupKinds
<1>5. all = View(Latest(S, Len(t)))
  BY <1>3
<1> HIDE DEF t
<1>6. /\ S \in Seq(Rows) /\ Len(S) <= Len(t)
      /\ \A k \in DOMAIN View(S) : \E i \in DOMAIN t : View(S)[k] = t[i] /\ Shown(t[i])
      /\ \A i \in DOMAIN t : Shown(t[i]) => \E k \in DOMAIN View(S) : View(S)[k] = t[i]
      /\ \A j, k \in DOMAIN View(S) : View(S)[j].key = View(S)[k].key => j = k
      /\ \A i, j \in DOMAIN View(S) : i < j => View(S)[i].at <= View(S)[j].at
  BY <1>1, WholeView
<1> HIDE DEF S
<1>7. Latest(S, Len(t)) = S
  <2>1. Len(t) \in Nat /\ Len(S) \in Nat
    BY <1>1, <1>6, LenProperties
  <2> DEFINE l == Len(t)
  <2> HIDE DEF l
  <2>2. l \in Nat /\ Len(S) <= l
    BY <1>6, <2>1 DEF l
  <2>3. Latest(S, l) \in Seq(Rows) /\ Ending(Latest(S, l), S) /\ Len(Latest(S, l)) = IF Len(S) > l THEN l ELSE Len(S)
    BY <1>6, <2>2, LatestEnding
  <2>4. Len(Latest(S, l)) = Len(S)
    BY <2>1, <2>2, <2>3
  <2>5. Latest(S, l) = S
    BY <1>6, <2>3, <2>4, EndingWhole
  <2> QED
    BY <2>5 DEF l
<1>8. all = View(S)
  BY <1>5, <1>7
<1>9. ASSUME NEW limit \in 1 .. 2, NEW window \in 1 .. 2
      PROVE  IsSuffix(LoadGroupHistory(g, limit), View(S)) /\ IsSuffix(SearchGroup(g, {}, limit, window, None), View(S))
  <2> DEFINE a == MaxOf(MaxOf(limit, window), window)
             b == MaxOf(limit, window)
  <2>1. limit \in Nat /\ a \in Nat /\ b \in Nat
    BY DEF MaxOf
  <2>2. LoadGroupHistory(g, limit) = View(Latest(S, limit)) /\ SearchGroup(g, {}, limit, window, None) = Latest(View(Latest(Found(Latest(S, a), {}, None), b)), limit)
    BY <1>3, <1>4
  <2> HIDE DEF a, b
  <2>3. IsSuffix(View(Latest(S, limit)), View(S))
    BY <1>6, <2>1, LatestViews
  <2>4. IsSuffix(Latest(View(Latest(Found(Latest(S, a), {}, None), b)), limit), View(S))
    BY <1>6, <2>1, LatestViews
  <2> QED
    BY <2>2, <2>3, <2>4
<1> HIDE DEF all
<1>10. ASSUME NEW k \in DOMAIN all
       PROVE  all[k] \in RowsOf(g) /\ Seen(g, all[k]) /\ Heard(all[k]) \in said[g]
  <2>1. PICK i \in DOMAIN t : all[k] = t[i] /\ Shown(t[i])
    BY <1>6, <1>8
  <2>2. t[i] \in RowsOf(g)
    BY <1>0, <1>1, TableRows
  <2>3. Seen(g, t[i])
    BY <2>1 DEF Seen
  <2>4. Heard(t[i]) \in said[g]
    BY <1>1, <2>3 DEF Held
  <2> QED
    BY <2>1, <2>2, <2>3, <2>4
<1>11. ASSUME NEW s \in said[g], Distinct(s, g) PROVE \E k \in DOMAIN all : Same(Heard(all[k]), s)
  <2>1. PICK i \in DOMAIN t : Seen(g, t[i]) /\ Alike(Heard(t[i]), s)
    BY <1>1 DEF Held
  <2>2. PICK k \in DOMAIN all : all[k] = t[i]
    BY <1>6, <1>8, <2>1 DEF Seen
  <2>3. Same(Heard(all[k]), s)
    BY <1>10, <1>11, <2>1, <2>2, DistinctSame
  <2> QED
    BY <2>3
<1>12. ASSUME NEW i \in DOMAIN all, NEW j \in DOMAIN all, Stable(Heard(all[i])), Same(Heard(all[i]), Heard(all[j]))
       PROVE  i = j
  <2>1. all[i].key = all[j].key
    BY <1>0, <1>10, <1>12, StableKey
  <2> QED
    BY <1>6, <1>8, <2>1
<1>13. /\ \A i, j \in DOMAIN all : i < j => all[i].at <= all[j].at
       /\ \A limit, window \in 1 .. 2 : IsSuffix(LoadGroupHistory(g, limit), all) /\ IsSuffix(SearchGroup(g, {}, limit, window, None), all)
  BY <1>6, <1>8, <1>9
<1> QED
  BY <1>10, <1>11, <1>12, <1>13 DEF all

-----------------------------------------------------------------------------
(* What a search answers.                                                    *)

\* What is kept of w is in the newest `limit` of it or has `limit` later ones.
LEMMA KeptOrLater ==
  ASSUME NEW w \in Seq(Rows), NEW I, I \subseteq DOMAIN w, NEW limit \in Nat,
         NEW found, found = Latest(Keeping(w, I), limit)
  PROVE  /\ \A i \in DOMAIN found : \E x \in I : found[i] = w[x]
         /\ \A x \in I : w[x] \in ToSet(found) \/ Cardinality({y \in I : y > x}) >= limit
<1> DEFINE F == Keeping(w, I)
           N == Len(F)
           n == Len(found)
<1>1. F \in Seq(Rows) /\ \E f : Follows(F, w, I, f)
  BY KeepingFollows
<1>2. PICK f : Follows(F, w, I, f)
  BY <1>1
<1>3. I \subseteq Nat /\ IsFiniteSet(I)
  BY IndexSet
<1>4. found \in Seq(Rows) /\ Ending(found, F) /\ n = IF N > limit THEN limit ELSE N
  <2> HIDE DEF F
  <2>1. /\ Latest(F, limit) \in Seq(Rows) /\ Ending(Latest(F, limit), F)
        /\ Len(Latest(F, limit)) = IF Len(F) > limit THEN limit ELSE Len(F)
    BY <1>1, LatestEnding
  <2>2. found = Latest(F, limit)
    BY DEF F
  <2> QED
    BY <2>1, <2>2
<1> HIDE DEF F
<1>5. PICK m \in 0 .. N : n = N - m /\ \A i \in 1 .. n : found[i] = F[i + m]
  BY <1>4 DEF Ending
<1>6. /\ N \in Nat /\ n \in Nat /\ m \in Nat /\ DOMAIN found = 1 .. n
      /\ \A k \in 1 .. N : F[k] = w[f[k]] /\ f[k] \in I
      /\ \A x \in I : \E k \in 1 .. N : f[k] = x
      /\ \A j, k \in 1 .. N : j < k => f[j] < f[k]
      /\ \A j, k \in 1 .. N : f[j] = f[k] => j = k
  <2>1. /\ \A k \in 1 .. N : F[k] = w[f[k]] /\ f[k] \in I
        /\ \A x \in I : \E k \in 1 .. N : f[k] = x
        /\ \A j, k \in 1 .. N : j < k => f[j] < f[k]
        /\ \A j, k \in 1 .. N : f[j] = f[k] => j = k
    BY <1>2 DEF Follows
  <2>2. N \in Nat /\ n \in Nat /\ DOMAIN found = 1 .. n
    BY <1>1, <1>4, LenProperties
  <2>3. m \in Nat
    BY <2>2
  <2> QED
    BY <2>1, <2>2, <2>3
<1> HIDE DEF N, n
<1>7. \A i \in 1 .. n : i + m \in 1 .. N
  BY <1>5, <1>6
<1>8. ASSUME NEW i \in 1 .. n PROVE \E x \in I : found[i] = w[x]
  <2>1. i + m \in 1 .. N /\ found[i] = F[i + m]
    BY <1>5, <1>7
  <2>2. f[i + m] \in I /\ found[i] = w[f[i + m]]
    BY <1>6, <2>1
  <2> QED
    BY <2>2
<1>9. ASSUME NEW x \in I, w[x] \notin ToSet(found)
      PROVE  Cardinality({y \in I : y > x}) >= limit
  <2> DEFINE Y == {y \in I : y > x}
             h == [i \in 1 .. limit |-> f[i + m]]
  <2>1. PICK k \in 1 .. N : f[k] = x
    BY <1>6
  <2>2. k <= m
    <3> SUFFICES ASSUME k > m PROVE FALSE
      BY <1>6
    <3>1. k - m \in 1 .. n /\ k - m + m = k
      BY <1>5, <1>6
    <3>a. found[k - m] = F[k]
      BY <1>5, <3>1
    <3>b. F[k] = w[f[k]]
      BY <1>6, <2>1
    <3>2. found[k - m] = w[x]
      BY <2>1, <3>a, <3>b
    <3> QED
      BY <1>6, <1>9, <3>1, <3>2 DEF ToSet
  <2>3. n = limit
    BY <1>4, <1>5, <1>6, <2>2 DEF n, N
  <2>4. ASSUME NEW i \in 1 .. limit PROVE i + m \in 1 .. N /\ f[i + m] \in Y
    <3>1. i + m \in 1 .. N /\ k < i + m
      BY <1>6, <1>7, <2>2, <2>3
    <3>2. x < f[i + m] /\ f[i + m] \in I
      BY <1>6, <2>1, <3>1
    <3>3. x \in Nat /\ f[i + m] \in Nat
      BY <1>3, <3>2
    <3> QED
      BY <3>1, <3>2, <3>3
  <2>5. \A i, j \in 1 .. limit : f[i + m] = f[j + m] => i = j
    <3> TAKE i, j \in 1 .. limit
    <3>1. i + m \in 1 .. N /\ j + m \in 1 .. N
      BY <2>4
    <3>2. f[i + m] = f[j + m] => i + m = j + m
      BY <1>6, <3>1
    <3> QED
      BY <1>6, <3>2
  <2>6. IsFiniteSet(Y)
    <3>1. Y \in SUBSET I
      OBVIOUS
    <3> QED
      BY <1>3, <3>1, FS_Subset
  <2> HIDE DEF Y
  <2>7. h \in Injection(1 .. limit, Y)
    BY <2>4, <2>5 DEF Injection, IsInjective
  <2>8. IsFiniteSet(1 .. limit) /\ Cardinality(1 .. limit) = limit
    BY FS_Interval
  <2> HIDE DEF h
  <2>9. limit <= Cardinality(Y)
    BY <2>6, <2>7, <2>8, FS_Injection
  <2>10. Cardinality(Y) \in Nat
    BY <2>6, FS_CardinalityType
  <2>11. Cardinality(Y) >= limit
    BY <2>9, <2>10
  <2> QED
    BY <2>11 DEF Y
<1> QED
  BY <1>6, <1>8, <1>9

LEMMA SearchesFind == TypeInv => SearchFinds
<1> SUFFICES ASSUME TypeInv, NEW u \in Users, NEW m \in Messages, NEW limit \in 1 .. 2
    PROVE  LET window == RecentRows(u, 2, {"chat"})
               found == SearchUser(u, m.words, limit, 2, m.id)
               Hit(row) == m.words \subseteq row.of.words /\ (m.id = None \/ row.of.id # m.id)
           IN  /\ \A i \in DOMAIN found : Hit(found[i])
               /\ \A i \in DOMAIN window : Hit(window[i]) =>
                    \/ window[i] \in ToSet(found)
                    \/ Cardinality({k \in DOMAIN window : k > i /\ Hit(window[k])}) >= limit
  BY DEF SearchFinds
<1> DEFINE t == Opened(u)
           S == InTime(t, {i \in DOMAIN t : t[i].kind \in {"chat"}})
           window == RecentRows(u, 2, {"chat"})
           found == SearchUser(u, m.words, limit, 2, m.id)
           Hit(row) == m.words \subseteq row.of.words /\ (m.id = None \/ row.of.id # m.id)
           I == {i \in DOMAIN window : Hit(window[i])}
           I2 == {i \in DOMAIN window : (m.id = None \/ window[i].of.id # m.id) /\ m.words \subseteq window[i].of.words}
<1>1. t \in Seq(Rows)
  <2>1. u \in Owners
    BY DEF Owners
  <2>2. t \in Seq(RowsOf(u))
    BY <2>1, OpenedIs
  <2> HIDE DEF t
  <2> QED
    BY <2>1, <2>2, TableRows
<1>2. S \in Seq(Rows)
  <2> DEFINE J == {i \in DOMAIN t : t[i].kind \in {"chat"}}
  <2>1. J \subseteq DOMAIN t
    OBVIOUS
  <2> HIDE DEF t, J
  <2>2. InTime(t, J) \in Seq(Rows)
    BY <1>1, <2>1, SortedIs DEF InOrder
  <2> QED
    BY <2>2 DEF J
<1>3. window = Latest(S, 2)
  BY DEF RecentRows
<1>4. MaxOf(limit, 2) = 2
  BY DEF MaxOf
<1>5. found = Latest(Keeping(window, I2), limit)
  BY <1>4 DEF SearchUser, SearchMessages, Found
<1> HIDE DEF S, t
<1>6. window \in Seq(Rows)
  <2> HIDE DEF window
  <2> QED
    BY <1>2, <1>3, LatestEnding
<1> HIDE DEF window, found
<1>7. I2 = I
  OBVIOUS
<1>8. I \subseteq DOMAIN window /\ limit \in Nat /\ DOMAIN window = 1 .. Len(window)
  BY <1>6, LenProperties
<1>9. found = Latest(Keeping(window, I), limit)
  BY <1>5, <1>7
<1> HIDE DEF I2
<1>10. /\ \A i \in DOMAIN found : \E x \in I : found[i] = window[x]
       /\ \A x \in I : window[x] \in ToSet(found) \/ Cardinality({y \in I : y > x}) >= limit
  <2> HIDE DEF I
  <2> QED
    BY <1>6, <1>8, <1>9, KeptOrLater
<1>11. \A i \in DOMAIN found : Hit(found[i])
  BY <1>10
<1>12. ASSUME NEW i \in DOMAIN window, Hit(window[i])
       PROVE  \/ window[i] \in ToSet(found)
              \/ Cardinality({k \in DOMAIN window : k > i /\ Hit(window[k])}) >= limit
  <2>1. {k \in DOMAIN window : k > i /\ Hit(window[k])} = {y \in I : y > i}
    OBVIOUS
  <2>2. i \in I
    BY <1>12
  <2> HIDE DEF I, Hit
  <2> QED
    BY <1>10, <2>1, <2>2
<1> HIDE DEF I
<1> QED
  BY <1>11, <1>12 DEF window, found

-----------------------------------------------------------------------------
(* The mirror of a user.  Every row of the table has its line, or a recording *)
(* on its way to write it, or was cut off from it: exactly one of the three.  *)

\* K: rows of the table; d: lines; k: rows still to be written; C: cut off.
Mirror(K, d, k, C) ==
  /\ \A x, y \in DOMAIN d : d[x] = d[y] => x = y
  /\ \A x, y \in DOMAIN k : k[x] = k[y] => x = y
  /\ \A x \in DOMAIN d, y \in DOMAIN k : d[x] # k[y]
  /\ \A x \in DOMAIN d : d[x] \in K \ C
  /\ \A y \in DOMAIN k : k[y] \in K \ C
  /\ C \subseteq K
  /\ \A key \in K \ C : (\E x \in DOMAIN d : d[x] = key) \/ \E y \in DOMAIN k : k[y] = key

\* A new row is on its way to the mirror.
LEMMA MirrorRow ==
  ASSUME NEW K, NEW d, NEW k, NEW C, Mirror(K, d, k, C), NEW key, key \notin K,
         NEW j, j \notin DOMAIN k, NEW l, DOMAIN l = DOMAIN k \cup {j}, l[j] = key,
         \A y \in DOMAIN k : l[y] = k[y]
  PROVE  Mirror(K \cup {key}, d, l, C)
<1>1. /\ \A x, y \in DOMAIN d : d[x] = d[y] => x = y
      /\ \A x, y \in DOMAIN k : k[x] = k[y] => x = y
      /\ \A x \in DOMAIN d, y \in DOMAIN k : d[x] # k[y]
      /\ \A x \in DOMAIN d : d[x] \in K \ C
      /\ \A y \in DOMAIN k : k[y] \in K \ C
      /\ C \subseteq K
      /\ \A z \in K \ C : (\E x \in DOMAIN d : d[x] = z) \/ \E y \in DOMAIN k : k[y] = z
  BY DEF Mirror
<1>2. \A x, y \in DOMAIN l : l[x] = l[y] => x = y
  BY <1>1
<1>3. \A x \in DOMAIN d, y \in DOMAIN l : d[x] # l[y]
  BY <1>1
<1>4. \A y \in DOMAIN l : l[y] \in (K \cup {key}) \ C
  BY <1>1
<1>5. \A z \in (K \cup {key}) \ C : (\E x \in DOMAIN d : d[x] = z) \/ \E y \in DOMAIN l : l[y] = z
  BY <1>1
<1>6. (\A x \in DOMAIN d : d[x] \in (K \cup {key}) \ C) /\ C \subseteq K \cup {key}
  BY <1>1
<1> QED
  BY <1>1, <1>2, <1>3, <1>4, <1>5, <1>6 DEF Mirror

\* A line is written.
LEMMA MirrorLine ==
  ASSUME NEW K, NEW T, NEW d \in Seq(T), NEW k, NEW C, Mirror(K, d, k, C), NEW j \in DOMAIN k, k[j] \in T,
         NEW l, DOMAIN l = DOMAIN k \ {j}, \A y \in DOMAIN l : l[y] = k[y]
  PROVE  Mirror(K, Append(d, k[j]), l, C)
<1> DEFINE n == Len(d)
           e == Append(d, k[j])
<1>0. /\ n \in Nat /\ DOMAIN d = 1 .. n /\ DOMAIN e = 1 .. n + 1
      /\ \A i \in 1 .. n : e[i] = d[i]
      /\ e[n + 1] = k[j]
  BY LenProperties, AppendProperties
<1> HIDE DEF n, e
<1>1. /\ \A x, y \in 1 .. n : d[x] = d[y] => x = y
      /\ \A x, y \in DOMAIN k : k[x] = k[y] => x = y
      /\ \A x \in 1 .. n, y \in DOMAIN k : d[x] # k[y]
      /\ \A x \in 1 .. n : d[x] \in K \ C
      /\ \A y \in DOMAIN k : k[y] \in K \ C
      /\ C \subseteq K
      /\ \A z \in K \ C : (\E x \in 1 .. n : d[x] = z) \/ \E y \in DOMAIN k : k[y] = z
  BY <1>0 DEF Mirror
<1>2. n + 1 \in 1 .. n + 1 /\ (\A i \in 1 .. n : i \in 1 .. n + 1) /\ \A i \in 1 .. n + 1 : i \in 1 .. n \/ i = n + 1
  BY <1>0
<1>3. \A x, y \in 1 .. n + 1 : e[x] = e[y] => x = y
  BY <1>0, <1>1, <1>2
<1>4. \A x, y \in DOMAIN l : l[x] = l[y] => x = y
  BY <1>1
<1>5. \A x \in 1 .. n + 1, y \in DOMAIN l : e[x] # l[y]
  BY <1>0, <1>1, <1>2
<1>6. \A x \in 1 .. n + 1 : e[x] \in K \ C
  BY <1>0, <1>1, <1>2
<1>7. \A y \in DOMAIN l : l[y] \in K \ C
  BY <1>1
<1>8. ASSUME NEW z \in K \ C PROVE (\E x \in 1 .. n + 1 : e[x] = z) \/ \E y \in DOMAIN l : l[y] = z
  <2>1. CASE \E x \in 1 .. n : d[x] = z
    BY <1>0, <1>2, <2>1
  <2>2. CASE \E y \in DOMAIN k : k[y] = z
    BY <1>0, <1>2, <2>2
  <2> QED
    BY <1>1, <2>1, <2>2
<1> QED
  BY <1>0, <1>1, <1>3, <1>4, <1>5, <1>6, <1>7, <1>8 DEF Mirror, e

\* Some of what was to be written is cut off.
LEMMA MirrorCut ==
  ASSUME NEW K, NEW d, NEW k, NEW C, Mirror(K, d, k, C), NEW J, J \subseteq DOMAIN k,
         NEW l, DOMAIN l = DOMAIN k \ J, \A y \in DOMAIN l : l[y] = k[y],
         NEW D, D = C \cup {k[y] : y \in J}
  PROVE  Mirror(K, d, l, D)
<1>1. /\ \A x, y \in DOMAIN d : d[x] = d[y] => x = y
      /\ \A x, y \in DOMAIN k : k[x] = k[y] => x = y
      /\ \A x \in DOMAIN d, y \in DOMAIN k : d[x] # k[y]
      /\ \A x \in DOMAIN d : d[x] \in K \ C
      /\ \A y \in DOMAIN k : k[y] \in K \ C
      /\ C \subseteq K
      /\ \A z \in K \ C : (\E x \in DOMAIN d : d[x] = z) \/ \E y \in DOMAIN k : k[y] = z
  BY DEF Mirror
<1>2. \A x, y \in DOMAIN l : l[x] = l[y] => x = y
  BY <1>1
<1>3. \A x \in DOMAIN d, y \in DOMAIN l : d[x] # l[y]
  BY <1>1
<1>4. \A x \in DOMAIN d : d[x] \in K \ D
  BY <1>1
<1>5. \A y \in DOMAIN l : l[y] \in K \ D
  BY <1>1
<1>6. D \subseteq K
  BY <1>1
<1>7. \A z \in K \ D : (\E x \in DOMAIN d : d[x] = z) \/ \E y \in DOMAIN l : l[y] = z
  BY <1>1
<1> QED
  BY <1>1, <1>2, <1>3, <1>4, <1>5, <1>6, <1>7 DEF Mirror

LEMMA AppendSet ==
  ASSUME NEW T, NEW table \in Seq(T), NEW m \in T
  PROVE  ToSet(Append(table, m)) = ToSet(table) \cup {m}
<1> DEFINE k == Len(table)
           t == Append(table, m)
<1>1. /\ k \in Nat /\ DOMAIN table = 1 .. k /\ DOMAIN t = 1 .. k + 1
      /\ \A i \in 1 .. k : t[i] = table[i]
      /\ t[k + 1] = m
  BY LenProperties, AppendProperties
<1> HIDE DEF t, k
<1>2. k + 1 \in 1 .. k + 1 /\ (\A i \in 1 .. k : i \in 1 .. k + 1) /\ \A i \in 1 .. k + 1 : i \in 1 .. k \/ i = k + 1
  BY <1>1
<1> QED
  BY <1>1, <1>2 DEF ToSet, t

Due(u) == {j \in Pending : jobs[j].owner = u}
DueRows(u) == [j \in Due(u) |-> jobs[j].m]
CutOff(u) == {p[2] : p \in {p \in interrupted : p[1] = u}}

MirrorInv ==
  /\ \A j \in Jobs : j > started => jobs[j] = Idle
  /\ \A p \in interrupted : p = <<p[1], p[2]>>
  /\ \A u \in Users \ wiped : Mirror(ToSet(rows[u]), daily[u], DueRows(u), CutOff(u))

LEMMA InitMirror == Init => MirrorInv
<1> SUFFICES ASSUME Init PROVE MirrorInv
  OBVIOUS
<1>1. ASSUME NEW u \in Users PROVE Mirror(ToSet(rows[u]), daily[u], DueRows(u), CutOff(u))
  <2>1. rows[u] = <<>> /\ daily[u] = <<>> /\ interrupted = {} /\ Pending = {}
    BY DEF Init, Owners, Pending, Idle
  <2>2. ToSet(<<>>) = {} /\ DOMAIN DueRows(u) = {} /\ CutOff(u) = {}
    BY <2>1 DEF ToSet, DueRows, Due, CutOff
  <2> QED
    BY <2>1, <2>2 DEF Mirror
<1> QED
  BY <1>1 DEF Init, MirrorInv

\* A user about whom nothing changes.
LEMMA SameMirror ==
  ASSUME NEW u \in Users, Mirror(ToSet(rows[u]), daily[u], DueRows(u), CutOff(u)),
         rows'[u] = rows[u], daily'[u] = daily[u], interrupted' = interrupted, Due(u)' = Due(u),
         \A j \in Due(u) : jobs'[j] = jobs[j]
  PROVE  Mirror(ToSet(rows'[u]), daily'[u], DueRows(u)', CutOff(u)')
<1>1. DueRows(u)' = DueRows(u)
  <2> DEFINE D == Due(u)
  <2>1. DueRows(u)' = [j \in Due(u)' |-> jobs'[j].m] /\ DueRows(u) = [j \in D |-> jobs[j].m]
    BY DEF DueRows
  <2>2. DueRows(u)' = [j \in D |-> jobs'[j].m]
    BY <2>1
  <2> HIDE DEF D
  <2>3. \A j \in D : jobs'[j].m = jobs[j].m
    BY DEF D
  <2> QED
    BY <2>1, <2>2, <2>3
<1>2. CutOff(u)' = CutOff(u)
  BY DEF CutOff
<1>3. ToSet(rows'[u]) = ToSet(rows[u])
  OBVIOUS
<1> QED
  BY <1>1, <1>2, <1>3

LEMMA BeginMirror ==
  ASSUME TypeInv, MirrorInv, NEW o \in Owners, NEW m, Begin(o, m)
  PROVE  MirrorInv'
<1> DEFINE n == started + 1
<1>1. /\ started \in Nat /\ started' = n /\ n \in Jobs
      /\ UNCHANGED <<rows, daily, interrupted, wiped>>
  BY ChatHistoryAssumption DEF Begin, store, TypeInv, Jobs
<1>2. jobs[n] = Idle
  BY <1>1 DEF MirrorInv
<1>3. /\ DOMAIN jobs' = Jobs /\ jobs'[n] = [pc |-> "insert", owner |-> o, m |-> m]
      /\ \A j \in Jobs : j # n => jobs'[j] = jobs[j]
  BY <1>1 DEF Begin, TypeInv
<1> HIDE DEF n
<1>4. \A j \in Jobs : j > started' => jobs'[j] = Idle
  <2>1. \A j \in Jobs : j > started' => j > started /\ j # n
    BY <1>1 DEF Jobs, n
  <2> QED
    BY <1>3, <2>1 DEF MirrorInv
<1>5. Pending' = Pending /\ n \notin Pending
  <2>1. jobs[n].pc # "append" /\ jobs'[n].pc # "append"
    BY <1>2, <1>3 DEF Idle
  <2> QED
    BY <1>3, <2>1 DEF Pending
<1>6. ASSUME NEW u \in Users \ wiped' PROVE Mirror(ToSet(rows'[u]), daily'[u], DueRows(u)', CutOff(u)')
  <2>1. \A j \in Pending : j \in Jobs /\ jobs'[j] = jobs[j]
    BY <1>3, <1>5 DEF Pending
  <2>2. Due(u)' = Due(u) /\ \A j \in Due(u) : jobs'[j] = jobs[j]
    BY <1>5, <2>1 DEF Due
  <2>3. Mirror(ToSet(rows[u]), daily[u], DueRows(u), CutOff(u))
    BY <1>1 DEF MirrorInv
  <2> QED
    BY <1>1, <2>2, <2>3, SameMirror
<1> QED
  BY <1>1, <1>4, <1>6 DEF MirrorInv

\* A job at its step is not a free one.
LEMMA MovedFresh ==
  ASSUME TypeInv, MirrorInv, NEW j \in Jobs, jobs[j] # Idle, started' = started,
         \A i \in Jobs : i # j => jobs'[i] = jobs[i]
  PROVE  \A i \in Jobs : i > started' => jobs'[i] = Idle
BY DEF MirrorInv

LEMMA InsertMirror ==
  ASSUME TypeInv, MirrorInv, NEW j \in Jobs, Insert(j)
  PROVE  MirrorInv'
<1> DEFINE o == jobs[j].owner
           m == jobs[j].m
           pc == AfterInsert(o, m.key \notin Keys(Opened(o)))
<1>1. jobs[j] \in Recording /\ o \in Owners /\ m \in RowsOf(o) /\ jobs[j].pc = "insert" /\ jobs[j] # Idle
  BY AtWork DEF Insert
<1>2. /\ rows' = [rows EXCEPT ![o] = Inserted(Opened(o), m)]
      /\ jobs' = [jobs EXCEPT ![j].pc = pc]
      /\ UNCHANGED <<daily, interrupted, wiped, started>>
      /\ DOMAIN rows = Owners
  BY DEF Insert, TypeInv
<1>3. /\ jobs'[j] = [pc |-> pc, owner |-> o, m |-> m]
      /\ \A i \in Jobs : i # j => jobs'[i] = jobs[i]
      /\ DOMAIN jobs' = Jobs
  <2>1. pc \in {"insert", "append", "done"}
    BY DEF AfterInsert
  <2> HIDE DEF pc
  <2> QED
    BY <1>1, <1>2, <2>1, MovedType
<1>4. \A i \in Jobs : i > started' => jobs'[i] = Idle
  BY <1>1, <1>2, <1>3, MovedFresh
<1>5. j \notin Pending
  BY <1>1 DEF Pending
<1>6. ASSUME NEW u \in Users \ wiped' PROVE Mirror(ToSet(rows'[u]), daily'[u], DueRows(u)', CutOff(u)')
  <2>0. Mirror(ToSet(rows[u]), daily[u], DueRows(u), CutOff(u)) /\ rows[u] \in Seq(RowsOf(u)) /\ Opened(u) = rows[u] /\ u \in Owners
    BY <1>2, OpenedIs DEF MirrorInv, TypeInv, Owners
  <2>1. \A i \in Due(u) : i \in Jobs /\ i # j /\ jobs'[i] = jobs[i] /\ jobs[i].pc = "append"
    BY <1>3, <1>5 DEF Due, Pending
  <2>2. CASE u = o /\ m.key \notin Keys(rows[u])
    <3> DEFINE l == DueRows(u)'
               K == ToSet(rows[u])
    <3>1. jobs'[j].pc = "append" /\ jobs'[j].owner = u /\ jobs'[j].m = m
      BY <1>3, <2>0, <2>2 DEF AfterInsert
    <3>2. Due(u)' = Due(u) \cup {j}
      <4>1. ASSUME NEW i \in Jobs, i # j PROVE i \in Due(u)' <=> i \in Due(u)
        BY <1>3, <4>1 DEF Due, Pending
      <4>2. j \in Due(u)'
        BY <3>1 DEF Due, Pending
      <4>3. Due(u)' \subseteq Jobs /\ Due(u) \subseteq Jobs
        BY DEF Due, Pending
      <4> QED
        BY <4>1, <4>2, <4>3
    <3>3. l = [i \in Due(u)' |-> jobs'[i].m] /\ DueRows(u) = [i \in Due(u) |-> jobs[i].m]
      BY DEF DueRows
    <3>4. DOMAIN l = DOMAIN DueRows(u) \cup {j} /\ DOMAIN DueRows(u) = Due(u)
      BY <3>2, <3>3
    <3>5. l[j] = m /\ \A i \in DOMAIN DueRows(u) : l[i] = DueRows(u)[i]
      BY <2>1, <3>1, <3>2, <3>3
    <3>6. j \notin DOMAIN DueRows(u)
      BY <1>5, <3>4 DEF Due
    <3>7. ToSet(rows'[u]) = K \cup {m}
      <4>1. rows'[u] = Append(rows[u], m)
        BY <1>1, <1>2, <2>0, <2>2 DEF Inserted
      <4>2. m \in RowsOf(u)
        BY <1>1, <2>2
      <4> QED
        BY <2>0, <4>1, <4>2, AppendSet
    <3>8. daily'[u] = daily[u] /\ CutOff(u)' = CutOff(u)
      BY <1>2 DEF CutOff
    <3>9. m \notin K
      BY <2>2 DEF Keys, ToSet
    <3> HIDE DEF l, K, m
    <3>10. Mirror(K, daily[u], DueRows(u), CutOff(u))
      BY <2>0 DEF K
    <3>11. Mirror(K \cup {m}, daily[u], l, CutOff(u))
      BY <3>4, <3>5, <3>6, <3>9, <3>10, MirrorRow
    <3> QED
      BY <3>7, <3>8, <3>11 DEF l
  <2>3. CASE u # o \/ m.key \in Keys(rows[u])
    <3>1. rows'[u] = rows[u]
      BY <1>2, <2>0, <2>3 DEF Inserted
    <3>2. ~(jobs'[j].pc = "append" /\ jobs'[j].owner = u)
      BY <1>3, <2>0, <2>3 DEF AfterInsert
    <3>3. Due(u)' = Due(u)
      <4>1. ASSUME NEW i \in Jobs PROVE i \in Due(u)' <=> i \in Due(u)
        BY <1>3, <1>5, <3>2 DEF Due, Pending
      <4>2. Due(u)' \subseteq Jobs /\ Due(u) \subseteq Jobs
        BY DEF Due, Pending
      <4> QED
        BY <4>1, <4>2
    <3> QED
      BY <1>2, <2>0, <2>1, <3>1, <3>3, SameMirror
  <2> QED
    BY <2>2, <2>3
<1> QED
  BY <1>2, <1>4, <1>6 DEF MirrorInv

LEMMA AppendMirror ==
  ASSUME TypeInv, MirrorInv, NEW j \in Jobs, AppendDaily(j)
  PROVE  MirrorInv'
<1> DEFINE o == jobs[j].owner
           m == jobs[j].m
<1>1. jobs[j] \in Recording /\ o \in Owners /\ m \in RowsOf(o) /\ jobs[j].pc = "append" /\ jobs[j] # Idle
  BY AtWork DEF AppendDaily
<1>2. /\ daily' = [daily EXCEPT ![o] = Append(@, m)]
      /\ jobs' = [jobs EXCEPT ![j].pc = "done"]
      /\ UNCHANGED <<rows, interrupted, wiped, started>>
      /\ DOMAIN daily = Users
  BY DEF AppendDaily, history, TypeInv
<1>3. /\ jobs'[j] = [pc |-> "done", owner |-> o, m |-> m]
      /\ \A i \in Jobs : i # j => jobs'[i] = jobs[i]
      /\ DOMAIN jobs' = Jobs
  BY <1>1, <1>2, MovedType
<1>4. \A i \in Jobs : i > started' => jobs'[i] = Idle
  BY <1>1, <1>2, <1>3, MovedFresh
<1>5. j \in Pending /\ j \notin Pending'
  BY <1>1, <1>3 DEF Pending
<1>6. ASSUME NEW u \in Users \ wiped' PROVE Mirror(ToSet(rows'[u]), daily'[u], DueRows(u)', CutOff(u)')
  <2>0. Mirror(ToSet(rows[u]), daily[u], DueRows(u), CutOff(u))
    BY <1>2 DEF MirrorInv
  <2>1. Due(u)' = Due(u) \ {j}
    <3>1. ASSUME NEW i \in Jobs, i # j PROVE i \in Due(u)' <=> i \in Due(u)
      BY <1>3, <3>1 DEF Due, Pending
    <3>2. Due(u)' \subseteq Jobs /\ Due(u) \subseteq Jobs /\ j \notin Due(u)'
      BY <1>5 DEF Due, Pending
    <3> QED
      BY <3>1, <3>2
  <2>2. CASE u = o
    <3> DEFINE l == DueRows(u)'
               k == DueRows(u)
               T == RowsOf(u)
    <3>1. l = [i \in Due(u)' |-> jobs'[i].m] /\ k = [i \in Due(u) |-> jobs[i].m]
      BY DEF DueRows
    <3>2. j \in Due(u)
      BY <1>5, <2>2 DEF Due
    <3>3. DOMAIN l = DOMAIN k \ {j} /\ j \in DOMAIN k /\ k[j] = m
      BY <2>1, <3>1, <3>2
    <3>4. \A i \in Due(u)' : jobs'[i] = jobs[i] /\ i \in Due(u)
      BY <1>3, <2>1 DEF Due, Pending
    <3>5. \A i \in DOMAIN l : l[i] = k[i]
      BY <3>1, <3>4
    <3>6. m \in T /\ daily[u] \in Seq(T)
      BY <1>1, <2>2 DEF TypeInv
    <3>7. daily'[u] = Append(daily[u], m)
      BY <1>2, <2>2
    <3>8. ToSet(rows'[u]) = ToSet(rows[u]) /\ CutOff(u)' = CutOff(u)
      BY <1>2 DEF CutOff
    <3> HIDE DEF l, k, T, m
    <3>9. Mirror(ToSet(rows[u]), Append(daily[u], k[j]), l, CutOff(u))
      <4>1. Mirror(ToSet(rows[u]), daily[u], k, CutOff(u))
        BY <2>0 DEF k
      <4>2. k[j] \in T
        BY <3>3, <3>6
      <4> QED
        BY <3>3, <3>5, <3>6, <4>1, <4>2, MirrorLine
    <3> QED
      BY <3>3, <3>7, <3>8, <3>9 DEF l
  <2>3. CASE u # o
    <3>1. daily'[u] = daily[u]
      BY <1>2, <2>3
    <3>2. Due(u)' = Due(u) /\ \A i \in Due(u) : jobs'[i] = jobs[i]
      BY <1>3, <2>1, <2>3 DEF Due, Pending
    <3> QED
      BY <1>2, <2>0, <3>1, <3>2, SameMirror
  <2> QED
    BY <2>2, <2>3
<1> QED
  BY <1>2, <1>4, <1>6 DEF MirrorInv

\* The line is not written.
LEMMA FailMirror ==
  ASSUME TypeInv, MirrorInv, NEW j \in Jobs, AppendFails(j)
  PROVE  MirrorInv'
<1> DEFINE o == jobs[j].owner
           m == jobs[j].m
<1>1. jobs[j] \in Recording /\ jobs[j].pc = "append" /\ jobs[j] # Idle
  BY AtWork DEF AppendFails
<1>2. /\ jobs' = [jobs EXCEPT ![j].pc = "done"]
      /\ interrupted' = interrupted \cup {<<o, m>>}
      /\ UNCHANGED <<rows, daily, wiped, started>>
  BY DEF AppendFails, store
<1>3. /\ jobs'[j] = [pc |-> "done", owner |-> o, m |-> m]
      /\ \A i \in Jobs : i # j => jobs'[i] = jobs[i]
      /\ DOMAIN jobs' = Jobs
  BY <1>1, <1>2, MovedType
<1>4. \A i \in Jobs : i > started' => jobs'[i] = Idle
  BY <1>1, <1>2, <1>3, MovedFresh
<1>5. j \in Pending /\ j \notin Pending'
  BY <1>1, <1>3 DEF Pending
<1>6. \A p \in interrupted' : p = <<p[1], p[2]>>
  BY <1>2 DEF MirrorInv
<1>7. ASSUME NEW u \in Users \ wiped' PROVE Mirror(ToSet(rows'[u]), daily'[u], DueRows(u)', CutOff(u)')
  <2> DEFINE l == DueRows(u)'
             k == DueRows(u)
             J == Due(u) \cap {j}
             D == CutOff(u)'
  <2>0. Mirror(ToSet(rows[u]), daily[u], k, CutOff(u))
    BY <1>2 DEF MirrorInv
  <2>1. Due(u)' = Due(u) \ J
    <3>1. ASSUME NEW i \in Jobs, i # j PROVE i \in Due(u)' <=> i \in Due(u)
      BY <1>3, <3>1 DEF Due, Pending
    <3>2. Due(u)' \subseteq Jobs /\ Due(u) \subseteq Jobs /\ j \notin Due(u)'
      BY <1>5 DEF Due, Pending
    <3> QED
      BY <3>1, <3>2
  <2>2. l = [i \in Due(u)' |-> jobs'[i].m] /\ k = [i \in Due(u) |-> jobs[i].m]
    BY DEF DueRows
  <2>3. DOMAIN l = DOMAIN k \ J /\ J \subseteq DOMAIN k
    BY <2>1, <2>2
  <2>4. \A i \in Due(u)' : jobs'[i] = jobs[i] /\ i \in Due(u)
    BY <1>3, <2>1 DEF Due, Pending
  <2>5. \A i \in DOMAIN l : l[i] = k[i]
    BY <2>2, <2>4
  <2>6. D = CutOff(u) \cup {k[y] : y \in J}
    <3> HIDE DEF o, m
    <3>0. CutOff(u)' = {p[2] : p \in {p \in interrupted \cup {<<o, m>>} : p[1] = u}}
      BY <1>2 DEF CutOff
    <3>a. <<o, m>>[1] = o /\ <<o, m>>[2] = m
      OBVIOUS
    <3>1. D = CutOff(u) \cup (IF o = u THEN {m} ELSE {})
      BY <3>0, <3>a DEF CutOff
    <3> USE DEF o, m
    <3>2. CASE o = u
      <4>1. J = {j} /\ k[j] = m
        BY <1>5, <2>2, <3>2 DEF Due
      <4> QED
        BY <3>1, <3>2, <4>1
    <3>3. CASE o # u
      <4>1. J = {}
        BY <3>3 DEF Due
      <4> QED
        BY <3>1, <3>3, <4>1
    <3> QED
      BY <3>2, <3>3
  <2> HIDE DEF l, k, J, D
  <2>7. Mirror(ToSet(rows[u]), daily[u], l, D)
    BY <2>0, <2>3, <2>5, <2>6, MirrorCut
  <2> QED
    BY <1>2, <2>7 DEF l, D
<1> QED
  BY <1>2, <1>4, <1>6, <1>7 DEF MirrorInv

LEMMA DeleteMirror ==
  ASSUME TypeInv, MirrorInv, NEW o \in Owners, DeleteChatSpace(o)
  PROVE  MirrorInv'
<1>1. /\ rows' = [rows EXCEPT ![o] = <<>>] /\ wiped' = wiped \cup {o}
      /\ UNCHANGED <<jobs, started, interrupted>>
      /\ DOMAIN rows = Owners /\ DOMAIN daily = Users
  BY DEF DeleteChatSpace, TypeInv
<1>2. ASSUME NEW u \in Users \ wiped' PROVE Mirror(ToSet(rows'[u]), daily'[u], DueRows(u)', CutOff(u)')
  <2>1. u \in Users \ wiped /\ u # o /\ u \in Owners
    BY <1>1 DEF Owners
  <2>2. rows'[u] = rows[u] /\ daily'[u] = daily[u]
    BY <1>1, <2>1 DEF DeleteChatSpace
  <2>3. Due(u)' = Due(u)
    BY <1>1 DEF Due, Pending
  <2>4. Mirror(ToSet(rows[u]), daily[u], DueRows(u), CutOff(u))
    BY <2>1 DEF MirrorInv
  <2> QED
    BY <1>1, <2>2, <2>3, <2>4, SameMirror
<1> QED
  BY <1>1, <1>2 DEF MirrorInv

LEMMA CrashMirror ==
  ASSUME TypeInv, MirrorInv, Crash
  PROVE  MirrorInv'
<1> DEFINE lost == {<<jobs[j].owner, jobs[j].m>> : j \in Pending}
<1>1. /\ UNCHANGED <<rows, daily, started, wiped>>
      /\ interrupted' = interrupted \cup lost
      /\ jobs' = [j \in Jobs |-> IF jobs[j].pc \in {"insert", "append"} THEN [jobs[j] EXCEPT !.pc = "done"] ELSE jobs[j]]
  BY DEF Crash, store
<1>2. \A j \in Jobs : j > started' => jobs'[j] = Idle
  <2> TAKE j \in Jobs
  <2>1. jobs[j] = Idle => jobs'[j] = Idle
    BY <1>1 DEF Idle
  <2> QED
    BY <1>1, <2>1 DEF MirrorInv
<1>3. \A p \in interrupted' : p = <<p[1], p[2]>>
  BY <1>1 DEF MirrorInv
<1>4. Pending' = {}
  BY CrashType DEF Pending
<1>5. ASSUME NEW u \in Users \ wiped' PROVE Mirror(ToSet(rows'[u]), daily'[u], DueRows(u)', CutOff(u)')
  <2> DEFINE k == DueRows(u)
             l == DueRows(u)'
  <2>1. Mirror(ToSet(rows[u]), daily[u], k, CutOff(u))
    BY <1>1 DEF MirrorInv
  <2>2. DOMAIN l = {}
    <3>1. Due(u)' = {}
      BY <1>4 DEF Due
    <3> QED
      BY <3>1 DEF DueRows
  <2>3. DOMAIN k = Due(u) /\ \A y \in Due(u) : k[y] = jobs[y].m
    BY DEF DueRows
  <2>4. {p[2] : p \in {p \in lost : p[1] = u}} = {k[y] : y \in DOMAIN k}
    <3>1. ASSUME NEW p \in lost, p[1] = u PROVE \E y \in Due(u) : p[2] = k[y]
      <4>1. PICK j \in Pending : p = <<jobs[j].owner, jobs[j].m>>
        OBVIOUS
      <4>2. j \in Due(u)
        BY <3>1, <4>1 DEF Due
      <4> QED
        BY <2>3, <4>1, <4>2
    <3>2. ASSUME NEW y \in Due(u) PROVE \E p \in lost : p[1] = u /\ p[2] = k[y]
      <4>1. y \in Pending /\ jobs[y].owner = u
        BY DEF Due
      <4>2. <<u, k[y]>> \in lost
        BY <2>3, <4>1
      <4> QED
        BY <4>2
    <3> HIDE DEF lost, k
    <3> QED
      BY <2>3, <3>1, <3>2
  <2>5. CutOff(u)' = CutOff(u) \cup {k[y] : y \in DOMAIN k}
    <3> HIDE DEF lost, k
    <3>1. CutOff(u)' = {p[2] : p \in {p \in interrupted \cup lost : p[1] = u}}
      BY <1>1 DEF CutOff
    <3>2. {p[2] : p \in {p \in interrupted \cup lost : p[1] = u}} = CutOff(u) \cup {p[2] : p \in {p \in lost : p[1] = u}}
      BY DEF CutOff
    <3> QED
      BY <2>4, <3>1, <3>2
  <2> HIDE DEF k, l
  <2> DEFINE D == CutOff(u)'
  <2>6. Mirror(ToSet(rows[u]), daily[u], l, D)
    <3>1. D = CutOff(u) \cup {k[y] : y \in DOMAIN k}
      BY <2>5
    <3>2. DOMAIN l = DOMAIN k \ DOMAIN k /\ DOMAIN k \subseteq DOMAIN k /\ \A y \in DOMAIN l : l[y] = k[y]
      BY <2>2
    <3> HIDE DEF D
    <3> QED
      BY <2>1, <3>1, <3>2, MirrorCut
  <2> QED
    BY <1>1, <2>6 DEF l
<1> QED
  BY <1>2, <1>3, <1>5 DEF MirrorInv

LEMMA StepMirror == TypeInv /\ MirrorInv /\ [Next]_vars => MirrorInv'
<1> SUFFICES ASSUME TypeInv, MirrorInv, [Next]_vars PROVE MirrorInv'
  OBVIOUS
<1>1. CASE UNCHANGED <<rows, daily, jobs, started, interrupted, wiped>>
  <2>1. ASSUME NEW u \in Users \ wiped' PROVE Mirror(ToSet(rows'[u]), daily'[u], DueRows(u)', CutOff(u)')
    <3>1. Due(u)' = Due(u)
      BY <1>1 DEF Due, Pending
    <3>2. Mirror(ToSet(rows[u]), daily[u], DueRows(u), CutOff(u))
      BY <1>1 DEF MirrorInv
    <3> QED
      BY <1>1, <3>1, <3>2, SameMirror
  <2> QED
    BY <1>1, <2>1 DEF MirrorInv
<1>2. CASE \E e \in Messages : Collect(e) \/ RecordCommand(e)
  BY <1>2, RecordBegins, BeginMirror
<1>3. CASE \E r \in Replies : RecordReply(r)
  BY <1>3, RecordBegins, BeginMirror
<1>4. CASE \E j \in Jobs : Insert(j) \/ AppendDaily(j) \/ AppendFails(j)
  BY <1>4, InsertMirror, AppendMirror, FailMirror
<1>5. CASE \E o \in Wipeable : DeleteChatSpace(o)
  BY <1>5, DeleteMirror, ChatHistoryAssumption
<1>6. CASE Crash
  BY <1>6, CrashMirror
<1>7. CASE Tick
  BY <1>1, <1>7 DEF Tick, store, history
<1>8. CASE UNCHANGED vars
  BY <1>1, <1>8 DEF vars, store, history
<1> QED
  BY <1>2, <1>3, <1>4, <1>5, <1>6, <1>7, <1>8 DEF Next

\* A set of places of an injective list where a value stands.
LEMMA Occurrences ==
  ASSUME NEW f, NEW key, \A x, y \in DOMAIN f : f[x] = f[y] => x = y
  PROVE  Cardinality({x \in DOMAIN f : f[x] = key}) = IF \E x \in DOMAIN f : f[x] = key THEN 1 ELSE 0
<1>1. CASE \E x \in DOMAIN f : f[x] = key
  <2>1. PICK x \in DOMAIN f : f[x] = key
    BY <1>1
  <2>2. {y \in DOMAIN f : f[y] = key} = {x}
    BY <2>1
  <2> QED
    BY <1>1, <2>2, FS_Singleton
<1>2. CASE ~ \E x \in DOMAIN f : f[x] = key
  <2>1. {x \in DOMAIN f : f[x] = key} = {}
    BY <1>2
  <2> QED
    BY <1>2, <2>1, FS_EmptySet
<1> QED
  BY <1>1, <1>2

LEMMA MirrorsDaily == TypeInv /\ TableInv /\ MirrorInv => DailyMirrors
<1> SUFFICES ASSUME TypeInv, TableInv, MirrorInv, NEW u \in Users \ wiped
    PROVE  LET Lines(row) == Cardinality({i \in DOMAIN daily[u] : daily[u][i] = row})
                             + Cardinality({j \in Pending : jobs[j].owner = u /\ jobs[j].m = row})
           IN  /\ ToSet(daily[u]) \subseteq ToSet(rows[u])
               /\ \A row \in ToSet(rows[u]) : Lines(row) = IF <<u, row>> \in interrupted THEN 0 ELSE 1
               /\ \A s \in said[u] : Distinct(s, u) => \E row \in ToSet(rows[u]) : Same(Heard(row), s)
               /\ \A i, j \in DOMAIN daily[u] :
                    Stable(Heard(daily[u][i])) /\ Same(Heard(daily[u][i]), Heard(daily[u][j])) => i = j
  BY DEF DailyMirrors
<1> DEFINE d == daily[u]
           k == DueRows(u)
           K == ToSet(rows[u])
           C == CutOff(u)
<1>1. /\ \A x, y \in DOMAIN d : d[x] = d[y] => x = y
      /\ \A x, y \in DOMAIN k : k[x] = k[y] => x = y
      /\ \A x \in DOMAIN d, y \in DOMAIN k : d[x] # k[y]
      /\ \A x \in DOMAIN d : d[x] \in K \ C
      /\ \A y \in DOMAIN k : k[y] \in K \ C
      /\ \A row \in K \ C : (\E x \in DOMAIN d : d[x] = row) \/ \E y \in DOMAIN k : k[y] = row
  <2>1. Mirror(K, d, k, C)
    BY DEF MirrorInv
  <2> HIDE DEF d, k, K, C
  <2> QED
    BY <2>1 DEF Mirror
<1>2. DOMAIN k = Due(u) /\ \A j \in Due(u) : k[j] = jobs[j].m
  BY DEF DueRows
<1> HIDE DEF d, k
<1>3. ASSUME NEW row \in K
      PROVE  Cardinality({i \in DOMAIN d : d[i] = row})
             + Cardinality({j \in Pending : jobs[j].owner = u /\ jobs[j].m = row}) = IF <<u, row>> \in interrupted THEN 0 ELSE 1
  <2>1. {j \in Pending : jobs[j].owner = u /\ jobs[j].m = row} = {j \in DOMAIN k : k[j] = row}
    BY <1>2 DEF Due
  <2>2. Cardinality({i \in DOMAIN d : d[i] = row}) = IF \E x \in DOMAIN d : d[x] = row THEN 1 ELSE 0
    <3>1. \A x, y \in DOMAIN d : d[x] = d[y] => x = y
      BY <1>1
    <3> QED
      BY <3>1, Occurrences
  <2>3. Cardinality({j \in DOMAIN k : k[j] = row}) = IF \E y \in DOMAIN k : k[y] = row THEN 1 ELSE 0
    <3>1. \A x, y \in DOMAIN k : k[x] = k[y] => x = y
      BY <1>1
    <3> QED
      BY <3>1, Occurrences
  <2> DEFINE a == Cardinality({i \in DOMAIN d : d[i] = row})
             b == Cardinality({j \in Pending : jobs[j].owner = u /\ jobs[j].m = row})
             cut == <<u, row>> \in interrupted
  <2>7. b = Cardinality({j \in DOMAIN k : k[j] = row})
    BY <2>1
  <2>4. row \in C <=> <<u, row>> \in interrupted
    <3>1. ASSUME row \in C PROVE <<u, row>> \in interrupted
      <4>1. PICK p \in interrupted : p[1] = u /\ p[2] = row
        BY <3>1 DEF CutOff
      <4> QED
        BY <4>1 DEF MirrorInv
    <3>2. ASSUME <<u, row>> \in interrupted PROVE row \in C
      BY <3>2 DEF CutOff
    <3> QED
      BY <3>1, <3>2
  <2>5. CASE row \in C
    <3>1. ~(\E x \in DOMAIN d : d[x] = row) /\ ~ \E y \in DOMAIN k : k[y] = row
      BY <1>1, <2>5
    <3>2. a = 0 /\ b = 0
      BY <2>2, <2>3, <2>7, <3>1
    <3>3. cut
      BY <2>4, <2>5
    <3> HIDE DEF a, b, cut
    <3>4. a + b = IF cut THEN 0 ELSE 1
      BY <3>2, <3>3
    <3> QED
      BY <3>4 DEF a, b, cut
  <2>6. CASE row \notin C
    <3>1. (\E x \in DOMAIN d : d[x] = row) \/ \E y \in DOMAIN k : k[y] = row
      BY <1>1, <2>6
    <3>2. ~((\E x \in DOMAIN d : d[x] = row) /\ \E y \in DOMAIN k : k[y] = row)
      BY <1>1
    <3>3. (a = 0 /\ b = 1) \/ (a = 1 /\ b = 0)
      BY <2>2, <2>3, <2>7, <3>1, <3>2
    <3>4. ~cut
      BY <2>4, <2>6
    <3> HIDE DEF a, b, cut
    <3>5. a + b = IF cut THEN 0 ELSE 1
      BY <3>3, <3>4
    <3> QED
      BY <3>5 DEF a, b, cut
  <2> QED
    BY <2>5, <2>6
<1>4. ToSet(d) \subseteq K
  BY <1>1 DEF ToSet
<1>5. u \in Owners /\ u \notin Groups
  BY ChatHistoryAssumption DEF Owners
<1>6. /\ rows[u] \in Seq(RowsOf(u)) /\ Unique(rows[u]) /\ Held(u, said[u], rows[u])
      /\ \A i \in DOMAIN rows[u] : rows[u][i] \in RowsOf(u) /\ Seen(u, rows[u][i])
  <2>1. rows[u] \in Seq(RowsOf(u)) /\ Opened(u) = rows[u]
    BY <1>5 DEF TypeInv, Opened
  <2>2. Unique(rows[u]) /\ Held(u, said[u], rows[u])
    BY <1>5, <2>1 DEF TableInv
  <2>3. \A i \in DOMAIN rows[u] : rows[u][i] \in RowsOf(u) /\ Seen(u, rows[u][i])
    BY <1>5, <2>1, TableRows DEF Seen
  <2> QED
    BY <2>1, <2>2, <2>3
<1>7. ASSUME NEW s \in said[u], Distinct(s, u) PROVE \E row \in K : Same(Heard(row), s)
  <2>1. PICK i \in DOMAIN rows[u] : Alike(Heard(rows[u][i]), s)
    BY <1>6 DEF Held
  <2>2. Heard(rows[u][i]) \in said[u]
    BY <1>6 DEF Held
  <2>3. Same(Heard(rows[u][i]), s)
    BY <1>7, <2>1, <2>2, DistinctSame
  <2> QED
    BY <2>3 DEF ToSet
<1>8. ASSUME NEW i \in DOMAIN d, NEW j \in DOMAIN d, Stable(Heard(d[i])), Same(Heard(d[i]), Heard(d[j]))
      PROVE  i = j
  <2>1. d[i] \in K /\ d[j] \in K
    BY <1>1
  <2>2. PICK x \in DOMAIN rows[u] : d[i] = rows[u][x]
    BY <2>1 DEF ToSet
  <2>3. PICK y \in DOMAIN rows[u] : d[j] = rows[u][y]
    BY <2>1 DEF ToSet
  <2>4. rows[u][x].key = rows[u][y].key
    BY <1>5, <1>6, <1>8, <2>2, <2>3, StableKey
  <2>5. x = y
    BY <1>6, <2>4 DEF Unique
  <2> QED
    BY <1>1, <2>2, <2>3, <2>5
<1> QED
  BY <1>3, <1>4, <1>7, <1>8 DEF d

-----------------------------------------------------------------------------
(* The theorems.                                                             *)

HistoryInv == TypeInv /\ TableInv /\ MirrorInv

\* The inductive invariant: rows and recordings are of their kinds, an owner's
\* table shows what was said and nothing else, and each row of a user has its
\* line, one on its way, or was cut off from it.
THEOREM HistoryHolds == Spec => []HistoryInv
<1>1. Init => HistoryInv
  BY InitType, InitTable, InitMirror DEF HistoryInv
<1>2. HistoryInv /\ [Next]_vars => HistoryInv'
  BY StepType, StepTable, StepMirror DEF HistoryInv
<1> QED
  BY <1>1, <1>2, PTL DEF Spec

\* Redelivered messages, two hooks recording one message, a crash and a failed
\* write leave every row of a user with one line of the mirror, or one on its
\* way, but for the rows cut off; the table has all that was recorded but the
\* second of two things alike, and the mirror says a stable thing once.
THEOREM MirrorHolds == Spec => []DailyMirrors
<1>1. HistoryInv => DailyMirrors
  BY MirrorsDaily DEF HistoryInv
<1> QED
  BY <1>1, HistoryHolds, PTL

\* A group's view, whoever writes at the same time, whatever is delivered again
\* and whenever the process dies, is what was said but for the second of two
\* things alike: each stable thing once, in order of time, and a limit takes
\* from the oldest.
THEOREM GroupViewHolds == Spec => []GroupViewIsConversation
<1>1. HistoryInv => GroupViewIsConversation
  BY GroupView DEF HistoryInv
<1> QED
  BY <1>1, HistoryHolds, PTL

\* A search answers with hits, not with the question, and a hit of its window
\* it leaves out only for as many later ones as it may give.
THEOREM SearchHolds == Spec => []SearchFinds
<1>1. HistoryInv => SearchFinds
  BY SearchesFind DEF HistoryInv
<1> QED
  BY <1>1, HistoryHolds, PTL

-----------------------------------------------------------------------------
(* LocalRag: the index that is built from a group's view and from files.     *)

-----------------------------------------------------------------------------
(* Numbers and texts.                                                       *)

\* Every set of numbers has a least one: induction, for a claim that is a set.
LEMMA Smallest ==
  ASSUME NEW T, T \subseteq Nat, T # {}
  PROVE  \E m \in T : \A n \in T : m <= n
<1>1. PICK m \in T : \A n \in T : ~(n < m)
  BY Least
<1>2. ASSUME NEW n \in T PROVE m <= n
  <2>1. n \in Nat /\ m \in Nat /\ ~(n < m)
    BY <1>1
  <2> QED
    BY <2>1
<1> QED
  BY <1>2

LEMMA MinIs ==
  ASSUME NEW T, T \subseteq Nat, T # {}
  PROVE  Min(T) \in T /\ \A n \in T : Min(T) <= n
BY Smallest DEF Min

\* What the loop of split_text_into_chunks adds from start on.
FromHere(text, g, start) ==
  IF start > Len(text) THEN <<>>
  ELSE <<SubSeq(text, start, PieceEnd(text, start))>>
       \o (IF PieceEnd(text, start) = Len(text) THEN <<>>
           ELSE g[NextStart(start, PieceEnd(text, start))])
Solves(g, text) == g = [start \in 1 .. Len(text) + 1 |-> FromHere(text, g, start)]

\* The loop goes forward and leaves no gap.
LEMMA Forward ==
  ASSUME NEW text, Len(text) \in Nat, NEW s \in 1 .. Len(text)
  PROVE  LET e == PieceEnd(text, s) IN
         /\ e \in s .. Len(text)
         /\ e # Len(text) => NextStart(s, e) \in s + 1 .. e + 1
BY RagAssumption DEF PieceEnd, NextStart

LEMMA Solution ==
  ASSUME NEW text, Len(text) \in Nat
  PROVE  \E g : Solves(g, text)
<1> DEFINE L == Len(text)
           Good(g, n) == /\ DOMAIN g = 1 .. L + 1 /\ g = [x \in 1 .. L + 1 |-> g[x]]
                         /\ \A x \in n .. L + 1 : g[x] = FromHere(text, g, x)
           T == {n \in 0 .. L : ~ \E g : Good(g, L + 1 - n)}
<1>1. CASE T = {}
  <2>1. L \in 0 .. L /\ L + 1 - L = 1
    OBVIOUS
  <2>2. PICK g : Good(g, 1)
    BY <1>1, <2>1
  <2>3. Solves(g, text)
    BY <2>2 DEF Solves
  <2> QED
    BY <2>3
<1>2. CASE T # {}
  <2>1. PICK n \in T : \A i \in T : n <= i
    <3>1. T \subseteq Nat
      OBVIOUS
    <3> HIDE DEF T
    <3> QED
      BY <1>2, <3>1, Smallest
  <2>2. n \in 0 .. L
    OBVIOUS
  <2>3. n # 0
    <3> SUFFICES ASSUME n = 0 PROVE FALSE
      OBVIOUS
    <3> DEFINE g == [x \in 1 .. L + 1 |-> <<>>]
    <3>1. FromHere(text, g, L + 1) = <<>>
      BY DEF FromHere
    <3>2. Good(g, L + 1)
      BY <3>1
    <3>3. L + 1 - n = L + 1
      OBVIOUS
    <3> HIDE DEF g, Good
    <3> QED
      BY <3>2, <3>3
  <2> DEFINE s == L + 1 - n
  <2>4. s \in 1 .. L /\ n - 1 \in 0 .. L /\ ~(n - 1 \in T) /\ L + 1 - (n - 1) = s + 1
    BY <2>1, <2>2, <2>3
  <2>5. PICK g : Good(g, s + 1)
    BY <2>4
  <2> DEFINE h == [g EXCEPT ![s] = FromHere(text, g, s)]
  <2> HIDE DEF s, T
  <2>6. ASSUME NEW x \in s .. L + 1 PROVE FromHere(text, h, x) = FromHere(text, g, x)
    <3>1. CASE x > L
      BY <2>4, <3>1 DEF FromHere
    <3>2. CASE x \in 1 .. L
      <4> DEFINE e == PieceEnd(text, x)
      <4>1. e \in x .. L /\ (e = L \/ NextStart(x, e) \in x + 1 .. e + 1)
        BY <3>2, Forward
      <4>2. e = L \/ NextStart(x, e) \in s + 1 .. L + 1
        BY <4>1, <2>4, <3>2
      <4> HIDE DEF e
      <4>3. ASSUME NEW i \in s + 1 .. L + 1 PROVE h[i] = g[i]
        BY <2>4, <2>5
      <4>4. e = L \/ h[NextStart(x, e)] = g[NextStart(x, e)]
        BY <4>2, <4>3
      <4> QED
        BY <4>4 DEF FromHere, e
    <3> QED
      BY <2>4, <3>1, <3>2
  <2>7. Good(h, s)
    <3>1. DOMAIN h = 1 .. L + 1 /\ h = [x \in 1 .. L + 1 |-> h[x]]
      BY <2>5
    <3>2. ASSUME NEW x \in s .. L + 1 PROVE h[x] = FromHere(text, h, x)
      <4>1. h[x] = FromHere(text, g, x)
        BY <2>4, <2>5
      <4> QED
        BY <4>1, <2>6
    <3> QED
      BY <3>1, <3>2
  <2> QED
    BY <2>1, <2>7 DEF T, s
<1> QED
  BY <1>1, <1>2

LEMMA SplitIs ==
  ASSUME NEW text, Len(text) \in Nat
  PROVE  \E g : Solves(g, text) /\ Split(text) = g[1]
<1> DEFINE g == CHOOSE g : Solves(g, text)
<1>1. Solves(g, text)
  BY Solution
<1>2. Split(text) = g[1]
  BY DEF Split, Solves, FromHere
<1> QED
  BY <1>1, <1>2

\* The words of the pieces in a sequence of them.
WordsOf(pieces) == UNION {Words(pieces[i]) : i \in DOMAIN pieces}

LEMMA WordsOfMore ==
  ASSUME NEW W, NEW p \in Seq(W), NEW ps \in Seq(Seq(W))
  PROVE  /\ <<p>> \o ps \in Seq(Seq(W))
         /\ WordsOf(<<p>> \o ps) = Words(p) \cup WordsOf(ps)
<1> DEFINE q == <<p>> \o ps
<1>1. q \in Seq(Seq(W)) /\ Len(q) = Len(ps) + 1 /\ q[1] = p
      /\ \A i \in 1 .. Len(ps) : q[i + 1] = ps[i]
  OBVIOUS
<1>2. DOMAIN q = 1 .. Len(ps) + 1 /\ DOMAIN ps = 1 .. Len(ps) /\ Len(ps) \in Nat
  BY <1>1
<1> HIDE DEF q
<1>3. ASSUME NEW i \in DOMAIN q PROVE Words(q[i]) \subseteq Words(p) \cup WordsOf(ps)
  <2>1. CASE i = 1
    BY <1>1, <2>1
  <2>2. CASE i # 1
    <3>1. i - 1 \in DOMAIN ps /\ q[i] = ps[i - 1]
      BY <1>1, <1>2, <2>2
    <3> QED
      BY <3>1 DEF WordsOf
  <2> QED
    BY <2>1, <2>2
<1>4. Words(p) \subseteq WordsOf(q)
  BY <1>1, <1>2 DEF WordsOf
<1>5. ASSUME NEW i \in DOMAIN ps PROVE Words(ps[i]) \subseteq WordsOf(q)
  <2>1. i + 1 \in DOMAIN q /\ q[i + 1] = ps[i]
    BY <1>1, <1>2
  <2> QED
    BY <2>1 DEF WordsOf
<1>6. WordsOf(q) \subseteq Words(p) \cup WordsOf(ps)
  BY <1>3 DEF WordsOf
<1>7. WordsOf(ps) \subseteq WordsOf(q)
  BY <1>5 DEF WordsOf
<1>8. WordsOf(q) = Words(p) \cup WordsOf(ps)
  BY <1>4, <1>6, <1>7
<1> QED
  BY <1>1, <1>8 DEF q

\* The words of a text from place i to place j.
Between(text, i, j) == {text[k] : k \in i .. j}

LEMMA FromHereCovers ==
  ASSUME NEW W, NEW text \in Seq(W), NEW s \in 1 .. Len(text), NEW g,
         LET e == PieceEnd(text, s) n == NextStart(s, e)
         IN  e # Len(text) => g[n] \in Seq(Seq(W)) /\ WordsOf(g[n]) = Between(text, n, Len(text))
  PROVE  /\ FromHere(text, g, s) \in Seq(Seq(W))
         /\ WordsOf(FromHere(text, g, s)) = Between(text, s, Len(text))
<1> DEFINE e == PieceEnd(text, s)
           n == NextStart(s, e)
           p == SubSeq(text, s, e)
           ps == IF e = Len(text) THEN <<>> ELSE g[n]
<1>1. /\ Len(text) \in Nat /\ e \in s .. Len(text)
      /\ e # Len(text) => n \in s + 1 .. e + 1
  BY Forward
<1>2. FromHere(text, g, s) = <<p>> \o ps
  BY DEF FromHere
<1>3. p \in Seq(W) /\ Words(p) = Between(text, s, e)
  <2> HIDE DEF e
  <2>1. p \in Seq(W) /\ Len(p) = e - s + 1 /\ \A i \in 1 .. e - s + 1 : p[i] = text[s + i - 1]
    BY <1>1
  <2>2. DOMAIN p = 1 .. e - s + 1
    BY <2>1, <1>1
  <2>3. ASSUME NEW k \in s .. e PROVE text[k] \in Words(p)
    <3>1. k - s + 1 \in DOMAIN p /\ p[k - s + 1] = text[k]
      BY <1>1, <2>1, <2>2
    <3> QED
      BY <3>1 DEF Words, ToSet
  <2>4. ASSUME NEW i \in DOMAIN p PROVE p[i] \in Between(text, s, e)
    BY <1>1, <2>1, <2>2 DEF Between
  <2> QED
    BY <2>1, <2>3, <2>4 DEF Words, ToSet, Between
<1>4. ps \in Seq(Seq(W)) /\ WordsOf(ps) = IF e = Len(text) THEN {} ELSE Between(text, n, Len(text))
  BY DEF WordsOf
<1>5. <<p>> \o ps \in Seq(Seq(W)) /\ WordsOf(<<p>> \o ps) = Words(p) \cup WordsOf(ps)
  <2> HIDE DEF p, ps
  <2> QED
    BY <1>3, <1>4, WordsOfMore
<1>6. Between(text, s, Len(text)) = Words(p) \cup WordsOf(ps)
  <2> HIDE DEF e, n, p, ps
  <2> QED
    BY <1>1, <1>3, <1>4 DEF Between
<1> QED
  BY <1>2, <1>5, <1>6

\* The pieces of a text have its words, all of them and no others.
LEMMA SplitCovers ==
  ASSUME NEW W, NEW text \in Seq(W)
  PROVE  Split(text) \in Seq(Seq(W)) /\ WordsOf(Split(text)) = Words(text)
<1> DEFINE L == Len(text)
<1>0. L \in Nat
  OBVIOUS
<1>1. PICK g : Solves(g, text) /\ Split(text) = g[1]
  BY <1>0, SplitIs
<1>2. \A s \in 1 .. L + 1 : g[s] = FromHere(text, g, s)
  BY <1>1 DEF Solves
<1> DEFINE Good(s) == g[s] \in Seq(Seq(W)) /\ WordsOf(g[s]) = Between(text, s, L)
           T == {n \in 0 .. L : ~Good(L + 1 - n)}
<1>3. T = {}
  <2> SUFFICES ASSUME T # {} PROVE FALSE
    OBVIOUS
  <2>1. PICK n \in T : \A i \in T : n <= i
    <3>1. T \subseteq Nat
      OBVIOUS
    <3> HIDE DEF T
    <3> QED
      BY <3>1, Smallest
  <2> DEFINE s == L + 1 - n
  <2>2. n \in 0 .. L /\ ~Good(s)
    OBVIOUS
  <2>3. \A x \in s + 1 .. L + 1 : Good(x)
    <3> SUFFICES ASSUME NEW x \in s + 1 .. L + 1 PROVE Good(x)
      OBVIOUS
    <3> DEFINE m == L + 1 - x
    <3>1. s + 1 <= x /\ x <= L + 1 /\ x \in Nat
      BY <1>0, <2>2
    <3>2. m \in 0 .. L /\ m < n /\ L + 1 - m = x
      BY <1>0, <2>2, <3>1
    <3>3. ~(m \in T)
      BY <2>1, <2>2, <3>2
    <3> HIDE DEF m, Good
    <3>4. Good(L + 1 - m)
      BY <3>2, <3>3
    <3> QED
      BY <3>2, <3>4
  <2>4. s \in 1 .. L + 1
    BY <2>2
  <2> HIDE DEF s, T
  <2>5. CASE s = L + 1
    <3>1. g[s] = <<>>
      <4>1. s > Len(text)
        BY <1>0, <2>5
      <4> QED
        BY <1>2, <2>4, <4>1 DEF FromHere
    <3>2. Between(text, s, L) = {} /\ WordsOf(<<>>) = {}
      BY <2>5 DEF Between, WordsOf
    <3> QED
      BY <2>2, <3>1, <3>2
  <2>6. CASE s \in 1 .. L
    <3> DEFINE e == PieceEnd(text, s)
               n2 == NextStart(s, e)
    <3>1. e # L => n2 \in s + 1 .. L + 1
      BY <2>6, <1>0, Forward
    <3>2. e # L => Good(n2)
      BY <3>1, <2>3
    <3>3. Good(s)
      BY <3>2, <2>6, <1>2, <2>4, FromHereCovers
    <3> QED
      BY <3>3, <2>2
  <2> QED
    BY <2>4, <2>5, <2>6
<1>4. Good(1)
  <2>1. L \in 0 .. L /\ L + 1 - L = 1 /\ ~(L \in T)
    BY <1>0, <1>3
  <2> HIDE DEF Good
  <2> QED
    BY <2>1
<1>5. Between(text, 1, L) = Words(text)
  BY DEF Between, Words, ToSet
<1> QED
  BY <1>1, <1>4, <1>5
-----------------------------------------------------------------------------
(* The inductive invariant.                                                 *)

Fields == {"pc", "source", "query", "current", "quiet", "steady", "left", "active", "seen",
           "text", "loaded", "scanned", "found"}
FileParts == {"list", "select", "delete", "read", "upsert", "stale", "prune", "list_direct", "scan"}
ChatParts == {"load", "store", "direct"}

\* What a retrieval carries from part to part.
Carried(r) ==
  /\ DOMAIN r = Fields
  /\ r.pc \in FileParts \cup ChatParts \cup {"search", "idle", "hit", "miss"}
  /\ r.pc \in FileParts => r.source = "file"
  /\ r.pc \in ChatParts => r.source = "chat"
  /\ r.pc = "search" => r.source \in {"file", "chat"}
  /\ r.left \subseteq DOMAIN Files
  /\ r.pc \in {"delete", "read", "upsert"} => r.left # {}

\* The keys read before a transaction are of what the transaction deletes.
SeenOwn(r) ==
  /\ r.pc = "delete" => \A k \in r.seen : k[1] = "file" /\ k[2] = FileAt(r.left)
  /\ r.pc = "prune" => \A k \in r.seen : k[1] = "file" /\ k[2] \notin r.active

\* What stays from the start of a retrieval to its end is there.
SteadyThere(r) ==
  r.pc \notin {"idle", "hit", "miss"} =>
    r.steady \subseteq IF r.source = "file" THEN DOMAIN files ELSE Records

\* The scan has found what it looks for, or it is still to come.
ScanComplete(r) ==
  /\ r.pc = "list_direct" => r.scanned = 0
  /\ r.pc = "scan" =>
       /\ r.scanned \in Nat /\ \A i \in r.left : r.scanned < i
       /\ \A f \in r.steady : r.query \subseteq ScannedWords(f) => r.found \/ \E i \in r.left : Files[i] = f

\* The pieces of a file in the index are those of its text.
Indexed(f) ==
  /\ KeysOf(f) = ChunkKeys("file", f, files[f])
  /\ \A k \in KeysOf(f) : chunks[k] = Split(files[f])[k[3]]

\* How far a refresh of the files has come that nothing disturbed.
Healing(r) ==
  r.quiet /\ r.source = "file" =>
    /\ r.pc = "list" => r.active = {}
    /\ r.pc \in {"select", "delete", "read", "upsert"} =>
         /\ r.active \subseteq IndexableFiles
         /\ \A i \in Listing : i \in r.left \/ Files[i] \in r.active \/ ~Indexable(Files[i])
    /\ r.pc = "select" => \A f \in r.active : Indexed(f)
    /\ r.pc \in {"delete", "read", "upsert"} =>
         FileAt(r.left) \in r.active /\ \A f \in r.active \ {FileAt(r.left)} : Indexed(f)
    /\ r.pc \in {"read", "upsert"} => KeysOf(FileAt(r.left)) = {}
    /\ r.pc = "upsert" => r.text = files[FileAt(r.left)]
    /\ r.pc \in {"stale", "prune", "search"} => \A f \in IndexableFiles : Indexed(f)
    /\ r.pc \in {"stale", "prune"} => r.active = IndexableFiles
    /\ r.pc = "search" => KeysNotOf(IndexableFiles) = {}

QuietAlone == \A t \in Turns : Busy(t) /\ turn[t].quiet => \A u \in Turns \ {t} : ~Busy(u)

World == told \in Nat /\ DOMAIN files \subseteq ToSet(Files) /\ \A f \in DOMAIN files : files[f] \in Texts

Good(r) == Carried(r) /\ SeenOwn(r) /\ SteadyThere(r) /\ ScanComplete(r)

Retrieving == turn = [t \in Turns |-> turn[t]] /\ \A t \in Turns : Good(turn[t])
Refreshing == QuietAlone /\ \A t \in Turns : Healing(turn[t])

\* The terms that lead to a piece are those the code takes of its words.
FoundBy(k) == {t[1] : t \in {u \in terms : u[2] = k}}
TermsAre == \A k \in DOMAIN chunks : FoundBy(k) = FirstTerms(OwnWords(k, chunks[k]))

IInv == World /\ Retrieving /\ TermsAre /\ Refreshing

-----------------------------------------------------------------------------
(* Words and pieces of the index.                                           *)

LEMMA UpsertMatches ==
  ASSUME TermsAre, NEW new, UpsertChunks(new)
  PROVE  TermsAre'
<1> SUFFICES ASSUME NEW k \in DOMAIN chunks'
             PROVE  {p[1] : p \in {q \in terms' : q[2] = k}} = FirstTerms(OwnWords(k, chunks'[k]))
  BY DEF TermsAre, FoundBy
<1>1. CASE k \in DOMAIN new
  <2>1. chunks'[k] = new[k]
    BY <1>1 DEF UpsertChunks, Over
  <2>2. {q \in terms' : q[2] = k} = {<<w, k>> : w \in FirstTerms(OwnWords(k, new[k]))}
    BY <1>1 DEF UpsertChunks, TermsOf
  <2> DEFINE W == FirstTerms(OwnWords(k, new[k]))
  <2> HIDE DEF W
  <2>3. {p[1] : p \in {<<w, k>> : w \in W}} = W
    <3> DEFINE P == {<<w, k>> : w \in W}
    <3>1. ASSUME NEW w \in W PROVE <<w, k>> \in P /\ <<w, k>>[1] = w
      OBVIOUS
    <3>2. ASSUME NEW p \in P PROVE p[1] \in W
      OBVIOUS
    <3> HIDE DEF P
    <3>3. \A w \in W : \E p \in P : p[1] = w
      BY <3>1
    <3>4. {p[1] : p \in P} = W
      BY <3>2, <3>3
    <3> QED
      BY <3>4 DEF P
  <2> QED
    BY <2>1, <2>2, <2>3 DEF W
<1>2. CASE k \notin DOMAIN new
  <2>1. k \in DOMAIN chunks /\ chunks'[k] = chunks[k]
    BY <1>2 DEF UpsertChunks, Over
  <2>2. {q \in terms' : q[2] = k} = {q \in terms : q[2] = k}
    BY <1>2 DEF UpsertChunks, TermsOf
  <2> QED
    BY <2>1, <2>2 DEF TermsAre, FoundBy
<1> QED
  BY <1>1, <1>2

LEMMA DeleteMatches ==
  ASSUME TermsAre, NEW seen, NEW gone, DeleteChunks(seen, gone),
         \A k \in DOMAIN chunks \ gone : k \notin seen
  PROVE  TermsAre'
<1> SUFFICES ASSUME NEW k \in DOMAIN chunks'
             PROVE  {p[1] : p \in {q \in terms' : q[2] = k}} = FirstTerms(OwnWords(k, chunks'[k]))
  BY DEF TermsAre, FoundBy
<1>1. k \in DOMAIN chunks /\ k \notin seen /\ chunks'[k] = chunks[k]
  BY DEF DeleteChunks, Minus
<1>2. {q \in terms' : q[2] = k} = {q \in terms : q[2] = k}
  BY <1>1 DEF DeleteChunks
<1> QED
  BY <1>1, <1>2 DEF TermsAre, FoundBy

-----------------------------------------------------------------------------
(* The parts of a retrieval.                                                *)

LEMMA RestGood ==
  ASSUME NEW pc \in {"idle", "hit", "miss"}
  PROVE  Good(Rest(pc)) /\ Healing(Rest(pc)) /\ Rest(pc).pc = pc /\ ~Rest(pc).quiet
BY DEF Good, Rest, Part, Carried, SeenOwn, SteadyThere, ScanComplete, Healing, Fields, FileParts, ChatParts

LEMMA DirectGood ==
  ASSUME NEW r, Good(r), r.source \in {"file", "chat"}, r.pc \notin {"idle", "hit", "miss"}
  PROVE  Good(Direct(r)) /\ Healing(Direct(r)) /\ ~Direct(r).quiet
BY DEF Direct, At, Good, Part, Carried, SeenOwn, SteadyThere, ScanComplete, Healing, Fields, FileParts, ChatParts

LEMMA SearchGood ==
  ASSUME NEW r, Good(r), r.source \in {"file", "chat"}, r.pc \notin {"idle", "hit", "miss"}, NEW quiet
  PROVE  Good(At(r, "search", quiet))
BY DEF At, Good, Part, Carried, SeenOwn, SteadyThere, ScanComplete, Fields, FileParts, ChatParts

LEMMA BusySource ==
  ASSUME NEW r, Good(r), r.pc \notin {"idle", "hit", "miss"}
  PROVE  r.source \in {"file", "chat"}
BY DEF Good, Carried

\* The next place of a listing, and the places after it.
LEMMA NextPlace ==
  ASSUME NEW left, left \subseteq DOMAIN Files, left # {}
  PROVE  /\ Min(left) \in left /\ left \subseteq Nat
         /\ Beyond(left) \subseteq left
         /\ \A i \in Beyond(left) : Min(left) + 1 <= i
<1>1. DOMAIN Files \subseteq Nat
  BY RagAssumption
<1>2. Min(left) \in left /\ \A n \in left : Min(left) <= n
  <2>1. left \subseteq Nat
    BY <1>1
  <2> QED
    BY <2>1, MinIs
<1> QED
  BY <1>1, <1>2 DEF Beyond
\* A step of a retrieval leaves it in order, and as quiet as it was.
LEMMA StepGood ==
  ASSUME World, Retrieving, NEW t \in Turns, Step(t)
  PROVE  \E r : Move(t, r) /\ UNCHANGED world /\ Busy(t) /\ Good(r) /\ (r.quiet => turn[t].quiet)
<1> DEFINE o == turn[t]
<1>1. Good(o)
  BY DEF Retrieving
<1>2. CASE Broken(t)
  <2>1. Move(t, Direct(o)) /\ UNCHANGED world /\ Busy(t) /\ o.pc \notin {"idle", "hit", "miss"}
    BY <1>2 DEF Broken, Busy
  <2>2. Good(Direct(o)) /\ ~Direct(o).quiet
    BY <1>1, <2>1, BusySource, DirectGood
  <2> QED
    BY <2>1, <2>2
<1>3. CASE ListFiles(t)
  <2> DEFINE r == [o EXCEPT !.pc = "select", !.left = Listing]
  <2>1. Move(t, r) /\ UNCHANGED world /\ Busy(t) /\ o.pc = "list"
    BY <1>3 DEF ListFiles, Busy, world
  <2>2. Good(r) /\ (r.quiet => o.quiet)
    BY <1>1, <2>1 DEF Good, Carried, Fields, FileParts, ChatParts, SeenOwn, SteadyThere, ScanComplete, Listing
  <2> QED
    BY <2>1, <2>2
<1>4. CASE SelectFile(t)
  <2>1. o.pc = "select" /\ UNCHANGED world /\ Busy(t)
    BY <1>4 DEF SelectFile, Busy
  <2>2. CASE o.left = {}
    <3> DEFINE r == [o EXCEPT !.pc = "stale"]
    <3>1. Move(t, r)
      BY <1>4, <2>2 DEF SelectFile
    <3>2. Good(r) /\ (r.quiet => o.quiet)
      BY <1>1, <2>1 DEF Good, Carried, Fields, FileParts, ChatParts, SeenOwn, SteadyThere, ScanComplete
    <3> QED
      BY <2>1, <3>1, <3>2
  <2>3. CASE o.left # {} /\ Cardinality(o.active) >= MaxFiles
    <3> DEFINE r == At(o, "search", FALSE)
    <3>1. Move(t, r)
      BY <1>4, <2>3 DEF SelectFile
    <3>2. Good(r) /\ ~r.quiet
      <4>1. Good(r)
        BY <1>1, <2>1, BusySource, SearchGood
      <4> QED
        BY <4>1 DEF At, Part
    <3> QED
      BY <2>1, <3>1, <3>2
  <2>4. CASE o.left # {} /\ ~(Cardinality(o.active) >= MaxFiles) /\ ~Indexable(FileAt(o.left))
    <3> DEFINE r == [o EXCEPT !.left = Beyond(@)]
    <3>1. Move(t, r)
      BY <1>4, <2>4 DEF SelectFile
    <3>2. Beyond(o.left) \subseteq o.left
      BY DEF Beyond
    <3>3. Good(r) /\ (r.quiet => o.quiet)
      BY <1>1, <2>1, <3>2 DEF Good, Carried, Fields, FileParts, ChatParts, SeenOwn, SteadyThere, ScanComplete
    <3> QED
      BY <2>1, <3>1, <3>3
  <2>5. CASE o.left # {} /\ ~(Cardinality(o.active) >= MaxFiles) /\ Indexable(FileAt(o.left))
    <3> DEFINE f == FileAt(o.left)
               r == [o EXCEPT !.pc = "delete", !.active = @ \cup {f}, !.seen = KeysOf(f)]
    <3>1. Move(t, r)
      BY <1>4, <2>5 DEF SelectFile
    <3>2. \A k \in KeysOf(f) : k[1] = "file" /\ k[2] = f
      BY DEF KeysOf
    <3>3. Good(r) /\ (r.quiet => o.quiet)
      <4> HIDE DEF f
      <4>1. r.left = o.left /\ f = FileAt(o.left)
        BY DEF f
      <4> QED
        BY <1>1, <2>1, <2>5, <3>2, <4>1
        DEF Good, Carried, Fields, FileParts, ChatParts, SeenOwn, SteadyThere, ScanComplete
    <3> QED
      BY <2>1, <3>1, <3>3
  <2> QED
    BY <2>2, <2>3, <2>4, <2>5
<1>5. CASE DeleteFile(t)
  <2> DEFINE r == [o EXCEPT !.pc = "read", !.seen = {}]
  <2>1. Move(t, r) /\ UNCHANGED world /\ Busy(t) /\ o.pc = "delete"
    BY <1>5 DEF DeleteFile, Busy
  <2>2. Good(r) /\ (r.quiet => o.quiet)
    BY <1>1, <2>1 DEF Good, Carried, Fields, FileParts, ChatParts, SeenOwn, SteadyThere, ScanComplete
  <2> QED
    BY <2>1, <2>2
<1>6. CASE ReadFile(t)
  <2>1. o.pc = "read" /\ UNCHANGED world /\ Busy(t) /\ o.pc \notin {"idle", "hit", "miss"}
    BY <1>6 DEF ReadFile, Busy
  <2>2. CASE FileAt(o.left) \in DOMAIN files
    <3> DEFINE r == [o EXCEPT !.pc = "upsert", !.text = files[FileAt(o.left)]]
    <3>1. Move(t, r)
      BY <1>6, <2>2 DEF ReadFile
    <3>2. Good(r) /\ (r.quiet => o.quiet)
      BY <1>1, <2>1 DEF Good, Carried, Fields, FileParts, ChatParts, SeenOwn, SteadyThere, ScanComplete
    <3> QED
      BY <2>1, <3>1, <3>2
  <2>3. CASE FileAt(o.left) \notin DOMAIN files
    <3>1. Move(t, Direct(o))
      BY <1>6, <2>3 DEF ReadFile
    <3>2. Good(Direct(o)) /\ ~Direct(o).quiet
      BY <1>1, <2>1, BusySource, DirectGood
    <3> QED
      BY <2>1, <3>1, <3>2
  <2> QED
    BY <2>2, <2>3
<1>7. CASE UpsertFile(t)
  <2> DEFINE r == [o EXCEPT !.pc = "select", !.left = Beyond(@), !.text = <<>>]
  <2>1. Move(t, r) /\ UNCHANGED world /\ Busy(t) /\ o.pc = "upsert"
    BY <1>7 DEF UpsertFile, Busy
  <2>2. Beyond(o.left) \subseteq o.left
    BY DEF Beyond
  <2>3. Good(r) /\ (r.quiet => o.quiet)
    BY <1>1, <2>1, <2>2 DEF Good, Carried, Fields, FileParts, ChatParts, SeenOwn, SteadyThere, ScanComplete
  <2> QED
    BY <2>1, <2>3
<1>8. CASE SelectStale(t)
  <2> DEFINE r == [o EXCEPT !.pc = "prune", !.seen = KeysNotOf(o.active)]
  <2>1. Move(t, r) /\ UNCHANGED world /\ Busy(t) /\ o.pc = "stale"
    BY <1>8 DEF SelectStale, Busy
  <2>2. \A k \in KeysNotOf(o.active) : k[1] = "file" /\ k[2] \notin o.active
    BY DEF KeysNotOf
  <2>3. Good(r) /\ (r.quiet => o.quiet)
    BY <1>1, <2>1, <2>2 DEF Good, Carried, Fields, FileParts, ChatParts, SeenOwn, SteadyThere, ScanComplete
  <2> QED
    BY <2>1, <2>3
<1>9. CASE Prune(t) \/ StoreChat(t)
  <2> DEFINE r == At(o, "search", o.quiet)
  <2>1. Move(t, r) /\ UNCHANGED world /\ Busy(t) /\ o.pc \in {"prune", "store"}
    BY <1>9 DEF Prune, StoreChat, Busy
  <2>2. Good(r)
    BY <1>1, <2>1, BusySource, SearchGood
  <2>3. r.quiet => o.quiet
    BY DEF At, Part
  <2> QED
    BY <2>1, <2>2, <2>3
<1>10. CASE LoadChat(t)
  <2> DEFINE r == [o EXCEPT !.pc = "store", !.loaded = {i \in Newest(RefreshLimit) : Talk[i].shown}]
  <2>1. Move(t, r) /\ UNCHANGED world /\ Busy(t) /\ o.pc = "load"
    BY <1>10 DEF LoadChat, Busy
  <2>2. Good(r) /\ (r.quiet => o.quiet)
    BY <1>1, <2>1 DEF Good, Carried, Fields, FileParts, ChatParts, SeenOwn, SteadyThere, ScanComplete
  <2> QED
    BY <2>1, <2>2
<1>11. CASE Search(t)
  <2>1. UNCHANGED world /\ Busy(t) /\ o.pc \notin {"idle", "hit", "miss"}
        /\ (Move(t, Rest("hit")) \/ Move(t, Direct(o)))
    BY <1>11 DEF Search, Busy
  <2>2. Good(Direct(o)) /\ ~Direct(o).quiet
    BY <1>1, <2>1, BusySource, DirectGood
  <2>3. Good(Rest("hit")) /\ ~Rest("hit").quiet
    BY RestGood
  <2> QED
    BY <2>1, <2>2, <2>3
<1>12. CASE ListDirect(t)
  <2> DEFINE r == [o EXCEPT !.pc = "scan", !.left = Listing]
  <2>1. Move(t, r) /\ UNCHANGED world /\ Busy(t) /\ o.pc = "list_direct"
    BY <1>12 DEF ListDirect, Busy
  <2>2. DOMAIN o = Fields /\ o.source = "file" /\ o.scanned = 0 /\ o.steady \subseteq DOMAIN files
    BY <1>1, <2>1 DEF Good, Carried, SteadyThere, ScanComplete, FileParts
  <2>3. \A i \in Listing : i \in DOMAIN Files /\ i \in Nat /\ 0 < i
    BY RagAssumption DEF Listing
  <2>4. \A f \in o.steady : \E i \in Listing : Files[i] = f
    BY <2>2, RagAssumption DEF World, Listing, ToSet
  <2>5. Good(r) /\ (r.quiet => o.quiet)
    BY <1>1, <2>1, <2>2, <2>3, <2>4
    DEF Good, Carried, Fields, FileParts, ChatParts, SeenOwn, SteadyThere, ScanComplete
  <2> QED
    BY <2>1, <2>5
<1>13. CASE Scan(t)
  <2>1. UNCHANGED world /\ Busy(t) /\ o.pc = "scan"
    BY <1>13 DEF Scan, Busy
  <2>2. CASE o.left = {} \/ o.scanned >= MaxScan
    <3>1. Move(t, Rest("hit")) \/ Move(t, Rest("miss"))
      BY <1>13, <2>2 DEF Scan
    <3> QED
      BY <2>1, <3>1, RestGood
  <2>3. CASE ~(o.left = {} \/ o.scanned >= MaxScan)
    <3> DEFINE match == o.query \subseteq ScannedWords(FileAt(o.left))
               r == [o EXCEPT !.left = Beyond(@), !.scanned = @ + 1, !.found = @ \/ match]
    <3>1. Move(t, r)
      BY <1>13, <2>3 DEF Scan
    <3>2. /\ DOMAIN o = Fields /\ o.source = "file" /\ o.left \subseteq DOMAIN Files
          /\ o.scanned \in Nat /\ \A i \in o.left : o.scanned < i
          /\ \A f \in o.steady : o.query \subseteq ScannedWords(f) => o.found \/ \E i \in o.left : Files[i] = f
          /\ o.steady \subseteq DOMAIN files
      BY <1>1, <2>1 DEF Good, Carried, SteadyThere, ScanComplete, FileParts
    <3>3. /\ Min(o.left) \in o.left /\ o.left \subseteq Nat /\ Beyond(o.left) \subseteq o.left
          /\ \A i \in Beyond(o.left) : Min(o.left) + 1 <= i
      BY <2>3, <3>2, NextPlace
    <3>4. o.scanned + 1 \in Nat /\ \A i \in Beyond(o.left) : o.scanned + 1 < i
      BY <3>2, <3>3
    <3>5. ASSUME NEW f \in o.steady, o.query \subseteq ScannedWords(f), ~o.found, ~match
          PROVE  \E i \in Beyond(o.left) : Files[i] = f
      <4>1. PICK i \in o.left : Files[i] = f
        BY <3>2, <3>5
      <4>2. i # Min(o.left)
        BY <3>2, <3>5, <4>1 DEF FileAt
      <4> QED
        BY <4>1, <4>2 DEF Beyond
    <3>6. /\ DOMAIN r = Fields /\ r.pc = "scan" /\ r.source = "file" /\ r.left = Beyond(o.left)
          /\ r.scanned = o.scanned + 1 /\ r.found = (o.found \/ match) /\ r.steady = o.steady
          /\ r.query = o.query /\ r.quiet = o.quiet
      BY <2>1, <3>2 DEF Fields
    <3> HIDE DEF r, match
    <3>7. ScanComplete(r)
      BY <3>4, <3>5, <3>6 DEF ScanComplete
    <3>8. Carried(r) /\ SeenOwn(r) /\ SteadyThere(r)
      BY <3>2, <3>3, <3>6 DEF Carried, FileParts, ChatParts, SeenOwn, SteadyThere
    <3> QED
      BY <2>1, <3>1, <3>6, <3>7, <3>8 DEF Good
  <2> QED
    BY <2>2, <2>3
<1>14. CASE SearchChatDirect(t)
  <2>1. UNCHANGED world /\ Busy(t) /\ (Move(t, Rest("hit")) \/ Move(t, Rest("miss")))
    BY <1>14 DEF SearchChatDirect, Busy
  <2> QED
    BY <2>1, RestGood
<1> QED
  BY <1>2, <1>3, <1>4, <1>5, <1>6, <1>7, <1>8, <1>9, <1>10, <1>11, <1>12, <1>13, <1>14 DEF Step
-----------------------------------------------------------------------------
(* What a transaction does to the pieces of the files.                      *)

LEMMA KeysAre ==
  ASSUME NEW type, NEW source, NEW text, NEW k \in ChunkKeys(type, source, text)
  PROVE  k[1] = type /\ k[2] = source /\ k[3] \in DOMAIN Split(text)
BY DEF ChunkKeys

LEMMA UpsertIndexed ==
  ASSUME NEW f, NEW text, UpsertChunks(ChunksOf("file", f, text))
  PROVE  /\ KeysOf(f) = {} /\ files'[f] = text => Indexed(f)'
         /\ \A g : g # f /\ files'[g] = files[g] /\ Indexed(g) => Indexed(g)'
<1> DEFINE K == ChunkKeys("file", f, text)
           new == ChunksOf("file", f, text)
<1>1. DOMAIN new = K /\ \A k \in K : new[k] = Split(text)[k[3]]
  BY DEF ChunksOf
<1>2. DOMAIN chunks' = DOMAIN chunks \cup K
      /\ \A k \in DOMAIN chunks' : chunks'[k] = IF k \in K THEN new[k] ELSE chunks[k]
  BY <1>1 DEF UpsertChunks, Over
<1>3. \A k \in K : k[1] = "file" /\ k[2] = f
  BY KeysAre
<1>4. KeysOf(f)' = KeysOf(f) \cup K
  <2> HIDE DEF K
  <2> QED
    BY <1>2, <1>3 DEF KeysOf
<1>5. ASSUME KeysOf(f) = {}, files'[f] = text PROVE Indexed(f)'
  <2>1. KeysOf(f)' = K /\ K \subseteq DOMAIN chunks'
    BY <1>2, <1>4, <1>5
  <2>2. \A k \in K : chunks'[k] = Split(text)[k[3]]
    BY <1>1, <1>2, <2>1
  <2>3. ChunkKeys("file", f, files[f])' = K
    BY <1>5
  <2> HIDE DEF K
  <2> QED
    BY <1>5, <2>1, <2>2, <2>3 DEF Indexed
<1>6. ASSUME NEW g, g # f, files'[g] = files[g], Indexed(g) PROVE Indexed(g)'
  <2> HIDE DEF K, new
  <2>1. KeysOf(g)' = KeysOf(g)
    BY <1>2, <1>3, <1>6 DEF KeysOf
  <2>2. \A k \in KeysOf(g) : chunks'[k] = chunks[k]
    BY <1>2, <1>3, <1>6 DEF KeysOf
  <2> QED
    BY <1>6, <2>1, <2>2 DEF Indexed
<1> QED
  BY <1>5, <1>6

LEMMA DeleteIndexed ==
  ASSUME NEW seen, NEW gone, DeleteChunks(seen, gone), NEW g, KeysOf(g) \cap gone = {}, files'[g] = files[g], Indexed(g)
  PROVE  Indexed(g)'
<1>1. DOMAIN chunks' = DOMAIN chunks \ gone /\ \A k \in DOMAIN chunks' : chunks'[k] = chunks[k]
  BY DEF DeleteChunks, Minus
<1>2. KeysOf(g)' = KeysOf(g)
  BY <1>1 DEF KeysOf
<1>3. \A k \in KeysOf(g) : chunks'[k] = chunks[k]
  BY <1>1, <1>2 DEF KeysOf
<1> QED
  BY <1>2, <1>3 DEF Indexed

LEMMA SameHealing ==
  ASSUME NEW r, UNCHANGED <<files, chunks>>, Healing(r)
  PROVE  Healing(r)'
<1>1. \A f : Indexed(f)' = Indexed(f) /\ KeysOf(f)' = KeysOf(f)
  BY DEF Indexed, KeysOf
<1>2. Listing' = Listing /\ KeysNotOf(IndexableFiles)' = KeysNotOf(IndexableFiles)
      /\ IndexableFiles' = IndexableFiles /\ \A f : Indexable(f)' = Indexable(f)
  BY DEF Listing, KeysNotOf, Indexable, IndexableFiles
<1> QED
  BY <1>1, <1>2 DEF Healing

\* A step of an undisturbed refresh takes it on.
LEMMA StepHeals ==
  ASSUME World, Retrieving, Refreshing, NEW t \in Turns, Step(t), NEW r, Move(t, r)
  PROVE  Healing(r)'
<1> DEFINE o == turn[t]
<1>0. r = turn'[t] /\ Good(o) /\ Healing(o) /\ DOMAIN o = Fields
  BY DEF Move, Retrieving, Refreshing, Good, Carried
<1>1. CASE Broken(t)
  <2>1. r = Direct(o) /\ o.pc \notin {"idle", "hit", "miss"} /\ UNCHANGED <<files, chunks>>
    BY <1>0, <1>1 DEF Broken, Move, Retrieving, world, index
  <2>2. Healing(r)
    BY <1>0, <2>1, BusySource, DirectGood
  <2> QED
    BY <2>1, <2>2, SameHealing
<1>2. CASE ListFiles(t)
  <2>1. r = [o EXCEPT !.pc = "select", !.left = Listing] /\ o.pc = "list" /\ UNCHANGED <<files, chunks>>
    BY <1>0, <1>2 DEF ListFiles, Move, Retrieving, world
  <2>2. Healing(r)
    BY <1>0, <2>1 DEF Healing, Fields
  <2> QED
    BY <2>1, <2>2, SameHealing
<1>3. CASE SelectFile(t)
  <2>1. o.pc = "select" /\ UNCHANGED <<files, chunks>>
    BY <1>3 DEF SelectFile, world, index
  <2>2. CASE o.left = {}
    <3>1. r = [o EXCEPT !.pc = "stale"]
      BY <1>0, <1>3, <2>2 DEF SelectFile, Move, Retrieving
    <3>2. ASSUME o.quiet, o.source = "file" PROVE o.active = IndexableFiles
      <4>1. o.active \subseteq IndexableFiles /\ \A i \in Listing : Files[i] \in o.active \/ ~Indexable(Files[i])
        BY <1>0, <2>1, <2>2, <3>2 DEF Healing
      <4>2. \A f \in DOMAIN files : \E i \in Listing : Files[i] = f
        BY RagAssumption DEF World, Listing, ToSet
      <4>3. \A f \in IndexableFiles : f \in DOMAIN files /\ Indexable(f)
        BY DEF IndexableFiles
      <4>4. IndexableFiles \subseteq o.active
        BY <4>1, <4>2, <4>3
      <4> QED
        BY <4>1, <4>4
    <3>3. Healing(r)
      BY <1>0, <2>1, <3>1, <3>2 DEF Healing, Fields
    <3> QED
      BY <2>1, <3>3, SameHealing
  <2>3. CASE o.left # {} /\ Cardinality(o.active) >= MaxFiles
    <3>1. r = At(o, "search", FALSE)
      BY <1>0, <1>3, <2>3 DEF SelectFile, Move, Retrieving
    <3>2. Healing(r)
      BY <3>1 DEF Healing, At, Part
    <3> QED
      BY <2>1, <3>2, SameHealing
  <2>4. CASE o.left # {} /\ ~(Cardinality(o.active) >= MaxFiles) /\ ~Indexable(FileAt(o.left))
    <3>1. r = [o EXCEPT !.left = Beyond(@)]
      BY <1>0, <1>3, <2>4 DEF SelectFile, Move, Retrieving
    <3>2. \A i \in Listing : i \in o.left => i \in Beyond(o.left) \/ ~Indexable(Files[i])
      BY <2>4 DEF Beyond, FileAt
    <3>3. Healing(r)
      BY <1>0, <2>1, <3>1, <3>2 DEF Healing, Fields
    <3> QED
      BY <2>1, <3>3, SameHealing
  <2>5. CASE o.left # {} /\ ~(Cardinality(o.active) >= MaxFiles) /\ Indexable(FileAt(o.left))
    <3>1. r = [o EXCEPT !.pc = "delete", !.active = @ \cup {FileAt(o.left)}, !.seen = KeysOf(FileAt(o.left))]
      BY <1>0, <1>3, <2>5 DEF SelectFile, Move, Retrieving
    <3>2. r.left = o.left /\ r.active = o.active \cup {FileAt(o.left)} /\ r.quiet = o.quiet
          /\ r.source = o.source /\ r.pc = "delete"
      BY <1>0, <3>1 DEF Fields
    <3>3. FileAt(o.left) \in IndexableFiles
      BY <2>5 DEF Indexable, IndexableFiles
    <3>4. Healing(r)
      BY <1>0, <2>1, <3>2, <3>3 DEF Healing
    <3> QED
      BY <2>1, <3>4, SameHealing
  <2> QED
    BY <2>2, <2>3, <2>4, <2>5
<1>4. CASE DeleteFile(t)
  <2>1. r = [o EXCEPT !.pc = "read", !.seen = {}] /\ o.pc = "delete" /\ files' = files
    BY <1>0, <1>4 DEF DeleteFile, Move, Retrieving, world
  <2>2. r.left = o.left /\ r.active = o.active /\ r.quiet = o.quiet /\ r.source = o.source /\ r.pc = "read"
    BY <1>0, <2>1 DEF Fields
  <2>3. PICK f : f = FileAt(o.left)
    OBVIOUS
  <2>4. DeleteChunks(o.seen, KeysOf(f))
    BY <1>4, <2>3 DEF DeleteFile
  <2>5. KeysOf(f)' = {}
    BY <2>4 DEF DeleteChunks, Minus, KeysOf
  <2>6. \A g : g # f /\ Indexed(g) => Indexed(g)'
    <3>1. \A g : g # f => KeysOf(g) \cap KeysOf(f) = {}
      BY DEF KeysOf
    <3> QED
      BY <2>1, <2>4, <3>1, DeleteIndexed
  <2>7. Listing' = Listing /\ FileAt(r.left) = f /\ IndexableFiles' = IndexableFiles
        /\ \A g : Indexable(g)' = Indexable(g)
    BY <2>1, <2>2, <2>3 DEF Listing, Indexable, IndexableFiles
  <2>8. o.quiet /\ o.source = "file" =>
          /\ o.active \subseteq IndexableFiles
          /\ \A i \in Listing : i \in o.left \/ Files[i] \in o.active \/ ~Indexable(Files[i])
          /\ f \in o.active /\ \A g \in o.active \ {f} : Indexed(g)
    BY <1>0, <2>1, <2>3 DEF Healing
  <2> QED
    BY <2>1, <2>2, <2>5, <2>6, <2>7, <2>8 DEF Healing
<1>5. CASE ReadFile(t)
  <2>1. o.pc = "read" /\ o.pc \notin {"idle", "hit", "miss"} /\ UNCHANGED <<files, chunks>>
    BY <1>5 DEF ReadFile, world, index
  <2>2. CASE FileAt(o.left) \in DOMAIN files
    <3>1. r = [o EXCEPT !.pc = "upsert", !.text = files[FileAt(o.left)]]
      BY <1>0, <1>5, <2>2 DEF ReadFile, Move, Retrieving
    <3>2. r.left = o.left /\ r.active = o.active /\ r.quiet = o.quiet
          /\ r.source = o.source /\ r.pc = "upsert" /\ r.text = files[FileAt(o.left)]
      BY <1>0, <3>1 DEF Fields
    <3>3. Healing(r)
      BY <1>0, <2>1, <3>2 DEF Healing
    <3> QED
      BY <2>1, <3>3, SameHealing
  <2>3. CASE FileAt(o.left) \notin DOMAIN files
    <3>1. r = Direct(o)
      BY <1>0, <1>5, <2>3 DEF ReadFile, Move, Retrieving
    <3>2. Healing(r)
      BY <1>0, <2>1, <3>1, BusySource, DirectGood
    <3> QED
      BY <2>1, <3>2, SameHealing
  <2> QED
    BY <2>2, <2>3
<1>6. CASE UpsertFile(t)
  <2>1. r = [o EXCEPT !.pc = "select", !.left = Beyond(@), !.text = <<>>] /\ o.pc = "upsert" /\ files' = files
    BY <1>0, <1>6 DEF UpsertFile, Move, Retrieving, world
  <2>2. r.left = Beyond(o.left) /\ r.active = o.active /\ r.quiet = o.quiet
        /\ r.source = o.source /\ r.pc = "select"
    BY <1>0, <2>1 DEF Fields
  <2> SUFFICES ASSUME o.quiet, o.source = "file"
               PROVE  /\ o.active \subseteq IndexableFiles
                      /\ \A i \in Listing : i \in Beyond(o.left) \/ Files[i] \in o.active \/ ~Indexable(Files[i])
                      /\ \A g \in o.active : Indexed(g)'
    BY <2>1, <2>2 DEF Healing, Listing, Indexable, IndexableFiles
  <2>3. PICK f : f = FileAt(o.left)
    OBVIOUS
  <2>4. /\ o.active \subseteq IndexableFiles
        /\ \A i \in Listing : i \in o.left \/ Files[i] \in o.active \/ ~Indexable(Files[i])
        /\ f \in o.active /\ \A g \in o.active \ {f} : Indexed(g)
        /\ KeysOf(f) = {} /\ o.text = files[f]
    BY <1>0, <2>1, <2>3 DEF Healing
  <2>5. UpsertChunks(ChunksOf("file", f, o.text))
    BY <1>6, <2>3 DEF UpsertFile
  <2>6. \A g \in o.active : Indexed(g)'
    BY <2>1, <2>4, <2>5, UpsertIndexed
  <2>7. \A i \in o.left : i \in Beyond(o.left) \/ Files[i] = f
    BY <2>3 DEF Beyond, FileAt
  <2> QED
    BY <2>4, <2>6, <2>7
<1>7. CASE SelectStale(t)
  <2>1. r = [o EXCEPT !.pc = "prune", !.seen = KeysNotOf(o.active)] /\ o.pc = "stale" /\ UNCHANGED <<files, chunks>>
    BY <1>0, <1>7 DEF SelectStale, Move, Retrieving, world, index
  <2>2. Healing(r)
    BY <1>0, <2>1 DEF Healing, Fields
  <2> QED
    BY <2>1, <2>2, SameHealing
<1>8. CASE Prune(t)
  <2>1. r = At(o, "search", o.quiet) /\ o.pc = "prune" /\ files' = files
    BY <1>0, <1>8 DEF Prune, Move, Retrieving, world
  <2>2. r.pc = "search" /\ r.source = o.source /\ r.quiet = o.quiet
    BY <2>1 DEF At, Part
  <2> SUFFICES ASSUME o.quiet, o.source = "file"
               PROVE  KeysNotOf(IndexableFiles)' = {} /\ \A f \in IndexableFiles : Indexed(f)'
    BY <2>1, <2>2 DEF Healing, Indexable, IndexableFiles
  <2>3. PICK gone : gone = KeysNotOf(IndexableFiles)
    OBVIOUS
  <2>4. o.active = IndexableFiles /\ \A f \in IndexableFiles : Indexed(f)
    BY <1>0, <2>1 DEF Healing
  <2>5. DeleteChunks(o.seen, gone)
    BY <1>8, <2>3, <2>4 DEF Prune
  <2>6. KeysNotOf(IndexableFiles)' = {}
    BY <2>1, <2>3, <2>5 DEF DeleteChunks, Minus, KeysNotOf, Indexable, IndexableFiles
  <2>7. \A f \in IndexableFiles : KeysOf(f) \cap gone = {}
    BY <2>3 DEF KeysOf, KeysNotOf
  <2> QED
    BY <2>1, <2>4, <2>5, <2>6, <2>7, DeleteIndexed
<1>9. CASE LoadChat(t) \/ StoreChat(t)
  <2>1. o.source = "chat"
    BY <1>0, <1>9 DEF LoadChat, StoreChat, Good, Carried, ChatParts
  <2>2. r = [o EXCEPT !.pc = "store", !.loaded = {i \in Newest(RefreshLimit) : Talk[i].shown}] \/ r = At(o, "search", o.quiet)
    BY <1>0, <1>9 DEF LoadChat, StoreChat, Move, Retrieving
  <2>3. r.source = "chat"
    <3>1. CASE r = [o EXCEPT !.pc = "store", !.loaded = {i \in Newest(RefreshLimit) : Talk[i].shown}]
      BY <1>0, <2>1, <3>1 DEF Fields
    <3>2. CASE r = At(o, "search", o.quiet)
      BY <2>1, <3>2 DEF At, Part
    <3> QED
      BY <2>2, <3>1, <3>2
  <2> QED
    BY <2>3 DEF Healing
<1>10. CASE Search(t)
  <2>1. (r = Rest("hit") \/ r = Direct(o)) /\ o.pc = "search" /\ UNCHANGED <<files, chunks>>
    BY <1>0, <1>10 DEF Search, Move, Retrieving, world
  <2>2. Healing(Direct(o)) /\ Healing(Rest("hit"))
    BY <1>0, <2>1, BusySource, DirectGood, RestGood
  <2> QED
    BY <2>1, <2>2, SameHealing
<1>11. CASE ListDirect(t)
  <2>1. r = [o EXCEPT !.pc = "scan", !.left = Listing]
    BY <1>0, <1>11 DEF ListDirect, Move, Retrieving
  <2>2. r.pc = "scan"
    BY <1>0, <2>1 DEF Fields
  <2> QED
    BY <2>2 DEF Healing
<1>12. CASE Scan(t)
  <2>1. UNCHANGED <<files, chunks>> /\ o.pc = "scan"
    BY <1>12 DEF Scan, world, index
  <2> DEFINE over == o.left = {} \/ o.scanned >= MaxScan
  <2>2. CASE over
    <3>1. r = Rest("hit") \/ r = Rest("miss")
      BY <1>0, <1>12, <2>2 DEF Scan, Move, Retrieving
    <3>2. Healing(Rest("hit")) /\ Healing(Rest("miss"))
      BY RestGood
    <3> QED
      BY <2>1, <3>1, <3>2, SameHealing
  <2>3. CASE ~over
    <3> DEFINE match == o.query \subseteq ScannedWords(FileAt(o.left))
               n == [o EXCEPT !.left = Beyond(@), !.scanned = @ + 1, !.found = @ \/ match]
    <3>1. Move(t, n)
      BY <1>12, <2>3 DEF Scan
    <3>2. n.pc = "scan"
      BY <1>0, <2>1 DEF Fields
    <3> HIDE DEF n
    <3>3. r.pc = "scan"
      BY <1>0, <3>1, <3>2 DEF Move, Retrieving
    <3> QED
      BY <3>3 DEF Healing
  <2> HIDE DEF over
  <2> QED
    BY <2>2, <2>3
<1>13. CASE SearchChatDirect(t)
  <2>1. (r = Rest("hit") \/ r = Rest("miss")) /\ UNCHANGED <<files, chunks>>
    BY <1>0, <1>13 DEF SearchChatDirect, Move, Retrieving, world, index
  <2>2. Healing(Rest("hit")) /\ Healing(Rest("miss"))
    BY RestGood
  <2> QED
    BY <2>1, <2>2, SameHealing
<1> QED
  BY <1>1, <1>2, <1>3, <1>4, <1>5, <1>6, <1>7, <1>8, <1>9, <1>10, <1>11, <1>12, <1>13 DEF Step
LEMMA StepMatches ==
  ASSUME Retrieving, TermsAre, NEW t \in Turns, Step(t)
  PROVE  TermsAre'
<1> DEFINE o == turn[t]
<1>0. SeenOwn(o)
  BY DEF Retrieving, Good
<1>1. CASE DeleteFile(t)
  <2>1. DeleteChunks(o.seen, KeysOf(FileAt(o.left))) /\ o.pc = "delete"
    BY <1>1 DEF DeleteFile
  <2>2. \A k \in DOMAIN chunks \ KeysOf(FileAt(o.left)) : k \notin o.seen
    BY <1>0, <2>1 DEF SeenOwn, KeysOf
  <2> QED
    BY <2>1, <2>2, DeleteMatches
<1>2. CASE Prune(t)
  <2>1. DeleteChunks(o.seen, KeysNotOf(o.active)) /\ o.pc = "prune"
    BY <1>2 DEF Prune
  <2>2. \A k \in DOMAIN chunks \ KeysNotOf(o.active) : k \notin o.seen
    BY <1>0, <2>1 DEF SeenOwn, KeysNotOf
  <2> QED
    BY <2>1, <2>2, DeleteMatches
<1>3. CASE UpsertFile(t)
  BY <1>3, UpsertMatches DEF UpsertFile
<1>4. CASE StoreChat(t)
  <2>1. \E new : UpsertChunks(new)
    BY <1>4 DEF StoreChat
  <2> QED
    BY <2>1, UpsertMatches
<1>5. CASE UNCHANGED <<chunks, terms>>
  BY <1>5 DEF TermsAre, FoundBy
<1>6. Broken(t) \/ ListFiles(t) \/ SelectFile(t) \/ ReadFile(t) \/ SelectStale(t) \/ LoadChat(t)
      \/ Search(t) \/ ListDirect(t) \/ Scan(t) \/ SearchChatDirect(t) => UNCHANGED <<chunks, terms>>
  BY DEF Broken, ListFiles, SelectFile, ReadFile, SelectStale, LoadChat, Search, ListDirect, Scan, SearchChatDirect, index
<1> QED
  BY <1>1, <1>2, <1>3, <1>4, <1>5, <1>6 DEF Step

LEMMA StepKeeps ==
  ASSUME IInv, NEW t \in Turns, Step(t)
  PROVE  IInv'
<1> USE DEF IInv
<1>1. PICK r : Move(t, r) /\ UNCHANGED world /\ Busy(t) /\ Good(r) /\ (r.quiet => turn[t].quiet)
  BY StepGood
<1>2. UNCHANGED <<files, told, dropped>>
  BY <1>1 DEF world
<1>3. turn' = [u \in Turns |-> IF u = t THEN r ELSE turn[u]]
  BY <1>1 DEF Move, Retrieving
<1>4. World'
  BY <1>2 DEF World
<1>5. Retrieving'
  <2>1. \A x : Good(x) => Good(x)'
    BY <1>2 DEF Good, Carried, SeenOwn, SteadyThere, ScanComplete, ScannedWords, Records
  <2>2. \A u \in Turns : Good(turn'[u])
    BY <1>1, <1>3 DEF Retrieving
  <2>3. turn' = [u \in Turns |-> turn'[u]]
    BY <1>3
  <2>4. \A u \in Turns : Good(turn[u])'
    <3> TAKE u \in Turns
    <3>1. PICK x : x = turn'[u]
      OBVIOUS
    <3>2. Good(x)'
      BY <2>1, <2>2, <3>1
    <3> QED
      BY <3>1, <3>2 DEF Good, Carried, SeenOwn, SteadyThere, ScanComplete
  <2> QED
    BY <2>3, <2>4 DEF Retrieving
<1>6. TermsAre'
  BY StepMatches
<1>7. ASSUME NEW u \in Turns \ {t}, Busy(u) PROVE ~turn[u].quiet
  BY <1>1, <1>7 DEF Refreshing, QuietAlone
<1>8. QuietAlone'
  <2> SUFFICES ASSUME NEW v \in Turns, Busy(v)', turn'[v].quiet, NEW u \in Turns \ {v}
               PROVE  ~Busy(u)'
    BY DEF QuietAlone
  <2>1. \A x \in Turns \ {t} : turn'[x] = turn[x]
    BY <1>3
  <2>2. v = t
    BY <1>7, <2>1 DEF Busy
  <2>3. turn[t].quiet
    BY <1>1, <1>3, <2>2
  <2>4. ~Busy(u)
    BY <1>1, <2>2, <2>3 DEF Refreshing, QuietAlone
  <2> QED
    BY <2>1, <2>2, <2>4 DEF Busy
<1>9. ASSUME NEW u \in Turns PROVE Healing(turn[u])'
  <2>1. CASE u = t
    <3>1. Healing(r)'
      BY <1>1, StepHeals
    <3> QED
      BY <1>3, <2>1, <3>1 DEF Healing
  <2>2. CASE u # t
    <3>1. turn'[u] = turn[u]
      BY <1>3, <2>2
    <3>2. CASE turn[u].quiet
      <4>1. turn[u].pc \in {"idle", "hit", "miss"}
        BY <1>7, <2>2, <3>2 DEF Busy
      <4> QED
        BY <3>1, <4>1 DEF Healing
    <3>3. CASE ~turn[u].quiet
      BY <3>1, <3>3 DEF Healing
    <3> QED
      BY <3>2, <3>3
  <2> QED
    BY <2>1, <2>2
<1> QED
  BY <1>4, <1>5, <1>6, <1>8, <1>9 DEF Refreshing

-----------------------------------------------------------------------------
(* The others.                                                              *)

LEMMA RetrieveKeeps ==
  ASSUME IInv, NEW t \in Turns, NEW source \in {"file", "chat"}, NEW query, NEW current,
         Retrieve(t, source, query, current)
  PROVE  IInv'
<1> DEFINE alone == \A v \in Turns \ {t} : ~Busy(v)
           n == Part(IF source = "file" THEN "list" ELSE "load", source, query, current, alone,
                     IF source = "file" THEN DOMAIN files ELSE Records)
<1>1. UNCHANGED <<files, told, dropped, chunks, terms>>
  BY DEF Retrieve, world, index
<1>2. turn' = [u \in Turns |-> IF u = t THEN n
                              ELSE IF Busy(u) THEN [turn[u] EXCEPT !.quiet = FALSE] ELSE turn[u]]
  BY DEF Retrieve
<1>3. World' /\ TermsAre'
  BY <1>1 DEF IInv, World, TermsAre, FoundBy
<1>4. ASSUME NEW u \in Turns
      PROVE  Good(turn[u])' /\ Healing(turn[u])'
  <2>1. PICK x : x = turn'[u]
    OBVIOUS
  <2>2. CASE u = t
    <3>1. x = n
      BY <1>2, <2>1, <2>2
    <3>2. Good(x) /\ Healing(x)
      <4> HIDE DEF alone
      <4> QED
        BY <3>1 DEF Part, Good, Carried, Fields, FileParts, ChatParts, SeenOwn, SteadyThere, ScanComplete, Healing
    <3>3. Good(x)'
      BY <1>1, <3>2 DEF Good, Carried, SeenOwn, SteadyThere, ScanComplete, ScannedWords, Records
    <3>4. Healing(x)'
      BY <1>1, <3>2, SameHealing
    <3> QED
      BY <2>1, <3>3, <3>4 DEF Good, Carried, SeenOwn, SteadyThere, ScanComplete, Healing
  <2>3. CASE u # t /\ Busy(u)
    <3>1. x = [turn[u] EXCEPT !.quiet = FALSE] /\ Good(turn[u])
      BY <1>2, <2>1, <2>3 DEF IInv, Retrieving
    <3>2. Good(x) /\ ~x.quiet
      BY <3>1 DEF Good, Carried, Fields, SeenOwn, SteadyThere, ScanComplete
    <3>3. Good(x)'
      BY <1>1, <3>2 DEF Good, Carried, SeenOwn, SteadyThere, ScanComplete, ScannedWords, Records
    <3>4. Healing(x)'
      BY <3>2 DEF Healing
    <3> QED
      BY <2>1, <3>3, <3>4 DEF Good, Carried, SeenOwn, SteadyThere, ScanComplete, Healing
  <2>4. CASE u # t /\ ~Busy(u)
    <3>1. x = turn[u] /\ Good(x) /\ x.pc \in {"idle", "hit", "miss"}
      BY <1>2, <2>1, <2>4 DEF IInv, Retrieving, Busy
    <3> QED
      BY <1>1, <2>1, <3>1 DEF Good, Carried, SeenOwn, SteadyThere, ScanComplete, Healing, Records
  <2> QED
    BY <2>2, <2>3, <2>4
<1>5. QuietAlone'
  <2> SUFFICES ASSUME NEW v \in Turns, Busy(v)', turn'[v].quiet, NEW u \in Turns \ {v}
               PROVE  ~Busy(u)'
    BY DEF QuietAlone
  <2>1. ASSUME NEW x \in Turns \ {t}, Busy(x) PROVE ~turn'[x].quiet
    BY <1>2, <2>1 DEF IInv, Retrieving, Good, Carried, Fields
  <2>2. \A x \in Turns \ {t} : ~Busy(x) => turn'[x] = turn[x]
    BY <1>2
  <2>3. v = t
    BY <2>1, <2>2 DEF Busy
  <2>4. alone
    BY <1>2, <2>3 DEF Part
  <2> QED
    BY <2>2, <2>3, <2>4 DEF Busy
<1> HIDE DEF n
<1>6. turn' = [u \in Turns |-> turn'[u]]
  BY <1>2
<1> QED
  BY <1>3, <1>4, <1>5, <1>6 DEF IInv, Retrieving, Refreshing

\* A change of the sources leaves alone what has not changed, and no retrieval quiet.
LEMMA DisturbedKeeps ==
  ASSUME IInv, NEW S, turn' = Disturbed(S),
         \A f \in DOMAIN files \ S : f \in DOMAIN files' /\ files'[f] = files[f],
         Records \ S \subseteq Records'
  PROVE  Retrieving' /\ Refreshing'
<1>1. ASSUME NEW u \in Turns
      PROVE  Good(turn[u])' /\ Healing(turn[u])' /\ (Busy(u)' => ~turn'[u].quiet)
  <2>1. PICK x, o : x = turn'[u] /\ o = turn[u]
    OBVIOUS
  <2>2. Good(o)
    BY <2>1 DEF IInv, Retrieving
  <2>3. CASE Busy(u)
    <3>1. x = [o EXCEPT !.quiet = FALSE, !.steady = @ \ S]
      BY <2>1, <2>3 DEF Disturbed
    <3>2. /\ DOMAIN x = Fields /\ ~x.quiet /\ x.steady = o.steady \ S
          /\ x.pc = o.pc /\ x.source = o.source /\ x.left = o.left /\ x.seen = o.seen /\ x.active = o.active
          /\ x.scanned = o.scanned /\ x.found = o.found /\ x.query = o.query
      BY <2>2, <3>1 DEF Good, Carried, Fields
    <3>3. Carried(x) /\ SeenOwn(x)
      BY <2>2, <3>2 DEF Good, Carried, SeenOwn
    <3>4. SteadyThere(x)'
      BY <2>2, <3>2 DEF Good, SteadyThere
    <3>5. ScanComplete(x)'
      <4>1. ASSUME x.pc = "scan", NEW f \in x.steady PROVE f \in o.steady /\ ScannedWords(f)' = ScannedWords(f)
        <5>1. o.source = "file" /\ o.steady \subseteq DOMAIN files
          BY <2>2, <3>2, <4>1 DEF Good, Carried, FileParts, SteadyThere
        <5>2. f \in o.steady /\ f \in DOMAIN files /\ f \in DOMAIN files' /\ files'[f] = files[f]
          BY <3>2, <4>1, <5>1
        <5> QED
          BY <5>2 DEF ScannedWords
      <4> QED
        BY <2>2, <3>2, <4>1 DEF Good, ScanComplete
    <3> QED
      BY <2>1, <3>2, <3>3, <3>4, <3>5 DEF Good, Carried, SeenOwn, SteadyThere, ScanComplete, Healing
  <2>4. CASE ~Busy(u)
    <3>1. x = o /\ x.pc \in {"idle", "hit", "miss"}
      BY <2>1, <2>4 DEF Disturbed, Busy
    <3> QED
      BY <2>1, <2>2, <3>1 DEF Good, Carried, SeenOwn, SteadyThere, ScanComplete, Healing, Busy
  <2> QED
    BY <2>3, <2>4
<1>2. turn' = [u \in Turns |-> turn'[u]]
  BY DEF Disturbed
<1> QED
  BY <1>1, <1>2 DEF Retrieving, Refreshing, QuietAlone

LEMMA WriteKeeps ==
  ASSUME IInv, NEW f \in ToSet(Files), NEW text \in Contents, WriteFile(f, text)
  PROVE  IInv'
<1>1. files' = Over([g \in {f} |-> text], files) /\ turn' = Disturbed({f}) /\ UNCHANGED <<told, dropped, chunks, terms>>
  BY DEF WriteFile, index
<1>2. DOMAIN files' = DOMAIN files \cup {f}
      /\ \A g \in DOMAIN files' : files'[g] = IF g = f THEN text ELSE files[g]
  BY <1>1 DEF Over
<1>3. World' /\ TermsAre'
  BY <1>1, <1>2 DEF IInv, World, TermsAre, FoundBy, Texts
<1>4. Records' = Records
  BY <1>1 DEF Records
<1> QED
  BY <1>1, <1>2, <1>3, <1>4, DisturbedKeeps DEF IInv

LEMMA RemoveKeeps ==
  ASSUME IInv, NEW f, RemoveFile(f)
  PROVE  IInv'
<1>1. files' = Minus(files, {f}) /\ turn' = Disturbed({f}) /\ UNCHANGED <<told, dropped, chunks, terms>>
  BY DEF RemoveFile, index
<1>2. DOMAIN files' = DOMAIN files \ {f} /\ \A g \in DOMAIN files' : files'[g] = files[g]
  BY <1>1 DEF Minus
<1>3. World' /\ TermsAre'
  BY <1>1, <1>2 DEF IInv, World, TermsAre, FoundBy
<1>4. Records' = Records
  BY <1>1 DEF Records
<1> QED
  BY <1>1, <1>2, <1>3, <1>4, DisturbedKeeps DEF IInv

LEMMA TellKeeps ==
  ASSUME IInv, Tell
  PROVE  IInv'
<1>1. told \in Nat /\ told' = told + 1 /\ turn' = Disturbed({}) /\ UNCHANGED <<files, dropped, chunks, terms>>
  BY DEF IInv, World, Tell, index
<1>2. World' /\ TermsAre'
  BY <1>1 DEF IInv, World, TermsAre, FoundBy
<1>3. Records \subseteq Records'
  BY <1>1 DEF Records
<1>4. Retrieving' /\ Refreshing'
  BY <1>1, <1>3, DisturbedKeeps
<1> QED
  BY <1>2, <1>4 DEF IInv

LEMMA DeleteSpaceKeeps ==
  ASSUME IInv, DeleteChatDirectory
  PROVE  IInv'
<1>1. /\ dropped' = 1 .. told /\ chunks' = NoChunks /\ turn' = Disturbed(1 .. told) /\ UNCHANGED <<files, told>>
  BY DEF DeleteChatDirectory
<1>2. World' /\ TermsAre'
  BY <1>1 DEF IInv, World, TermsAre, FoundBy, NoChunks
<1>3. Records \ 1 .. told = {}
  BY DEF Records
<1>4. Retrieving' /\ Refreshing'
  BY <1>1, <1>3, DisturbedKeeps
<1> QED
  BY <1>2, <1>4 DEF IInv

LEMMA RestKeeps ==
  ASSUME turn' = [t \in Turns |-> Rest("idle")]
  PROVE  Retrieving' /\ Refreshing'
<1>1. ASSUME NEW u \in Turns PROVE Good(turn[u])' /\ Healing(turn[u])' /\ ~Busy(u)'
  <2>1. PICK x : x = turn'[u]
    OBVIOUS
  <2>2. x = Rest("idle") /\ Good(x) /\ x.pc = "idle"
    BY <2>1, RestGood
  <2> QED
    BY <2>1, <2>2 DEF Good, Carried, SeenOwn, SteadyThere, ScanComplete, Healing, Busy
<1> QED
  BY <1>1 DEF Retrieving, Refreshing, QuietAlone
-----------------------------------------------------------------------------
(* What is proved.                                                          *)

LEMMA InitHolds == RagInit => IInv
<1> SUFFICES ASSUME RagInit PROVE IInv
  OBVIOUS
<1>1. World /\ TermsAre
  BY RagAssumption DEF RagInit, World, Texts, TermsAre, FoundBy, NoChunks
<1>2. ASSUME NEW u \in Turns PROVE turn[u] = Rest("idle") /\ Good(turn[u]) /\ Healing(turn[u]) /\ ~Busy(u)
  <2>1. turn[u] = Rest("idle")
    BY DEF RagInit
  <2> QED
    BY <2>1, RestGood DEF Busy
<1>3. turn = [t \in Turns |-> turn[t]]
  BY DEF RagInit
<1> QED
  BY <1>1, <1>2, <1>3 DEF IInv, Retrieving, Refreshing, QuietAlone

LEMMA NextKeeps == IInv /\ [RagNext]_ragVars => IInv'
<1> SUFFICES ASSUME IInv, [RagNext]_ragVars PROVE IInv'
  OBVIOUS
<1>1. CASE \E t \in Turns : Step(t)
  BY <1>1, StepKeeps
<1>2. CASE \E t \in Turns, source \in {"file", "chat"}, query \in Queries :
             \E current \in {Talk[i].id : i \in 1 .. told} : Retrieve(t, source, query, current)
  BY <1>2, RetrieveKeeps
<1>3. CASE \E f \in ToSet(Files), text \in Contents : WriteFile(f, text)
  BY <1>3, WriteKeeps
<1>4. CASE \E f \in ToSet(Files) : RemoveFile(f)
  BY <1>4, RemoveKeeps
<1>5. CASE Tell
  BY <1>5, TellKeeps
<1>6. CASE DeleteChatDirectory
  BY <1>6, DeleteSpaceKeeps
<1>7. CASE RagCrash
  <2>1. turn' = [t \in Turns |-> Rest("idle")] /\ UNCHANGED <<files, told, chunks, terms>>
    BY <1>7 DEF RagCrash, world, index
  <2>2. World' /\ TermsAre'
    BY <2>1 DEF IInv, World, TermsAre, FoundBy
  <2> QED
    BY <2>1, <2>2, RestKeeps DEF IInv
<1>8. CASE UNCHANGED ragVars
  BY <1>8 DEF ragVars, world, index, bounds, IInv, World, Retrieving, Good, Carried, SeenOwn, SteadyThere,
              ScanComplete, ScannedWords, TermsAre, FoundBy, Refreshing, QuietAlone, Busy, Healing, Indexed, KeysOf,
              KeysNotOf, Listing, Records, Indexable, IndexableFiles
<1> QED
  BY <1>1, <1>2, <1>3, <1>4, <1>5, <1>6, <1>7, <1>8 DEF RagNext

\* The invariant holds in every state, for all values of the constants.
THEOREM Invariant == RagSpec => []IInv
BY InitHolds, NextKeeps, PTL DEF RagSpec

\* What build_chunk_terms takes of some words is among them, all of them up to the
\* limit, and no word left out is longer.
LEMMA FirstTermsAre ==
  ASSUME NEW S, S \subseteq ToSet(Lexicon)
  PROVE  /\ FirstTerms(S) \subseteq S
         /\ Cardinality(S) <= MaxTerms => FirstTerms(S) = S
         /\ \A w \in FirstTerms(S), v \in S \ FirstTerms(S) : Before(w, v)
<1> DEFINE Ahead(w) == {v \in S : Before(v, w)}
<1>1. IsFiniteSet(S)
  <2>1. IsFiniteSet(1 .. Len(Lexicon)) /\ DOMAIN Lexicon = 1 .. Len(Lexicon)
    BY RagAssumption, FS_Interval
  <2>2. Lexicon \in Surjection(1 .. Len(Lexicon), ToSet(Lexicon))
    BY <2>1, RagAssumption DEF Surjection, ToSet
  <2>3. IsFiniteSet(ToSet(Lexicon))
    BY <2>1, <2>2, FS_Surjection
  <2> QED
    BY <2>3, FS_Subset
<1>2. \A w \in ToSet(Lexicon) : Position(w) \in Nat /\ Lexicon[Position(w)] = w
  BY RagAssumption DEF Position, ToSet
<1>3. \A w : Ahead(w) \subseteq S
  OBVIOUS
<1>4. \A w : IsFiniteSet(Ahead(w)) /\ Cardinality(Ahead(w)) \in Nat
  BY <1>1, <1>3, FS_Subset, FS_CardinalityType
<1>5. FirstTerms(S) = {w \in S : Cardinality(Ahead(w)) < MaxTerms}
  BY DEF FirstTerms
<1> HIDE DEF Ahead
<1>6. ASSUME Cardinality(S) <= MaxTerms, NEW w \in S PROVE Cardinality(Ahead(w)) < MaxTerms
  <2>1. Ahead(w) \subseteq S \ {w}
    BY <1>2 DEF Ahead, Before
  <2>2. Cardinality(S \ {w}) = Cardinality(S) - 1 /\ IsFiniteSet(S \ {w}) /\ Cardinality(S) \in Nat
    BY <1>1, FS_RemoveElement, FS_CardinalityType
  <2>3. Cardinality(Ahead(w)) <= Cardinality(S \ {w})
    BY <2>1, <2>2, FS_Subset
  <2> QED
    BY <1>4, <1>6, <2>2, <2>3, RagAssumption
<1>7. ASSUME NEW w \in FirstTerms(S), NEW v \in S \ FirstTerms(S) PROVE Before(w, v)
  <2> SUFFICES ASSUME ~Before(w, v) PROVE FALSE
    OBVIOUS
  <2>1. w \in S /\ w # v /\ Cardinality(Ahead(w)) < MaxTerms /\ ~(Cardinality(Ahead(v)) < MaxTerms)
    BY <1>5, <1>7
  <2>2. Position(v) < Position(w)
    BY <1>2, <2>1 DEF Before
  <2>3. Ahead(v) \subseteq Ahead(w)
    BY <1>2, <2>1, <2>2 DEF Ahead, Before
  <2>4. Cardinality(Ahead(v)) <= Cardinality(Ahead(w))
    BY <1>4, <2>3, FS_Subset
  <2> QED
    BY <1>4, <2>1, <2>4, RagAssumption
<1> QED
  BY <1>5, <1>6, <1>7

\* For all files, texts, turns, stop words and sizes of pieces: whatever refreshes
\* overlap, fail or die, a stored piece is found by its own words, the longest of
\* them when there are more than MaxTerms, and by no others.
THEOREM TermsMatch == RagSpec => []TermsMatchChunks
<1>1. IInv => TermsMatchChunks
  <2> SUFFICES ASSUME TermsAre, NEW k \in DOMAIN chunks
               PROVE  /\ FoundBy(k) \subseteq OwnWords(k, chunks[k])
                      /\ Cardinality(OwnWords(k, chunks[k])) <= MaxTerms => FoundBy(k) = OwnWords(k, chunks[k])
                      /\ \A w \in FoundBy(k), v \in OwnWords(k, chunks[k]) \ FoundBy(k) : Before(w, v)
    BY DEF IInv, TermsMatchChunks, FoundBy
  <2>1. FoundBy(k) = FirstTerms(OwnWords(k, chunks[k]))
    BY DEF TermsAre
  <2>2. OwnWords(k, chunks[k]) \subseteq ToSet(Lexicon)
    BY DEF OwnWords, Tokens
  <2> QED
    BY <2>1, <2>2, FirstTermsAre
<1> QED
  BY <1>1, Invariant, PTL

\* The words of the pieces of a text that the index holds are the words of the text.
LEMMA IndexedWords ==
  ASSUME World, NEW f \in DOMAIN files, Indexed(f)
  PROVE  UNION {Words(chunks[k]) : k \in ChunkKeys("file", f, files[f])} = Words(files[f])
<1> DEFINE K == ChunkKeys("file", f, files[f])
           pieces == Split(files[f])
<1>1. files[f] \in Seq(Words(files[f]))
  BY RagAssumption DEF World
<1>2. WordsOf(pieces) = Words(files[f])
  BY <1>1, SplitCovers
<1>3. \A k \in K : chunks[k] = pieces[k[3]] /\ k[3] \in DOMAIN pieces
  BY KeysAre DEF Indexed
<1>4. ASSUME NEW i \in DOMAIN pieces PROVE \E k \in K : k[3] = i
  <2>1. <<"file", f, i>> \in K /\ <<"file", f, i>>[3] = i
    BY DEF ChunkKeys
  <2> QED
    BY <2>1
<1> HIDE DEF K, pieces
<1>5. UNION {Words(chunks[k]) : k \in K} = WordsOf(pieces)
  BY <1>3, <1>4 DEF WordsOf
<1> QED
  BY <1>2, <1>5 DEF K

\* For all files, texts, turns and sizes of pieces: a refresh that nothing disturbed
\* leaves in the index exactly the texts there are, with all of their words.
THEOREM QuietHeals == RagSpec => []QuietRefreshHeals
<1>1. IInv => QuietRefreshHeals
  <2> SUFFICES ASSUME IInv, NEW t \in Turns,
                      turn[t].pc = "search", turn[t].quiet, turn[t].source = "file"
               PROVE  /\ {k \in DOMAIN chunks : k[1] = "file"} = UNION {ChunkKeys("file", f, files[f]) : f \in IndexableFiles}
                      /\ \A f \in IndexableFiles :
                           UNION {Words(chunks[k]) : k \in ChunkKeys("file", f, files[f])} = Words(files[f])
    BY DEF QuietRefreshHeals
  <2>1. Healing(turn[t])
    BY DEF IInv, Refreshing
  <2>2. KeysNotOf(IndexableFiles) = {} /\ \A f \in IndexableFiles : Indexed(f) /\ f \in DOMAIN files
    BY <2>1 DEF Healing, IndexableFiles
  <2>3. \A f \in IndexableFiles : KeysOf(f) = ChunkKeys("file", f, files[f])
    BY <2>2 DEF Indexed
  <2>4. {k \in DOMAIN chunks : k[1] = "file"} = UNION {KeysOf(f) : f \in IndexableFiles}
    BY <2>2 DEF KeysOf, KeysNotOf
  <2>5. UNION {KeysOf(f) : f \in IndexableFiles} = UNION {ChunkKeys("file", f, files[f]) : f \in IndexableFiles}
    BY <2>3
  <2>6. World
    BY DEF IInv
  <2> QED
    BY <2>2, <2>4, <2>5, <2>6, IndexedWords
<1> QED
  BY <1>1, Invariant, PTL

\* Only the last step of a direct search ends with nothing found.
LEMMA MissedBy ==
  ASSUME IInv, [RagNext]_ragVars, NEW t \in Turns, turn'[t].pc = "miss", turn[t].pc # "miss"
  PROVE  Scan(t) \/ SearchChatDirect(t)
<1> USE DEF IInv
<1>0. turn = [u \in Turns |-> turn[u]] /\ \A u \in Turns : DOMAIN turn[u] = Fields
  BY DEF Retrieving, Good, Carried
<1>1. CASE \E u \in Turns : Step(u)
  <2>1. PICK u \in Turns : Step(u)
    BY <1>1
  <2>2. PICK r : Move(u, r)
    BY <2>1, StepGood
  <2>3. u = t
    BY <1>0, <2>2 DEF Move
  <2>4. \A x : Move(t, x) => x.pc = "miss"
    BY <1>0 DEF Move
  <2>5. \A pc, quiet : At(turn[t], pc, quiet).pc = pc
    BY DEF At, Part
  <2>6. ~Move(t, Direct(turn[t]))
    BY <2>4, <2>5 DEF Direct
  <2>7. ~Broken(t)
    BY <2>6 DEF Broken
  <2>8. ASSUME NEW to, to.pc = turn[t].pc \/ to.pc \in {"select", "stale", "delete", "read", "upsert", "prune", "store", "search", "scan"}
        PROVE  ~Move(t, to)
    BY <2>4, <2>8
  <2>9. ~ListFiles(t) /\ ~DeleteFile(t) /\ ~UpsertFile(t) /\ ~SelectStale(t) /\ ~LoadChat(t) /\ ~ListDirect(t)
    BY <1>0, <2>8 DEF ListFiles, DeleteFile, UpsertFile, SelectStale, LoadChat, ListDirect, Fields
  <2>10. ~SelectFile(t)
    BY <1>0, <2>5, <2>8 DEF SelectFile, Fields
  <2>11. ~ReadFile(t)
    BY <1>0, <2>6, <2>8 DEF ReadFile, Fields
  <2>12. ~Prune(t) /\ ~StoreChat(t)
    BY <2>5, <2>8 DEF Prune, StoreChat
  <2>13. ~Search(t)
    <3>1. Rest("hit").pc = "hit"
      BY DEF Rest, Part
    <3> QED
      BY <2>4, <2>6, <3>1 DEF Search
  <2> QED
    BY <2>1, <2>3, <2>7, <2>9, <2>10, <2>11, <2>12, <2>13 DEF Step
<1>2. CASE \E u \in Turns, source \in {"file", "chat"}, query \in Queries :
             \E current \in {Talk[i].id : i \in 1 .. told} : Retrieve(u, source, query, current)
  <2>1. turn'[t].pc \in {"list", "load", turn[t].pc}
    BY <1>0, <1>2 DEF Retrieve, Part, Fields
  <2> QED
    BY <2>1
<1>3. CASE \E S : turn' = Disturbed(S)
  BY <1>0, <1>3 DEF Disturbed, Fields
<1>4. CASE RagCrash
  BY <1>4 DEF RagCrash, Rest, Part
<1>5. CASE UNCHANGED ragVars
  BY <1>5 DEF ragVars
<1>6. (\E f, text : WriteFile(f, text)) \/ (\E f : RemoveFile(f)) \/ Tell \/ DeleteChatDirectory
      => \E S : turn' = Disturbed(S)
  BY DEF WriteFile, RemoveFile, Tell, DeleteChatDirectory
<1> QED
  BY <1>1, <1>2, <1>3, <1>4, <1>5, <1>6 DEF RagNext

LEMMA MissAbsent == IInv /\ [RagNext]_ragVars => AbsentWhenMissed
<1> SUFFICES ASSUME IInv, [RagNext]_ragVars, NEW t \in Turns, turn'[t].pc = "miss", turn[t].pc # "miss"
             PROVE  IF turn[t].source = "file"
                    THEN \A f \in turn[t].steady : turn[t].query \subseteq ScannedWords(f) =>
                           (CHOOSE i \in DOMAIN Files : Files[i] = f) > MaxScan
                    ELSE \A i \in turn[t].steady \cap Newest(SearchWindow) :
                           Talk[i].shown /\ turn[t].query \subseteq SaidWords(i) => Talk[i].id = turn[t].current
  BY DEF AbsentWhenMissed
<1> DEFINE o == turn[t]
<1>0. Good(o) /\ turn = [u \in Turns |-> turn[u]]
  BY DEF IInv, Retrieving
<1>1. CASE Scan(t)
  <2>1. o.source = "file" /\ o.pc = "scan" /\ o.left \subseteq DOMAIN Files /\ DOMAIN o = Fields
    BY <1>0, <1>1 DEF Scan, Good, Carried, FileParts
  <2>2. (o.left = {} \/ o.scanned >= MaxScan) /\ ~o.found
    <3> DEFINE match == o.query \subseteq ScannedWords(FileAt(o.left))
               n == [o EXCEPT !.left = Beyond(@), !.scanned = @ + 1, !.found = @ \/ match]
    <3>1. n.pc = "scan"
      BY <2>1 DEF Fields
    <3>2. ~Move(t, n)
      <4> HIDE DEF n
      <4> QED
        BY <1>0, <3>1 DEF Move
    <3>3. o.left = {} \/ o.scanned >= MaxScan
      BY <1>1, <3>2 DEF Scan
    <3>4. Move(t, Rest(IF o.found THEN "hit" ELSE "miss"))
      BY <1>1, <3>3 DEF Scan
    <3>5. ~o.found
      BY <1>0, <3>4 DEF Move, Rest, Part
    <3> QED
      BY <3>3, <3>5
  <2>3. ASSUME NEW f \in o.steady, o.query \subseteq ScannedWords(f)
        PROVE  (CHOOSE i \in DOMAIN Files : Files[i] = f) > MaxScan
    <3>1. PICK i \in o.left : Files[i] = f
      BY <1>0, <2>1, <2>2, <2>3 DEF Good, ScanComplete
    <3>2. o.scanned < i /\ o.scanned >= MaxScan /\ o.scanned \in Nat
      BY <1>0, <2>1, <2>2, <3>1 DEF Good, ScanComplete
    <3>3. i \in DOMAIN Files /\ i \in Nat
      BY <2>1, RagAssumption
    <3>4. \A j \in DOMAIN Files : Files[j] = f => j = i
      BY <3>1, <3>3, RagAssumption DEF IsInjective
    <3>5. (CHOOSE j \in DOMAIN Files : Files[j] = f) = i
      BY <3>1, <3>3, <3>4
    <3>6. i > MaxScan
      BY <3>2, <3>3, RagAssumption
    <3> QED
      BY <3>5, <3>6
  <2> QED
    BY <2>1, <2>3
<1>2. CASE SearchChatDirect(t)
  <2>1. o.source = "chat"
    BY <1>0, <1>2 DEF SearchChatDirect, Good, Carried, ChatParts
  <2>2. {i \in Newest(SearchWindow) :
           Talk[i].shown /\ o.query \subseteq SaidWords(i) /\ Talk[i].id # o.current} = {}
    BY <1>0, <1>2 DEF SearchChatDirect, Move, Rest, Part
  <2> QED
    BY <2>1, <2>2
<1> QED
  BY <1>1, <1>2, MissedBy

\* For all files, texts, messages, turns and limits: nothing found means that nothing
\* which was there all along has the words, as far as the direct search looks.
THEOREM MissIsAbsence == RagSpec => MissMeansAbsent
BY Invariant, MissAbsent, PTL DEF RagSpec, MissMeansAbsent

=============================================================================
