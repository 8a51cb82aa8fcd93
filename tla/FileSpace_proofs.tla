--------------------------- MODULE FileSpace_proofs ---------------------------
(***************************************************************************)
(* Proofs about FileSpace, for any number of users, owners and sessions and  *)
(* any trees and commands: the spaces stay well-formed, no command writes    *)
(* without a right, overwrites a file or fills a space that was deleted      *)
(* before it came, and what is shown leads back to itself.                   *)
(***************************************************************************)
EXTENDS FileSpace, FiniteSetTheorems, SequenceTheorems, WellFoundedInduction, TLAPS

-----------------------------------------------------------------------------
(* Numbers, paths and the names within a directory.                          *)

LEMMA Least ==
  ASSUME NEW T, T \subseteq Nat, T # {}
  PROVE  \E m \in T : \A n \in T : ~(n < m)
<1> DEFINE R == OpToRel(<, Nat)
<1>1. IsWellFoundedOn(R, Nat)
  BY NatLessThanWellFounded
<1>2. \A a, b \in Nat : a < b => <<a, b>> \in R
  BY DEF OpToRel
<1> HIDE DEF R
<1>3. PICK x \in T : \A y \in T : ~(<<y, x>> \in R)
  BY <1>1, WFMin
<1> QED
  BY <1>2, <1>3

\* Induction, for a claim that is a set of numbers.
LEMMA Climb ==
  ASSUME NEW n \in Nat, NEW T, 0 \in T, \A i \in 0 .. n : i \in T /\ i < n => i + 1 \in T
  PROVE  \A i \in 0 .. n : i \in T
<1> DEFINE B == (0 .. n) \ T
<1> SUFFICES ASSUME B # {} PROVE FALSE
  OBVIOUS
<1>1. B \subseteq Nat
  OBVIOUS
<1>2. PICK x \in B : \A y \in B : ~(y < x)
  <2> HIDE DEF B
  <2> QED
    BY <1>1, Least
<1>3. x \in 1 .. n /\ x - 1 \in 0 .. n /\ x - 1 < x /\ x - 1 < n
  OBVIOUS
<1>4. x - 1 \in T
  BY <1>2, <1>3
<1>5. x - 1 + 1 = x
  BY <1>3
<1> QED
  BY <1>3, <1>4, <1>5

LEMMA SeqIsPath ==
  ASSUME NEW S, NEW p \in Seq(S)
  PROVE  IsPath(p)
<1>1. Len(p) \in Nat /\ p \in [1 .. Len(p) -> S] /\ DOMAIN p = 1 .. Len(p)
  BY LenProperties
<1>2. p \in [1 .. Len(p) -> ToSet(p)]
  BY <1>1 DEF ToSet
<1> QED
  BY <1>1, <1>2, SeqDef DEF IsPath

LEMMA PathIs ==
  ASSUME NEW p, IsPath(p)
  PROVE  /\ Len(p) \in Nat /\ DOMAIN p = 1 .. Len(p) /\ p \in Seq(ToSet(p))
         /\ \A i \in 1 .. Len(p) : p[i] \in ToSet(p)
         /\ p # <<>> <=> Len(p) > 0
BY LenProperties, EmptySeq DEF IsPath

LEMMA EmptyPath == IsPath(<<>>)
<1>1. <<>> \in Seq({})
  BY EmptySeq
<1> QED
  BY <1>1, SeqIsPath

LEMMA OnePath ==
  ASSUME NEW d
  PROVE  IsPath(<<d>>) /\ Front(<<d>>) = <<>> /\ <<d>> # <<>>
<1>1. <<d>> \in Seq({d}) /\ Len(<<d>>) = 1 /\ <<d>> # <<>>
  OBVIOUS
<1>2. SubSeq(<<d>>, 1, 0) = <<>>
  BY SubSeqEmpty
<1>3. Front(<<d>>) = <<>>
  BY <1>1, <1>2 DEF Front
<1>4. IsPath(<<d>>)
  BY <1>1, SeqIsPath
<1> QED
  BY <1>1, <1>3, <1>4

LEMMA FrontPath ==
  ASSUME NEW p, IsPath(p)
  PROVE  /\ IsPath(Front(p))
         /\ p # <<>> => Len(Front(p)) = Len(p) - 1
         /\ \A i \in 1 .. Len(p) - 1 : Front(p)[i] = p[i]
<1>1. Len(p) \in Nat /\ \A i \in 1 .. Len(p) : p[i] \in ToSet(p)
  BY PathIs
<1>2. \A i \in 1 .. Len(p) - 1 : p[i] \in ToSet(p)
  BY <1>1
<1> DEFINE f == SubSeq(p, 1, Len(p) - 1)
<1>3. /\ f \in Seq(ToSet(p))
      /\ Len(f) = IF 1 <= Len(p) - 1 THEN Len(p) - 1 - 1 + 1 ELSE 0
      /\ \A i \in 1 .. Len(p) - 1 - 1 + 1 : f[i] = p[1 + i - 1]
  BY <1>1, <1>2, SubSeqProperties
<1>4. Front(p) = f
  BY DEF Front
<1>5. p # <<>> => Len(p) > 0
  BY PathIs
<1> HIDE DEF f
<1>6. IsPath(f)
  BY <1>3, SeqIsPath
<1>7. p # <<>> => Len(f) = Len(p) - 1
  <2> DEFINE n == Len(p)
             k == Len(f)
  <2>1. n \in Nat /\ k = IF 1 <= n - 1 THEN n - 1 - 1 + 1 ELSE 0
    BY <1>1, <1>3
  <2> HIDE DEF n, k
  <2>2. n > 0 => k = n - 1
    BY <2>1
  <2> QED
    BY <1>5, <2>2 DEF n, k
<1>8. \A i \in 1 .. Len(p) - 1 : f[i] = p[i]
  BY <1>1, <1>3
<1> QED
  BY <1>4, <1>6, <1>7, <1>8

LEMMA AppendPath ==
  ASSUME NEW p, IsPath(p), NEW e
  PROVE  /\ IsPath(Append(p, e)) /\ Front(Append(p, e)) = p /\ Append(p, e) # <<>>
         /\ Len(Append(p, e)) = Len(p) + 1 /\ Append(p, e)[Len(p) + 1] = e
<1> DEFINE S == ToSet(p) \cup {e}
<1>1. p \in Seq(S) /\ e \in S /\ Len(p) \in Nat
  BY PathIs, SeqMonotonic
<1> HIDE DEF S
<1>2. /\ Append(p, e) \in Seq(S) /\ Len(Append(p, e)) = Len(p) + 1
      /\ \A i \in 1 .. Len(p) : Append(p, e)[i] = p[i]
      /\ Append(p, e)[Len(p) + 1] = e
  BY <1>1
<1>3. IsPath(Append(p, e)) /\ Append(p, e) # <<>>
  <2> DEFINE q == Append(p, e)
  <2>1. q \in Seq(S) /\ Len(q) > 0
    BY <1>1, <1>2
  <2> HIDE DEF q
  <2>2. IsPath(q)
    BY <2>1, SeqIsPath
  <2>3. q # <<>>
    BY <2>1, EmptySeq
  <2> QED
    BY <2>2, <2>3 DEF q
<1>4. Front(Append(p, e)) = p
  <2> DEFINE q == Append(p, e)
             f == Front(q)
  <2>0. IsPath(q) /\ q # <<>> /\ Len(q) - 1 = Len(p) /\ \A i \in 1 .. Len(p) : q[i] = p[i]
    BY <1>1, <1>2, <1>3
  <2> HIDE DEF q
  <2>1. Len(f) = Len(p) /\ IsPath(f) /\ \A i \in 1 .. Len(p) : f[i] = q[i]
    BY <2>0, FrontPath
  <2>2. \A i \in 1 .. Len(p) : f[i] = p[i]
    BY <2>0, <2>1
  <2> HIDE DEF f
  <2>3. f = p
    <3>1. f \in Seq(ToSet(f) \cup ToSet(p)) /\ p \in Seq(ToSet(f) \cup ToSet(p))
      BY <2>1, PathIs, SeqMonotonic
    <3> QED
      BY <2>1, <2>2, <3>1, SeqEqual
  <2> QED
    BY <2>3 DEF f, q
<1> QED
  BY <1>2, <1>3, <1>4

LEMMA PrefixIs ==
  ASSUME NEW p, NEW q, IsPath(p), IsPath(q)
  PROVE  IsPrefix(p, q) <=> Len(p) <= Len(q) /\ \A i \in 1 .. Len(p) : p[i] = q[i]
<1>1. /\ Len(p) \in Nat /\ Len(q) \in Nat
      /\ \A i \in 1 .. Len(p) : p[i] \in ToSet(p)
      /\ \A i \in 1 .. Len(q) : q[i] \in ToSet(q)
  BY PathIs
<1>2. SubSeq(p, 1, Len(p)) = p
  BY PathIs, SubSeqFull
<1> SUFFICES ASSUME Len(p) <= Len(q)
             PROVE  p = SubSeq(q, 1, Len(p)) <=> \A i \in 1 .. Len(p) : p[i] = q[i]
  BY <1>2 DEF IsPrefix
<1> DEFINE f == SubSeq(q, 1, Len(p))
<1>3. \A i \in 1 .. Len(p) : q[i] \in ToSet(q)
  BY <1>1
<1>4. f \in Seq(ToSet(q)) /\ Len(f) = Len(p) /\ \A i \in 1 .. Len(p) : f[i] = q[i]
  <2>1. /\ f \in Seq(ToSet(q)) /\ Len(f) = IF 1 <= Len(p) THEN Len(p) - 1 + 1 ELSE 0
        /\ \A i \in 1 .. Len(p) - 1 + 1 : f[i] = q[1 + i - 1]
    BY <1>1, <1>3, SubSeqProperties
  <2> HIDE DEF f
  <2> QED
    BY <1>1, <2>1
<1> HIDE DEF f
<1>5. f \in Seq(ToSet(p) \cup ToSet(q)) /\ p \in Seq(ToSet(p) \cup ToSet(q))
  BY <1>4, PathIs, SeqMonotonic
<1>6. (\A i \in 1 .. Len(p) : p[i] = q[i]) => f = p
  BY <1>4, <1>5, SeqEqual
<1>7. f = p => \A i \in 1 .. Len(p) : p[i] = q[i]
  BY <1>4
<1> QED
  BY <1>6, <1>7 DEF f

\* What is below the directory above a path is below nothing the path is not.
LEMMA PrefixOfFront ==
  ASSUME NEW p, NEW q, IsPath(p), IsPath(q), q # <<>>, IsPrefix(p, Front(q))
  PROVE  IsPrefix(p, q)
<1> DEFINE f == Front(q)
<1>1. /\ IsPath(f) /\ Len(f) = Len(q) - 1 /\ \A i \in 1 .. Len(q) - 1 : f[i] = q[i]
      /\ Len(p) \in Nat /\ Len(q) \in Nat
  BY FrontPath, PathIs
<1>2. Len(p) <= Len(f) /\ \A i \in 1 .. Len(p) : p[i] = f[i]
  BY <1>1, PrefixIs
<1> HIDE DEF f
<1>3. Len(p) <= Len(q) /\ \A i \in 1 .. Len(p) : p[i] = q[i]
  BY <1>1, <1>2
<1> QED
  BY <1>3, PrefixIs

-----------------------------------------------------------------------------
(* Trees.                                                                    *)

LEMMA FreshIs ==
  /\ DOMAIN Fresh = {<<>>} \cup {<<d>> : d \in DefaultDirs}
  /\ \A p \in DOMAIN Fresh : Fresh[p] = Dir /\ IsPath(p) /\ Front(p) = <<>>
  /\ <<>> \in DOMAIN Fresh /\ IsFiniteSet(DOMAIN Fresh)
<1> DEFINE T == {<<d>> : d \in DefaultDirs}
           f == [d \in DefaultDirs |-> <<d>>]
<1>1. f \in Surjection(DefaultDirs, T) /\ IsFiniteSet(DefaultDirs)
  BY FileSpaceAssumption DEF Surjection
<1>2. IsFiniteSet(T)
  <2> HIDE DEF f, T
  <2> QED
    BY <1>1, FS_Surjection
<1>3. DOMAIN Fresh = {<<>>} \cup T /\ \A p \in DOMAIN Fresh : Fresh[p] = Dir
  BY DEF Fresh
<1>4. IsFiniteSet({<<>>} \cup T)
  <2> HIDE DEF T
  <2> QED
    BY <1>2, FS_Singleton, FS_Union
<1>5. Front(<<>>) = <<>>
  BY SubSeqEmpty DEF Front
<1>6. \A p \in {<<>>} \cup T : IsPath(p) /\ Front(p) = <<>>
  BY <1>5, EmptyPath, OnePath
<1> QED
  BY <1>3, <1>4, <1>6

LEMMA AbsentOK == TreeOK(Absent) /\ DOMAIN Absent = {}
BY FS_EmptySet DEF Absent, TreeOK

LEMMA PresentOK ==
  ASSUME NEW t, TreeOK(t), t # Absent
  PROVE  /\ IsFiniteSet(DOMAIN t) /\ \A p \in DOMAIN t : IsPath(p)
         /\ \A p \in DOMAIN Fresh : IsDir(t, p)
         /\ \A p \in DOMAIN t \ {<<>>} : IsDir(t, Front(p))
         /\ IsDir(t, <<>>)
BY FreshIs DEF TreeOK

LEMMA SomethingThere ==
  ASSUME NEW t, NEW p \in DOMAIN t
  PROVE  t # Absent
BY AbsentOK

LEMMA EnsureReadyOK ==
  ASSUME NEW t, TreeOK(t)
  PROVE  /\ TreeOK(EnsureReady(t)) /\ EnsureReady(t) # Absent
         /\ \A p \in DOMAIN t : p \in DOMAIN EnsureReady(t) /\ EnsureReady(t)[p] = t[p]
<1> DEFINE r == EnsureReady(t)
<1>1. /\ DOMAIN r = DOMAIN t \cup DOMAIN Fresh
      /\ \A p \in DOMAIN r : r[p] = IF p \in DOMAIN t THEN t[p] ELSE Dir
  BY DEF EnsureReady
<1> HIDE DEF r
<1>2. IsFiniteSet(DOMAIN r) /\ \A p \in DOMAIN r : IsPath(p)
  <2>1. IsFiniteSet(DOMAIN t \cup DOMAIN Fresh)
    BY FreshIs, FS_Union DEF TreeOK
  <2>2. \A p \in DOMAIN t : IsPath(p)
    BY DEF TreeOK
  <2> QED
    BY <1>1, <2>1, <2>2, FreshIs
<1>3. \A p \in DOMAIN Fresh : IsDir(r, p)
  BY <1>1, FreshIs, PresentOK, AbsentOK DEF IsDir, Exists
<1>4. ASSUME NEW p \in DOMAIN r \ {<<>>} PROVE IsDir(r, Front(p))
  <2>1. CASE p \in DOMAIN t
    <3>1. IsDir(t, Front(p))
      BY <1>4, <2>1, PresentOK, SomethingThere
    <3> QED
      BY <1>1, <3>1 DEF IsDir, Exists
  <2>2. CASE p \in DOMAIN Fresh
    BY <1>3, <2>2, FreshIs
  <2> QED
    BY <1>1, <1>4, <2>1, <2>2
<1>5. r # Absent
  BY <1>1, FreshIs, SomethingThere
<1> QED
  BY <1>1, <1>2, <1>3, <1>4, <1>5 DEF TreeOK, r

\* A node is put where there is none, or where there is a file.
LEMMA WithOK ==
  ASSUME NEW t, TreeOK(t), NEW p, IsPath(p), p # <<>>, IsDir(t, Front(p)), ~IsDir(t, p),
         NEW node
  PROVE  TreeOK(With(t, p, node))
<1> DEFINE r == With(t, p, node)
<1>1. /\ DOMAIN r = DOMAIN t \cup {p} /\ r[p] = node
      /\ \A q \in DOMAIN t : q # p => r[q] = t[q]
  BY DEF With
<1> HIDE DEF r
<1>2. t # Absent
  BY SomethingThere DEF IsDir, Exists
<1>3. \A q : IsDir(t, q) => IsDir(r, q)
  BY <1>1 DEF IsDir, Exists
<1>4. IsFiniteSet(DOMAIN r) /\ \A q \in DOMAIN r : IsPath(q)
  BY <1>1, FS_AddElement DEF TreeOK
<1>5. \A q \in DOMAIN Fresh : IsDir(r, q)
  BY <1>2, <1>3, PresentOK
<1>6. \A q \in DOMAIN r \ {<<>>} : IsDir(r, Front(q))
  BY <1>1, <1>2, <1>3, PresentOK
<1> QED
  BY <1>4, <1>5, <1>6 DEF TreeOK, r

LEMMA RemovedOK ==
  ASSUME NEW t, TreeOK(t), NEW p \in DOMAIN t, Removable(p)
  PROVE  /\ TreeOK(Removed(t, p)) /\ DOMAIN Removed(t, p) \subseteq DOMAIN t
         /\ \A q \in DOMAIN Removed(t, p) : Removed(t, p)[q] = t[q]
<1> DEFINE r == Removed(t, p)
<1>1. DOMAIN r = {q \in DOMAIN t : ~IsPrefix(p, q)} /\ \A q \in DOMAIN r : r[q] = t[q]
  BY DEF Removed, Below
<1> HIDE DEF r
<1>2. t # Absent
  BY SomethingThere
<1>3. IsFiniteSet(DOMAIN r) /\ \A q \in DOMAIN r : IsPath(q)
  <2>1. DOMAIN r \in SUBSET DOMAIN t
    BY <1>1
  <2> QED
    BY <2>1, FS_Subset DEF TreeOK
<1>4. \A q \in DOMAIN t : IsPath(q)
  BY DEF TreeOK
<1>5. ASSUME NEW q \in DOMAIN Fresh PROVE IsDir(r, q)
  <2>1. IsDir(t, q) /\ q \in DOMAIN t /\ IsPath(q)
    BY <1>2, <1>4, PresentOK DEF IsDir, Exists
  <2>2. SUFFICES ASSUME IsPrefix(p, q) PROVE FALSE
    BY <1>1, <2>1 DEF IsDir, Exists
  <2>3. Len(p) <= Len(q) /\ \A i \in 1 .. Len(p) : p[i] = q[i]
    BY <1>4, <2>1, <2>2, PrefixIs
  <2>4. Len(p) \in Nat /\ p # <<>> /\ Len(p) > 0
    BY <1>4, PathIs DEF Removable
  <2>5. CASE q = <<>>
    BY <2>3, <2>4, <2>5, EmptySeq
  <2>6. ASSUME NEW d \in DefaultDirs, q = <<d>> PROVE FALSE
    <3>1. Len(q) = 1 /\ q[1] = d
      BY <2>6
    <3>2. Len(p) = 1
      <4> DEFINE n == Len(p)
                 m == Len(q)
      <4>1. n \in Nat /\ n > 0 /\ n <= m /\ m = 1
        BY <2>3, <2>4, <3>1
      <4> HIDE DEF n, m
      <4>2. n = 1
        BY <4>1
      <4> QED
        BY <4>2 DEF n
    <3>3. p[1] = q[1]
      BY <2>3, <3>2
    <3> QED
      BY <3>1, <3>2, <3>3 DEF Removable
  <2> QED
    BY <2>5, <2>6, FreshIs
<1>6. ASSUME NEW q \in DOMAIN r \ {<<>>} PROVE IsDir(r, Front(q))
  <2>1. q \in DOMAIN t /\ q # <<>> /\ ~IsPrefix(p, q)
    BY <1>1, <1>6
  <2>2. IsDir(t, Front(q))
    BY <1>2, <2>1, PresentOK
  <2>3. ~IsPrefix(p, Front(q))
    BY <1>4, <2>1, PrefixOfFront
  <2> QED
    BY <1>1, <2>2, <2>3 DEF IsDir, Exists
<1>7. TreeOK(r)
  BY <1>3, <1>5, <1>6 DEF TreeOK
<1> QED
  BY <1>1, <1>7 DEF r

\* Of the names that UniqueChild tries, one is free: they are more than there are paths.
LEMMA UniqueChildFree ==
  ASSUME NEW t, TreeOK(t), NEW dir, IsDir(t, dir), NEW name
  PROVE  /\ UniqueChild(t, dir, name) \notin DOMAIN t
         /\ \E x : UniqueChild(t, dir, name) = Append(dir, x)
<1> DEFINE N == Cardinality(DOMAIN t)
           C(n) == Append(dir, IF n = 0 THEN name ELSE <<name, n>>)
           free == {n \in 0 .. N : ~Exists(t, C(n))}
<1>1. /\ IsFiniteSet(DOMAIN t) /\ IsPath(dir) /\ <<>> \in DOMAIN t /\ N \in Nat
  <2>1. t # Absent
    BY SomethingThere DEF IsDir, Exists
  <2>2. IsFiniteSet(DOMAIN t)
    BY DEF TreeOK
  <2> QED
    BY <2>1, <2>2, PresentOK, FS_CardinalityType DEF IsDir, Exists
<1>2. UniqueChild(t, dir, name) = C(CHOOSE n \in free : \A m \in free : n <= m)
  BY DEF UniqueChild
<1>3. free # {}
  <2> SUFFICES ASSUME free = {} PROVE FALSE
    OBVIOUS
  <2> DEFINE T == DOMAIN t \ {<<>>}
             f == [n \in 1 .. N |-> C(n)]
  <2>1. ASSUME NEW n \in 1 .. N PROVE C(n) \in T
    <3>1. n \in 0 .. N /\ n \notin free
      BY <1>1
    <3>2. C(n) \in DOMAIN t
      BY <3>1 DEF Exists
    <3>3. C(n) # <<>>
      BY <1>1, AppendPath
    <3> QED
      BY <3>2, <3>3
  <2>2. IsFiniteSet(T) /\ Cardinality(T) = N - 1
    BY <1>1, FS_RemoveElement
  <2>3. IsFiniteSet(1 .. N) /\ Cardinality(1 .. N) = N
    <3>1. IsFiniteSet(1 .. N) /\ Cardinality(1 .. N) = IF 1 > N THEN 0 ELSE N - 1 + 1
      BY <1>1, FS_Interval
    <3> HIDE DEF N
    <3> QED
      BY <1>1, <3>1
  <2>4. f \in [1 .. N -> T]
    BY <2>1
  <2>5. PICK x \in 1 .. N, y \in 1 .. N : x # y /\ f[x] = f[y]
    <3> DEFINE S == 1 .. N
    <3>1. IsFiniteSet(S) /\ Cardinality(S) = N /\ f \in [S -> T]
      BY <2>3, <2>4
    <3> HIDE DEF f, T, N, S
    <3>2. Cardinality(T) < Cardinality(S)
      BY <1>1, <2>2, <3>1
    <3>3. \E x, y \in S : x # y /\ f[x] = f[y]
      BY <2>2, <3>1, <3>2, FS_PigeonHole
    <3> QED
      BY <3>3 DEF S
  <2>6. C(x) = C(y) /\ x # 0 /\ y # 0
    BY <2>5
  <2>7. Append(dir, <<name, x>>) = Append(dir, <<name, y>>)
    BY <2>6
  <2>8. <<name, x>> = <<name, y>>
    BY <1>1, <2>7, AppendPath
  <2> QED
    BY <2>5, <2>8
<1>4. \E n \in free : \A m \in free : n <= m
  <2>1. free \subseteq Nat
    BY <1>1
  <2> HIDE DEF free
  <2>2. PICK n \in free : \A m \in free : ~(m < n)
    BY <1>3, <2>1, Least
  <2> QED
    BY <2>1, <2>2
<1> DEFINE k == CHOOSE n \in free : \A m \in free : n <= m
<1>5. k \in free
  <2> HIDE DEF free
  <2> QED
    BY <1>4
<1>6. ~Exists(t, C(k))
  BY <1>5
<1> HIDE DEF k
<1> QED
  BY <1>2, <1>6 DEF Exists, k

\* A tree with what was there before, in which `dir` is a directory.
Extends(new, t, dir) ==
  /\ TreeOK(new) /\ IsDir(new, dir)
  /\ \A p \in DOMAIN t : p \in DOMAIN new /\ new[p] = t[p]

LEMMA SavedOK ==
  ASSUME NEW t, TreeOK(t), NEW dir, IsDir(t, dir), NEW file
  PROVE  Extends(Saved(t, dir, file), t, dir)
<1> DEFINE q == UniqueChild(t, dir, file.name)
<1>1. q \notin DOMAIN t /\ \E x : q = Append(dir, x)
  BY UniqueChildFree
<1>2. IsPath(dir)
  BY DEF IsDir, Exists, TreeOK
<1>3. IsPath(q) /\ q # <<>> /\ Front(q) = dir
  BY <1>1, <1>2, AppendPath
<1>4. Saved(t, dir, file) = With(t, q, file.content)
  BY DEF Saved
<1> HIDE DEF q
<1>5. TreeOK(With(t, q, file.content))
  BY <1>1, <1>3, WithOK DEF IsDir, Exists
<1> QED
  BY <1>1, <1>4, <1>5 DEF Extends, With, IsDir, Exists

SavesFiles(g, t, dir, files, k) ==
  /\ g = [i \in 0 .. k |-> g[i]]
  /\ g[0] = t /\ \A i \in 1 .. k : g[i] = Saved(g[i - 1], dir, files[i])

LEMMA SavesFilesSome ==
  ASSUME NEW t, NEW dir, NEW files, NEW n \in Nat
  PROVE  \E g : SavesFiles(g, t, dir, files, n)
<1> DEFINE T == {k \in 0 .. n : \E g : SavesFiles(g, t, dir, files, k)}
<1>1. 0 \in T
  <2> DEFINE g == [i \in 0 .. 0 |-> t]
  <2>1. SavesFiles(g, t, dir, files, 0)
    BY DEF SavesFiles
  <2> QED
    BY <2>1
<1>2. ASSUME NEW k \in 0 .. n, k \in T, k < n PROVE k + 1 \in T
  <2>1. PICK g : SavesFiles(g, t, dir, files, k)
    BY <1>2
  <2> DEFINE h == [i \in 0 .. k + 1 |-> IF i = k + 1 THEN Saved(g[k], dir, files[k + 1]) ELSE g[i]]
  <2>2. SavesFiles(h, t, dir, files, k + 1)
    <3>1. h = [i \in 0 .. k + 1 |-> h[i]] /\ h[0] = t
      BY <2>1 DEF SavesFiles
    <3>2. ASSUME NEW i \in 1 .. k + 1 PROVE h[i] = Saved(h[i - 1], dir, files[i])
      <4>1. CASE i = k + 1
        BY <4>1
      <4>2. CASE i \in 1 .. k
        <5>1. h[i] = g[i] /\ h[i - 1] = g[i - 1]
          BY <4>2
        <5> QED
          BY <2>1, <4>2, <5>1 DEF SavesFiles
      <4> QED
        BY <4>1, <4>2
    <3> HIDE DEF h
    <3> QED
      BY <3>1, <3>2 DEF SavesFiles
  <2>3. k + 1 \in 0 .. n
    BY <1>2
  <2> QED
    BY <2>2, <2>3
<1>3. n \in T
  <2> HIDE DEF T
  <2> QED
    BY <1>1, <1>2, Climb
<1> QED
  BY <1>3

\* Whatever is uploaded, what was there stays as it was.
LEMMA AllSavedOK ==
  ASSUME NEW t, TreeOK(t), NEW dir, IsDir(t, dir), NEW files, IsPath(files)
  PROVE  Extends(AllSaved(t, dir, files), t, dir)
<1> DEFINE n == Len(files)
           Rec(g) == g = [i \in 0 .. n |-> IF i = 0 THEN t ELSE Saved(g[i - 1], dir, files[i])]
           g == CHOOSE g : Rec(g)
<1>1. n \in Nat
  BY PathIs
<1>2. AllSaved(t, dir, files) = g[n]
  BY DEF AllSaved
<1> HIDE DEF n
<1>3. Rec(g)
  <2>1. PICK f : SavesFiles(f, t, dir, files, n)
    BY <1>1, SavesFilesSome
  <2>2. Rec(f)
    <3>1. f = [i \in 0 .. n |-> f[i]]
      BY <2>1 DEF SavesFiles
    <3>2. ASSUME NEW i \in 0 .. n
          PROVE  f[i] = IF i = 0 THEN t ELSE Saved(f[i - 1], dir, files[i])
      <4>1. f[0] = t /\ \A j \in 1 .. n : f[j] = Saved(f[j - 1], dir, files[j])
        BY <2>1 DEF SavesFiles
      <4>2. i = 0 \/ i \in 1 .. n
        BY <1>1
      <4> QED
        BY <4>1, <4>2
    <3> QED
      BY <3>1, <3>2
  <2> HIDE DEF Rec
  <2> QED
    BY <2>2
<1> HIDE DEF g
<1> DEFINE T == {i \in 0 .. n : Extends(g[i], t, dir)}
<1>4. 0 \in T
  BY <1>1, <1>3 DEF Extends
<1>5. ASSUME NEW i \in 0 .. n, i \in T, i < n PROVE i + 1 \in T
  <2>1. Extends(g[i], t, dir)
    BY <1>5
  <2>2. i + 1 \in 0 .. n /\ g[i + 1] = Saved(g[i], dir, files[i + 1])
    BY <1>1, <1>3, <1>5
  <2>3. Extends(Saved(g[i], dir, files[i + 1]), g[i], dir)
    BY <2>1, SavedOK DEF Extends
  <2> QED
    BY <2>1, <2>2, <2>3 DEF Extends
<1>6. n \in T
  <2> HIDE DEF T
  <2> QED
    BY <1>1, <1>4, <1>5, Climb
<1> QED
  BY <1>2, <1>6

-----------------------------------------------------------------------------
(* The virtual workspace.                                                    *)

Walks(g, start, segments, k) ==
  /\ g = [i \in 0 .. k |-> g[i]]
  /\ g[0] = start
  /\ \A i \in 1 .. k : g[i] = Step(g[i - 1], segments[i])

LEMMA WalksSome ==
  ASSUME NEW start, NEW segments, NEW n \in Nat
  PROVE  \E g : Walks(g, start, segments, n)
<1> DEFINE T == {k \in 0 .. n : \E g : Walks(g, start, segments, k)}
<1>1. 0 \in T
  <2> DEFINE g == [i \in 0 .. 0 |-> start]
  <2>1. Walks(g, start, segments, 0)
    BY DEF Walks
  <2> QED
    BY <2>1
<1>2. ASSUME NEW k \in 0 .. n, k \in T, k < n PROVE k + 1 \in T
  <2>1. PICK g : Walks(g, start, segments, k)
    BY <1>2
  <2> DEFINE h == [i \in 0 .. k + 1 |-> IF i = k + 1 THEN Step(g[k], segments[k + 1]) ELSE g[i]]
  <2>2. Walks(h, start, segments, k + 1)
    <3>1. h = [i \in 0 .. k + 1 |-> h[i]] /\ h[0] = start
      BY <2>1 DEF Walks
    <3>2. ASSUME NEW i \in 1 .. k + 1 PROVE h[i] = Step(h[i - 1], segments[i])
      <4>1. CASE i = k + 1
        BY <4>1
      <4>2. CASE i \in 1 .. k
        <5>1. h[i] = g[i] /\ h[i - 1] = g[i - 1]
          BY <4>2
        <5> QED
          BY <2>1, <4>2, <5>1 DEF Walks
      <4> QED
        BY <4>1, <4>2
    <3> HIDE DEF h
    <3> QED
      BY <3>1, <3>2 DEF Walks
  <2>3. k + 1 \in 0 .. n
    BY <1>2
  <2> QED
    BY <2>2, <2>3
<1>3. n \in T
  <2> HIDE DEF T
  <2> QED
    BY <1>1, <1>2, Climb
<1> QED
  BY <1>3

WalkedTo(at) == DOMAIN at = {"parts", "escaped"} /\ IsPath(at.parts)

LEMMA StepWalks ==
  ASSUME NEW at, WalkedTo(at), NEW seg
  PROVE  WalkedTo(Step(at, seg))
<1>1. IsPath(Append(at.parts, seg)) /\ IsPath(Front(at.parts))
  BY AppendPath, FrontPath DEF WalkedTo
<1> QED
  BY <1>1 DEF WalkedTo, Step

LEMMA WalkIsPath ==
  ASSUME NEW base, IsPath(base), NEW segments, IsPath(segments)
  PROVE  IsPath(Walk(base, segments).parts)
<1> DEFINE n == Len(segments)
           start == [parts |-> base, escaped |-> FALSE]
           Rec(g) == g = [i \in 0 .. n |-> IF i = 0 THEN start ELSE Step(g[i - 1], segments[i])]
           g == CHOOSE g : Rec(g)
<1>1. n \in Nat
  BY PathIs
<1>2. Walk(base, segments) = g[n]
  BY DEF Walk
<1>0. WalkedTo(start)
  BY DEF WalkedTo
<1> HIDE DEF n, start
<1>3. Rec(g)
  <2>1. PICK f : Walks(f, start, segments, n)
    BY <1>1, WalksSome
  <2>2. Rec(f)
    <3>1. f = [i \in 0 .. n |-> f[i]]
      BY <2>1 DEF Walks
    <3>2. ASSUME NEW i \in 0 .. n
          PROVE  f[i] = IF i = 0 THEN start ELSE Step(f[i - 1], segments[i])
      <4>1. f[0] = start /\ \A j \in 1 .. n : f[j] = Step(f[j - 1], segments[j])
        BY <2>1 DEF Walks
      <4>2. i = 0 \/ i \in 1 .. n
        BY <1>1
      <4> QED
        BY <4>1, <4>2
    <3> QED
      BY <3>1, <3>2
  <2> HIDE DEF Rec
  <2> QED
    BY <2>2
<1> HIDE DEF g
<1> DEFINE T == {i \in 0 .. n : WalkedTo(g[i])}
<1>4. 0 \in T
  <2>1. 0 \in 0 .. n /\ g[0] = start
    BY <1>1, <1>3
  <2> QED
    BY <1>0, <2>1
<1>5. ASSUME NEW i \in 0 .. n, i \in T, i < n PROVE i + 1 \in T
  <2>1. i + 1 \in 0 .. n /\ g[i + 1] = Step(g[i], segments[i + 1])
    BY <1>1, <1>3, <1>5
  <2> QED
    BY <1>5, <2>1, StepWalks
<1>6. n \in T
  <2> HIDE DEF T
  <2> QED
    BY <1>1, <1>4, <1>5, Climb
<1> QED
  BY <1>2, <1>6 DEF WalkedTo

\* A reading of a path changes at most its first and its last name.
LEMMA TypedIs ==
  ASSUME NEW p, IsPath(p)
  PROVE  /\ IsPath(Typed(p)) /\ Len(Typed(p)) = Len(p) /\ (p # <<>> => Typed(p) # <<>>)
         /\ \A i \in 1 .. Len(p) : i # Len(p) \/ p[i] \notin DOMAIN Trailing => Typed(p)[i] = p[i]
         /\ ~Frayed(p) => Typed(p) = p
<1> DEFINE f == Typed(p)
           n == Len(p)
<1>1. n \in Nat /\ DOMAIN p = 1 .. n /\ p = [i \in 1 .. n |-> p[i]] /\ (p # <<>> <=> n > 0)
  BY PathIs
<1>2. /\ f = [i \in 1 .. n |-> f[i]] /\ DOMAIN f = 1 .. n
      /\ \A i \in 1 .. n : i # n \/ p[i] \notin DOMAIN Trailing => f[i] = p[i]
  BY <1>1 DEF Typed
<1> HIDE DEF f
<1>3. ~Frayed(p) => f = p
  <2> SUFFICES ASSUME ~Frayed(p) PROVE \A i \in 1 .. n : f[i] = p[i]
    BY <1>1, <1>2
  <2> QED
    BY <1>1, <1>2 DEF Frayed
<1>4. f \in Seq(ToSet(f))
  <2>1. f \in [1 .. n -> ToSet(f)]
    BY <1>2 DEF ToSet
  <2> QED
    BY <1>1, <2>1, SeqDef
<1>5. IsPath(f)
  BY <1>4, SeqIsPath
<1>6. Len(f) = n
  BY <1>1, <1>2, <1>4, LenProperties
<1>7. p # <<>> => f # <<>>
  BY <1>1, <1>5, <1>6, PathIs
<1> QED
  BY <1>2, <1>3, <1>5, <1>6, <1>7 DEF f

LEMMA PhysicalIs ==
  ASSUME NEW p, IsPath(p)
  PROVE  IsPath(Physical(p)) /\ (~Frayed(p) => Physical(p) = p)
<1> DEFINE f == Physical(p)
           n == Len(p)
<1>1. n \in Nat /\ DOMAIN p = 1 .. n /\ p = [i \in 1 .. n |-> p[i]]
  BY PathIs
<1>2. /\ f = [i \in 1 .. n |-> f[i]] /\ DOMAIN f = 1 .. n
      /\ \A i \in 1 .. n : i # 1 \/ p[i] \notin DOMAIN Leading => f[i] = Typed(p)[i]
  BY <1>1 DEF Physical
<1> HIDE DEF f
<1>3. ASSUME ~Frayed(p) PROVE f = p
  <2>1. ASSUME NEW i \in 1 .. n PROVE f[i] = p[i]
    <3>1. Typed(p) = p /\ p # <<>>
      BY <1>3, TypedIs
    <3>2. i # 1 \/ p[i] \notin DOMAIN Leading
      BY <1>3, <3>1 DEF Frayed
    <3> QED
      BY <1>2, <3>1, <3>2
  <2> QED
    BY <1>1, <1>2, <2>1
<1>4. f \in [1 .. n -> ToSet(f)]
  BY <1>2 DEF ToSet
<1>5. IsPath(f)
  BY <1>1, <1>4, SeqDef, SeqIsPath
<1> QED
  BY <1>3, <1>5 DEF f

LEMMA TargetIs ==
  ASSUME NEW u, NEW m, NEW parts, Target(u, m, parts).type = "space"
  PROVE  /\ Target(u, m, parts).owner \in {u} \cup DOMAIN m
         /\ IsPath(parts) => IsPath(Target(u, m, parts).path)
<1>1. CASE parts # <<>> /\ parts[1] \notin Reserved
  BY <1>1, PhysicalIs DEF Target
<1>2. CASE /\ parts # <<>> /\ parts[1] \in Reserved /\ Len(parts) # 1
           /\ parts[2] \in DOMAIN m /\ CategoryOf[parts[2]] = parts[1]
  <2>1. Target(u, m, parts) = [type |-> "space", owner |-> parts[2],
                               path |-> Physical(SubSeq(parts, 3, Len(parts)))]
    BY <1>2 DEF Target
  <2>2. ASSUME IsPath(parts) PROVE IsPath(SubSeq(parts, 3, Len(parts)))
    <3>1. Len(parts) \in Nat /\ \A i \in 1 .. Len(parts) : parts[i] \in ToSet(parts)
      BY <2>2, PathIs
    <3>2. \A i \in 3 .. Len(parts) : parts[i] \in ToSet(parts)
      BY <3>1
    <3>3. SubSeq(parts, 3, Len(parts)) \in Seq(ToSet(parts))
      BY <3>1, <3>2, SubSeqProperties
    <3> QED
      BY <3>3, SeqIsPath
  <2> QED
    BY <1>2, <2>1, <2>2, PhysicalIs
<1>3. CASE \/ parts = <<>>
           \/ parts[1] \in Reserved /\ Len(parts) = 1
           \/ /\ parts[1] \in Reserved /\ Len(parts) # 1
              /\ ~(parts[2] \in DOMAIN m /\ CategoryOf[parts[2]] = parts[1])
  BY <1>3 DEF Target
<1> QED
  BY <1>1, <1>2, <1>3

CwdOK(u) == cwd[u] = None \/ IsPath(cwd[u])

LEMMA ParseIsPath ==
  ASSUME NEW u, CwdOK(u), NEW m, NEW trees, NEW arg, Argument(arg)
  PROVE  IsPath(Parse(u, m, trees, arg).parts)
<1>1. IsPath(CwdParts(u, m, trees))
  BY EmptyPath DEF CwdParts, CwdOK
<1>2. CASE arg = None
  BY <1>1, <1>2 DEF Parse
<1>3. CASE arg # None
  <2>1. Parse(u, m, trees, arg)
          = Walk(IF arg.rooted THEN <<>> ELSE CwdParts(u, m, trees), arg.segments)
    BY <1>3 DEF Parse
  <2> QED
    BY <1>1, <1>3, <2>1, EmptyPath, WalkIsPath DEF Argument
<1> QED
  BY <1>2, <1>3

LEMMA ResolveIs ==
  ASSUME NEW u, CwdOK(u), NEW m, NEW trees, NEW arg, Argument(arg),
         Resolve(u, m, trees, arg).type = "space"
  PROVE  /\ Resolve(u, m, trees, arg).owner \in {u} \cup DOMAIN m
         /\ IsPath(Resolve(u, m, trees, arg).path)
<1> DEFINE at == Parse(u, m, trees, arg)
<1>1. ~at.escaped /\ Resolve(u, m, trees, arg) = Target(u, m, at.parts)
  BY DEF Resolve
<1>2. IsPath(at.parts)
  BY ParseIsPath
<1> HIDE DEF at
<1> QED
  BY <1>1, <1>2, TargetIs

-----------------------------------------------------------------------------
(* rm.                                                                       *)

\* What a command of u with the mounts m may write.
MayWrite(u, m, o) == o = u \/ (o \in DOMAIN m /\ m[o])

Shrunk(new, old) == DOMAIN new \subseteq DOMAIN old /\ \A p \in DOMAIN new : new[p] = old[p]

\* How far an rm has come.
Removing(d, u, m) ==
  /\ DOMAIN d = {"trees", "failed"} /\ DOMAIN d.trees = Spaces
  /\ \A o \in Spaces : /\ TreeOK(d.trees[o]) /\ Shrunk(d.trees[o], tree[o])
                       /\ d.trees[o] # tree[o] => MayWrite(u, m, o)

LEMMA RemoveOneOK ==
  ASSUME NEW u \in Users, CwdOK(u), NEW m, DOMAIN m \subseteq Shared, NEW command,
         NEW arg, Argument(arg), NEW d, Removing(d, u, m)
  PROVE  Removing(RemoveOne(u, m, command, d, arg), u, m)
<1> DEFINE target == Resolve(u, m, d.trees, arg)
           writable == Writable(u, m, target)
           present == writable /\ Exists(d.trees[target.owner], target.path)
           removes == present /\ CanRemove(d.trees[target.owner], target.path, command.recursive)
           new == Removed(d.trees[target.owner], target.path)
<1>1. CASE d.failed
  BY <1>1 DEF RemoveOne
<1>2. CASE ~d.failed /\ removes
  <2>1. RemoveOne(u, m, command, d, arg) = [d EXCEPT !.trees[target.owner] = new]
    BY <1>2 DEF RemoveOne
  <2>2. /\ target.type = "space" /\ MayWrite(u, m, target.owner) /\ target.owner \in Spaces
    <3>1. target.owner \in {u} \cup DOMAIN m
      BY <1>2, ResolveIs DEF Writable
    <3> HIDE DEF target
    <3> QED
      BY <1>2, <3>1 DEF Writable, MayWrite, Spaces
  <2>3. /\ target.path \in DOMAIN d.trees[target.owner] /\ Removable(target.path)
    BY <1>2 DEF CanRemove, Exists
  <2> DEFINE o == target.owner
             t == d.trees[o]
             trees == [d.trees EXCEPT ![o] = new]
  <2>4. TreeOK(t) /\ Shrunk(t, tree[o])
    BY <2>2 DEF Removing
  <2>5. TreeOK(new) /\ Shrunk(new, t)
    <3> HIDE DEF target
    <3> QED
      BY <2>3, <2>4, RemovedOK DEF Shrunk
  <2>6. Shrunk(new, tree[o])
    <3> HIDE DEF new, t, o
    <3> QED
      BY <2>4, <2>5 DEF Shrunk
  <2> HIDE DEF target, new
  <2>7. [d EXCEPT !.trees[o] = new] = [d EXCEPT !.trees = trees]
    OBVIOUS
  <2>8. DOMAIN trees = Spaces /\ trees[o] = new /\ \A p \in Spaces \ {o} : trees[p] = d.trees[p]
    BY <2>2 DEF Removing
  <2> DEFINE r == [d EXCEPT !.trees = trees]
  <2>9. DOMAIN r = {"trees", "failed"} /\ r.trees = trees
    BY DEF Removing
  <2> HIDE DEF r, trees, o, t
  <2>10. Removing(r, u, m)
    <3>1. ASSUME NEW p \in Spaces
          PROVE  /\ TreeOK(trees[p]) /\ Shrunk(trees[p], tree[p])
                 /\ trees[p] # tree[p] => MayWrite(u, m, p)
      BY <2>2, <2>5, <2>6, <2>8 DEF Removing, o
    <3> QED
      BY <2>8, <2>9, <3>1 DEF Removing
  <2> QED
    BY <2>1, <2>7, <2>10 DEF r, o
<1>3. CASE ~d.failed /\ ~removes
  <2> DEFINE fails == ~(writable /\ ~present /\ command.force)
             r == [d EXCEPT !.failed = fails]
  <2>1. RemoveOne(u, m, command, d, arg) = r
    BY <1>3 DEF RemoveOne
  <2> HIDE DEF fails
  <2>2. DOMAIN r = DOMAIN d /\ r.trees = d.trees
    BY DEF Removing
  <2> HIDE DEF r
  <2>3. Removing(r, u, m)
    BY <2>2 DEF Removing
  <2> QED
    BY <2>1, <2>3
<1> QED
  BY <1>1, <1>2, <1>3

Removes(g, u, m, command, start, k) ==
  /\ g = [i \in 0 .. k |-> g[i]]
  /\ g[0] = start
  /\ \A i \in 1 .. k : g[i] = RemoveOne(u, m, command, g[i - 1], command.args[i])

LEMMA RemovesSome ==
  ASSUME NEW u, NEW m, NEW command, NEW start, NEW n \in Nat
  PROVE  \E g : Removes(g, u, m, command, start, n)
<1> DEFINE Next1(d, i) == RemoveOne(u, m, command, d, command.args[i])
           T == {k \in 0 .. n : \E g : Removes(g, u, m, command, start, k)}
<1> HIDE DEF Next1
<1>1. 0 \in T
  <2> DEFINE g == [i \in 0 .. 0 |-> start]
  <2>1. Removes(g, u, m, command, start, 0)
    BY DEF Removes
  <2> QED
    BY <2>1
<1>2. ASSUME NEW k \in 0 .. n, k \in T, k < n PROVE k + 1 \in T
  <2>1. PICK g : Removes(g, u, m, command, start, k)
    BY <1>2
  <2> DEFINE h == [i \in 0 .. k + 1 |-> IF i = k + 1 THEN Next1(g[k], k + 1) ELSE g[i]]
  <2>2. Removes(h, u, m, command, start, k + 1)
    <3>1. h = [i \in 0 .. k + 1 |-> h[i]] /\ h[0] = start
      BY <2>1 DEF Removes
    <3>2. ASSUME NEW i \in 1 .. k + 1 PROVE h[i] = Next1(h[i - 1], i)
      <4>1. CASE i = k + 1
        BY <4>1
      <4>2. CASE i \in 1 .. k
        <5>1. h[i] = g[i] /\ h[i - 1] = g[i - 1]
          BY <4>2
        <5> QED
          BY <2>1, <4>2, <5>1 DEF Removes, Next1
      <4> QED
        BY <4>1, <4>2
    <3> HIDE DEF h
    <3> QED
      BY <3>1, <3>2 DEF Removes, Next1
  <2>3. k + 1 \in 0 .. n
    BY <1>2
  <2> QED
    BY <2>2, <2>3
<1>3. n \in T
  <2> HIDE DEF T
  <2> QED
    BY <1>1, <1>2, Climb
<1> QED
  BY <1>3

\* An rm only removes, and only where the user may write.
LEMMA RemoveAllOK ==
  ASSUME NEW u \in Users, CwdOK(u), NEW m, DOMAIN m \subseteq Shared, NEW command,
         IsPath(command.args), \A i \in DOMAIN command.args : Argument(command.args[i]),
         DOMAIN tree = Spaces, \A o \in Spaces : TreeOK(tree[o])
  PROVE  Removing(RemoveAll(u, m, command), u, m)
<1> DEFINE n == Len(command.args)
           start == [trees |-> tree, failed |-> FALSE]
           Rec(g) == g = [i \in 0 .. n |-> IF i = 0 THEN start
                                           ELSE RemoveOne(u, m, command, g[i - 1], command.args[i])]
           g == CHOOSE g : Rec(g)
<1>1. n \in Nat /\ DOMAIN command.args = 1 .. n
  BY PathIs
<1>2. RemoveAll(u, m, command) = g[n]
  BY DEF RemoveAll
<1>0. Removing(start, u, m)
  BY DEF Removing, Shrunk
<1> HIDE DEF n, start
<1>3. Rec(g)
  <2>1. PICK f : Removes(f, u, m, command, start, n)
    BY <1>1, RemovesSome
  <2>2. Rec(f)
    <3>1. f = [i \in 0 .. n |-> f[i]]
      BY <2>1 DEF Removes
    <3>2. ASSUME NEW i \in 0 .. n
          PROVE  f[i] = IF i = 0 THEN start
                        ELSE RemoveOne(u, m, command, f[i - 1], command.args[i])
      <4>1. /\ f[0] = start
            /\ \A j \in 1 .. n : f[j] = RemoveOne(u, m, command, f[j - 1], command.args[j])
        BY <2>1 DEF Removes
      <4>2. i = 0 \/ i \in 1 .. n
        BY <1>1
      <4> QED
        BY <4>1, <4>2
    <3> QED
      BY <3>1, <3>2
  <2> HIDE DEF Rec
  <2> QED
    BY <2>2
<1> HIDE DEF g
<1> DEFINE T == {i \in 0 .. n : Removing(g[i], u, m)}
<1>4. 0 \in T
  <2>1. 0 \in 0 .. n /\ g[0] = start
    BY <1>1, <1>3
  <2> QED
    BY <1>0, <2>1
<1>5. ASSUME NEW i \in 0 .. n, i \in T, i < n PROVE i + 1 \in T
  <2>1. i + 1 \in 0 .. n /\ i + 1 \in DOMAIN command.args /\ i + 1 # 0 /\ i + 1 - 1 = i
    BY <1>1, <1>5
  <2> DEFINE j == i + 1
  <2>2. g[j] = RemoveOne(u, m, command, g[j - 1], command.args[j])
    <3> HIDE DEF j
    <3> QED
      BY <1>3, <2>1 DEF j
  <2>3. Removing(g[i], u, m) /\ Argument(command.args[i + 1])
    BY <1>5, <2>1
  <2>4. Removing(RemoveOne(u, m, command, g[i], command.args[i + 1]), u, m)
    BY <2>3, RemoveOneOK
  <2> QED
    BY <2>1, <2>2, <2>4
<1>6. n \in T
  <2>1. \A i \in 0 .. n : i \in T /\ i < n => i + 1 \in T
    BY <1>5
  <2> HIDE DEF T
  <2>2. \A i \in 0 .. n : i \in T
    BY <1>1, <1>4, <2>1, Climb
  <2> QED
    BY <1>1, <2>2
<1> QED
  BY <1>2, <1>6

-----------------------------------------------------------------------------
(* The inductive invariant.  A command under way knows of every right there  *)
(* has been since it came, so that what it remembers of its user, and the    *)
(* mounts it made of that, gives it no right there was not; and every owner  *)
(* it has mounted was there when it came.                                    *)

JobOK(s) ==
  /\ DOMAIN job[s] = {"pc", "command", "snap", "mounts", "born", "seen"}
  /\ job[s].pc \in {"idle", "received", "read", "mounted"}
  /\ job[s].pc # "idle" =>
       /\ job[s].command \in Commands
       /\ UserOf[s] \in job[s].born /\ rows \subseteq job[s].born
       /\ facts \subseteq job[s].seen
       /\ job[s].snap = None \/ job[s].snap \subseteq job[s].seen
  /\ job[s].pc = "mounted" =>
       /\ DOMAIN job[s].mounts \subseteq job[s].born \cap Shared
       /\ \A o \in DOMAIN job[s].mounts :
            job[s].mounts[o] => MightWrite(UserOf[s], o, job[s].seen)

Trees == DOMAIN tree = Spaces /\ \A o \in Spaces : TreeOK(tree[o])
Cwds == DOMAIN cwd = Users /\ \A u \in Users : CwdOK(u)
Rows == rows \subseteq Spaces /\ doomed \subseteq Spaces \ rows
Jobs == DOMAIN job = Sessions /\ \A s \in Sessions : JobOK(s)

IInv == Trees /\ Cwds /\ Rows /\ Jobs

LEMMA InitInv == Init => IInv
<1> SUFFICES ASSUME Init PROVE IInv
  OBVIOUS
<1>1. Trees /\ Cwds
  BY FileSpaceAssumption DEF Init, Trees, Cwds, CwdOK
<1>2. Rows
  BY DEF Init, Rows
<1>3. Jobs
  BY DEF Init, Jobs, JobOK, NoJob
<1> QED
  BY <1>1, <1>2, <1>3 DEF IInv

LEMMA InvTypes == IInv => TypeOK
BY DEF IInv, Trees, Cwds, CwdOK, Rows, Jobs, JobOK, TypeOK

\* A job that goes on, while owners and rights go.
LEMMA JobKept ==
  ASSUME NEW s \in Sessions, JobOK(s), job'[s] = job[s],
         rows' \subseteq rows, facts' \subseteq facts
  PROVE  JobOK(s)'
BY DEF JobOK

\* Only the job of s is another.
LEMMA JobsButOne ==
  ASSUME Jobs, NEW s \in Sessions, NEW j, job' = [job EXCEPT ![s] = j],
         rows' \subseteq rows, facts' \subseteq facts, JobOK(s)'
  PROVE  Jobs'
<1>1. DOMAIN job' = Sessions /\ \A r \in Sessions \ {s} : job'[r] = job[r]
  BY DEF Jobs
<1>2. \A r \in Sessions \ {s} : JobOK(r)'
  BY <1>1, JobKept DEF Jobs
<1> QED
  BY <1>1, <1>2 DEF Jobs

LEMMA JobsSame ==
  ASSUME Jobs, job' = job, rows' \subseteq rows, facts' \subseteq facts
  PROVE  Jobs'
BY JobKept DEF Jobs

LEMMA ReadyOK ==
  ASSUME Trees, NEW owners, tree' = Ready(tree, owners)
  PROVE  Trees'
BY EnsureReadyOK DEF Trees, Ready

LEMMA UsersAre ==
  ASSUME NEW s \in Sessions
  PROVE  UserOf[s] \in Users /\ UserOf[s] \in Spaces /\ UserOf[s] \notin Shared
BY FileSpaceAssumption DEF Spaces

-----------------------------------------------------------------------------
(* A command before it is carried out.                                       *)

LEMMA ReceiveInv ==
  ASSUME IInv, NEW s \in Sessions, Receive(s)
  PROVE  IInv'
<1>1. PICK c \in Commands :
        job' = [job EXCEPT ![s] = [NoJob EXCEPT !.pc = "received", !.command = c, !.born = rows,
                                                !.snap = FactsOf(UserOf[s]), !.seen = facts]]
  BY DEF Receive
<1> DEFINE j == [NoJob EXCEPT !.pc = "received", !.command = c, !.born = rows,
                              !.snap = FactsOf(UserOf[s]), !.seen = facts]
<1>2. /\ DOMAIN j = {"pc", "command", "snap", "mounts", "born", "seen"} /\ j.pc = "received"
      /\ j.command = c /\ j.snap = FactsOf(UserOf[s]) /\ j.born = rows /\ j.seen = facts
  BY DEF NoJob
<1> HIDE DEF j
<1>3. job'[s] = j /\ job' = [job EXCEPT ![s] = j]
  BY <1>1 DEF IInv, Jobs, j
<1>4. UNCHANGED <<tree, cwd, rows, doomed, facts>> /\ UserOf[s] \in rows
  BY DEF Receive, disk
<1>5. FactsOf(UserOf[s]) \subseteq facts
  BY DEF FactsOf
<1>6. JobOK(s)'
  BY <1>2, <1>3, <1>4, <1>5 DEF JobOK
<1>7. Jobs'
  BY <1>3, <1>4, <1>6, JobsButOne DEF IInv
<1> QED
  BY <1>4, <1>7 DEF IInv, Trees, Cwds, CwdOK, Rows

LEMMA ReadUserInv ==
  ASSUME IInv, NEW s \in Sessions, ReadUser(s)
  PROVE  IInv'
<1>1. /\ UNCHANGED <<cwd, rows, doomed, facts>> /\ tree' = Ready(tree, {UserOf[s]})
      /\ job[s].pc = "received"
  BY DEF ReadUser
<1>2. PICK snap \in IF UserOf[s] \in rows THEN {FactsOf(UserOf[s])} ELSE {job[s].snap, None} :
        job' = [job EXCEPT ![s].pc = "read", ![s].snap = snap]
  BY DEF ReadUser
<1> DEFINE j == [job[s] EXCEPT !.pc = "read", !.snap = snap]
<1>3. job' = [job EXCEPT ![s] = j]
  BY <1>2 DEF IInv, Jobs
<1>4. /\ DOMAIN j = DOMAIN job[s] /\ j.pc = "read" /\ j.snap = snap
      /\ j.command = job[s].command /\ j.born = job[s].born /\ j.seen = job[s].seen
  BY DEF IInv, Jobs, JobOK
<1> HIDE DEF j
<1>5. job'[s] = j
  BY <1>3 DEF IInv, Jobs
<1>6. JobOK(s)
  BY DEF IInv, Jobs
<1>7. snap = None \/ snap \subseteq job[s].seen
  BY <1>1, <1>2, <1>6 DEF JobOK, FactsOf
<1>8. JobOK(s)'
  BY <1>1, <1>4, <1>5, <1>6, <1>7 DEF JobOK
<1>9. Jobs' /\ Trees'
  BY <1>1, <1>3, <1>8, JobsButOne, ReadyOK DEF IInv
<1> QED
  BY <1>1, <1>9 DEF IInv, Cwds, CwdOK, Rows

\* The right to write that the mounts give is one there is, or was.
LEMMA MountsAreRights ==
  ASSUME NEW u, NEW o, o \in Shared, NEW snap, NEW known, snap \subseteq known,
         facts \subseteq known, CanWrite(u, o, snap, facts)
  PROVE  MightWrite(u, o, known)
<1>1. Groups \cap Classes = {} /\ Orgs \cap (Groups \cup Classes) = {}
  BY FileSpaceAssumption
<1>2. ASSUME NEW c \in Classes, CanWriteClass(u, c, snap, facts)
      PROVE  \/ <<"admin", u>> \in known
             \/ \E role \in {"creator", "teaches", "cadre"}, t \in {c, GroupOf[c]} :
                  <<role, u, t>> \in known
  BY <1>2 DEF CanWriteClass
<1>3. CASE o \in Classes /\ CanWriteClass(u, o, snap, facts)
  <2>1. o \notin Orgs /\ {o, GroupOf[o]} \subseteq Tied(o)
    BY <1>1, <1>3 DEF Tied
  <2> QED
    BY <1>2, <1>3, <2>1 DEF MightWrite
<1>4. CASE o \in Groups /\ CanWriteGroup(u, o, snap, facts)
  <2>1. o \notin Orgs /\ o \in Tied(o) /\ \A c \in Classes : GroupOf[c] = o => c \in Tied(o)
    BY <1>1, <1>4 DEF Tied
  <2>2. CASE \E c \in Classes \cap rows : GroupOf[c] = o /\ CanWriteClass(u, c, snap, facts)
    <3>1. PICK c \in Classes : GroupOf[c] = o /\ CanWriteClass(u, c, snap, facts)
      BY <2>2
    <3>2. {c, GroupOf[c]} \subseteq Tied(o)
      BY <2>1, <3>1
    <3> QED
      BY <1>2, <2>1, <3>1, <3>2 DEF MightWrite
  <2>3. CASE <<"admin", u>> \in snap \/ <<"creator", u, o>> \in facts
    BY <2>1, <2>3 DEF MightWrite
  <2> QED
    BY <1>4, <2>2, <2>3 DEF CanWriteGroup
<1>5. CASE o \in Orgs /\ <<"admin", u>> \in snap
  BY <1>5 DEF MightWrite
<1> QED
  BY <1>3, <1>4, <1>5 DEF CanWrite

LEMMA ReadMountsInv ==
  ASSUME IInv, NEW s \in Sessions, ReadMounts(s)
  PROVE  IInv'
<1> DEFINE mounts == BuildMounts(UserOf[s], ChannelOf[s], job[s].snap)
<1>1. /\ UNCHANGED <<cwd, rows, doomed, facts>> /\ tree' = Ready(tree, DOMAIN mounts)
      /\ job' = [job EXCEPT ![s].pc = "mounted", ![s].mounts = mounts]
      /\ job[s].pc = "read"
  BY DEF ReadMounts
<1>2. JobOK(s)
  BY DEF IInv, Jobs
<1>3. /\ DOMAIN mounts \subseteq rows \cap Shared
      /\ \A o \in DOMAIN mounts : mounts[o] => /\ job[s].snap # None
                                               /\ CanWrite(UserOf[s], o, job[s].snap, facts)
  <2>1. ASSUME NEW snap PROVE MountedBy(UserOf[s], snap, facts) \subseteq rows \cap Shared
    <3>1. ClassesOf(UserOf[s], snap, facts) \subseteq Classes \cap rows
      BY DEF ClassesOf
    <3>2. UNION {OrgsOf[c] : c \in ClassesOf(UserOf[s], snap, facts)} \subseteq Orgs
      BY <3>1, FileSpaceAssumption
    <3> QED
      BY <3>1, <3>2 DEF MountedBy, Shared
  <2>2. {ChannelOf[s]} \cap rows \subseteq Shared
    <3>1. ChannelOf[s] \in Groups \/ ChannelOf[s] \notin rows
      BY FileSpaceAssumption DEF IInv, Rows
    <3> QED
      BY <3>1 DEF Shared
  <2> QED
    BY <2>1, <2>2 DEF BuildMounts
<1> HIDE DEF mounts
<1> DEFINE j == [job[s] EXCEPT !.pc = "mounted", !.mounts = mounts]
<1>4. job' = [job EXCEPT ![s] = j]
  BY <1>1 DEF IInv, Jobs
<1>5. /\ DOMAIN j = DOMAIN job[s] /\ j.pc = "mounted" /\ j.mounts = mounts
      /\ j.snap = job[s].snap
      /\ j.command = job[s].command /\ j.born = job[s].born /\ j.seen = job[s].seen
  BY <1>2 DEF JobOK
<1> HIDE DEF j
<1>6. job'[s] = j
  BY <1>4 DEF IInv, Jobs
<1>7. \A o \in DOMAIN mounts : mounts[o] => MightWrite(UserOf[s], o, job[s].seen)
  <2> SUFFICES ASSUME NEW o \in DOMAIN mounts, mounts[o]
               PROVE  MightWrite(UserOf[s], o, job[s].seen)
    OBVIOUS
  <2>1. /\ o \in Shared /\ CanWrite(UserOf[s], o, job[s].snap, facts)
        /\ job[s].snap \subseteq job[s].seen /\ facts \subseteq job[s].seen
    BY <1>1, <1>2, <1>3 DEF JobOK
  <2> QED
    BY <2>1, MountsAreRights
<1>8. \A o : MightWrite(UserOf[s], o, job[s].seen)' <=> MightWrite(UserOf[s], o, job[s].seen)
  BY <1>5, <1>6 DEF MightWrite, Tied
<1>9. JobOK(s)'
  <2>1. DOMAIN mounts \subseteq job[s].born \cap Shared
    BY <1>1, <1>2, <1>3 DEF JobOK
  <2> QED
    BY <1>1, <1>2, <1>5, <1>6, <1>7, <1>8, <2>1 DEF JobOK
<1>10. Jobs' /\ Trees'
  BY <1>1, <1>4, <1>9, JobsButOne, ReadyOK DEF IInv
<1> QED
  BY <1>1, <1>10 DEF IInv, Cwds, CwdOK, Rows

-----------------------------------------------------------------------------
(* A command that is carried out.                                            *)

\* What a command leaves of a tree.
Keeps(new, old) == \A p \in DOMAIN old : p \in DOMAIN new /\ new[p] = old[p]

Obeys(s) ==
  /\ \A o \in Spaces : tree'[o] # tree[o] => MayWrite(UserOf[s], job[s].mounts, o)
  /\ \A o \in Spaces : \/ Keeps(tree'[o], tree[o])
                       \/ job[s].command.op = "rm" /\ Shrunk(tree'[o], tree[o])

\* The command of s ends, having done what it may do.
Carried(s) ==
  /\ job[s].pc = "mounted" /\ job' = [job EXCEPT ![s] = NoJob]
  /\ UNCHANGED <<rows, doomed, facts>>
  /\ Trees' /\ Cwds' /\ Obeys(s) /\ ShownResolves'

LEMMA MountedIs ==
  ASSUME IInv, NEW s \in Sessions, job[s].pc = "mounted"
  PROVE  /\ UserOf[s] \in Users /\ CwdOK(UserOf[s]) /\ Command(job[s].command)
         /\ DOMAIN job[s].mounts \subseteq Shared
<1>1. JobOK(s) /\ UserOf[s] \in Users
  BY UsersAre DEF IInv, Jobs
<1>2. job[s].command \in Commands
  BY <1>1 DEF JobOK
<1>3. Command(job[s].command)
  BY <1>2, FileSpaceAssumption
<1> QED
  BY <1>1, <1>3 DEF IInv, Cwds, JobOK

LEMMA AnswerIs ==
  ASSUME NEW s, NEW status, NEW at, NEW shown, Answer(s, status, at, shown)
  PROVE  /\ job' = [job EXCEPT ![s] = NoJob] /\ UNCHANGED <<rows, doomed, facts>>
         /\ reply'.to = s /\ reply'.command = job[s].command /\ reply'.at = at
         /\ reply'.mounts = job[s].mounts /\ reply'.shown = shown
         /\ shown = {} => ShownResolves'
BY DEF Answer, ShownResolves

LEMMA SameTree ==
  ASSUME IInv, tree' = tree, NEW s
  PROVE  Trees' /\ Obeys(s)
BY DEF IInv, Trees, Obeys, Keeps

\* One tree is replaced by one with more in it.
LEMMA PutTree ==
  ASSUME IInv, NEW s \in Sessions, NEW o \in Spaces, MayWrite(UserOf[s], job[s].mounts, o),
         NEW new, TreeOK(new), Keeps(new, tree[o]), tree' = [tree EXCEPT ![o] = new]
  PROVE  Trees' /\ Obeys(s)
<1>1. DOMAIN tree' = Spaces /\ tree'[o] = new /\ \A q \in Spaces \ {o} : tree'[q] = tree[q]
  BY DEF IInv, Trees
<1>2. Trees'
  BY <1>1 DEF IInv, Trees
<1>3. ASSUME NEW q \in Spaces
      PROVE  /\ tree'[q] # tree[q] => MayWrite(UserOf[s], job[s].mounts, q)
             /\ Keeps(tree'[q], tree[q])
  BY <1>1 DEF Keeps
<1> QED
  BY <1>2, <1>3 DEF Obeys

LEMMA WritableIs ==
  ASSUME IInv, NEW s \in Sessions, job[s].pc = "mounted", NEW arg, Argument(arg),
         NEW target, target = Resolve(UserOf[s], job[s].mounts, tree, arg),
         Writable(UserOf[s], job[s].mounts, target)
  PROVE  /\ target.owner \in Spaces /\ MayWrite(UserOf[s], job[s].mounts, target.owner)
         /\ IsPath(target.path) /\ TreeOK(tree[target.owner])
<1>1. /\ UserOf[s] \in Users /\ CwdOK(UserOf[s]) /\ DOMAIN job[s].mounts \subseteq Shared
  BY MountedIs
<1>2. target.type = "space" /\ (target.owner # UserOf[s] => job[s].mounts[target.owner])
  BY DEF Writable
<1>3. target.owner \in {UserOf[s]} \cup DOMAIN job[s].mounts /\ IsPath(target.path)
  BY <1>1, <1>2, ResolveIs
<1> QED
  BY <1>1, <1>2, <1>3 DEF MayWrite, Spaces, IInv, Trees

LEMMA CdCarried ==
  ASSUME IInv, NEW s \in Sessions, Cd(s)
  PROVE  Carried(s)
<1> DEFINE u == UserOf[s]
           m == job[s].mounts
           arg == job[s].command.arg
           at == IF arg = None THEN [parts |-> <<>>, escaped |-> FALSE] ELSE Parse(u, m, tree, arg)
           parts == IF at.escaped THEN <<>> ELSE at.parts
<1>1. job[s].pc = "mounted" /\ job[s].command.op = "cd" /\ tree' = tree
  BY DEF Cd, Doing
<1>2. cwd' = [cwd EXCEPT ![u] = parts] \/ cwd' = cwd
  BY DEF Cd
<1>3. \E status : Answer(s, status, parts, {})
  BY DEF Cd
<1>4. IsPath(parts)
  <2>1. Argument(arg) /\ CwdOK(u)
    BY <1>1, MountedIs DEF Command
  <2>2. IsPath(Parse(u, m, tree, arg).parts)
    BY <2>1, ParseIsPath
  <2>3. CASE arg = None
    BY <2>3, EmptyPath
  <2>4. CASE arg # None
    BY <2>2, <2>4, EmptyPath
  <2> QED
    BY <2>3, <2>4
<1> HIDE DEF parts
<1>5. Cwds'
  <2>1. DOMAIN cwd' = Users /\ \A v \in Users : cwd'[v] = cwd[v] \/ cwd'[v] = parts
    BY <1>2 DEF IInv, Cwds
  <2> QED
    BY <1>4, <2>1 DEF IInv, Cwds, CwdOK
<1> QED
  BY <1>1, <1>3, <1>5, AnswerIs, SameTree DEF Carried

LEMMA CreateCarried ==
  ASSUME IInv, NEW s \in Sessions, NEW op \in {"mkdir", "touch"}, NEW node, Create(s, op, node)
  PROVE  Carried(s)
<1> DEFINE u == UserOf[s]
           m == job[s].mounts
           arg == job[s].command.arg
           target == Resolve(u, m, tree, arg)
           creates == Writable(u, m, target) /\ CanCreate(tree[target.owner], target.path)
           new == With(tree[target.owner], target.path, node)
<1>1. job[s].pc = "mounted" /\ job[s].command.op = op /\ cwd' = cwd
  BY DEF Create, Doing
<1>2. (creates /\ tree' = [tree EXCEPT ![target.owner] = new]) \/ tree' = tree
  BY DEF Create
<1>3. \E status, at : Answer(s, status, at, {})
  BY DEF Create
<1>4. Trees' /\ Obeys(s)
  <2>1. CASE tree' = tree
    BY <2>1, SameTree
  <2>2. CASE creates /\ tree' = [tree EXCEPT ![target.owner] = new]
    <3>1. Argument(arg)
      BY <1>1, MountedIs DEF Command
    <3>2. /\ target.owner \in Spaces /\ MayWrite(u, m, target.owner)
          /\ IsPath(target.path) /\ TreeOK(tree[target.owner])
      BY <1>1, <2>2, <3>1, WritableIs
    <3> DEFINE t == tree[target.owner]
               p == target.path
    <3>3. ~Exists(t, p) /\ IsDir(t, Front(p))
      BY <2>2 DEF CanCreate
    <3>4. tree' = [tree EXCEPT ![target.owner] = With(t, p, node)]
      BY <2>2
    <3> HIDE DEF target
    <3>5. p # <<>>
      BY <3>2, <3>3, SomethingThere, PresentOK DEF IsDir, Exists
    <3>6. TreeOK(With(t, p, node))
      BY <3>2, <3>3, <3>5, WithOK DEF IsDir
    <3>7. Keeps(With(t, p, node), t)
      BY <3>3 DEF Keeps, With, Exists
    <3> QED
      BY <3>2, <3>4, <3>6, <3>7, PutTree
  <2> QED
    BY <1>2, <2>1, <2>2
<1>5. Cwds'
  BY <1>1 DEF IInv, Cwds, CwdOK
<1> QED
  BY <1>1, <1>3, <1>4, <1>5, AnswerIs DEF Carried

LEMMA UploadCarried ==
  ASSUME IInv, NEW s \in Sessions, Upload(s)
  PROVE  Carried(s)
<1> DEFINE u == UserOf[s]
           m == job[s].mounts
           arg == job[s].command.arg
           files == job[s].command.files
           target == Resolve(u, m, tree, arg)
           saves == Writable(u, m, target) /\ IsDir(tree[target.owner], target.path)
           new == AllSaved(tree[target.owner], target.path, files)
<1>1. job[s].pc = "mounted" /\ job[s].command.op = "upload" /\ cwd' = cwd
  BY DEF Upload, Doing
<1>2. (saves /\ tree' = [tree EXCEPT ![target.owner] = new]) \/ tree' = tree
  BY DEF Upload
<1>3. \E status, at : Answer(s, status, at, {})
  BY DEF Upload
<1>4. Trees' /\ Obeys(s)
  <2>1. CASE tree' = tree
    BY <2>1, SameTree
  <2>2. CASE saves /\ tree' = [tree EXCEPT ![target.owner] = new]
    <3>1. Argument(arg) /\ IsPath(files)
      BY <1>1, MountedIs DEF Command
    <3>2. /\ target.owner \in Spaces /\ MayWrite(u, m, target.owner)
          /\ TreeOK(tree[target.owner]) /\ IsDir(tree[target.owner], target.path)
      BY <1>1, <2>2, <3>1, WritableIs
    <3>3. Extends(new, tree[target.owner], target.path)
      <4> HIDE DEF target, files
      <4> QED
        BY <3>1, <3>2, AllSavedOK
    <3>4. TreeOK(new) /\ Keeps(new, tree[target.owner])
      <4> HIDE DEF target, new
      <4> QED
        BY <3>3 DEF Extends, Keeps
    <3> HIDE DEF target, new
    <3> QED
      BY <2>2, <3>2, <3>4, PutTree
  <2> QED
    BY <1>2, <2>1, <2>2
<1>5. Cwds'
  BY <1>1 DEF IInv, Cwds, CwdOK
<1> QED
  BY <1>1, <1>3, <1>4, <1>5, AnswerIs DEF Carried

LEMMA RmCarried ==
  ASSUME IInv, NEW s \in Sessions, Rm(s)
  PROVE  Carried(s)
<1> DEFINE done == RemoveAll(UserOf[s], job[s].mounts, job[s].command)
<1>1. job[s].pc = "mounted" /\ job[s].command.op = "rm" /\ cwd' = cwd /\ tree' = done.trees
  BY DEF Rm, Doing
<1>2. \E status, at : Answer(s, status, at, {})
  BY DEF Rm
<1>3. Removing(done, UserOf[s], job[s].mounts)
  <2>1. Command(job[s].command)
    BY <1>1, MountedIs
  <2>2. /\ IsPath(job[s].command.args)
        /\ \A i \in DOMAIN job[s].command.args : Argument(job[s].command.args[i])
    BY <1>1, <2>1 DEF Command
  <2> QED
    BY <1>1, <2>2, MountedIs, RemoveAllOK DEF IInv, Trees
<1> HIDE DEF done
<1>4. Trees' /\ Obeys(s)
  BY <1>1, <1>3 DEF Removing, Trees, Obeys
<1>5. Cwds'
  BY <1>1 DEF IInv, Cwds, CwdOK
<1> QED
  BY <1>1, <1>2, <1>4, <1>5, AnswerIs DEF Carried

-----------------------------------------------------------------------------
(* What ls and find show.                                                    *)

\* What is shown as e, by the command op on the path `at`, leads a user u with the
\* mounts m to e, as far as it does (ShownResolves).
Leads(u, m, op, at, e) ==
  LET target == Target(u, m, Typed(e.parts))
  IN  \/ target.type = "space" /\ target.owner = e.owner /\ target.path = e.path
      \/ target.type = "category" /\ e.owner = None
      \/ Frayed(e.path) /\ (target.type = "space" => target.owner = e.owner)
      \/ e.owner = u /\ e.path[1] \in Reserved /\ (op = "find" \/ Frayed(at))

\* The parts of a path shown in a mounted space.
LEMMA MountedParts ==
  ASSUME NEW c, NEW o, NEW q, IsPath(q)
  PROVE  LET parts == <<c, o>> \o q
         IN  /\ IsPath(parts) /\ Len(parts) = Len(q) + 2 /\ parts # <<>>
             /\ parts[1] = c /\ parts[2] = o /\ SubSeq(parts, 3, Len(parts)) = q
             /\ Len(q) > 0 => parts[Len(parts)] = q[Len(q)]
<1> DEFINE parts == <<c, o>> \o q
           S == ToSet(q) \cup {c, o}
<1>1. q \in Seq(S) /\ <<c, o>> \in Seq(S) /\ Len(<<c, o>>) = 2 /\ Len(q) \in Nat
  <2>1. q \in Seq(S)
    BY PathIs, SeqMonotonic
  <2>2. c \in S /\ o \in S
    OBVIOUS
  <2> HIDE DEF S
  <2> QED
    BY <2>1, <2>2
<1> HIDE DEF S
<1>2. /\ parts \in Seq(S) /\ Len(parts) = 2 + Len(q)
      /\ \A i \in 1 .. 2 + Len(q) : parts[i] = IF i <= 2 THEN <<c, o>>[i] ELSE q[i - 2]
  BY <1>1, ConcatProperties
<1> HIDE DEF parts
<1>3. parts # <<>>
  BY <1>1, <1>2, EmptySeq
<1>4. parts[1] = c /\ parts[2] = o
  BY <1>1, <1>2
<1> DEFINE f == SubSeq(parts, 3, Len(parts))
           n == Len(parts)
<1>5. \A i \in 3 .. n : parts[i] \in S
  BY <1>1, <1>2
<1>6. /\ f \in Seq(S) /\ Len(f) = (IF 3 <= n THEN n - 3 + 1 ELSE 0)
      /\ \A i \in 1 .. n - 3 + 1 : f[i] = parts[3 + i - 1]
  BY <1>1, <1>2, <1>5, SubSeqProperties
<1>7. n \in Nat /\ n = Len(q) + 2 /\ Len(q) \in Nat
  BY <1>1, <1>2
<1> HIDE DEF f, n
<1>8. Len(f) = Len(q)
  <2> DEFINE k == Len(f)
             l == Len(q)
  <2>1. k = (IF 3 <= n THEN n - 3 + 1 ELSE 0) /\ n = l + 2 /\ l \in Nat
    BY <1>6, <1>7
  <2> HIDE DEF k, l
  <2>2. k = l
    BY <2>1
  <2> QED
    BY <2>2 DEF k, l
<1>9. ASSUME NEW i \in 1 .. Len(q) PROVE f[i] = q[i]
  <2>1. i \in 1 .. n - 3 + 1 /\ 3 + i - 1 = i + 2 /\ i + 2 \in 1 .. 2 + Len(q) /\ ~(i + 2 <= 2)
    BY <1>7
  <2>2. f[i] = parts[i + 2] /\ parts[i + 2] = q[i + 2 - 2]
    BY <1>2, <1>6, <2>1
  <2> QED
    BY <2>2
<1>10. f = q
  BY <1>1, <1>6, <1>8, <1>9, SeqEqual
<1>11. ASSUME Len(q) > 0 PROVE parts[n] = q[Len(q)]
  <2>1. n \in 1 .. 2 + Len(q) /\ ~(n <= 2) /\ n - 2 = Len(q)
    BY <1>7, <1>11
  <2> QED
    BY <1>2, <2>1
<1>12. IsPath(parts)
  BY <1>2, SeqIsPath
<1> QED
  BY <1>3, <1>4, <1>7, <1>10, <1>11, <1>12 DEF parts, n, f

\* A path in the user's own space is shown as it is, unless it begins like a
\* category; one in a mounted space after the category and the owner.
LEMMA ShownLeads ==
  ASSUME NEW u \in Users, NEW m, DOMAIN m \subseteq Shared, NEW op, NEW at,
         NEW o \in {u} \cup DOMAIN m, NEW q, IsPath(q),
         o = u => q # <<>> /\ (q[1] \in Reserved => op = "find" \/ Frayed(at))
  PROVE  Leads(u, m, op, at, Shown(u, o, q))
<1> DEFINE e == Shown(u, o, q)
<1>1. e.owner = o /\ e.path = q
  BY DEF Shown
<1>2. CASE o = u
  <2> DEFINE typed == Typed(q)
             target == Target(u, m, typed)
  <2>1. e.parts = q
    BY <1>2 DEF Shown
  <2> HIDE DEF e
  <2>2. Len(typed) = Len(q) /\ typed # <<>> /\ (Len(q) # 1 => typed[1] = q[1])
    <3>1. Len(q) \in Nat /\ Len(q) > 0 /\ q # <<>>
      BY <1>2, PathIs
    <3>2. 1 \in 1 .. Len(q)
      BY <3>1
    <3> QED
      BY <3>1, <3>2, TypedIs
  <2>3. CASE q[1] \in Reserved
    BY <1>1, <1>2, <2>3 DEF Leads, e
  <2>4. CASE q[1] \notin Reserved /\ ~Frayed(q)
    <3>1. typed = q /\ Physical(q) = q
      BY <2>4, TypedIs, PhysicalIs
    <3>2. Target(u, m, q) = [type |-> "space", owner |-> u, path |-> Physical(q)]
      BY <1>2, <2>4 DEF Target
    <3> HIDE DEF target, typed
    <3>3. target = [type |-> "space", owner |-> u, path |-> q]
      BY <3>1, <3>2 DEF target
    <3> QED
      BY <1>1, <1>2, <2>1, <3>3 DEF Leads, target, typed, e
  <2>5. CASE q[1] \notin Reserved /\ Frayed(q)
    <3> HIDE DEF typed
    <3>1. ASSUME typed[1] \in Reserved PROVE target = [type |-> "category", category |-> typed[1]]
      <4>1. Len(typed) = 1
        BY <2>2, <2>5, <3>1
      <4> QED
        BY <2>2, <3>1, <4>1 DEF Target
    <3>2. ASSUME typed[1] \notin Reserved PROVE target.owner = u
      BY <2>2, <3>2 DEF Target
    <3>3. target.type = "space" => target.owner = u
      BY <3>1, <3>2
    <3> HIDE DEF target
    <3> QED
      BY <1>1, <1>2, <2>1, <2>5, <3>3 DEF Leads, target, typed, e
  <2> QED
    BY <2>3, <2>4, <2>5
<1>3. CASE o # u
  <2> DEFINE c == CategoryOf[o]
             parts == <<c, o>> \o q
             typed == Typed(parts)
             target == Target(u, m, typed)
             path == SubSeq(typed, 3, Len(typed))
  <2>1. o \in DOMAIN m /\ c \in Reserved /\ o \notin DOMAIN Trailing
    BY <1>3, FileSpaceAssumption DEF Reserved, Spaces
  <2>2. e.parts = parts
    BY <1>3 DEF Shown
  <2> HIDE DEF c, e
  <2>3. /\ IsPath(parts) /\ Len(parts) = Len(q) + 2 /\ parts # <<>> /\ parts[1] = c /\ parts[2] = o
        /\ SubSeq(parts, 3, Len(parts)) = q /\ (Len(q) > 0 => parts[Len(parts)] = q[Len(q)])
        /\ Len(q) \in Nat /\ (q # <<>> <=> Len(q) > 0)
    <3>1. Len(q) \in Nat /\ (q # <<>> <=> Len(q) > 0)
      BY PathIs
    <3> QED
      BY <3>1, MountedParts
  <2> HIDE DEF parts
  <2>4. /\ typed # <<>> /\ Len(typed) = Len(q) + 2 /\ typed[1] = c /\ typed[2] = o
    <3>1. 1 \in 1 .. Len(parts) /\ 2 \in 1 .. Len(parts) /\ 1 # Len(parts)
      BY <2>3
    <3> QED
      BY <2>1, <2>3, <3>1, TypedIs
  <2> HIDE DEF typed
  <2>5. target = [type |-> "space", owner |-> o, path |-> Physical(path)]
    <3>1. Len(typed) # 1 /\ typed[1] \in Reserved
      BY <2>1, <2>3, <2>4
    <3> QED
      BY <2>1, <2>4, <3>1 DEF Target, c
  <2>6. CASE Frayed(q)
    <3> HIDE DEF target, path
    <3> QED
      BY <1>1, <2>2, <2>5, <2>6 DEF Leads, target, typed, e
  <2>7. CASE ~Frayed(q)
    <3>1. parts[Len(parts)] \notin DOMAIN Trailing
      <4>1. CASE q = <<>>
        <5>1. Len(parts) = 2
          BY <2>3, <4>1
        <5> QED
          BY <2>1, <2>3, <5>1
      <4>2. CASE q # <<>>
        BY <2>3, <2>7, <4>2 DEF Frayed
      <4> QED
        BY <4>1, <4>2
    <3>2. typed = parts
      <4>1. \A i \in 1 .. Len(parts) : typed[i] = parts[i]
        BY <2>3, <3>1, TypedIs DEF typed
      <4>2. IsPath(typed) /\ Len(typed) = Len(parts)
        BY <2>3, TypedIs DEF typed
      <4>3. typed \in Seq(ToSet(typed) \cup ToSet(parts)) /\ parts \in Seq(ToSet(typed) \cup ToSet(parts))
        BY <2>3, <4>2, PathIs, SeqMonotonic
      <4> QED
        BY <4>1, <4>2, <4>3, SeqEqual
    <3>3. path = q
      BY <2>3, <3>2
    <3> HIDE DEF target, path
    <3>4. target = [type |-> "space", owner |-> o, path |-> q]
      BY <2>5, <2>7, <3>3, PhysicalIs
    <3> QED
      BY <1>1, <2>2, <3>4 DEF Leads, target, typed, e
  <2> QED
    BY <2>6, <2>7
<1> QED
  BY <1>2, <1>3

LEMMA ShownCategoryLeads ==
  ASSUME NEW u, NEW m, NEW op, NEW at, NEW c \in Reserved
  PROVE  Leads(u, m, op, at, ShownCategory(c))
<1>1. /\ ShownCategory(c).parts = <<c>> /\ ShownCategory(c).owner = None
      /\ <<c>> # <<>> /\ <<c>>[1] = c /\ Len(<<c>>) = 1
  BY DEF ShownCategory
<1>2. Typed(<<c>>) = <<c>>
  <2>1. c \notin DOMAIN Trailing
    BY FileSpaceAssumption
  <2> QED
    BY <2>1 DEF Typed
<1>3. Target(u, m, <<c>>) = [type |-> "category", category |-> c]
  BY <1>1 DEF Target
<1> QED
  BY <1>1, <1>2, <1>3 DEF Leads

\* What is below a path begins like it.
LEMMA BelowIs ==
  ASSUME NEW t, TreeOK(t), NEW p \in DOMAIN t, NEW q \in Below(t, p)
  PROVE  IsPath(q) /\ (p # <<>> => q # <<>> /\ q[1] = p[1])
<1>1. IsPath(p) /\ IsPath(q) /\ IsPrefix(p, q)
  BY DEF TreeOK, Below
<1>2. Len(p) \in Nat /\ Len(q) \in Nat /\ Len(p) <= Len(q) /\ \A i \in 1 .. Len(p) : p[i] = q[i]
  BY <1>1, PrefixIs, PathIs
<1>3. ASSUME p # <<>> PROVE q # <<>> /\ q[1] = p[1]
  <2>1. Len(p) > 0
    BY <1>1, <1>3, PathIs
  <2>2. 1 \in 1 .. Len(p) /\ Len(q) > 0
    BY <1>2, <2>1
  <2> QED
    BY <1>1, <1>2, <2>2, PathIs
<1> QED
  BY <1>1, <1>3

\* The user's own space is reached by a path that does not begin like a category,
\* before it is read again.
LEMMA OwnTarget ==
  ASSUME NEW u \in Users, NEW m, DOMAIN m \subseteq Shared, NEW parts, IsPath(parts),
         Target(u, m, parts).type = "space", Target(u, m, parts).owner = u
  PROVE  LET path == Target(u, m, parts).path
         IN  path # <<>> /\ (path[1] \in Reserved => Frayed(parts))
<1>1. u \notin Shared
  BY FileSpaceAssumption
<1>2. CASE parts # <<>> /\ parts[1] \notin Reserved
  <2>1. Target(u, m, parts).path = Physical(parts)
    BY <1>2 DEF Target
  <2>2. Physical(parts) # <<>>
    <3>1. Len(parts) \in Nat /\ Len(parts) > 0 /\ DOMAIN parts = 1 .. Len(parts)
      BY <1>2, PathIs
    <3>2. 1 \in DOMAIN Physical(parts)
      BY <3>1 DEF Physical
    <3> QED
      BY <3>2
  <2>3. ~Frayed(parts) => Physical(parts) = parts
    BY PhysicalIs
  <2> QED
    BY <1>2, <2>1, <2>2, <2>3
<1>3. CASE /\ parts # <<>> /\ parts[1] \in Reserved /\ Len(parts) # 1
           /\ parts[2] \in DOMAIN m /\ CategoryOf[parts[2]] = parts[1]
  BY <1>1, <1>3 DEF Target
<1>4. CASE \/ parts = <<>>
           \/ parts[1] \in Reserved /\ Len(parts) = 1
           \/ /\ parts[1] \in Reserved /\ Len(parts) # 1
              /\ ~(parts[2] \in DOMAIN m /\ CategoryOf[parts[2]] = parts[1])
  BY <1>4 DEF Target
<1> QED
  BY <1>2, <1>3, <1>4

LEMMA ListingLeads ==
  ASSUME IInv, NEW u \in Users, NEW m, DOMAIN m \subseteq Shared, NEW parts, IsPath(parts), NEW target,
         target = Target(u, m, parts), target.type \in {"root", "category", "space"},
         target.type = "space" => Exists(tree[target.owner], target.path),
         NEW e \in Listing(u, m, target)
  PROVE  Leads(u, m, "ls", parts, e)
<1>0. u \in Spaces /\ DOMAIN m \subseteq Spaces /\ \A o \in Spaces : TreeOK(tree[o])
  BY DEF Spaces, IInv, Trees
<1>1. CASE target.type = "root"
  <2>1. \/ \E o \in DOMAIN m : e = ShownCategory(CategoryOf[o])
        \/ \E q \in Children(tree[u], <<>>) : q[1] \notin Reserved /\ e = Shown(u, u, q)
    BY <1>1 DEF Listing
  <2>2. ASSUME NEW o \in DOMAIN m, e = ShownCategory(CategoryOf[o]) PROVE Leads(u, m, "ls", parts, e)
    <3>1. CategoryOf[o] \in Reserved
      BY DEF Reserved
    <3> QED
      BY <2>2, <3>1, ShownCategoryLeads
  <2>3. ASSUME NEW q \in Children(tree[u], <<>>), q[1] \notin Reserved, e = Shown(u, u, q)
        PROVE  Leads(u, m, "ls", parts, e)
    <3>1. q \in DOMAIN tree[u] /\ Len(q) = 1
      BY EmptySeq DEF Children, Below
    <3>2. IsPath(q)
      BY <1>0, <3>1 DEF TreeOK
    <3>3. q # <<>>
      <4>1. Len(q) # Len(<<>>)
        BY <3>1, EmptySeq
      <4> QED
        BY <4>1
    <3> QED
      BY <2>3, <3>2, <3>3, ShownLeads
  <2> QED
    BY <2>1, <2>2, <2>3
<1>2. CASE target.type = "category"
  <2>1. PICK o \in DOMAIN m : e = Shown(u, o, <<>>)
    BY <1>2 DEF Listing, MountsIn
  <2>2. o # u
    BY FileSpaceAssumption
  <2> QED
    BY <2>1, <2>2, EmptyPath, ShownLeads
<1>3. CASE target.type = "space"
  <2> DEFINE o == target.owner
             p == target.path
  <2>1. o \in {u} \cup DOMAIN m /\ p \in DOMAIN tree[o] /\ TreeOK(tree[o])
    BY <1>0, <1>3, TargetIs DEF Exists
  <2>2. o = u => p # <<>> /\ (p[1] \in Reserved => Frayed(parts))
    BY <1>3, OwnTarget
  <2>3. PICK q : (q = p \/ q \in Children(tree[o], p)) /\ e = Shown(u, o, q)
    BY <1>3 DEF Listing
  <2>4. IsPath(q) /\ (p # <<>> => q # <<>> /\ q[1] = p[1])
    <3>1. CASE q = p
      BY <2>1, <3>1 DEF TreeOK
    <3>2. CASE q \in Children(tree[o], p)
      <4>1. q \in Below(tree[o], p)
        BY <3>2 DEF Children
      <4> HIDE DEF o, p
      <4> QED
        BY <2>1, <4>1, BelowIs
    <3> QED
      BY <2>3, <3>1, <3>2
  <2> HIDE DEF o, p
  <2> QED
    BY <2>1, <2>2, <2>3, <2>4, ShownLeads
<1> QED
  BY <1>1, <1>2, <1>3

LEMMA FoundLeads ==
  ASSUME IInv, NEW u \in Users, NEW m, DOMAIN m \subseteq Shared, NEW parts, IsPath(parts), NEW target,
         target = Target(u, m, parts), target.type \in {"root", "category", "space"},
         target.type = "space" => Exists(tree[target.owner], target.path),
         NEW e \in Found(u, m, target)
  PROVE  Leads(u, m, "find", parts, e)
<1>0. u \in Spaces /\ DOMAIN m \subseteq Spaces /\ \A o \in Spaces : TreeOK(tree[o])
  BY DEF Spaces, IInv, Trees
<1>1. ASSUME NEW o \in {u} \cup DOMAIN m, NEW q \in Inside(tree[o], <<>>), e = Shown(u, o, q)
      PROVE  Leads(u, m, "find", parts, e)
  <2>1. TreeOK(tree[o]) /\ q \in DOMAIN tree[o]
    BY <1>0 DEF Inside, Below
  <2>2. IsPath(q)
    BY <2>1 DEF TreeOK
  <2>3. q # <<>>
    <3>1. CASE IsDir(tree[o], <<>>)
      BY <3>1 DEF Inside
    <3>2. CASE ~IsDir(tree[o], <<>>)
      BY <2>1, <3>2, SomethingThere, PresentOK
    <3> QED
      BY <3>1, <3>2
  <2> QED
    BY <1>1, <2>2, <2>3, ShownLeads
<1>2. CASE target.type = "root"
  <2>1. PICK o \in {u} \cup DOMAIN m : \E q \in Inside(tree[o], <<>>) : e = Shown(u, o, q)
    BY <1>2 DEF Found
  <2> QED
    BY <1>1, <2>1
<1>3. CASE target.type = "category"
  <2>1. PICK o \in {u} \cup DOMAIN m : \E q \in Inside(tree[o], <<>>) : e = Shown(u, o, q)
    BY <1>3 DEF Found, MountsIn
  <2> QED
    BY <1>1, <2>1
<1>4. CASE target.type = "space"
  <2> DEFINE o == target.owner
             p == target.path
  <2>1. o \in {u} \cup DOMAIN m /\ p \in DOMAIN tree[o] /\ TreeOK(tree[o])
    BY <1>0, <1>4, TargetIs DEF Exists
  <2>2. o = u => p # <<>> /\ (p[1] \in Reserved => Frayed(parts))
    BY <1>4, OwnTarget
  <2>3. PICK q \in Below(tree[o], p) : e = Shown(u, o, q)
    BY <1>4 DEF Found, Inside
  <2> HIDE DEF o, p
  <2>4. IsPath(q) /\ (p # <<>> => q # <<>> /\ q[1] = p[1])
    BY <2>1, BelowIs
  <2> QED
    BY <2>1, <2>2, <2>3, <2>4, ShownLeads
<1> QED
  BY <1>2, <1>3, <1>4

LEMMA LookCarried ==
  ASSUME IInv, NEW s \in Sessions, Look(s)
  PROVE  Carried(s)
<1> DEFINE u == UserOf[s]
           m == job[s].mounts
           arg == job[s].command.arg
           parts == Parse(u, m, tree, arg).parts
           target == Resolve(u, m, tree, arg)
           there == \/ target.type \in {"root", "category"}
                    \/ target.type = "space" /\ Exists(tree[target.owner], target.path)
           Shows(op) == IF ~there THEN {}
                        ELSE IF op = "ls" THEN Listing(u, m, target) ELSE Found(u, m, target)
<1>1. PICK op \in {"ls", "find"} :
        /\ Doing(s, op) /\ UNCHANGED disk
        /\ \E status : Answer(s, status, parts, Shows(op))
  BY DEF Look
<1>2. job[s].pc = "mounted" /\ job[s].command.op = op /\ tree' = tree /\ cwd' = cwd
  BY <1>1 DEF Doing, disk
<1>3. u \in Users /\ DOMAIN m \subseteq Shared /\ IsPath(parts)
  <2>1. Argument(arg) /\ CwdOK(u) /\ u \in Users /\ DOMAIN m \subseteq Shared
    BY <1>1, <1>2, MountedIs DEF Command
  <2> QED
    BY <2>1, ParseIsPath
<1>4. ASSUME NEW e \in Shows(op) PROVE Leads(u, m, op, parts, e)
  <2>1. there /\ e \in IF op = "ls" THEN Listing(u, m, target) ELSE Found(u, m, target)
    BY <1>4
  <2>2. target = Target(u, m, parts)
    BY <2>1 DEF Resolve
  <2>3. /\ target.type \in {"root", "category", "space"}
        /\ target.type = "space" => Exists(tree[target.owner], target.path)
    BY <2>1
  <2> HIDE DEF target, there, parts, u, m
  <2>4. CASE op = "ls"
    BY <1>3, <2>1, <2>2, <2>3, <2>4, ListingLeads
  <2>5. CASE op = "find"
    BY <1>3, <2>1, <2>2, <2>3, <2>5, FoundLeads
  <2> QED
    BY <1>1, <2>4, <2>5
<1> DEFINE shown == Shows(op)
<1>5. \E status : Answer(s, status, parts, shown)
  BY <1>1
<1> HIDE DEF shown, parts
<1>6. /\ job' = [job EXCEPT ![s] = NoJob] /\ UNCHANGED <<rows, doomed, facts>>
      /\ reply'.to = s /\ reply'.command = job[s].command /\ reply'.at = parts
      /\ reply'.mounts = job[s].mounts /\ reply'.shown = shown
  BY <1>5, AnswerIs
<1>7. ShownResolves'
  <2> SUFFICES ASSUME NEW e \in reply'.shown
               PROVE  LET t == Target(UserOf[reply'.to], reply'.mounts, Typed(e.parts))
                      IN  \/ t.type = "space" /\ t.owner = e.owner /\ t.path = e.path
                          \/ t.type = "category" /\ e.owner = None
                          \/ Frayed(e.path) /\ (t.type = "space" => t.owner = e.owner)
                          \/ /\ e.owner = UserOf[reply'.to] /\ e.path[1] \in Reserved
                             /\ reply'.command.op = "find" \/ Frayed(reply'.at)
    BY DEF ShownResolves
  <2>1. Leads(UserOf[s], job[s].mounts, job[s].command.op, parts, e)
    BY <1>2, <1>4, <1>6 DEF shown
  <2> QED
    BY <1>6, <2>1 DEF Leads
<1>8. Trees' /\ Obeys(s) /\ Cwds'
  BY <1>2, SameTree DEF IInv, Cwds, CwdOK
<1> QED
  BY <1>2, <1>6, <1>7, <1>8 DEF Carried

LEMMA ExecuteCarried ==
  ASSUME IInv, NEW s \in Sessions, Execute(s)
  PROVE  Carried(s)
<1>1. Cd(s) \/ Mkdir(s) \/ Touch(s) \/ Rm(s) \/ Upload(s) \/ Look(s)
  BY DEF Execute
<1>2. CASE Mkdir(s)
  BY <1>2, CreateCarried DEF Mkdir
<1>3. CASE Touch(s)
  BY <1>3, CreateCarried DEF Touch
<1> QED
  BY <1>1, <1>2, <1>3, CdCarried, RmCarried, UploadCarried, LookCarried

LEMMA CarriedInv ==
  ASSUME IInv, NEW s \in Sessions, Carried(s)
  PROVE  IInv'
<1>1. job'[s] = NoJob
  BY DEF Carried, IInv, Jobs
<1>2. JobOK(s)'
  BY <1>1 DEF JobOK, NoJob
<1>3. Jobs'
  BY <1>2, JobsButOne DEF Carried, IInv
<1>4. Rows'
  BY DEF Carried, IInv, Rows
<1> QED
  BY <1>3, <1>4 DEF Carried, IInv

-----------------------------------------------------------------------------
(* Everyone else.                                                            *)

LEMMA ChangeFactInv ==
  ASSUME IInv, NEW f, ChangeFact(f)
  PROVE  IInv'
<1>1. /\ UNCHANGED <<tree, cwd, rows, doomed>>
      /\ job' = [s \in Sessions |-> [job[s] EXCEPT !.seen = @ \cup facts']]
  BY DEF ChangeFact, disk
<1>2. ASSUME NEW s \in Sessions PROVE JobOK(s)'
  <2> DEFINE j == [job[s] EXCEPT !.seen = @ \cup facts']
  <2>1. JobOK(s) /\ job'[s] = j
    BY <1>1 DEF IInv, Jobs
  <2>2. /\ DOMAIN j = DOMAIN job[s] /\ j.seen = job[s].seen \cup facts'
        /\ j.pc = job[s].pc /\ j.command = job[s].command /\ j.snap = job[s].snap
        /\ j.mounts = job[s].mounts /\ j.born = job[s].born
    BY <2>1 DEF JobOK
  <2> HIDE DEF j
  <2>3. \A o : MightWrite(UserOf[s], o, job[s].seen) => MightWrite(UserOf[s], o, job'[s].seen)
    BY <2>1, <2>2 DEF MightWrite
  <2>4. ASSUME job[s].pc = "mounted", NEW o \in DOMAIN job[s].mounts, job[s].mounts[o]
        PROVE  MightWrite(UserOf[s], o, job'[s].seen)
    BY <2>1, <2>3, <2>4 DEF JobOK
  <2>5. \A o : MightWrite(UserOf[s], o, job[s].seen)' <=> MightWrite(UserOf[s], o, job'[s].seen)
    BY DEF MightWrite, Tied
  <2> QED
    BY <1>1, <2>1, <2>2, <2>4, <2>5 DEF JobOK
<1>3. Jobs'
  BY <1>1, <1>2 DEF Jobs
<1> QED
  BY <1>1, <1>3 DEF IInv, Trees, Cwds, CwdOK, Rows

LEMMA DropRowInv ==
  ASSUME IInv, NEW o \in Mortal, DropRow(o)
  PROVE  IInv'
<1> DEFINE gone == WithRow(o) \cap rows
<1>1. /\ UNCHANGED <<tree, cwd, job>> /\ o \in rows /\ rows' = rows \ gone
      /\ doomed' = doomed \cup (IF o \in Users THEN {o} ELSE gone)
      /\ facts' \subseteq facts
  BY DEF DropRow, disk
<1>2. o \in gone
  <2>1. o \in Users \cup Groups \cup Classes
    BY FileSpaceAssumption
  <2>2. o \in WithRow(o)
    BY <2>1, FileSpaceAssumption DEF WithRow
  <2> QED
    BY <1>1, <2>2
<1>3. Rows'
  BY <1>1, <1>2 DEF IInv, Rows
<1>4. Jobs'
  BY <1>1, JobsSame DEF IInv
<1> QED
  BY <1>1, <1>3, <1>4 DEF IInv, Trees, Cwds, CwdOK

LEMMA CleanupInv ==
  ASSUME IInv, NEW o \in doomed, Cleanup(o)
  PROVE  IInv'
<1>1. UNCHANGED <<rows, facts, job>> /\ doomed' = doomed \ {o}
  BY DEF Cleanup
<1>2. \/ /\ tree' = [tree EXCEPT ![o] = Absent]
         /\ cwd' = [u \in Users |-> IF u = o THEN None ELSE cwd[u]]
      \/ tree' = tree /\ cwd' = cwd
  BY DEF Cleanup, disk
<1>3. Trees'
  BY <1>2, AbsentOK DEF IInv, Trees
<1>4. Cwds'
  BY <1>2 DEF IInv, Cwds, CwdOK
<1>5. Rows' /\ Jobs'
  BY <1>1, JobsSame DEF IInv, Rows
<1> QED
  BY <1>3, <1>4, <1>5 DEF IInv

LEMMA AdminTreeOK ==
  ASSUME NEW t, TreeOK(t), NEW r \in AdminRequests
  PROVE  TreeOK(AdminTree(t, r))
<1>1. r.op # "delete" => IsPath(r.path)
  BY FileSpaceAssumption
<1>2. CASE r.op = "write" /\ r.path # <<>> /\ ~IsDir(t, r.path) /\ IsDir(t, Front(r.path))
  BY <1>1, <1>2, WithOK DEF AdminTree
<1>3. CASE r.op = "mkdir" /\ CanCreate(t, r.path)
  <2>1. r.path # <<>>
    BY <1>3, SomethingThere, PresentOK DEF CanCreate, IsDir, Exists
  <2>2. TreeOK(With(t, r.path, Dir))
    BY <1>1, <1>3, <2>1, WithOK DEF CanCreate, IsDir
  <2> QED
    BY <1>3, <2>2 DEF AdminTree
<1>4. CASE r.op = "remove" /\ CanRemove(t, r.path, r.recursive)
  <2>1. TreeOK(Removed(t, r.path))
    BY <1>4, RemovedOK DEF CanRemove, Exists
  <2> QED
    BY <1>4, <2>1 DEF AdminTree
<1>5. CASE r.op = "delete"
  BY <1>5, AbsentOK DEF AdminTree
<1>6. CASE /\ ~(/\ r.op = "write" /\ r.path # <<>> /\ ~IsDir(t, r.path)
                /\ IsDir(t, Front(r.path)))
           /\ ~(r.op = "mkdir" /\ CanCreate(t, r.path))
           /\ ~(r.op = "remove" /\ CanRemove(t, r.path, r.recursive))
           /\ r.op # "delete"
  <2>1. AdminTree(t, r) = t
    BY <1>6 DEF AdminTree
  <2> QED
    BY <2>1
<1> QED
  BY <1>2, <1>3, <1>4, <1>5, <1>6

LEMMA AdminRequestInv ==
  ASSUME IInv, NEW r \in AdminRequests, AdminRequest(r)
  PROVE  IInv'
<1> DEFINE o == r.owner
           new == AdminTree(EnsureReady(tree[o]), r)
<1>1. /\ UNCHANGED <<rows, doomed, facts, job>> /\ tree' = [tree EXCEPT ![o] = new]
      /\ cwd' = [u \in Users |-> IF u = o /\ r.op = "delete" THEN None ELSE cwd[u]]
  BY DEF AdminRequest
<1>2. o \in Spaces
  BY FileSpaceAssumption
<1>3. TreeOK(new)
  <2>1. TreeOK(EnsureReady(tree[o]))
    BY <1>2, EnsureReadyOK DEF IInv, Trees
  <2> QED
    BY <2>1, AdminTreeOK
<1> HIDE DEF new
<1>4. Trees'
  BY <1>1, <1>3 DEF IInv, Trees
<1>5. Cwds'
  BY <1>1 DEF IInv, Cwds, CwdOK
<1>6. Rows' /\ Jobs'
  BY <1>1, JobsSame DEF IInv, Rows
<1> QED
  BY <1>4, <1>5, <1>6 DEF IInv

-----------------------------------------------------------------------------
(* The theorems.                                                             *)

LEMMA NextInv == IInv /\ [Next]_vars => IInv'
<1> SUFFICES ASSUME IInv, [Next]_vars PROVE IInv'
  OBVIOUS
<1>1. ASSUME NEW s \in Sessions, Receive(s) \/ ReadUser(s) \/ ReadMounts(s) PROVE IInv'
  BY <1>1, ReceiveInv, ReadUserInv, ReadMountsInv
<1>2. ASSUME NEW s \in Sessions, Execute(s) PROVE IInv'
  BY <1>2, ExecuteCarried, CarriedInv
<1>3. ASSUME NEW f \in ChangingFacts, ChangeFact(f) PROVE IInv'
  BY <1>3, ChangeFactInv
<1>4. ASSUME NEW o \in Mortal, DropRow(o) PROVE IInv'
  BY <1>4, DropRowInv
<1>5. ASSUME NEW o \in doomed, Cleanup(o) PROVE IInv'
  BY <1>5, CleanupInv
<1>6. ASSUME NEW r \in AdminRequests, AdminRequest(r) PROVE IInv'
  BY <1>6, AdminRequestInv
<1>7. CASE UNCHANGED vars
  <2>1. UNCHANGED <<tree, cwd, rows, doomed, facts, job>>
    BY <1>7 DEF vars, disk
  <2>2. Jobs'
    BY <2>1, JobsSame DEF IInv
  <2> QED
    BY <2>1, <2>2 DEF IInv, Trees, Cwds, CwdOK, Rows
<1> QED
  BY <1>1, <1>2, <1>3, <1>4, <1>5, <1>6, <1>7 DEF Next

\* The inductive invariant: besides the types, what a session with a command
\* under way knows of its user, and that each of its mounts is an owner there was
\* when the command came, writable only by a right noted since (JobOK).
THEOREM Invariant == Spec => []IInv
<1> QED
  BY InitInv, NextInv, PTL DEF Spec

\* The spaces stay well-formed, whatever is made, uploaded and removed by
\* commands and by requests to the file pages, and whatever is deleted
\* (FileSpace.mkdir, touch, remove, ensure_ready and delete_space).
THEOREM TypeCorrect == Spec => []TypeOK
<1> QED
  BY Invariant, InvTypes, PTL

\* A step in which a command ends is the execution of that command.
LEMMA CommandedIs ==
  ASSUME IInv, [Next]_vars, Commanded
  PROVE  Actor \in Sessions /\ Carried(Actor)
<1> DEFINE Ends(s) == job[s].pc = "mounted" /\ job'[s].pc = "idle"
<1>1. PICK a \in Sessions : Ends(a)
  BY DEF Commanded
<1>2. ASSUME NEW s \in Sessions, Receive(s) \/ ReadUser(s) \/ ReadMounts(s) PROVE FALSE
  <2>1. \A r \in Sessions \ {s} : job'[r] = job[r]
    BY <1>2 DEF IInv, Jobs, Receive, ReadUser, ReadMounts
  <2>2. job[s].pc # "mounted"
    BY <1>2 DEF Receive, ReadUser, ReadMounts
  <2> QED
    BY <1>1, <2>1, <2>2
<1>3. ASSUME NEW f, ChangeFact(f) PROVE FALSE
  <2>1. job'[a] = [job[a] EXCEPT !.seen = @ \cup facts']
    BY <1>3 DEF ChangeFact
  <2>2. job'[a].pc = job[a].pc
    BY <2>1 DEF IInv, Jobs, JobOK
  <2> QED
    BY <1>1, <2>2
<1>4. job' # job
  BY <1>1
<1>5. PICK s \in Sessions : Execute(s)
  BY <1>2, <1>3, <1>4 DEF Next, DropRow, Cleanup, AdminRequest, vars
<1>6. Carried(s)
  BY <1>5, ExecuteCarried
<1>7. \A r \in Sessions \ {s} : job'[r] = job[r]
  BY <1>6 DEF Carried, IInv, Jobs
<1>8. \A r \in Sessions : Ends(r) => r = s
  BY <1>7
<1>9. Actor = s
  <2>1. Actor = CHOOSE r \in Sessions : Ends(r)
    BY DEF Actor
  <2> HIDE DEF Ends
  <2> QED
    BY <1>1, <1>8, <2>1
<1> QED
  BY <1>6, <1>9

LEMMA WritesOnly ==
  ASSUME IInv, NEW s \in Sessions, Carried(s), NEW o \in Spaces, tree'[o] # tree[o]
  PROVE  MightWrite(UserOf[s], o, job[s].seen) /\ o \in job[s].born
<1>1. JobOK(s) /\ job[s].pc = "mounted"
  BY DEF IInv, Jobs, Carried
<1>2. MayWrite(UserOf[s], job[s].mounts, o)
  BY DEF Carried, Obeys
<1> QED
  BY <1>1, <1>2 DEF MayWrite, MightWrite, JobOK

\* Whatever happens between the reading of the user, of the mounts and the work
\* on the disk, a command writes only what is its user's own or what the user had
\* a right to write at some time since the command came (VirtualFile-
\* Workspace._ensure_writable, build_user_file_workspace).
THEOREM Authorised == Spec => WritesAreAuthorised
<1>1. IInv /\ [Next]_vars =>
        [Commanded => \A o \in Spaces : tree'[o] # tree[o] =>
           MightWrite(UserOf[Actor], o, job[Actor].seen)]_vars
  <2> SUFFICES ASSUME IInv, [Next]_vars, Commanded, NEW o \in Spaces, tree'[o] # tree[o]
               PROVE  MightWrite(UserOf[Actor], o, job[Actor].seen)
    OBVIOUS
  <2>1. Actor \in Sessions /\ Carried(Actor)
    BY CommandedIs
  <2> QED
    BY <2>1, WritesOnly
<1> QED
  BY <1>1, Invariant, PTL DEF Spec, WritesAreAuthorised

\* No command but rm takes a file away, and none gives it another content: an
\* upload finds a free name (unique_child_path), however many it brings.
THEOREM Preserved == Spec => NothingOverwritten
<1>1. IInv /\ [Next]_vars =>
        [Commanded => \A o \in Spaces : \A p \in DOMAIN tree[o] :
           \/ p \in DOMAIN tree'[o] /\ tree'[o][p] = tree[o][p]
           \/ p \notin DOMAIN tree'[o] /\ job[Actor].command.op = "rm"]_vars
  <2> SUFFICES ASSUME IInv, [Next]_vars, Commanded, NEW o \in Spaces, NEW p \in DOMAIN tree[o]
               PROVE  \/ p \in DOMAIN tree'[o] /\ tree'[o][p] = tree[o][p]
                      \/ p \notin DOMAIN tree'[o] /\ job[Actor].command.op = "rm"
    OBVIOUS
  <2>1. Obeys(Actor)
    BY CommandedIs DEF Carried
  <2> QED
    BY <2>1 DEF Obeys, Keeps, Shrunk
<1> QED
  BY <1>1, Invariant, PTL DEF Spec, NothingOverwritten

\* A command that comes after an owner was deleted puts nothing in its space
\* (build_user_file_workspace mounts only owners that have a row).
THEOREM NothingForTheDeleted == Spec => DeletedTakesNothing
<1>1. IInv /\ [Next]_vars =>
        [Commanded => \A o \in Spaces \ rows :
           DOMAIN tree'[o] \subseteq DOMAIN tree[o] \/ o \in job[Actor].born]_vars
  <2> SUFFICES ASSUME IInv, [Next]_vars, Commanded, NEW o \in Spaces \ rows,
                      o \notin job[Actor].born
               PROVE  DOMAIN tree'[o] \subseteq DOMAIN tree[o]
    OBVIOUS
  <2>1. Actor \in Sessions /\ Carried(Actor)
    BY CommandedIs
  <2>2. tree'[o] = tree[o]
    BY <2>1, WritesOnly
  <2> QED
    BY <2>2
<1> QED
  BY <1>1, Invariant, PTL DEF Spec, DeletedTakesNothing

\* What ls and find show leads back to what was shown, whatever the tree, the
\* mounts and the current directory, and where a name is read as another at least
\* to nobody else's space (VirtualFileWorkspace._decorate_space_entry and
\* _target_for_parts, FileSpace.resolve).
THEOREM ShownLeadsBack == Spec => []ShownResolves
<1>1. Init => ShownResolves
  BY DEF Init, NoReply, ShownResolves
<1>2. IInv /\ ShownResolves /\ [Next]_vars => ShownResolves'
  <2> SUFFICES ASSUME IInv, ShownResolves, [Next]_vars PROVE ShownResolves'
    OBVIOUS
  <2>1. CASE reply' = NoReply
    BY <2>1 DEF NoReply, ShownResolves
  <2>2. ASSUME NEW s \in Sessions, Execute(s) PROVE ShownResolves'
    BY <2>2, ExecuteCarried DEF Carried
  <2>3. CASE UNCHANGED vars
    <3>1. UNCHANGED reply
      BY <2>3 DEF vars
    <3> QED
      BY <3>1 DEF ShownResolves
  <2>4. \/ \E s \in Sessions : Execute(s)
        \/ reply' = NoReply
        \/ UNCHANGED vars
    BY DEF Next, Receive, ReadUser, ReadMounts, ChangeFact, DropRow, Change, Cleanup, AdminRequest
  <2> QED
    BY <2>1, <2>2, <2>3, <2>4
<1> QED
  BY <1>1, <1>2, Invariant, PTL DEF Spec

=============================================================================
