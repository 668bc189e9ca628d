--------------------------- MODULE ZoneAnswersProofs --------------------------
(***************************************************************************)
(* The answers of the DNS server, proved for any names, zones and records, *)
(* and any changes to them while an answer is put together: that names are *)
(* ordered and spans cover what they should, and what a denial, a serial   *)
(* and the records of an answer say of the tables.                         *)
(***************************************************************************)
EXTENDS ZoneAnswers, FiniteSetTheorems, SequenceTheorems, WellFoundedInduction, TLAPS

-----------------------------------------------------------------------------
(* Least and greatest numbers.                                             *)

Below == {p \in Nat \X Nat : p[1] < p[2]}

LEMMA BelowWellFounded == IsWellFoundedOn(Below, Nat)
<1>1. OpToRel(<, Nat) = Below
  BY DEF OpToRel, Below
<1> QED BY <1>1, NatLessThanWellFounded

LEMMA Least ==
  ASSUME NEW S, S \subseteq Nat, S # {}
  PROVE  \E m \in S : \A i \in S : m <= i
<1>1. PICK m \in S : \A i \in S : <<i, m>> \notin Below
  BY BelowWellFounded, WFMin
<1>2. ASSUME NEW i \in S PROVE m <= i
  <2>1. i \in Nat /\ m \in Nat
    OBVIOUS
  <2>2. ~(i < m)
    BY <1>1, <2>1 DEF Below
  <2> QED BY <2>1, <2>2
<1> QED BY <1>2

LEMMA LeastIsMin ==
  ASSUME NEW S, S \subseteq Nat, S # {}
  PROVE  Min(S) \in S /\ \A i \in S : Min(S) <= i
BY Least DEF Min

LEMMA Greatest ==
  ASSUME NEW n \in Nat, NEW S, S \subseteq 0 .. n, S # {}
  PROVE  \E m \in S : \A i \in S : i <= m
<1> DEFINE T == {n - i : i \in S}
<1>1. T \subseteq Nat /\ T # {}
  <2>1. \A i \in S : n - i \in Nat
    OBVIOUS
  <2> QED BY <2>1
<1>2. PICK x \in T : \A y \in T : x <= y
  BY <1>1, Least
<1>3. PICK m \in S : x = n - m
  BY <1>2
<1>4. ASSUME NEW i \in S PROVE i <= m
  <2>1. i \in 0 .. n /\ m \in 0 .. n /\ n - i \in T
    OBVIOUS
  <2>2. n - m <= n - i
    BY <1>2, <1>3, <2>1
  <2> QED BY <2>1, <2>2
<1> QED BY <1>4

-----------------------------------------------------------------------------
(* The canonical order of names.                                           *)

LEMMA PrefixMeans ==
  ASSUME NEW s \in Seq(Nat), NEW t \in Seq(Nat)
  PROVE  IsPrefix(s, t) <=> Len(s) <= Len(t) /\ \A i \in 1 .. Len(s) : s[i] = t[i]
<1>1. CASE Len(s) <= Len(t)
  <2> DEFINE a == SubSeq(s, 1, Len(s))  b == SubSeq(t, 1, Len(s))
  <2>1. a \in Seq(Nat) /\ Len(a) = Len(s) /\ \A i \in 1 .. Len(s) : a[i] = s[i]
    OBVIOUS
  <2>2. b \in Seq(Nat) /\ Len(b) = Len(s) /\ \A i \in 1 .. Len(s) : b[i] = t[i]
    BY <1>1
  <2> HIDE DEF a, b
  <2>3. a = b <=> \A i \in 1 .. Len(s) : a[i] = b[i]
    BY <2>1, <2>2, SeqEqual
  <2>4. a = b <=> \A i \in 1 .. Len(s) : s[i] = t[i]
    BY <2>1, <2>2, <2>3
  <2> QED BY <1>1, <2>4 DEF IsPrefix, a, b
<1>2. CASE ~(Len(s) <= Len(t))
  BY <1>2 DEF IsPrefix
<1> QED BY <1>1, <1>2

\* The first place where n goes on and m does not, or with a smaller label.
FirstAt(k, m, n) ==
  /\ k \in 1 .. Len(n) /\ k <= Len(m) + 1
  /\ \A j \in 1 .. (k - 1) : m[j] = n[j]
  /\ k <= Len(m) => m[k] < n[k]

LEMMA LessMeans ==
  ASSUME NEW m \in Seq(Nat), NEW n \in Seq(Nat)
  PROVE  CanonicalLess(m, n) <=> \E k \in Nat : FirstAt(k, m, n)
<1>1. ASSUME IsStrictPrefix(m, n) PROVE \E k \in Nat : FirstAt(k, m, n)
  <2>1. Len(m) <= Len(n) /\ \A i \in 1 .. Len(m) : m[i] = n[i]
    BY <1>1, PrefixMeans DEF IsStrictPrefix
  <2>2. m # n
    BY <1>1 DEF IsStrictPrefix
  <2>3. Len(m) # Len(n)
    BY <2>1, <2>2
  <2>4. Len(m) + 1 \in 1 .. Len(n) /\ Len(m) + 1 \in Nat /\ (Len(m) + 1) - 1 = Len(m)
    BY <2>1, <2>3
  <2>5. FirstAt(Len(m) + 1, m, n)
    BY <2>1, <2>4 DEF FirstAt
  <2> QED BY <2>4, <2>5
<1>2. ASSUME NEW k \in 1 .. Len(m), k <= Len(n), m[k] < n[k],
             \A j \in 1 .. (k - 1) : m[j] = n[j]
      PROVE  \E i \in Nat : FirstAt(i, m, n)
  <2>1. FirstAt(k, m, n)
    BY <1>2 DEF FirstAt
  <2> QED BY <2>1
<1>3. ASSUME NEW k \in Nat, FirstAt(k, m, n) PROVE CanonicalLess(m, n)
  <2>1. CASE k <= Len(m)
    <3>1. k \in 1 .. Len(m)
      BY <1>3, <2>1 DEF FirstAt
    <3> QED BY <1>3, <2>1, <3>1 DEF FirstAt, CanonicalLess
  <2>2. CASE ~(k <= Len(m))
    <3>1. k = Len(m) + 1 /\ Len(m) < Len(n) /\ k - 1 = Len(m)
      BY <1>3, <2>2 DEF FirstAt
    <3>2. \A i \in 1 .. Len(m) : m[i] = n[i]
      BY <1>3, <3>1 DEF FirstAt
    <3>3. IsPrefix(m, n) /\ m # n
      BY <3>1, <3>2, PrefixMeans
    <3> QED BY <3>3 DEF IsStrictPrefix, CanonicalLess
  <2> QED BY <2>1, <2>2
<1> QED BY <1>1, <1>2, <1>3 DEF CanonicalLess

LEMMA LessIrreflexive == ASSUME NEW m \in Seq(Nat) PROVE ~CanonicalLess(m, m)
<1> SUFFICES ASSUME NEW k \in Nat, FirstAt(k, m, m) PROVE FALSE
  BY LessMeans
<1>1. k \in 1 .. Len(m) /\ m[k] < m[k]
  BY DEF FirstAt
<1>2. m[k] \in Nat
  BY <1>1
<1> QED BY <1>1, <1>2

LEMMA LessTransitive ==
  ASSUME NEW l \in Seq(Nat), NEW m \in Seq(Nat), NEW n \in Seq(Nat),
         CanonicalLess(l, m), CanonicalLess(m, n)
  PROVE  CanonicalLess(l, n)
<1>1. PICK i \in Nat : FirstAt(i, l, m)
  BY LessMeans
<1>2. PICK j \in Nat : FirstAt(j, m, n)
  BY LessMeans
<1>3. /\ i \in 1 .. Len(m) /\ i <= Len(l) + 1 /\ (i <= Len(l) => l[i] < m[i])
      /\ \A x \in 1 .. (i - 1) : l[x] = m[x]
  BY <1>1 DEF FirstAt
<1>4. /\ j \in 1 .. Len(n) /\ j <= Len(m) + 1 /\ (j <= Len(m) => m[j] < n[j])
      /\ \A x \in 1 .. (j - 1) : m[x] = n[x]
  BY <1>2 DEF FirstAt
<1>5. CASE i < j
  <2>1. i \in 1 .. Len(n) /\ i \in 1 .. (j - 1)
    BY <1>3, <1>4, <1>5
  <2>2. \A x \in 1 .. (i - 1) : l[x] = n[x]
    BY <1>3, <1>4, <1>5
  <2>3. i <= Len(l) => l[i] < n[i]
    BY <1>3, <1>4, <2>1
  <2>4. FirstAt(i, l, n)
    BY <1>3, <2>1, <2>2, <2>3 DEF FirstAt
  <2> QED BY <2>4, LessMeans
<1>6. CASE j < i
  <2>1. j <= Len(l) /\ j \in 1 .. (i - 1) /\ j <= Len(m)
    BY <1>3, <1>4, <1>6
  <2>2. \A x \in 1 .. (j - 1) : l[x] = n[x]
    BY <1>3, <1>4, <1>6
  <2>3. l[j] < n[j]
    <3>1. l[j] = m[j]
      BY <1>3, <2>1
    <3>2. m[j] < n[j]
      BY <1>4, <2>1
    <3> QED BY <3>1, <3>2
  <2>4. j \in 1 .. Len(n) /\ j <= Len(l) + 1
    BY <1>4, <2>1
  <2>5. FirstAt(j, l, n)
    BY <2>2, <2>3, <2>4 DEF FirstAt
  <2> QED BY <2>1, <2>5, LessMeans
<1>7. CASE i = j
  <2>1. \A x \in 1 .. (i - 1) : l[x] = n[x]
    BY <1>3, <1>4, <1>7
  <2>2. ASSUME i <= Len(l) PROVE l[i] < n[i]
    <3>0. i \in 1 .. Len(m) /\ i \in 1 .. Len(n)
      BY <1>3, <1>4, <1>7
    <3>1. i \in 1 .. Len(l) /\ i \in 1 .. Len(m) /\ i \in 1 .. Len(n)
      <4>1. Len(l) \in Nat /\ i >= 1
        BY <3>0
      <4> QED BY <2>2, <3>0, <4>1
    <3>2. l[i] \in Nat /\ m[i] \in Nat /\ n[i] \in Nat
      BY <3>1
    <3>3. i <= Len(m)
      BY <1>4, <1>7, <2>2, <3>1
    <3>4. l[i] < m[i]
      BY <1>3, <2>2
    <3>5. m[i] < n[i]
      BY <1>4, <1>7, <3>3
    <3> QED BY <3>2, <3>4, <3>5
  <2>3. FirstAt(i, l, n)
    BY <1>3, <1>4, <1>7, <2>1, <2>2 DEF FirstAt
  <2> QED BY <2>3, LessMeans
<1> QED BY <1>5, <1>6, <1>7

LEMMA LessTotal ==
  ASSUME NEW m \in Seq(Nat), NEW n \in Seq(Nat), m # n
  PROVE  CanonicalLess(m, n) \/ CanonicalLess(n, m)
<1> DEFINE D == {k \in Nat : k \in 1 .. Len(m) /\ k \in 1 .. Len(n) /\ m[k] # n[k]}
<1>1. CASE D = {}
  <2>1. \A k \in Nat : k \in 1 .. Len(m) /\ k \in 1 .. Len(n) => m[k] = n[k]
    BY <1>1
  <2>2. CASE Len(m) = Len(n)
    <3>1. \A k \in 1 .. Len(m) : m[k] = n[k]
      BY <2>1, <2>2
    <3> QED BY <2>2, <3>1
  <2>3. CASE Len(m) < Len(n)
    <3>1. Len(m) <= Len(n) /\ \A k \in 1 .. Len(m) : m[k] = n[k]
      BY <2>1, <2>3
    <3>2. IsPrefix(m, n)
      BY <3>1, PrefixMeans
    <3> QED BY <3>2 DEF IsStrictPrefix, CanonicalLess
  <2>4. CASE Len(n) < Len(m)
    <3>1. Len(n) <= Len(m) /\ \A k \in 1 .. Len(n) : n[k] = m[k]
      BY <2>1, <2>4
    <3>2. IsPrefix(n, m)
      BY <3>1, PrefixMeans
    <3> QED BY <3>2 DEF IsStrictPrefix, CanonicalLess
  <2> QED BY <2>2, <2>3, <2>4
<1>2. CASE D # {}
  <2>1. D \subseteq Nat
    OBVIOUS
  <2>2. PICK k \in D : \A i \in D : k <= i
    BY <1>2, <2>1, Least
  <2>3. k \in 1 .. Len(m) /\ k \in 1 .. Len(n) /\ m[k] # n[k]
    OBVIOUS
  <2>4. ASSUME NEW j \in 1 .. (k - 1) PROVE m[j] = n[j]
    <3>1. j \in Nat /\ j \in 1 .. Len(m) /\ j \in 1 .. Len(n) /\ ~(k <= j)
      BY <2>3
    <3>2. j \notin D
      BY <2>2, <3>1
    <3> QED BY <3>1, <3>2
  <2>5. m[k] \in Nat /\ n[k] \in Nat
    BY <2>3
  <2> HIDE DEF D
  <2>6. CASE m[k] < n[k]
    BY <2>3, <2>4, <2>6 DEF CanonicalLess
  <2>7. CASE n[k] < m[k]
    <3>1. \A j \in 1 .. (k - 1) : n[j] = m[j]
      BY <2>4
    <3> QED BY <2>3, <2>7, <3>1 DEF CanonicalLess
  <2> QED BY <2>3, <2>5, <2>6, <2>7
<1> QED BY <1>1, <1>2
-----------------------------------------------------------------------------
(* The sorted names of a zone.                                             *)

Named(S) == IsFiniteSet(S) /\ S \subseteq Seq(Nat)
IsLast(S, m) == m \in S /\ \A x \in S \ {m} : CanonicalLess(x, m)

\* By the least number of names of which none were the last.
LEMMA LastName ==
  ASSUME NEW S, Named(S), S # {}
  PROVE  \E m \in S : IsLast(S, m)
<1> DEFINE Bad == {k \in Nat : \E T \in SUBSET S :
                     T # {} /\ Cardinality(T) = k /\ ~\E m \in T : IsLast(T, m)}
<1> SUFFICES ASSUME ~\E m \in S : IsLast(S, m) PROVE FALSE
  OBVIOUS
<1>1. Cardinality(S) \in Bad
  BY FS_CardinalityType DEF Named
<1>2. PICK k \in Bad : \A i \in Bad : k <= i
  <2>1. Bad \subseteq Nat /\ Bad # {}
    BY <1>1
  <2> HIDE DEF Bad
  <2> QED BY <2>1, Least
<1>3. PICK T \in SUBSET S : T # {} /\ Cardinality(T) = k /\ ~\E m \in T : IsLast(T, m)
  BY <1>2
<1>4. PICK x \in T : TRUE
  BY <1>3
<1> DEFINE U == T \ {x}
<1>5. IsFiniteSet(T) /\ T \subseteq Seq(Nat)
  BY FS_Subset DEF Named
<1>6. IsFiniteSet(U) /\ Cardinality(U) = k - 1 /\ Cardinality(U) \in Nat
  BY <1>3, <1>4, <1>5, FS_RemoveElement, FS_CardinalityType
<1>7. CASE U = {}
  <2>1. IsLast(T, x)
    BY <1>4, <1>7 DEF IsLast
  <2> QED BY <1>3, <1>4, <2>1
<1>8. CASE U # {}
  <2>1. k - 1 \notin Bad
    <3>1. k \in Nat /\ ~(k <= k - 1)
      BY <1>2
    <3> QED BY <1>2, <3>1
  <2>2. U \in SUBSET S
    OBVIOUS
  <2>3. \E m \in U : IsLast(U, m)
    BY <1>6, <1>8, <2>1, <2>2
  <2>4. PICK m \in U : IsLast(U, m)
    BY <2>3
  <2>5. m \in Seq(Nat) /\ x \in Seq(Nat) /\ x # m
    BY <1>4, <1>5, <2>4
  <2>6. CASE CanonicalLess(x, m)
    <3>1. IsLast(T, m)
      BY <2>4, <2>6 DEF IsLast
    <3> QED BY <1>3, <2>4, <3>1
  <2>7. CASE CanonicalLess(m, x)
    <3>1. ASSUME NEW y \in T \ {x} PROVE CanonicalLess(y, x)
      <4>1. CASE y = m
        BY <2>7, <4>1
      <4>2. CASE y # m
        <5>1. CanonicalLess(y, m)
          BY <2>4, <4>2 DEF IsLast
        <5>2. y \in Seq(Nat)
          BY <1>5
        <5> QED BY <2>5, <2>7, <5>1, <5>2, LessTransitive
      <4> QED BY <4>1, <4>2
    <3>2. IsLast(T, x)
      BY <1>4, <3>1 DEF IsLast
    <3> QED BY <1>3, <1>4, <3>2
  <2> QED BY <2>5, <2>6, <2>7, LessTotal
<1> QED BY <1>7, <1>8

Increasing(s, n) == \A j \in 1 .. n : \A i \in 1 .. (j - 1) : CanonicalLess(s[i], s[j])

\* By the least number of names that could not be sorted.
LEMMA SortedExists ==
  ASSUME NEW S, Named(S)
  PROVE  \E s \in [1 .. Cardinality(S) -> S] : Increasing(s, Cardinality(S))
<1> DEFINE Sortable(T, k) == \E s \in [1 .. k -> T] : Increasing(s, k)
           Bad == {k \in Nat : \E T \in SUBSET S : Cardinality(T) = k /\ ~Sortable(T, k)}
<1> SUFFICES ASSUME ~Sortable(S, Cardinality(S)) PROVE FALSE
  OBVIOUS
<1> HIDE DEF Sortable
<1>1. Cardinality(S) \in Bad
  BY FS_CardinalityType DEF Named
<1>2. PICK k \in Bad : \A i \in Bad : k <= i
  <2>1. Bad \subseteq Nat /\ Bad # {}
    BY <1>1
  <2> HIDE DEF Bad
  <2> QED BY <2>1, Least
<1>3. PICK T \in SUBSET S : Cardinality(T) = k /\ ~Sortable(T, k)
  BY <1>2
<1>4. Named(T) /\ k \in Nat
  BY <1>2, FS_Subset DEF Named
<1>5. CASE k = 0
  <2>1. [i \in 1 .. 0 |-> <<>>] \in [1 .. 0 -> T]
    OBVIOUS
  <2>2. Increasing([i \in 1 .. 0 |-> <<>>], 0)
    BY DEF Increasing
  <2>3. Sortable(T, 0)
    BY <2>1, <2>2 DEF Sortable
  <2> QED BY <1>3, <1>5, <2>3
<1>6. CASE k # 0
  <2>1. T # {}
    BY <1>3, <1>4, <1>6, FS_EmptySet DEF Named
  <2>2. PICK m \in T : IsLast(T, m)
    BY <1>4, <2>1, LastName
  <2> DEFINE U == T \ {m}
  <2>3. Cardinality(U) = k - 1 /\ k - 1 \in Nat
    <3>1. IsFiniteSet(T) /\ m \in T
      BY <1>4, <2>2 DEF Named
    <3>2. Cardinality(U) = Cardinality(T) - 1
      BY <3>1, FS_RemoveElement
    <3> QED BY <1>3, <1>4, <1>6, <3>2
  <2>4. k - 1 \notin Bad
    <3>1. ~(k <= k - 1)
      BY <1>4
    <3> QED BY <1>2, <3>1
  <2>5. U \in SUBSET S
    OBVIOUS
  <2>6. Sortable(U, k - 1)
    BY <2>3, <2>4, <2>5
  <2>7. PICK s \in [1 .. (k - 1) -> U] : Increasing(s, k - 1)
    BY <2>6 DEF Sortable
  <2> DEFINE t == [i \in 1 .. k |-> IF i < k THEN s[i] ELSE m]
  <2>8. ASSUME NEW i \in 1 .. k
        PROVE  /\ i < k => i \in 1 .. (k - 1) /\ t[i] = s[i] /\ s[i] \in U
               /\ ~(i < k) => i = k /\ t[i] = m
    <3>1. i < k => i \in 1 .. (k - 1)
      BY <1>4
    <3>2. ~(i < k) => i = k
      BY <1>4
    <3> QED BY <3>1, <3>2
  <2>9. t \in [1 .. k -> T]
    BY <2>8
  <2> HIDE DEF t
  <2>10. ASSUME NEW j \in 1 .. k, NEW i \in 1 .. (j - 1) PROVE CanonicalLess(t[i], t[j])
    <3>1. i \in 1 .. k /\ i < k
      BY <1>4
    <3>2. CASE j < k
      <4>1. j \in 1 .. (k - 1)
        BY <2>8, <3>2
      <4>2. t[i] = s[i] /\ t[j] = s[j]
        BY <2>8, <3>1, <3>2
      <4> QED BY <2>7, <4>1, <4>2 DEF Increasing
    <3>3. CASE ~(j < k)
      BY <2>2, <2>8, <3>1, <3>3 DEF IsLast
    <3> QED BY <3>2, <3>3
  <2>11. Sortable(T, k)
    BY <2>9, <2>10 DEF Sortable, Increasing
  <2> QED BY <1>3, <2>11
<1> QED BY <1>5, <1>6

\* Every name is there, once, before those it is less than.
LEMMA SortedNames ==
  ASSUME NEW S, Named(S)
  PROVE  /\ Sorted(S) \in Seq(S)
         /\ Len(Sorted(S)) = Cardinality(S) /\ Cardinality(S) \in Nat
         /\ \A j \in 1 .. Cardinality(S) : \A i \in 1 .. (j - 1) :
              CanonicalLess(Sorted(S)[i], Sorted(S)[j])
         /\ \A n \in S : \E i \in 1 .. Cardinality(S) : Sorted(S)[i] = n
<1> DEFINE k == Cardinality(S)  s == Sorted(S)
<1>1. k \in Nat
  BY FS_CardinalityType DEF Named
<1>2. s \in [1 .. k -> S] /\ \A j \in 1 .. k : \A i \in 1 .. (j - 1) : CanonicalLess(s[i], s[j])
  <2>1. \E f \in [1 .. k -> S] :
          \A j \in DOMAIN f : \A i \in 1 .. (j - 1) : CanonicalLess(f[i], f[j])
    <3>1. PICK f \in [1 .. k -> S] : Increasing(f, k)
      BY SortedExists
    <3> QED BY <3>1 DEF Increasing
  <2>2. /\ s \in [1 .. k -> S]
        /\ \A j \in DOMAIN s : \A i \in 1 .. (j - 1) : CanonicalLess(s[i], s[j])
    BY <2>1 DEF Sorted
  <2> QED BY <2>2
<1> HIDE DEF s, k
<1>3. s \in Seq(S) /\ Len(s) = k
  BY <1>1, <1>2
<1>4. ASSUME NEW i \in 1 .. k, NEW j \in 1 .. k, s[i] = s[j] PROVE i = j
  <2>1. s[i] \in Seq(Nat)
    BY <1>2 DEF Named
  <2>2. ~CanonicalLess(s[i], s[j]) /\ ~CanonicalLess(s[j], s[i])
    BY <1>4, <2>1, LessIrreflexive
  <2>3. i < j => i \in 1 .. (j - 1)
    BY <1>1
  <2>4. j < i => j \in 1 .. (i - 1)
    BY <1>1
  <2>5. i = j \/ i < j \/ j < i
    BY <1>1
  <2> QED BY <1>2, <2>2, <2>3, <2>4, <2>5
<1>5. s \in Injection(1 .. k, S)
  BY <1>2, <1>4 DEF Injection, IsInjective
<1>6. Cardinality(1 .. k) = k
  BY <1>1, FS_Interval
<1>7. s \in Surjection(1 .. k, S)
  BY <1>5, <1>6, FS_Injection DEF Named, k
<1>8. \A n \in S : \E i \in 1 .. k : s[i] = n
  BY <1>7 DEF Surjection
<1> QED BY <1>1, <1>2, <1>3, <1>8 DEF s, k

-----------------------------------------------------------------------------
(* The span of a name.                                                     *)

\* A name of the zone owns its span, any other one is covered by it; and no span
\* covers a name of the zone.
LEMMA SpanProves ==
  ASSUME NEW S, Named(S), S # {}, NEW n \in Seq(Nat)
  PROVE  LET span == Span(Sorted(S), n)
         IN  /\ span.owner \in S /\ span.next \in S
             /\ n \in S => span.owner = n
             /\ n \notin S => Covers(span, n)
             /\ \A m \in S : ~Covers(span, m)
<1> DEFINE s == Sorted(S)  k == Cardinality(S)  span == Span(s, n)
<1>1. /\ s \in Seq(S) /\ Len(s) = k /\ k \in Nat /\ k # 0
      /\ \A j \in 1 .. k : \A i \in 1 .. (j - 1) : CanonicalLess(s[i], s[j])
      /\ \A m \in S : \E i \in 1 .. k : s[i] = m
  BY SortedNames, FS_EmptySet DEF Named
<1>2. \A i \in 1 .. k : s[i] \in S /\ s[i] \in Seq(Nat)
  BY <1>1 DEF Named
<1> DEFINE At == {i \in 1 .. Len(s) : s[i] = n}
           After == {i \in 1 .. Len(s) : CanonicalLess(n, s[i])}
           next == IF After = {} THEN 1 ELSE Min(After)
<1>3. span = IF At # {} /\ Min(At) # 0
               THEN [owner |-> n, next |-> s[(Min(At) % Len(s)) + 1]]
               ELSE [owner |-> s[IF next = 1 THEN Len(s) ELSE next - 1], next |-> s[next]]
  <2>1. (IF After = {} THEN 0 ELSE Min(After)) # 0 \/ After = {}
    <3>1. CASE After # {}
      <4>1. After \subseteq Nat
        OBVIOUS
      <4>2. Min(After) \in After
        BY <3>1, <4>1, LeastIsMin
      <4> QED BY <4>2
    <3> QED BY <3>1
  <2> QED BY <2>1 DEF Span, SelectInSeq
<1> HIDE DEF s, k, span
\* A span around no name but its ends.
<1>4. ASSUME NEW i \in 1 .. (k - 1), span.owner = s[i], span.next = s[i + 1]
      PROVE  /\ CanonicalLess(span.owner, span.next)
             /\ \A m \in S : ~Covers(span, m)
  <2>1. i \in 1 .. k /\ i + 1 \in 1 .. k /\ i \in 1 .. ((i + 1) - 1)
    BY <1>1
  <2>2. CanonicalLess(span.owner, span.next)
    BY <1>1, <1>4, <2>1
  <2>3. ASSUME NEW j \in 1 .. k, CanonicalLess(s[i], s[j]), CanonicalLess(s[j], s[i + 1])
        PROVE  FALSE
    <3>1. CASE j < i
      <4>1. j \in 1 .. (i - 1)
        BY <3>1
      <4>2. CanonicalLess(s[j], s[i])
        BY <1>1, <2>1, <4>1
      <4> QED BY <1>2, <2>1, <2>3, <4>2, LessTransitive, LessIrreflexive
    <3>2. CASE j = i
      BY <1>2, <2>1, <2>3, <3>2, LessIrreflexive
    <3>3. CASE j = i + 1
      BY <1>2, <2>1, <2>3, <3>3, LessIrreflexive
    <3>4. CASE i + 1 < j
      <4>1. i + 1 \in 1 .. (j - 1)
        BY <3>4
      <4>2. CanonicalLess(s[i + 1], s[j])
        BY <1>1, <4>1
      <4> QED BY <1>2, <2>1, <2>3, <4>2, LessTransitive, LessIrreflexive
    <3> QED BY <2>1, <3>1, <3>2, <3>3, <3>4
  <2> QED BY <1>1, <1>4, <2>2, <2>3 DEF Covers
\* The span around the end of the zone.
<1>5. ASSUME span.owner = s[k], span.next = s[1]
      PROVE  /\ ~CanonicalLess(span.owner, span.next)
             /\ \A m \in S : ~Covers(span, m)
  <2>1. 1 \in 1 .. k /\ k \in 1 .. k
    BY <1>1
  <2>2. ASSUME NEW j \in 1 .. k PROVE ~CanonicalLess(s[k], s[j])
    <3>1. CASE j = k
      BY <1>2, <3>1, LessIrreflexive
    <3>2. CASE j # k
      <4>1. j \in 1 .. (k - 1)
        BY <1>1, <3>2
      <4>2. CanonicalLess(s[j], s[k])
        BY <1>1, <2>1, <4>1
      <4> QED BY <1>2, <2>1, <4>2, LessTransitive, LessIrreflexive
    <3> QED BY <3>1, <3>2
  <2>3. ASSUME NEW j \in 1 .. k PROVE ~CanonicalLess(s[j], s[1])
    <3>1. CASE j = 1
      BY <1>2, <3>1, LessIrreflexive
    <3>2. CASE j # 1
      <4>1. 1 \in 1 .. (j - 1)
        BY <1>1, <3>2
      <4>2. CanonicalLess(s[1], s[j])
        BY <1>1, <2>1, <4>1
      <4> QED BY <1>2, <2>1, <4>2, LessTransitive, LessIrreflexive
    <3> QED BY <3>1, <3>2
  <2> QED BY <1>1, <1>5, <2>1, <2>2, <2>3 DEF Covers
<1> DEFINE Good == /\ span.owner \in S /\ span.next \in S
                   /\ n \in S => span.owner = n
                   /\ n \notin S => Covers(span, n)
                   /\ \A m \in S : ~Covers(span, m)
<1>6. ASSUME n \in S PROVE Good
  <2>1. At # {} /\ At \subseteq Nat
    BY <1>1, <1>6
  <2>2. Min(At) \in At
    BY <2>1, LeastIsMin
  <2> DEFINE i == Min(At)
  <2>3. i \in 1 .. k /\ s[i] = n
    BY <1>1, <2>2
  <2>4. span = [owner |-> n, next |-> s[(i % k) + 1]]
    BY <1>1, <1>3, <2>1, <2>3
  <2> HIDE DEF i, At
  <2>5. CASE i = k
    <3>1. (i % k) + 1 = 1
      BY <1>1, <2>5
    <3>2. span.owner = s[k] /\ span.next = s[1]
      BY <2>3, <2>4, <2>5, <3>1
    <3>3. 1 \in 1 .. k
      BY <1>1
    <3>4. span.owner = n
      BY <2>4
    <3> QED BY <1>2, <1>5, <1>6, <3>2, <3>3, <3>4
  <2>6. CASE i # k
    <3>1. i \in 1 .. (k - 1) /\ i + 1 \in 1 .. k
      BY <1>1, <2>3, <2>6
    <3>2. i % k = i
      <4>1. i \in Nat /\ k \in Nat /\ 0 <= i /\ i < k
        BY <1>1, <3>1
      <4> QED BY <4>1
    <3>3. span.owner = s[i] /\ span.next = s[i + 1]
      BY <2>3, <2>4, <3>2
    <3>4. span.owner = n
      BY <2>4
    <3>5. i \in 1 .. k
      BY <2>3
    <3>6. \A m \in S : ~Covers(span, m)
      BY <1>4, <3>1, <3>3
    <3>7. span.owner \in S /\ span.next \in S
      BY <1>2, <3>1, <3>3, <3>5
    <3> QED BY <1>6, <3>4, <3>6, <3>7
  <2> QED BY <2>5, <2>6
<1>7. ASSUME n \notin S PROVE Good
  <2>1. At = {}
    BY <1>1, <1>2, <1>7
  <2>2. span = [owner |-> s[IF next = 1 THEN k ELSE next - 1], next |-> s[next]]
    BY <1>1, <1>3, <2>1
  <2>3. \A i \in 1 .. k : s[i] # n
    BY <1>2, <1>7
  <2>4. CASE next = 1
    <3>1. span.owner = s[k] /\ span.next = s[1] /\ 1 \in 1 .. k /\ k \in 1 .. k
      BY <1>1, <2>2, <2>4
    <3>2. CanonicalLess(s[k], n) \/ CanonicalLess(n, s[1])
      <4>1. CASE After = {}
        <5>1. ~CanonicalLess(n, s[k])
          BY <1>1, <3>1, <4>1
        <5> QED BY <1>2, <2>3, <3>1, <5>1, LessTotal
      <4>2. CASE After # {}
        <5>1. After \subseteq Nat
          OBVIOUS
        <5>2. Min(After) \in After
          BY <4>2, <5>1, LeastIsMin
        <5> QED BY <2>4, <4>2, <5>2
      <4> QED BY <4>1, <4>2
    <3>3. Covers(span, n)
      BY <1>5, <3>1, <3>2 DEF Covers
    <3> QED BY <1>2, <1>5, <1>7, <3>1, <3>3
  <2>5. CASE next # 1
    <3>1. After # {} /\ next = Min(After)
      BY <2>5
    <3>2. After \subseteq Nat
      OBVIOUS
    <3>3. next \in After /\ \A j \in After : next <= j
      BY <3>1, <3>2, LeastIsMin
    <3>4. next \in 1 .. k /\ CanonicalLess(n, s[next])
      BY <1>1, <3>3
    <3> DEFINE i == next - 1
    <3>5. i \in 1 .. (k - 1) /\ i \in 1 .. k /\ i + 1 = next /\ ~(next <= i)
      <4>1. k \in Nat /\ next \in 1 .. k /\ next # 1
        BY <1>1, <2>5, <3>4
      <4> HIDE DEF next
      <4> QED BY <4>1
    <3>6. span.owner = s[i] /\ span.next = s[i + 1]
      BY <2>2, <2>5, <3>5
    <3>7. i \notin After
      BY <3>3, <3>5
    <3>8. ~CanonicalLess(n, s[i])
      BY <1>1, <3>5, <3>7
    <3> HIDE DEF i, next, After
    <3>9. CanonicalLess(s[i], n)
      BY <1>2, <2>3, <3>5, <3>8, LessTotal
    <3>10. Covers(span, n)
      BY <1>4, <3>4, <3>5, <3>6, <3>9 DEF Covers
    <3> QED BY <1>2, <1>4, <1>7, <3>4, <3>5, <3>6, <3>10
  <2> QED BY <2>4, <2>5
<1> QED BY <1>6, <1>7 DEF span, s
-----------------------------------------------------------------------------
(* The types.                                                              *)

Labels   == {"idle", "zone", "lookup", "exists", "created", "updated", "deny", "names", "types", "sign", "sent"}
Denying  == {"exists", "created", "updated", "deny", "names", "types"}
Question == [name : Names, type : Asked, do : BOOLEAN]
Codes    == {"NoError", "NXDomain", "NotImp", "ServFail"}
Answers  == [owner : Names, type : Asked, from : Ids \cup {None}]
Tellings == [zone : Zones, serial : Nat] \cup {None}

TablesOK ==
  /\ now \in 1 .. MaxTime
  /\ domain \in [Zones -> 1 .. now \cup {None}]
  /\ record \in [Ids -> Row \cup {None}]
  /\ \A i \in Present : domain[record[i].zone] # None /\ record[i].stamp <= now
  /\ dnssec \in BOOLEAN

KeptOK ==
  /\ keptRows \subseteq Ids /\ keptZones \subseteq Zones
  /\ failed \in BOOLEAN /\ skipped \in BOOLEAN /\ told \in Tellings

QueryOK ==
  /\ pc \in Labels /\ zone \in Zones \cup {None}
  /\ pc # "idle" => question \in Question
  /\ pc \in {"idle", "zone"} => zone = None
  /\ pc \in Denying => zone # None /\ question.type \in Stored \cup {"SOA", "DS"}
  /\ pc \in {"deny", "names", "types"} => question.type # "SOA" \/ zone # question.name

ReplyOK ==
  reply \in [rcode : Codes, answer : SUBSET Answers, signed : BOOLEAN,
             soa : 0 .. now \cup {None}, proof : Proof \cup {None}]

\* What the message holds, by where the query is.
MessageOK ==
  /\ pc \in {"idle", "zone", "lookup", "exists"} => reply = Blank
  /\ pc \in Denying => reply.answer = {}
  /\ pc \in {"created", "updated", "deny", "names", "sign"} => reply.proof = None
  /\ pc = "created" => reply.soa = None
  /\ pc = "updated" => reply.soa \in 0 .. now
  /\ pc \in {"deny", "names", "types"} => reply.soa \in 1 .. now
  /\ pc = "types" => reply.proof \in Proof
  /\ pc \in {"sign", "sent"} => reply.soa \in 1 .. now \cup {None}
  /\ pc \in {"sign", "sent"} /\ reply.soa = None
       => reply.proof = None /\ \A rr \in reply.answer : rr.type # "SOA"
  /\ reply.soa # None => zone # None

TInv == TablesOK /\ KeptOK /\ QueryOK /\ ReplyOK /\ MessageOK

\* Most statements read no void row.
USE DEF Reading

LEMMA Typed == TInv => TypeOK
<1> SUFFICES ASSUME TInv PROVE TypeOK
  OBVIOUS
<1>1. ASSUME NEW rr \in reply.answer
      PROVE  rr.type \in Asked /\ rr.owner \in Names /\ rr.from \in Ids \cup {None}
  BY DEF TInv, ReplyOK, Answers
<1>2. ASSUME pc = "sent", reply.proof # None \/ RR(zone, "SOA", None) \in reply.answer
      PROVE  reply.soa \in 1 .. now
  <2>1. RR(zone, "SOA", None).type = "SOA"
    BY DEF RR
  <2> QED BY <1>2, <2>1 DEF TInv, MessageOK
<1>3. reply.rcode \in Codes /\ reply.proof \in Proof \cup {None}
  BY DEF TInv, ReplyOK
<1> QED BY <1>1, <1>2, <1>3 DEF TInv, TablesOK, KeptOK, QueryOK, Codes, TypeOK


LEMMA InitTInv == Init => TInv
<1> SUFFICES ASSUME Init PROVE TInv
  OBVIOUS
<1>1. now = 1 /\ 1 \in 1 .. MaxTime
  BY ZoneAnswersAssumption DEF Init
<1>2. domain \in [Zones -> 1 .. now \cup {None}]
  BY <1>1 DEF Init
<1>3. \A i \in Ids : record[i] \in Row \cup {None}
                     /\ (record[i] # None => domain[record[i].zone] # None /\ record[i].stamp = 1)
  <2> SUFFICES ASSUME NEW i \in Ids, record[i] # None
               PROVE  record[i] \in Row /\ domain[record[i].zone] # None /\ record[i].stamp = 1
    OBVIOUS
  <2>1. record[i] \in [zone : {z \in Zones : domain[z] # None}, name : Names,
                       type : Stored, content : {"good"}, stamp : {1}]
    BY DEF Init
  <2> QED BY <1>1, <2>1 DEF Row, Contents
<1>4. TablesOK
  <2>1. record \in [Ids -> Row \cup {None}]
    BY <1>3 DEF Init
  <2> QED BY <1>1, <1>2, <1>3, <2>1 DEF Init, TablesOK, Present
<1>5. KeptOK
  BY DEF Init, KeptOK, Tellings
<1>6. QueryOK
  BY DEF Init, QueryOK, Labels, Denying
<1>7. ReplyOK
  BY DEF Init, ReplyOK, Blank, Codes
<1>8. MessageOK
  BY DEF Init, MessageOK, Blank, Denying
<1> QED BY <1>4, <1>5, <1>6, <1>7, <1>8 DEF TInv

LEMMA Failing ==
  ASSUME failed \in BOOLEAN, NEW ok \in BOOLEAN, Statement(ok)
  PROVE  failed' \in BOOLEAN /\ (~failed' => ok /\ ~failed)
<1>1. CASE ok
  BY <1>1, Zenon DEF Statement
<1>2. CASE ~ok
  BY <1>2, Zenon DEF Statement
<1> QED BY <1>1, <1>2

\* Statements that only read the tables.
LEMMA ReadingStep ==
  ASSUME TInv, Looking, skipped' \in {skipped, TRUE, FALSE}, failed' \in BOOLEAN, told' \in Tellings, QueryOK', ReplyOK', MessageOK'
  PROVE  TInv'
<1>1. TablesOK'
  BY DEF Looking, tables, TInv, TablesOK, Present
<1>2. KeptOK'
  BY DEF Looking, TInv, KeptOK
<1> QED BY <1>1, <1>2 DEF TInv

LEMMA Telling ==
  ASSUME TInv, NEW message, message.soa \in Nat \cup {None}, message.soa # None => zone # None, Send(message)
  PROVE  told' \in Tellings /\ reply' = message /\ pc' = "sent"
BY DEF Send, TInv, KeptOK, QueryOK, Tellings

LEMMA AskStep ==
  ASSUME TInv, NEW n \in Names, NEW t \in Asked, NEW do \in BOOLEAN, Ask(n, t, do)
  PROVE  TInv'
<1>1. TablesOK'
  BY DEF Ask, tables, TInv, TablesOK, Present
<1>2. KeptOK'
  BY DEF Ask, TInv, KeptOK
<1>3. QueryOK'
  <2>1. question' \in Question
    BY DEF Ask, Question
  <2> QED BY <2>1 DEF Ask, TInv, QueryOK, Labels, Denying
<1>4. ReplyOK'
  BY DEF Ask, TInv, ReplyOK
<1>5. MessageOK'
  BY DEF Ask, TInv, MessageOK, Denying
<1> QED BY <1>1, <1>2, <1>3, <1>4, <1>5 DEF TInv

\* The closest zone is one that there is and that has the name, and none is closer.
LEMMA ClosestMeans ==
  ASSUME TInv, pc # "idle"
  PROVE  LET c == Closest(question.name)
         IN  /\ c \in Zones \cup {None}
             /\ c # None => domain[c] # None
             /\ \A z \in Zones : domain[z] # None /\ IsPrefix(z, question.name)
                                   => c # None /\ Len(z) <= Len(c)
<1> DEFINE n == question.name
           M == {z \in Zones : domain[z] # None /\ IsPrefix(z, n)}
           Lengths == {Len(z) : z \in M}
<1>1. CASE M = {}
  BY <1>1 DEF Closest
<1>2. CASE M # {}
  <2>1. n \in Seq(Nat) /\ Zones \subseteq Seq(Nat) /\ None \notin Zones
    BY ZoneAnswersAssumption DEF TInv, QueryOK, Question
  <2>2. Len(n) \in Nat /\ \A z \in M : Len(z) \in 0 .. Len(n)
    BY <2>1, PrefixMeans
  <2>3. Lengths \subseteq 0 .. Len(n) /\ Lengths # {}
    BY <1>2, <2>2
  <2>4. PICK m \in Lengths : \A i \in Lengths : i <= m
    <3> HIDE DEF Lengths
    <3> QED BY <2>2, <2>3, Greatest
  <2>5. \E z \in M : \A y \in M : Len(y) <= Len(z)
    BY <2>4
  <2>6. Closest(n) = CHOOSE z \in M : \A y \in M : Len(y) <= Len(z)
    BY <1>2 DEF Closest
  <2>7. Closest(n) \in M /\ \A y \in M : Len(y) <= Len(Closest(n))
    <3> HIDE DEF M
    <3> QED BY <2>5, <2>6
  <2> QED BY <2>1, <2>7
<1> QED BY <1>1, <1>2

LEMMA FindZoneStep == ASSUME TInv, NEW ok \in BOOLEAN, FindZone(ok) PROVE TInv'
<1>1. failed' \in BOOLEAN
  BY Failing DEF FindZone, TInv, KeptOK
<1>2. zone' \in Zones \cup {None}
  BY ClosestMeans DEF FindZone
<1>3. QueryOK'
  BY <1>2 DEF FindZone, TInv, QueryOK, Labels, Denying
<1>4. ReplyOK' /\ told' \in Tellings
  BY DEF FindZone, Looking, TInv, ReplyOK, KeptOK
<1>5. MessageOK'
  <2>1. reply = Blank /\ reply' = Blank /\ pc' = "lookup"
    BY DEF FindZone, TInv, MessageOK
  <2> QED BY <2>1 DEF MessageOK, Denying, Blank
<1>6. Reading
  BY DEF FindZone
<1> QED BY <1>1, <1>3, <1>4, <1>5, <1>6, ReadingStep

\* Nothing is known of the message but that it bears a code, and is sent.
LEMMA RefuseStep ==
  ASSUME TInv, pc = "lookup", NEW rcode \in Codes, Refuse(rcode),
         Looking, UNCHANGED <<question, zone>>, skipped' \in {skipped, TRUE, FALSE}, failed' \in BOOLEAN
  PROVE  TInv'
<1>1. reply = Blank /\ question \in Question
  BY DEF TInv, MessageOK, QueryOK
<1> DEFINE message == [reply EXCEPT !.rcode = rcode]
<1>2. message = [Blank EXCEPT !.rcode = rcode] /\ message.soa = None
  BY <1>1 DEF Blank
<1>3. told' \in Tellings /\ reply' = message /\ pc' = "sent"
  BY <1>2, Telling DEF Refuse
<1>4. QueryOK'
  BY <1>1, <1>3 DEF TInv, QueryOK, Labels, Denying
<1>5. ReplyOK'
  BY <1>2, <1>3 DEF ReplyOK, Blank
<1>6. MessageOK'
  BY <1>2, <1>3 DEF MessageOK, Blank, Denying
<1> QED BY <1>3, <1>4, <1>5, <1>6, ReadingStep

LEMMA MissingStep ==
  ASSUME TInv, pc = "lookup", Missing, question.type \in Stored \cup {"SOA", "DS"},
         Looking, UNCHANGED <<question, zone>>, skipped' \in {skipped, TRUE, FALSE}, failed' \in BOOLEAN
  PROVE  TInv'
<1>1. CASE zone = None
  BY <1>1, RefuseStep DEF Missing, Codes
<1>2. CASE zone # None
  <2>1. pc' = "exists" /\ reply' = reply /\ told' = told /\ reply = Blank
    BY <1>2 DEF Missing, TInv, MessageOK
  <2>2. QueryOK'
    BY <1>2, <2>1 DEF TInv, QueryOK, Labels, Denying
  <2>3. ReplyOK' /\ told' \in Tellings
    BY <2>1 DEF Looking, TInv, ReplyOK, KeptOK
  <2>4. MessageOK'
    BY <2>1 DEF MessageOK, Blank, Denying
  <2> QED BY <2>2, <2>3, <2>4, ReadingStep
<1> QED BY <1>1, <1>2

LEMMA AnsweredStep ==
  ASSUME TInv, pc = "lookup", pc' = "sign", Looking, UNCHANGED <<question, zone, told>>,
         skipped' \in {skipped, TRUE, FALSE}, failed' \in BOOLEAN, NEW some \in SUBSET Answers, reply' = [reply EXCEPT !.answer = some],
         \A rr \in some : rr.type # "SOA"
  PROVE  TInv'
<1>1. reply = Blank /\ reply' = [Blank EXCEPT !.answer = some]
  BY DEF TInv, MessageOK
<1>2. QueryOK'
  BY DEF TInv, QueryOK, Labels, Denying
<1>3. ReplyOK' /\ told' \in Tellings
  BY <1>1 DEF ReplyOK, Blank, Codes, TInv, KeptOK
<1>4. MessageOK'
  BY <1>1 DEF MessageOK, Blank, Denying
<1> QED BY <1>2, <1>3, <1>4, ReadingStep

LEMMA LookupStep == ASSUME TInv, NEW ok \in BOOLEAN, Lookup(ok) PROVE TInv'
<1> DEFINE rows  == {i \in RowsOf(zone, question.name) : record[i].type = question.type}
           reads == IF question.type = "TXT" \/ rows = {} THEN {rows} ELSE {{i} : i \in rows}
           found(read)  == {i \in read : record[i].content # "void"}
           good(read)   == {i \in found(read) : record[i].content = "good"}
           answer(read) == {RR(question.name, question.type, i) : i \in good(read)}
<1>1. /\ pc = "lookup" /\ question.type \in Stored /\ Looking
      /\ UNCHANGED <<question, zone>> /\ Statement(ok)
  BY DEF Lookup
<1>2. PICK read \in reads :
        /\ IF found(read) = {} \/ ~ok
             THEN Missing
             ELSE reply' = [reply EXCEPT !.answer = answer(read)] /\ pc' = "sign" /\ told' = told
        /\ skipped' = (found(read) # read)
  BY DEF Lookup
<1>3. failed' \in BOOLEAN /\ skipped' \in {skipped, TRUE, FALSE}
  BY <1>1, <1>2, Failing DEF TInv, KeptOK
<1>4. CASE found(read) = {} \/ ~ok
  BY <1>1, <1>2, <1>3, <1>4, MissingStep
<1>5. CASE ~(found(read) = {} \/ ~ok)
  <2>1. pc' = "sign" /\ told' = told /\ reply' = [reply EXCEPT !.answer = answer(read)]
    BY <1>2, <1>5
  <2>2. good(read) \subseteq Ids
    <3>1. rows \subseteq Ids
      BY DEF RowsOf, RowsIn, Present
    <3>2. read \subseteq rows
      BY <1>2
    <3> QED BY <3>1, <3>2
  <2>3. question.name \in Names /\ question.type \in Asked /\ question.type # "SOA"
    BY <1>1 DEF TInv, QueryOK, Question, Stored
  <2> DEFINE some == answer(read)
  <2>4. \A rr \in some : rr \in Answers /\ rr.type # "SOA"
    <3> HIDE DEF good
    <3> QED BY <2>2, <2>3 DEF RR, Answers
  <2>5. reply' = [reply EXCEPT !.answer = some]
    BY <2>1
  <2> HIDE DEF some, reads, found, rows
  <2>6. some \in SUBSET Answers /\ \A rr \in some : rr.type # "SOA"
    BY <2>4
  <2> QED BY <1>1, <1>3, <2>1, <2>5, <2>6, AnsweredStep
<1> QED BY <1>4, <1>5

LEMMA SynthesizeStep == ASSUME TInv, NEW hosts \in BOOLEAN, Synthesize(hosts) PROVE TInv'
<1>1. /\ pc = "lookup" /\ question.type \in {"NS", "CAA"} /\ Reading
      /\ UNCHANGED <<question, zone>> /\ failed' \in BOOLEAN
  BY DEF Synthesize, TInv, KeptOK
<1>2. CASE zone = None \/ (question.type = "NS" /\ ~hosts)
  BY <1>1, <1>2, RefuseStep DEF Synthesize, Codes
<1>3. CASE ~(zone = None \/ (question.type = "NS" /\ ~hosts))
  <2> DEFINE some == {RR(IF question.type = "NS" THEN zone ELSE question.name, question.type, None)}
  <2>1. pc' = "sign" /\ told' = told /\ reply' = [reply EXCEPT !.answer = some]
    BY <1>3 DEF Synthesize
  <2>2. question.name \in Names /\ zone \in Names
    BY <1>1, <1>3, ZoneAnswersAssumption DEF TInv, QueryOK, Question
  <2>3. some \in SUBSET Answers /\ \A rr \in some : rr.type # "SOA"
    BY <1>1, <2>2 DEF RR, Answers, Asked
  <2> QED BY <1>1, <2>1, <2>3, AnsweredStep
<1> QED BY <1>2, <1>3

LEMMA AskSOAStep == ASSUME TInv, AskSOA PROVE TInv'
<1>1. /\ pc = "lookup" /\ question.type = "SOA" /\ Reading
      /\ UNCHANGED <<question, zone>> /\ failed' \in BOOLEAN
  BY DEF AskSOA, TInv, KeptOK
<1>2. CASE zone # None /\ zone = question.name
  <2>1. pc' = "created" /\ reply' = reply /\ told' = told /\ reply = Blank
    BY <1>2 DEF AskSOA, TInv, MessageOK
  <2>2. QueryOK'
    BY <1>1, <1>2, <2>1 DEF TInv, QueryOK, Labels, Denying
  <2>3. ReplyOK' /\ told' \in Tellings
    BY <1>1, <2>1 DEF Looking, TInv, ReplyOK, KeptOK
  <2>4. MessageOK'
    BY <2>1 DEF MessageOK, Blank, Denying
  <2> QED BY <1>1, <2>2, <2>3, <2>4, ReadingStep
<1>3. CASE ~(zone # None /\ zone = question.name)
  BY <1>1, <1>3, MissingStep DEF AskSOA
<1> QED BY <1>2, <1>3

LEMMA AskKeyStep == ASSUME TInv, NEW ok \in BOOLEAN, AskKey(ok) PROVE TInv'
<1>1. /\ pc = "lookup" /\ question.type = "DNSKEY" /\ Reading
      /\ UNCHANGED <<question, zone>> /\ Statement(ok)
  BY DEF AskKey
<1>2. failed' \in BOOLEAN
  BY <1>1, Failing DEF TInv, KeptOK
<1>3. CASE dnssec /\ zone = question.name /\ ok
  <2> DEFINE message == [reply EXCEPT !.answer = {RR(zone, "DNSKEY", None)}, !.signed = TRUE]
  <2>1. reply = Blank /\ question \in Question
    BY <1>1 DEF TInv, MessageOK, QueryOK
  <2>2. message = [Blank EXCEPT !.answer = {RR(zone, "DNSKEY", None)}, !.signed = TRUE]
    BY <2>1
  <2>3. message.soa = None /\ message.proof = None /\ message.rcode = "NoError"
        /\ message.answer = {RR(zone, "DNSKEY", None)}
    BY <2>2 DEF Blank
  <2>4. Send(message)
    <3>1. dnssec = TRUE /\ ok = TRUE
      BY <1>3 DEF TInv, TablesOK
    <3> QED BY <1>3, <3>1 DEF AskKey
  <2>5. told' \in Tellings /\ reply' = message /\ pc' = "sent"
    BY <2>3, <2>4, Telling
  <2>6. RR(zone, "DNSKEY", None) \in Answers /\ RR(zone, "DNSKEY", None).type # "SOA"
    BY <1>3, <2>1 DEF RR, Answers, Question, Asked
  <2>7. QueryOK'
    BY <1>1, <2>5 DEF TInv, QueryOK, Labels, Denying
  <2>8. ReplyOK'
    BY <2>2, <2>5, <2>6 DEF ReplyOK, Blank, Codes
  <2>9. MessageOK'
    BY <2>3, <2>5, <2>6 DEF MessageOK, Denying
  <2> QED BY <1>1, <1>2, <2>5, <2>7, <2>8, <2>9, ReadingStep
<1>4. CASE ~(dnssec /\ zone = question.name /\ ok)
  <2>1. \E rcode \in Codes : Refuse(rcode)
    BY <1>4 DEF AskKey, Codes
  <2> QED BY <1>1, <1>2, <2>1, RefuseStep
<1> QED BY <1>3, <1>4

LEMMA AskDSStep == ASSUME TInv, AskDS PROVE TInv'
<1>1. failed' \in BOOLEAN
  BY DEF AskDS, TInv, KeptOK
<1> QED BY <1>1, MissingStep DEF AskDS

LEMMA AskOtherStep == ASSUME TInv, AskOther PROVE TInv'
<1>1. failed' \in BOOLEAN
  BY DEF AskOther, TInv, KeptOK
<1> QED BY <1>1, RefuseStep DEF AskOther, Codes

LEMMA ExistsStep == ASSUME TInv, NEW ok \in BOOLEAN, Exists(ok) PROVE TInv'
<1>1. failed' \in BOOLEAN /\ Reading
  BY Failing DEF Exists, TInv, KeptOK
<1>2. PICK rcode \in Codes : reply' = [reply EXCEPT !.rcode = rcode]
  BY DEF Exists, Codes
<1>3. reply = Blank /\ pc = "exists" /\ pc' = "created" /\ UNCHANGED <<question, zone, told>>
  BY DEF Exists, TInv, MessageOK
<1>4. QueryOK'
  BY <1>3 DEF TInv, QueryOK, Labels, Denying
<1>5. ReplyOK' /\ told' \in Tellings
  BY <1>2, <1>3 DEF ReplyOK, Blank, TInv, KeptOK
<1>6. MessageOK'
  BY <1>2, <1>3 DEF MessageOK, Denying, Blank
<1> QED BY <1>1, <1>4, <1>5, <1>6, ReadingStep

LEMMA CreatedStep == ASSUME TInv, NEW ok \in BOOLEAN, Created(ok) PROVE TInv'
<1>1. failed' \in BOOLEAN /\ Reading
  BY Failing DEF Created, TInv, KeptOK
<1>2. /\ pc = "created" /\ pc' = "updated" /\ UNCHANGED <<question, zone, told>>
      /\ zone \in Zones /\ zone # None /\ reply.answer = {} /\ reply.proof = None
  BY DEF Created, TInv, QueryOK, MessageOK, Denying
<1>3. PICK s \in 0 .. now : reply' = [reply EXCEPT !.soa = s]
  <2>1. now \in Nat /\ (domain[zone] # None => domain[zone] \in 1 .. now)
    BY <1>2, ZoneAnswersAssumption DEF TInv, TablesOK
  <2> QED BY <2>1 DEF Created
<1>4. QueryOK'
  BY <1>2 DEF TInv, QueryOK, Labels, Denying
<1>5. now' = now
  BY <1>1 DEF Looking
<1>6. ReplyOK' /\ told' \in Tellings
  BY <1>2, <1>3, <1>5 DEF ReplyOK, TInv, KeptOK
<1>7. reply'.soa = s /\ reply'.answer = {} /\ reply'.proof = None
  BY <1>2, <1>3 DEF TInv, ReplyOK
<1>8. MessageOK'
  BY <1>2, <1>5, <1>7 DEF MessageOK, Denying
<1> QED BY <1>1, <1>4, <1>6, <1>8, ReadingStep

\* The serial: the latest of the stamps, which there is.
Stamps(ok) == {reply.soa} \cup {record[i].stamp : i \in IF ok THEN RowsIn(zone) ELSE {}}

LEMMA LatestMeans ==
  ASSUME TInv, pc = "updated", NEW ok \in BOOLEAN
  PROVE  /\ Stamps(ok) \subseteq 0 .. now /\ now \in Nat
         /\ Latest(Stamps(ok)) \in Stamps(ok)
         /\ \A s \in Stamps(ok) : s <= Latest(Stamps(ok))
<1> DEFINE S == Stamps(ok)
<1>1. reply.soa \in 0 .. now /\ now \in Nat
  BY ZoneAnswersAssumption DEF TInv, TablesOK, MessageOK
<1>2. \A i \in RowsIn(zone) : record[i].stamp \in 0 .. now
  BY <1>1 DEF RowsIn, Present, TInv, TablesOK, Row
<1>3. S \subseteq 0 .. now /\ S # {}
  BY <1>1, <1>2 DEF Stamps
<1>4. PICK m \in S : \A i \in S : i <= m
  <2> HIDE DEF S
  <2> QED BY <1>1, <1>3, Greatest
<1>5. Latest(S) \in S /\ \A s \in S : s <= Latest(S)
  <2> HIDE DEF S
  <2> QED BY <1>4 DEF Latest
<1> QED BY <1>1, <1>3, <1>5

LEMMA UpdatedMeans ==
  ASSUME TInv, NEW ok \in BOOLEAN, Updated(ok)
  PROVE  \E s \in 1 .. now, some \in {{}, {RR(zone, "SOA", None)}} :
           /\ s = (IF Latest(Stamps(ok)) = 0 THEN 1 ELSE Latest(Stamps(ok)))
           /\ some # {} <=> question.type = "SOA" /\ zone = question.name
           /\ reply' = [reply EXCEPT !.soa = s, !.answer = some]
           /\ reply'.soa = s /\ reply'.answer = some
           /\ reply'.proof = None /\ reply.proof = None /\ reply'.rcode = reply.rcode
           /\ pc' = IF some # {} THEN "sign" ELSE "deny"
<1> DEFINE s == IF Latest(Stamps(ok)) = 0 THEN 1 ELSE Latest(Stamps(ok))
           some == IF question.type = "SOA" /\ zone = question.name THEN {RR(zone, "SOA", None)} ELSE {}
<1>1. pc = "updated" /\ reply.proof = None /\ now \in Nat \ {0}
  BY ZoneAnswersAssumption DEF Updated, TInv, MessageOK, TablesOK
<1>2. Latest(Stamps(ok)) \in 0 .. now
  BY <1>1, LatestMeans
<1>3. s \in 1 .. now
  BY <1>1, <1>2
<1>4. reply' = [reply EXCEPT !.soa = s, !.answer = some] /\ pc' = IF reply'.answer # {} THEN "sign" ELSE "deny"
  BY DEF Updated, Stamps
<1> HIDE DEF s
<1>5. reply'.soa = s /\ reply'.answer = some /\ reply'.proof = reply.proof /\ reply'.rcode = reply.rcode
  BY <1>4 DEF TInv, ReplyOK
<1>6. some \in {{}, {RR(zone, "SOA", None)}}
  OBVIOUS
<1>7. some # {} <=> question.type = "SOA" /\ zone = question.name
  OBVIOUS
<1> HIDE DEF some
<1>8. s = (IF Latest(Stamps(ok)) = 0 THEN 1 ELSE Latest(Stamps(ok)))
  BY DEF s
<1> QED BY <1>1, <1>3, <1>4, <1>5, <1>6, <1>7, <1>8

LEMMA UpdatedStep == ASSUME TInv, NEW ok \in BOOLEAN, Updated(ok) PROVE TInv'
<1>1. failed' \in BOOLEAN /\ Reading
  BY Failing DEF Updated, TInv, KeptOK
<1>2. /\ pc = "updated" /\ UNCHANGED <<question, zone, told>>
      /\ zone \in Zones /\ zone # None /\ question \in Question
  BY DEF Updated, TInv, QueryOK, Denying
<1>3. PICK s \in 1 .. now, some \in {{}, {RR(zone, "SOA", None)}} :
           /\ some # {} <=> question.type = "SOA" /\ zone = question.name
           /\ reply' = [reply EXCEPT !.soa = s, !.answer = some]
           /\ reply'.soa = s /\ reply'.answer = some /\ reply'.proof = None
           /\ pc' = IF some # {} THEN "sign" ELSE "deny"
  BY UpdatedMeans
<1>4. some \in SUBSET Answers
  <2>1. RR(zone, "SOA", None) \in Answers
    BY <1>2, ZoneAnswersAssumption DEF RR, Answers, Asked
  <2> QED BY <2>1
<1>5. QueryOK'
  BY <1>2, <1>3 DEF TInv, QueryOK, Labels, Denying
<1>6. now' = now /\ now \in Nat
  BY <1>1, ZoneAnswersAssumption DEF Looking, TInv, TablesOK
<1>7. ReplyOK' /\ told' \in Tellings
  <2>1. reply \in [rcode : Codes, answer : SUBSET Answers, signed : BOOLEAN,
                   soa : 0 .. now \cup {None}, proof : Proof \cup {None}]
    BY DEF TInv, ReplyOK
  <2>2. s \in 0 .. now \cup {None}
    BY <1>6
  <2>3. reply' \in [rcode : Codes, answer : SUBSET Answers, signed : BOOLEAN,
                    soa : 0 .. now \cup {None}, proof : Proof \cup {None}]
    BY <1>3, <1>4, <2>1, <2>2
  <2> QED BY <1>2, <1>6, <2>3 DEF ReplyOK, TInv, KeptOK
<1>8. reply'.soa # None
  BY <1>3, <1>6, ZoneAnswersAssumption
<1>9. MessageOK'
  BY <1>2, <1>3, <1>6, <1>8 DEF MessageOK, Denying
<1> QED BY <1>1, <1>5, <1>7, <1>9, ReadingStep

LEMMA DenyStep == ASSUME TInv, NEW ok \in BOOLEAN, Deny(ok) PROVE TInv'
<1>1. failed' \in BOOLEAN /\ Reading
  BY Failing DEF Deny, TInv, KeptOK
<1>2. /\ pc = "deny" /\ UNCHANGED <<question, zone>> /\ zone # None
      /\ reply.soa \in 1 .. now /\ reply.proof = None /\ reply.answer = {}
  BY DEF Deny, TInv, QueryOK, MessageOK, Denying
<1>3. now' = now /\ now \in Nat
  BY <1>1, ZoneAnswersAssumption DEF Looking, TInv, TablesOK
<1>4. CASE question.do /\ dnssec /\ ok
  <2>1. reply' = [reply EXCEPT !.signed = TRUE] /\ pc' = "names" /\ told' = told
    BY <1>4 DEF Deny
  <2>2. QueryOK'
    BY <1>2, <2>1 DEF TInv, QueryOK, Labels, Denying
  <2>3. ReplyOK' /\ told' \in Tellings
    BY <1>3, <2>1 DEF ReplyOK, TInv, KeptOK
  <2>4. MessageOK'
    <3>1. reply'.soa = reply.soa /\ reply'.proof = reply.proof /\ reply'.answer = reply.answer
      BY <2>1 DEF TInv, ReplyOK
    <3> QED BY <1>2, <1>3, <2>1, <3>1 DEF MessageOK, Denying
  <2> QED BY <1>1, <2>2, <2>3, <2>4, ReadingStep
<1>5. CASE ~(question.do /\ dnssec /\ ok)
  <2>1. Send(reply)
    BY <1>5 DEF Deny
  <2>2. told' \in Tellings /\ reply' = reply /\ pc' = "sent"
    BY <1>2, <1>3, <2>1, Telling
  <2>3. QueryOK'
    BY <1>2, <2>2 DEF TInv, QueryOK, Labels, Denying
  <2>4. ReplyOK'
    BY <1>3, <2>2 DEF ReplyOK, TInv
  <2>5. MessageOK'
    BY <1>2, <1>3, <2>2, ZoneAnswersAssumption DEF MessageOK, Denying
  <2> QED BY <1>1, <2>2, <2>3, <2>4, <2>5, ReadingStep
<1> QED BY <1>4, <1>5

NamesRead(ok) == {zone} \cup {record[i].name : i \in IF ok THEN RowsIn(zone) ELSE {}}

\* The names of a zone are finitely many, so there is a span for each.
LEMMA ReadNames ==
  ASSUME TInv, zone \in Zones, NEW ok \in BOOLEAN
  PROVE  Named(NamesRead(ok)) /\ NamesRead(ok) \subseteq Names /\ NamesRead(ok) # {}
<1>1. \A i \in RowsIn(zone) : record[i].name \in Names
  BY DEF RowsIn, Present, TInv, TablesOK, Row
<1>2. NamesRead(ok) \subseteq Names /\ NamesRead(ok) # {}
  BY <1>1, ZoneAnswersAssumption DEF NamesRead
<1>3. IsFiniteSet(NamesRead(ok)) /\ NamesRead(ok) \subseteq Seq(Nat)
  BY <1>2, ZoneAnswersAssumption, FS_Subset
<1> QED BY <1>2, <1>3 DEF Named

LEMMA SpanMeans ==
  ASSUME TInv, NEW ok \in BOOLEAN, ProveSpan(ok)
  PROVE  LET S == NamesRead(ok)
             n == question.name
         IN  /\ reply' = [reply EXCEPT !.proof = reply'.proof] /\ reply'.proof \in Proof
             /\ reply'.proof.owner \in S /\ reply'.proof.next \in S
             /\ n \in S => reply'.proof.owner = n
             /\ n \notin S => Covers(reply'.proof, n)
             /\ \A m \in S : ~Covers(reply'.proof, m)
<1> DEFINE S == NamesRead(ok)
           n == question.name
           span == Span(Sorted(S), n)
           proof == [owner |-> span.owner, next |-> span.next, types |-> {}]
<1>1. reply' = [reply EXCEPT !.proof = proof] /\ zone \in Zones /\ n \in Seq(Nat)
  <2>1. question \in Question /\ zone \in Zones
    BY DEF ProveSpan, TInv, QueryOK, Denying
  <2> QED BY <2>1, ZoneAnswersAssumption DEF ProveSpan, NamesRead, Question
<1>2. Named(S) /\ S \subseteq Names /\ S # {}
  BY <1>1, ReadNames
<1>3. /\ span.owner \in S /\ span.next \in S
      /\ n \in S => span.owner = n
      /\ n \notin S => Covers(span, n)
      /\ \A m \in S : ~Covers(span, m)
  <2> HIDE DEF S
  <2> QED BY <1>1, <1>2, SpanProves
<1> HIDE DEF S, span
<1>4. reply'.proof = proof
  BY <1>1 DEF TInv, ReplyOK
<1>5. proof.owner = span.owner /\ proof.next = span.next /\ proof \in Proof
  BY <1>2, <1>3 DEF Proof
<1> HIDE DEF proof
<1>6. \A m : Covers(proof, m) <=> Covers(span, m)
  BY <1>5 DEF Covers
<1> QED BY <1>1, <1>3, <1>4, <1>5, <1>6 DEF S

LEMMA ProveSpanStep == ASSUME TInv, NEW ok \in BOOLEAN, ProveSpan(ok) PROVE TInv'
<1>1. failed' \in BOOLEAN /\ Reading
  BY Failing DEF ProveSpan, TInv, KeptOK
<1>2. /\ pc = "names" /\ pc' = "types" /\ UNCHANGED <<question, zone, told>> /\ zone # None
      /\ reply.soa \in 1 .. now /\ reply.answer = {}
  BY DEF ProveSpan, TInv, QueryOK, MessageOK, Denying
<1>3. now' = now
  BY <1>1 DEF Looking
<1>4. PICK p \in Proof : reply' = [reply EXCEPT !.proof = p]
  BY SpanMeans
<1>5. QueryOK'
  BY <1>2 DEF TInv, QueryOK, Labels, Denying
<1>6. ReplyOK' /\ told' \in Tellings
  BY <1>2, <1>3, <1>4 DEF ReplyOK, TInv, KeptOK
<1>7. reply'.soa = reply.soa /\ reply'.proof = p /\ reply'.answer = reply.answer
  BY <1>4 DEF TInv, ReplyOK
<1>8. MessageOK'
  BY <1>2, <1>3, <1>7 DEF MessageOK, Denying
<1> QED BY <1>1, <1>5, <1>6, <1>8, ReadingStep

\* The types of an owner are those of its records, and those made up.
LEMMA TypesMeans ==
  ASSUME TInv, NEW ok \in BOOLEAN, ProveTypes(ok)
  PROVE  LET p == [reply.proof EXCEPT !.types =
                     BitMap(IF ok THEN TypesOf(zone, reply.proof.owner) ELSE {}, reply.proof.owner = zone)]
         IN  /\ Send([reply EXCEPT !.proof = p]) /\ p \in Proof
             /\ p.owner = reply.proof.owner /\ p.next = reply.proof.next
             /\ p.types = BitMap(IF ok THEN TypesOf(zone, reply.proof.owner) ELSE {}, reply.proof.owner = zone)
<1> DEFINE bits == BitMap(IF ok THEN TypesOf(zone, reply.proof.owner) ELSE {}, reply.proof.owner = zone)
           p == [reply.proof EXCEPT !.types = bits]
<1>1. reply.proof \in Proof
  BY DEF ProveTypes, TInv, MessageOK
<1>2. TypesOf(zone, reply.proof.owner) \subseteq Stored
  BY DEF TypesOf, RowsOf, RowsIn, Present, TInv, TablesOK, Row
<1>3. bits \in SUBSET (Asked \cup {"NSEC", "RRSIG"})
  BY <1>2 DEF BitMap, Asked
<1>4. Send([reply EXCEPT !.proof = p])
  BY DEF ProveTypes
<1> HIDE DEF bits
<1>5. p \in Proof /\ p.owner = reply.proof.owner /\ p.next = reply.proof.next /\ p.types = bits
  BY <1>1, <1>3 DEF Proof
<1> QED BY <1>4, <1>5 DEF bits

LEMMA ProveTypesStep == ASSUME TInv, NEW ok \in BOOLEAN, ProveTypes(ok) PROVE TInv'
<1>1. failed' \in BOOLEAN /\ Reading
  BY Failing DEF ProveTypes, TInv, KeptOK
<1>2. /\ pc = "types" /\ UNCHANGED <<question, zone>> /\ zone # None
      /\ reply.soa \in 1 .. now /\ reply.answer = {}
  BY DEF ProveTypes, TInv, QueryOK, MessageOK, Denying
<1>3. now' = now /\ now \in Nat
  BY <1>1, ZoneAnswersAssumption DEF Looking, TInv, TablesOK
<1>4. PICK p \in Proof : Send([reply EXCEPT !.proof = p])
  BY TypesMeans
<1> DEFINE message == [reply EXCEPT !.proof = p]
<1>5. message.soa = reply.soa /\ message.proof = p /\ message.answer = reply.answer
  BY DEF TInv, ReplyOK
<1>6. told' \in Tellings /\ reply' = message /\ pc' = "sent"
  <2>1. message.soa \in Nat \cup {None} /\ (message.soa # None => zone # None) /\ Send(message)
    BY <1>2, <1>3, <1>4, <1>5
  <2> HIDE DEF message
  <2> QED BY <2>1, Telling
<1>7. QueryOK'
  BY <1>2, <1>6 DEF TInv, QueryOK, Labels, Denying
<1>8. ReplyOK'
  BY <1>3, <1>6 DEF ReplyOK, TInv
<1>9. MessageOK'
  BY <1>2, <1>3, <1>5, <1>6, ZoneAnswersAssumption DEF MessageOK, Denying
<1> QED BY <1>1, <1>6, <1>7, <1>8, <1>9, ReadingStep

LEMMA SignStep == ASSUME TInv, NEW ok \in BOOLEAN, Sign(ok) PROVE TInv'
<1>1. failed' \in BOOLEAN /\ Reading
  BY Failing DEF Sign, TInv, KeptOK
<1>2. /\ pc = "sign" /\ UNCHANGED <<question, zone>> /\ reply.soa \in 1 .. now \cup {None}
      /\ reply.soa = None => reply.proof = None /\ \A rr \in reply.answer : rr.type # "SOA"
      /\ reply.soa # None => zone # None
  BY DEF Sign, TInv, MessageOK
<1>3. now' = now /\ now \in Nat
  BY <1>1, ZoneAnswersAssumption DEF Looking, TInv, TablesOK
<1>4. PICK signed \in BOOLEAN : Send([reply EXCEPT !.signed = signed])
  <2>1. (reply.answer # {} /\ question.do /\ dnssec /\ ok) \in BOOLEAN
    OBVIOUS
  <2>2. Send([reply EXCEPT !.signed = (reply.answer # {} /\ question.do /\ dnssec /\ ok)])
    BY DEF Sign
  <2> QED BY <2>1, <2>2
<1> DEFINE message == [reply EXCEPT !.signed = signed]
<1>5. message.soa = reply.soa /\ message.proof = reply.proof /\ message.answer = reply.answer
  BY DEF TInv, ReplyOK
<1>6. told' \in Tellings /\ reply' = message /\ pc' = "sent"
  <2>1. message.soa \in Nat \cup {None} /\ (message.soa # None => zone # None) /\ Send(message)
    BY <1>2, <1>3, <1>4, <1>5
  <2> HIDE DEF message
  <2> QED BY <2>1, Telling
<1>7. QueryOK'
  BY <1>2, <1>6 DEF TInv, QueryOK, Labels, Denying
<1>8. ReplyOK'
  BY <1>3, <1>6 DEF ReplyOK, TInv
<1>9. MessageOK'
  BY <1>2, <1>3, <1>5, <1>6 DEF MessageOK, Denying
<1> QED BY <1>1, <1>6, <1>7, <1>8, <1>9, ReadingStep

LEMMA ReturnStep == ASSUME TInv, Return PROVE TInv'
<1>1. TablesOK'
  BY DEF Return, tables, TInv, TablesOK, Present
<1>2. KeptOK' /\ QueryOK'
  BY DEF Return, TInv, KeptOK, QueryOK, Labels, Denying
<1>3. ReplyOK' /\ MessageOK'
  BY DEF Return, ReplyOK, MessageOK, Blank, Codes, Denying
<1> QED BY <1>1, <1>2, <1>3 DEF TInv

-----------------------------------------------------------------------------
(* The administrators, and time.                                           *)

\* What is changed is no longer kept: the rest is as it was.
Spared ==
  /\ keptRows' \subseteq keptRows /\ keptZones' \subseteq keptZones
  /\ \A i \in keptRows' : record'[i] = record[i]
  /\ \A z \in keptZones' : domain'[z] = domain[z]

\* Time goes by: what was at some time still is.
LEMMA Later ==
  ASSUME TInv, NEW rows, NEW domains, Touch(rows, domains)
  PROVE  /\ now \in 1 .. MaxTime /\ now' \in 1 .. MaxTime /\ now \in Nat /\ now' \in Nat
         /\ now <= now' /\ 1 .. now \subseteq 1 .. now' /\ 0 .. now \subseteq 0 .. now'
         /\ \A i \in Present : record[i].stamp <= now'
<1>1. MaxTime \in Nat /\ now \in 1 .. MaxTime /\ now' \in now .. MaxTime
  BY ZoneAnswersAssumption DEF Touch, TInv, TablesOK
<1>2. \A i \in Present : record[i].stamp \in Nat /\ record[i].stamp <= now
  BY <1>1 DEF TInv, TablesOK, Present, Row
<1> QED BY <1>1, <1>2

LEMMA TouchStep ==
  ASSUME TInv, NEW rows, NEW domains, Touch(rows, domains), TablesOK', told' \in Tellings
  PROVE  TInv'
<1>1. KeptOK'
  BY DEF Touch, TInv, KeptOK
<1>2. QueryOK'
  BY DEF Touch, locals, TInv, QueryOK
<1>3. 1 .. now \subseteq 1 .. now' /\ 0 .. now \subseteq 0 .. now'
  BY Later
<1>4. ReplyOK'
  <2>1. reply' = reply /\ reply \in [rcode : Codes, answer : SUBSET Answers, signed : BOOLEAN,
                                     soa : 0 .. now \cup {None}, proof : Proof \cup {None}]
    BY DEF Touch, locals, TInv, ReplyOK
  <2> QED BY <1>3, <2>1 DEF ReplyOK
<1>5. MessageOK'
  BY <1>3 DEF Touch, locals, TInv, MessageOK, Denying
<1> QED BY <1>1, <1>2, <1>4, <1>5 DEF TInv

LEMMA NoZone == ASSUME TablesOK, NEW i \in Present PROVE record[i] \in Row /\ record[i].zone \in Zones /\ record[i].zone # None
BY ZoneAnswersAssumption DEF TablesOK, Present, Row

LEMMA CreateDomainStep ==
  ASSUME TInv, NEW z \in Zones, CreateDomain(z)
  PROVE  TInv' /\ Spared
<1>1. Touch({}, {z}) /\ record' = record /\ dnssec' = dnssec
  BY DEF CreateDomain
<1>2. /\ now' \in 1 .. MaxTime /\ now' \in Nat /\ 1 .. now \subseteq 1 .. now'
      /\ \A i \in Present : record[i].stamp <= now'
  BY <1>1, Later
<1>3. domain' = [domain EXCEPT ![z] = now'] /\ domain \in [Zones -> 1 .. now \cup {None}] /\ domain[z] = None
  BY DEF CreateDomain, TInv, TablesOK
<1>4. domain' \in [Zones -> 1 .. now' \cup {None}] /\ now' # None
  BY <1>2, <1>3, ZoneAnswersAssumption
<1>5. \A i \in Present' : domain'[record'[i].zone] # None /\ record'[i].stamp <= now'
  <2> SUFFICES ASSUME NEW i \in Present' PROVE domain'[record'[i].zone] # None /\ record'[i].stamp <= now'
    OBVIOUS
  <2>1. i \in Present /\ record'[i] = record[i]
    BY <1>1 DEF Present
  <2>2. record[i].zone \in Zones /\ domain[record[i].zone] # None /\ record[i].stamp <= now'
    BY <1>2, <2>1, NoZone DEF TInv, TablesOK
  <2> QED BY <1>3, <1>4, <2>1, <2>2
<1>6. TablesOK'
  BY <1>1, <1>2, <1>4, <1>5 DEF TInv, TablesOK
<1>7. TInv'
  BY <1>1, <1>6, TouchStep DEF CreateDomain, TInv, KeptOK
<1>8. Spared
  BY <1>1, <1>3 DEF Touch, Spared, TInv, KeptOK
<1> QED BY <1>7, <1>8

LEMMA DeleteDomainStep ==
  ASSUME TInv, NEW z \in Zones, DeleteDomain(z)
  PROVE  TInv' /\ Spared
<1>1. Touch(RowsIn(z), {z}) /\ dnssec' = dnssec
  BY DEF DeleteDomain
<1>2. /\ domain' = [domain EXCEPT ![z] = None] /\ domain \in [Zones -> 1 .. now \cup {None}]
      /\ record' = [i \in Ids |-> IF i \in RowsIn(z) THEN None ELSE record[i]]
      /\ record \in [Ids -> Row \cup {None}]
  BY DEF DeleteDomain, TInv, TablesOK
<1>3. /\ now' \in 1 .. MaxTime /\ 1 .. now \subseteq 1 .. now'
      /\ \A i \in Present : record[i].stamp <= now'
  BY <1>1, Later
<1>4. domain' \in [Zones -> 1 .. now' \cup {None}] /\ record' \in [Ids -> Row \cup {None}]
  BY <1>2, <1>3
<1>5. \A i \in Present' : domain'[record'[i].zone] # None /\ record'[i].stamp <= now'
  <2> SUFFICES ASSUME NEW i \in Present' PROVE domain'[record'[i].zone] # None /\ record'[i].stamp <= now'
    OBVIOUS
  <2>1. i \in Ids /\ record'[i] # None
    BY DEF Present
  <2>2. i \notin RowsIn(z) /\ record'[i] = record[i] /\ i \in Present
    BY <1>2, <2>1 DEF Present
  <2>3. record[i].zone \in Zones /\ record[i].zone # z
    BY <2>2, NoZone DEF TInv, RowsIn
  <2>4. domain[record[i].zone] # None /\ record[i].stamp <= now'
    BY <1>3, <2>2 DEF TInv, TablesOK
  <2> QED BY <1>2, <2>2, <2>3, <2>4
<1>6. TablesOK'
  BY <1>1, <1>3, <1>4, <1>5 DEF TInv, TablesOK
<1>7. TInv'
  BY <1>1, <1>6, TouchStep DEF DeleteDomain, TInv, KeptOK, Tellings
<1>8. Spared
  BY <1>1, <1>2 DEF Touch, Spared, TInv, KeptOK
<1> QED BY <1>7, <1>8

\* One row is put, changed or taken away, in a zone that there is.
LEMMA RowStep ==
  ASSUME TInv, NEW i \in Ids, NEW row, record' = [record EXCEPT ![i] = row],
         row = None \/ (row \in Row /\ domain[row.zone] # None /\ row.stamp <= now'),
         Touch({i}, {}), UNCHANGED <<domain, dnssec>>, told' \in Tellings
  PROVE  TInv' /\ Spared
<1>1. record \in [Ids -> Row \cup {None}]
  BY DEF TInv, TablesOK
<1>2. /\ now' \in 1 .. MaxTime /\ 1 .. now \subseteq 1 .. now'
      /\ \A j \in Present : record[j].stamp <= now'
  BY Later
<1>3. record' \in [Ids -> Row \cup {None}] /\ domain' \in [Zones -> 1 .. now' \cup {None}]
  BY <1>1, <1>2 DEF TInv, TablesOK
<1>4. \A j \in Present' : domain'[record'[j].zone] # None /\ record'[j].stamp <= now'
  BY <1>1, <1>2 DEF Present, TInv, TablesOK
<1>5. TablesOK'
  BY <1>2, <1>3, <1>4 DEF TInv, TablesOK
<1>6. TInv'
  BY <1>5, TouchStep
<1>7. Spared
  BY <1>1 DEF Touch, Spared, TInv, KeptOK
<1> QED BY <1>6, <1>7

LEMMA CreateRecordStep ==
  ASSUME TInv, NEW i \in Ids, NEW z \in Zones, NEW n \in Names, NEW t \in Stored, NEW c \in Contents,
         CreateRecord(i, z, n, t, c)
  PROVE  TInv' /\ Spared
<1> DEFINE row == [zone |-> z, name |-> n, type |-> t, content |-> c, stamp |-> now']
<1>1. /\ domain[z] # None /\ record' = [record EXCEPT ![i] = row]
      /\ Touch({i}, {}) /\ UNCHANGED <<domain, dnssec>> /\ told' \in Tellings
  BY DEF CreateRecord, TInv, KeptOK
<1>2. now' \in 1 .. MaxTime /\ now' <= now'
  BY <1>1, Later
<1>3. row \in Row /\ row.zone = z /\ row.stamp = now'
  BY <1>2 DEF Row
<1> HIDE DEF row
<1> QED BY <1>1, <1>2, <1>3, RowStep

LEMMA UpdateRecordStep ==
  ASSUME TInv, NEW i \in Ids, NEW n \in Names, NEW t \in Stored, NEW c \in Contents,
         UpdateRecord(i, n, t, c)
  PROVE  TInv' /\ Spared
<1> DEFINE row == [zone |-> record[i].zone, name |-> n, type |-> t, content |-> c, stamp |-> now']
<1>1. Touch({i}, {}) /\ UNCHANGED <<domain, dnssec>> /\ told' \in Tellings
  BY DEF UpdateRecord, TInv, KeptOK
<1>2. now' \in 1 .. MaxTime /\ now' <= now'
  BY <1>1, Later
<1>3. i \in Present /\ record[i].zone \in Zones /\ domain[record[i].zone] # None
  BY NoZone DEF UpdateRecord, TInv, TablesOK
<1>4. row \in Row /\ row.zone = record[i].zone /\ row.stamp = now'
  BY <1>2, <1>3 DEF Row
<1>5. record' = [record EXCEPT ![i] = row]
  BY DEF UpdateRecord
<1> HIDE DEF row
<1> QED BY <1>1, <1>2, <1>3, <1>4, <1>5, RowStep

LEMMA DeleteRecordStep ==
  ASSUME TInv, NEW i \in Ids, DeleteRecord(i)
  PROVE  TInv' /\ Spared
<1>1. /\ record' = [record EXCEPT ![i] = None]
      /\ Touch({i}, {}) /\ UNCHANGED <<domain, dnssec>> /\ told' \in Tellings
  BY DEF DeleteRecord, TInv, KeptOK, Tellings
<1> QED BY <1>1, RowStep

LEMMA SwitchDNSSECStep == ASSUME TInv, SwitchDNSSEC PROVE TInv' /\ Spared
<1>1. Touch({}, Zones) /\ record' = record /\ domain' = domain /\ dnssec' \in BOOLEAN /\ told' \in Tellings
  BY DEF SwitchDNSSEC, TInv, KeptOK
<1>2. /\ now' \in 1 .. MaxTime /\ 1 .. now \subseteq 1 .. now'
      /\ \A j \in Present : record[j].stamp <= now'
  BY <1>1, Later
<1>3. TablesOK'
  BY <1>1, <1>2 DEF TInv, TablesOK, Present
<1>4. TInv'
  BY <1>1, <1>3, TouchStep
<1>5. Spared
  BY <1>1 DEF Touch, Spared
<1> QED BY <1>4, <1>5

LEMMA AdministerStep == ASSUME TInv, Administer PROVE TInv' /\ Spared
BY CreateDomainStep, DeleteDomainStep, DeleteRecordStep, UpdateRecordStep, CreateRecordStep,
   SwitchDNSSECStep DEF Administer

LEMMA QueryStep == ASSUME TInv, Query PROVE TInv'
BY AskStep, SynthesizeStep, AskSOAStep, AskDSStep, AskOtherStep, ReturnStep, FindZoneStep,
   LookupStep, AskKeyStep, ExistsStep, CreatedStep, UpdatedStep, DenyStep, ProveSpanStep,
   ProveTypesStep, SignStep DEF Query

LEMMA NextTInv == TInv /\ [Next]_vars => TInv'
<1> SUFFICES ASSUME TInv, [Next]_vars PROVE TInv'
  OBVIOUS
<1>1. CASE Next
  BY <1>1, QueryStep, AdministerStep DEF Next
<1>2. CASE UNCHANGED vars
  BY <1>2 DEF vars, tables, locals, history, TInv, TablesOK, KeptOK, QueryOK, ReplyOK, MessageOK, Present
<1> QED BY <1>1, <1>2

\* Type correctness: the rows are those of domains, and a message that denies
\* something bears the serial of its zone, in every state.
THEOREM TypeCorrect == Spec => []TypeOK
<1>1. Spec => []TInv
  BY InitTInv, NextTInv, PTL DEF Spec
<1> QED BY <1>1, Typed, PTL

-----------------------------------------------------------------------------
(* What is left alone counts.                                              *)

\* The rows of the zone that stay, those of the name, and of its type.
Stays  == keptRows \cap RowsIn(zone)
Same   == {i \in Stays : record[i].name = question.name}
Wanted == {i \in Same : record[i].type = question.type}

ZoneClosest ==
  pc \notin {"idle", "zone"} =>
    \A z \in keptZones : domain[z] # None /\ IsPrefix(z, question.name)
                           => zone # None /\ Len(z) <= Len(zone)
CodeHonest ==
  pc # "idle" /\ reply.rcode = "NXDomain" /\ question.type \notin {"NS", "DNSKEY"} => Same = {}
NothingWanted ==
  pc \in Denying \/ (pc \in {"sign", "sent"} /\ reply.soa # None) =>
    /\ Wanted # {} => skipped
    /\ question.type = "TXT" => \A i \in Wanted : record[i].content = "void"
AllTexts ==
  pc \in {"sign", "sent"} /\ question.type = "TXT" =>
    {i \in Wanted : record[i].content = "good"} \subseteq {rr.from : rr \in reply.answer}
SerialCovers ==
  pc # "updated" /\ reply.soa # None => \A i \in Stays : record[i].stamp <= reply.soa
SpanSpares ==
  pc = "types" \/ reply.proof # None => \A i \in Stays : ~Covers(reply.proof, record[i].name)
BitsTell ==
  pc = "sent" /\ reply.proof # None =>
    \A i \in Stays : record[i].name = reply.proof.owner => record[i].type \in reply.proof.types

KInv ==
  ~failed => /\ ZoneClosest /\ CodeHonest /\ NothingWanted /\ AllTexts
             /\ SerialCovers /\ SpanSpares /\ BitsTell

LEMMA Counted == TInv /\ KInv => KeptRowsCount
<1> SUFFICES ASSUME TInv, KInv, pc = "sent", ~failed PROVE KeptRowsCount
  BY DEF KeptRowsCount
<1> USE DEF KInv
<1>1. \A z \in keptZones : domain[z] # None /\ IsPrefix(z, question.name)
                             => zone # None /\ Len(z) <= Len(zone)
  BY DEF ZoneClosest
<1>2. Same # {} => reply.rcode # "NXDomain" \/ question.type \in {"NS", "DNSKEY"}
  BY DEF CodeHonest
<1>3. (Wanted # {} => reply.soa = None \/ skipped)
      /\ (question.type = "TXT" /\ (\E i \in Wanted : record[i].content # "void") => reply.soa = None)
  BY DEF NothingWanted
<1>4. question.type = "TXT" => {i \in Wanted : record[i].content = "good"} \subseteq {rr.from : rr \in reply.answer}
  BY DEF AllTexts
<1>5. reply.soa # None => \A i \in Stays : record[i].stamp <= reply.soa
  BY DEF SerialCovers
<1>6. reply.proof # None => \A i \in Stays :
        /\ ~Covers(reply.proof, record[i].name)
        /\ record[i].name = reply.proof.owner => record[i].type \in reply.proof.types
  BY DEF SpanSpares, BitsTell
<1> HIDE DEF KInv
<1> QED BY <1>1, <1>2, <1>3, <1>4, <1>5, <1>6 DEF KeptRowsCount, Wanted, Same, Stays

\* The changes of administrators leave to the query no row but as it was.
LEMMA SparedKInv ==
  ASSUME TInv, KInv, Spared, UNCHANGED <<pc, question, zone, reply, failed, skipped>>
  PROVE  KInv'
<1> SUFFICES ASSUME ~failed PROVE (ZoneClosest /\ CodeHonest /\ NothingWanted /\ AllTexts
                                     /\ SerialCovers /\ SpanSpares /\ BitsTell)'
  BY DEF KInv
<1>1. \A i \in Stays' : i \in Stays /\ record'[i] = record[i]
  BY DEF Stays, RowsIn, Present, Spared
<1>2. \A i \in Same' : i \in Same
  BY <1>1 DEF Same
<1>3. \A i \in Wanted' : i \in Wanted /\ record'[i] = record[i]
  BY <1>1, <1>2 DEF Wanted, Same
<1>4. ZoneClosest'
  BY DEF KInv, ZoneClosest, Spared
<1>5. CodeHonest' /\ NothingWanted'
  BY <1>2, <1>3 DEF KInv, CodeHonest, NothingWanted
<1>6. AllTexts'
  BY <1>3 DEF KInv, AllTexts
<1>7. SerialCovers' /\ SpanSpares' /\ BitsTell'
  BY <1>1 DEF KInv, SerialCovers, SpanSpares, BitsTell, Covers
<1> QED BY <1>4, <1>5, <1>6, <1>7

LEMMA InitKInv == Init => KInv
BY DEF Init, KInv, ZoneClosest, CodeHonest, NothingWanted, AllTexts, SerialCovers, SpanSpares,
       BitsTell, Blank, Denying

LEMMA AskKInv ==
  ASSUME TInv, KInv, NEW n \in Names, NEW t \in Asked, NEW do \in BOOLEAN, Ask(n, t, do)
  PROVE  KInv'
<1>1. reply' = Blank /\ pc' = "zone"
  BY DEF Ask, TInv, MessageOK
<1> QED BY <1>1 DEF KInv, ZoneClosest, CodeHonest, NothingWanted, AllTexts, SerialCovers, SpanSpares,
                    BitsTell, Blank, Denying

\* A step of the query: nothing is changed but what it knows.
LEMMA ReadingKept ==
  ASSUME Looking, UNCHANGED <<question, zone>>
  PROVE  /\ Stays' = Stays /\ Same' = Same /\ Wanted' = Wanted
         /\ record' = record /\ domain' = domain /\ keptZones' = keptZones
         /\ \A i \in Wanted : record'[i] = record[i]
BY DEF Looking, tables, Stays, Same, Wanted, RowsIn, Present

LEMMA FindZoneKInv == ASSUME TInv, KInv, NEW ok \in BOOLEAN, FindZone(ok) PROVE KInv'
<1>1. reply' = Blank /\ pc' = "lookup" /\ (~failed' => ok) /\ pc = "zone"
  BY Failing DEF FindZone, TInv, MessageOK, KeptOK
<1>2. ~failed' => ZoneClosest'
  <2> SUFFICES ASSUME ok, NEW z \in keptZones', domain'[z] # None, IsPrefix(z, question'.name)
               PROVE  zone' # None /\ Len(z) <= Len(zone')
    BY <1>1 DEF ZoneClosest
  <2>1. zone' = Closest(question.name) /\ domain' = domain /\ question' = question /\ z \in Zones
    BY DEF FindZone, Looking, tables, TInv, KeptOK
  <2> QED BY <1>1, <2>1, ClosestMeans
<1> QED BY <1>1, <1>2 DEF KInv, CodeHonest, NothingWanted, AllTexts, SerialCovers, SpanSpares,
                          BitsTell, Blank, Denying

LEMMA NoRowsOutside == ASSUME TInv, zone = None PROVE Stays = {} /\ Same = {} /\ Wanted = {} /\ RowsIn(zone) = {}
<1>1. RowsIn(zone) = {}
  BY NoZone DEF TInv, RowsIn
<1> QED BY <1>1 DEF Stays, Same, Wanted

\* A type of which no records are stored.
LEMMA NotStored == ASSUME TInv, question.type \notin Stored PROVE Wanted = {}
BY NoZone DEF TInv, TablesOK, Stays, Same, Wanted, RowsIn, Row

LEMMA RefuseKInv ==
  ASSUME TInv, KInv, pc = "lookup", NEW rcode \in Codes, Refuse(rcode),
         Looking, UNCHANGED <<question, zone>>,
         ~failed' => ~failed,
         rcode = "NXDomain" => zone = None \/ question.type \in {"NS", "DNSKEY"},
         question.type = "TXT" => zone = None
  PROVE  KInv'
<1>1. /\ pc' = "sent" /\ reply'.rcode = rcode /\ reply'.soa = None /\ reply'.proof = None
  <2>1. reply = Blank
    BY DEF TInv, MessageOK
  <2> QED BY <2>1 DEF Refuse, Send, Blank
<1>2. /\ Stays' = Stays /\ Same' = Same /\ Wanted' = Wanted
      /\ domain' = domain /\ keptZones' = keptZones /\ question' = question /\ zone' = zone
  BY ReadingKept
<1>3. zone = None => Same = {} /\ Wanted = {}
  BY NoRowsOutside
<1> SUFFICES ASSUME ~failed' PROVE (ZoneClosest /\ CodeHonest /\ NothingWanted /\ AllTexts
                                      /\ SerialCovers /\ SpanSpares /\ BitsTell)'
  BY DEF KInv
<1>4. ZoneClosest'
  BY <1>2 DEF KInv, ZoneClosest
<1>5. CodeHonest' /\ NothingWanted' /\ AllTexts'
  BY <1>1, <1>2, <1>3 DEF CodeHonest, NothingWanted, AllTexts, Denying
<1>6. SerialCovers' /\ SpanSpares' /\ BitsTell'
  BY <1>1 DEF SerialCovers, SpanSpares, BitsTell
<1> QED BY <1>4, <1>5, <1>6

LEMMA MissingKInv ==
  ASSUME TInv, KInv, pc = "lookup", Missing, Wanted # {} => skipped',
         question.type = "TXT" => \A i \in Wanted : record[i].content = "void",
         Looking, UNCHANGED <<question, zone>>, ~failed' => ~failed
  PROVE  KInv'
<1>1. CASE zone = None
  BY <1>1, RefuseKInv DEF Missing, Codes
<1>2. CASE zone # None
  <2>1. pc' = "exists" /\ reply' = Blank
    BY <1>2 DEF Missing, TInv, MessageOK
  <2>2. Wanted' = Wanted /\ domain' = domain /\ keptZones' = keptZones /\ record' = record
    BY ReadingKept
  <2> QED BY <2>1, <2>2 DEF KInv, ZoneClosest, CodeHonest, NothingWanted, AllTexts, SerialCovers,
                            SpanSpares, BitsTell, Blank, Denying
<1> QED BY <1>1, <1>2

LEMMA AnsweredKInv ==
  ASSUME TInv, KInv, pc = "lookup", pc' = "sign", Looking, UNCHANGED <<question, zone>>,
         NEW some, reply' = [reply EXCEPT !.answer = some], ~failed' => ~failed,
         question.type = "TXT" => {i \in Wanted : record[i].content = "good"} \subseteq {rr.from : rr \in some}
  PROVE  KInv'
<1>1. reply = Blank /\ reply' = [Blank EXCEPT !.answer = some]
  BY DEF TInv, MessageOK
<1>2. reply'.answer = some /\ reply'.rcode = "NoError" /\ reply'.soa = None /\ reply'.proof = None
  BY <1>1 DEF Blank
<1>3. Wanted' = Wanted /\ domain' = domain /\ keptZones' = keptZones /\ record' = record
  BY ReadingKept
<1> SUFFICES ASSUME ~failed' PROVE (ZoneClosest /\ AllTexts)'
  BY <1>2 DEF KInv, CodeHonest, NothingWanted, SerialCovers, SpanSpares, BitsTell, Denying
<1>4. ZoneClosest'
  BY <1>3 DEF KInv, ZoneClosest
<1>5. AllTexts'
  BY <1>2, <1>3 DEF AllTexts
<1> QED BY <1>4, <1>5

LEMMA LookupKInv == ASSUME TInv, KInv, NEW ok \in BOOLEAN, Lookup(ok) PROVE KInv'
<1> DEFINE rows  == {i \in RowsOf(zone, question.name) : record[i].type = question.type}
           reads == IF question.type = "TXT" \/ rows = {} THEN {rows} ELSE {{i} : i \in rows}
           found(read)  == {i \in read : record[i].content # "void"}
           good(read)   == {i \in found(read) : record[i].content = "good"}
           answer(read) == {RR(question.name, question.type, i) : i \in good(read)}
<1>1. /\ pc = "lookup" /\ question.type \in Stored /\ Looking
      /\ UNCHANGED <<question, zone>> /\ (~failed' => ok /\ ~failed)
  BY Failing DEF Lookup, TInv, KeptOK
<1>2. PICK read \in reads :
        /\ IF found(read) = {} \/ ~ok
             THEN Missing
             ELSE reply' = [reply EXCEPT !.answer = answer(read)] /\ pc' = "sign" /\ told' = told
        /\ skipped' = (found(read) # read)
  BY DEF Lookup
<1>3. Wanted \subseteq rows
  BY DEF Wanted, Same, Stays, RowsOf
<1>4. (question.type = "TXT" => read = rows) /\ (read = {} => rows = {})
  BY <1>2
<1> SUFFICES ASSUME ~failed' PROVE KInv'
  BY DEF KInv
<1>5. CASE found(read) = {} \/ ~ok
  <2>1. Missing /\ found(read) = {}
    BY <1>1, <1>2, <1>5
  <2>2. Wanted # {} => skipped'
    BY <1>2, <1>3, <1>4, <2>1
  <2>3. question.type = "TXT" => \A i \in Wanted : record[i].content = "void"
    BY <1>3, <1>4, <2>1
  <2> HIDE DEF rows, reads, found
  <2> QED BY <1>1, <2>1, <2>2, <2>3, MissingKInv
<1>6. CASE ~(found(read) = {} \/ ~ok)
  <2> DEFINE some == answer(read)
  <2>1. pc' = "sign" /\ reply' = [reply EXCEPT !.answer = some]
    BY <1>2, <1>6
  <2>2. ASSUME question.type = "TXT", NEW i \in Wanted, record[i].content = "good"
        PROVE  i \in {rr.from : rr \in some}
    <3>1. i \in good(read)
      BY <1>3, <1>4, <2>2
    <3> HIDE DEF good
    <3>2. RR(question.name, question.type, i) \in some
      BY <3>1
    <3>3. RR(question.name, question.type, i).from = i
      BY DEF RR
    <3> QED BY <3>2, <3>3
  <2> HIDE DEF some, rows, reads, found
  <2> QED BY <1>1, <2>1, <2>2, AnsweredKInv
<1> QED BY <1>5, <1>6

LEMMA SynthesizeKInv == ASSUME TInv, KInv, NEW hosts \in BOOLEAN, Synthesize(hosts) PROVE KInv'
<1>1. /\ pc = "lookup" /\ question.type \in {"NS", "CAA"} /\ Reading
      /\ UNCHANGED <<question, zone>> /\ (~failed' => ~failed)
  BY DEF Synthesize
<1>2. CASE zone = None \/ (question.type = "NS" /\ ~hosts)
  BY <1>1, <1>2, RefuseKInv DEF Synthesize, Codes
<1>3. CASE ~(zone = None \/ (question.type = "NS" /\ ~hosts))
  BY <1>1, <1>3, AnsweredKInv DEF Synthesize
<1> QED BY <1>2, <1>3

LEMMA AskSOAKInv == ASSUME TInv, KInv, AskSOA PROVE KInv'
<1>1. /\ pc = "lookup" /\ question.type = "SOA" /\ Reading
      /\ UNCHANGED <<question, zone>> /\ (~failed' => ~failed)
  BY DEF AskSOA
<1>2. Wanted = {}
  BY <1>1, NotStored DEF Stored
<1>3. CASE zone # None /\ zone = question.name
  <2>1. pc' = "created" /\ reply' = Blank
    BY <1>3 DEF AskSOA, TInv, MessageOK
  <2>2. Wanted' = {} /\ domain' = domain /\ keptZones' = keptZones
    BY <1>1, <1>2, ReadingKept
  <2> QED BY <1>1, <2>1, <2>2 DEF KInv, ZoneClosest, CodeHonest, NothingWanted, AllTexts, SerialCovers,
                                  SpanSpares, BitsTell, Blank, Denying
<1>4. CASE ~(zone # None /\ zone = question.name)
  BY <1>1, <1>2, <1>4, MissingKInv DEF AskSOA
<1> QED BY <1>3, <1>4

LEMMA AskKeyKInv == ASSUME TInv, KInv, NEW ok \in BOOLEAN, AskKey(ok) PROVE KInv'
<1>1. /\ pc = "lookup" /\ question.type = "DNSKEY" /\ Reading
      /\ UNCHANGED <<question, zone>> /\ (~failed' => ~failed)
  BY Failing DEF AskKey, TInv, KeptOK
<1>2. CASE dnssec /\ zone = question.name /\ ok
  <2> DEFINE message == [reply EXCEPT !.answer = {RR(zone, "DNSKEY", None)}, !.signed = TRUE]
  <2>1. reply = Blank
    BY <1>1 DEF TInv, MessageOK
  <2>2. message.soa = None /\ message.proof = None /\ message.rcode = "NoError"
    BY <2>1 DEF Blank
  <2>3. Send(message)
    <3>1. dnssec = TRUE /\ ok = TRUE
      BY <1>2 DEF TInv, TablesOK
    <3> QED BY <1>2, <3>1 DEF AskKey
  <2>4. pc' = "sent" /\ reply'.soa = None /\ reply'.proof = None /\ reply'.rcode = "NoError"
    BY <2>2, <2>3 DEF Send
  <2>5. domain' = domain /\ keptZones' = keptZones
    BY <1>1, ReadingKept
  <2> QED BY <1>1, <2>4, <2>5 DEF KInv, ZoneClosest, CodeHonest, NothingWanted, AllTexts, SerialCovers,
                                  SpanSpares, BitsTell, Denying
<1>3. CASE ~(dnssec /\ zone = question.name /\ ok)
  <2>1. \E rcode \in Codes : Refuse(rcode)
    BY <1>3 DEF AskKey, Codes
  <2> QED BY <1>1, <2>1, RefuseKInv
<1> QED BY <1>2, <1>3

LEMMA AskDSKInv == ASSUME TInv, KInv, AskDS PROVE KInv'
<1>1. Wanted = {}
  BY NotStored DEF AskDS, Stored
<1> QED BY <1>1, MissingKInv DEF AskDS

LEMMA AskOtherKInv == ASSUME TInv, KInv, AskOther PROVE KInv'
BY RefuseKInv DEF AskOther, Codes

\* What a denial has to show besides the closest zone, from here on.
LEMMA DenyingKInv ==
  ASSUME TInv, KInv, pc \in Denying, Reading, UNCHANGED <<question, zone>>, ~failed' => ~failed,
         pc' \in Denying \cup {"sign", "sent"},
         ~failed' => (CodeHonest /\ SerialCovers /\ SpanSpares /\ BitsTell)'
  PROVE  KInv'
<1> SUFFICES ASSUME ~failed' PROVE (ZoneClosest /\ NothingWanted /\ AllTexts)'
  BY DEF KInv
<1>1. (Wanted # {} => skipped) /\ (question.type = "TXT" => \A i \in Wanted : record[i].content = "void")
  BY DEF KInv, NothingWanted
<1>2. Wanted' = Wanted /\ domain' = domain /\ keptZones' = keptZones /\ record' = record
  BY ReadingKept
<1> QED BY <1>1, <1>2 DEF KInv, ZoneClosest, NothingWanted, AllTexts, Denying

LEMMA ExistsKInv == ASSUME TInv, KInv, NEW ok \in BOOLEAN, Exists(ok) PROVE KInv'
<1>1. /\ pc = "exists" /\ pc' = "created" /\ Reading /\ UNCHANGED <<question, zone>>
      /\ (~failed' => ok /\ ~failed) /\ reply = Blank
  BY Failing DEF Exists, TInv, KeptOK, MessageOK
<1>2. reply'.soa = None /\ reply'.proof = None
      /\ reply'.rcode = IF zone = question.name \/ (ok /\ RowsOf(zone, question.name) # {}) THEN "NoError" ELSE "NXDomain"
  BY <1>1 DEF Exists, Blank
<1>3. ~failed' => CodeHonest'
  <2>1. Same \subseteq RowsOf(zone, question.name)
    BY DEF Same, Stays, RowsOf
  <2>2. Same' = Same
    BY <1>1, ReadingKept
  <2> QED BY <1>1, <1>2, <2>1, <2>2 DEF CodeHonest
<1>4. (SerialCovers /\ SpanSpares /\ BitsTell)'
  BY <1>1, <1>2 DEF SerialCovers, SpanSpares, BitsTell
<1> QED BY <1>1, <1>3, <1>4, DenyingKInv DEF Denying

LEMMA CreatedKInv == ASSUME TInv, KInv, NEW ok \in BOOLEAN, Created(ok) PROVE KInv'
<1>1. /\ pc = "created" /\ pc' = "updated" /\ Reading /\ UNCHANGED <<question, zone>>
      /\ (~failed' => ok /\ ~failed) /\ reply.proof = None
  BY Failing DEF Created, TInv, KeptOK, MessageOK
<1>2. reply'.proof = None /\ reply'.rcode = reply.rcode
  BY <1>1 DEF Created, TInv, ReplyOK
<1>3. ~failed' => CodeHonest'
  <2>1. Same' = Same
    BY <1>1, ReadingKept
  <2> QED BY <1>1, <1>2, <2>1 DEF KInv, CodeHonest
<1>4. (SerialCovers /\ SpanSpares /\ BitsTell)'
  BY <1>1, <1>2 DEF SerialCovers, SpanSpares, BitsTell
<1> QED BY <1>1, <1>3, <1>4, DenyingKInv DEF Denying

LEMMA UpdatedKInv == ASSUME TInv, KInv, NEW ok \in BOOLEAN, Updated(ok) PROVE KInv'
<1>1. /\ pc = "updated" /\ Reading /\ UNCHANGED <<question, zone>> /\ (~failed' => ok /\ ~failed)
  BY Failing DEF Updated, TInv, KeptOK
<1>2. PICK s \in 1 .. now :
        /\ s = (IF Latest(Stamps(ok)) = 0 THEN 1 ELSE Latest(Stamps(ok)))
        /\ reply'.soa = s /\ reply'.proof = None /\ reply'.rcode = reply.rcode
        /\ pc' \in {"sign", "deny"}
  BY UpdatedMeans
<1>3. ~failed' => CodeHonest'
  <2>1. Same' = Same
    BY <1>1, ReadingKept
  <2> QED BY <1>1, <1>2, <2>1 DEF KInv, CodeHonest
<1> DEFINE S == Stamps(ok)  latest == Latest(S)
<1>4. S \subseteq 0 .. now /\ now \in Nat /\ latest \in S /\ \A t \in S : t <= latest
  BY <1>1, LatestMeans
<1>5. ok => \A i \in Stays : record[i].stamp \in S
  BY DEF Stays, Stamps
<1>6. s = IF latest = 0 THEN 1 ELSE latest
  BY <1>2
<1> HIDE DEF S, latest
<1>7. ok => \A i \in Stays : record[i].stamp <= s
  <2>1. ASSUME NEW t \in S PROVE t <= s
    <3>1. t \in Nat /\ latest \in Nat /\ t <= latest
      BY <1>4
    <3> QED BY <1>6, <3>1
  <2> QED BY <1>5, <2>1
<1>8. ~failed' => SerialCovers'
  BY <1>1, <1>2, <1>7, ReadingKept DEF SerialCovers
<1>9. (SpanSpares /\ BitsTell)'
  BY <1>1, <1>2 DEF SpanSpares, BitsTell
<1> QED BY <1>1, <1>2, <1>3, <1>8, <1>9, DenyingKInv DEF Denying

LEMMA DenyKInv == ASSUME TInv, KInv, NEW ok \in BOOLEAN, Deny(ok) PROVE KInv'
<1>1. /\ pc = "deny" /\ Reading /\ UNCHANGED <<question, zone>> /\ (~failed' => ok /\ ~failed)
      /\ reply.proof = None
  BY Failing DEF Deny, TInv, KeptOK, MessageOK
<1>2. /\ pc' \in {"names", "sent"} /\ reply'.proof = None
      /\ reply'.soa = reply.soa /\ reply'.rcode = reply.rcode
  BY <1>1 DEF Deny, Send, TInv, ReplyOK
<1>3. ~failed' => CodeHonest'
  <2>1. Same' = Same
    BY <1>1, ReadingKept
  <2> QED BY <1>1, <1>2, <2>1 DEF KInv, CodeHonest
<1>4. ~failed' => SerialCovers'
  <2>1. Stays' = Stays /\ record' = record
    BY <1>1, ReadingKept
  <2> QED BY <1>1, <1>2, <2>1 DEF KInv, SerialCovers
<1>5. (SpanSpares /\ BitsTell)'
  BY <1>1, <1>2 DEF SpanSpares, BitsTell
<1> QED BY <1>1, <1>2, <1>3, <1>4, <1>5, DenyingKInv DEF Denying

LEMMA ProveSpanKInv == ASSUME TInv, KInv, NEW ok \in BOOLEAN, ProveSpan(ok) PROVE KInv'
<1>1. /\ pc = "names" /\ pc' = "types" /\ Reading /\ UNCHANGED <<question, zone>>
      /\ (~failed' => ok /\ ~failed)
  BY Failing DEF ProveSpan, TInv, KeptOK
<1>2. reply'.soa = reply.soa /\ reply'.rcode = reply.rcode
      /\ \A m \in NamesRead(ok) : ~Covers(reply'.proof, m)
  BY SpanMeans DEF TInv, ReplyOK
<1>3. ~failed' => CodeHonest'
  <2>1. Same' = Same
    BY <1>1, ReadingKept
  <2> QED BY <1>1, <1>2, <2>1 DEF KInv, CodeHonest
<1>4. Stays' = Stays /\ record' = record
  BY <1>1, ReadingKept
<1>5. ~failed' => SerialCovers'
  BY <1>1, <1>2, <1>4 DEF KInv, SerialCovers
<1>6. ~failed' => SpanSpares'
  <2> SUFFICES ASSUME ok, NEW i \in Stays PROVE ~Covers(reply'.proof, record[i].name)
    BY <1>1, <1>4 DEF SpanSpares, Covers
  <2>1. record[i].name \in NamesRead(ok)
    BY DEF NamesRead, Stays
  <2> QED BY <1>2, <2>1
<1>7. BitsTell'
  BY <1>1 DEF BitsTell
<1> QED BY <1>1, <1>3, <1>5, <1>6, <1>7, DenyingKInv DEF Denying

LEMMA ProveTypesKInv == ASSUME TInv, KInv, NEW ok \in BOOLEAN, ProveTypes(ok) PROVE KInv'
<1>1. /\ pc = "types" /\ Reading /\ UNCHANGED <<question, zone>> /\ (~failed' => ok /\ ~failed)
      /\ reply.proof \in Proof /\ reply.soa \in Nat
  BY Failing DEF ProveTypes, TInv, KeptOK, MessageOK, TablesOK
<1>2. PICK p \in Proof :
        /\ Send([reply EXCEPT !.proof = p])
        /\ p.owner = reply.proof.owner /\ p.next = reply.proof.next
        /\ p.types = BitMap(IF ok THEN TypesOf(zone, reply.proof.owner) ELSE {}, reply.proof.owner = zone)
  BY TypesMeans
<1>3. pc' = "sent" /\ reply'.soa = reply.soa /\ reply'.rcode = reply.rcode /\ reply'.proof = p
  BY <1>2 DEF Send, TInv, ReplyOK
<1>4. Stays' = Stays /\ record' = record /\ Same' = Same
  BY <1>1, ReadingKept
<1>5. ~failed' => CodeHonest' /\ SerialCovers'
  BY <1>1, <1>3, <1>4 DEF KInv, CodeHonest, SerialCovers
<1>6. ~failed' => SpanSpares'
  <2>0. \A m : Covers(p, m) <=> Covers(reply.proof, m)
    BY <1>2 DEF Covers
  <2>1. ~failed => \A i \in Stays : ~Covers(reply.proof, record[i].name)
    BY <1>1 DEF KInv, SpanSpares
  <2>2. ~failed' => \A i \in Stays : ~Covers(p, record[i].name)
    BY <1>1, <2>0, <2>1
  <2> QED BY <1>3, <1>4, <2>2 DEF SpanSpares, Covers
<1>7. ~failed' => BitsTell'
  <2> SUFFICES ASSUME ok, NEW i \in Stays, record[i].name = p.owner PROVE record[i].type \in p.types
    BY <1>1, <1>3, <1>4 DEF BitsTell
  <2>1. record[i].type \in TypesOf(zone, reply.proof.owner)
    BY <1>2 DEF TypesOf, RowsOf, Stays
  <2> QED BY <1>2, <2>1 DEF BitMap
<1> QED BY <1>1, <1>3, <1>5, <1>6, <1>7, DenyingKInv DEF Denying

LEMMA SignKInv == ASSUME TInv, KInv, NEW ok \in BOOLEAN, Sign(ok) PROVE KInv'
<1>1. /\ pc = "sign" /\ pc' = "sent" /\ Reading /\ UNCHANGED <<question, zone>>
      /\ (~failed' => ok /\ ~failed) /\ reply.proof = None
  BY Failing DEF Sign, Send, TInv, KeptOK, MessageOK
<1>2. reply'.soa = reply.soa /\ reply'.rcode = reply.rcode /\ reply'.proof = None /\ reply'.answer = reply.answer
  BY <1>1 DEF Sign, Send, TInv, ReplyOK
<1>3. /\ Stays' = Stays /\ Same' = Same /\ Wanted' = Wanted
      /\ record' = record /\ domain' = domain /\ keptZones' = keptZones
  BY <1>1, ReadingKept
<1> SUFFICES ASSUME ~failed' PROVE (ZoneClosest /\ CodeHonest /\ NothingWanted /\ AllTexts
                                      /\ SerialCovers /\ SpanSpares /\ BitsTell)'
  BY DEF KInv
<1>4. (ZoneClosest /\ CodeHonest)'
  BY <1>1, <1>2, <1>3 DEF KInv, ZoneClosest, CodeHonest
<1>5. (NothingWanted /\ AllTexts /\ SerialCovers)'
  BY <1>1, <1>2, <1>3 DEF KInv, NothingWanted, AllTexts, SerialCovers, Denying
<1>6. (SpanSpares /\ BitsTell)'
  BY <1>1, <1>2 DEF SpanSpares, BitsTell
<1> QED BY <1>4, <1>5, <1>6

LEMMA ReturnKInv == ASSUME TInv, Return PROVE KInv'
BY DEF Return, KInv, ZoneClosest, CodeHonest, NothingWanted, AllTexts, SerialCovers, SpanSpares,
       BitsTell, Blank, Denying

LEMMA QueryKInv == ASSUME TInv, KInv, Query PROVE KInv'
BY AskKInv, SynthesizeKInv, AskSOAKInv, AskDSKInv, AskOtherKInv, ReturnKInv, FindZoneKInv,
   LookupKInv, AskKeyKInv, ExistsKInv, CreatedKInv, UpdatedKInv, DenyKInv, ProveSpanKInv,
   ProveTypesKInv, SignKInv DEF Query

LEMMA AdministerLocals == ASSUME Administer PROVE UNCHANGED <<pc, question, zone, reply, failed, skipped>>
BY DEF Administer, CreateDomain, DeleteDomain, CreateRecord, UpdateRecord, DeleteRecord,
       SwitchDNSSEC, Touch, locals

LEMMA StillSpared == ASSUME UNCHANGED vars PROVE Spared /\ UNCHANGED <<pc, question, zone, reply, failed, skipped>>
BY DEF vars, Spared, tables, history, locals

LEMMA NextKInv == TInv /\ KInv /\ [Next]_vars => KInv'
<1> SUFFICES ASSUME TInv, KInv, [Next]_vars PROVE KInv'
  OBVIOUS
<1>1. CASE Query
  BY <1>1, QueryKInv
<1>2. CASE Administer
  BY <1>2, AdministerStep, AdministerLocals, SparedKInv
<1>3. CASE UNCHANGED vars
  BY <1>3, StillSpared, SparedKInv
<1> QED BY <1>1, <1>2, <1>3 DEF Next

\* Whatever administrators change meanwhile, what they leave alone counts: no kept
\* domain is closer than the zone, and no kept row is denied by the code, the types
\* or the span, missing from the records, or later than the serial, but for what a
\* void row hides: itself and, where one row is read, the others of its type.
THEOREM KeptCount == Spec => []KeptRowsCount
<1>1. Spec => [](TInv /\ KInv)
  BY InitTInv, NextTInv, InitKInv, NextKInv, PTL DEF Spec
<1> QED BY <1>1, Counted, PTL

-----------------------------------------------------------------------------
(* A proof of absence.                                                     *)

NamesIn == {zone} \cup {record[i].name : i \in RowsIn(zone)}

CodeRight ==
  pc \in Denying \ {"exists"} =>
    IF question.name \in NamesIn THEN reply.rcode = "NoError" ELSE reply.rcode = "NXDomain"
SpanRight ==
  pc = "types" =>
    /\ reply.proof.owner \in NamesIn /\ reply.proof.next \in NamesIn
    /\ question.name \in NamesIn => reply.proof.owner = question.name
    /\ question.name \notin NamesIn => Covers(reply.proof, question.name)
    /\ \A n \in NamesIn : ~Covers(reply.proof, n)

DInv == (Undisturbed => CodeRight /\ SpanRight) /\ DenialIsProved

LEMMA InitDInv == Init => DInv
BY DEF Init, DInv, CodeRight, SpanRight, DenialIsProved, Denying

LEMMA SparedDInv ==
  ASSUME TInv, DInv, Spared, UNCHANGED <<pc, question, zone, reply, failed, skipped>>, record' \in [Ids -> Row \cup {None}]
  PROVE  DInv'
<1> SUFFICES ASSUME Undisturbed' PROVE (CodeRight /\ SpanRight /\ DenialIsProved)'
  BY DEF DInv, DenialIsProved
<1>1. Undisturbed
  BY DEF Undisturbed, Spared, TInv, KeptOK
<1>2. record' = record
  BY DEF Undisturbed, Spared, TInv, TablesOK
<1>3. NamesIn' = NamesIn /\ RowsIn(zone)' = RowsIn(zone)
  BY <1>2 DEF NamesIn, RowsIn, Present
<1>4. \A n : TypesOf(zone, n)' = TypesOf(zone, n)
  BY <1>2 DEF TypesOf, RowsOf, RowsIn, Present
<1>5. (CodeRight /\ SpanRight)'
  BY <1>1, <1>3 DEF DInv, CodeRight, SpanRight, Covers
<1>6. DenialIsProved'
  BY <1>1, <1>2, <1>3, <1>4 DEF DInv, DenialIsProved, Covers
<1> QED BY <1>5, <1>6

\* The tables as they were, and no proof that says anything yet.
LEMMA SilentDInv ==
  ASSUME pc' \notin Denying \ {"exists"}, reply'.proof = None \/ pc' # "sent"
  PROVE  DInv'
BY DEF DInv, CodeRight, SpanRight, DenialIsProved, Denying

LEMMA SameNames == ASSUME Looking, UNCHANGED zone PROVE NamesIn' = NamesIn
BY DEF Looking, tables, NamesIn, RowsIn, Present

LEMMA StillUndisturbed ==
  ASSUME Looking, Undisturbed', ~failed' => ~failed PROVE Undisturbed
BY DEF Looking, Undisturbed

LEMMA RefuseSilent ==
  ASSUME TInv, pc = "lookup", NEW rcode, Refuse(rcode)
  PROVE  pc' = "sent" /\ reply'.proof = None
BY DEF Refuse, Send, TInv, MessageOK, Blank

LEMMA MissingSilent ==
  ASSUME TInv, pc = "lookup", Missing
  PROVE  pc' \notin Denying \ {"exists"} /\ reply'.proof = None
BY RefuseSilent DEF Missing, TInv, MessageOK, Blank, Denying

LEMMA EarlyDInv ==
  ASSUME TInv, pc \in {"idle", "zone", "lookup", "sent"}, Query, ~AskSOA
  PROVE  DInv'
<1> SUFFICES pc' \notin Denying \ {"exists"} /\ (reply'.proof = None \/ pc' # "sent")
  BY SilentDInv
<1>1. ASSUME NEW n \in Names, NEW t \in Asked, NEW do \in BOOLEAN, Ask(n, t, do) PROVE pc' = "zone"
  BY <1>1 DEF Ask
<1>2. Return => pc' = "idle"
  BY DEF Return
<1>3. ASSUME NEW ok \in BOOLEAN, FindZone(ok) PROVE pc' = "lookup"
  BY <1>3 DEF FindZone
<1>4. ASSUME NEW ok \in BOOLEAN, Lookup(ok)
      PROVE  pc' \notin Denying \ {"exists"} /\ (reply'.proof = None \/ pc' # "sent")
  BY <1>4, MissingSilent DEF Lookup, Denying
<1>5. ASSUME NEW hosts \in BOOLEAN, Synthesize(hosts)
      PROVE  pc' \notin Denying \ {"exists"} /\ (reply'.proof = None \/ pc' # "sent")
  BY <1>5, RefuseSilent DEF Synthesize, Denying
<1>6. ASSUME AskDS \/ AskOther PROVE pc' \notin Denying \ {"exists"} /\ (reply'.proof = None \/ pc' # "sent")
  BY <1>6, MissingSilent, RefuseSilent DEF AskDS, AskOther, Denying
<1>7. ASSUME NEW ok \in BOOLEAN, AskKey(ok) PROVE pc' = "sent" /\ reply'.proof = None
  <2>1. pc = "lookup" /\ reply = Blank
    BY <1>7 DEF AskKey, TInv, MessageOK
  <2>2. CASE dnssec /\ zone = question.name /\ ok
    <3>1. dnssec = TRUE /\ ok = TRUE
      BY <2>2 DEF TInv, TablesOK
    <3>2. Send([Blank EXCEPT !.answer = {RR(zone, "DNSKEY", None)}, !.signed = TRUE])
      BY <1>7, <2>1, <2>2, <3>1 DEF AskKey
    <3> QED BY <3>2 DEF Send, Blank
  <2>3. CASE ~(dnssec /\ zone = question.name /\ ok)
    <3>1. \E rcode \in Codes : Refuse(rcode)
      BY <1>7, <2>3 DEF AskKey, Codes
    <3> QED BY <2>1, <3>1, RefuseSilent
  <2> QED BY <2>2, <2>3
<1>8. ASSUME NEW ok \in BOOLEAN
      PROVE  ~(Exists(ok) \/ Created(ok) \/ Updated(ok) \/ Deny(ok)
                 \/ ProveSpan(ok) \/ ProveTypes(ok) \/ Sign(ok))
  BY DEF Exists, Created, Updated, Deny, ProveSpan, ProveTypes, Sign
<1> QED BY <1>1, <1>2, <1>3, <1>4, <1>5, <1>6, <1>7, <1>8 DEF Query, Denying

LEMMA AskSOADInv == ASSUME TInv, DInv, AskSOA PROVE DInv'
<1>1. pc = "lookup" /\ reply = Blank /\ Reading /\ UNCHANGED <<question, zone>>
  BY DEF AskSOA, TInv, MessageOK
<1>2. CASE zone # None /\ zone = question.name
  <2>1. pc' = "created" /\ reply' = reply
    BY <1>2 DEF AskSOA
  <2>2. question'.name \in NamesIn'
    BY <1>1, <1>2, SameNames DEF NamesIn
  <2> QED BY <1>1, <2>1, <2>2 DEF DInv, CodeRight, SpanRight, DenialIsProved, Blank
<1>3. CASE ~(zone # None /\ zone = question.name)
  BY <1>1, <1>3, MissingSilent, SilentDInv DEF AskSOA
<1> QED BY <1>2, <1>3

LEMMA ExistsDInv == ASSUME TInv, DInv, NEW ok \in BOOLEAN, Exists(ok) PROVE DInv'
<1>1. /\ pc' = "created" /\ Reading /\ UNCHANGED <<question, zone>>
      /\ (~failed' => ok /\ ~failed) /\ reply = Blank
  BY Failing DEF Exists, TInv, KeptOK, MessageOK
<1>2. reply'.rcode = IF zone = question.name \/ (ok /\ RowsOf(zone, question.name) # {}) THEN "NoError" ELSE "NXDomain"
  BY <1>1 DEF Exists, Blank
<1>3. question.name \in NamesIn <=> zone = question.name \/ RowsOf(zone, question.name) # {}
  BY DEF NamesIn, RowsOf
<1>4. NamesIn' = NamesIn
  BY <1>1, SameNames
<1>5. Undisturbed' => ok
  BY <1>1 DEF Undisturbed
<1>6. Undisturbed' => CodeRight'
  BY <1>1, <1>2, <1>3, <1>4, <1>5 DEF CodeRight
<1> QED BY <1>1, <1>6 DEF DInv, SpanRight, DenialIsProved

\* The code is read no more until the message is sent.
LEMMA CodeStays ==
  ASSUME DInv, Looking, UNCHANGED <<question, zone>>, ~failed' => ~failed,
         pc \in Denying \ {"exists"}, reply'.rcode = reply.rcode,
         Undisturbed' => SpanRight', pc' # "sent" \/ reply'.proof = None
  PROVE  DInv'
<1>1. NamesIn' = NamesIn
  BY SameNames
<1>2. Undisturbed' => CodeRight
  BY StillUndisturbed DEF DInv
<1>3. Undisturbed' => CodeRight'
  BY <1>1, <1>2 DEF CodeRight
<1> QED BY <1>3 DEF DInv, DenialIsProved

LEMMA CreatedDInv == ASSUME TInv, DInv, NEW ok \in BOOLEAN, Created(ok) PROVE DInv'
<1>1. /\ pc = "created" /\ pc' = "updated" /\ Reading /\ UNCHANGED <<question, zone>>
      /\ (~failed' => ~failed)
  BY Failing DEF Created, TInv, KeptOK
<1>2. reply'.rcode = reply.rcode
  BY DEF Created, TInv, ReplyOK
<1> QED BY <1>1, <1>2, CodeStays DEF SpanRight, Denying

LEMMA UpdatedDInv == ASSUME TInv, DInv, NEW ok \in BOOLEAN, Updated(ok) PROVE DInv'
<1>1. pc = "updated" /\ Reading /\ UNCHANGED <<question, zone>> /\ (~failed' => ~failed)
  BY Failing DEF Updated, TInv, KeptOK
<1>2. reply'.rcode = reply.rcode /\ pc' \in {"sign", "deny"}
  BY UpdatedMeans
<1> QED BY <1>1, <1>2, CodeStays DEF SpanRight, Denying

LEMMA DenyDInv == ASSUME TInv, DInv, NEW ok \in BOOLEAN, Deny(ok) PROVE DInv'
<1>1. /\ pc = "deny" /\ Reading /\ UNCHANGED <<question, zone>> /\ (~failed' => ~failed)
      /\ reply.proof = None
  BY Failing DEF Deny, TInv, KeptOK, MessageOK
<1>2. pc' \in {"names", "sent"} /\ reply'.proof = None /\ reply'.rcode = reply.rcode
  BY <1>1 DEF Deny, Send, TInv, ReplyOK
<1> QED BY <1>1, <1>2, CodeStays DEF SpanRight, Denying

LEMMA ProveSpanDInv == ASSUME TInv, DInv, NEW ok \in BOOLEAN, ProveSpan(ok) PROVE DInv'
<1>1. /\ pc = "names" /\ pc' = "types" /\ Reading /\ UNCHANGED <<question, zone>>
      /\ (~failed' => ok /\ ~failed)
  BY Failing DEF ProveSpan, TInv, KeptOK
<1> DEFINE S == NamesRead(ok)  n == question.name
<1>2. /\ reply'.proof.owner \in S /\ reply'.proof.next \in S
      /\ n \in S => reply'.proof.owner = n
      /\ n \notin S => Covers(reply'.proof, n)
      /\ \A m \in S : ~Covers(reply'.proof, m)
  BY SpanMeans
<1>3. reply'.rcode = reply.rcode
  BY SpanMeans DEF TInv, ReplyOK
<1>4. NamesIn' = NamesIn
  BY <1>1, SameNames
<1>5. Undisturbed' => S = NamesIn'
  BY <1>1, <1>4 DEF Undisturbed, NamesRead, NamesIn
<1> HIDE DEF S
<1>6. Undisturbed' => SpanRight'
  BY <1>1, <1>2, <1>5 DEF SpanRight, Covers
<1> QED BY <1>1, <1>3, <1>6, CodeStays DEF Denying

LEMMA ProveTypesDInv == ASSUME TInv, KInv, DInv, NEW ok \in BOOLEAN, ProveTypes(ok) PROVE DInv'
<1>1. /\ pc = "types" /\ Reading /\ UNCHANGED <<question, zone>> /\ (~failed' => ok /\ ~failed)
      /\ question.type \in Stored \cup {"SOA", "DS"}
      /\ question.type # "SOA" \/ zone # question.name
  BY Failing DEF ProveTypes, TInv, KeptOK, QueryOK, Denying
<1>2. PICK p \in Proof :
        /\ Send([reply EXCEPT !.proof = p])
        /\ p.owner = reply.proof.owner /\ p.next = reply.proof.next
        /\ p.types = BitMap(IF ok THEN TypesOf(zone, reply.proof.owner) ELSE {}, reply.proof.owner = zone)
  BY TypesMeans
<1>3. pc' = "sent" /\ reply'.rcode = reply.rcode /\ reply'.proof = p
  BY <1>2 DEF Send, TInv, ReplyOK
<1> SUFFICES ASSUME Undisturbed' PROVE DenialIsProved'
  BY <1>3 DEF DInv, CodeRight, SpanRight, DenialIsProved, Denying
<1>4. ok /\ Undisturbed
  BY <1>1, StillUndisturbed DEF Undisturbed
<1>5. /\ question.name \in NamesIn => reply.rcode = "NoError" /\ p.owner = question.name
      /\ question.name \notin NamesIn => reply.rcode = "NXDomain" /\ Covers(p, question.name)
      /\ p.owner \in NamesIn /\ p.next \in NamesIn
      /\ \A n \in NamesIn : ~Covers(p, n)
  BY <1>1, <1>2, <1>4 DEF DInv, CodeRight, SpanRight, Covers, Denying
<1>6. p.types = BitMap(TypesOf(zone, p.owner), p.owner = zone)
  BY <1>2, <1>4
<1>7. TypesOf(zone, p.owner) \subseteq Stored
  BY DEF TypesOf, RowsOf, RowsIn, Present, TInv, TablesOK, Row
<1>8. p.types \cap Stored = TypesOf(zone, p.owner) /\ (p.owner = zone <=> "SOA" \in p.types) /\ "DS" \notin p.types
  BY <1>6, <1>7 DEF BitMap, Stored
<1>9. question.type \in Stored /\ p.owner = question.name => question.type \notin TypesOf(zone, p.owner) \/ skipped
  <2>1. Wanted # {} => skipped
    BY <1>1, <1>4 DEF KInv, NothingWanted, Denying, Undisturbed
  <2>2. Stays = RowsIn(zone)
    BY <1>4 DEF Stays, Undisturbed, RowsIn, Present
  <2> QED BY <2>1, <2>2 DEF TypesOf, RowsOf, Wanted, Same
<1>10. p.owner = question.name => question.type \notin p.types \/ skipped
  BY <1>1, <1>8, <1>9
<1>11. record' = record /\ RowsIn(zone)' = RowsIn(zone) /\ TypesOf(zone, p.owner)' = TypesOf(zone, p.owner)
  BY <1>1 DEF Looking, tables, TypesOf, RowsOf, RowsIn, Present
<1>12. reply'.rcode = "NXDomain" => Covers(p, question.name)
  BY <1>3, <1>5
<1>13. reply'.rcode = "NoError" => p.owner = question.name /\ (question.type \notin p.types \/ skipped')
  BY <1>1, <1>3, <1>5, <1>10
<1>14. (\A n \in NamesIn : IsPrefix(zone, n)) => IsPrefix(zone, p.owner) /\ IsPrefix(zone, p.next)
  BY <1>5
<1> QED BY <1>1, <1>3, <1>5, <1>8, <1>11, <1>12, <1>13, <1>14 DEF DenialIsProved, NamesIn, Covers

LEMMA SignDInv == ASSUME TInv, NEW ok \in BOOLEAN, Sign(ok) PROVE DInv'
<1>1. pc' = "sent" /\ reply'.proof = None
  BY DEF Sign, Send, TInv, ReplyOK, MessageOK
<1> QED BY <1>1, SilentDInv DEF Denying

LEMMA QueryDInv == ASSUME TInv, KInv, DInv, Query PROVE DInv'
<1>1. CASE pc \in {"idle", "zone", "lookup", "sent"}
  BY <1>1, EarlyDInv, AskSOADInv
<1>2. CASE pc \notin {"idle", "zone", "lookup", "sent"}
  <2>1. \E ok \in BOOLEAN : \/ Exists(ok) \/ Created(ok) \/ Updated(ok) \/ Deny(ok)
                            \/ ProveSpan(ok) \/ ProveTypes(ok) \/ Sign(ok)
    BY <1>2 DEF Query, Ask, Synthesize, AskSOA, AskDS, AskOther, Return, FindZone, Lookup, AskKey
  <2> QED BY <2>1, ExistsDInv, CreatedDInv, UpdatedDInv, DenyDInv, ProveSpanDInv, ProveTypesDInv, SignDInv
<1> QED BY <1>1, <1>2

LEMMA NextDInv == TInv /\ KInv /\ DInv /\ [Next]_vars => DInv'
<1> SUFFICES ASSUME TInv, KInv, DInv, [Next]_vars PROVE DInv'
  OBVIOUS
<1>1. CASE Query
  BY <1>1, QueryDInv
<1>2. record' \in [Ids -> Row \cup {None}]
  BY NextTInv DEF TInv, TablesOK
<1>3. CASE Administer
  BY <1>2, <1>3, AdministerStep, AdministerLocals, SparedDInv
<1>4. CASE UNCHANGED vars
  BY <1>2, <1>4, StillSpared, SparedDInv
<1> QED BY <1>1, <1>3, <1>4 DEF Next

\* A proof of absence is right: undisturbed, it covers the name denied, or denies the
\* type of a name there is, unless a void row of that type has been read; it covers
\* no name of the zone, lists the types its owner does have, and speaks of names of
\* the zone.
THEOREM DenialsAreProved == Spec => []DenialIsProved
<1>1. Spec => [](TInv /\ KInv /\ DInv)
  BY InitTInv, NextTInv, InitKInv, NextKInv, InitDInv, NextDInv, PTL DEF Spec
<1>2. TInv /\ KInv /\ DInv => DenialIsProved
  BY DEF DInv
<1> QED BY <1>1, <1>2, PTL

-----------------------------------------------------------------------------
(* The serial.                                                             *)

\* The zone is there, and it or one of its rows is as late as the serial.
Held(z, s) ==
  /\ domain[z] # None
  /\ s <= domain[z] \/ \E i \in RowsIn(z) : s <= record[i].stamp

Intact == keptRows = Ids /\ keptZones = Zones
Mine   == ~failed /\ told # None /\ told.zone = zone

ToldHeld     == told # None => Held(told.zone, told.serial)
SerialHeld   == Intact /\ zone # None => domain[zone] # None /\ (reply.soa # None => Held(zone, reply.soa))
CreationRead == pc = "updated" /\ Mine => reply.soa = domain[zone]
NotBack      == pc # "updated" /\ Mine /\ reply.soa # None => told.serial <= reply.soa

SInv == ToldHeld /\ SerialHeld /\ CreationRead /\ NotBack

LEMMA InitSInv == Init => SInv
BY DEF Init, SInv, ToldHeld, SerialHeld, CreationRead, NotBack, Mine, Blank

\* A zone and its serial outlive all changes but deletions.
LEMMA HeldStays ==
  ASSUME TInv, NEW z \in Zones, NEW s \in Nat, Held(z, s), domain'[z] = domain[z],
         \A i \in RowsIn(z) : /\ i \in RowsIn(z)'
                              /\ record[i].stamp <= record'[i].stamp
                              /\ record[i].stamp \in Nat /\ record'[i].stamp \in Nat
  PROVE  Held(z, s)'
BY DEF Held

LEMMA Stamped == ASSUME TInv, NEW z, NEW i \in RowsIn(z)
                 PROVE  record[i] \in Row /\ record[i].stamp \in Nat /\ record[i].stamp <= now /\ now \in Nat /\ record[i].stamp <= record[i].stamp
BY ZoneAnswersAssumption DEF TInv, TablesOK, RowsIn, Present, Row

LEMMA AdministerHeld ==
  ASSUME TInv, Administer, NEW z \in Zones, NEW s \in Nat, Held(z, s),
         told' # None /\ told'.zone = z
  PROVE  Held(z, s)'
<1>1. ASSUME NEW y \in Zones, CreateDomain(y) PROVE Held(z, s)'
  <2>1. record' = record /\ domain'[z] = domain[z]
    BY <1>1 DEF CreateDomain, Held, TInv, TablesOK
  <2>2. RowsIn(z)' = RowsIn(z)
    BY <2>1 DEF RowsIn, Present
  <2> QED BY <2>1, <2>2, Stamped, HeldStays
<1>2. ASSUME NEW y \in Zones, DeleteDomain(y) PROVE Held(z, s)'
  <2>1. y # z
    BY <1>2 DEF DeleteDomain
  <2>2. domain'[z] = domain[z] /\ \A i \in Ids \ RowsIn(y) : record'[i] = record[i]
    BY <1>2, <2>1 DEF DeleteDomain, TInv, TablesOK
  <2>3. \A i \in RowsIn(z) : i \in Ids \ RowsIn(y) /\ i \in RowsIn(z)' /\ record'[i] = record[i]
    BY <2>1, <2>2 DEF RowsIn, Present
  <2> QED BY <2>2, <2>3, Stamped, HeldStays
<1>3. ASSUME NEW i \in Ids, DeleteRecord(i) PROVE Held(z, s)'
  <2>1. record[i].zone # z /\ domain' = domain /\ record' = [record EXCEPT ![i] = None]
    BY <1>3 DEF DeleteRecord
  <2>2. \A j \in RowsIn(z) : j \in RowsIn(z)' /\ record'[j] = record[j]
    BY <2>1 DEF RowsIn, Present, TInv, TablesOK
  <2> QED BY <2>1, <2>2, Stamped, HeldStays
<1>4. ASSUME NEW i \in Ids, NEW y \in Zones, NEW n \in Names, NEW t \in Stored, NEW c \in Contents,
             CreateRecord(i, y, n, t, c)
      PROVE  Held(z, s)'
  <2>1. record[i] = None /\ domain' = domain /\ \A j \in Ids \ {i} : record'[j] = record[j]
    BY <1>4 DEF CreateRecord, TInv, TablesOK
  <2>2. \A j \in RowsIn(z) : j \in RowsIn(z)' /\ record'[j] = record[j]
    BY <2>1 DEF RowsIn, Present
  <2> QED BY <2>1, <2>2, Stamped, HeldStays
<1>5. ASSUME NEW i \in Ids, NEW n \in Names, NEW t \in Stored, NEW c \in Contents,
             UpdateRecord(i, n, t, c)
      PROVE  Held(z, s)'
  <2> DEFINE row == [zone |-> record[i].zone, name |-> n, type |-> t, content |-> c, stamp |-> now']
  <2>1. domain' = domain /\ \A j \in Ids \ {i} : record'[j] = record[j]
    BY <1>5 DEF UpdateRecord, TInv, TablesOK
  <2>2. record'[i] = row
    BY <1>5 DEF UpdateRecord, TInv, TablesOK
  <2>3. i \in Present /\ record[i] \in Row /\ now' \in 1 .. MaxTime /\ now \in Nat /\ now' \in Nat /\ now <= now'
    BY <1>5, NoZone, Later DEF UpdateRecord, TInv
  <2>4. row \in Row
    BY <2>3 DEF Row
  <2>5. row # None /\ row.zone = record[i].zone /\ row.stamp = now'
    BY <2>4, ZoneAnswersAssumption
  <2> HIDE DEF row
  <2>6. \A j \in RowsIn(z) : j \in RowsIn(z)'
    BY <2>1, <2>2, <2>5 DEF RowsIn, Present
  <2>7. \A j \in RowsIn(z) : record[j].stamp <= record'[j].stamp /\ record'[j].stamp \in Nat
    <3>1. ASSUME NEW j \in RowsIn(z) PROVE record[j].stamp <= record'[j].stamp /\ record'[j].stamp \in Nat
      <4>1. j \in Ids
        BY DEF RowsIn, Present
      <4>2. record[j].stamp \in Nat /\ record[j].stamp <= now /\ now \in Nat /\ record[j].stamp <= record[j].stamp
        BY Stamped
      <4>3. record'[j] = row \/ record'[j] = record[j]
        BY <2>1, <2>2, <4>1
      <4> QED BY <2>3, <2>5, <4>2, <4>3
    <3> QED BY <3>1
  <2> QED BY <2>1, <2>6, <2>7, Stamped, HeldStays
<1>6. ASSUME SwitchDNSSEC PROVE Held(z, s)'
  <2>1. record' = record /\ domain' = domain
    BY <1>6 DEF SwitchDNSSEC
  <2>2. RowsIn(z)' = RowsIn(z)
    BY <2>1 DEF RowsIn, Present
  <2> QED BY <2>1, <2>2, Stamped, HeldStays
<1> QED BY <1>1, <1>2, <1>3, <1>4, <1>5, <1>6 DEF Administer

LEMMA AdministerTold == ASSUME TInv, Administer PROVE told' = None \/ told' = told
BY DEF Administer, CreateDomain, DeleteDomain, CreateRecord, UpdateRecord, DeleteRecord, SwitchDNSSEC

\* Unless the zone is deleted, its creation stays what it is.
LEMMA CreationStays ==
  ASSUME TInv, Administer, NEW z \in Zones, domain[z] # None, told' # None, told'.zone = z
  PROVE  domain'[z] = domain[z]
BY DEF Administer, CreateDomain, DeleteDomain, CreateRecord, UpdateRecord, DeleteRecord, SwitchDNSSEC,
       TInv, TablesOK

LEMMA ToldTyped == ASSUME TInv, told # None PROVE told.zone \in Zones /\ told.serial \in Nat
BY DEF TInv, KeptOK, Tellings

LEMMA SoaTyped == ASSUME TInv, reply.soa # None PROVE reply.soa \in Nat /\ zone \in Zones
BY ZoneAnswersAssumption DEF TInv, ReplyOK, MessageOK, QueryOK, TablesOK

LEMMA AdministerSInv == ASSUME TInv, SInv, Administer PROVE SInv'
<1>1. UNCHANGED <<pc, question, zone, reply, failed, skipped>>
  BY AdministerLocals
<1>2. told' = None \/ told' = told
  BY AdministerTold
<1>3. ToldHeld'
  <2> SUFFICES ASSUME told' # None PROVE Held(told.zone, told.serial)'
    BY <1>2 DEF ToldHeld
  <2>1. told' = told /\ told # None /\ told.zone \in Zones /\ told.serial \in Nat
    BY <1>2, ToldTyped
  <2>2. Held(told.zone, told.serial)
    BY <2>1 DEF SInv, ToldHeld
  <2>3. \A z \in Zones, s \in Nat : Held(z, s) /\ told'.zone = z => Held(z, s)'
    BY AdministerHeld
  <2> QED BY <2>1, <2>2, <2>3 DEF Held
<1>4. SerialHeld'
  <2> SUFFICES ASSUME Intact', zone # None
               PROVE  domain'[zone] # None /\ (reply.soa # None => Held(zone, reply.soa)')
    BY <1>1 DEF SerialHeld, Held
  <2>1. Spared /\ record' \in [Ids -> Row \cup {None}]
    BY AdministerStep DEF TInv, TablesOK
  <2>2. Intact /\ record' = record /\ zone \in Zones /\ domain'[zone] = domain[zone]
    <3>1. keptRows = Ids /\ keptZones = Zones
      BY <2>1 DEF Spared, Intact, TInv, KeptOK
    <3>2. \A i \in Ids : record'[i] = record[i]
      BY <2>1 DEF Spared, Intact
    <3>3. record' = record
      BY <2>1, <3>2 DEF TInv, TablesOK
    <3>4. zone \in Zones
      BY DEF TInv, QueryOK
    <3> QED BY <2>1, <3>1, <3>3, <3>4 DEF Spared, Intact
  <2>3. RowsIn(zone)' = RowsIn(zone)
    BY <1>1, <2>2 DEF RowsIn, Present
  <2> QED BY <1>1, <2>2, <2>3 DEF SInv, SerialHeld, Held, RowsIn, Present
<1>5. CreationRead'
  <2> SUFFICES ASSUME pc = "updated", Mine' PROVE reply.soa = domain'[zone]
    BY <1>1 DEF CreationRead
  <2>1. Mine /\ told' = told
    BY <1>1, <1>2 DEF Mine
  <2>2. zone \in Zones /\ domain[zone] # None
    BY <2>1, ToldTyped DEF Mine, SInv, ToldHeld, Held
  <2>3. domain'[zone] = domain[zone]
    BY <2>1, <2>2, CreationStays DEF Mine
  <2> QED BY <2>1, <2>3 DEF SInv, CreationRead
<1>6. NotBack'
  BY <1>1, <1>2 DEF SInv, NotBack, Mine
<1> QED BY <1>3, <1>4, <1>5, <1>6 DEF SInv

LEMMA StillSInv == ASSUME TInv, SInv, UNCHANGED vars PROVE SInv'
BY DEF vars, tables, locals, history, SInv, ToldHeld, SerialHeld, CreationRead, NotBack, Held,
       Intact, Mine, RowsIn, Present

\* What a step of the query that asks nothing of the serial has to show.
LEMMA NoSerialSInv ==
  ASSUME SInv, UNCHANGED <<tables, told>>, reply'.soa = None, pc' # "updated",
         (Intact /\ zone # None)' => domain[zone'] # None
  PROVE  SInv'
BY DEF tables, SInv, ToldHeld, SerialHeld, CreationRead, NotBack, Held, Mine, RowsIn, Present

LEMMA RefuseSInv ==
  ASSUME TInv, SInv, pc = "lookup", NEW rcode, Refuse(rcode), Looking, UNCHANGED zone
  PROVE  SInv'
<1>1. reply'.soa = None /\ pc' = "sent" /\ told' = told
  BY DEF Refuse, Send, TInv, MessageOK, Blank
<1>2. (Intact /\ zone # None)' => domain[zone'] # None
  BY DEF Looking, SInv, SerialHeld, Intact
<1> QED BY <1>1, <1>2, NoSerialSInv DEF Looking

LEMMA MissingSInv == ASSUME TInv, SInv, pc = "lookup", Missing, Looking, UNCHANGED zone PROVE SInv'
<1>1. CASE zone = None
  BY <1>1, RefuseSInv DEF Missing
<1>2. CASE zone # None
  <2>1. reply'.soa = None /\ pc' = "exists" /\ told' = told
    BY <1>2 DEF Missing, TInv, MessageOK, Blank
  <2>2. (Intact /\ zone # None)' => domain[zone'] # None
    BY DEF Looking, SInv, SerialHeld, Intact
  <2> QED BY <2>1, <2>2, NoSerialSInv DEF Looking
<1> QED BY <1>1, <1>2

\* The serial stays as it is, or is told.
LEMMA SerialStays ==
  ASSUME TInv, SInv, Looking, UNCHANGED zone, ~failed' => ~failed, reply'.soa = reply.soa,
         pc # "updated", pc' # "updated",
         \/ told' = told
         \/ told' = [zone |-> zone, serial |-> reply.soa] /\ Intact /\ reply.soa # None
  PROVE  SInv'
<1>1. record' = record /\ domain' = domain /\ \A z : RowsIn(z)' = RowsIn(z)
  BY DEF Looking, tables, RowsIn, Present
<1>2. \A z, s : Held(z, s) => Held(z, s)'
  BY <1>1 DEF Held
<1>3. ToldHeld'
  <2>1. CASE told' = told
    BY <1>1, <2>1 DEF SInv, ToldHeld, Held
  <2>2. CASE told' = [zone |-> zone, serial |-> reply.soa] /\ Intact /\ reply.soa # None
    <3>1. Held(zone, reply.soa)
      BY <2>2, SoaTyped, ZoneAnswersAssumption DEF SInv, SerialHeld
    <3>2. told'.zone = zone /\ told'.serial = reply.soa
      BY <2>2
    <3> QED BY <1>1, <3>1, <3>2 DEF ToldHeld, Held
  <2> QED BY <2>1, <2>2
<1>4. SerialHeld'
  BY <1>1 DEF Looking, SInv, SerialHeld, Held, Intact
<1>5. NotBack'
  <2>1. CASE told' = told
    BY <2>1 DEF SInv, NotBack, Mine
  <2>2. CASE told' = [zone |-> zone, serial |-> reply.soa] /\ Intact /\ reply.soa # None
    <3>1. told'.serial = reply.soa /\ reply.soa \in Nat
      BY <2>2, SoaTyped
    <3> QED BY <3>1 DEF NotBack
  <2> QED BY <2>1, <2>2
<1> QED BY <1>3, <1>4, <1>5 DEF SInv, CreationRead

LEMMA SendSInv ==
  ASSUME TInv, SInv, NEW message, Send(message), message.soa = reply.soa, Looking, UNCHANGED zone,
         ~failed' => ~failed, pc # "updated"
  PROVE  SInv'
<1>1. reply'.soa = reply.soa /\ pc' = "sent"
  BY DEF Send
<1>2. \/ told' = told
      \/ told' = [zone |-> zone, serial |-> reply.soa] /\ Intact /\ reply.soa # None
  BY DEF Send, Intact
<1> QED BY <1>1, <1>2, SerialStays

LEMMA AskSInv ==
  ASSUME TInv, SInv, NEW n \in Names, NEW t \in Asked, NEW do \in BOOLEAN, Ask(n, t, do)
  PROVE  SInv'
<1>1. reply'.soa = None /\ pc' = "zone" /\ zone' = None
  <2>1. reply = Blank /\ zone = None
    BY DEF Ask, TInv, MessageOK, QueryOK
  <2> QED BY <2>1 DEF Ask, Blank
<1>2. UNCHANGED <<tables, told>>
  BY DEF Ask
<1> QED BY <1>1, <1>2, NoSerialSInv

LEMMA FindZoneSInv == ASSUME TInv, SInv, NEW ok \in BOOLEAN, FindZone(ok) PROVE SInv'
<1>1. reply'.soa = None /\ pc' = "lookup" /\ UNCHANGED <<tables, told>>
  BY DEF FindZone, TInv, MessageOK, Blank, Looking
<1>2. zone' # None => domain[zone'] # None
  BY ClosestMeans DEF FindZone
<1> QED BY <1>1, <1>2, NoSerialSInv

LEMMA LookupSInv == ASSUME TInv, SInv, NEW ok \in BOOLEAN, Lookup(ok) PROVE SInv'
<1>1. pc = "lookup" /\ reply = Blank /\ Looking /\ UNCHANGED zone /\ (~failed' => ~failed)
  BY Failing DEF Lookup, TInv, KeptOK, MessageOK
<1>2. CASE Missing
  BY <1>1, <1>2, MissingSInv
<1>3. CASE ~Missing
  <2>1. reply'.soa = reply.soa /\ pc' = "sign" /\ told' = told
    BY <1>1, <1>3 DEF Lookup, Blank
  <2> QED BY <1>1, <2>1, SerialStays
<1> QED BY <1>2, <1>3

LEMMA SynthesizeSInv == ASSUME TInv, SInv, NEW hosts \in BOOLEAN, Synthesize(hosts) PROVE SInv'
<1>1. pc = "lookup" /\ reply = Blank /\ Reading /\ UNCHANGED <<zone, failed>>
  BY DEF Synthesize, TInv, MessageOK
<1>2. CASE zone = None \/ (question.type = "NS" /\ ~hosts)
  BY <1>1, <1>2, RefuseSInv DEF Synthesize
<1>3. CASE ~(zone = None \/ (question.type = "NS" /\ ~hosts))
  <2>1. reply'.soa = reply.soa /\ pc' = "sign" /\ told' = told
    BY <1>1, <1>3 DEF Synthesize, Blank
  <2> QED BY <1>1, <2>1, SerialStays
<1> QED BY <1>2, <1>3

LEMMA AskSOASInv == ASSUME TInv, SInv, AskSOA PROVE SInv'
<1>1. pc = "lookup" /\ Reading /\ UNCHANGED <<zone, failed>>
  BY DEF AskSOA
<1>2. CASE Missing
  BY <1>1, <1>2, MissingSInv
<1>3. CASE ~Missing
  <2>1. reply'.soa = reply.soa /\ pc' = "created" /\ told' = told
    BY <1>3 DEF AskSOA
  <2> QED BY <1>1, <2>1, SerialStays
<1> QED BY <1>2, <1>3

LEMMA AskKeySInv == ASSUME TInv, SInv, NEW ok \in BOOLEAN, AskKey(ok) PROVE SInv'
<1>1. /\ pc = "lookup" /\ reply = Blank /\ Reading /\ UNCHANGED zone /\ (~failed' => ~failed)
  BY Failing DEF AskKey, TInv, KeptOK, MessageOK
<1>2. CASE dnssec /\ zone = question.name /\ ok
  <2> DEFINE message == [reply EXCEPT !.answer = {RR(zone, "DNSKEY", None)}, !.signed = TRUE]
  <2>1. dnssec = TRUE /\ ok = TRUE
    BY <1>2 DEF TInv, TablesOK
  <2>2. Send(message) /\ message.soa = reply.soa
    BY <1>1, <1>2, <2>1 DEF AskKey, Blank
  <2> HIDE DEF message
  <2> QED BY <1>1, <2>2, SendSInv
<1>3. CASE ~(dnssec /\ zone = question.name /\ ok)
  <2>1. \E rcode \in Codes : Refuse(rcode)
    BY <1>3 DEF AskKey, Codes
  <2> QED BY <1>1, <2>1, RefuseSInv
<1> QED BY <1>2, <1>3

LEMMA AskDSSInv == ASSUME TInv, SInv, AskDS PROVE SInv'
BY MissingSInv DEF AskDS

LEMMA AskOtherSInv == ASSUME TInv, SInv, AskOther PROVE SInv'
BY RefuseSInv DEF AskOther

LEMMA ExistsSInv == ASSUME TInv, SInv, NEW ok \in BOOLEAN, Exists(ok) PROVE SInv'
<1>1. /\ pc = "exists" /\ pc' = "created" /\ reply = Blank /\ Reading
      /\ UNCHANGED <<zone, told>> /\ (~failed' => ~failed)
  BY Failing DEF Exists, TInv, KeptOK, MessageOK
<1>2. reply'.soa = reply.soa
  BY <1>1 DEF Exists, Blank
<1> QED BY <1>1, <1>2, SerialStays

\* The creation of the zone is what was told last, or its rows have changed since.
LEMMA CreatedSInv == ASSUME TInv, SInv, NEW ok \in BOOLEAN, Created(ok) PROVE SInv'
<1>1. /\ pc = "created" /\ pc' = "updated" /\ Reading /\ UNCHANGED <<zone, told>>
      /\ (~failed' => ok /\ ~failed) /\ zone \in Zones /\ zone # None
  BY Failing DEF Created, TInv, KeptOK, QueryOK, Denying
<1>2. reply'.soa = IF ok /\ domain[zone] # None THEN domain[zone] ELSE 0
  BY DEF Created, TInv, ReplyOK
<1>3. record' = record /\ domain' = domain /\ \A z : RowsIn(z)' = RowsIn(z)
  BY <1>1 DEF Looking, tables, RowsIn, Present
<1>4. ToldHeld'
  BY <1>1, <1>3 DEF SInv, ToldHeld, Held
<1>5. domain[zone] # None => domain[zone] \in Nat
  BY <1>1, ZoneAnswersAssumption DEF TInv, TablesOK
<1>6. SerialHeld'
  <2> SUFFICES ASSUME Intact' PROVE domain[zone] # None /\ reply'.soa <= domain[zone]
    BY <1>1, <1>3 DEF SerialHeld, Held
  <2>1. domain[zone] # None
    BY <1>1 DEF Looking, SInv, SerialHeld, Intact
  <2> QED BY <1>2, <1>5, <2>1
<1>7. CreationRead'
  <2> SUFFICES ASSUME Mine' PROVE reply'.soa = domain[zone]
    BY <1>1, <1>3 DEF CreationRead
  <2>1. Mine /\ ok
    BY <1>1 DEF Mine
  <2>2. domain[zone] # None
    BY <2>1 DEF Mine, SInv, ToldHeld, Held
  <2> QED BY <1>2, <2>1, <2>2
<1> QED BY <1>1, <1>4, <1>6, <1>7 DEF SInv, NotBack

LEMMA UpdatedSInv == ASSUME TInv, SInv, NEW ok \in BOOLEAN, Updated(ok) PROVE SInv'
<1>1. /\ pc = "updated" /\ Reading /\ UNCHANGED <<zone, told>>
      /\ (~failed' => ok /\ ~failed) /\ zone \in Zones /\ zone # None
  BY Failing DEF Updated, TInv, KeptOK, QueryOK, Denying
<1> DEFINE S == Stamps(ok)  latest == Latest(S)
<1>2. PICK s \in 1 .. now :
        /\ s = (IF latest = 0 THEN 1 ELSE latest)
        /\ reply'.soa = s /\ pc' \in {"sign", "deny"}
  BY UpdatedMeans
<1>3. S \subseteq 0 .. now /\ now \in Nat /\ latest \in S /\ \A t \in S : t <= latest
  BY <1>1, LatestMeans
<1>4. reply.soa \in S
  BY DEF Stamps
<1>5. \A t \in S : t = reply.soa \/ \E i \in RowsIn(zone) : t = record[i].stamp
  BY DEF Stamps
<1>6. ok => \A i \in RowsIn(zone) : record[i].stamp \in S
  BY DEF Stamps
<1> HIDE DEF S, latest
<1>7. latest \in Nat /\ reply.soa \in Nat /\ \A t \in S : t \in Nat /\ t <= s
  <2>1. latest \in Nat /\ s \in Nat /\ latest <= s
    BY <1>2, <1>3
  <2>2. ASSUME NEW t \in S PROVE t \in Nat /\ t <= s
    <3>1. t \in Nat /\ t <= latest
      BY <1>3
    <3> QED BY <2>1, <3>1
  <2> QED BY <1>3, <1>4, <2>1, <2>2
<1>8. record' = record /\ domain' = domain /\ \A z : RowsIn(z)' = RowsIn(z)
  BY <1>1 DEF Looking, tables, RowsIn, Present
<1>9. ToldHeld'
  BY <1>1, <1>8 DEF SInv, ToldHeld, Held
<1>10. SerialHeld'
  <2> SUFFICES ASSUME Intact' PROVE Held(zone, s)
    BY <1>1, <1>2, <1>8 DEF SerialHeld, Held
  <2>1. domain[zone] # None /\ Held(zone, reply.soa)
    BY <1>1, <1>7, ZoneAnswersAssumption DEF Looking, SInv, SerialHeld, Intact
  <2>2. CASE latest = 0
    <3>1. s = 1 /\ domain[zone] \in 1 .. now
      BY <1>1, <1>2, <2>1, <2>2 DEF TInv, TablesOK
    <3> QED BY <1>3, <2>1, <3>1 DEF Held
  <2>3. CASE latest # 0 /\ latest = reply.soa
    BY <1>2, <2>1, <2>3
  <2>4. CASE latest # 0 /\ latest # reply.soa
    <3>1. PICK i \in RowsIn(zone) : latest = record[i].stamp
      BY <1>3, <1>5, <2>4
    <3>2. s = record[i].stamp /\ s <= s
      BY <1>2, <1>7, <2>4, <3>1
    <3> QED BY <2>1, <3>2 DEF Held
  <2> QED BY <2>2, <2>3, <2>4
<1>11. NotBack'
  <2> SUFFICES ASSUME Mine' PROVE told.serial <= s
    BY <1>1, <1>2 DEF NotBack
  <2>1. Mine /\ ok
    BY <1>1 DEF Mine
  <2>2. reply.soa = domain[zone] /\ told.serial \in Nat
    BY <1>1, <2>1, ToldTyped DEF SInv, CreationRead, Mine
  <2>3. told.serial <= domain[zone] \/ \E i \in RowsIn(zone) : told.serial <= record[i].stamp
    BY <2>1 DEF SInv, ToldHeld, Held, Mine
  <2>4. CASE told.serial <= domain[zone]
    <3>1. told.serial <= reply.soa /\ reply.soa <= s /\ reply.soa \in Nat
      BY <1>4, <1>7, <2>2, <2>4
    <3> QED BY <1>2, <2>2, <3>1
  <2>5. ASSUME NEW i \in RowsIn(zone), told.serial <= record[i].stamp PROVE told.serial <= s
    <3>1. record[i].stamp \in S
      BY <1>6, <2>1
    <3>2. record[i].stamp \in Nat /\ record[i].stamp <= s
      BY <1>7, <3>1
    <3> QED BY <1>2, <2>2, <2>5, <3>2
  <2> QED BY <2>3, <2>4, <2>5
<1> QED BY <1>2, <1>9, <1>10, <1>11 DEF SInv, CreationRead

LEMMA DenySInv == ASSUME TInv, SInv, NEW ok \in BOOLEAN, Deny(ok) PROVE SInv'
<1>1. pc = "deny" /\ Reading /\ UNCHANGED zone /\ (~failed' => ~failed)
  BY Failing DEF Deny, TInv, KeptOK
<1>2. CASE question.do /\ dnssec /\ ok
  <2>1. reply'.soa = reply.soa /\ pc' = "names" /\ told' = told
    BY <1>2 DEF Deny, TInv, ReplyOK
  <2> QED BY <1>1, <2>1, SerialStays
<1>3. CASE ~(question.do /\ dnssec /\ ok)
  BY <1>1, <1>3, SendSInv DEF Deny
<1> QED BY <1>2, <1>3

LEMMA ProveSpanSInv == ASSUME TInv, SInv, NEW ok \in BOOLEAN, ProveSpan(ok) PROVE SInv'
<1>1. pc = "names" /\ pc' = "types" /\ Reading /\ UNCHANGED <<zone, told>> /\ (~failed' => ~failed)
  BY Failing DEF ProveSpan, TInv, KeptOK
<1>2. reply'.soa = reply.soa
  BY SpanMeans DEF TInv, ReplyOK
<1> QED BY <1>1, <1>2, SerialStays

LEMMA ProveTypesSInv == ASSUME TInv, SInv, NEW ok \in BOOLEAN, ProveTypes(ok) PROVE SInv'
<1>1. pc = "types" /\ Reading /\ UNCHANGED zone /\ (~failed' => ~failed)
  BY Failing DEF ProveTypes, TInv, KeptOK
<1>2. PICK p \in Proof : Send([reply EXCEPT !.proof = p])
  BY TypesMeans
<1>3. [reply EXCEPT !.proof = p].soa = reply.soa
  BY DEF TInv, ReplyOK
<1> QED BY <1>1, <1>2, <1>3, SendSInv

LEMMA SignSInv == ASSUME TInv, SInv, NEW ok \in BOOLEAN, Sign(ok) PROVE SInv'
<1>1. pc = "sign" /\ Reading /\ UNCHANGED zone /\ (~failed' => ~failed)
  BY Failing DEF Sign, TInv, KeptOK
<1>2. PICK message : Send(message) /\ message.soa = reply.soa
  BY DEF Sign, TInv, ReplyOK
<1> QED BY <1>1, <1>2, SendSInv

LEMMA ReturnSInv == ASSUME TInv, SInv, Return PROVE SInv'
<1>1. reply'.soa = None /\ pc' = "idle" /\ zone' = None /\ UNCHANGED <<tables, told>>
  BY DEF Return, Blank
<1> QED BY <1>1, NoSerialSInv

LEMMA QuerySInv == ASSUME TInv, SInv, Query PROVE SInv'
BY AskSInv, SynthesizeSInv, AskSOASInv, AskDSSInv, AskOtherSInv, ReturnSInv, FindZoneSInv,
   LookupSInv, AskKeySInv, ExistsSInv, CreatedSInv, UpdatedSInv, DenySInv, ProveSpanSInv,
   ProveTypesSInv, SignSInv DEF Query

LEMMA NextSInv == TInv /\ SInv /\ [Next]_vars => SInv'
BY QuerySInv, AdministerSInv, StillSInv DEF Next

\* A serial is sent as it was put together.
LEMMA Sending ==
  ASSUME TInv, Next, pc' = "sent", reply'.soa # None
  PROVE  pc # "updated" /\ reply'.soa = reply.soa /\ (~failed' => ~failed)
<1>1. CASE Administer
  BY <1>1, AdministerLocals DEF locals
<1>2. ASSUME NEW ok \in BOOLEAN, Statement(ok) PROVE ~failed' => ~failed
  BY <1>2, Failing DEF TInv, KeptOK
<1>3. ASSUME NEW ok \in BOOLEAN, Deny(ok) PROVE pc = "deny" /\ reply'.soa = reply.soa /\ Statement(ok)
  BY <1>3 DEF Deny, Send, TInv, ReplyOK
<1>4. ASSUME NEW ok \in BOOLEAN, ProveTypes(ok) PROVE pc = "types" /\ reply'.soa = reply.soa /\ Statement(ok)
  <2>1. PICK p \in Proof : Send([reply EXCEPT !.proof = p])
    BY <1>4, TypesMeans
  <2> QED BY <1>4, <2>1 DEF ProveTypes, Send, TInv, ReplyOK
<1>5. ASSUME NEW ok \in BOOLEAN, Sign(ok) PROVE pc = "sign" /\ reply'.soa = reply.soa /\ Statement(ok)
  BY <1>5 DEF Sign, Send, TInv, ReplyOK
<1>6. ASSUME NEW rcode, Refuse(rcode), pc = "lookup" PROVE FALSE
  BY <1>6 DEF Refuse, Send, TInv, MessageOK, Blank
<1>7. ASSUME NEW ok \in BOOLEAN, AskKey(ok) PROVE FALSE
  <2>1. pc = "lookup" /\ reply = Blank
    BY <1>7 DEF AskKey, TInv, MessageOK
  <2>2. CASE dnssec /\ zone = question.name /\ ok
    <3>1. dnssec = TRUE /\ ok = TRUE
      BY <2>2 DEF TInv, TablesOK
    <3>2. Send([Blank EXCEPT !.answer = {RR(zone, "DNSKEY", None)}, !.signed = TRUE])
      BY <1>7, <2>1, <2>2, <3>1 DEF AskKey
    <3> QED BY <3>2 DEF Send, Blank
  <2>3. CASE ~(dnssec /\ zone = question.name /\ ok)
    <3>1. \E rcode \in Codes : Refuse(rcode)
      BY <1>7, <2>3 DEF AskKey, Codes
    <3> QED BY <1>6, <2>1, <3>1
  <2> QED BY <2>2, <2>3
<1>8. ASSUME Missing, pc = "lookup" PROVE FALSE
  BY <1>6, <1>8 DEF Missing
<1>9. ASSUME NEW ok \in BOOLEAN, Lookup(ok) PROVE FALSE
  BY <1>8, <1>9 DEF Lookup
<1>10. ASSUME (\E hosts \in BOOLEAN : Synthesize(hosts)) \/ AskSOA \/ AskDS \/ AskOther PROVE FALSE
  BY <1>6, <1>8, <1>10 DEF Synthesize, AskSOA, AskDS, AskOther
<1>11. ~Return /\ \A n \in Names, t \in Asked, do \in BOOLEAN : ~Ask(n, t, do)
  BY DEF Return, Ask
<1>12. \A ok \in BOOLEAN : ~(FindZone(ok) \/ Exists(ok) \/ Created(ok) \/ ProveSpan(ok))
  BY DEF FindZone, Exists, Created, ProveSpan
<1>13. \A ok \in BOOLEAN : ~Updated(ok)
  BY UpdatedMeans
<1>14. CASE Query
  <2>1. PICK ok \in BOOLEAN : Deny(ok) \/ ProveTypes(ok) \/ Sign(ok)
    BY <1>7, <1>9, <1>10, <1>11, <1>12, <1>13, <1>14 DEF Query
  <2> QED BY <1>2, <1>3, <1>4, <1>5, <2>1
<1> QED BY <1>1, <1>14 DEF Next

\* The serial of a zone does not go back from an answer put together undisturbed to a
\* later one, as long as nothing is deleted from the zone, whatever is created and
\* changed between the two and during the later one.
THEOREM SerialKept == Spec => SerialNeverBack
<1>1. Spec => [](TInv /\ SInv)
  BY InitTInv, NextTInv, InitSInv, NextSInv, PTL DEF Spec
<1>2. TInv /\ SInv /\ [Next]_vars =>
        [pc' = "sent" /\ reply'.soa # None /\ ~failed' /\ told # None
           => told.zone # zone \/ told.serial <= reply'.soa]_vars
  <2> SUFFICES ASSUME TInv, SInv, Next, pc' = "sent", reply'.soa # None, ~failed',
                      told # None, told.zone = zone
               PROVE  told.serial <= reply'.soa
    OBVIOUS
  <2> QED BY Sending DEF SInv, NotBack, Mine
<1> QED BY <1>1, <1>2, PTL DEF Spec, SerialNeverBack
=============================================================================
