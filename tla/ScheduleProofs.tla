---------------------------- MODULE ScheduleProofs ----------------------------
(***************************************************************************)
(* What erasing from the scheduler's vectors and choosing a victim from    *)
(* the chronology return, for vectors of any length.                       *)
(***************************************************************************)
EXTENDS Schedule, NatLemmas, SequenceTheorems

\* What a vector holds at its positions.
LEMMA ElemsOfSeq ==
    ASSUME NEW S, NEW s \in Seq(S)
    PROVE  /\ DOMAIN s = 1..Len(s)
           /\ Len(s) \in Nat
           /\ Elems(s) = {s[i] : i \in 1..Len(s)}
           /\ \A i \in 1..Len(s) : s[i] \in Elems(s) /\ s[i] \in S
BY LenProperties, ElementOfSeq DEF Elems

\* push_back adds the element and nothing else.
LEMMA ElemsOfAppend ==
    ASSUME NEW S, NEW s \in Seq(S), NEW e \in S
    PROVE  /\ Append(s, e) \in Seq(S)
           /\ Elems(Append(s, e)) = Elems(s) \cup {e}
           /\ \A i \in DOMAIN s : Append(s, e)[i] = s[i]
<1>1. /\ Append(s, e) \in Seq(S)
      /\ Len(Append(s, e)) = Len(s) + 1
      /\ \A i \in 1..Len(s) : Append(s, e)[i] = s[i]
      /\ Append(s, e)[Len(s) + 1] = e
    BY AppendProperties, LenProperties
<1>2. Len(s) \in Nat /\ 1..Len(s) + 1 = 1..Len(s) \cup {Len(s) + 1}
    BY LenProperties
<1>3. Elems(Append(s, e)) = {Append(s, e)[i] : i \in 1..Len(s) + 1}
    BY <1>1, ElemsOfSeq
<1> HIDE DEF Elems
<1> QED BY <1>1, <1>2, <1>3, ElemsOfSeq

\* push_front of the chronology.
LEMMA ElemsOfPushFront ==
    ASSUME NEW S, NEW s \in Seq(S), NEW e \in S
    PROVE  /\ <<e>> \o s \in Seq(S)
           /\ Elems(<<e>> \o s) = Elems(s) \cup {e}
<1> DEFINE c == <<e>> \o s
<1>1. <<e>> \in Seq(S) /\ Len(<<e>>) = 1 /\ <<e>>[1] = e OBVIOUS
<1>2. /\ c \in Seq(S)
      /\ Len(c) = 1 + Len(s)
      /\ \A i \in 1..1 + Len(s) : c[i] = IF i <= 1 THEN <<e>>[i] ELSE s[i - 1]
    BY <1>1, ConcatProperties
<1> HIDE DEF c
<1>3. Elems(c) = {c[i] : i \in 1..1 + Len(s)} BY <1>2, ElemsOfSeq
<1>4. Len(s) \in Nat BY LenProperties
<1>5. c[1] = e BY <1>1, <1>2, <1>4
<1>6. \A i \in 1..Len(s) : i + 1 \in 1..1 + Len(s) /\ c[i + 1] = s[i] BY <1>2, <1>4
<1>7. \A i \in 1..1 + Len(s) : i = 1 \/ i - 1 \in 1..Len(s) BY <1>4
<1>8. \A x \in Elems(c) : x \in Elems(s) \cup {e}
    <2> SUFFICES ASSUME NEW i \in 1..1 + Len(s) PROVE c[i] \in Elems(s) \cup {e}
        BY <1>3
    <2>1. CASE i = 1 BY <1>5, <2>1
    <2>2. CASE i # 1
        <3>1. i - 1 \in 1..Len(s) /\ c[i] = s[i - 1] BY <1>2, <1>4, <2>2
        <3> QED BY <3>1, ElemsOfSeq
    <2> QED BY <2>1, <2>2
<1>9. \A x \in Elems(s) \cup {e} : x \in Elems(c)
    <2>1. e \in Elems(c) BY <1>3, <1>4, <1>5
    <2>2. ASSUME NEW i \in 1..Len(s) PROVE s[i] \in Elems(c) BY <1>3, <1>6
    <2> QED BY <2>1, <2>2, ElemsOfSeq
<1> QED BY <1>2, <1>8, <1>9 DEF c

\* Erasing position i moves the positions behind it up by one.
LEMMA EraseAtPositions ==
    ASSUME NEW S, NEW s \in Seq(S), NEW i \in 1..Len(s)
    PROVE  /\ EraseAt(s, i) \in Seq(S)
           /\ Len(EraseAt(s, i)) = Len(s) - 1
           /\ \A j \in 1..Len(s) - 1 :
                 EraseAt(s, i)[j] = IF j <= i - 1 THEN s[j] ELSE s[j + 1]
<1> DEFINE n == Len(s)
           a == SubSeq(s, 1, i - 1)
           b == SubSeq(s, i + 1, n)
<1>1. n \in Nat /\ i \in Nat /\ 1 <= i /\ i <= n BY LenProperties
<1>2. \A j \in 1..n : s[j] \in S /\ s[j] \in Elems(s) BY ElemsOfSeq
<1> HIDE DEF n
<1>3. /\ a \in Seq(S) /\ Len(a) = i - 1
      /\ \A j \in 1..i - 1 : a[j] = s[j]
    <2>1. \A j \in 1..i - 1 : s[j] \in S BY <1>1, <1>2
    <2>2. /\ a \in Seq(S) /\ Len(a) = IF 1 <= i - 1 THEN (i - 1) - 1 + 1 ELSE 0
          /\ \A j \in 1..(i - 1) - 1 + 1 : a[j] = s[1 + j - 1]
        BY <1>1, <2>1, SubSeqProperties
    <2> QED BY <1>1, <2>2
<1>4. /\ b \in Seq(S) /\ Len(b) = n - i
      /\ \A j \in 1..n - i : b[j] = s[i + j]
    <2>1. \A j \in i + 1..n : s[j] \in S BY <1>1, <1>2
    <2>2. /\ b \in Seq(S) /\ Len(b) = IF i + 1 <= n THEN n - (i + 1) + 1 ELSE 0
          /\ \A j \in 1..n - (i + 1) + 1 : b[j] = s[i + 1 + j - 1]
        BY <1>1, <2>1, SubSeqProperties
    <2> QED BY <1>1, <2>2
<1> HIDE DEF a, b
<1> DEFINE c == a \o b
<1> HIDE DEF c
<1>5. /\ c \in Seq(S) /\ Len(c) = n - 1
      /\ \A j \in 1..n - 1 : c[j] = IF j <= i - 1 THEN s[j] ELSE s[j + 1]
    <2>1. /\ c \in Seq(S) /\ Len(c) = Len(a) + Len(b)
          /\ \A j \in 1..Len(a) + Len(b) :
                c[j] = IF j <= Len(a) THEN a[j] ELSE b[j - Len(a)]
        BY <1>3, <1>4, ConcatProperties DEF c
    <2>2. ASSUME NEW j \in 1..n - 1
          PROVE  c[j] = IF j <= i - 1 THEN s[j] ELSE s[j + 1]
        <3>1. CASE j <= i - 1
            <4>1. j \in 1..Len(a) + Len(b) BY <1>1, <1>3, <1>4
            <4>2. c[j] = a[j] BY <1>3, <2>1, <3>1, <4>1
            <4>3. a[j] = s[j] BY <1>1, <1>3, <3>1
            <4> QED BY <3>1, <4>2, <4>3
        <3>2. CASE j > i - 1
            <4>1. c[j] = b[j - (i - 1)]
                <5>1. j \in 1..Len(a) + Len(b) BY <1>1, <1>3, <1>4
                <5> QED BY <1>1, <1>3, <2>1, <3>2, <5>1
            <4>2. j - (i - 1) \in 1..n - i BY <1>1, <3>2
            <4>3. b[j - (i - 1)] = s[i + (j - (i - 1))] BY <1>4, <4>2
            <4>4. i + (j - (i - 1)) = j + 1 BY <1>1
            <4> QED BY <1>1, <3>2, <4>1, <4>3, <4>4
        <3>3. j <= i - 1 \/ j > i - 1 BY <1>1
        <3> QED BY <3>1, <3>2, <3>3
    <2> QED BY <1>1, <1>3, <1>4, <2>1, <2>2
<1> QED BY <1>5 DEF EraseAt, a, b, c, n

\* Every other position is kept.
LEMMA ElemsOfEraseAt ==
    ASSUME NEW S, NEW s \in Seq(S), NEW i \in 1..Len(s)
    PROVE  /\ EraseAt(s, i) \in Seq(S)
           /\ Len(EraseAt(s, i)) = Len(s) - 1
           /\ Elems(EraseAt(s, i)) \subseteq Elems(s)
           /\ \A j \in 1..Len(s) : j # i => s[j] \in Elems(EraseAt(s, i))
<1> DEFINE n == Len(s)
           c == EraseAt(s, i)
<1>1. n \in Nat /\ i \in Nat /\ 1 <= i /\ i <= n BY LenProperties
<1>2. \A j \in 1..n : s[j] \in S /\ s[j] \in Elems(s) BY ElemsOfSeq
<1>5. /\ c \in Seq(S) /\ Len(c) = n - 1
      /\ \A j \in 1..n - 1 : c[j] = IF j <= i - 1 THEN s[j] ELSE s[j + 1]
    BY EraseAtPositions
<1> HIDE DEF n, c
<1>6. \A j \in 1..n - 1 : c[j] \in Elems(c) BY <1>5, ElemsOfSeq
<1>7. Elems(c) = {c[j] : j \in 1..n - 1} BY <1>5, ElemsOfSeq
<1>8. Elems(c) \subseteq Elems(s)
    <2>1. ASSUME NEW j \in 1..n - 1 PROVE c[j] \in Elems(s)
        BY <1>1, <1>2, <1>5
    <2> QED BY <1>7, <2>1
<1>9. ASSUME NEW j \in 1..n, j # i PROVE s[j] \in Elems(c)
    <2>1. CASE j < i
        <3>1. j \in 1..n - 1 /\ c[j] = s[j] BY <1>1, <1>5, <2>1
        <3> QED BY <1>6, <3>1
    <2>2. CASE j > i
        <3>1. j - 1 \in 1..n - 1 /\ c[j - 1] = s[j] BY <1>1, <1>5, <2>2
        <3> QED BY <1>6, <3>1
    <2> QED BY <1>1, <1>9, <2>1, <2>2
<1> QED BY <1>5, <1>8, <1>9 DEF c, n

\* Counting the positions of K up to i passes through every rank.
LEMMA RankReached ==
    ASSUME NEW n \in Nat, NEW K \in SUBSET (1..n), NEW k \in 1..Cardinality(K)
    PROVE  \E i \in K : Rank(K, i) = k
<1> DEFINE F == K
           A(i) == {j \in F : j <= i}
           T == {i \in 0..n : Cardinality(A(i)) >= k}
<1>1. n \in Nat /\ F \subseteq 1..n OBVIOUS
<1>2. IsFiniteSet(F) /\ Cardinality(F) \in Nat
    <2>1. IsFiniteSet(1..n) BY <1>1, FS_Interval
    <2> QED BY <1>1, <2>1, FS_Subset, FS_CardinalityType
<1>3. \A i \in Int : IsFiniteSet(A(i)) /\ Cardinality(A(i)) \in Nat
    BY <1>2, FS_Subset, FS_CardinalityType
<1>4. k \in Nat /\ 1 <= k /\ k <= Cardinality(F) BY <1>2
<1> HIDE DEF F
<1>5. A(n) = F
    <2>1. \A j \in F : j <= n BY <1>1
    <2> QED BY <2>1, Zenon
<1>6. n \in T
    <2>1. n \in 0..n BY <1>1
    <2>2. Cardinality(A(n)) >= k BY <1>2, <1>4, <1>5
    <2> QED BY <2>1, <2>2
<1>7. PICK i \in T : \A m \in T : i <= m
    <2>1. T \subseteq Nat BY <1>1
    <2> QED BY <1>6, <2>1, LeastNat
<1>8. i \in 0..n /\ Cardinality(A(i)) >= k BY <1>7
<1>9. i # 0
    <2>1. \A j \in F : ~(j <= 0) BY <1>1
    <2>2. A(0) = {} BY <2>1, Zenon
    <2>3. Cardinality(A(0)) = 0 BY <2>2, FS_EmptySet
    <2>4. ~(Cardinality(A(0)) >= k)
        <3> HIDE DEF A
        <3> QED BY <1>4, <2>3
    <2> QED BY <1>8, <2>4
<1>10. i - 1 \in 0..n /\ i - 1 \in Int /\ i \in Int BY <1>1, <1>8, <1>9
<1>11. Cardinality(A(i - 1)) \in Nat /\ Cardinality(A(i)) \in Nat BY <1>3, <1>10
<1>12. Cardinality(A(i - 1)) < k
    <2>1. i - 1 \notin T BY <1>7, <1>10
    <2>2. ~(Cardinality(A(i - 1)) >= k) BY <1>10, <2>1
    <2> HIDE DEF A
    <2> QED BY <1>4, <1>11, <2>2
<1>13. \A j \in F : j <= i <=> (j <= i - 1 \/ j = i) BY <1>1, <1>10
<1>14. i \in F
    <2>1. ASSUME i \notin F PROVE A(i) = A(i - 1)
        <3>1. \A j \in F : j <= i <=> j <= i - 1 BY <1>13, <2>1
        <3> QED BY <3>1, Zenon
    <2>2. A(i) # A(i - 1)
        <3> HIDE DEF A
        <3> QED BY <1>4, <1>8, <1>11, <1>12
    <2> QED BY <2>1, <2>2
<1>15. A(i) = A(i - 1) \cup {i} /\ i \notin A(i - 1)
    <2>1. ~(i <= i - 1) BY <1>10
    <2> QED BY <1>13, <1>14, <2>1, Zenon
<1>16. IsFiniteSet(A(i - 1)) BY <1>3, <1>10
<1> HIDE DEF A
<1>17. Cardinality(A(i)) = Cardinality(A(i - 1)) + 1
    BY <1>15, <1>16, FS_AddElement
<1>18. Cardinality(A(i)) = k
    BY <1>4, <1>8, <1>11, <1>12, <1>17
<1> QED BY <1>14, <1>18 DEF F, A, Rank

\* Different positions of K have different ranks, between 1 and its size.
LEMMA RankDistinct ==
    ASSUME NEW n \in Nat, NEW K \in SUBSET (1..n), NEW i \in K
    PROVE  /\ Rank(K, i) \in 1..Cardinality(K)
           /\ \A j \in K : Rank(K, i) = Rank(K, j) => i = j
<1> DEFINE A(j) == {m \in K : m <= j}
<1>1. IsFiniteSet(K) /\ Cardinality(K) \in Nat /\ K \subseteq Int
    <2>1. IsFiniteSet(1..n) /\ K \subseteq Int BY FS_Interval
    <2>2. IsFiniteSet(K) BY <2>1, FS_Subset
    <2> QED BY <2>1, <2>2, FS_CardinalityType
<1>2. \A j \in Int : IsFiniteSet(A(j)) /\ Cardinality(A(j)) \in Nat
                       /\ Cardinality(A(j)) <= Cardinality(K)
    BY <1>1, FS_Subset, FS_CardinalityType
<1>3. \A j \in K : Rank(K, j) = Cardinality(A(j)) /\ j \in A(j) BY <1>1 DEF Rank
<1>4. Cardinality(A(i)) # 0 BY <1>1, <1>2, <1>3, FS_EmptySet
<1>5. ASSUME NEW j \in K, NEW m \in K, j < m PROVE Cardinality(A(j)) # Cardinality(A(m))
    <2>1. \A k \in K : k <= j => k <= m BY <1>1, <1>5
    <2>2. A(j) \in SUBSET A(m) BY <2>1
    <2>3. m \notin A(j) /\ m \in A(m) BY <1>1, <1>5
    <2>4. IsFiniteSet(A(m)) BY <1>1, <1>2
    <2> HIDE DEF A
    <2> QED BY <2>2, <2>3, <2>4, FS_Subset
<1> HIDE DEF A
<1>6. Rank(K, i) \in 1..Cardinality(K) BY <1>1, <1>2, <1>3, <1>4
<1>7. \A j \in K : Rank(K, i) = Rank(K, j) => i = j BY <1>1, <1>3, <1>5
<1> QED BY <1>6, <1>7

\* Some positions of a vector make a vector, of the elements at those
\* positions.
LEMMA ElemsOfSelect ==
    ASSUME NEW S, NEW s \in Seq(S), NEW K \in SUBSET (DOMAIN s)
    PROVE  /\ Select(s, K) \in Seq(S)
           /\ Elems(Select(s, K)) = {s[i] : i \in K}
<1> DEFINE n == Cardinality(K)
           at(k) == CHOOSE i \in K : Rank(K, i) = k
           v == [k \in 1..n |-> s[at(k)]]
<1>1. Len(s) \in Nat /\ K \in SUBSET (1..Len(s)) BY ElemsOfSeq
<1>2. n \in Nat
    <2>1. IsFiniteSet(1..Len(s)) BY <1>1, FS_Interval
    <2> QED BY <1>1, <2>1, FS_Subset, FS_CardinalityType
<1>3. ASSUME NEW k \in 1..n PROVE at(k) \in K
    <2>1. \E i \in K : Rank(K, i) = k BY <1>1, RankReached
    <2> QED BY <2>1
<1>4. ASSUME NEW i \in K PROVE \E k \in 1..n : at(k) = i
    <2>1. /\ Rank(K, i) \in 1..n
          /\ \A j \in K : Rank(K, i) = Rank(K, j) => i = j
        BY <1>1, RankDistinct
    <2>2. at(Rank(K, i)) \in K /\ Rank(K, at(Rank(K, i))) = Rank(K, i) OBVIOUS
    <2> HIDE DEF at, n
    <2> QED BY <2>1, <2>2
<1> HIDE DEF at, n
<1>5. ASSUME NEW k \in 1..n PROVE s[at(k)] \in S /\ s[at(k)] \in {s[i] : i \in K}
    BY <1>1, <1>3, ElemsOfSeq
<1>6. v \in [1..n -> S] BY <1>5
<1>7. v \in Seq(S) BY <1>2, <1>6, SeqDef
<1>8. Elems(v) = {s[at(k)] : k \in 1..n} BY DEF Elems
<1>9. Elems(v) = {s[i] : i \in K} BY <1>4, <1>5, <1>8
<1>10. v = Select(s, K) BY DEF Select, at, n
<1> HIDE DEF v
<1> QED BY <1>7, <1>9, <1>10

\* abort_transaction's filtering yields a vector of the operations that are
\* not t's.
LEMMA ElemsOfWithout ==
    ASSUME NEW S, NEW s \in Seq(S), NEW t
    PROVE  /\ Without(s, t) \in Seq(S)
           /\ Elems(Without(s, t)) = {x \in Elems(s) : x.tid # t}
<1> DEFINE K == {i \in DOMAIN s : s[i].tid # t}
<1>1. K \in SUBSET (DOMAIN s) OBVIOUS
<1>2. {s[i] : i \in K} = {x \in Elems(s) : x.tid # t} BY DEF Elems
<1>3. Without(s, t) = Select(s, K) BY DEF Without
<1> HIDE DEF K
<1>4. Select(s, K) \in Seq(S) /\ Elems(Select(s, K)) = {s[i] : i \in K}
    BY <1>1, ElemsOfSelect
<1> QED BY <1>2, <1>3, <1>4

\* The object of a schedule is a Schedule object.
LEMMA ScheduleOfType ==
    ASSUME NEW s \in Seq(Operations)
    PROVE  ScheduleOf(s) \in [schedule : Seq(Operations), transaction_ids : Seq(Tids)]
<1> DEFINE K == {i \in DOMAIN s : \A j \in 1..i - 1 : s[j].tid # s[i].tid}
           firsts == Select(s, K)
           ids == [k \in DOMAIN firsts |-> firsts[k].tid]
<1>1. K \in SUBSET (DOMAIN s) OBVIOUS
<1>2. ScheduleOf(s) = [schedule |-> s, transaction_ids |-> ids] BY DEF ScheduleOf
<1> HIDE DEF K
<1>3. firsts \in Seq(Operations) BY <1>1, ElemsOfSelect
<1> HIDE DEF firsts
<1>4. /\ DOMAIN firsts = 1..Len(firsts) /\ Len(firsts) \in Nat
      /\ \A k \in DOMAIN firsts : firsts[k].tid \in Tids
    BY <1>3, ElemsOfSeq DEF Operations
<1>5. ids \in [1..Len(firsts) -> Tids] BY <1>4
<1>6. ids \in Seq(Tids) BY <1>4, <1>5, SeqDef
<1> HIDE DEF ids
<1> QED BY <1>2, <1>6

\* The search of the chronology finds the first of the nodes that are there.
LEMMA MostRecentFound ==
    ASSUME NEW S, NEW chronology \in Seq(S), NEW nodes
    PROVE  /\ MostRecent(chronology, nodes) = 0
                \/ /\ MostRecent(chronology, nodes) \in 1..Len(chronology)
                   /\ chronology[MostRecent(chronology, nodes)] \in nodes
                   /\ \A j \in 1..MostRecent(chronology, nodes) - 1 :
                         chronology[j] \notin nodes
           /\ Elems(chronology) \cap nodes # {} => MostRecent(chronology, nodes) # 0
<1>1. CASE Elems(chronology) \cap nodes = {} BY <1>1 DEF MostRecent
<1>2. CASE Elems(chronology) \cap nodes # {}
    <2> DEFINE T == {i \in 1..Len(chronology) : chronology[i] \in nodes}
    <2>1. Len(chronology) \in Nat /\ DOMAIN chronology = 1..Len(chronology)
        BY ElemsOfSeq
    <2>2. T \subseteq Nat /\ T # {} BY <1>2, <2>1, ElemsOfSeq
    <2>3. PICK i \in T : \A m \in T : i <= m BY <2>2, LeastNat
    <2>4. \A j \in 1..i - 1 : chronology[j] \notin nodes BY <2>1, <2>3
    <2>5. \E m \in DOMAIN chronology :
             chronology[m] \in nodes /\ \A j \in 1..m - 1 : chronology[j] \notin nodes
        BY <2>1, <2>3, <2>4
    <2>6. MostRecent(chronology, nodes) =
            CHOOSE m \in DOMAIN chronology :
                chronology[m] \in nodes /\ \A j \in 1..m - 1 : chronology[j] \notin nodes
        BY <1>2 DEF MostRecent
    <2> QED BY <2>1, <2>5, <2>6
<1> QED BY <1>1, <1>2
\* An enumeration of the positions in K, in order, of which there are n.
Enumerates(f, n, K) ==
    /\ f \in [1..n -> K]
    /\ \A i \in K : \E k \in 1..n : f[k] = i
    /\ \A j, k \in 1..n : j < k => f[j] < f[k]

\* A set of positions has only one.
LEMMA EnumerationUnique ==
    ASSUME NEW K \in SUBSET Nat, NEW m \in Nat, NEW n \in Nat, NEW f, NEW g,
           Enumerates(f, m, K), Enumerates(g, n, K)
    PROVE  m = n /\ f = g
<1> USE DEF Enumerates
<1>1. /\ \A j \in 1..m : f[j] \in K /\ f[j] \in Nat
      /\ \A j \in 1..n : g[j] \in K /\ g[j] \in Nat
    OBVIOUS
<1>2. ASSUME NEW a, NEW b, NEW p \in Nat, NEW q \in Nat,
             Enumerates(a, p, K), Enumerates(b, q, K),
             NEW k \in 1..p, k \in 1..q,
             \A j \in 1..k - 1 : a[j] = b[j]
      PROVE  ~(a[k] < b[k])
    <2> SUFFICES ASSUME a[k] < b[k] PROVE FALSE OBVIOUS
    <2>1. PICK j \in 1..q : b[j] = a[k] BY <1>2
    <2>2. a[k] \in Nat /\ b[k] \in Nat /\ b[j] \in Nat BY <1>2
    <2>3. CASE j < k
        <3>1. a[j] = b[j] /\ a[j] < a[k] BY <1>2, <2>3
        <3> QED BY <2>1, <2>2, <3>1
    <2>4. CASE j = k BY <2>1, <2>2, <2>4
    <2>5. CASE k < j
        <3>1. b[k] < b[j] BY <1>2, <2>5
        <3> QED BY <2>1, <2>2, <3>1
    <2> QED BY <2>3, <2>4, <2>5
<1>3. ASSUME NEW j \in 1..m, j \in 1..n PROVE f[j] = g[j]
    <2> DEFINE T == {k \in 1..m : k \in 1..n /\ f[k] # g[k]}
    <2> SUFFICES ASSUME T # {} PROVE FALSE BY <1>3
    <2>0. T \in SUBSET Nat OBVIOUS
    <2>1. PICK k \in T : \A i \in T : k <= i
        <3> HIDE DEF T
        <3> QED BY <2>0, LeastNat
    <2>2. \A i \in 1..k - 1 : f[i] = g[i] BY <2>1
    <2>3. ~(f[k] < g[k]) BY <1>2, <2>1, <2>2
    <2>4. ~(g[k] < f[k]) BY <1>2, <2>1, <2>2
    <2> QED BY <1>1, <2>1, <2>3, <2>4
<1>4. ~(m < n)
    <2> SUFFICES ASSUME m < n PROVE FALSE OBVIOUS
    <2>1. PICK j \in 1..m : f[j] = g[m + 1] BY <1>1
    <2>2. g[j] < g[m + 1] /\ g[j] = f[j] BY <1>3
    <2> QED BY <1>1, <2>1, <2>2
<1>5. ~(n < m)
    <2> SUFFICES ASSUME n < m PROVE FALSE OBVIOUS
    <2>1. PICK j \in 1..n : g[j] = f[n + 1] BY <1>1
    <2>2. f[j] < f[n + 1] /\ g[j] = f[j] BY <1>3
    <2> QED BY <1>1, <2>1, <2>2
<1>6. m = n BY <1>4, <1>5
<1> QED BY <1>3, <1>6

\* K holds positions of a vector of l elements.
Positions(K, l) == l \in Nat /\ K \subseteq 1..l

\* The vector s read along an enumeration of n of its positions.
Along(s, f, n) == [k \in 1..n |-> s[f[k]]]

\* Select reads the vector along the enumeration of the positions.
Enumeration(K) == [k \in 1..Cardinality(K) |-> CHOOSE i \in K : Rank(K, i) = k]

LEMMA SelectEnumerates ==
    ASSUME NEW l, NEW s, NEW K, Positions(K, l)
    PROVE  /\ Cardinality(K) \in Nat
           /\ Enumerates(Enumeration(K), Cardinality(K), K)
           /\ Select(s, K) = Along(s, Enumeration(K), Cardinality(K))
<1> DEFINE n == Cardinality(K)
           f == Enumeration(K)
<1>0. l \in Nat /\ K \in SUBSET (1..l) BY DEF Positions
<1>1. IsFiniteSet(K) /\ n \in Nat /\ K \subseteq Nat
    <2>0. K \subseteq Nat /\ l \in Int /\ 1 \in Int BY <1>0
    <2>1. IsFiniteSet(1..l) /\ K \subseteq Nat BY <2>0, FS_Interval
    <2>2. IsFiniteSet(K) BY <1>0, <2>1, FS_Subset
    <2> QED BY <2>1, <2>2, FS_CardinalityType
<1>2. \A i \in K : /\ Rank(K, i) \in 1..n
                   /\ \A j \in K : Rank(K, i) = Rank(K, j) => i = j
    BY <1>0, RankDistinct
<1>3. \A k \in 1..n : f[k] \in K /\ Rank(K, f[k]) = k
    <2>1. \A k \in 1..n : \E i \in K : Rank(K, i) = k BY <1>0, RankReached
    <2> HIDE DEF n
    <2> QED BY <2>1 DEF Enumeration, n
<1>4. ASSUME NEW i \in K, NEW j \in K, i < j PROVE Rank(K, i) <= Rank(K, j)
    <2> DEFINE A(x) == {m \in K : m <= x}
    <2>0. \A m \in K : m <= i => m <= j BY <1>1, <1>4
    <2>1. A(i) \in SUBSET A(j) BY <2>0
    <2>2. IsFiniteSet(A(j)) BY <1>1, FS_Subset
    <2>3. Rank(K, i) = Cardinality(A(i)) /\ Rank(K, j) = Cardinality(A(j)) BY DEF Rank
    <2> HIDE DEF A
    <2> QED BY <2>1, <2>2, <2>3, FS_Subset
<1>5. Select(s, K) = Along(s, f, n) BY DEF Select, Enumeration, Along
<1>6. f \in [1..n -> K]
    <2>1. f = [k \in 1..n |-> f[k]] BY DEF Enumeration
    <2> HIDE DEF f, n
    <2> QED BY <1>3, <2>1
<1> HIDE DEF f, n
<1>7. \A i \in K : \E k \in 1..n : f[k] = i BY <1>2, <1>3
<1>8. ASSUME NEW j \in 1..n, NEW k \in 1..n, j < k PROVE f[j] < f[k]
    <2>1. f[j] \in K /\ f[k] \in K /\ f[j] \in Nat /\ f[k] \in Nat BY <1>1, <1>3
    <2>2. f[j] # f[k] BY <1>3, <1>8
    <2>3. ~(f[k] < f[j])
        <3> SUFFICES ASSUME f[k] < f[j] PROVE FALSE OBVIOUS
        <3>1. Rank(K, f[k]) <= Rank(K, f[j]) BY <1>4, <2>1
        <3> QED BY <1>1, <1>3, <1>8, <3>1
    <2> QED BY <2>1, <2>2, <2>3
<1>9. Enumerates(f, n, K) BY <1>6, <1>7, <1>8 DEF Enumerates
<1> QED BY <1>1, <1>5, <1>9 DEF f, n

\* ... and along no other.
LEMMA SelectBy ==
    ASSUME NEW l, NEW s, NEW K, Positions(K, l),
           NEW n \in Nat, NEW f, Enumerates(f, n, K)
    PROVE  Select(s, K) = Along(s, f, n)
<1>1. Cardinality(K) \in Nat BY SelectEnumerates
<1>2. Enumerates(Enumeration(K), Cardinality(K), K) BY SelectEnumerates
<1>3. Select(s, K) = Along(s, Enumeration(K), Cardinality(K)) BY SelectEnumerates
<1>4. K \in SUBSET Nat BY DEF Positions
<1>5. Cardinality(K) = n /\ Enumeration(K) = f
    BY <1>1, <1>2, <1>4, EnumerationUnique
<1> QED BY <1>3, <1>5

\* The positions that f takes those in J to.
ImageOf(f, J) == {f[j] : j \in J}

\* Enumerating some of the positions that an enumeration passes through.
LEMMA EnumerationComposed ==
    ASSUME NEW n \in Nat, NEW K \in SUBSET Nat, NEW f, Enumerates(f, n, K),
           NEW m \in Nat, NEW J \in SUBSET (1..n), NEW g, Enumerates(g, m, J)
    PROVE  Enumerates(Along(f, g, m), m, ImageOf(f, J))
<1> DEFINE h == Along(f, g, m)
           I == {f[j] : j \in J}
<1>0. h = [k \in 1..m |-> f[g[k]]] BY DEF Along
<1> HIDE DEF h
<1>1. \A k \in 1..m : g[k] \in J /\ g[k] \in 1..n BY DEF Enumerates
<1>2. h \in [1..m -> I] BY <1>0, <1>1
<1>3. ASSUME NEW j \in J PROVE \E k \in 1..m : h[k] = f[j] BY <1>0 DEF Enumerates
<1>4. ASSUME NEW j \in 1..m, NEW k \in 1..m, j < k PROVE h[j] < h[k]
    <2>1. g[j] < g[k] BY <1>4 DEF Enumerates
    <2> QED BY <1>0, <1>1, <2>1 DEF Enumerates
<1>5. \A i \in I : \E k \in 1..m : h[k] = i BY <1>3
<1> HIDE DEF I
<1>6. Enumerates(h, m, I) BY <1>2, <1>4, <1>5 DEF Enumerates
<1> QED BY <1>6 DEF h, I, ImageOf


\* Choosing among what was chosen is choosing at once.
LEMMA SelectSelect ==
    ASSUME NEW l, NEW s, NEW K, Positions(K, l),
           NEW n, NEW f, Enumerates(f, n, K), NEW J, Positions(J, n)
    PROVE  Select(Select(s, K), J) = Select(s, ImageOf(f, J))
<1> DEFINE v == Select(s, K)
           I == ImageOf(f, J)
           m == Cardinality(J)
           g == Enumeration(J)
<1>0. n \in Nat /\ J \in SUBSET (1..n) BY DEF Positions
<1>1. v = Along(s, f, n) BY <1>0, SelectBy
<1>2. m \in Nat /\ Enumerates(g, m, J) /\ Select(v, J) = Along(v, g, m)
    BY SelectEnumerates
<1>3. K \in SUBSET Nat /\ Positions(I, l)
    <2>1. l \in Nat /\ \A j \in 1..n : f[j] \in 1..l BY DEF Enumerates, Positions
    <2>2. K \in SUBSET Nat BY DEF Positions
    <2> QED BY <1>0, <2>1, <2>2 DEF ImageOf, Positions
<1> DEFINE h == Along(f, g, m)
<1> HIDE DEF m, g, I, h
<1>4. Enumerates(h, m, I) BY <1>0, <1>2, <1>3, EnumerationComposed DEF I, h
<1>5. Select(s, I) = Along(s, h, m) BY <1>2, <1>3, <1>4, SelectBy
<1>6. \A k \in 1..m : g[k] \in 1..n BY <1>0, <1>2 DEF Enumerates
<1>7. Along(v, g, m) = Along(s, h, m) BY <1>1, <1>6 DEF Along, h
<1> QED BY <1>2, <1>5, <1>7 DEF I


\* A vector is the function of its positions.
LEMMA SamePlaces ==
    ASSUME NEW l \in Nat, NEW S, NEW s \in Seq(S), DOMAIN s = 1..l,
           NEW R, NEW r \in Seq(R), DOMAIN r = 1..l, \A i \in 1..l : s[i] = r[i]
    PROVE  s = r
<1>1. s = [i \in DOMAIN s |-> s[i]] BY SeqDef
<1>2. r = [i \in DOMAIN r |-> r[i]] BY SeqDef
<1> QED BY <1>1, <1>2

\* Choosing every position changes nothing.
LEMMA SelectAll ==
    ASSUME NEW S, NEW s \in Seq(S)
    PROVE  Select(s, 1..Len(s)) = s
<1> DEFINE l == Len(s)
           f == [i \in 1..l |-> i]
<1>1. l \in Nat /\ DOMAIN s = 1..l BY ElemsOfSeq
<1>3. Enumerates(f, l, 1..l)
    <2> HIDE DEF l
    <2> QED BY <1>1 DEF Enumerates
<1>4. Positions(1..l, l) BY <1>1 DEF Positions
<1>5. Select(s, 1..l) = Along(s, f, l)
    <2> HIDE DEF f, l
    <2> QED BY <1>1, <1>3, <1>4, SelectBy
<1>6. Along(s, f, l) = s
    <2>1. Along(s, f, l) = [i \in DOMAIN s |-> s[i]] BY <1>1 DEF Along
    <2> QED BY <2>1, SeqDef
<1> QED BY <1>5, <1>6

\* Erasing a position is choosing all others.
LEMMA EraseAtSelects ==
    ASSUME NEW S, NEW s \in Seq(S), NEW i \in 1..Len(s)
    PROVE  EraseAt(s, i) = Select(s, (1..Len(s)) \ {i})
<1> DEFINE n == Len(s)
           f == [k \in 1..n - 1 |-> IF k <= i - 1 THEN k ELSE k + 1]
           K == (1..n) \ {i}
           c == EraseAt(s, i)
<1>1. n \in Nat /\ n - 1 \in Nat /\ i \in 1..n /\ i \in Nat BY ElemsOfSeq
<1>2. /\ c \in Seq(S) /\ Len(c) = n - 1
      /\ \A j \in 1..n - 1 : c[j] = IF j <= i - 1 THEN s[j] ELSE s[j + 1]
    BY EraseAtPositions
<1>3. \A k \in 1..n - 1 : s[f[k]] = IF k <= i - 1 THEN s[k] ELSE s[k + 1] OBVIOUS
<1> HIDE DEF n, c
<1>4. Enumerates(f, n - 1, K)
    <2>1. f \in [1..n - 1 -> K] BY <1>1
    <2>2. ASSUME NEW j \in K PROVE \E k \in 1..n - 1 : f[k] = j
        <3>1. CASE j < i
            <4>1. j \in 1..n - 1 /\ f[j] = j BY <1>1, <3>1
            <4> QED BY <4>1
        <3>2. CASE j > i
            <4>1. j - 1 \in 1..n - 1 /\ f[j - 1] = j BY <1>1, <3>2
            <4> QED BY <4>1
        <3> QED BY <1>1, <3>1, <3>2
    <2>3. \A j, k \in 1..n - 1 : j < k => f[j] < f[k] BY <1>1
    <2> HIDE DEF f, K
    <2> QED BY <2>1, <2>2, <2>3 DEF Enumerates
<1>5. Positions(K, n) BY <1>1 DEF Positions
<1> HIDE DEF f, K
<1>6. Select(s, K) = Along(s, f, n - 1) BY <1>1, <1>4, <1>5, SelectBy
<1>7. c = [k \in 1..n - 1 |-> c[k]]
    <2>1. DOMAIN c = 1..n - 1 /\ c = [k \in DOMAIN c |-> c[k]] BY <1>2, SeqDef
    <2> QED BY <2>1
<1>8. c = Along(s, f, n - 1) BY <1>2, <1>3, <1>7 DEF Along
<1> QED BY <1>6, <1>8 DEF c, n, K

\* While the first i positions are chosen, they are the first.
LEMMA FirstChosen ==
    ASSUME NEW l, NEW K, Positions(K, l), NEW i \in Nat, 1..i \subseteq K
    PROVE  /\ i <= Cardinality(K)
           /\ \A k \in 1..i : Enumeration(K)[k] = k
<1> DEFINE n == Cardinality(K)
<1>1. l \in Nat /\ K \in SUBSET (1..l) BY DEF Positions
<1>2. IsFiniteSet(K) /\ n \in Nat
    <2>1. IsFiniteSet(1..l) BY <1>1, FS_Interval
    <2> QED BY <1>1, <2>1, FS_Subset, FS_CardinalityType
<1>3. \A k \in Nat : IsFiniteSet(1..k) /\ Cardinality(1..k) = k
    <2> TAKE k \in Nat
    <2>1. IsFiniteSet(1..k) /\ Cardinality(1..k) = IF 1 > k THEN 0 ELSE k - 1 + 1
        BY FS_Interval
    <2> QED BY <2>1
<1>4. i <= n
    <2>1. Cardinality(1..i) <= n BY <1>2, FS_Subset
    <2> QED BY <1>3, <2>1
<1>5. ASSUME NEW k \in 1..i PROVE Enumeration(K)[k] = k
    <2>1. k \in K /\ k \in 1..n /\ k \in Nat BY <1>2, <1>4
    <2>2. {j \in K : j <= k} = 1..k
        <3>1. \A j \in K : j \in 1..l /\ j \in Nat /\ j >= 1 BY <1>1
        <3>2. \A j \in 1..k : j \in 1..i /\ j \in Nat /\ j <= k BY <1>5, <2>1
        <3>3. \A j \in K : j <= k => j \in 1..k BY <2>1, <3>1
        <3>4. \A j \in 1..k : j \in K /\ j <= k BY <3>2
        <3> QED BY <3>3, <3>4
    <2>3. Rank(K, k) = k BY <1>3, <2>1, <2>2 DEF Rank
    <2>4. \A j \in K : Rank(K, k) = Rank(K, j) => k = j BY <1>1, <2>1, RankDistinct
    <2>5. Enumeration(K)[k] = CHOOSE j \in K : Rank(K, j) = k BY <2>1 DEF Enumeration
    <2> HIDE DEF n
    <2> QED BY <2>1, <2>3, <2>4, <2>5
<1> QED BY <1>4, <1>5

\* So erasing the last of them leaves the others chosen.
LEMMA EraseChosen ==
    ASSUME NEW S, NEW s \in Seq(S), NEW K, Positions(K, Len(s)),
           NEW i \in Nat \ {0}, 1..i \subseteq K
    PROVE  /\ Select(s, K)[i] = s[i]
           /\ EraseAt(Select(s, K), i) = Select(s, K \ {i})
<1> DEFINE l == Len(s)
           v == Select(s, K)
           n == Cardinality(K)
           f == Enumeration(K)
           J == (1..n) \ {i}
<1>1. /\ n \in Nat /\ Enumerates(f, n, K) /\ v = Along(s, f, n) BY SelectEnumerates
<1>2. i <= n /\ \A k \in 1..i : f[k] = k BY FirstChosen
<1>3. K \in SUBSET (DOMAIN s) BY ElemsOfSeq DEF Positions
<1>4. v \in Seq(S) BY <1>3, ElemsOfSelect
<1> HIDE DEF v, n, f
<1>5. i \in 1..n /\ f[i] = i BY <1>1, <1>2
<1>6. v[i] = s[i] BY <1>1, <1>5 DEF Along
<1>7. Len(v) = n
    <2>1. DOMAIN v = 1..n BY <1>1 DEF Along
    <2> QED BY <1>1, <1>4, <2>1, LenProperties
<1>8. EraseAt(v, i) = Select(v, J) BY <1>4, <1>5, <1>7, EraseAtSelects
<1>9. Select(v, J) = Select(s, ImageOf(f, J))
    <2>1. Positions(J, n) BY <1>1 DEF Positions
    <2> HIDE DEF J
    <2> QED BY <1>1, <2>1, SelectSelect DEF v
<1>10. ImageOf(f, J) = K \ {i}
    <2>1. ASSUME NEW j \in J PROVE f[j] \in K \ {i}
        <3>1. f[j] \in K BY <1>1 DEF Enumerates
        <3>2. f[j] # f[i]
            <4>1. j < i \/ i < j BY <1>1
            <4>2. \A k \in K : k \in Nat BY <1>3, ElemsOfSeq
            <4>3. f[i] \in Nat /\ f[j] \in Nat BY <1>5, <3>1, <4>2
            <4>4. f[j] < f[i] \/ f[i] < f[j] BY <1>1, <1>5, <4>1 DEF Enumerates
            <4> QED BY <4>3, <4>4
        <3> QED BY <1>5, <3>1, <3>2
    <2>2. ASSUME NEW m \in K \ {i} PROVE \E j \in J : f[j] = m
        <3>1. PICK j \in 1..n : f[j] = m BY <1>1 DEF Enumerates
        <3> QED BY <1>5, <3>1
    <2> HIDE DEF J
    <2> QED BY <2>1, <2>2 DEF ImageOf
<1> QED BY <1>6, <1>8, <1>9, <1>10 DEF v

\* The loop of remove_most_recent_transaction, by index and from the end, leaves
\* what the loops of abort_transaction leave: when the first i positions are not
\* looked at, they and the operations kept behind them are chosen.
LEMMA EraseFromBackIsWithout ==
    ASSUME NEW S, NEW s \in Seq(S), NEW t
    PROVE  EraseFromBack(s, t) = Without(s, t)
<1> DEFINE n == Len(s)
           Kept(i) == {j \in 1..n : j <= i \/ s[j].tid # t}
           LeftOf(v, i) == IF v[i].tid = t THEN EraseAt(v, i) ELSE v
           Loop(h) == h = [i \in 0..n |-> IF i = n THEN s ELSE
                              IF h[i + 1][i + 1].tid = t
                              THEN EraseAt(h[i + 1], i + 1) ELSE h[i + 1]]
           left == CHOOSE h : Loop(h)
           g == [i \in 0..n |-> Select(s, Kept(i))]
<1>1. n \in Nat /\ DOMAIN s = 1..n BY ElemsOfSeq
<1>2. EraseFromBack(s, t) = left[0] BY DEF EraseFromBack
<1>3. Without(s, t) = Select(s, Kept(0))
    <2>1. {i \in DOMAIN s : s[i].tid # t} = Kept(0) BY <1>1
    <2> QED BY <2>1 DEF Without
<1>4. Select(s, Kept(n)) = s
    <2>1. Kept(n) = 1..n BY <1>1
    <2> QED BY <2>1, SelectAll
<1>5. ASSUME NEW i \in 1..n
      PROVE  Select(s, Kept(i - 1)) = LeftOf(Select(s, Kept(i)), i)
    <2>1. Positions(Kept(i), n) /\ 1..i \subseteq Kept(i) /\ i \in Nat \ {0}
        BY <1>1 DEF Positions
    <2>2. Kept(i - 1) = IF s[i].tid = t THEN Kept(i) \ {i} ELSE Kept(i) BY <1>1
    <2> HIDE DEF Kept
    <2>3. /\ Select(s, Kept(i))[i] = s[i]
          /\ EraseAt(Select(s, Kept(i)), i) = Select(s, Kept(i) \ {i})
        BY <2>1, EraseChosen
    <2> QED BY <2>2, <2>3
<1> HIDE DEF Kept, n
<1>6. Loop(g)
    <2>1. ASSUME NEW i \in 0..n, i # n
          PROVE  g[i] = IF g[i + 1][i + 1].tid = t
                        THEN EraseAt(g[i + 1], i + 1) ELSE g[i + 1]
        <3>1. i + 1 \in 1..n /\ i + 1 \in 0..n /\ (i + 1) - 1 = i BY <1>1, <2>1
        <3>2. g[i] = Select(s, Kept(i)) /\ g[i + 1] = Select(s, Kept(i + 1)) BY <3>1
        <3>3. Select(s, Kept((i + 1) - 1)) = LeftOf(Select(s, Kept(i + 1)), i + 1)
            BY <1>5, <3>1
        <3> HIDE DEF g
        <3> QED BY <3>1, <3>2, <3>3
    <2>2. n \in 0..n /\ g[n] = s BY <1>1, <1>4
    <2>3. g = [i \in 0..n |-> g[i]] OBVIOUS
    <2> HIDE DEF g
    <2> QED BY <2>1, <2>2, <2>3
<1>7. Loop(left)
    <2> HIDE DEF Loop, g
    <2> QED BY <1>6
<1> HIDE DEF left
<1>8. /\ left[n] = s
      /\ \A i \in 1..n : left[i - 1] = LeftOf(left[i], i)
    <2>1. n \in 0..n BY <1>1
    <2>2. left[n] = s BY <1>7, <2>1
    <2>3. ASSUME NEW i \in 1..n PROVE left[i - 1] = LeftOf(left[i], i)
        <3>1. i - 1 \in 0..n /\ i - 1 # n /\ (i - 1) + 1 = i BY <1>1
        <3>2. left[i - 1] = IF left[(i - 1) + 1][(i - 1) + 1].tid = t
                            THEN EraseAt(left[(i - 1) + 1], (i - 1) + 1)
                            ELSE left[(i - 1) + 1]
            BY <1>7, <3>1
        <3> QED BY <3>1, <3>2
    <2> QED BY <2>2, <2>3
<1> HIDE DEF Loop, LeftOf
<1>9. \A i \in 0..n : left[i] = Select(s, Kept(i))
    <2> DEFINE T == {m \in Nat : m <= n /\ left[n - m] # Select(s, Kept(n - m))}
    <2> SUFFICES ASSUME T # {} PROVE FALSE
        <3>1. \A i \in 0..n : n - i \in Nat /\ n - i <= n /\ n - (n - i) = i BY <1>1
        <3> QED BY <3>1
    <2>1. T \in SUBSET Nat OBVIOUS
    <2>2. PICK m \in T : \A k \in T : m <= k
        <3> HIDE DEF T
        <3> QED BY <2>1, LeastNat
    <2>3. m # 0 BY <1>1, <1>4, <1>8, <2>2
    <2>4. /\ m - 1 \in Nat /\ m - 1 <= n /\ m - 1 \notin T BY <1>1, <2>2, <2>3
    <2>5. left[n - (m - 1)] = Select(s, Kept(n - (m - 1))) BY <2>4
    <2>6. /\ n - (m - 1) \in 1..n /\ (n - (m - 1)) - 1 = n - m BY <1>1, <2>2, <2>3
    <2>7. left[(n - (m - 1)) - 1] = Select(s, Kept((n - (m - 1)) - 1))
        BY <1>5, <1>8, <2>5, <2>6
    <2> QED BY <2>2, <2>6, <2>7
<1>10. 0 \in 0..n BY <1>1
<1> QED BY <1>2, <1>3, <1>9, <1>10

\* The purge of a Schedule object is one.
LEMMA PurgeType ==
    ASSUME NEW t, NEW sch \in [schedule : Seq(Operations), transaction_ids : Seq(Tids)]
    PROVE  Purge(sch, t) \in [schedule : Seq(Operations), transaction_ids : Seq(Tids)]
<1> DEFINE ids == sch.transaction_ids
           K == {i \in DOMAIN ids : ids[i] # t}
<1>1. EraseFromBack(sch.schedule, t) \in Seq(Operations)
    <2>1. sch.schedule \in Seq(Operations) OBVIOUS
    <2> QED BY <2>1, ElemsOfWithout, EraseFromBackIsWithout
<1>2. ids \in Seq(Tids) /\ K \in SUBSET (DOMAIN ids) OBVIOUS
<1>3. \/ Purge(sch, t) = sch
      \/ Purge(sch, t) = [schedule |-> EraseFromBack(sch.schedule, t),
                          transaction_ids |-> Select(ids, K)]
    BY DEF Purge
<1> HIDE DEF ids, K
<1>4. Select(ids, K) \in Seq(Tids) BY <1>2, ElemsOfSelect
<1> QED BY <1>1, <1>3, <1>4

\* A vector of l elements.
OfLength(s, l) == DOMAIN s = 1..l

\* The first positions of the transactions of a vector.
Firsts(s) == {i \in DOMAIN s : \A j \in 1..i - 1 : s[j].tid # s[i].tid}
Ids(s) == ScheduleOf(s).transaction_ids

\* The operations at those positions, read along an enumeration, give the list
\* of transactions of the Schedule object.
TidsAlong(s, f, n) == [k \in 1..n |-> s[f[k]].tid]
LEMMA IdsOfFirsts ==
    ASSUME NEW s, NEW r, NEW n \in Nat, NEW f,
           Select(s, Firsts(s)) = Along(r, f, n)
    PROVE  /\ ScheduleOf(s) = [schedule |-> s, transaction_ids |-> Ids(s)]
           /\ Ids(s) = TidsAlong(r, f, n)
<1> DEFINE firsts == Select(s, Firsts(s))
<1>1. firsts = [k \in 1..n |-> r[f[k]]] BY DEF Along
<1>2. ScheduleOf(s) = [schedule |-> s,
                       transaction_ids |-> [k \in DOMAIN firsts |-> firsts[k].tid]]
    BY DEF ScheduleOf, Firsts
<1>3. Ids(s) = [k \in DOMAIN firsts |-> firsts[k].tid] BY <1>2 DEF Ids
<1> HIDE DEF firsts
<1>4. [k \in DOMAIN firsts |-> firsts[k].tid] = TidsAlong(r, f, n)
    BY <1>1 DEF TidsAlong
<1> QED BY <1>2, <1>3, <1>4

LEMMA IdsAlong ==
    ASSUME NEW l \in Nat, NEW s, OfLength(s, l),
           NEW n \in Nat, NEW f, Enumerates(f, n, Firsts(s))
    PROVE  /\ ScheduleOf(s) = [schedule |-> s, transaction_ids |-> Ids(s)]
           /\ Ids(s) = TidsAlong(s, f, n)
<1>1. Positions(Firsts(s), l) BY DEF Firsts, OfLength, Positions
<1>2. Select(s, Firsts(s)) = Along(s, f, n) BY <1>1, SelectBy
<1> QED BY <1>2, IdsOfFirsts

\* The purge of a Schedule object (schedule.cpp, remove_most_recent_
\* transaction) leaves the object that the purged operations would make.
LEMMA PurgeScheduleOf ==
    ASSUME NEW S, NEW s \in Seq(S), NEW l \in Nat, OfLength(s, l), NEW t, t # NoTid
    PROVE  Purge(ScheduleOf(s), t) = ScheduleOf(Without(s, t))
<1> DEFINE K == {i \in DOMAIN s : s[i].tid # t}
           w == Without(s, t)
           F == Firsts(s)
           J == Firsts(w)
           n == Cardinality(F)
           f == Enumeration(F)
           p == Cardinality(K)
           a == Enumeration(K)
           M == {k \in 1..n : s[f[k]].tid # t}
           m == Cardinality(M)
           h == Enumeration(M)
           e == Along(f, h, m)
           I == ImageOf(f, M)
<1>1. /\ K \in SUBSET (1..l) /\ F \in SUBSET (1..l)
      /\ K \in SUBSET Nat /\ F \in SUBSET Nat
      /\ M \in SUBSET (1..n)
      /\ Positions(K, l) /\ Positions(F, l)
    BY DEF Firsts, OfLength, Positions
<1>2. w = Select(s, K) BY DEF Without
<1>3. n \in Nat /\ Enumerates(f, n, F)
    <2> HIDE DEF F
    <2> QED BY <1>1, SelectEnumerates
<1>4. p \in Nat /\ Enumerates(a, p, K) /\ w = Along(s, a, p)
    <2> HIDE DEF K, w
    <2> QED BY <1>1, <1>2, SelectEnumerates
<1>5. DOMAIN w = 1..p /\ \A k \in 1..p : w[k] = s[a[k]]
    <2> HIDE DEF w, p, a
    <2> QED BY <1>4 DEF Along
<1>6. /\ \A k \in 1..p : a[k] \in K
      /\ \A i \in K : \E k \in 1..p : a[k] = i
      /\ \A j, k \in 1..p : j < k => a[j] < a[k]
    BY <1>4 DEF Enumerates
<1>7. /\ \A k \in 1..n : f[k] \in F
      /\ \A i \in F : \E k \in 1..n : f[k] = i
    BY <1>3 DEF Enumerates
<1>8. \A i \in 1..l : i \in K <=> s[i].tid # t BY DEF OfLength
<1>9. \A i \in 1..l : i \in F <=> \A j \in 1..i - 1 : s[j].tid # s[i].tid
    BY DEF Firsts, OfLength
<1>10. \A k \in 1..p : k \in J <=> \A j \in 1..k - 1 : w[j].tid # w[k].tid
    BY <1>5 DEF Firsts
<1>11. J \in SUBSET (1..p) BY <1>5 DEF Firsts
<1>12. \A k \in 1..n : k \in M <=> s[f[k]].tid # t OBVIOUS
<1> HIDE DEF K, F, J, M, n, f, p, a, w
<1>13. ASSUME NEW k \in 1..p PROVE k \in J <=> a[k] \in F
    <2>1. a[k] \in 1..l /\ a[k] \in Nat /\ w[k] = s[a[k]] /\ s[a[k]].tid # t
        BY <1>1, <1>5, <1>6, <1>8
    <2>2. ASSUME k \in J, NEW i \in 1..a[k] - 1 PROVE s[i].tid # s[a[k]].tid
        <3> SUFFICES ASSUME s[i].tid = s[a[k]].tid PROVE FALSE OBVIOUS
        <3>1. i \in 1..l BY <1>1, <2>1
        <3>2. i \in K BY <1>8, <2>1, <3>1
        <3>3. PICK j \in 1..p : a[j] = i BY <1>6, <3>2
        <3>4. j < k
            <4> SUFFICES ASSUME ~(j < k) PROVE FALSE OBVIOUS
            <4>1. j = k \/ k < j BY <1>4
            <4>2. a[j] = a[k] \/ a[k] < a[j] BY <1>6, <4>1
            <4> QED BY <2>1, <3>3, <4>2
        <3>5. j \in 1..k - 1 /\ w[j] = s[i] BY <1>4, <1>5, <3>3, <3>4
        <3> QED BY <1>10, <2>1, <2>2, <3>5
    <2>3. ASSUME a[k] \in F, NEW j \in 1..k - 1 PROVE w[j].tid # w[k].tid
        <3>1. j \in 1..p /\ j < k BY <1>4
        <3>2. a[j] < a[k] /\ a[j] \in Nat /\ a[j] \in 1..l BY <1>1, <1>6, <3>1
        <3>3. a[j] \in 1..a[k] - 1 BY <2>1, <3>2
        <3>4. s[a[j]].tid # s[a[k]].tid BY <1>9, <2>1, <2>3, <3>3
        <3> QED BY <1>5, <2>1, <3>1, <3>4
    <2> QED BY <1>9, <1>10, <2>1, <2>2, <2>3
<1>14. ImageOf(a, J) = I
    <2>1. ASSUME NEW k \in J PROVE a[k] \in I
        <3>1. k \in 1..p BY <1>11
        <3>2. a[k] \in F /\ a[k] \in K BY <1>6, <1>13, <3>1
        <3>3. PICK j \in 1..n : f[j] = a[k] BY <1>7, <3>2
        <3>4. j \in M BY <1>1, <1>8, <1>12, <3>2, <3>3
        <3> QED BY <3>3, <3>4 DEF ImageOf
    <2>2. ASSUME NEW k \in M PROVE f[k] \in ImageOf(a, J)
        <3>1. k \in 1..n /\ f[k] \in F /\ f[k] \in 1..l BY <1>1, <1>7
        <3>2. f[k] \in K BY <1>8, <1>12, <3>1
        <3>3. PICK j \in 1..p : a[j] = f[k] BY <1>6, <3>2
        <3>4. j \in J BY <1>13, <3>1, <3>3
        <3> QED BY <3>3, <3>4 DEF ImageOf
    <2> QED BY <2>1, <2>2 DEF ImageOf
<1>15. m \in Nat /\ Enumerates(h, m, M) /\ Select(Ids(s), M) = Along(Ids(s), h, m)
    <2>1. Positions(M, n) BY <1>1, <1>3 DEF Positions
    <2> QED BY <2>1, SelectEnumerates
<1>16. Enumerates(e, m, I)
    <2> HIDE DEF m, h
    <2> QED BY <1>1, <1>3, <1>15, EnumerationComposed
<1>17. /\ Ids(s) = TidsAlong(s, f, n)
       /\ ScheduleOf(s) = [schedule |-> s, transaction_ids |-> Ids(s)]
    <2>1. Enumerates(f, n, Firsts(s)) BY <1>3 DEF F
    <2> QED BY <1>3, <2>1, IdsAlong
<1>18. M = {k \in DOMAIN Ids(s) : Ids(s)[k] # t}
    BY <1>17 DEF M, TidsAlong
<1>20. Purge(ScheduleOf(s), t) = [schedule |-> w, transaction_ids |-> Along(Ids(s), h, m)]
    <2>1. EraseFromBack(s, t) = w BY EraseFromBackIsWithout DEF w
    <2> QED BY <1>15, <1>17, <1>18, <2>1 DEF Purge
<1>21. Select(w, J) = Select(s, I)
    <2>1. Select(Select(s, K), J) = Select(s, ImageOf(a, J))
        <3> HIDE DEF I, m, h, e
        <3>1. Positions(J, p) BY <1>4, <1>11 DEF Positions
        <3> QED BY <1>1, <1>4, <3>1, SelectSelect
    <2> QED BY <1>2, <1>14, <2>1
<1>22. Positions(I, l) BY <1>1, <1>7 DEF ImageOf, Positions
<1>23. Select(s, I) = Along(s, e, m)
    <2> HIDE DEF e, m, I
    <2> QED BY <1>1, <1>15, <1>16, <1>22, SelectBy
<1>24. ScheduleOf(w) = [schedule |-> w, transaction_ids |-> TidsAlong(s, e, m)]
    <2> HIDE DEF e, m, I
    <2>1. Select(w, Firsts(w)) = Along(s, e, m) BY <1>21, <1>23 DEF J
    <2> QED BY <1>15, <2>1, IdsOfFirsts
<1>25. Along(Ids(s), h, m) = TidsAlong(s, e, m)
    <2>1. \A k \in 1..m : h[k] \in 1..n BY <1>1, <1>15 DEF Enumerates
    <2> HIDE DEF m, h
    <2>2. \A k \in 1..m : Ids(s)[h[k]] = s[f[h[k]]].tid BY <1>17, <2>1 DEF TidsAlong
    <2>3. \A k \in 1..m : e[k] = f[h[k]] BY DEF Along
    <2> HIDE DEF e
    <2> QED BY <2>2, <2>3 DEF Along, TidsAlong
<1> QED BY <1>20, <1>24, <1>25 DEF w

\* Filtering out a transaction without an operation changes nothing.
LEMMA WithoutAbsent ==
    ASSUME NEW S, NEW s \in Seq(S), NEW t, \A i \in DOMAIN s : s[i].tid # t
    PROVE  Without(s, t) = s
<1>1. DOMAIN s = 1..Len(s) BY ElemsOfSeq
<1>2. {i \in DOMAIN s : s[i].tid # t} = 1..Len(s) BY <1>1
<1> QED BY <1>2, SelectAll DEF Without

\* Filtering out a transaction that has an operation makes the vector shorter.
LEMMA LenOfWithout ==
    ASSUME NEW S, NEW s \in Seq(S), NEW t \in TidsOf(s)
    PROVE  Len(Without(s, t)) < Len(s)
<1> DEFINE l == Len(s)
           K == {i \in DOMAIN s : s[i].tid # t}
           n == Cardinality(K)
<1>1. l \in Nat /\ DOMAIN s = 1..l BY ElemsOfSeq
<1>2. PICK i \in 1..l : s[i].tid = t BY <1>1 DEF TidsOf
<1>3. K \in SUBSET (1..l) /\ i \notin K BY <1>1, <1>2
<1>4. Positions(K, l) BY <1>1, <1>3 DEF Positions
<1>5. n < l
    <2> HIDE DEF K, l
    <2>1. l \in Int /\ 1 \in Int BY <1>1
    <2>2. IsFiniteSet(1..l) /\ Cardinality(1..l) = IF 1 > l THEN 0 ELSE l - 1 + 1
        BY <2>1, FS_Interval
    <2>3. Cardinality(1..l) = l BY <1>1, <1>2, <2>2
    <2>4. n <= l /\ (l = n => 1..l = K) BY <1>3, <2>2, <2>3, FS_Subset
    <2>5. n \in Nat BY <1>4, SelectEnumerates
    <2> QED BY <1>1, <1>3, <2>4, <2>5
<1>6. Select(s, K) = Along(s, Enumeration(K), n) /\ n \in Nat
    <2> HIDE DEF K, l
    <2> QED BY <1>4, SelectEnumerates
<1>7. Len(Select(s, K)) = n
    <2> HIDE DEF K, n
    <2>1. Select(s, K) \in Seq(S) BY <1>1, <1>3, ElemsOfSelect
    <2>2. DOMAIN Select(s, K) = 1..n BY <1>6 DEF Along
    <2> QED BY <1>6, <2>1, <2>2, LenProperties
<1> QED BY <1>5, <1>7 DEF Without

\* The purge of the object matches abort_transaction's, whatever transaction
\* remove_most_recent_transaction returned.
LEMMA PurgeMatches ==
    ASSUME NEW s \in Seq(Operations), NEW t
    PROVE  Purge(ScheduleOf(s), t) = ScheduleOf(Without(s, t))
<1>1. CASE t = NoTid
    <2>1. \A i \in DOMAIN s : s[i].tid \in Nat
        <3>1. \A op \in Operations : op.tid \in Nat BY TidsAssumption DEF Operations
        <3> QED BY <3>1, ElemsOfSeq
    <2>2. Without(s, t) = s BY <1>1, <2>1, WithoutAbsent DEF NoTid
    <2> QED BY <1>1, <2>2 DEF Purge
<1>2. CASE t # NoTid
    <2>1. Len(s) \in Nat /\ OfLength(s, Len(s)) BY ElemsOfSeq DEF OfLength
    <2> QED BY <1>2, <2>1, PurgeScheduleOf
<1> QED BY <1>1, <1>2

\* The list names the transactions that have an operation.
LEMMA IdsNamed ==
    ASSUME NEW s \in Seq(Operations)
    PROVE  Elems(Ids(s)) = TidsOf(s)
<1> DEFINE l == Len(s)
           F == Firsts(s)
           n == Cardinality(F)
           f == Enumeration(F)
<1>1. l \in Nat /\ DOMAIN s = 1..l BY ElemsOfSeq
<1>2. Positions(F, l) /\ OfLength(s, l) BY <1>1 DEF Firsts, Positions, OfLength
<1>3. n \in Nat /\ Enumerates(f, n, F)
    <2> HIDE DEF F, l
    <2> QED BY <1>2, SelectEnumerates
<1> HIDE DEF n, f, l
<1>4. Ids(s) = TidsAlong(s, f, n) BY <1>1, <1>2, <1>3, IdsAlong
<1>5. Elems(Ids(s)) = {s[f[k]].tid : k \in 1..n} BY <1>4 DEF Elems, TidsAlong
<1>6. \A k \in 1..n : f[k] \in 1..l BY <1>1, <1>3 DEF Enumerates, Firsts
<1>7. ASSUME NEW i \in 1..l PROVE \E k \in 1..n : s[f[k]].tid = s[i].tid
    <2> DEFINE T == {j \in 1..l : s[j].tid = s[i].tid}
    <2>1. T \in SUBSET Nat /\ T # {} BY <1>1
    <2>2. PICK j \in T : \A m \in T : j <= m
        <3> HIDE DEF T
        <3> QED BY <2>1, LeastNat
    <2>3. j \in F BY <1>1, <2>2 DEF Firsts
    <2>4. PICK k \in 1..n : f[k] = j BY <1>3, <2>3 DEF Enumerates
    <2> QED BY <2>2, <2>4
<1> QED BY <1>1, <1>5, <1>6, <1>7 DEF TidsOf

\* add_operation makes the object of the longer schedule.
LEMMA AddOperationMatches ==
    ASSUME NEW s \in Seq(Operations), NEW op \in Operations
    PROVE  AddOperation(ScheduleOf(s), op) = ScheduleOf(Append(s, op))
<1> DEFINE l == Len(s)
           r == Append(s, op)
           F == Firsts(s)
           n == Cardinality(F)
           f == Enumeration(F)
           old == op.tid \in TidsOf(s)
<1>1. l \in Nat /\ DOMAIN s = 1..l BY ElemsOfSeq
<1>2. /\ r \in Seq(Operations) /\ Len(r) = l + 1
      /\ \A i \in 1..l : r[i] = s[i]
      /\ r[l + 1] = op
    BY AppendProperties
<1>3. DOMAIN r = 1..l + 1 BY <1>2, ElemsOfSeq
<1> HIDE DEF r
<1>4. Positions(F, l) /\ OfLength(s, l) /\ OfLength(r, l + 1)
    BY <1>1, <1>3 DEF Firsts, Positions, OfLength
<1>5. n \in Nat /\ Enumerates(f, n, F)
    <2> HIDE DEF F, l
    <2> QED BY <1>4, SelectEnumerates
<1> HIDE DEF n, f, l
<1>6. /\ ScheduleOf(s) = [schedule |-> s, transaction_ids |-> Ids(s)]
      /\ Ids(s) = TidsAlong(s, f, n)
    BY <1>1, <1>4, <1>5, IdsAlong
<1>7. F \subseteq 1..l /\ \A k \in 1..n : f[k] \in F
    BY <1>1, <1>5 DEF Enumerates, Firsts
<1>8. \A i \in 1..l : i \in Firsts(r) <=> i \in F
    BY <1>1, <1>2, <1>3 DEF Firsts
<1>9. l + 1 \in Firsts(r) <=> ~old
    <2>1. \A j \in 1..(l + 1) - 1 : j \in 1..l /\ r[j] = s[j] BY <1>1, <1>2
    <2>2. 1..(l + 1) - 1 = 1..l BY <1>1
    <2>3. l + 1 \in 1..l + 1 BY <1>1
    <2>4. l + 1 \in Firsts(r) <=> \A j \in 1..l : s[j].tid # op.tid
        BY <1>2, <1>3, <2>1, <2>2, <2>3 DEF Firsts
    <2> QED BY <1>1, <2>4 DEF TidsOf
<1>10. Firsts(r) = IF old THEN F ELSE F \cup {l + 1}
    <2>1. \A i \in Firsts(r) : i \in 1..l \/ i = l + 1 BY <1>1, <1>3 DEF Firsts
    <2> HIDE DEF F, old
    <2>2. \A i \in F : i \in Firsts(r) BY <1>7, <1>8
    <2>3. CASE old
        <3>1. \A i \in Firsts(r) : i \in F BY <1>8, <1>9, <2>1, <2>3
        <3> QED BY <2>2, <2>3, <3>1
    <2>4. CASE ~old
        <3>1. \A i \in Firsts(r) : i \in F \cup {l + 1} BY <1>8, <2>1
        <3>2. l + 1 \in Firsts(r) BY <1>9, <2>4
        <3> QED BY <2>2, <2>4, <3>1, <3>2
    <2> QED BY <2>3, <2>4
<1>11. op.tid \in Elems(Ids(s)) <=> old BY IdsNamed
<1> HIDE DEF old
<1>12. l + 1 \in Nat BY <1>1
<1>13. ScheduleOf(s).schedule = s /\ ScheduleOf(s).transaction_ids = Ids(s) BY <1>6
<1>14. CASE old
    <2>1. Enumerates(f, n, Firsts(r)) BY <1>5, <1>10, <1>14
    <2>2. ScheduleOf(r) = [schedule |-> r, transaction_ids |-> TidsAlong(r, f, n)]
        BY <1>4, <1>5, <1>12, <2>1, IdsAlong
    <2>3. TidsAlong(r, f, n) = TidsAlong(s, f, n) BY <1>2, <1>7 DEF TidsAlong
    <2>4. AddOperation(ScheduleOf(s), op) = [schedule |-> r, transaction_ids |-> Ids(s)]
        BY <1>11, <1>14, <1>13 DEF AddOperation, r
    <2> QED BY <1>6, <2>2, <2>3, <2>4 DEF r
<1>15. CASE ~old
    <2> DEFINE g == [k \in 1..n + 1 |-> IF k = n + 1 THEN l + 1 ELSE f[k]]
    <2>1. \A k \in 1..n : k \in 1..n + 1 /\ g[k] = f[k] /\ g[k] \in Nat /\ g[k] <= l
        BY <1>1, <1>5, <1>7
    <2>2. g[n + 1] = l + 1 /\ n + 1 \in 1..n + 1 BY <1>5
    <2>3. \A k \in 1..n + 1 : k \in 1..n \/ k = n + 1 BY <1>5
    <2>4. Enumerates(g, n + 1, F \cup {l + 1})
        <3>1. g \in [1..n + 1 -> F \cup {l + 1}] BY <1>7, <2>3
        <3>2. ASSUME NEW i \in F \cup {l + 1} PROVE \E k \in 1..n + 1 : g[k] = i
            BY <1>5, <2>1, <2>2 DEF Enumerates
        <3>3. ASSUME NEW j \in 1..n + 1, NEW k \in 1..n + 1, j < k PROVE g[j] < g[k]
            <4>1. j \in 1..n BY <1>5, <3>3
            <4>2. CASE k = n + 1
                <5> HIDE DEF g
                <5> QED BY <1>1, <2>1, <2>2, <4>1, <4>2
            <4>3. CASE k \in 1..n
                <5>1. f[j] < f[k] BY <1>5, <3>3, <4>1, <4>3 DEF Enumerates
                <5> QED BY <2>1, <4>1, <4>3, <5>1
            <4> QED BY <2>3, <4>2, <4>3
        <3> HIDE DEF g
        <3> QED BY <3>1, <3>2, <3>3 DEF Enumerates
    <2> HIDE DEF g
    <2>5. Enumerates(g, n + 1, Firsts(r)) BY <1>10, <1>15, <2>4
    <2>6. n + 1 \in Nat BY <1>5
    <2>7. ScheduleOf(r) = [schedule |-> r, transaction_ids |-> TidsAlong(r, g, n + 1)]
        BY <1>4, <1>12, <2>5, <2>6, IdsAlong
    <2>8. Ids(s) \in Seq(Tids)
        <3>1. ScheduleOf(s) \in [schedule : Seq(Operations), transaction_ids : Seq(Tids)]
            BY ScheduleOfType
        <3> QED BY <1>6, <3>1
    <2>9. TidsAlong(r, g, n + 1) = Append(Ids(s), op.tid)
        <3> DEFINE a == Append(Ids(s), op.tid)
        <3>1. op.tid \in Tids BY DEF Operations
        <3>2. Len(Ids(s)) = n BY <1>5, <1>6, <2>8, LenProperties DEF TidsAlong
        <3>3. /\ a \in Seq(Tids) /\ Len(a) = n + 1
              /\ \A k \in 1..n : a[k] = Ids(s)[k]
              /\ a[n + 1] = op.tid
            BY <2>8, <3>1, <3>2, AppendProperties
        <3>4. DOMAIN a = 1..n + 1 BY <3>3, ElemsOfSeq
        <3> HIDE DEF a
        <3>5. ASSUME NEW k \in 1..n + 1 PROVE a[k] = r[g[k]].tid
            <4>1. CASE k = n + 1 BY <1>2, <2>2, <3>3, <4>1
            <4>2. CASE k \in 1..n
                <5>1. a[k] = s[f[k]].tid BY <1>6, <3>3, <4>2 DEF TidsAlong
                <5>2. f[k] \in 1..l BY <1>7, <4>2
                <5> QED BY <1>2, <2>1, <4>2, <5>1, <5>2
            <4> QED BY <2>3, <4>1, <4>2
        <3>6. a = [k \in 1..n + 1 |-> a[k]] BY <3>3, <3>4
        <3> QED BY <3>5, <3>6 DEF TidsAlong, a
    <2>10. AddOperation(ScheduleOf(s), op) =
             [schedule |-> r, transaction_ids |-> Append(Ids(s), op.tid)]
        BY <1>11, <1>15, <1>13 DEF AddOperation, r
    <2> QED BY <2>7, <2>9, <2>10 DEF r
<1> QED BY <1>14, <1>15 DEF r

\* An object just made is that of the empty schedule.
LEMMA EmptyScheduleMatches == ScheduleOf(<<>>) = EmptySchedule
<1>1. Firsts(<<>>) = {} BY DEF Firsts
<1>2. Cardinality({}) = 0 BY FS_EmptySet
<1>3. Select(<<>>, {}) = <<>> BY <1>2 DEF Select
<1> QED BY <1>1, <1>3 DEF ScheduleOf, EmptySchedule, Firsts

-----------------------------------------------------------------------------
(* How often an operation occurs.                                           *)

Places(s, x) == {i \in DOMAIN s : s[i] = x}

LEMMA PlacesCounted ==
    ASSUME NEW S, NEW s \in Seq(S), NEW x
    PROVE  /\ IsFiniteSet(Places(s, x)) /\ Places(s, x) \subseteq 1..Len(s)
           /\ Times(s, x) = Cardinality(Places(s, x)) /\ Times(s, x) \in Nat
<1>1. Len(s) \in Nat /\ DOMAIN s = 1..Len(s) BY ElemsOfSeq
<1>2. Len(s) \in Int /\ 1 \in Int BY <1>1
<1>3. IsFiniteSet(1..Len(s)) BY <1>2, FS_Interval
<1>4. Places(s, x) \subseteq 1..Len(s) BY <1>1 DEF Places
<1>5. IsFiniteSet(Places(s, x)) BY <1>3, <1>4, FS_Subset
<1>6. Times(s, x) = Cardinality(Places(s, x)) BY DEF Times, Places
<1> QED BY <1>4, <1>5, <1>6, FS_CardinalityType

\* Two sets with a function between them that pairs their members.
LEMMA PairedUp ==
    ASSUME NEW A, NEW B, IsFiniteSet(A), NEW f \in [A -> B],
           \A a, b \in A : f[a] = f[b] => a = b,
           \A b \in B : \E a \in A : f[a] = b
    PROVE  Cardinality(A) = Cardinality(B)
<1>1. f \in Bijection(A, B) BY DEF Bijection, Injection, IsInjective, Surjection
<1>2. ExistsBijection(A, B) BY <1>1 DEF ExistsBijection
<1> QED BY <1>2, FS_Bijection

LEMMA TimesOfAppend ==
    ASSUME NEW S, NEW s \in Seq(S), NEW e \in S, NEW x
    PROVE  Times(Append(s, e), x) = Times(s, x) + (IF e = x THEN 1 ELSE 0)
<1> DEFINE n == Len(s)
           c == Append(s, e)
<1>1. n \in Nat /\ DOMAIN s = 1..n BY ElemsOfSeq
<1>2. /\ c \in Seq(S) /\ Len(c) = n + 1 /\ DOMAIN c = 1..n + 1
      /\ c[n + 1] = e /\ \A i \in 1..n : c[i] = s[i]
    BY <1>1, AppendProperties, ElemsOfSeq
<1> HIDE DEF n, c
<1>3. \A i \in 1..n + 1 : i \in 1..n \/ i = n + 1 BY <1>1
<1>4. n + 1 \notin 1..n /\ n + 1 \in 1..n + 1 /\ 1..n \subseteq 1..n + 1 BY <1>1
<1>5. Places(c, x) = IF e = x THEN Places(s, x) \cup {n + 1} ELSE Places(s, x)
    BY <1>1, <1>2, <1>3, <1>4 DEF Places
<1>6. n + 1 \notin Places(s, x) BY <1>1, <1>4 DEF Places
<1>7. Cardinality(Places(c, x)) =
         IF e = x THEN Cardinality(Places(s, x)) + 1 ELSE Cardinality(Places(s, x))
    <2>1. IsFiniteSet(Places(s, x)) BY PlacesCounted
    <2>2. Cardinality(Places(s, x) \cup {n + 1}) = Cardinality(Places(s, x)) + 1
        BY <1>6, <2>1, FS_AddElement
    <2> QED BY <1>5, <2>2
<1>8. Times(s, x) = Cardinality(Places(s, x)) /\ Times(s, x) \in Nat BY PlacesCounted
<1>9. Times(c, x) = Cardinality(Places(c, x)) BY <1>2, PlacesCounted
<1> QED BY <1>7, <1>8, <1>9 DEF c

LEMMA TimesOfEraseAt ==
    ASSUME NEW S, NEW s \in Seq(S), NEW i \in 1..Len(s), NEW x
    PROVE  Times(EraseAt(s, i), x) = Times(s, x) - (IF s[i] = x THEN 1 ELSE 0)
<1> DEFINE n == Len(s)
           c == EraseAt(s, i)
           f == [j \in Places(c, x) |-> IF j <= i - 1 THEN j ELSE j + 1]
           B == Places(s, x) \ {i}
<1>1. n \in Nat /\ i \in 1..n /\ DOMAIN s = 1..n BY ElemsOfSeq
<1>2. /\ c \in Seq(S) /\ Len(c) = n - 1
      /\ \A j \in 1..n - 1 : c[j] = IF j <= i - 1 THEN s[j] ELSE s[j + 1]
    BY EraseAtPositions
<1>3. DOMAIN c = 1..n - 1 BY <1>2, ElemsOfSeq
<1> HIDE DEF n, c
<1>4. Cardinality(Places(c, x)) = Cardinality(B)
    <2>1. IsFiniteSet(Places(c, x)) BY <1>2, PlacesCounted
    <2>2. Places(c, x) \subseteq 1..n - 1 BY <1>3 DEF Places
    <2>3. f \in [Places(c, x) -> B]
        <3>1. ASSUME NEW j \in Places(c, x)
              PROVE  (IF j <= i - 1 THEN j ELSE j + 1) \in B
            <4>1. j \in 1..n - 1 /\ c[j] = x BY <1>3 DEF Places
            <4>2. CASE j <= i - 1
                <5>1. j \in 1..n /\ j # i /\ s[j] = x BY <1>1, <1>2, <4>1, <4>2
                <5> QED BY <1>1, <4>2, <5>1 DEF Places
            <4>3. CASE ~(j <= i - 1)
                <5>1. j + 1 \in 1..n /\ j + 1 # i /\ s[j + 1] = x
                    BY <1>1, <1>2, <4>1, <4>3
                <5> QED BY <1>1, <4>3, <5>1 DEF Places
            <4> QED BY <4>2, <4>3
        <3> QED BY <3>1
    <2>4. \A j, k \in Places(c, x) : f[j] = f[k] => j = k
        <3> SUFFICES ASSUME NEW j \in Places(c, x), NEW k \in Places(c, x), f[j] = f[k]
                     PROVE  j = k
            OBVIOUS
        <3>1. j \in Int /\ k \in Int /\ i \in Int BY <1>1, <2>2
        <3>2. (IF j <= i - 1 THEN j ELSE j + 1) = (IF k <= i - 1 THEN k ELSE k + 1)
            OBVIOUS
        <3> QED BY <3>1, <3>2
    <2>5. ASSUME NEW b \in B PROVE \E j \in Places(c, x) : f[j] = b
        <3>1. b \in 1..n /\ b # i /\ s[b] = x BY <1>1 DEF Places
        <3>2. CASE b <= i - 1
            <4>1. b \in 1..n - 1 /\ c[b] = x BY <1>1, <1>2, <3>1, <3>2
            <4>2. b \in Places(c, x) BY <1>3, <4>1 DEF Places
            <4> QED BY <3>2, <4>2
        <3>3. CASE ~(b <= i - 1)
            <4>1. b - 1 \in 1..n - 1 /\ ~(b - 1 <= i - 1) /\ (b - 1) + 1 = b
                BY <1>1, <3>1, <3>3
            <4>2. c[b - 1] = x BY <1>2, <3>1, <4>1
            <4>3. b - 1 \in Places(c, x) BY <1>3, <4>1, <4>2 DEF Places
            <4>4. f[b - 1] = b BY <4>1, <4>3
            <4> QED BY <4>3, <4>4
        <3> QED BY <3>2, <3>3
    <2> HIDE DEF f, B
    <2> QED BY <2>1, <2>3, <2>4, <2>5, PairedUp
<1>5. Cardinality(B) =
         IF i \in Places(s, x) THEN Cardinality(Places(s, x)) - 1
         ELSE Cardinality(Places(s, x))
    BY PlacesCounted, FS_RemoveElement
<1>6. i \in Places(s, x) <=> s[i] = x BY <1>1 DEF Places
<1>7. Times(s, x) = Cardinality(Places(s, x)) /\ Times(s, x) \in Nat BY PlacesCounted
<1>8. Times(c, x) = Cardinality(Places(c, x)) BY <1>2, PlacesCounted
<1> HIDE DEF B
<1> QED BY <1>4, <1>5, <1>6, <1>7, <1>8 DEF c

\* Filtering out a transaction leaves what occurs of the others.
LEMMA TimesOfWithout ==
    ASSUME NEW S, NEW s \in Seq(S), NEW t, NEW x, x.tid # t
    PROVE  Times(Without(s, t), x) = Times(s, x)
<1> DEFINE K == {i \in DOMAIN s : s[i].tid # t}
           n == Cardinality(K)
           e == Enumeration(K)
           c == Without(s, t)
           f == [k \in Places(c, x) |-> e[k]]
<1>1. Len(s) \in Nat /\ DOMAIN s = 1..Len(s) BY ElemsOfSeq
<1>2. Positions(K, Len(s)) BY <1>1 DEF Positions
<1>3. n \in Nat /\ Enumerates(e, n, K) /\ Select(s, K) = Along(s, e, n)
    <2> HIDE DEF K
    <2> QED BY <1>2, SelectEnumerates
<1>4. c \in Seq(S) BY ElemsOfWithout
<1>5. DOMAIN c = 1..n /\ \A k \in 1..n : c[k] = s[e[k]] /\ e[k] \in K
    <2>1. c = Select(s, K) BY DEF Without
    <2> HIDE DEF K, n, e, c
    <2> QED BY <1>3, <2>1 DEF Along, Enumerates
<1>6. \A i \in K : \E k \in 1..n : e[k] = i BY <1>3 DEF Enumerates
<1>7. ASSUME NEW j \in 1..n, NEW k \in 1..n, e[j] = e[k] PROVE j = k
    <2>1. e[j] \in Int BY <1>1, <1>5
    <2>2. ~(j < k) /\ ~(k < j)
        <3> HIDE DEF e, n, K
        <3> QED BY <1>3, <1>7, <2>1 DEF Enumerates
    <2> HIDE DEF n
    <2> QED BY <2>2
<1>8. Places(s, x) \subseteq K BY DEF Places
<1>9. \A i \in K : i \in DOMAIN s OBVIOUS
<1> HIDE DEF K, n, e, c
<1>10. IsFiniteSet(Places(c, x)) BY <1>4, PlacesCounted
<1>11. f \in [Places(c, x) -> Places(s, x)]
    <2>1. \A k \in Places(c, x) : e[k] \in Places(s, x) BY <1>5, <1>9 DEF Places
    <2> QED BY <2>1
<1>12. \A j, k \in Places(c, x) : f[j] = f[k] => j = k BY <1>5, <1>7 DEF Places
<1>13. ASSUME NEW i \in Places(s, x) PROVE \E k \in Places(c, x) : f[k] = i
    <2>1. PICK k \in 1..n : e[k] = i BY <1>6, <1>8
    <2>2. k \in Places(c, x) BY <1>5, <2>1 DEF Places
    <2> QED BY <2>1, <2>2
<1> HIDE DEF f
<1>14. Cardinality(Places(c, x)) = Cardinality(Places(s, x))
    BY <1>10, <1>11, <1>12, <1>13, PairedUp
<1> QED BY <1>4, <1>14, PlacesCounted DEF c
=============================================================================
