--------------------------- MODULE PriQueueProofs ---------------------------
(***************************************************************************)
(* Lemmas about the priority ordered queues, for every sequence of threads *)
(* and all priorities: what insertion and removal do to the contents of a  *)
(* queue, and that they keep it in order.                                  *)
(***************************************************************************)
EXTENDS PriQueue, SequenceTheorems, FiniteSetTheorems, TLAPS

\* The priorities p never rise along q.
Sorted(q, p) == \A i, j \in 1..Len(q) : i < j => p[q[i]] >= p[q[j]]

\* The first n threads of q.
First(q, n) == {q[i] : i \in 1..n}

\* r is q with t inserted at position m.
Inserted(r, q, m, t) ==
    /\ Len(r) = Len(q) + 1
    /\ \A j \in 1..(m - 1) : r[j] = q[j]
    /\ r[m] = t
    /\ \A j \in (m + 1)..(Len(q) + 1) : r[j] = q[j - 1]
    /\ \A j \in m..Len(q) : r[j + 1] = q[j]

\* Where the element of such an r at position j comes from.
Origin(r, q, m, t, j) ==
    \/ j = m /\ r[j] = t
    \/ \E k \in 1..Len(q) : r[j] = q[k] /\ ((k < m /\ j = k) \/ (k >= m /\ j = k + 1))

\* r is q without its element at position m.
Removed(r, q, m) ==
    /\ Len(r) = Len(q) - 1
    /\ \A j \in 1..(m - 1) : r[j] = q[j]
    /\ \A j \in m..(Len(q) - 1) : r[j] = q[j + 1]
    /\ \A j \in (m + 1)..Len(q) : r[j - 1] = q[j]

\* Every nonempty set of natural numbers has a least element.
LEMMA LeastNat ==
  ASSUME NEW T \in SUBSET Nat, T # {}
  PROVE  \E m \in T : \A n \in T : m <= n
<1>1. PICK m \in T : \A n \in T : ~(<<n, m>> \in OpToRel(<, Nat))
  BY NatLessThanWellFounded, WFMin
<1>2. \A n \in T : ~(n < m)
  BY <1>1 DEF OpToRel
<1> QED
  BY <1>2

\* AtLeast finds the end of the longest prefix of priority at least n.
LEMMA AtLeastSplits ==
  ASSUME NEW S, NEW q \in Seq(S), NEW p \in [S -> Int], NEW n \in Int
  PROVE  /\ AtLeast(q, p, n) \in 0..Len(q)
         /\ \A i \in 1..AtLeast(q, p, n) : p[q[i]] >= n
         /\ AtLeast(q, p, n) < Len(q) => p[q[AtLeast(q, p, n) + 1]] < n
<1> DEFINE P == {i \in DOMAIN q : \A j \in 1..i : p[q[j]] >= n}
           Bad == {j \in 1..Len(q) : p[q[j]] < n}
<1>1. /\ Len(q) \in Nat /\ DOMAIN q = 1..Len(q)
      /\ \A i \in 1..Len(q) : q[i] \in S /\ p[q[i]] \in Int
  BY LenProperties, ElementOfSeq
<1>2. AtLeast(q, p, n) = Cardinality(P)
  BY DEF AtLeast
<1> HIDE DEF P, Bad
<1>3. CASE Bad = {}
  <2>1. P = 1..Len(q)
    BY <1>1, <1>3 DEF P, Bad
  <2>2. Cardinality(P) = Len(q)
    <3>1. Cardinality(1..Len(q)) = IF 1 > Len(q) THEN 0 ELSE Len(q) - 1 + 1
      BY <1>1, FS_Interval
    <3> QED
      BY <1>1, <2>1, <3>1
  <2>3. \A i \in 1..Len(q) : p[q[i]] >= n
    BY <1>1, <1>3 DEF Bad
  <2> QED
    BY <1>1, <1>2, <2>2, <2>3
<1>4. CASE Bad # {}
  <2>1. Bad \in SUBSET Nat
    BY <1>1 DEF Bad
  <2>2. PICK b \in Bad : \A j \in Bad : b <= j
    BY <1>4, <2>1, LeastNat
  <2>3. b \in 1..Len(q) /\ p[q[b]] < n /\ \A j \in 1..(b - 1) : p[q[j]] >= n
    BY <1>1, <2>2 DEF Bad
  <2>4. P = 1..(b - 1)
    BY <1>1, <2>3 DEF P
  <2>5. Cardinality(P) = b - 1
    BY <1>1, <2>3, <2>4, FS_Interval
  <2> QED
    BY <1>1, <1>2, <2>3, <2>5
<1> QED
  BY <1>3, <1>4

\* The elements of a sequence with e inserted at position i.
LEMMA InsertAtElements ==
  ASSUME NEW S, NEW q \in Seq(S), NEW e \in S, NEW i \in 1..(Len(q) + 1)
  PROVE  InsertAt(q, i, e) \in Seq(S) /\ Inserted(InsertAt(q, i, e), q, i, e)
<1> DEFINE L == SubSeq(q, 1, i - 1)
           R == SubSeq(q, i, Len(q))
<1>1. /\ Len(q) \in Nat
      /\ \A j \in 1..Len(q) : q[j] \in S
  BY LenProperties, ElementOfSeq
<1>2. /\ L \in Seq(S) /\ Len(L) = i - 1
      /\ \A j \in 1..(i - 1) : L[j] = q[j]
  BY <1>1, SubSeqProperties
<1>3. /\ R \in Seq(S) /\ Len(R) = Len(q) - i + 1
      /\ \A j \in 1..(Len(q) - i + 1) : R[j] = q[i + j - 1]
  BY <1>1, SubSeqProperties
<1>4. InsertAt(q, i, e) = (L \o <<e>>) \o R
  BY DEF InsertAt
<1> HIDE DEF L, R
<1>5. <<e>> \in Seq(S) /\ Len(<<e>>) = 1 /\ <<e>>[1] = e
  OBVIOUS
<1> DEFINE M == L \o <<e>>
<1>6. /\ M \in Seq(S) /\ Len(M) = i
      /\ \A j \in 1..(i - 1) : M[j] = q[j]
      /\ M[i] = e
  BY <1>1, <1>2, <1>5, ConcatProperties
<1> HIDE DEF M
<1>7. /\ M \o R \in Seq(S) /\ Len(M \o R) = Len(M) + Len(R)
      /\ \A j \in 1..(Len(M) + Len(R)) :
            (M \o R)[j] = IF j <= Len(M) THEN M[j] ELSE R[j - Len(M)]
  BY <1>3, <1>6, ConcatProperties
<1>8. Len(M \o R) = Len(q) + 1
  BY <1>1, <1>3, <1>6, <1>7
<1>9. ASSUME NEW j \in 1..i PROVE (M \o R)[j] = M[j]
  BY <1>1, <1>3, <1>6, <1>7
<1>10. ASSUME NEW j \in (i + 1)..(Len(q) + 1) PROVE (M \o R)[j] = q[j - 1]
  <2>1. (M \o R)[j] = R[j - i]
    BY <1>1, <1>3, <1>6, <1>7
  <2>2. j - i \in 1..(Len(q) - i + 1) /\ i + (j - i) - 1 = j - 1
    BY <1>1
  <2> QED
    BY <1>3, <2>1, <2>2
<1>11. ASSUME NEW j \in i..Len(q) PROVE (M \o R)[j + 1] = q[j]
  <2>1. j + 1 \in (i + 1)..(Len(q) + 1) /\ (j + 1) - 1 = j
    BY <1>1
  <2>2. (M \o R)[j + 1] = q[(j + 1) - 1]
    BY <1>10, <2>1
  <2> QED
    BY <2>1, <2>2
<1>12. InsertAt(q, i, e) = M \o R
  BY <1>4 DEF M
<1> QED
  BY <1>1, <1>6, <1>7, <1>8, <1>9, <1>10, <1>11, <1>12 DEF Inserted
\* The elements of a sequence without its element at position i.
LEMMA RemoveAtElements ==
  ASSUME NEW S, NEW q \in Seq(S), NEW i \in 1..Len(q)
  PROVE  RemoveAt(q, i) \in Seq(S) /\ Removed(RemoveAt(q, i), q, i)
<1> DEFINE L == SubSeq(q, 1, i - 1)
           R == SubSeq(q, i + 1, Len(q))
<1>1. /\ Len(q) \in Nat
      /\ \A j \in 1..Len(q) : q[j] \in S
  BY LenProperties, ElementOfSeq
<1>2. /\ L \in Seq(S) /\ Len(L) = i - 1
      /\ \A j \in 1..(i - 1) : L[j] = q[j]
  BY <1>1, SubSeqProperties
<1>3. /\ R \in Seq(S) /\ Len(R) = Len(q) - i
      /\ \A j \in 1..(Len(q) - i) : R[j] = q[i + j]
  BY <1>1, SubSeqProperties
<1>4. RemoveAt(q, i) = L \o R
  BY DEF RemoveAt
<1> HIDE DEF L, R
<1>5. /\ L \o R \in Seq(S) /\ Len(L \o R) = Len(L) + Len(R)
      /\ \A j \in 1..(Len(L) + Len(R)) :
            (L \o R)[j] = IF j <= Len(L) THEN L[j] ELSE R[j - Len(L)]
  BY <1>2, <1>3, ConcatProperties
<1>6. Len(L \o R) = Len(q) - 1
  BY <1>1, <1>2, <1>3, <1>5
<1>7. ASSUME NEW j \in 1..(i - 1) PROVE (L \o R)[j] = q[j]
  BY <1>1, <1>2, <1>3, <1>5
<1>8. ASSUME NEW j \in i..(Len(q) - 1) PROVE (L \o R)[j] = q[j + 1]
  <2>1. (L \o R)[j] = R[j - (i - 1)]
    BY <1>1, <1>2, <1>3, <1>5
  <2>2. j - (i - 1) \in 1..(Len(q) - i) /\ i + (j - (i - 1)) = j + 1
    BY <1>1
  <2> QED
    BY <1>3, <2>1, <2>2
<1>9. ASSUME NEW j \in (i + 1)..Len(q) PROVE (L \o R)[j - 1] = q[j]
  <2>1. j - 1 \in i..(Len(q) - 1) /\ (j - 1) + 1 = j
    BY <1>1
  <2>2. (L \o R)[j - 1] = q[(j - 1) + 1]
    BY <1>8, <2>1
  <2> QED
    BY <2>1, <2>2
<1> QED
  BY <1>4, <1>5, <1>6, <1>7, <1>8, <1>9 DEF Removed

----------------------------------------------------------------------------
\* Insert puts t behind the last thread that is at least as urgent.
LEMMA InsertElements ==
  ASSUME NEW S, NEW q \in Seq(S), NEW t \in S, NEW p \in [S -> Int]
  PROVE  \E m \in 1..(Len(q) + 1) :
            /\ Insert(q, t, p) = InsertAt(q, m, t)
            /\ \A i \in 1..(m - 1) : p[q[i]] >= p[t]
            /\ m <= Len(q) => p[q[m]] < p[t]
<1> DEFINE k == AtLeast(q, p, p[t])
<1>1. /\ k \in 0..Len(q)
      /\ \A i \in 1..k : p[q[i]] >= p[t]
      /\ k < Len(q) => p[q[k + 1]] < p[t]
  BY AtLeastSplits
<1>2. Insert(q, t, p) = InsertAt(q, k + 1, t)
  BY DEF Insert
<1>3. Len(q) \in Nat
  BY LenProperties
<1> HIDE DEF k
<1>4. k + 1 \in 1..(Len(q) + 1) /\ (k + 1) - 1 = k /\ (k + 1 <= Len(q) => k < Len(q))
  BY <1>1, <1>3
<1> QED
  BY <1>1, <1>2, <1>4

\* Where the elements of a queue with an insertion come from.
LEMMA InsertedOrigin ==
  ASSUME NEW S, NEW q \in Seq(S), NEW r, NEW t, NEW m \in 1..(Len(q) + 1),
         Inserted(r, q, m, t), NEW j \in 1..(Len(q) + 1)
  PROVE  Origin(r, q, m, t, j)
<1>1. Len(q) \in Nat
  BY LenProperties
<1>2. CASE j < m
  <2>1. j \in 1..(m - 1) /\ j \in 1..Len(q)
    BY <1>1, <1>2
  <2>2. r[j] = q[j]
    BY <2>1 DEF Inserted
  <2> QED
    BY <1>2, <2>1, <2>2 DEF Origin
<1>3. CASE j > m
  <2>1. /\ j \in (m + 1)..(Len(q) + 1) /\ j - 1 \in 1..Len(q)
        /\ j - 1 >= m /\ j = (j - 1) + 1
    BY <1>1, <1>3
  <2> QED
    BY <2>1 DEF Inserted, Origin
<1> QED
  BY <1>1, <1>2, <1>3 DEF Inserted, Origin

\* Insert adds t to the queue, once.
LEMMA InsertContents ==
  ASSUME NEW S, NEW q \in Seq(S), NEW t \in S, NEW p \in [S -> Int]
  PROVE  /\ Insert(q, t, p) \in Seq(S)
         /\ Len(Insert(q, t, p)) = Len(q) + 1
         /\ ToSet(Insert(q, t, p)) = ToSet(q) \cup {t}
         /\ IsInjective(q) /\ t \notin ToSet(q) => IsInjective(Insert(q, t, p))
<1> DEFINE r == Insert(q, t, p)
<1>1. PICK m \in 1..(Len(q) + 1) : r = InsertAt(q, m, t)
  BY InsertElements
<1>2. Len(q) \in Nat /\ DOMAIN q = 1..Len(q)
  BY LenProperties
<1> HIDE DEF r
<1>3. r \in Seq(S) /\ Inserted(r, q, m, t)
  BY <1>1, InsertAtElements
<1>4. DOMAIN r = 1..(Len(q) + 1)
  BY <1>3, LenProperties DEF Inserted
<1>5. ToSet(r) = ToSet(q) \cup {t}
  <2>1. ASSUME NEW j \in 1..(Len(q) + 1) PROVE r[j] \in ToSet(q) \cup {t}
    <3>1. (\E i \in 1..Len(q) : r[j] = q[i]) \/ r[j] = t
      BY <1>3, InsertedOrigin DEF Origin
    <3> QED
      BY <1>2, <3>1 DEF ToSet
  <2>2. ASSUME NEW j \in 1..Len(q) PROVE q[j] \in ToSet(r)
    <3>1. CASE j < m
      <4>1. j \in 1..(m - 1) /\ j \in 1..(Len(q) + 1)
        BY <1>2, <3>1
      <4>2. r[j] = q[j]
        BY <1>3, <4>1 DEF Inserted
      <4> QED
        BY <1>4, <4>1, <4>2 DEF ToSet
    <3>2. CASE j >= m
      <4>1. j \in m..Len(q) /\ j + 1 \in 1..(Len(q) + 1)
        BY <1>2, <3>2
      <4>2. r[j + 1] = q[j]
        BY <1>3, <4>1 DEF Inserted
      <4> QED
        BY <1>4, <4>1, <4>2 DEF ToSet
    <3> QED
      BY <1>2, <3>1, <3>2
  <2>3. t \in ToSet(r)
    BY <1>3, <1>4 DEF ToSet, Inserted
  <2> QED
    BY <1>2, <1>4, <2>1, <2>2, <2>3 DEF ToSet
<1>6. ASSUME IsInjective(q), t \notin ToSet(q) PROVE IsInjective(r)
  <2>1. \A i \in 1..Len(q) : q[i] # t
    BY <1>2, <1>6 DEF ToSet
  <2>2. \A i, j \in 1..Len(q) : q[i] = q[j] => i = j
    BY <1>2, <1>6 DEF IsInjective
  <2>3. ASSUME NEW i \in 1..(Len(q) + 1), NEW j \in 1..(Len(q) + 1), i < j PROVE r[i] # r[j]
    <3>1. Origin(r, q, m, t, i)
      BY <1>3, InsertedOrigin
    <3>2. Origin(r, q, m, t, j)
      BY <1>3, InsertedOrigin
    <3> QED
      BY <1>2, <2>1, <2>2, <2>3, <3>1, <3>2 DEF Origin
  <2>4. \A i, j \in 1..(Len(q) + 1) : r[i] = r[j] => i = j
    BY <1>2, <2>3
  <2> QED
    BY <1>4, <2>4 DEF IsInjective
<1> QED
  BY <1>3, <1>5, <1>6 DEF r, Inserted

\* Insert keeps the queue in order.
LEMMA InsertSorted ==
  ASSUME NEW S, NEW q \in Seq(S), NEW t \in S, NEW p \in [S -> Int], Sorted(q, p)
  PROVE  Sorted(Insert(q, t, p), p)
<1> DEFINE r == Insert(q, t, p)
<1>1. PICK m \in 1..(Len(q) + 1) :
            /\ r = InsertAt(q, m, t)
            /\ \A i \in 1..(m - 1) : p[q[i]] >= p[t]
            /\ m <= Len(q) => p[q[m]] < p[t]
  BY InsertElements
<1>2. /\ Len(q) \in Nat
      /\ \A i \in 1..Len(q) : p[q[i]] \in Int
      /\ p[t] \in Int
  BY LenProperties, ElementOfSeq
<1> HIDE DEF r
<1>3. r \in Seq(S) /\ Inserted(r, q, m, t)
  BY <1>1, InsertAtElements
<1>5. \A i, j \in 1..Len(q) : i < j => p[q[i]] >= p[q[j]]
  BY DEF Sorted
<1>6. ASSUME NEW j \in m..Len(q) PROVE p[q[j]] <= p[t]
  <2>1. m \in 1..Len(q) /\ j \in 1..Len(q) /\ (m = j \/ m < j)
    BY <1>2
  <2>2. p[q[j]] <= p[q[m]]
    BY <1>2, <1>5, <2>1
  <2> QED
    BY <1>1, <1>2, <2>1, <2>2
<1>7. ASSUME NEW i \in 1..(Len(q) + 1), NEW j \in 1..(Len(q) + 1), i < j
      PROVE  p[r[i]] >= p[r[j]]
  <2>1. Origin(r, q, m, t, i)
    BY <1>3, InsertedOrigin
  <2>2. Origin(r, q, m, t, j)
    BY <1>3, InsertedOrigin
  <2>3. CASE i = m /\ r[i] = t
    <3>1. PICK k \in 1..Len(q) : r[j] = q[k] /\ ((k < m /\ j = k) \/ (k >= m /\ j = k + 1))
      BY <1>7, <2>2, <2>3 DEF Origin
    <3>2. k \in m..Len(q)
      BY <1>2, <1>7, <2>3, <3>1
    <3> QED
      BY <1>2, <1>6, <2>3, <3>1, <3>2
  <2>4. CASE \E k \in 1..Len(q) : r[i] = q[k] /\ ((k < m /\ i = k) \/ (k >= m /\ i = k + 1))
    <3>1. PICK k \in 1..Len(q) : r[i] = q[k] /\ ((k < m /\ i = k) \/ (k >= m /\ i = k + 1))
      BY <2>4
    <3>2. CASE j = m /\ r[j] = t
      <4>1. k \in 1..(m - 1)
        BY <1>2, <1>7, <3>1, <3>2
      <4> QED
        BY <1>1, <3>1, <3>2, <4>1
    <3>3. CASE \E h \in 1..Len(q) : r[j] = q[h] /\ ((h < m /\ j = h) \/ (h >= m /\ j = h + 1))
      <4>1. PICK h \in 1..Len(q) : r[j] = q[h] /\ ((h < m /\ j = h) \/ (h >= m /\ j = h + 1))
        BY <3>3
      <4>2. k < h
        BY <1>2, <1>7, <3>1, <4>1
      <4> QED
        BY <1>5, <3>1, <4>1, <4>2
    <3> QED
      BY <2>2, <3>2, <3>3 DEF Origin
  <2> QED
    BY <2>1, <2>3, <2>4 DEF Origin
<1>8. Sorted(r, p)
  BY <1>3, <1>7 DEF Sorted, Inserted
<1> QED
  BY <1>8 DEF r
----------------------------------------------------------------------------
\* Without one of its elements a queue loses that thread and stays in order.
LEMMA RemovedContents ==
  ASSUME NEW S, NEW q \in Seq(S), IsInjective(q), NEW m \in 1..Len(q),
         NEW r \in Seq(S), Removed(r, q, m)
  PROVE  /\ ToSet(r) = ToSet(q) \ {q[m]}
         /\ IsInjective(r)
         /\ \A p : Sorted(q, p) => Sorted(r, p)
<1>1. /\ Len(q) \in Nat /\ DOMAIN q = 1..Len(q)
      /\ Len(r) = Len(q) - 1 /\ DOMAIN r = 1..(Len(q) - 1)
  BY LenProperties DEF Removed
<1>2. \A i, j \in 1..Len(q) : q[i] = q[j] => i = j
  BY <1>1 DEF IsInjective
<1>3. ASSUME NEW j \in 1..(Len(q) - 1)
      PROVE  \E k \in 1..Len(q) : r[j] = q[k] /\ ((k < m /\ j = k) \/ (k > m /\ j = k - 1))
  <2>1. CASE j < m
    <3>1. j \in 1..(m - 1) /\ j \in 1..Len(q)
      BY <1>1, <2>1
    <3>2. r[j] = q[j]
      BY <3>1 DEF Removed
    <3> QED
      BY <2>1, <3>1, <3>2
  <2>2. CASE j >= m
    <3>1. j \in m..(Len(q) - 1) /\ j + 1 \in 1..Len(q) /\ j + 1 > m /\ j = (j + 1) - 1
      BY <1>1, <2>2
    <3>2. r[j] = q[j + 1]
      BY <3>1 DEF Removed
    <3> QED
      BY <3>1, <3>2
  <2> QED
    BY <1>1, <2>1, <2>2
<1>4. ASSUME NEW k \in 1..Len(q), k # m PROVE \E j \in 1..(Len(q) - 1) : r[j] = q[k]
  <2>1. CASE k < m
    <3>1. k \in 1..(m - 1) /\ k \in 1..(Len(q) - 1)
      BY <1>1, <2>1
    <3> QED
      BY <3>1 DEF Removed
  <2>2. CASE k > m
    <3>1. k \in (m + 1)..Len(q) /\ k - 1 \in 1..(Len(q) - 1)
      BY <1>1, <2>2
    <3> QED
      BY <3>1 DEF Removed
  <2>3. k < m \/ k > m
    BY <1>1, <1>4
  <2> QED
    BY <2>1, <2>2, <2>3
<1>5. ToSet(r) = ToSet(q) \ {q[m]}
  <2>1. ASSUME NEW x \in ToSet(r) PROVE x \in ToSet(q) \ {q[m]}
    <3>1. PICK j \in 1..(Len(q) - 1) : x = r[j]
      BY <1>1 DEF ToSet
    <3>2. PICK k \in 1..Len(q) : x = q[k] /\ (k < m \/ k > m)
      BY <1>3, <3>1
    <3> QED
      BY <1>1, <1>2, <3>2 DEF ToSet
  <2>2. ASSUME NEW x \in ToSet(q) \ {q[m]} PROVE x \in ToSet(r)
    <3>1. PICK k \in 1..Len(q) : x = q[k] /\ k # m
      BY <1>1 DEF ToSet
    <3> QED
      BY <1>1, <1>4, <3>1 DEF ToSet
  <2> QED
    BY <2>1, <2>2
<1>6. ASSUME NEW i \in 1..(Len(q) - 1), NEW j \in 1..(Len(q) - 1), i < j
      PROVE  \E k, l \in 1..Len(q) : r[i] = q[k] /\ r[j] = q[l] /\ k < l
  <2>1. PICK k \in 1..Len(q) : r[i] = q[k] /\ ((k < m /\ i = k) \/ (k > m /\ i = k - 1))
    BY <1>3
  <2>2. PICK l \in 1..Len(q) : r[j] = q[l] /\ ((l < m /\ j = l) \/ (l > m /\ j = l - 1))
    BY <1>3
  <2>3. k < l
    BY <1>1, <1>6, <2>1, <2>2
  <2> QED
    BY <2>1, <2>2, <2>3
<1>7. \A i, j \in 1..(Len(q) - 1) : r[i] = r[j] => i = j
  <2>1. \A i, j \in 1..(Len(q) - 1) : i < j => r[i] # r[j]
    <3> SUFFICES ASSUME NEW i \in 1..(Len(q) - 1), NEW j \in 1..(Len(q) - 1), i < j
                 PROVE  r[i] # r[j]
      OBVIOUS
    <3>1. PICK k, l \in 1..Len(q) : r[i] = q[k] /\ r[j] = q[l] /\ k < l
      BY <1>6
    <3>2. k # l
      BY <3>1
    <3> QED
      BY <1>2, <3>1, <3>2
  <2>2. \A i, j \in 1..(Len(q) - 1) : i < j \/ j < i \/ i = j
    BY <1>1
  <2> QED
    BY <2>1, <2>2
<1>8. IsInjective(r)
  BY <1>1, <1>7 DEF IsInjective
<1>9. ASSUME NEW p, Sorted(q, p) PROVE Sorted(r, p)
  BY <1>1, <1>6, <1>9 DEF Sorted
<1> QED
  BY <1>5, <1>8, <1>9

\* Dequeue takes t out of the queue and keeps the others in order.
LEMMA DequeueContents ==
  ASSUME NEW S, NEW q \in Seq(S), IsInjective(q), NEW t
  PROVE  /\ Dequeue(q, t) \in Seq(S)
         /\ ToSet(Dequeue(q, t)) = ToSet(q) \ {t}
         /\ IsInjective(Dequeue(q, t))
         /\ \A p : Sorted(q, p) => Sorted(Dequeue(q, t), p)
<1>1. CASE t \in ToSet(q)
  <2> DEFINE m == CHOOSE i \in DOMAIN q : q[i] = t
  <2>1. m \in DOMAIN q /\ q[m] = t
    BY <1>1 DEF ToSet
  <2>2. Dequeue(q, t) = RemoveAt(q, m)
    BY <1>1 DEF Dequeue
  <2> HIDE DEF m
  <2>3. m \in 1..Len(q)
    BY <2>1, LenProperties
  <2>4. RemoveAt(q, m) \in Seq(S) /\ Removed(RemoveAt(q, m), q, m)
    BY <2>3, RemoveAtElements
  <2> QED
    BY <2>1, <2>2, <2>3, <2>4, RemovedContents
<1>2. CASE t \notin ToSet(q)
  BY <1>2 DEF Dequeue
<1> QED
  BY <1>1, <1>2

\* A queue stays in order when its threads keep their priorities.
LEMMA SortedAgree ==
  ASSUME NEW S, NEW q \in Seq(S), NEW p, NEW pp, Sorted(q, p),
         \A x \in ToSet(q) : pp[x] = p[x]
  PROVE  Sorted(q, pp)
<1>1. DOMAIN q = 1..Len(q)
  BY LenProperties
<1>2. \A i \in 1..Len(q) : pp[q[i]] = p[q[i]]
  BY <1>1 DEF ToSet
<1> QED
  BY <1>2 DEF Sorted

\* Requeue keeps the threads of the queue.
LEMMA RequeueContents ==
  ASSUME NEW S, NEW q \in Seq(S), IsInjective(q), NEW t \in S, NEW p \in [S -> Int]
  PROVE  /\ Requeue(q, t, p) \in Seq(S)
         /\ ToSet(Requeue(q, t, p)) = ToSet(q)
         /\ IsInjective(Requeue(q, t, p))
<1>1. CASE t \in ToSet(q)
  <2> DEFINE d == Dequeue(q, t)
  <2>1. d \in Seq(S) /\ ToSet(d) = ToSet(q) \ {t} /\ IsInjective(d)
    BY DequeueContents
  <2>2. Requeue(q, t, p) = Insert(d, t, p)
    BY <1>1 DEF Requeue
  <2> HIDE DEF d
  <2>3. t \notin ToSet(d) /\ ToSet(d) \cup {t} = ToSet(q)
    BY <1>1, <2>1
  <2>4. /\ Insert(d, t, p) \in Seq(S)
        /\ ToSet(Insert(d, t, p)) = ToSet(d) \cup {t}
        /\ IsInjective(d) /\ t \notin ToSet(d) => IsInjective(Insert(d, t, p))
    <3>1. Insert(d, t, p) \in Seq(S)
      BY <2>1, InsertContents
    <3>2. ToSet(Insert(d, t, p)) = ToSet(d) \cup {t}
      BY <2>1, InsertContents
    <3>3. IsInjective(d) /\ t \notin ToSet(d) => IsInjective(Insert(d, t, p))
      BY <2>1, InsertContents
    <3> QED
      BY <3>1, <3>2, <3>3
  <2> QED
    BY <2>1, <2>2, <2>3, <2>4
<1>2. CASE t \notin ToSet(q)
  BY <1>2 DEF Requeue
<1> QED
  BY <1>1, <1>2

\* Requeue restores the order after the priority of t has changed.
LEMMA RequeueSorted ==
  ASSUME NEW S, NEW q \in Seq(S), IsInjective(q), NEW t \in S,
         NEW p \in [S -> Int], NEW pp \in [S -> Int], Sorted(q, p),
         \A x \in S \ {t} : pp[x] = p[x]
  PROVE  Sorted(Requeue(q, t, pp), pp)
<1>1. ToSet(q) \subseteq S
  BY LenProperties, ElementOfSeq DEF ToSet
<1>2. CASE t \in ToSet(q)
  <2> DEFINE d == Dequeue(q, t)
  <2>1. d \in Seq(S) /\ ToSet(d) = ToSet(q) \ {t} /\ Sorted(d, p)
    BY DequeueContents
  <2>2. Requeue(q, t, pp) = Insert(d, t, pp)
    BY <1>2 DEF Requeue
  <2> HIDE DEF d
  <2>3. \A x \in ToSet(d) : pp[x] = p[x]
    BY <1>1, <2>1
  <2>4. Sorted(d, pp)
    BY <2>1, <2>3, SortedAgree
  <2> QED
    BY <2>1, <2>2, <2>4, InsertSorted
<1>3. CASE t \notin ToSet(q)
  <2>1. \A x \in ToSet(q) : pp[x] = p[x]
    BY <1>1, <1>3
  <2> QED
    BY <1>3, <2>1, SortedAgree DEF Requeue
<1> QED
  BY <1>2, <1>3

\* Without its first n elements a queue loses those threads and stays in order.
LEMMA SuffixContents ==
  ASSUME NEW S, NEW q \in Seq(S), IsInjective(q), NEW n \in 0..Len(q),
         NEW r, r = SubSeq(q, n + 1, Len(q))
  PROVE  /\ r \in Seq(S)
         /\ Len(r) = Len(q) - n
         /\ ToSet(r) = ToSet(q) \ {q[i] : i \in 1..n}
         /\ IsInjective(r)
         /\ \A p : Sorted(q, p) => Sorted(r, p)
<1>1. /\ Len(q) \in Nat /\ DOMAIN q = 1..Len(q)
      /\ \A i \in 1..Len(q) : q[i] \in S
  BY LenProperties, ElementOfSeq
<1>2. \A i, j \in 1..Len(q) : q[i] = q[j] => i = j
  BY <1>1 DEF IsInjective
<1>3. /\ r \in Seq(S) /\ Len(r) = Len(q) - n
      /\ \A j \in 1..(Len(q) - n) : r[j] = q[n + j]
  <2>1. n + 1 \in Int /\ Len(q) \in Int /\ \A i \in (n + 1)..Len(q) : q[i] \in S
    BY <1>1
  <2>2. /\ SubSeq(q, n + 1, Len(q)) \in Seq(S)
        /\ Len(SubSeq(q, n + 1, Len(q))) = IF n + 1 <= Len(q) THEN Len(q) - (n + 1) + 1 ELSE 0
        /\ \A i \in 1..(Len(q) - (n + 1) + 1) : SubSeq(q, n + 1, Len(q))[i] = q[(n + 1) + i - 1]
    BY <2>1, SubSeqProperties
  <2>3. ASSUME NEW j \in 1..(Len(q) - n) PROVE r[j] = q[n + j]
    <3>1. j \in 1..(Len(q) - (n + 1) + 1) /\ (n + 1) + j - 1 = n + j
      BY <1>1
    <3> QED
      BY <2>2, <3>1
  <2> QED
    BY <1>1, <2>2, <2>3
<1>4. DOMAIN r = 1..(Len(q) - n)
  BY <1>3, LenProperties
<1>5. ASSUME NEW j \in 1..(Len(q) - n) PROVE \E k \in 1..Len(q) : r[j] = q[k] /\ k = n + j
  <2>1. n + j \in 1..Len(q)
    BY <1>1
  <2> QED
    BY <1>3, <2>1
<1>6. ASSUME NEW k \in 1..Len(q), k > n PROVE \E j \in 1..(Len(q) - n) : r[j] = q[k]
  <2>1. k - n \in 1..(Len(q) - n) /\ n + (k - n) = k
    BY <1>1, <1>6
  <2> QED
    BY <1>3, <2>1
<1>7. ToSet(r) = ToSet(q) \ {q[i] : i \in 1..n}
  <2>1. ASSUME NEW x \in ToSet(r) PROVE x \in ToSet(q) /\ \A i \in 1..n : x # q[i]
    <3>1. PICK j \in 1..(Len(q) - n) : x = r[j]
      BY <1>4 DEF ToSet
    <3>2. PICK k \in 1..Len(q) : x = q[k] /\ k > n
      BY <1>1, <1>5, <3>1
    <3>3. \A i \in 1..n : i \in 1..Len(q) /\ i # k
      BY <1>1, <3>2
    <3> QED
      BY <1>1, <1>2, <3>2, <3>3 DEF ToSet
  <2>2. ASSUME NEW x \in ToSet(q), \A i \in 1..n : x # q[i] PROVE x \in ToSet(r)
    <3>1. PICK k \in 1..Len(q) : x = q[k]
      BY <1>1 DEF ToSet
    <3>2. k > n
      BY <1>1, <2>2, <3>1
    <3> QED
      BY <1>4, <1>6, <3>1, <3>2 DEF ToSet
  <2> QED
    BY <2>1, <2>2
<1>8. ASSUME NEW i \in 1..(Len(q) - n), NEW j \in 1..(Len(q) - n), i < j
      PROVE  \E k, l \in 1..Len(q) : r[i] = q[k] /\ r[j] = q[l] /\ k < l
  <2>1. PICK k \in 1..Len(q) : r[i] = q[k] /\ k = n + i
    BY <1>5
  <2>2. PICK l \in 1..Len(q) : r[j] = q[l] /\ l = n + j
    BY <1>5
  <2>3. k < l
    BY <1>1, <1>8, <2>1, <2>2
  <2> QED
    BY <2>1, <2>2, <2>3
<1>9. \A i, j \in 1..(Len(q) - n) : r[i] = r[j] => i = j
  BY <1>1, <1>2, <1>8
<1>10. IsInjective(r)
  BY <1>4, <1>9 DEF IsInjective
<1>11. ASSUME NEW p, Sorted(q, p) PROVE Sorted(r, p)
  <2>1. \A k, l \in 1..Len(q) : k < l => p[q[k]] >= p[q[l]]
    BY <1>11 DEF Sorted
  <2>2. ASSUME NEW i \in 1..(Len(q) - n), NEW j \in 1..(Len(q) - n), i < j
        PROVE  p[r[i]] >= p[r[j]]
    BY <1>8, <2>1, <2>2
  <2> QED
    BY <1>3, <2>2 DEF Sorted
<1> QED
  BY <1>3, <1>7, <1>10, <1>11

\* r is q without its first n elements.
Suffixed(r, q, n) == /\ Len(r) = Len(q) - n
                     /\ ToSet(r) = ToSet(q) \ First(q, n)
                     /\ \A j \in 1..(Len(q) - n) : r[j] = q[n + j]

\* Where the elements of such a queue come from.
LEMMA SuffixPlaces ==
  ASSUME NEW S, NEW q \in Seq(S), IsInjective(q), NEW m \in 0..Len(q)
  PROVE  SubSeq(q, m + 1, Len(q)) \in Seq(S) /\ Suffixed(SubSeq(q, m + 1, Len(q)), q, m)
<1> SUFFICES ASSUME NEW r, r = SubSeq(q, m + 1, Len(q)) PROVE r \in Seq(S) /\ Suffixed(r, q, m)
  OBVIOUS
<1>1. Len(q) \in Nat /\ DOMAIN q = 1..Len(q)
  BY LenProperties
<1>2. /\ r \in Seq(S)
      /\ Len(r) = Len(q) - m
      /\ ToSet(r) = ToSet(q) \ {q[i] : i \in 1..m}
      /\ IsInjective(r)
      /\ \A p : Sorted(q, p) => Sorted(r, p)
  <2>1. SubSeq(q, m + 1, Len(q)) = r
    OBVIOUS
  <2> QED
    BY <2>1, SuffixContents, Zenon
<1>3. \A i \in 1..(Len(q) - (m + 1) + 1) : r[i] = q[(m + 1) + i - 1]
  BY <1>1, SubSeqProperties
<1>4. Len(q) - (m + 1) + 1 = Len(q) - m /\ \A i \in 1..(Len(q) - m) : (m + 1) + i - 1 = m + i
  BY <1>1
<1> QED
  BY <1>2, <1>3, <1>4 DEF First, Suffixed

\* A wakeup of the first thread takes one of the highest priority.
LEMMA TailContents ==
  ASSUME NEW S, NEW q \in Seq(S), IsInjective(q), q # <<>>
  PROVE  /\ Tail(q) \in Seq(S)
         /\ Len(Tail(q)) = Len(q) - 1
         /\ Head(q) \in ToSet(q)
         /\ ToSet(Tail(q)) = ToSet(q) \ {Head(q)}
         /\ IsInjective(Tail(q))
         /\ \A p : Sorted(q, p) => Sorted(Tail(q), p)
<1>1. Len(q) \in Nat \ {0} /\ DOMAIN q = 1..Len(q)
  BY EmptySeq, LenProperties
<1>2. Tail(q) = SubSeq(q, 1 + 1, Len(q))
  BY TailIsSubSeq
<1>3. 1 \in 0..Len(q) /\ 1 \in DOMAIN q /\ Head(q) = q[1]
  BY <1>1
<1>4. {q[i] : i \in 1..1} = {Head(q)}
  BY <1>3
<1>5. /\ Tail(q) \in Seq(S)
      /\ Len(Tail(q)) = Len(q) - 1
      /\ ToSet(Tail(q)) = ToSet(q) \ {q[i] : i \in 1..1}
      /\ IsInjective(Tail(q))
      /\ \A p : Sorted(q, p) => Sorted(Tail(q), p)
  BY <1>2, <1>3, SuffixContents
<1>6. Head(q) \in ToSet(q)
  BY <1>3 DEF ToSet
<1> QED
  BY <1>4, <1>5, <1>6

\* No thread of an ordered queue has a higher priority than its first.
LEMMA HeadHighest ==
  ASSUME NEW S, NEW q \in Seq(S), NEW p \in [S -> Int], Sorted(q, p), q # <<>>
  PROVE  \A t \in ToSet(q) : p[Head(q)] >= p[t]
<1>1. Len(q) \in Nat \ {0} /\ DOMAIN q = 1..Len(q) /\ Head(q) = q[1]
  BY EmptySeq, LenProperties
<1>2. \A i \in 1..Len(q) : p[q[i]] \in Int
  BY ElementOfSeq
<1>3. \A i \in 1..Len(q) : p[q[1]] >= p[q[i]]
  BY <1>1, <1>2 DEF Sorted
<1> QED
  BY <1>1, <1>3 DEF ToSet

\* DequeueFirst takes the threads of W, when they are the first n of the queue.
LEMMA DequeueFirstContents ==
  ASSUME NEW S, NEW q \in Seq(S), IsInjective(q), NEW n \in 0..Len(q), NEW W,
         W \cap ToSet(q) = {q[i] : i \in 1..n}
  PROVE  /\ DequeueFirst(q, W) \in Seq(S)
         /\ Len(DequeueFirst(q, W)) = Len(q) - n
         /\ ToSet(DequeueFirst(q, W)) = ToSet(q) \ W
         /\ IsInjective(DequeueFirst(q, W))
         /\ \A p : Sorted(q, p) => Sorted(DequeueFirst(q, W), p)
<1>1. Len(q) \in Nat /\ DOMAIN q = 1..Len(q)
  BY LenProperties
<1>2. \A i, j \in 1..Len(q) : q[i] = q[j] => i = j
  BY <1>1 DEF IsInjective
<1>3. {i \in DOMAIN q : q[i] \in W} = 1..n
  <2>1. ASSUME NEW i \in DOMAIN q, q[i] \in W PROVE i \in 1..n
    <3>1. PICK j \in 1..n : q[i] = q[j]
      BY <2>1 DEF ToSet
    <3>2. j \in 1..Len(q)
      BY <1>1
    <3> QED
      BY <1>1, <1>2, <3>1, <3>2
  <2>2. ASSUME NEW i \in 1..n PROVE i \in DOMAIN q /\ q[i] \in W
    <3>1. i \in DOMAIN q
      BY <1>1
    <3> QED
      BY <3>1
  <2> QED
    BY <2>1, <2>2
<1>4. Cardinality({i \in DOMAIN q : q[i] \in W}) = n
  <2>1. Cardinality(1..n) = n
    BY FS_Interval
  <2> QED
    BY <1>3, <2>1
<1>5. DequeueFirst(q, W) = SubSeq(q, n + 1, Len(q))
  <2>1. 1 + n = n + 1
    OBVIOUS
  <2> QED
    BY <1>4, <2>1 DEF DequeueFirst
<1>6. /\ DequeueFirst(q, W) \in Seq(S)
      /\ Len(DequeueFirst(q, W)) = Len(q) - n
      /\ ToSet(DequeueFirst(q, W)) = ToSet(q) \ {q[i] : i \in 1..n}
      /\ IsInjective(DequeueFirst(q, W))
      /\ \A p : Sorted(q, p) => Sorted(DequeueFirst(q, W), p)
  BY <1>5, SuffixContents
<1>7. ToSet(q) \ {q[i] : i \in 1..n} = ToSet(q) \ W
  OBVIOUS
<1> QED
  BY <1>6, <1>7

\* The first n threads of a queue are n threads, and all of them only if the
\* queue has no more.
LEMMA FirstThreads ==
  ASSUME NEW S, NEW q \in Seq(S), IsInjective(q), NEW n \in 0..Len(q)
  PROVE  /\ First(q, n) \subseteq ToSet(q)
         /\ IsFiniteSet(First(q, n)) /\ Cardinality(First(q, n)) = n
         /\ ToSet(q) \subseteq First(q, n) <=> Len(q) = n
<1>1. Len(q) \in Nat /\ DOMAIN q = 1..Len(q)
  BY LenProperties
<1>2. \A i, j \in 1..Len(q) : q[i] = q[j] => i = j
  BY <1>1 DEF IsInjective
<1>3. \A i \in 1..n : i \in 1..Len(q)
  BY <1>1
<1>4. First(q, n) \subseteq ToSet(q)
  BY <1>1, <1>3 DEF First, ToSet
<1>5. IsFiniteSet(First(q, n)) /\ Cardinality(First(q, n)) = n
  <2> DEFINE f == [i \in 1..n |-> q[i]]
  <2>1. f \in Bijection(1..n, First(q, n))
    BY <1>2, <1>3 DEF First, Bijection, Injection, Surjection, IsInjective
  <2>2. ExistsBijection(1..n, First(q, n))
    BY <2>1 DEF ExistsBijection
  <2>3. IsFiniteSet(1..n) /\ n \in Nat
    BY FS_Interval
  <2> QED
    BY <2>2, <2>3, FS_Bijection, FS_CountingElements
<1>6. ASSUME Len(q) # n PROVE ~(ToSet(q) \subseteq First(q, n))
  <2> DEFINE l == Len(q)
  <2>1. n + 1 \in 1..l
    <3>1. l \in Nat /\ n \in 0..l /\ l # n
      BY <1>1, <1>6
    <3> HIDE DEF l
    <3> QED
      BY <3>1
  <2>2. \A i \in 1..n : i # n + 1
    OBVIOUS
  <2>3. q[n + 1] \in ToSet(q)
    BY <1>1, <2>1 DEF ToSet
  <2>4. q[n + 1] \notin First(q, n)
    BY <1>2, <1>3, <2>1, <2>2 DEF First
  <2> QED
    BY <2>3, <2>4
<1>7. ASSUME Len(q) = n PROVE ToSet(q) \subseteq First(q, n)
  BY <1>1, <1>7 DEF ToSet, First
<1> QED
  BY <1>4, <1>5, <1>6, <1>7

\* Only an empty queue has no thread, and the first of another is its head.
LEMMA FirstThread ==
  ASSUME NEW S, NEW q \in Seq(S)
  PROVE  /\ q = <<>> <=> ToSet(q) = {}
         /\ q = <<>> <=> Len(q) = 0
         /\ q # <<>> => Len(q) >= 1 /\ First(q, 1) = {Head(q)} /\ Head(q) \in ToSet(q)
<1>1. Len(q) \in Nat /\ DOMAIN q = 1..Len(q) /\ (q = <<>> <=> Len(q) = 0)
  BY LenProperties, EmptySeq
<1>2. q = <<>> => ToSet(q) = {}
  BY <1>1 DEF ToSet
<1>3. ASSUME q # <<>> PROVE Len(q) >= 1 /\ First(q, 1) = {Head(q)} /\ Head(q) \in ToSet(q)
  <2>1. Len(q) >= 1 /\ 1 \in DOMAIN q /\ Head(q) = q[1]
    BY <1>1, <1>3
  <2> QED
    BY <2>1 DEF First, ToSet
<1> QED
  BY <1>1, <1>2, <1>3

\* In an ordered queue the prefix that AtLeast finds has all the threads of
\* priority n and more.
LEMMA AtLeastAll ==
  ASSUME NEW S, NEW q \in Seq(S), NEW p \in [S -> Int], NEW n \in Int, Sorted(q, p)
  PROVE  First(q, AtLeast(q, p, n)) = {t \in ToSet(q) : p[t] >= n}
<1> DEFINE k == AtLeast(q, p, n)
<1>1. /\ k \in 0..Len(q)
      /\ \A i \in 1..k : p[q[i]] >= n
      /\ k < Len(q) => p[q[k + 1]] < n
  BY AtLeastSplits
<1> HIDE DEF k
<1>2. /\ Len(q) \in Nat /\ DOMAIN q = 1..Len(q)
      /\ \A i \in 1..Len(q) : p[q[i]] \in Int
  BY LenProperties, ElementOfSeq
<1>3. ASSUME NEW i \in 1..Len(q), i > k PROVE p[q[i]] < n
  <2>1. k + 1 \in 1..Len(q) /\ (i = k + 1 \/ k + 1 < i) /\ k < Len(q)
    BY <1>1, <1>2, <1>3
  <2>2. p[q[k + 1]] >= p[q[i]]
    BY <1>2, <2>1 DEF Sorted
  <2> QED
    BY <1>1, <1>2, <2>1, <2>2
<1>4. \A i \in 1..k : i \in 1..Len(q)
  BY <1>1, <1>2
<1>5. ASSUME NEW t \in First(q, k) PROVE t \in ToSet(q) /\ p[t] >= n
  BY <1>1, <1>2, <1>4, <1>5 DEF First, ToSet
<1>6. ASSUME NEW t \in ToSet(q), p[t] >= n PROVE t \in First(q, k)
  <2>1. PICK i \in 1..Len(q) : t = q[i]
    BY <1>2 DEF ToSet
  <2>2. i \in 1..k
    BY <1>1, <1>2, <1>3, <1>6, <2>1
  <2> QED
    BY <2>1, <2>2 DEF First
<1>7. First(q, k) = {t \in ToSet(q) : p[t] >= n}
  BY <1>5, <1>6
<1> QED
  BY <1>7 DEF k
=============================================================================
