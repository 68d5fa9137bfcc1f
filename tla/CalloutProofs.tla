---------------------------- MODULE CalloutProofs ----------------------------
(***************************************************************************)
(* Proofs about Callout for any clients, executors, callouts and IDs, any  *)
(* range of clock_t and any bound on the lag.                              *)
(*                                                                         *)
(* Ctl is the invariant of the control: who executes which callout, whose  *)
(* ID it has and who waits for it.  Timed adds the times.  The clocks wrap,*)
(* so it speaks of whole numbers that the clocks are the remainders of:    *)
(* among these the order of times is that of the numbers.                  *)
(***************************************************************************)
EXTENDS Callout, PriQueueProofs

\* The callouts that precede c in the chain q.
Before(q, c) == {x \in ToSet(q) : \E i, j \in 1..Len(q) : q[i] = x /\ q[j] = c /\ i < j}

\* The callouts of r are in the order they have in q.
Agree(r, q) == \A i, j \in 1..Len(r) : r[i] \in Before(q, r[j]) => i < j

Running == {"handler", "returning"}

\* The lock is held by the executor that goes down the chain.
LockOK == \A e \in Executor : ct_lock = e <=> epc[e] \in {"loop", "scan"}

\* A callout is executing while its executor is in its handler.
ExecOK ==
    /\ \A e \in Executor : cp[e] # NULL <=> epc[e] \in Running
    /\ \A e \in Executor : cp[e] # NULL => executing[cp[e]] /\ c_executor[cp[e]] = e
    /\ \A c \in CP : executing[c] =>
          c_xid[c] # NULL /\ c_executor[c] \in Executor /\ cp[c_executor[c]] = c

\* What is left of the chain for an executor.
RestOK == \A e \in Executor :
    epc[e] = "scan" => ToSet(rest[e]) \subseteq ToSet(lbhash) /\ Agree(rest[e], lbhash)

\* Every ID in the table belongs to one client, that has not had its answer.
OwnID ==
    /\ \A t \in Client : upc[t] = "idle" <=> id[t] = NULL
    /\ \A t, u \in Client : id[t] = id[u] /\ id[t] # NULL => t = u
    /\ \A c, d \in CP : c_xid[c] = c_xid[d] /\ c_xid[c] # NULL => c = d
    /\ QuietAfterUntimeout

\* A client that waits waits for the structure with its ID, as long as that
\* is in the table.
WaitOK ==
    /\ \A t \in Client : upc[t] = "wait" =>
          /\ ucp[t] \in CP
          /\ \A c \in CP : c_xid[c] = id[t] => c = ucp[t] /\ executing[c]
    /\ \A c \in CP : \A t \in c_done[c] : upc[t] = "wait" /\ t \in Client
    /\ NoMissedDone

Ctl == TypeOK /\ LockOK /\ ExecOK /\ RestOK /\ OwnID /\ WaitOK

\* What an executor has passed on its way down the chain is not due at its time,
\* or is being executed.
Scanned == \A e \in Executor :
    /\ epc[e] = "scan" =>
         \A c \in ToSet(lbhash) \ ToSet(rest[e]) : c_runtime[c] = runtime[e] => executing[c]
    /\ epc[e] \in Running =>
         \A c \in Before(lbhash, cp[e]) : c_runtime[c] = runtime[e] => executing[c]

\* The clocks are the remainders of the times T, R and C.
Clocks(T, R, C) == /\ lbolt = T % Wrap /\ ct_runtime = R % Wrap /\ ct_curtime = C % Wrap
                   /\ C <= T /\ R <= C + 1 /\ T - R <= MaxLag

\* A callout that is due at R or later.
DueFrom(c, R) == \E a \in Int : c_runtime[c] = a % Wrap /\ R <= a /\ 2 * (a - R) < Wrap

\* An executor at work on a time not after R and C.
WorksAt(e, T, R, C) == \E b \in Int :
    /\ runtime[e] = b % Wrap /\ b <= R /\ b <= C /\ R - b <= MaxLag + 1
    /\ cp[e] # NULL => T - b <= MaxLag

TimedAt(T, R, C) ==
    /\ Clocks(T, R, C)
    /\ \A c \in CP : Pending(c) => DueFrom(c, R)
    /\ \A e \in Executor : epc[e] \in Running \cup {"scan"} => WorksAt(e, T, R, C)

Timed == \E T, R, C \in Int : TimedAt(T, R, C)

Inv == Ctl /\ Scanned /\ Timed

----------------------------------------------------------------------------
(* Times that wrap *)

\* The range of clock_t is not empty, and twice the bound on the lag fits in.
LEMMA WrapPositive == Wrap \in Nat /\ Wrap > 0 /\ MaxLag \in Nat /\ 2 * (MaxLag + 1) < Wrap
  BY CalloutAssumption

\* A nonzero multiple of Wrap is at least Wrap away from zero.
LEMMA Multiple ==
  ASSUME NEW k \in Int, NEW r \in Int, k * Wrap = r, r < Wrap, -Wrap < r
  PROVE  k = 0
<1>1. ASSUME k >= 1 PROVE k * Wrap >= Wrap
  BY <1>1, WrapPositive
<1>2. ASSUME k <= -1 PROVE k * Wrap <= -Wrap
  BY <1>2, WrapPositive
<1>3. k * Wrap \in Int
  BY WrapPositive
<1> QED
  BY <1>1, <1>2, <1>3, WrapPositive

\* Division with remainder by Wrap is unique.
LEMMA Remainder ==
  ASSUME NEW a \in Int, NEW k \in Int, NEW r \in 0..(Wrap - 1), a = k * Wrap + r
  PROVE  a % Wrap = r
<1> DEFINE j == a \div Wrap
           s == a % Wrap
<1>1. a = j * Wrap + s /\ s \in 0..(Wrap - 1) /\ j \in Int
  BY WrapPositive
<1> HIDE DEF j, s
<1>2. (j - k) * Wrap = r - s
  BY <1>1, WrapPositive
<1>3. j - k = 0
  BY <1>1, <1>2, WrapPositive, Multiple
<1> QED
  BY <1>1, <1>2, <1>3, WrapPositive DEF s

\* Adding ticks to a clock that wraps: the remainder of the sum.
LEMMA ModPlus ==
  ASSUME NEW a \in Int, NEW n \in Int
  PROVE  Plus(a % Wrap, n) = (a + n) % Wrap
<1> DEFINE j == a \div Wrap
           s == a % Wrap
           i == (s + n) \div Wrap
           r == (s + n) % Wrap
<1>1. a = j * Wrap + s /\ s \in 0..(Wrap - 1) /\ j \in Int
  BY WrapPositive
<1> HIDE DEF j, s
<1>2. s + n = i * Wrap + r /\ r \in 0..(Wrap - 1) /\ i \in Int
  BY <1>1, WrapPositive
<1> HIDE DEF i, r
<1>3. a + n = (i + j) * Wrap + r
  BY <1>1, <1>2, WrapPositive
<1>4. (a + n) % Wrap = r
  BY <1>1, <1>2, <1>3, Remainder
<1> QED
  BY <1>4 DEF Plus, r, s

\* The signed difference of two wrapped times is that of the times, when they are
\* less than half a cycle apart.
LEMMA ModMinus ==
  ASSUME NEW a \in Int, NEW b \in Int, 2 * (a - b) < Wrap, 2 * (b - a) < Wrap
  PROVE  Minus(a % Wrap, b % Wrap) = a - b
<1> DEFINE j == a \div Wrap
           s == a % Wrap
           i == b \div Wrap
           r == b % Wrap
<1>1. a = j * Wrap + s /\ s \in 0..(Wrap - 1) /\ j \in Int
  BY WrapPositive
<1>2. b = i * Wrap + r /\ r \in 0..(Wrap - 1) /\ i \in Int
  BY WrapPositive
<1> HIDE DEF i, j, s, r
<1>3. s - r = (i - j) * Wrap + (a - b) /\ s - r \in Int /\ i - j \in Int
  BY <1>1, <1>2, WrapPositive
<1>4. CASE a >= b
  <2>1. (s - r) % Wrap = a - b
    <3>1. a - b \in 0..(Wrap - 1)
      BY <1>4, WrapPositive
    <3> QED
    BY <1>3, <3>1, Remainder
  <2> QED
    BY <2>1, WrapPositive DEF Minus, s, r
<1>5. CASE a < b
  <2>1. (s - r) % Wrap = a - b + Wrap
    <3>1. a - b + Wrap \in 0..(Wrap - 1)
      BY <1>5, WrapPositive
    <3>2. s - r = (i - j - 1) * Wrap + (a - b + Wrap) /\ i - j - 1 \in Int
      BY <1>1, <1>2, WrapPositive
    <3> QED
    BY <1>3, <3>1, <3>2, Remainder
  <2> QED
    BY <1>5, <2>1, WrapPositive DEF Minus, s, r
<1> QED
  BY <1>4, <1>5

\* Times less than a cycle apart that wrap to the same value are the same.
LEMMA ModSame ==
  ASSUME NEW a \in Int, NEW b \in Int, a % Wrap = b % Wrap, a - b < Wrap, b - a < Wrap
  PROVE  a = b
<1> DEFINE j == a \div Wrap
           i == b \div Wrap
           r == b % Wrap
<1>1. a = j * Wrap + r /\ r \in 0..(Wrap - 1) /\ j \in Int
  BY WrapPositive
<1>2. b = i * Wrap + r /\ i \in Int
  BY WrapPositive
<1> HIDE DEF i, j, r
<1>3. (j - i) * Wrap = a - b
  BY <1>1, <1>2, WrapPositive
<1>4. j - i = 0
  BY <1>3, <1>1, <1>2, WrapPositive, Multiple
<1> QED
  BY <1>1, <1>2, <1>4, WrapPositive

----------------------------------------------------------------------------
(* The hash chain *)

\* INSERT puts a callout at the head of the chain.
LEMMA PrependContents ==
  ASSUME NEW S, NEW q \in Seq(S), NEW c \in S
  PROVE  /\ <<c>> \o q \in Seq(S)
         /\ ToSet(<<c>> \o q) = ToSet(q) \cup {c}
         /\ IsInjective(q) /\ c \notin ToSet(q) => IsInjective(<<c>> \o q)
         /\ \A d \in ToSet(q) : Before(<<c>> \o q, d) \subseteq Before(q, d) \cup {c}
<1> DEFINE r == <<c>> \o q
<1>1. /\ Len(q) \in Nat /\ DOMAIN q = 1..Len(q) /\ \A j \in 1..Len(q) : q[j] \in S
  BY LenProperties, ElementOfSeq
<1>2. /\ r \in Seq(S) /\ Len(r) = Len(q) + 1 /\ r[1] = c /\ DOMAIN r = 1..(Len(q) + 1)
      /\ \A j \in 1..Len(q) : r[j + 1] = q[j]
  BY <1>1
<1> HIDE DEF r
<1>3. ASSUME NEW j \in 1..(Len(q) + 1) PROVE j = 1 \/ \E k \in 1..Len(q) : j = k + 1 /\ r[j] = q[k]
  <2>1. CASE j # 1
    <3>1. j - 1 \in 1..Len(q) /\ j = (j - 1) + 1
      BY <1>1, <2>1
    <3> QED
      BY <1>2, <3>1
  <2> QED
    BY <2>1
<1>4. \A k \in 1..Len(q) : k + 1 \in 1..(Len(q) + 1) /\ 1 \in 1..(Len(q) + 1)
  BY <1>1
<1>5. ToSet(r) = ToSet(q) \cup {c}
  <2>1. 1 \in 1..(Len(q) + 1)
    BY <1>1
  <2> QED
    BY <1>1, <1>2, <1>3, <1>4, <2>1 DEF ToSet
<1>6. ASSUME IsInjective(q), c \notin ToSet(q) PROVE IsInjective(r)
  <2>1. \A k \in 1..Len(q) : q[k] # c
    BY <1>1, <1>6 DEF ToSet
  <2>2. \A i, k \in 1..Len(q) : q[i] = q[k] => i = k
    BY <1>1, <1>6 DEF IsInjective
  <2>3. \A i, j \in 1..(Len(q) + 1) : r[i] = r[j] => i = j
    BY <1>2, <1>3, <2>1, <2>2
  <2> QED
    BY <1>2, <2>3 DEF IsInjective
<1>7. ASSUME NEW d \in ToSet(q) PROVE Before(r, d) \subseteq Before(q, d) \cup {c}
  <2> SUFFICES ASSUME NEW x \in Before(r, d), x # c PROVE x \in Before(q, d)
    OBVIOUS
  <2>1. PICK i, j \in 1..(Len(q) + 1) : r[i] = x /\ r[j] = d /\ i < j
    BY <1>2 DEF Before
  <2>2. PICK k \in 1..Len(q) : i = k + 1 /\ x = q[k]
    BY <1>2, <1>3, <2>1
  <2>3. j # 1
    BY <1>1, <2>1, <2>2
  <2>4. PICK l \in 1..Len(q) : j = l + 1 /\ d = q[l]
    BY <1>3, <2>1, <2>3
  <2>5. k < l
    BY <1>1, <2>1, <2>2, <2>4
  <2> QED
    BY <1>1, <2>2, <2>4, <2>5 DEF Before, ToSet
<1> QED
  BY <1>2, <1>5, <1>6, <1>7 DEF r

\* A callout of the chain has a place in it.
LEMMA PlaceFound ==
  ASSUME NEW S, NEW q \in Seq(S), NEW c \in ToSet(q)
  PROVE  Place(q, c) \in 1..Len(q) /\ q[Place(q, c)] = c
<1>1. DOMAIN q = 1..Len(q)
  BY LenProperties
<1>2. \E i \in DOMAIN q : q[i] = c
  BY DEF ToSet
<1> QED
  BY <1>1, <1>2 DEF Place

\* DELETE takes one callout from the chain and keeps the order of the others.
LEMMA UnlinkContents ==
  ASSUME NEW S, NEW q \in Seq(S), IsInjective(q), NEW c \in ToSet(q)
  PROVE  /\ RemoveAt(q, Place(q, c)) \in Seq(S)
         /\ ToSet(RemoveAt(q, Place(q, c))) = ToSet(q) \ {c}
         /\ IsInjective(RemoveAt(q, Place(q, c)))
         /\ \A d : Before(RemoveAt(q, Place(q, c)), d) \subseteq Before(q, d)
<1> DEFINE m == Place(q, c)
           r == RemoveAt(q, m)
<1>1. m \in 1..Len(q) /\ q[m] = c
  BY PlaceFound
<1>2. r \in Seq(S) /\ Removed(r, q, m)
  BY <1>1, RemoveAtElements
<1> HIDE DEF m, r
<1>3. ToSet(r) = ToSet(q) \ {c} /\ IsInjective(r)
  BY <1>1, <1>2, RemovedContents
<1>4. Len(q) \in Nat /\ Len(r) = Len(q) - 1 /\ DOMAIN q = 1..Len(q)
  BY <1>2, LenProperties DEF Removed
<1>5. ASSUME NEW j \in 1..Len(r)
      PROVE  \E k \in 1..Len(q) : r[j] = q[k] /\ ((k < m /\ j = k) \/ (k > m /\ j = k - 1))
  <2>1. CASE j < m
    <3>1. j \in 1..(m - 1) /\ j \in 1..Len(q)
      BY <1>1, <1>4, <2>1
    <3> QED
      BY <1>2, <2>1, <3>1 DEF Removed
  <2>2. CASE j >= m
    <3>1. j \in m..(Len(q) - 1) /\ j + 1 \in 1..Len(q) /\ j + 1 > m /\ j = (j + 1) - 1
      BY <1>1, <1>4, <2>2
    <3>2. r[j] = q[j + 1]
      BY <1>2, <3>1 DEF Removed
    <3> QED
      BY <3>1, <3>2
  <2> QED
    BY <1>1, <1>4, <2>1, <2>2
<1>6. ASSUME NEW d, NEW x \in Before(r, d) PROVE x \in Before(q, d)
  <2>1. PICK i, j \in 1..Len(r) : r[i] = x /\ r[j] = d /\ i < j
    BY <1>6 DEF Before
  <2>2. PICK k \in 1..Len(q) : r[i] = q[k] /\ ((k < m /\ i = k) \/ (k > m /\ i = k - 1))
    BY <1>5
  <2>3. PICK l \in 1..Len(q) : r[j] = q[l] /\ ((l < m /\ j = l) \/ (l > m /\ j = l - 1))
    BY <1>5
  <2>4. k < l
    BY <1>1, <1>4, <2>1, <2>2, <2>3
  <2> QED
    BY <1>4, <2>1, <2>2, <2>3, <2>4 DEF Before, ToSet
<1> QED
  BY <1>2, <1>3, <1>6 DEF m, r

\* What follows c in the chain, in order, and what does not.
LEMMA AfterContents ==
  ASSUME NEW S, NEW q \in Seq(S), IsInjective(q), NEW c \in ToSet(q)
  PROVE  /\ After(q, c) \in Seq(S)
         /\ ToSet(After(q, c)) \subseteq ToSet(q) \ {c}
         /\ ToSet(q) \ ToSet(After(q, c)) \subseteq Before(q, c) \cup {c}
         /\ Agree(After(q, c), q)
<1> DEFINE m == Place(q, c)
           r == SubSeq(q, m + 1, Len(q))
<1>1. m \in 1..Len(q) /\ q[m] = c /\ Len(q) \in Nat /\ DOMAIN q = 1..Len(q)
  BY PlaceFound, LenProperties
<1>2. m \in 0..Len(q)
  BY <1>1
<1> HIDE DEF m
<1>3. /\ r \in Seq(S) /\ Len(r) = Len(q) - m
      /\ ToSet(r) = ToSet(q) \ First(q, m)
      /\ \A j \in 1..(Len(q) - m) : r[j] = q[m + j]
  <2>1. r \in Seq(S) /\ Suffixed(r, q, m)
    BY <1>2, SuffixPlaces
  <2> QED
    BY <2>1 DEF Suffixed
<1>4. \A j \in 1..(Len(q) - m) : r[j] = q[m + j]
  BY <1>3
<1> HIDE DEF r
<1>5. ToSet(r) \subseteq ToSet(q) \ {c}
  BY <1>1, <1>3 DEF First
<1>6. ASSUME NEW x \in ToSet(q) \ ToSet(r) PROVE x \in Before(q, c) \cup {c}
  <2>1. PICK i \in 1..m : x = q[i]
    BY <1>3, <1>6 DEF First
  <2>2. i \in 1..Len(q) /\ (i = m \/ i < m)
    BY <1>1, <2>1
  <2> QED
    BY <1>1, <2>1, <2>2 DEF Before
<1>7. Agree(r, q)
  <2> SUFFICES ASSUME NEW i \in 1..Len(r), NEW j \in 1..Len(r), r[i] \in Before(q, r[j])
               PROVE  i < j
    BY DEF Agree
  <2>1. PICK k, l \in 1..Len(q) : q[k] = r[i] /\ q[l] = r[j] /\ k < l
    BY DEF Before
  <2>2. r[i] = q[m + i] /\ r[j] = q[m + j] /\ m + i \in 1..Len(q) /\ m + j \in 1..Len(q)
    BY <1>1, <1>3, <1>4
  <2>3. k = m + i /\ l = m + j
    BY <1>1, <2>1, <2>2 DEF IsInjective
  <2> QED
    BY <1>1, <1>3, <2>1, <2>3
<1> QED
  BY <1>3, <1>5, <1>6, <1>7 DEF After, m, r

\* A chain is in its own order.
LEMMA AgreeSelf ==
  ASSUME NEW S, NEW q \in Seq(S), IsInjective(q)
  PROVE  Agree(q, q)
<1>1. DOMAIN q = 1..Len(q)
  BY LenProperties
<1> QED
  BY <1>1 DEF Agree, Before, IsInjective

\* The first tick of a set of them.
LEMMA MinTick ==
  ASSUME NEW N \in SUBSET Nat, N # {}
  PROVE  Min(N) \in N /\ \A i \in N : Min(N) <= i
<1>1. \E m \in N : \A n \in N : m <= n
  BY LeastNat
<1> QED
  BY <1>1 DEF Min

\* The first place of a set of them.
LEMMA MinPlace ==
  ASSUME NEW S, NEW q \in Seq(S), NEW P \in SUBSET DOMAIN q, P # {}
  PROVE  /\ Min(P) \in P /\ Min(P) \in 1..Len(q) /\ q[Min(P)] \in ToSet(q)
         /\ \A i \in P : Min(P) <= i
<1>1. DOMAIN q = 1..Len(q) /\ Len(q) \in Nat
  BY LenProperties
<1>2. P \in SUBSET Nat
  BY <1>1
<1>3. Min(P) \in P /\ \A i \in P : Min(P) <= i
  BY <1>2, MinTick
<1> QED
  BY <1>1, <1>3 DEF ToSet

----------------------------------------------------------------------------
(* Control *)

\* Sums of times are times, and differences are integers.
LEMMA TimeTypes ==
  /\ 0 \in Time /\ Time \subseteq Int
  /\ \A a, n \in Int : Plus(a, n) \in Time /\ Minus(a, n) \in Int
<1>1. \A a \in Int : a % Wrap \in 0..(Wrap - 1)
  BY WrapPositive
<1>2. 0 \in Time /\ Time \subseteq Int
  BY WrapPositive DEF Time
<1>3. ASSUME NEW a \in Int, NEW n \in Int PROVE Plus(a, n) \in Time /\ Minus(a, n) \in Int
  <2>1. a + n \in Int /\ a - n \in Int
    OBVIOUS
  <2>2. (a + n) % Wrap \in 0..(Wrap - 1) /\ (a - n) % Wrap \in 0..(Wrap - 1)
    BY <1>1, <2>1
  <2> QED
    BY <2>2, WrapPositive DEF Plus, Minus, Time
<1> QED
  BY <1>2, <1>3

\* While the lock is free no executor goes down the chain; while an executor
\* does, it has the lock.
LEMMA LockFacts ==
  ASSUME Ctl
  PROVE  /\ Free => \A e \in Executor : epc[e] \notin {"loop", "scan"}
         /\ \A e, f \in Executor : epc[e] \in {"loop", "scan"} /\ epc[f] \in {"loop", "scan"} => e = f
  BY CalloutAssumption DEF Ctl, LockOK, Free

\* What the deletion of c changes.
LEMMA DeleteFacts ==
  ASSUME Ctl, NEW c \in CP, c_xid[c] # NULL, Delete(c)
  PROVE  /\ lbhash' \in Seq(CP) /\ IsInjective(lbhash') /\ ToSet(lbhash') = ToSet(lbhash) \ {c}
         /\ \A d : Before(lbhash', d) \subseteq Before(lbhash, d)
         /\ c_xid' \in [CP -> ID \cup {NULL}] /\ executing' \in [CP -> BOOLEAN]
         /\ c_runtime' \in [CP -> Time] /\ c_executor' \in [CP -> Executor \cup {NULL}]
         /\ c_xid'[c] = NULL /\ ~executing'[c]
         /\ \A d \in CP \ {c} : /\ c_xid'[d] = c_xid[d] /\ executing'[d] = executing[d]
                                /\ c_runtime'[d] = c_runtime[d] /\ c_executor'[d] = c_executor[d]
<1>1. lbhash \in Seq(CP) /\ IsInjective(lbhash) /\ c \in ToSet(lbhash)
  BY DEF Ctl, TypeOK
<1>2. lbhash' = RemoveAt(lbhash, Place(lbhash, c))
  BY DEF Delete
<1>3. /\ lbhash' \in Seq(CP) /\ IsInjective(lbhash')
      /\ \A d : Before(lbhash', d) \subseteq Before(lbhash, d)
  BY <1>1, <1>2, UnlinkContents
<1>4. ToSet(RemoveAt(lbhash, Place(lbhash, c))) = ToSet(lbhash) \ {c}
  BY <1>1, UnlinkContents
<1>5. /\ c_xid' = [c_xid EXCEPT ![c] = NULL] /\ executing' = [executing EXCEPT ![c] = FALSE]
      /\ c_executor' = [c_executor EXCEPT ![c] = NULL] /\ c_runtime' = [c_runtime EXCEPT ![c] = 0]
  BY DEF Delete
<1>6. /\ c_xid \in [CP -> ID \cup {NULL}] /\ executing \in [CP -> BOOLEAN]
      /\ c_runtime \in [CP -> Time] /\ c_executor \in [CP -> Executor \cup {NULL}]
  BY DEF Ctl, TypeOK
<1> QED
  BY <1>2, <1>3, <1>4, <1>5, <1>6, TimeTypes

\* timeout() keeps Ctl.
LEMMA TimeoutCtl == ASSUME Ctl, NEW t \in Client, NEW d \in Delta, timeout(t, d) PROVE Ctl'
<1>1. PICK c \in CP, i \in ID :
        /\ c_xid[c] = NULL /\ (\A u \in Client : id[u] # i)
        /\ c_xid' = [c_xid EXCEPT ![c] = i]
        /\ c_runtime' = [c_runtime EXCEPT ![c] = Plus(lbolt, Delay(d))]
        /\ lbhash' = <<c>> \o lbhash
        /\ id' = [id EXCEPT ![t] = i]
  BY DEF timeout
<1>2. /\ upc[t] = "idle" /\ Free /\ upc' = [upc EXCEPT ![t] = "set"]
      /\ UNCHANGED <<lbolt, cpr_stop_callout, clock, ct_vars, executing, c_executor, c_done, e_vars, ucp>>
  BY DEF timeout
<1>3. UNCHANGED <<ct_lock, ct_curtime, ct_runtime, queued, epc, runtime, cp, rest>>
  BY <1>2 DEF ct_vars, e_vars
<1>4. i # NULL
  BY CalloutAssumption
<1>5. TypeOK'
  <2>1. /\ lbhash \in Seq(CP) /\ IsInjective(lbhash) /\ c \notin ToSet(lbhash)
        /\ ToSet(lbhash) = {x \in CP : c_xid[x] # NULL} /\ c_xid \in [CP -> ID \cup {NULL}]
    BY <1>1 DEF Ctl, TypeOK
  <2>2. lbhash' \in Seq(CP) /\ IsInjective(lbhash')
    BY <1>1, <2>1, PrependContents
  <2>3. ToSet(<<c>> \o lbhash) = ToSet(lbhash) \cup {c}
    BY <2>1, PrependContents
  <2>4. ToSet(lbhash') = {x \in CP : c_xid'[x] # NULL}
    BY <1>1, <1>4, <2>1, <2>3
  <2>5. Plus(lbolt, Delay(d)) \in Time
    <3>1. lbolt \in Int
      BY TimeTypes DEF Ctl, TypeOK
    <3>2. Delay(d) \in Int
      BY CalloutAssumption DEF Delay
    <3> QED
      BY <3>1, <3>2, TimeTypes
  <2>6. c_runtime' \in [CP -> Time] /\ c_xid' \in [CP -> ID \cup {NULL}]
    BY <1>1, <2>1, <2>5 DEF Ctl, TypeOK
  <2>7. upc' \in [Client -> {"idle", "set", "wait"}] /\ id' \in [Client -> ID \cup {NULL}]
    BY <1>1, <1>2 DEF Ctl, TypeOK
  <2> QED
    BY <1>2, <1>3, <2>2, <2>4, <2>6, <2>7 DEF Ctl, TypeOK
<1>6. /\ \A x \in CP \ {c} : c_xid'[x] = c_xid[x] /\ c_xid[x] # i
      /\ c_xid'[c] = i /\ id'[t] = i /\ upc'[t] = "set" /\ ~executing[c] /\ id[t] = NULL
      /\ \A u \in Client \ {t} : id'[u] = id[u] /\ upc'[u] = upc[u]
  BY <1>1, <1>2, <1>4 DEF Ctl, TypeOK, OwnID, QuietAfterUntimeout, ExecOK
<1>7. LockOK' /\ RestOK'
  BY <1>2, <1>3, LockFacts DEF Ctl, LockOK, RestOK
<1>8. ExecOK'
  BY <1>2, <1>3, <1>6 DEF Ctl, TypeOK, ExecOK
<1>9. OwnID'
  <2>1. \A u \in Client : upc'[u] = "idle" <=> id'[u] = NULL
    BY <1>4, <1>6 DEF Ctl, OwnID
  <2>2. \A u, v \in Client : id'[u] = id'[v] /\ id'[u] # NULL => u = v
    BY <1>1, <1>6 DEF Ctl, OwnID
  <2>3. \A x, y \in CP : c_xid'[x] = c_xid'[y] /\ c_xid'[x] # NULL => x = y
    BY <1>6 DEF Ctl, OwnID
  <2>4. \A x \in CP : c_xid'[x] # NULL => \E u \in Client : id'[u] = c_xid'[x]
    BY <1>6 DEF Ctl, OwnID, QuietAfterUntimeout
  <2> QED
    BY <2>1, <2>2, <2>3, <2>4 DEF OwnID, QuietAfterUntimeout
<1>10. WaitOK'
  BY <1>1, <1>2, <1>6 DEF Ctl, WaitOK, NoMissedDone
<1> QED
  BY <1>5, <1>7, <1>8, <1>9, <1>10 DEF Ctl

\* A client that gets its answer gives up the ID, which no callout has any more.
LEMMA ReturnCtl ==
  ASSUME Ctl, NEW t \in Client, Return(t), upc[t] # "idle",
         \A c \in CP : c_xid'[c] # id[t] \/ c_xid'[c] = NULL,
         \A c \in CP : (c_xid'[c] = c_xid[c] /\ executing'[c] = executing[c]) \/ c_xid'[c] = NULL,
         \A c \in CP : t \notin c_done[c],
         \A c \in CP : c_done[c] # {} => c_xid'[c] = c_xid[c] /\ executing'[c] = executing[c],
         UNCHANGED c_done
  PROVE  /\ OwnID' /\ WaitOK'
         /\ upc' \in [Client -> {"idle", "set", "wait"}]
         /\ id' \in [Client -> ID \cup {NULL}] /\ ucp' \in [Client -> CP \cup {NULL}]
<1>1. /\ upc' = [upc EXCEPT ![t] = "idle"] /\ id' = [id EXCEPT ![t] = NULL]
      /\ ucp' = [ucp EXCEPT ![t] = NULL]
  BY DEF Return
<1>2. /\ upc \in [Client -> {"idle", "set", "wait"}]
      /\ id \in [Client -> ID \cup {NULL}] /\ ucp \in [Client -> CP \cup {NULL}]
      /\ c_done \in [CP -> SUBSET Client]
  BY DEF Ctl, TypeOK
<1>3. /\ upc'[t] = "idle" /\ id'[t] = NULL
      /\ \A u \in Client \ {t} : upc'[u] = upc[u] /\ id'[u] = id[u] /\ ucp'[u] = ucp[u]
  BY <1>1, <1>2
<1>4. OwnID'
  <2>1. \A u \in Client : upc'[u] = "idle" <=> id'[u] = NULL
    BY <1>3 DEF Ctl, OwnID
  <2>2. \A u, v \in Client : id'[u] = id'[v] /\ id'[u] # NULL => u = v
    BY <1>3 DEF Ctl, OwnID
  <2>3. \A c, d \in CP : c_xid'[c] = c_xid'[d] /\ c_xid'[c] # NULL => c = d
    BY DEF Ctl, OwnID
  <2>4. \A c \in CP : c_xid'[c] # NULL => \E u \in Client : id'[u] = c_xid'[c]
    BY <1>3 DEF Ctl, OwnID, QuietAfterUntimeout
  <2> QED
    BY <2>1, <2>2, <2>3, <2>4 DEF OwnID, QuietAfterUntimeout
<1>5. WaitOK'
  <2>1. ASSUME NEW u \in Client, upc'[u] = "wait"
        PROVE  /\ ucp'[u] \in CP
               /\ \A c \in CP : c_xid'[c] = id'[u] => c = ucp'[u] /\ executing'[c]
    <3>1. u # t /\ upc[u] = "wait" /\ id[u] # NULL
      BY <1>3, <2>1 DEF Ctl, OwnID
    <3> QED
      BY <1>3, <3>1 DEF Ctl, WaitOK
  <2>2. ASSUME NEW c \in CP, NEW u \in c_done'[c]
        PROVE  /\ u \in Client /\ upc'[u] = "wait"
               /\ ucp'[u] = c /\ c_xid'[c] = id'[u] /\ executing'[c]
    <3>1. u \in c_done[c] /\ u # t /\ u \in Client
      BY <1>2, <2>2
    <3> QED
      BY <1>3, <3>1 DEF Ctl, WaitOK, NoMissedDone
  <2> QED
    BY <2>1, <2>2 DEF WaitOK, NoMissedDone
<1> QED
  BY <1>1, <1>2, <1>4, <1>5

\* untimeout() of a pending callout keeps Ctl.
LEMMA UntimeoutCtl == ASSUME Ctl, NEW t \in Client, untimeout(t) PROVE Ctl'
<1>1. PICK c \in CP : c_xid[c] = id[t] /\ ~executing[c] /\ Delete(c)
  BY DEF untimeout
<1>2. /\ upc[t] = "set" /\ Free /\ Return(t)
      /\ UNCHANGED <<lbolt, cpr_stop_callout, clock, ct_vars, c_done, e_vars>>
  BY DEF untimeout
<1>3. UNCHANGED <<ct_lock, ct_curtime, ct_runtime, queued, epc, runtime, cp, rest>>
  BY <1>2 DEF ct_vars, e_vars
<1>4. c_xid[c] # NULL
  BY <1>1, <1>2 DEF Ctl, OwnID
<1>5. /\ lbhash' \in Seq(CP) /\ IsInjective(lbhash') /\ ToSet(lbhash') = ToSet(lbhash) \ {c}
      /\ c_xid' \in [CP -> ID \cup {NULL}] /\ executing' \in [CP -> BOOLEAN]
      /\ c_runtime' \in [CP -> Time] /\ c_executor' \in [CP -> Executor \cup {NULL}]
      /\ c_xid'[c] = NULL /\ ~executing'[c]
      /\ \A d \in CP \ {c} : /\ c_xid'[d] = c_xid[d] /\ executing'[d] = executing[d]
                             /\ c_runtime'[d] = c_runtime[d] /\ c_executor'[d] = c_executor[d]
  BY <1>1, <1>4, DeleteFacts
<1>6. /\ OwnID' /\ WaitOK'
      /\ upc' \in [Client -> {"idle", "set", "wait"}]
      /\ id' \in [Client -> ID \cup {NULL}] /\ ucp' \in [Client -> CP \cup {NULL}]
  <2>1. \A d \in CP : c_xid'[d] # id[t] \/ c_xid'[d] = NULL
    BY <1>1, <1>4, <1>5 DEF Ctl, OwnID
  <2>2. \A d \in CP : (c_xid'[d] = c_xid[d] /\ executing'[d] = executing[d]) \/ c_xid'[d] = NULL
    BY <1>5
  <2>3. \A d \in CP : t \notin c_done[d]
    BY <1>2 DEF Ctl, WaitOK
  <2>4. \A d \in CP : c_done[d] # {} => c_xid'[d] = c_xid[d] /\ executing'[d] = executing[d]
    BY <1>1, <1>5 DEF Ctl, WaitOK, NoMissedDone
  <2> QED
    BY <1>2, <2>1, <2>2, <2>3, <2>4, ReturnCtl
<1>7. ToSet(lbhash') = {x \in CP : c_xid'[x] # NULL}
  BY <1>5 DEF Ctl, TypeOK
<1>8. TypeOK'
  BY <1>2, <1>3, <1>5, <1>6, <1>7 DEF Ctl, TypeOK
<1>9. LockOK' /\ RestOK'
  BY <1>2, <1>3, LockFacts DEF Ctl, LockOK, RestOK
<1>10. ExecOK'
  BY <1>1, <1>3, <1>5 DEF Ctl, TypeOK, ExecOK
<1> QED
  BY <1>6, <1>8, <1>9, <1>10 DEF Ctl

\* untimeout() of an executing callout, and of one that is gone, keep Ctl.
LEMMA WaitCtl ==
  ASSUME Ctl, NEW t \in Client, UntimeoutExecuting(t) \/ UntimeoutWoken(t) \/ UntimeoutBogus(t)
  PROVE  Ctl'
<1>1. /\ Free
      /\ UNCHANGED <<lbolt, cpr_stop_callout, clock, ct_vars, lbhash, c_xid, executing,
                     c_runtime, c_executor, e_vars>>
  BY DEF UntimeoutExecuting, UntimeoutWoken, UntimeoutBogus, c_vars
<1>2. UNCHANGED <<ct_lock, ct_curtime, ct_runtime, queued, epc, runtime, cp, rest>>
  BY <1>1 DEF ct_vars, e_vars
<1>3. LockOK' /\ RestOK' /\ ExecOK'
  BY <1>1, <1>2 DEF Ctl, LockOK, RestOK, ExecOK
<1>4. /\ upc \in [Client -> {"idle", "set", "wait"}] /\ c_done \in [CP -> SUBSET Client]
      /\ id \in [Client -> ID \cup {NULL}] /\ ucp \in [Client -> CP \cup {NULL}]
  BY DEF Ctl, TypeOK
<1>5. ASSUME /\ OwnID' /\ WaitOK'
             /\ upc' \in [Client -> {"idle", "set", "wait"}]
             /\ id' \in [Client -> ID \cup {NULL}] /\ ucp' \in [Client -> CP \cup {NULL}]
             /\ c_done' \in [CP -> SUBSET Client]
      PROVE  Ctl'
  <2>1. TypeOK'
    BY <1>1, <1>2, <1>5 DEF Ctl, TypeOK
  <2> QED
    BY <1>3, <1>5, <2>1 DEF Ctl
<1>6. CASE UntimeoutExecuting(t)
  <2>1. PICK c \in CP : /\ c_xid[c] = id[t] /\ executing[c]
                        /\ ucp' = [ucp EXCEPT ![t] = c]
                        /\ c_done' = [c_done EXCEPT ![c] = @ \cup {t}]
    BY <1>6 DEF UntimeoutExecuting
  <2>2. upc[t] = "set" /\ upc' = [upc EXCEPT ![t] = "wait"] /\ id' = id
    BY <1>6 DEF UntimeoutExecuting
  <2>3. id[t] # NULL
    BY <2>2 DEF Ctl, OwnID
  <2>4. OwnID'
    BY <1>1, <1>4, <2>2 DEF Ctl, OwnID, QuietAfterUntimeout
  <2>5. WaitOK'
    <3>1. \A u \in Client \ {t} : upc'[u] = upc[u] /\ ucp'[u] = ucp[u]
      BY <1>4, <2>1, <2>2
    <3>2. upc'[t] = "wait" /\ ucp'[t] = c
      BY <1>4, <2>1, <2>2
    <3>3. \A d \in CP : c_xid[d] = id[t] => d = c
      BY <2>1, <2>3 DEF Ctl, OwnID
    <3>4. \A d \in CP : c_done'[d] \subseteq c_done[d] \cup {t} /\ (d # c => c_done'[d] = c_done[d])
      BY <1>4, <2>1
    <3>5. \A d \in CP : t \notin c_done[d]
      BY <2>2 DEF Ctl, WaitOK
    <3>6. ASSUME NEW d \in CP, NEW u \in c_done'[d]
          PROVE  u \in Client /\ upc'[u] = "wait" /\ ucp'[u] = d /\ c_xid[d] = id[u] /\ executing[d]
      BY <2>1, <3>1, <3>2, <3>4, <3>5, <3>6 DEF Ctl, WaitOK, NoMissedDone
    <3>7. ASSUME NEW u \in Client, upc'[u] = "wait"
          PROVE  ucp'[u] \in CP /\ \A d \in CP : c_xid[d] = id[u] => d = ucp'[u] /\ executing[d]
      BY <2>1, <3>1, <3>2, <3>3, <3>7 DEF Ctl, WaitOK
    <3> QED
      BY <1>1, <2>2, <3>6, <3>7 DEF WaitOK, NoMissedDone
  <2>6. /\ upc' \in [Client -> {"idle", "set", "wait"}] /\ id' \in [Client -> ID \cup {NULL}]
        /\ ucp' \in [Client -> CP \cup {NULL}] /\ c_done' \in [CP -> SUBSET Client]
    BY <1>4, <2>1, <2>2
  <2> QED
    BY <1>5, <2>4, <2>5, <2>6
<1>7. CASE UntimeoutWoken(t) /\ c_xid[ucp[t]] = id[t] /\ executing[ucp[t]]
  <2>1. upc[t] = "wait" /\ c_done' = [c_done EXCEPT ![ucp[t]] = @ \cup {t}] /\ UNCHANGED <<upc, id, ucp>>
    BY <1>7 DEF UntimeoutWoken, u_vars
  <2>2. ucp[t] \in CP
    BY <2>1 DEF Ctl, WaitOK
  <2>3. c_done' \in [CP -> SUBSET Client]
    BY <1>4, <2>1, <2>2
  <2>4. OwnID'
    BY <1>1, <2>1 DEF Ctl, OwnID, QuietAfterUntimeout
  <2>5. WaitOK'
    <3>1. \A d \in CP : /\ c_done'[d] \subseteq c_done[d] \cup {t}
                        /\ d # ucp[t] => c_done'[d] = c_done[d]
      BY <1>4, <2>1, <2>2
    <3>2. ASSUME NEW d \in CP, NEW u \in c_done'[d]
          PROVE  u \in Client /\ upc[u] = "wait" /\ ucp[u] = d /\ c_xid[d] = id[u] /\ executing[d]
      BY <1>7, <2>1, <3>1 DEF Ctl, WaitOK, NoMissedDone
    <3> QED
      BY <1>1, <2>1, <3>2 DEF Ctl, WaitOK, NoMissedDone
  <2> QED
    BY <1>4, <1>5, <2>1, <2>3, <2>4, <2>5
<1>8. CASE \/ UntimeoutBogus(t)
           \/ UntimeoutWoken(t) /\ ~(c_xid[ucp[t]] = id[t] /\ executing[ucp[t]])
  <2>1. Return(t) /\ c_done' = c_done /\ upc[t] # "idle"
    BY <1>8 DEF UntimeoutBogus, UntimeoutWoken, c_vars
  <2>2. \A c \in CP : c_xid[c] # id[t]
    BY <1>8 DEF UntimeoutBogus, UntimeoutWoken, Ctl, WaitOK
  <2>3. \A c \in CP : t \notin c_done[c]
    BY <2>2 DEF Ctl, WaitOK, NoMissedDone
  <2>4. /\ OwnID' /\ WaitOK'
        /\ upc' \in [Client -> {"idle", "set", "wait"}]
        /\ id' \in [Client -> ID \cup {NULL}] /\ ucp' \in [Client -> CP \cup {NULL}]
    BY <1>1, <2>1, <2>2, <2>3, ReturnCtl
  <2> QED
    BY <1>4, <1>5, <2>1, <2>4
<1> QED
  BY <1>6, <1>7, <1>8

\* The clock's steps keep Ctl.
LEMMA ClockCtl == ASSUME Ctl, Clock \/ callout_cpr_callb PROVE Ctl'
<1>1. /\ UNCHANGED <<ct_lock, lbhash, c_xid, executing, c_runtime, c_executor, c_done,
                     epc, runtime, cp, rest, upc, id, ucp>>
  BY DEF Clock, Tick, callout_schedule, Dispatch, callout_cpr_callb, ct_vars, c_vars, e_vars, u_vars
<1>2. LockOK' /\ ExecOK' /\ RestOK' /\ OwnID' /\ WaitOK'
  BY <1>1 DEF Ctl, LockOK, ExecOK, RestOK, OwnID, WaitOK, QuietAfterUntimeout, NoMissedDone
<1>3. {lbolt, ct_curtime, ct_runtime} \subseteq Int
  BY TimeTypes DEF Ctl, TypeOK
<1>4. /\ {lbolt', ct_curtime', ct_runtime'} \subseteq Time /\ cpr_stop_callout' \in BOOLEAN
      /\ queued' \in 0..2 * Cardinality(Executor) /\ clock' \in {"idle", "schedule", "dispatch"}
  <2>1. CASE Tick
    <3>1. Plus(lbolt, 1) \in Time
      BY <1>3, TimeTypes
    <3> QED
      BY <2>1, <3>1 DEF Tick, Ctl, TypeOK, ct_vars
  <2>2. CASE callout_schedule
    <3> DEFINE late == Minus(lbolt, ct_runtime)
               due  == {n \in 0..late : Eligible(lbhash, Plus(ct_runtime, n)) # {}}
    <3>1. late \in Int
      BY <1>3, TimeTypes
    <3>2. due # {} => Min(due) \in Int
      <4>1. due \in SUBSET Nat
        BY <3>1
      <4> QED
        BY <4>1, MinTick
    <3>3. /\ ct_curtime' = lbolt
          /\ ct_runtime' = IF due = {} THEN Plus(ct_runtime, IF late < 0 THEN 0 ELSE late + 1)
                                       ELSE Plus(ct_runtime, Min(due))
          /\ clock' \in {"idle", "dispatch"} /\ UNCHANGED <<lbolt, cpr_stop_callout, queued>>
      BY <2>2 DEF callout_schedule
    <3> HIDE DEF due, late
    <3>4. ct_runtime' \in Time
      <4>1. (IF late < 0 THEN 0 ELSE late + 1) \in Int
        BY <3>1
      <4> QED
        BY <1>3, <3>2, <3>3, <4>1, TimeTypes
    <3> QED
      BY <3>3, <3>4 DEF Ctl, TypeOK
  <2>3. CASE Dispatch
    <3>1. Cardinality(Executor) \in Nat /\ Cardinality({e \in Executor : epc[e] # "idle"}) \in Nat
      BY CalloutAssumption, FS_CardinalityType, FS_Subset
    <3>2. queued \in 0..2 * Cardinality(Executor)
      BY DEF Ctl, TypeOK
    <3>3. queued' \in 0..2 * Cardinality(Executor)
      BY <2>3, <3>1, <3>2 DEF Dispatch, FreeTasks
    <3> QED
      BY <2>3, <3>3 DEF Dispatch, Ctl, TypeOK
  <2>4. CASE callout_cpr_callb
    BY <2>4 DEF callout_cpr_callb, Ctl, TypeOK, ct_vars
  <2> QED
    BY <2>1, <2>2, <2>3, <2>4 DEF Clock
<1>5. TypeOK'
  BY <1>1, <1>4 DEF Ctl, TypeOK
<1> QED
  BY <1>2, <1>5 DEF Ctl

\* Taking a task and the test of the loop keep Ctl.
LEMMA LoopCtl ==
  ASSUME Ctl, NEW e \in Executor, callout_execute(e) \/ Loop(e)
  PROVE  Ctl'
<1>1. UNCHANGED <<lbolt, cpr_stop_callout, clock, ct_curtime, ct_runtime, lbhash, c_xid, executing,
                  c_runtime, c_executor, c_done, cp, upc, id, ucp>>
  BY DEF callout_execute, Loop, c_vars, u_vars
<1>2. OwnID' /\ WaitOK'
  BY <1>1 DEF Ctl, OwnID, WaitOK, QuietAfterUntimeout, NoMissedDone
<1>3. /\ epc \in [Executor -> {"idle", "loop", "scan", "handler", "returning"}]
      /\ runtime \in [Executor -> Time] /\ rest \in [Executor -> Seq(CP)]
      /\ lbhash \in Seq(CP) /\ IsInjective(lbhash) /\ ct_runtime \in Time
      /\ queued \in 0..2 * Cardinality(Executor)
  BY DEF Ctl, TypeOK
<1>4. e # NULL /\ Cardinality(Executor) \in Nat
  BY CalloutAssumption, FS_CardinalityType
<1>5. CASE callout_execute(e)
  <2>1. /\ epc[e] = "idle" /\ queued > 0 /\ Free /\ queued' = queued - 1 /\ ct_lock' = e
        /\ epc' = [epc EXCEPT ![e] = "loop"] /\ UNCHANGED <<runtime, rest>>
    BY <1>5 DEF callout_execute, EGoto
  <2>2. epc'[e] = "loop" /\ \A f \in Executor \ {e} : epc'[f] = epc[f]
    BY <1>3, <2>1
  <2>3. epc' \in [Executor -> {"idle", "loop", "scan", "handler", "returning"}]
    BY <1>3, <2>1
  <2>4. queued' \in 0..2 * Cardinality(Executor)
    BY <1>3, <1>4, <2>1
  <2>5. TypeOK'
    BY <1>1, <2>1, <2>3, <2>4 DEF Ctl, TypeOK
  <2>6. LockOK'
    BY <2>1, <2>2, LockFacts DEF LockOK
  <2>7. ExecOK'
    BY <1>1, <2>1, <2>2 DEF Ctl, ExecOK, Running
  <2>8. RestOK'
    BY <1>1, <2>1, <2>2 DEF Ctl, RestOK
  <2> QED
    BY <1>2, <2>5, <2>6, <2>7, <2>8 DEF Ctl
<1>6. CASE Loop(e) /\ Minus(ct_runtime, ct_curtime) <= 0
  <2>1. /\ epc[e] = "loop" /\ epc' = [epc EXCEPT ![e] = "scan"] /\ UNCHANGED <<ct_lock, queued>>
        /\ runtime' = [runtime EXCEPT ![e] = ct_runtime] /\ rest' = [rest EXCEPT ![e] = lbhash]
    BY <1>6 DEF Loop, EGoto
  <2>2. epc'[e] = "scan" /\ rest'[e] = lbhash
        /\ \A f \in Executor \ {e} : epc'[f] = epc[f] /\ rest'[f] = rest[f]
    BY <1>3, <2>1
  <2>3. /\ epc' \in [Executor -> {"idle", "loop", "scan", "handler", "returning"}]
        /\ runtime' \in [Executor -> Time] /\ rest' \in [Executor -> Seq(CP)]
    BY <1>3, <2>1
  <2>4. TypeOK'
    BY <1>1, <2>1, <2>3 DEF Ctl, TypeOK
  <2>5. LockOK'
    BY <2>1, <2>2 DEF Ctl, LockOK
  <2>6. ExecOK'
    BY <1>1, <2>1, <2>2 DEF Ctl, ExecOK, Running
  <2>7. RestOK'
    BY <1>1, <1>3, <2>2, AgreeSelf DEF Ctl, RestOK
  <2> QED
    BY <1>2, <2>4, <2>5, <2>6, <2>7 DEF Ctl
<1>7. CASE Loop(e) /\ ~(Minus(ct_runtime, ct_curtime) <= 0)
  <2>1. /\ epc[e] = "loop" /\ epc' = [epc EXCEPT ![e] = "idle"] /\ UNCHANGED <<rest, queued>>
        /\ runtime' = [runtime EXCEPT ![e] = 0] /\ ct_lock' = NULL
    BY <1>7 DEF Loop, EGoto
  <2>2. epc'[e] = "idle" /\ \A f \in Executor \ {e} : epc'[f] = epc[f]
    BY <1>3, <2>1
  <2>3. /\ epc' \in [Executor -> {"idle", "loop", "scan", "handler", "returning"}]
        /\ runtime' \in [Executor -> Time]
    BY <1>3, <2>1, TimeTypes
  <2>4. TypeOK'
    BY <1>1, <2>1, <2>3 DEF Ctl, TypeOK
  <2>5. LockOK'
    BY <2>1, <2>2, LockFacts, CalloutAssumption DEF LockOK
  <2>6. ExecOK'
    BY <1>1, <2>1, <2>2 DEF Ctl, ExecOK, Running
  <2>7. RestOK'
    BY <1>1, <2>1, <2>2 DEF Ctl, RestOK
  <2> QED
    BY <1>2, <2>4, <2>5, <2>6, <2>7 DEF Ctl
<1> QED
  BY <1>5, <1>6, <1>7

\* The callout that Start marks: it is in the table, pending, due, and nothing
\* before it in the rest of the chain is.
LEMMA NextFacts ==
  ASSUME Ctl, NEW e \in Executor, epc[e] = "scan", Eligible(rest[e], runtime[e]) # {}
  PROVE  LET todo == Eligible(rest[e], runtime[e])
             next == rest[e][Min(todo)]
         IN  /\ Min(todo) \in 1..Len(rest[e]) /\ next \in CP /\ next \in ToSet(lbhash)
             /\ Pending(next) /\ c_runtime[next] = runtime[e]
             /\ \A i \in 1..Len(rest[e]) :
                  c_runtime[rest[e][i]] = runtime[e] /\ ~executing[rest[e][i]] => Min(todo) <= i
<1> DEFINE q == rest[e]
           todo == Eligible(q, runtime[e])
           next == q[Min(todo)]
<1>1. q \in Seq(CP) /\ DOMAIN q = 1..Len(q)
  BY LenProperties DEF Ctl, TypeOK
<1>2. ToSet(q) \subseteq ToSet(lbhash) /\ ToSet(lbhash) = {c \in CP : c_xid[c] # NULL}
  BY DEF Ctl, TypeOK, RestOK
<1>3. todo \in SUBSET DOMAIN q /\ todo # {}
  BY DEF Eligible
<1>4. /\ Min(todo) \in todo /\ Min(todo) \in 1..Len(q) /\ q[Min(todo)] \in ToSet(q)
      /\ \A i \in todo : Min(todo) <= i
  BY <1>1, <1>3, MinPlace
<1>5. c_runtime[next] = runtime[e] /\ ~executing[next]
  BY <1>4 DEF Eligible
<1>6. \A i \in 1..Len(q) : c_runtime[q[i]] = runtime[e] /\ ~executing[q[i]] => i \in todo
  BY <1>1 DEF Eligible
<1> HIDE DEF todo, q
<1>7. next \in CP /\ next \in ToSet(lbhash) /\ c_xid[next] # NULL
  BY <1>2, <1>4
<1> QED
  BY <1>4, <1>5, <1>6, <1>7 DEF Pending, todo, q

\* Marking the next callout keeps Ctl.
LEMMA StartCtl == ASSUME Ctl, NEW e \in Executor, Start(e) PROVE Ctl'
<1> DEFINE next == rest[e][Min(Eligible(rest[e], runtime[e]))]
<1>1. /\ epc[e] = "scan" /\ Eligible(rest[e], runtime[e]) # {}
      /\ executing' = [executing EXCEPT ![next] = TRUE]
      /\ c_executor' = [c_executor EXCEPT ![next] = e]
      /\ cp' = [cp EXCEPT ![e] = next] /\ rest' = [rest EXCEPT ![e] = <<>>]
      /\ ct_lock' = NULL /\ epc' = [epc EXCEPT ![e] = "handler"]
      /\ UNCHANGED <<lbolt, cpr_stop_callout, clock, ct_curtime, ct_runtime, queued,
                     lbhash, c_xid, c_runtime, c_done, runtime, upc, id, ucp>>
  BY DEF Start, EGoto, u_vars
<1>2. next \in CP /\ c_xid[next] # NULL /\ ~executing[next]
  BY <1>1, NextFacts DEF Pending
<1> HIDE DEF next
<1>3. /\ epc \in [Executor -> {"idle", "loop", "scan", "handler", "returning"}]
      /\ cp \in [Executor -> CP \cup {NULL}] /\ rest \in [Executor -> Seq(CP)]
      /\ executing \in [CP -> BOOLEAN] /\ c_executor \in [CP -> Executor \cup {NULL}]
  BY DEF Ctl, TypeOK
<1>4. /\ epc' \in [Executor -> {"idle", "loop", "scan", "handler", "returning"}]
      /\ cp' \in [Executor -> CP \cup {NULL}] /\ rest' \in [Executor -> Seq(CP)]
      /\ executing' \in [CP -> BOOLEAN] /\ c_executor' \in [CP -> Executor \cup {NULL}]
  BY <1>1, <1>2, <1>3
<1>5. TypeOK'
  BY <1>1, <1>4 DEF Ctl, TypeOK
<1>6. /\ epc'[e] = "handler" /\ cp'[e] = next /\ executing'[next] /\ c_executor'[next] = e
      /\ \A f \in Executor \ {e} : epc'[f] = epc[f] /\ cp'[f] = cp[f] /\ rest'[f] = rest[f]
      /\ \A c \in CP \ {next} : executing'[c] = executing[c] /\ c_executor'[c] = c_executor[c]
  BY <1>1, <1>2, <1>3
<1>7. LockOK'
  BY <1>1, <1>6, LockFacts, CalloutAssumption DEF LockOK
<1>8. ExecOK'
  <2>1. next # NULL /\ cp[e] = NULL
    BY <1>1, <1>2, CalloutAssumption DEF Ctl, ExecOK, Running
  <2>2. \A f \in Executor : cp'[f] # NULL <=> epc'[f] \in Running
    BY <1>6, <2>1 DEF Ctl, ExecOK, Running
  <2>3. \A f \in Executor : cp'[f] # NULL => executing'[cp'[f]] /\ c_executor'[cp'[f]] = f
    <3> SUFFICES ASSUME NEW f \in Executor, f # e, cp'[f] # NULL
                 PROVE  executing'[cp'[f]] /\ c_executor'[cp'[f]] = f
      BY <1>6
    <3>1. cp'[f] = cp[f] /\ cp[f] \in CP /\ executing[cp[f]] /\ c_executor[cp[f]] = f
      BY <1>3, <1>6 DEF Ctl, ExecOK
    <3>2. cp[f] # next
      BY <1>2, <3>1
    <3> QED
      BY <1>6, <3>1, <3>2
  <2>4. ASSUME NEW c \in CP, executing'[c]
        PROVE  c_xid'[c] # NULL /\ c_executor'[c] \in Executor /\ cp'[c_executor'[c]] = c
    <3>1. CASE c = next
      BY <1>1, <1>2, <1>6, <3>1
    <3>2. CASE c # next
      <4>1. c_xid[c] # NULL /\ c_executor[c] \in Executor /\ cp[c_executor[c]] = c
        BY <1>6, <2>4, <3>2 DEF Ctl, ExecOK
      <4>2. c_executor[c] # e
        BY <2>1, <4>1, CalloutAssumption
      <4> QED
        BY <1>1, <1>6, <3>2, <4>1, <4>2
    <3> QED
      BY <3>1, <3>2
  <2> QED
    BY <2>2, <2>3, <2>4 DEF ExecOK
<1>9. RestOK'
  BY <1>1, <1>6 DEF Ctl, RestOK
<1>10. OwnID'
  BY <1>1 DEF Ctl, OwnID, QuietAfterUntimeout
<1>11. WaitOK'
  BY <1>1, <1>6 DEF Ctl, WaitOK, NoMissedDone
<1> QED
  BY <1>5, <1>7, <1>8, <1>9, <1>10, <1>11 DEF Ctl

\* The end of the chain, and untimeout() by the handler, keep Ctl.
LEMMA AdvanceCtl == ASSUME Ctl, NEW e \in Executor, Advance(e) \/ UntimeoutSelf(e) PROVE Ctl'
<1>1. UNCHANGED <<lbolt, cpr_stop_callout, clock, ct_lock, ct_curtime, queued, lbhash, c_xid, executing,
                  c_runtime, c_executor, c_done, runtime, cp, upc, id, ucp>>
  BY DEF Advance, UntimeoutSelf, ct_vars, c_vars, u_vars
<1>2. OwnID' /\ WaitOK'
  BY <1>1 DEF Ctl, OwnID, WaitOK, QuietAfterUntimeout, NoMissedDone
<1>3. /\ epc \in [Executor -> {"idle", "loop", "scan", "handler", "returning"}]
      /\ rest \in [Executor -> Seq(CP)] /\ ct_runtime \in Time
  BY DEF Ctl, TypeOK
<1>4. CASE Advance(e)
  <2>1. /\ epc[e] = "scan" /\ epc' = [epc EXCEPT ![e] = "loop"] /\ rest' = [rest EXCEPT ![e] = <<>>]
        /\ ct_runtime' = IF ct_runtime = runtime[e] THEN Plus(ct_runtime, 1) ELSE ct_runtime
    BY <1>4 DEF Advance, EGoto
  <2>2. epc'[e] = "loop" /\ \A f \in Executor \ {e} : epc'[f] = epc[f] /\ rest'[f] = rest[f]
    BY <1>3, <2>1
  <2>3. ct_runtime' \in Time
    BY <1>3, <2>1, TimeTypes
  <2>4. /\ epc' \in [Executor -> {"idle", "loop", "scan", "handler", "returning"}]
        /\ rest' \in [Executor -> Seq(CP)]
    BY <1>3, <2>1
  <2>5. TypeOK'
    BY <1>1, <2>3, <2>4 DEF Ctl, TypeOK
  <2>6. LockOK' /\ ExecOK' /\ RestOK'
    BY <1>1, <2>1, <2>2 DEF Ctl, LockOK, ExecOK, RestOK, Running
  <2> QED
    BY <1>2, <2>5, <2>6 DEF Ctl
<1>5. CASE UntimeoutSelf(e)
  <2>1. /\ epc[e] = "handler" /\ UNCHANGED <<rest, ct_runtime>>
        /\ epc' = [epc EXCEPT ![e] = IF c_executor[cp[e]] = e THEN "returning" ELSE "blocked"]
    BY <1>5 DEF UntimeoutSelf, EGoto, ct_vars
  <2>2. c_executor[cp[e]] = e
    BY <2>1 DEF Ctl, ExecOK, Running
  <2>3. /\ epc'[e] = "returning" /\ \A f \in Executor \ {e} : epc'[f] = epc[f]
        /\ epc' \in [Executor -> {"idle", "loop", "scan", "handler", "returning"}]
    BY <1>3, <2>1, <2>2
  <2>4. TypeOK'
    BY <1>1, <2>1, <2>3 DEF Ctl, TypeOK
  <2>5. LockOK' /\ ExecOK' /\ RestOK'
    BY <1>1, <2>1, <2>3 DEF Ctl, LockOK, ExecOK, RestOK, Running
  <2> QED
    BY <1>2, <2>4, <2>5 DEF Ctl
<1> QED
  BY <1>4, <1>5

\* The callout that an executor has finished is in the table, and no other
\* executor has it.
LEMMA FinishFacts ==
  ASSUME Ctl, NEW e \in Executor, epc[e] \in Running
  PROVE  /\ cp[e] \in CP /\ c_xid[cp[e]] # NULL /\ executing[cp[e]] /\ cp[e] \in ToSet(lbhash)
         /\ \A f \in Executor \ {e} : cp[f] # cp[e]
<1>1. cp[e] # NULL /\ cp[e] \in CP
  BY DEF Ctl, TypeOK, ExecOK
<1>2. executing[cp[e]] /\ c_xid[cp[e]] # NULL
  BY <1>1 DEF Ctl, ExecOK
<1>3. cp[e] \in ToSet(lbhash)
  BY <1>1, <1>2 DEF Ctl, TypeOK
<1>4. \A f \in Executor \ {e} : cp[f] # cp[e]
  BY <1>1 DEF Ctl, ExecOK
<1> QED
  BY <1>1, <1>2, <1>3, <1>4

\* The deletion of a callout whose handler has returned keeps Ctl.
LEMMA FinishCtl == ASSUME Ctl, NEW e \in Executor, Finish(e) PROVE Ctl'
<1> DEFINE c == cp[e]
<1>1. /\ epc[e] \in Running /\ Free /\ ct_lock' = e /\ Delete(c)
      /\ c_done' = [c_done EXCEPT ![c] = {}]
      /\ rest' = [rest EXCEPT ![e] = After(lbhash, c)]
      /\ cp' = [cp EXCEPT ![e] = NULL] /\ epc' = [epc EXCEPT ![e] = "scan"]
      /\ UNCHANGED <<lbolt, cpr_stop_callout, clock, ct_curtime, ct_runtime, queued, runtime, upc, id, ucp>>
  BY DEF Finish, EGoto, u_vars, Running
<1>2. /\ c \in CP /\ c_xid[c] # NULL /\ executing[c] /\ c \in ToSet(lbhash)
      /\ \A f \in Executor \ {e} : cp[f] # c
  BY <1>1, FinishFacts
<1>3. /\ epc \in [Executor -> {"idle", "loop", "scan", "handler", "returning"}]
      /\ cp \in [Executor -> CP \cup {NULL}] /\ rest \in [Executor -> Seq(CP)]
      /\ c_done \in [CP -> SUBSET Client] /\ lbhash \in Seq(CP) /\ IsInjective(lbhash)
  BY DEF Ctl, TypeOK
<1>4. /\ After(lbhash, c) \in Seq(CP) /\ ToSet(After(lbhash, c)) \subseteq ToSet(lbhash) \ {c}
      /\ Agree(After(lbhash, c), lbhash)
  BY <1>2, <1>3, AfterContents
<1>5. /\ epc'[e] = "scan" /\ cp'[e] = NULL /\ rest'[e] = After(lbhash, c)
      /\ \A f \in Executor \ {e} : epc'[f] = epc[f] /\ cp'[f] = cp[f]
      /\ epc' \in [Executor -> {"idle", "loop", "scan", "handler", "returning"}]
      /\ cp' \in [Executor -> CP \cup {NULL}]
  BY <1>1, <1>3
<1>6. rest' \in [Executor -> Seq(CP)] /\ c_done' \in [CP -> SUBSET Client]
  BY <1>1, <1>2, <1>3, <1>4
<1>7. c_done'[c] = {} /\ \A d \in CP \ {c} : c_done'[d] = c_done[d]
  BY <1>1, <1>2, <1>3
<1> HIDE DEF c
<1>8. /\ lbhash' \in Seq(CP) /\ IsInjective(lbhash') /\ ToSet(lbhash') = ToSet(lbhash) \ {c}
      /\ \A d : Before(lbhash', d) \subseteq Before(lbhash, d)
      /\ c_xid' \in [CP -> ID \cup {NULL}] /\ executing' \in [CP -> BOOLEAN]
      /\ c_runtime' \in [CP -> Time] /\ c_executor' \in [CP -> Executor \cup {NULL}]
      /\ c_xid'[c] = NULL /\ ~executing'[c]
      /\ \A d \in CP \ {c} : /\ c_xid'[d] = c_xid[d] /\ executing'[d] = executing[d]
                             /\ c_runtime'[d] = c_runtime[d] /\ c_executor'[d] = c_executor[d]
  BY <1>1, <1>2, DeleteFacts
<1>9. ToSet(lbhash') = {x \in CP : c_xid'[x] # NULL}
  BY <1>8 DEF Ctl, TypeOK
<1>10. TypeOK'
  BY <1>1, <1>5, <1>6, <1>8, <1>9 DEF Ctl, TypeOK
<1>11. LockOK'
  BY <1>1, <1>5, LockFacts DEF LockOK
<1>12. ExecOK'
  <2>1. \A f \in Executor : cp'[f] # NULL <=> epc'[f] \in Running
    BY <1>5 DEF Ctl, ExecOK, Running
  <2>2. \A f \in Executor : cp'[f] # NULL => executing'[cp'[f]] /\ c_executor'[cp'[f]] = f
    <3> SUFFICES ASSUME NEW f \in Executor, cp'[f] # NULL
                 PROVE  executing'[cp'[f]] /\ c_executor'[cp'[f]] = f
      OBVIOUS
    <3>1. f # e /\ cp'[f] = cp[f] /\ cp[f] \in CP \ {c}
      BY <1>2, <1>3, <1>5
    <3>2. executing[cp[f]] /\ c_executor[cp[f]] = f
      BY <3>1, CalloutAssumption DEF Ctl, ExecOK
    <3> QED
      BY <1>8, <3>1, <3>2
  <2>3. \A d \in CP : executing'[d] =>
          c_xid'[d] # NULL /\ c_executor'[d] \in Executor /\ cp'[c_executor'[d]] = d
    BY <1>5, <1>8 DEF Ctl, ExecOK, c
  <2> QED
    BY <2>1, <2>2, <2>3 DEF ExecOK
<1>13. RestOK'
  <2>1. Agree(rest'[e], lbhash')
    BY <1>4, <1>5, <1>8 DEF Agree
  <2>2. \A f \in Executor \ {e} : epc[f] # "scan"
    BY <1>1, LockFacts
  <2> QED
    BY <1>4, <1>5, <1>8, <2>1, <2>2 DEF RestOK
<1>14. OwnID'
  <2>1. \A x, y \in CP : c_xid'[x] = c_xid'[y] /\ c_xid'[x] # NULL => x = y
    BY <1>8 DEF Ctl, OwnID
  <2>2. \A x \in CP : c_xid'[x] # NULL => \E u \in Client : id'[u] = c_xid'[x]
    BY <1>1, <1>8 DEF Ctl, OwnID, QuietAfterUntimeout
  <2> QED
    BY <1>1, <2>1, <2>2 DEF Ctl, OwnID, QuietAfterUntimeout
<1>15. WaitOK'
  <2>1. \A t \in Client : upc[t] = "wait" => id[t] # NULL
    BY DEF Ctl, OwnID
  <2>2. ASSUME NEW t \in Client, upc[t] = "wait", NEW x \in CP, c_xid'[x] = id[t]
        PROVE  x = ucp[t] /\ executing'[x]
    BY <1>8, <2>1, <2>2 DEF Ctl, WaitOK
  <2>3. ASSUME NEW x \in CP, NEW t \in c_done'[x]
        PROVE  /\ upc[t] = "wait" /\ t \in Client
               /\ ucp[t] = x /\ c_xid'[x] = id[t] /\ executing'[x]
    BY <1>7, <1>8, <2>3 DEF Ctl, WaitOK, NoMissedDone
  <2> QED
    BY <1>1, <2>2, <2>3 DEF Ctl, WaitOK, NoMissedDone
<1> QED
  BY <1>10, <1>11, <1>12, <1>13, <1>14, <1>15 DEF Ctl

\* Every step keeps Ctl.
LEMMA CtlStep == Ctl /\ [Next]_vars => Ctl'
<1> SUFFICES ASSUME Ctl, [Next]_vars PROVE Ctl'
  OBVIOUS
<1>1. CASE UNCHANGED vars
  <2>1. UNCHANGED <<lbolt, cpr_stop_callout, clock, ct_lock, ct_curtime, ct_runtime, queued,
                    lbhash, c_xid, executing, c_runtime, c_executor, c_done,
                    epc, runtime, cp, rest, upc, id, ucp>>
    BY <1>1 DEF vars, ct_vars, c_vars, e_vars, u_vars
  <2>2. TypeOK'
    BY <2>1 DEF Ctl, TypeOK
  <2> QED
    BY <2>1, <2>2 DEF Ctl, LockOK, ExecOK, RestOK, OwnID, WaitOK, QuietAfterUntimeout, NoMissedDone
<1>2. CASE Next
  BY <1>2, TimeoutCtl, UntimeoutCtl, WaitCtl, ClockCtl, LoopCtl, StartCtl, AdvanceCtl, FinishCtl
     DEF Next, Execute
<1> QED
  BY <1>1, <1>2

----------------------------------------------------------------------------
(* What has been passed, and times *)

\* A step that moves no executor on its way, and no callout, keeps Scanned.
LEMMA ScannedFrame ==
  ASSUME Scanned,
         ToSet(lbhash') \subseteq ToSet(lbhash),
         \A d : Before(lbhash', d) \subseteq Before(lbhash, d),
         \A c \in ToSet(lbhash') : c_runtime'[c] = c_runtime[c] /\ executing'[c] = executing[c],
         \A e \in Executor : epc'[e] = "scan" =>
            epc[e] = "scan" /\ rest'[e] = rest[e] /\ runtime'[e] = runtime[e],
         \A e \in Executor : epc'[e] \in Running =>
            epc[e] \in Running /\ cp'[e] = cp[e] /\ runtime'[e] = runtime[e]
  PROVE  Scanned'
<1>1. ASSUME NEW e \in Executor, epc'[e] = "scan",
             NEW c \in ToSet(lbhash') \ ToSet(rest'[e]), c_runtime'[c] = runtime'[e]
      PROVE  executing'[c]
  BY <1>1 DEF Scanned
<1>2. ASSUME NEW e \in Executor, epc'[e] \in Running,
             NEW c \in Before(lbhash', cp'[e]), c_runtime'[c] = runtime'[e]
      PROVE  executing'[c]
  <2>1. c \in Before(lbhash, cp'[e]) /\ cp'[e] = cp[e]
    BY <1>2
  <2>2. c \in ToSet(lbhash')
    BY <1>2 DEF Before
  <2> QED
    BY <1>2, <2>1, <2>2 DEF Scanned
<1> QED
  BY <1>1, <1>2 DEF Scanned

\* A step that moves no clock and adds no callout and no work keeps Timed.
LEMMA TimedFrame ==
  ASSUME Timed, UNCHANGED <<lbolt, ct_curtime, ct_runtime>>,
         \A c \in CP : Pending(c)' => Pending(c) /\ c_runtime'[c] = c_runtime[c],
         \A e \in Executor : epc'[e] \in Running \cup {"scan"} =>
            /\ epc[e] \in Running \cup {"scan"} /\ runtime'[e] = runtime[e]
            /\ cp'[e] # NULL => cp[e] # NULL
  PROVE  Timed'
<1>1. PICK T, R, C \in Int : TimedAt(T, R, C)
  BY DEF Timed
<1>2. Clocks(T, R, C)'
  BY <1>1 DEF TimedAt, Clocks
<1>3. ASSUME NEW c \in CP, Pending(c)' PROVE DueFrom(c, R)'
  BY <1>1, <1>3 DEF TimedAt, DueFrom
<1>4. ASSUME NEW e \in Executor, epc'[e] \in Running \cup {"scan"} PROVE WorksAt(e, T, R, C)'
  BY <1>1, <1>4 DEF TimedAt, WorksAt
<1> QED
  BY <1>2, <1>3, <1>4 DEF Timed, TimedAt

\* A new timeout is not due yet: it is not before ct_runtime, and not at the time
\* of any executor, although it is put before what these have passed.
LEMMA TimeoutTimed ==
  ASSUME Inv, NEW t \in Client, NEW d \in Delta, timeout(t, d)
  PROVE  Scanned' /\ Timed'
<1>1. PICK c \in CP, i \in ID :
        /\ c_xid[c] = NULL
        /\ c_xid' = [c_xid EXCEPT ![c] = i]
        /\ c_runtime' = [c_runtime EXCEPT ![c] = Plus(lbolt, Delay(d))]
        /\ lbhash' = <<c>> \o lbhash
  BY DEF timeout
<1>2. Free /\ UNCHANGED <<lbolt, ct_curtime, ct_runtime, executing, epc, runtime, cp, rest>>
  BY DEF timeout, ct_vars, e_vars
<1>3. /\ c_runtime \in [CP -> Time] /\ c_xid \in [CP -> ID \cup {NULL}] /\ lbhash \in Seq(CP)
      /\ c \notin ToSet(lbhash) /\ ToSet(lbhash) \subseteq CP
      /\ \A e \in Executor : epc[e] # "scan"
  BY <1>1, <1>2, LockFacts DEF Inv, Ctl, TypeOK
<1>4. PICK T, R, C \in Int : TimedAt(T, R, C)
  BY DEF Inv, Timed
<1>5. Clocks(T, R, C) /\ Delay(d) \in Int /\ Delay(d) >= 1 /\ 2 * (Delay(d) + MaxLag) < Wrap
  BY <1>4, CalloutAssumption DEF TimedAt, Delay
<1> DEFINE a == T + Delay(d)
<1>6. a \in Int /\ c_runtime'[c] = a % Wrap /\ a > T /\ a >= R /\ 2 * (a - R) < Wrap
  <2>1. Plus(lbolt, Delay(d)) = a % Wrap
    BY <1>5, ModPlus DEF Clocks
  <2>2. c_runtime'[c] = a % Wrap
    BY <1>1, <1>3, <2>1
  <2>3. a \in Int /\ a > T /\ a >= R /\ 2 * (a - R) < Wrap
    BY <1>5, WrapPositive DEF Clocks
  <2> QED
    BY <2>2, <2>3
<1>7. \A x \in CP \ {c} : c_runtime'[x] = c_runtime[x] /\ c_xid'[x] = c_xid[x]
  BY <1>1, <1>3
<1>8. ASSUME NEW e \in Executor, epc[e] \in Running PROVE runtime[e] # a % Wrap
  <2>1. PICK b \in Int : runtime[e] = b % Wrap /\ b <= C /\ (cp[e] # NULL => T - b <= MaxLag)
    BY <1>4, <1>8 DEF TimedAt, WorksAt
  <2>2. cp[e] # NULL
    BY <1>8 DEF Inv, Ctl, ExecOK
  <2>3. a - b < Wrap /\ b - a < Wrap /\ a # b
    BY <1>5, <2>1, <2>2, WrapPositive DEF Clocks
  <2> QED
    BY <1>6, <2>1, <2>3, ModSame
<1> HIDE DEF a
<1>9. Scanned'
  <2>1. ASSUME NEW e \in Executor, epc'[e] \in Running,
               NEW x \in Before(lbhash', cp'[e]), c_runtime'[x] = runtime'[e]
        PROVE  executing'[x]
    <3>1. epc[e] \in Running /\ cp'[e] = cp[e] /\ runtime'[e] = runtime[e]
      BY <1>2, <2>1
    <3>2. cp[e] \in ToSet(lbhash)
      BY <3>1, FinishFacts DEF Inv
    <3>3. x \in Before(lbhash, cp[e]) \cup {c}
      BY <1>1, <1>3, <2>1, <3>1, <3>2, PrependContents
    <3>4. x # c
      BY <1>6, <1>8, <2>1, <3>1
    <3>5. x \in CP \ {c} /\ x \in Before(lbhash, cp[e])
      BY <1>3, <3>3, <3>4 DEF Before
    <3>6. executing[x]
      BY <1>7, <2>1, <3>1, <3>5 DEF Inv, Scanned
    <3> QED
      BY <1>2, <3>6
  <2> QED
    BY <1>2, <1>3, <2>1 DEF Scanned
<1>10. Timed'
  <2>1. Clocks(T, R, C)'
    BY <1>2, <1>5 DEF Clocks
  <2>2. ASSUME NEW x \in CP, Pending(x)' PROVE DueFrom(x, R)'
    <3>1. CASE x = c
      BY <1>6, <3>1 DEF DueFrom
    <3>2. CASE x # c
      BY <1>2, <1>4, <1>7, <2>2, <3>2 DEF TimedAt, DueFrom, Pending
    <3> QED
      BY <3>1, <3>2
  <2>3. ASSUME NEW e \in Executor, epc'[e] \in Running \cup {"scan"} PROVE WorksAt(e, T, R, C)'
    BY <1>2, <1>4, <2>3 DEF TimedAt, WorksAt
  <2> QED
    BY <2>1, <2>2, <2>3 DEF Timed, TimedAt
<1> QED
  BY <1>9, <1>10

\* untimeout() passes nothing and moves no clock.
LEMMA UntimeoutTimed ==
  ASSUME Inv, NEW t \in Client,
         \/ untimeout(t) \/ UntimeoutExecuting(t)
         \/ UntimeoutWoken(t) \/ UntimeoutBogus(t)
  PROVE  Scanned' /\ Timed'
<1>1. CASE untimeout(t)
  <2>1. PICK c \in CP : c_xid[c] = id[t] /\ ~executing[c] /\ Delete(c)
    BY <1>1 DEF untimeout
  <2>2. UNCHANGED <<lbolt, ct_curtime, ct_runtime, epc, runtime, cp, rest>> /\ upc[t] = "set"
    BY <1>1 DEF untimeout, ct_vars, e_vars
  <2>3. c_xid[c] # NULL /\ ToSet(lbhash) \subseteq CP
    BY <2>1, <2>2 DEF Inv, Ctl, OwnID, TypeOK
  <2>4. /\ ToSet(lbhash') = ToSet(lbhash) \ {c}
        /\ \A d : Before(lbhash', d) \subseteq Before(lbhash, d)
        /\ c_xid'[c] = NULL
        /\ \A d \in CP \ {c} : /\ c_xid'[d] = c_xid[d] /\ executing'[d] = executing[d]
                               /\ c_runtime'[d] = c_runtime[d]
    BY <2>1, <2>3, DeleteFacts DEF Inv
  <2>5. Scanned'
    BY <2>2, <2>3, <2>4, ScannedFrame DEF Inv
  <2>6. \A x \in CP : Pending(x)' => Pending(x) /\ c_runtime'[x] = c_runtime[x]
    BY <2>4 DEF Pending
  <2>7. Timed'
    BY <2>2, <2>6, TimedFrame DEF Inv
  <2> QED
    BY <2>5, <2>7
<1>2. CASE UntimeoutExecuting(t) \/ UntimeoutWoken(t) \/ UntimeoutBogus(t)
  <2>1. UNCHANGED <<lbolt, ct_curtime, ct_runtime, lbhash, c_xid, executing, c_runtime,
                    epc, runtime, cp, rest>>
    BY <1>2 DEF UntimeoutExecuting, UntimeoutWoken, UntimeoutBogus, ct_vars, c_vars, e_vars
  <2>2. Scanned'
    BY <2>1, ScannedFrame DEF Inv
  <2>3. Timed'
    BY <2>1, TimedFrame DEF Inv, Pending
  <2> QED
    BY <2>2, <2>3
<1> QED
  BY <1>1, <1>2

\* A tick keeps the executors within the bound on the lag.
LEMMA TickTimed == ASSUME Inv, Tick PROVE Scanned' /\ Timed'
<1>1. /\ UNCHANGED <<ct_curtime, ct_runtime, lbhash, c_xid, executing, c_runtime, epc, runtime, cp, rest>>
      /\ lbolt' = IF Lagging THEN lbolt ELSE Plus(lbolt, 1)
  BY DEF Tick, ct_vars, c_vars, e_vars
<1>2. Scanned'
  BY <1>1, ScannedFrame DEF Inv
<1>3. CASE Lagging
  BY <1>1, <1>2, <1>3, TimedFrame DEF Inv, Pending
<1>4. CASE ~Lagging
  <2>1. PICK T, R, C \in Int : TimedAt(T, R, C)
    BY DEF Inv, Timed
  <2>2. Clocks(T, R, C)
    BY <2>1 DEF TimedAt
  <2>3. /\ ~(Minus(lbolt, ct_runtime) >= MaxLag)
        /\ \A e \in Executor : cp[e] # NULL => ~(Minus(lbolt, runtime[e]) >= MaxLag)
    BY <1>4 DEF Lagging
  <2>4. Clocks(T + 1, R, C)'
    <3>1. lbolt' = (T + 1) % Wrap
      BY <1>1, <1>4, <2>2, ModPlus DEF Clocks
    <3>2. Minus(lbolt, ct_runtime) = T - R
      BY <2>2, ModMinus, WrapPositive DEF Clocks
    <3>3. T + 1 - R <= MaxLag
      BY <2>3, <3>2, WrapPositive
    <3> QED
      BY <1>1, <2>2, <3>1, <3>3 DEF Clocks
  <2>5. ASSUME NEW c \in CP, Pending(c)' PROVE DueFrom(c, R)'
    BY <1>1, <2>1, <2>5 DEF TimedAt, DueFrom, Pending
  <2>6. ASSUME NEW e \in Executor, epc'[e] \in Running \cup {"scan"} PROVE WorksAt(e, T + 1, R, C)'
    <3>1. PICK b \in Int : /\ runtime[e] = b % Wrap /\ b <= R /\ b <= C /\ R - b <= MaxLag + 1
                           /\ cp[e] # NULL => T - b <= MaxLag
      BY <1>1, <2>1, <2>6 DEF TimedAt, WorksAt
    <3>2. ASSUME cp[e] # NULL PROVE T + 1 - b <= MaxLag
      <4>1. T - b <= MaxLag /\ b <= T
        BY <2>2, <3>1, <3>2 DEF Clocks
      <4>2. Minus(lbolt, runtime[e]) = T - b
        <5>1. 2 * (T - b) < Wrap /\ 2 * (b - T) < Wrap
          BY <3>1, <4>1, WrapPositive
        <5>2. Minus(T % Wrap, b % Wrap) = T - b
          BY <3>1, <5>1, ModMinus
        <5> QED
          BY <2>2, <3>1, <5>2 DEF Clocks
      <4> QED
        BY <2>3, <3>2, <4>2, WrapPositive
    <3> QED
      BY <1>1, <3>1, <3>2 DEF WorksAt
  <2> QED
    BY <1>2, <2>4, <2>5, <2>6 DEF Timed, TimedAt
<1> QED
  BY <1>3, <1>4

\* callout_schedule does not move ct_runtime beyond a callout that is due.
LEMMA ScheduleTimed == ASSUME Inv, callout_schedule PROVE Scanned' /\ Timed'
<1> DEFINE late == Minus(lbolt, ct_runtime)
           due  == {n \in 0..late : Eligible(lbhash, Plus(ct_runtime, n)) # {}}
<1>1. /\ Free /\ ct_curtime' = lbolt
      /\ ct_runtime' = IF due = {} THEN Plus(ct_runtime, IF late < 0 THEN 0 ELSE late + 1)
                                   ELSE Plus(ct_runtime, Min(due))
      /\ UNCHANGED <<lbolt, lbhash, c_xid, executing, c_runtime, epc, runtime, cp, rest>>
  BY DEF callout_schedule, c_vars, e_vars
<1>2. Scanned'
  BY <1>1, ScannedFrame DEF Inv
<1>3. PICK T, R, C \in Int : TimedAt(T, R, C)
  BY DEF Inv, Timed
<1>4. Clocks(T, R, C)
  BY <1>3 DEF TimedAt
<1>5. late = T - R
  BY <1>4, ModMinus, WrapPositive DEF Clocks
<1>6. ASSUME NEW c \in CP, Pending(c), NEW n \in 0..late, c_runtime[c] = (R + n) % Wrap
      PROVE  n \in due
  <2>1. n \in Int
    BY <1>5
  <2>2. Plus(ct_runtime, n) = (R + n) % Wrap
    BY <1>4, <2>1, ModPlus DEF Clocks
  <2>3. c \in ToSet(lbhash) /\ ~executing[c]
    BY <1>6 DEF Inv, Ctl, TypeOK, Pending
  <2>4. Eligible(lbhash, Plus(ct_runtime, n)) # {}
    BY <1>6, <2>2, <2>3 DEF Eligible, ToSet
  <2> QED
    BY <2>4
<1>7. due \in SUBSET Nat /\ due \subseteq 0..late
  BY <1>5
<1>8. due # {} => Min(due) \in due /\ \A i \in due : Min(due) <= i
  BY <1>7, MinTick
<1> HIDE DEF late, due
<1>9. PICK n \in Nat : /\ ct_runtime' = Plus(ct_runtime, n) /\ R + n <= T + 1
                        /\ \A i \in 0..late : i < n => i \notin due
  <2>1. CASE due = {} /\ late < 0
    BY <1>1, <1>4, <1>5, <2>1 DEF Clocks
  <2>2. CASE due = {} /\ late >= 0
    <3>1. late + 1 \in Nat /\ R + (late + 1) <= T + 1
      BY <1>5, <2>2
    <3> QED
      BY <1>1, <1>5, <2>2, <3>1
  <2>3. CASE due # {}
    <3>1. Min(due) \in 0..late /\ \A i \in due : Min(due) <= i
      BY <1>7, <1>8, <2>3
    <3>2. Min(due) \in Nat /\ R + Min(due) <= T + 1
      BY <1>5, <3>1
    <3>3. \A i \in 0..late : i < Min(due) => i \notin due
      BY <1>5, <3>1, <3>2
    <3> QED
      BY <1>1, <2>3, <3>2, <3>3
  <2> QED
    BY <1>5, <2>1, <2>2, <2>3
<1>11. ct_runtime' = (R + n) % Wrap
  BY <1>4, <1>9, ModPlus DEF Clocks
<1>12. Clocks(T, R + n, T)'
  <2>1. T - (R + n) <= MaxLag /\ T <= T
    BY <1>4, <1>9, WrapPositive DEF Clocks
  <2>2. lbolt' = T % Wrap /\ ct_curtime' = T % Wrap
    BY <1>1, <1>4 DEF Clocks
  <2> QED
    BY <1>9, <1>11, <2>1, <2>2 DEF Clocks
<1>13. ASSUME NEW c \in CP, Pending(c)' PROVE DueFrom(c, R + n)'
  <2>1. Pending(c) /\ c_runtime'[c] = c_runtime[c]
    BY <1>1, <1>13 DEF Pending
  <2>2. PICK a \in Int : c_runtime[c] = a % Wrap /\ R <= a /\ 2 * (a - R) < Wrap
    BY <1>3, <2>1 DEF TimedAt, DueFrom
  <2>3. R + n <= a
    <3> SUFFICES ASSUME a < R + n PROVE FALSE
      BY <1>9, <2>2
    <3>1. a - R \in 0..late /\ a - R < n /\ R + (a - R) = a
      BY <1>5, <1>9, <2>2
    <3> QED
      BY <1>6, <1>9, <2>1, <2>2, <3>1
  <2> QED
    <3>1. 2 * (a - (R + n)) < Wrap
      BY <2>2, WrapPositive
    <3> QED
      BY <2>1, <2>2, <2>3, <3>1 DEF DueFrom
<1>14. ASSUME NEW e \in Executor, epc'[e] \in Running \cup {"scan"} PROVE WorksAt(e, T, R + n, T)'
  <2>1. epc[e] \in Running /\ cp[e] # NULL
    BY <1>1, <1>14, LockFacts DEF Inv, Ctl, ExecOK
  <2>2. PICK b \in Int : /\ runtime[e] = b % Wrap /\ b <= R /\ b <= C /\ R - b <= MaxLag + 1
                         /\ T - b <= MaxLag
    BY <1>3, <2>1 DEF TimedAt, WorksAt
  <2>3. b <= R + n /\ b <= T /\ R + n - b <= MaxLag + 1
    BY <1>4, <1>9, <2>2, WrapPositive DEF Clocks
  <2> QED
    BY <1>1, <2>2, <2>3 DEF WorksAt
<1>15. R + n \in Int
  BY <1>9
<1> QED
  BY <1>2, <1>12, <1>13, <1>14, <1>15 DEF Timed, TimedAt

\* The test of the loop: an executor takes up ct_runtime only when that has come.
LEMMA LoopTimed ==
  ASSUME Inv, NEW e \in Executor, Loop(e)
  PROVE  Scanned' /\ Timed'
<1>1. UNCHANGED <<lbolt, ct_curtime, ct_runtime, lbhash, c_xid, executing, c_runtime, cp>> /\ epc[e] = "loop"
  BY DEF Loop, c_vars
<1>2. /\ epc \in [Executor -> {"idle", "loop", "scan", "handler", "returning"}]
      /\ runtime \in [Executor -> Time] /\ rest \in [Executor -> Seq(CP)]
  BY DEF Inv, Ctl, TypeOK
<1>3. \A f \in Executor \ {e} : epc'[f] = epc[f] /\ runtime'[f] = runtime[f] /\ rest'[f] = rest[f]
  BY <1>2 DEF Loop, EGoto
<1>4. CASE Minus(ct_runtime, ct_curtime) <= 0
  <2>1. epc'[e] = "scan" /\ runtime'[e] = ct_runtime /\ rest'[e] = lbhash
    BY <1>2, <1>4 DEF Loop, EGoto
  <2>2. Scanned'
    BY <1>1, <1>3, <2>1 DEF Inv, Scanned, Running
  <2>3. PICK T, R, C \in Int : TimedAt(T, R, C)
    BY DEF Inv, Timed
  <2>4. Clocks(T, R, C)
    BY <2>3 DEF TimedAt
  <2>5. Minus(ct_runtime, ct_curtime) = R - C
    <3>1. 2 * (R - C) < Wrap /\ 2 * (C - R) < Wrap
      BY <2>4, WrapPositive DEF Clocks
    <3> QED
      BY <2>4, <3>1, ModMinus DEF Clocks
  <2>6. R <= C /\ R <= R /\ R - R <= MaxLag + 1
    BY <1>4, <2>5, WrapPositive
  <2>7. cp[e] = NULL
    BY <1>1 DEF Inv, Ctl, ExecOK, Running
  <2>8. ASSUME NEW f \in Executor, epc'[f] \in Running \cup {"scan"} PROVE WorksAt(f, T, R, C)'
    <3>1. CASE f = e
      <4>1. runtime'[e] = R % Wrap /\ ~(cp'[e] # NULL)
        BY <1>1, <2>1, <2>4, <2>7 DEF Clocks
      <4> QED
        BY <2>6, <3>1, <4>1 DEF WorksAt
    <3>2. CASE f # e
      BY <1>1, <1>3, <2>3, <2>8, <3>2 DEF TimedAt, WorksAt
    <3> QED
      BY <3>1, <3>2
  <2>9. Clocks(T, R, C)'
    BY <1>1, <2>4 DEF Clocks
  <2>10. ASSUME NEW c \in CP, Pending(c)' PROVE DueFrom(c, R)'
    BY <1>1, <2>3, <2>10 DEF TimedAt, DueFrom, Pending
  <2> QED
    BY <2>2, <2>8, <2>9, <2>10 DEF Timed, TimedAt
<1>5. CASE ~(Minus(ct_runtime, ct_curtime) <= 0)
  <2>1. epc'[e] = "idle"
    BY <1>2, <1>5 DEF Loop, EGoto
  <2>2. Scanned'
    BY <1>1, <1>3, <2>1, ScannedFrame DEF Inv, Running
  <2>3. Timed'
    BY <1>1, <1>3, <2>1, TimedFrame DEF Inv, Pending, Running
  <2> QED
    BY <2>2, <2>3
<1> QED
  BY <1>4, <1>5

\* A pending callout at the time an executor works on is due at ct_runtime.
LEMMA DueNow ==
  ASSUME NEW T \in Int, NEW R \in Int, NEW C \in Int, TimedAt(T, R, C),
         NEW e \in Executor, epc[e] \in Running \cup {"scan"},
         NEW c \in CP, Pending(c), c_runtime[c] = runtime[e]
  PROVE  runtime[e] = R % Wrap /\ R <= C /\ T - R <= MaxLag /\ C <= T
<1>1. PICK a \in Int : c_runtime[c] = a % Wrap /\ R <= a /\ 2 * (a - R) < Wrap
  BY DEF TimedAt, DueFrom
<1>2. PICK b \in Int : runtime[e] = b % Wrap /\ b <= R /\ b <= C /\ R - b <= MaxLag + 1
  BY DEF TimedAt, WorksAt
<1>3. a - b < Wrap /\ b - a < Wrap
  BY <1>1, <1>2, WrapPositive
<1>4. a = b
  BY <1>1, <1>2, <1>3, ModSame
<1>5. R = b
  BY <1>1, <1>2, <1>4
<1> QED
  BY <1>2, <1>5 DEF TimedAt, Clocks

\* The handler that is started is due, and all that is before it has been passed.
LEMMA StartTimed == ASSUME Inv, NEW e \in Executor, Start(e) PROVE Scanned' /\ Timed'
<1> DEFINE q == rest[e]
           m == Min(Eligible(rest[e], runtime[e]))
           next == rest[e][Min(Eligible(rest[e], runtime[e]))]
<1>1. /\ epc[e] = "scan" /\ Eligible(rest[e], runtime[e]) # {}
      /\ executing' = [executing EXCEPT ![next] = TRUE]
      /\ cp' = [cp EXCEPT ![e] = next]
      /\ epc' = [epc EXCEPT ![e] = "handler"]
      /\ UNCHANGED <<lbolt, ct_curtime, ct_runtime, lbhash, c_xid, c_runtime, runtime>>
  BY DEF Start, EGoto
<1>2. /\ m \in 1..Len(q) /\ next \in CP /\ next \in ToSet(lbhash)
      /\ Pending(next) /\ c_runtime[next] = runtime[e] /\ next = q[m]
      /\ \A i \in 1..Len(q) : c_runtime[q[i]] = runtime[e] /\ ~executing[q[i]] => m <= i
  BY <1>1, NextFacts DEF Inv
<1>3. /\ epc \in [Executor -> {"idle", "loop", "scan", "handler", "returning"}]
      /\ cp \in [Executor -> CP \cup {NULL}] /\ executing \in [CP -> BOOLEAN]
      /\ q \in Seq(CP) /\ ToSet(lbhash) \subseteq CP
  BY DEF Inv, Ctl, TypeOK
<1> HIDE DEF next, m
<1>4. /\ epc'[e] = "handler" /\ cp'[e] = next /\ executing'[next]
      /\ \A f \in Executor \ {e} : epc'[f] = epc[f] /\ cp'[f] = cp[f] /\ epc[f] # "scan"
      /\ \A c \in CP : executing[c] => executing'[c]
      /\ \A c \in CP : ~executing'[c] => ~executing[c]
  BY <1>1, <1>2, <1>3, LockFacts DEF Inv
<1>5. ASSUME NEW x \in Before(lbhash, next), c_runtime[x] = runtime[e] PROVE executing[x]
  <2>1. x \in ToSet(lbhash) /\ x \in CP
    BY <1>3 DEF Before
  <2>2. CASE x \notin ToSet(q)
    BY <1>1, <1>5, <2>1, <2>2 DEF Inv, Scanned
  <2>3. CASE x \in ToSet(q)
    <3>1. PICK i \in 1..Len(q) : x = q[i]
      BY <1>3, <2>3, LenProperties DEF ToSet
    <3>2. i < m
      BY <1>1, <1>2, <3>1 DEF Inv, Ctl, RestOK, Agree
    <3>3. ~(m <= i)
      BY <1>2, <3>2
    <3> QED
      BY <1>2, <1>5, <3>1, <3>3
  <2> QED
    BY <2>2, <2>3
<1>6. Scanned'
  <2>1. ASSUME NEW f \in Executor, epc'[f] \in Running, NEW x \in Before(lbhash, cp'[f]),
               c_runtime[x] = runtime[f]
        PROVE  executing'[x]
    <3>1. x \in CP
      BY <1>3 DEF Before
    <3>2. executing[x]
      BY <1>4, <1>5, <2>1 DEF Inv, Scanned
    <3> QED
      BY <1>4, <3>1, <3>2
  <2>2. \A f \in Executor : epc'[f] # "scan"
    BY <1>4
  <2> QED
    BY <1>1, <2>1, <2>2 DEF Scanned
<1>7. Timed'
  <2>1. PICK T, R, C \in Int : TimedAt(T, R, C)
    BY DEF Inv, Timed
  <2>2. epc[e] \in Running \cup {"scan"}
    BY <1>1
  <2>3. runtime[e] = R % Wrap /\ R <= C /\ T - R <= MaxLag
    BY <1>2, <2>1, <2>2, DueNow
  <2>4. R <= R /\ R - R <= MaxLag + 1
    BY WrapPositive
  <2>5. ASSUME NEW f \in Executor, epc'[f] \in Running \cup {"scan"} PROVE WorksAt(f, T, R, C)'
    <3>1. CASE f = e
      BY <1>1, <2>3, <2>4, <3>1 DEF WorksAt
    <3>2. CASE f # e
      BY <1>1, <1>4, <2>1, <2>5, <3>2 DEF TimedAt, WorksAt
    <3> QED
      BY <3>1, <3>2
  <2>6. Clocks(T, R, C)'
    BY <1>1, <2>1 DEF TimedAt, Clocks
  <2>7. ASSUME NEW c \in CP, Pending(c)' PROVE DueFrom(c, R)'
    BY <1>1, <1>4, <2>1, <2>7 DEF TimedAt, DueFrom, Pending
  <2> QED
    BY <2>5, <2>6, <2>7 DEF Timed, TimedAt
<1> QED
  BY <1>6, <1>7

\* At the end of the chain nothing is left that is due at ct_runtime.
LEMMA AdvanceTimed == ASSUME Inv, NEW e \in Executor, Advance(e) PROVE Scanned' /\ Timed'
<1>1. /\ epc[e] = "scan" /\ Eligible(rest[e], runtime[e]) = {}
      /\ ct_runtime' = IF ct_runtime = runtime[e] THEN Plus(ct_runtime, 1) ELSE ct_runtime
      /\ rest' = [rest EXCEPT ![e] = <<>>] /\ epc' = [epc EXCEPT ![e] = "loop"]
      /\ UNCHANGED <<lbolt, ct_curtime, lbhash, c_xid, executing, c_runtime, runtime, cp>>
  BY DEF Advance, EGoto, c_vars
<1>2. /\ epc \in [Executor -> {"idle", "loop", "scan", "handler", "returning"}]
      /\ rest \in [Executor -> Seq(CP)]
  BY DEF Inv, Ctl, TypeOK
<1>3. /\ epc'[e] = "loop" /\ \A f \in Executor \ {e} : epc'[f] = epc[f] /\ rest'[f] = rest[f]
      /\ \A f \in Executor \ {e} : epc[f] # "scan"
  BY <1>1, <1>2, LockFacts DEF Inv
<1>4. Scanned'
  BY <1>1, <1>3, ScannedFrame DEF Inv, Running
<1>5. CASE ct_runtime # runtime[e]
  BY <1>1, <1>3, <1>4, <1>5, TimedFrame DEF Inv, Pending, Running
<1>6. CASE ct_runtime = runtime[e]
  <2>1. PICK T, R, C \in Int : TimedAt(T, R, C)
    BY DEF Inv, Timed
  <2>2. Clocks(T, R, C)
    BY <2>1 DEF TimedAt
  <2>3. R <= C
    <3>1. PICK b \in Int : runtime[e] = b % Wrap /\ b <= R /\ b <= C /\ R - b <= MaxLag + 1
      BY <1>1, <2>1 DEF TimedAt, WorksAt
    <3>2. R - b < Wrap /\ b - R < Wrap
      BY <3>1, WrapPositive
    <3>3. R % Wrap = b % Wrap
      BY <1>6, <2>2, <3>1 DEF Clocks
    <3>4. R = b
      BY <3>1, <3>2, <3>3, ModSame
    <3> QED
      BY <3>1, <3>4
  <2>4. Clocks(T, R + 1, C)'
    <3>1. ct_runtime' = (R + 1) % Wrap
      BY <1>1, <1>6, <2>2, ModPlus DEF Clocks
    <3>2. R + 1 <= C + 1 /\ T - (R + 1) <= MaxLag
      BY <2>2, <2>3, WrapPositive DEF Clocks
    <3> QED
      BY <1>1, <2>2, <3>1, <3>2 DEF Clocks
  <2>5. ASSUME NEW c \in CP, Pending(c)' PROVE DueFrom(c, R + 1)'
    <3>1. Pending(c) /\ c_runtime'[c] = c_runtime[c]
      BY <1>1, <2>5 DEF Pending
    <3>2. PICK a \in Int : c_runtime[c] = a % Wrap /\ R <= a /\ 2 * (a - R) < Wrap
      BY <2>1, <3>1 DEF TimedAt, DueFrom
    <3>3. c_runtime[c] # runtime[e]
      <4> SUFFICES ASSUME c_runtime[c] = runtime[e] PROVE FALSE
        OBVIOUS
      <4>1. c \in ToSet(lbhash) /\ ~executing[c]
        BY <3>1 DEF Inv, Ctl, TypeOK, Pending
      <4>2. c \in ToSet(rest[e])
        BY <1>1, <4>1 DEF Inv, Scanned
      <4> QED
        BY <1>1, <4>1, <4>2 DEF Eligible, ToSet
    <3>4. a # R
      BY <1>6, <2>2, <3>2, <3>3 DEF Clocks
    <3>5. R + 1 <= a /\ 2 * (a - (R + 1)) < Wrap
      BY <3>2, <3>4, WrapPositive
    <3> QED
      BY <3>1, <3>2, <3>5 DEF DueFrom
  <2>6. ASSUME NEW f \in Executor, epc'[f] \in Running \cup {"scan"} PROVE WorksAt(f, T, R + 1, C)'
    <3>1. f # e /\ epc[f] \in Running /\ cp[f] # NULL
      BY <1>3, <2>6 DEF Inv, Ctl, ExecOK, Running
    <3>2. PICK b \in Int : /\ runtime[f] = b % Wrap /\ b <= R /\ b <= C /\ R - b <= MaxLag + 1
                           /\ T - b <= MaxLag
      BY <2>1, <3>1 DEF TimedAt, WorksAt
    <3>3. b <= R + 1 /\ R + 1 - b <= MaxLag + 1
      BY <2>2, <2>3, <3>2, WrapPositive DEF Clocks
    <3> QED
      BY <1>1, <3>2, <3>3 DEF WorksAt
  <2> QED
    BY <1>4, <2>4, <2>5, <2>6 DEF Timed, TimedAt
<1> QED
  BY <1>5, <1>6

\* A finished handler goes on behind its callout.
LEMMA FinishTimed == ASSUME Inv, NEW e \in Executor, Finish(e) PROVE Scanned' /\ Timed'
<1> DEFINE c == cp[e]
<1>1. /\ epc[e] \in Running /\ Free /\ Delete(c)
      /\ rest' = [rest EXCEPT ![e] = After(lbhash, c)]
      /\ cp' = [cp EXCEPT ![e] = NULL] /\ epc' = [epc EXCEPT ![e] = "scan"]
      /\ UNCHANGED <<lbolt, ct_curtime, ct_runtime, runtime>>
  BY DEF Finish, EGoto, Running
<1>2. c \in CP /\ c_xid[c] # NULL /\ c \in ToSet(lbhash)
  BY <1>1, FinishFacts DEF Inv
<1>3. /\ epc \in [Executor -> {"idle", "loop", "scan", "handler", "returning"}]
      /\ cp \in [Executor -> CP \cup {NULL}] /\ rest \in [Executor -> Seq(CP)]
      /\ lbhash \in Seq(CP) /\ IsInjective(lbhash) /\ ToSet(lbhash) \subseteq CP
  BY DEF Inv, Ctl, TypeOK
<1>4. ToSet(lbhash) \ ToSet(After(lbhash, c)) \subseteq Before(lbhash, c) \cup {c}
  BY <1>2, <1>3, AfterContents
<1>5. /\ epc'[e] = "scan" /\ cp'[e] = NULL /\ rest'[e] = After(lbhash, c)
      /\ \A f \in Executor \ {e} : epc'[f] = epc[f] /\ cp'[f] = cp[f] /\ epc[f] # "scan"
  BY <1>1, <1>3, LockFacts DEF Inv
<1>6. /\ ToSet(lbhash') = ToSet(lbhash) \ {c}
      /\ \A d : Before(lbhash', d) \subseteq Before(lbhash, d)
      /\ c_xid'[c] = NULL
      /\ \A d \in CP \ {c} : /\ c_xid'[d] = c_xid[d] /\ executing'[d] = executing[d]
                             /\ c_runtime'[d] = c_runtime[d]
  BY <1>1, <1>2, DeleteFacts DEF Inv
<1>7. Scanned'
  <2>1. ASSUME NEW x \in ToSet(lbhash') \ ToSet(rest'[e]), c_runtime'[x] = runtime'[e]
        PROVE  executing'[x]
    <3>1. x \in CP \ {c} /\ x \in Before(lbhash, cp[e])
      BY <1>3, <1>4, <1>5, <1>6
    <3>2. executing[x]
      BY <1>1, <1>6, <2>1, <3>1 DEF Inv, Scanned
    <3> QED
      BY <1>6, <3>1, <3>2
  <2>2. ASSUME NEW f \in Executor, epc'[f] \in Running,
               NEW x \in Before(lbhash', cp'[f]), c_runtime'[x] = runtime'[f]
        PROVE  executing'[x]
    <3>1. f # e /\ epc[f] \in Running /\ cp'[f] = cp[f]
      BY <1>5, <2>2 DEF Running
    <3>2. x \in ToSet(lbhash') /\ x \in Before(lbhash, cp[f])
      <4>1. x \in Before(lbhash', cp[f])
        BY <2>2, <3>1
      <4>2. x \in Before(lbhash, cp[f])
        BY <1>6, <4>1
      <4> QED
        BY <4>1, <4>2 DEF Before
    <3>3. x \in CP \ {c}
      BY <1>3, <1>6, <3>2
    <3>4. executing[x]
      BY <1>1, <1>6, <2>2, <3>1, <3>2, <3>3 DEF Inv, Scanned
    <3> QED
      BY <1>6, <3>3, <3>4
  <2>3. \A f \in Executor : epc'[f] = "scan" => f = e
    BY <1>5
  <2> QED
    BY <2>1, <2>2, <2>3 DEF Scanned
<1>8. Timed'
  <2>1. \A x \in CP : Pending(x)' => Pending(x) /\ c_runtime'[x] = c_runtime[x]
    BY <1>6 DEF Pending
  <2>2. ASSUME NEW f \in Executor, epc'[f] \in Running \cup {"scan"}
        PROVE  /\ epc[f] \in Running \cup {"scan"} /\ runtime'[f] = runtime[f]
               /\ cp'[f] # NULL => cp[f] # NULL
    BY <1>1, <1>5, <2>2
  <2> QED
    BY <1>1, <2>1, <2>2, TimedFrame DEF Inv
<1> QED
  BY <1>7, <1>8

\* The other steps pass nothing and move no clock.
LEMMA OtherTimed ==
  ASSUME Inv,
         \/ Dispatch \/ callout_cpr_callb \/ UNCHANGED vars
         \/ \E e \in Executor : callout_execute(e) \/ UntimeoutSelf(e)
  PROVE  Scanned' /\ Timed'
<1> DEFINE Same == UNCHANGED <<lbolt, ct_curtime, ct_runtime, lbhash, c_xid, executing, c_runtime,
                               runtime, cp, rest>>
<1>1. /\ Same
      /\ \A f \in Executor : /\ epc'[f] = "scan" => epc[f] = "scan"
                             /\ epc'[f] \in Running => epc[f] \in Running
  <2>1. epc \in [Executor -> {"idle", "loop", "scan", "handler", "returning"}]
    BY DEF Inv, Ctl, TypeOK
  <2>2. CASE Dispatch \/ callout_cpr_callb \/ UNCHANGED vars
    BY <2>2 DEF Dispatch, callout_cpr_callb, vars, ct_vars, c_vars, e_vars
  <2>3. ASSUME NEW e \in Executor, callout_execute(e)
        PROVE  Same /\ \A f \in Executor : /\ epc'[f] = "scan" => epc[f] = "scan"
                                           /\ epc'[f] \in Running => epc[f] \in Running
    BY <2>1, <2>3 DEF callout_execute, EGoto, c_vars, Running
  <2>4. ASSUME NEW e \in Executor, UntimeoutSelf(e)
        PROVE  Same /\ \A f \in Executor : /\ epc'[f] = "scan" => epc[f] = "scan"
                                           /\ epc'[f] \in Running => epc[f] \in Running
    BY <2>1, <2>4 DEF UntimeoutSelf, EGoto, ct_vars, c_vars, Running
  <2> QED
    BY <2>2, <2>3, <2>4
<1>2. Scanned'
  BY <1>1, ScannedFrame DEF Inv
<1>3. Timed'
  BY <1>1, TimedFrame DEF Inv, Pending
<1> QED
  BY <1>2, <1>3

----------------------------------------------------------------------------
(* Theorems *)

\* The invariant holds when the table is empty.
LEMMA InvInit == Init => Inv
<1> SUFFICES ASSUME Init PROVE Inv
  OBVIOUS
<1>1. /\ lbhash = <<>> /\ lbhash \in Seq(CP) /\ ToSet(lbhash) = {} /\ IsInjective(lbhash)
  BY DEF Init, ToSet, IsInjective
<1>2. Cardinality(Executor) \in Nat
  BY CalloutAssumption, FS_CardinalityType
<1>3. TypeOK
  <2>1. {lbolt, ct_curtime, ct_runtime} \subseteq Time /\ c_runtime \in [CP -> Time]
        /\ runtime \in [Executor -> Time]
    BY TimeTypes DEF Init
  <2>2. queued \in 0..2 * Cardinality(Executor)
    BY <1>2 DEF Init
  <2>3. ToSet(lbhash) = {c \in CP : c_xid[c] # NULL}
    BY <1>1 DEF Init
  <2>4. rest \in [Executor -> Seq(CP)]
    BY DEF Init
  <2> QED
    BY <1>1, <2>1, <2>2, <2>3, <2>4 DEF Init, TypeOK
<1>4. LockOK /\ ExecOK /\ RestOK /\ OwnID /\ WaitOK
  BY CalloutAssumption
     DEF Init, LockOK, ExecOK, RestOK, OwnID, WaitOK, QuietAfterUntimeout, NoMissedDone, Running
<1>5. Scanned
  BY DEF Init, Scanned, Running
<1>6. Timed
  <2>1. 0 % Wrap = 0
    BY WrapPositive
  <2>2. Clocks(0, 0, 0)
    BY <2>1, WrapPositive DEF Init, Clocks
  <2>3. \A c \in CP : ~Pending(c)
    BY DEF Init, Pending
  <2>4. \A e \in Executor : epc[e] \notin Running \cup {"scan"}
    BY DEF Init, Running
  <2> QED
    BY <2>2, <2>3, <2>4 DEF Timed, TimedAt
<1> QED
  BY <1>3, <1>4, <1>5, <1>6 DEF Inv, Ctl

\* Every step keeps the invariant.
LEMMA InvStep == Inv /\ [Next]_vars => Inv'
<1> SUFFICES ASSUME Inv, [Next]_vars PROVE Inv'
  OBVIOUS
<1>1. Ctl'
  BY CtlStep DEF Inv
<1>2. Scanned' /\ Timed'
  <2>1. ASSUME NEW t \in Client, NEW d \in Delta, timeout(t, d) PROVE Scanned' /\ Timed'
    BY <2>1, TimeoutTimed
  <2>2. ASSUME NEW t \in Client, \/ untimeout(t) \/ UntimeoutExecuting(t)
                                 \/ UntimeoutWoken(t) \/ UntimeoutBogus(t)
        PROVE  Scanned' /\ Timed'
    BY <2>2, UntimeoutTimed
  <2>3. CASE Clock \/ callout_cpr_callb \/ UNCHANGED vars
    BY <2>3, TickTimed, ScheduleTimed, OtherTimed DEF Clock
  <2>4. ASSUME NEW e \in Executor, Execute(e) PROVE Scanned' /\ Timed'
    BY <2>4, OtherTimed, LoopTimed, StartTimed, AdvanceTimed, FinishTimed DEF Execute
  <2> QED
    BY <2>1, <2>2, <2>3, <2>4 DEF Next
<1> QED
  BY <1>1, <1>2 DEF Inv

\* The invariant of the callout table.
THEOREM Invariance == Spec => []Inv
  BY InvInit, InvStep, PTL DEF Spec

\* Every variable stays in its range, and the hash chain has exactly the
\* callouts in use.
THEOREM TypeCorrect == Spec => []TypeOK
<1>1. Inv => TypeOK
  BY DEF Inv, Ctl
<1> QED
  BY <1>1, Invariance, PTL

\* ct_runtime never moves beyond a callout that is not yet executing.
THEOREM NoMissedCalloutThm == Spec => []NoMissedCallout
<1>1. Inv => NoMissedCallout
  <2> SUFFICES ASSUME Inv, NEW c \in CP, Pending(c) PROVE Minus(c_runtime[c], ct_runtime) >= 0
    BY DEF NoMissedCallout
  <2>1. PICK T, R, C \in Int : TimedAt(T, R, C)
    BY DEF Inv, Timed
  <2>2. PICK a \in Int : c_runtime[c] = a % Wrap /\ R <= a /\ 2 * (a - R) < Wrap
    BY <2>1 DEF TimedAt, DueFrom
  <2>3. Minus(c_runtime[c], ct_runtime) = a - R
    <3>1. 2 * (R - a) < Wrap
      BY <2>2, WrapPositive
    <3>2. ct_runtime = R % Wrap
      BY <2>1 DEF TimedAt, Clocks
    <3> QED
      BY <2>2, <3>1, <3>2, ModMinus
  <2> QED
    BY <2>2, <2>3
<1> QED
  BY <1>1, Invariance, PTL

\* When untimeout() has returned, the handler neither runs nor will run.
THEOREM QuietAfterUntimeoutThm == Spec => []QuietAfterUntimeout
<1>1. Inv => QuietAfterUntimeout
  BY DEF Inv, Ctl, OwnID
<1> QED
  BY <1>1, Invariance, PTL

\* A callout is executed by one thread.
THEOREM OneExecutorThm == Spec => []OneExecutor
<1>1. Inv => OneExecutor
  BY DEF Inv, Ctl, ExecOK, OneExecutor
<1> QED
  BY <1>1, Invariance, PTL

\* Who sleeps on c_done waits for a callout that is still executing.
THEOREM NoMissedDoneThm == Spec => []NoMissedDone
<1>1. Inv => NoMissedDone
  BY DEF Inv, Ctl, WaitOK
<1> QED
  BY <1>1, Invariance, PTL

\* Only Start begins to execute a callout.
LEMMA OnlyStart ==
  ASSUME Inv, [Next]_vars, NEW c \in CP, executing'[c], ~executing[c]
  PROVE  \E e \in Executor : Start(e)
<1>1. ASSUME NEW x \in CP, c_xid[x] # NULL, Delete(x) PROVE FALSE
  <2>1. ~executing'[x] /\ \A d \in CP \ {x} : executing'[d] = executing[d]
    BY <1>1, DeleteFacts DEF Inv
  <2> QED
    BY <2>1
<1>2. ASSUME executing' = executing PROVE FALSE
  BY <1>2
<1>3. ASSUME NEW t \in Client, untimeout(t) PROVE FALSE
  <2>1. PICK x \in CP : c_xid[x] = id[t] /\ Delete(x)
    BY <1>3 DEF untimeout
  <2>2. id[t] # NULL
    BY <1>3 DEF untimeout, Inv, Ctl, OwnID
  <2> QED
    BY <1>1, <2>1, <2>2
<1>4. ASSUME NEW e \in Executor, Finish(e) PROVE FALSE
  <2>1. Delete(cp[e]) /\ epc[e] \in Running
    BY <1>4 DEF Finish, Running
  <2> QED
    BY <1>1, <2>1, FinishFacts DEF Inv
<1>5. ASSUME NEW t \in Client,
             \/ \E d \in Delta : timeout(t, d)
             \/ UntimeoutExecuting(t) \/ UntimeoutWoken(t) \/ UntimeoutBogus(t)
      PROVE  FALSE
  BY <1>2, <1>5 DEF timeout, UntimeoutExecuting, UntimeoutWoken, UntimeoutBogus, c_vars
<1>6. ASSUME Clock \/ callout_cpr_callb \/ UNCHANGED vars PROVE FALSE
  BY <1>2, <1>6 DEF Clock, Tick, callout_schedule, Dispatch, callout_cpr_callb, vars, c_vars
<1>7. ASSUME NEW e \in Executor, callout_execute(e) \/ Loop(e) \/ Advance(e) \/ UntimeoutSelf(e) PROVE FALSE
  BY <1>2, <1>7 DEF callout_execute, Loop, Advance, UntimeoutSelf, c_vars
<1> QED
  BY <1>3, <1>4, <1>5, <1>6, <1>7 DEF Next, Execute

\* A handler is not called before its time.
THEOREM NotEarlyThm == Spec => NotEarly
<1>1. ASSUME Inv, [Next]_vars, NEW c \in CP, executing'[c], ~executing[c]
      PROVE  Minus(c_runtime[c], lbolt) <= 0
  <2>1. PICK e \in Executor : Start(e)
    BY <1>1, OnlyStart
  <2> DEFINE next == rest[e][Min(Eligible(rest[e], runtime[e]))]
  <2>2. /\ epc[e] = "scan" /\ Eligible(rest[e], runtime[e]) # {}
        /\ executing' = [executing EXCEPT ![next] = TRUE]
    BY <2>1 DEF Start
  <2>3. next \in CP /\ Pending(next) /\ c_runtime[next] = runtime[e]
    BY <1>1, <2>2, NextFacts DEF Inv
  <2> HIDE DEF next
  <2>4. c = next
    BY <1>1, <2>2 DEF Inv, Ctl, TypeOK
  <2>5. PICK T, R, C \in Int : TimedAt(T, R, C)
    BY <1>1 DEF Inv, Timed
  <2>6. epc[e] \in Running \cup {"scan"}
    BY <2>2
  <2>7. runtime[e] = R % Wrap /\ R <= C /\ T - R <= MaxLag /\ C <= T
    BY <2>3, <2>5, <2>6, DueNow
  <2>8. Minus(R % Wrap, T % Wrap) = R - T
    BY <2>7, ModMinus, WrapPositive
  <2>9. lbolt = T % Wrap
    BY <2>5 DEF TimedAt, Clocks
  <2> QED
    BY <2>3, <2>4, <2>7, <2>8, <2>9
<1>2. Inv /\ [Next]_vars => [\A c \in CP : executing'[c] /\ ~executing[c]
                                => Minus(c_runtime[c], lbolt) <= 0]_vars
  BY <1>1
<1> QED
  BY <1>2, Invariance, PTL DEF Spec, NotEarly
=============================================================================
