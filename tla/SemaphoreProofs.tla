--------------------------- MODULE SemaphoreProofs ---------------------------
(***************************************************************************)
(* Proofs about Semaphore for any finite set of threads, any initial count *)
(* and any priorities.                                                     *)
(*                                                                         *)
(* TypeOK is inductive with the order of the queue.  NoLostWakeup is       *)
(* inductive relative to both: a step that takes a thread out of InFlight  *)
(* takes a unit, wakes another thread, or leaves no unit or no sleeper.    *)
(***************************************************************************)
EXTENDS Semaphore, PriQueueProofs

\* The sleep queue is in the order of the priorities.
Ordered == Sorted(s_slpq, pri)

\* What the queue lemmas need of the state.
QueueOK == /\ s_slpq \in Seq(Thread) /\ IsInjective(s_slpq)
           /\ pri \in [Thread -> Int] /\ Ordered

\* Everything but the queue has its type.
Types == /\ s_count \in Nat
         /\ pri \in [Thread -> Pri] /\ sig \in [Thread -> BOOLEAN]
         /\ pc \in [Thread -> PC] /\ kind \in [Thread -> {"sema_p", "sema_p_sig"}]

\* Only threads between SEMA_BLOCK and the return of swtch() are queued.
Queued == \A t \in ToSet(s_slpq) : pc[t] \in {"looking", "swtch"}

Ctl == Types /\ QueueOK /\ Queued

\* The control invariant contains the type invariant.
LEMMA CtlType == Ctl => TypeOK /\ Ordered
BY DEF Ctl, Types, QueueOK, Queued, TypeOK

\* The sleepers are threads.
LEMMA Sleepers == Ctl => ToSet(s_slpq) \subseteq Thread
BY LenProperties, ElementOfSeq DEF ToSet, Ctl, QueueOK

\* The control invariant holds initially.
LEMMA InitCtl == Init => Ctl
<1> SUFFICES ASSUME Init PROVE Ctl
  OBVIOUS
<1>1. s_slpq = <<>> /\ Len(s_slpq) = 0 /\ DOMAIN s_slpq = {}
  BY DEF Init
<1>2. Types
  BY SemaAssumption DEF Init, Types, PC
<1>3. QueueOK
  <2>1. pri \in [Thread -> Int]
    <3>1. pri \in [Thread -> Pri] /\ Pri \subseteq Int
      BY SemaAssumption DEF Init
    <3>2. \A t \in Thread : pri[t] \in Int
      BY <3>1
    <3> QED
      BY <3>1, <3>2
  <2>2. s_slpq \in Seq(Thread) /\ IsInjective(s_slpq)
    BY <1>1 DEF IsInjective
  <2>3. Ordered
    BY <1>1 DEF Ordered, Sorted
  <2> QED
    BY <2>1, <2>2, <2>3 DEF QueueOK
<1>4. Queued
  BY <1>1 DEF Queued, ToSet
<1> QED
  BY <1>2, <1>3, <1>4 DEF Ctl

\* The steps that leave the queue and the priorities alone keep it in order.
LEMMA SameQueue == ASSUME QueueOK, UNCHANGED <<s_slpq, pri>> PROVE QueueOK'
BY DEF QueueOK, Ordered

\* SEMA_BLOCK keeps the queue in order.
LEMMA BlockQueue ==
  ASSUME QueueOK, NEW t \in Thread, t \notin ToSet(s_slpq),
         s_slpq' = Insert(s_slpq, t, pri), pri' = pri
  PROVE  QueueOK' /\ ToSet(s_slpq') = ToSet(s_slpq) \cup {t}
<1>1. s_slpq' \in Seq(Thread)
  BY InsertContents DEF QueueOK
<1>2. ToSet(s_slpq') = ToSet(s_slpq) \cup {t}
  BY InsertContents DEF QueueOK
<1>3. IsInjective(s_slpq')
  BY InsertContents DEF QueueOK
<1>4. Sorted(s_slpq', pri')
  BY InsertSorted DEF QueueOK, Ordered
<1> QED
  BY <1>1, <1>2, <1>3, <1>4 DEF QueueOK, Ordered

\* A sleeper made runnable by a signal leaves a queue in order.
LEMMA UnsleepQueue ==
  ASSUME QueueOK, NEW t, s_slpq' = Dequeue(s_slpq, t), pri' = pri
  PROVE  QueueOK' /\ ToSet(s_slpq') = ToSet(s_slpq) \ {t}
<1>1. s_slpq' \in Seq(Thread) /\ IsInjective(s_slpq')
  BY DequeueContents DEF QueueOK
<1>2. ToSet(s_slpq') = ToSet(s_slpq) \ {t}
  BY DequeueContents DEF QueueOK
<1>3. Sorted(s_slpq', pri')
  BY DequeueContents DEF QueueOK, Ordered
<1> QED
  BY <1>1, <1>2, <1>3 DEF QueueOK, Ordered

\* The wakeup of the first sleeper leaves a queue in order, and nobody of a
\* higher priority in it.
LEMMA WakeQueue ==
  ASSUME QueueOK, s_slpq # <<>>, s_slpq' = Tail(s_slpq), pri' = pri
  PROVE  /\ QueueOK'
         /\ Head(s_slpq) \in ToSet(s_slpq)
         /\ ToSet(s_slpq') = ToSet(s_slpq) \ {Head(s_slpq)}
         /\ \A u \in ToSet(s_slpq) : pri[Head(s_slpq)] >= pri[u]
<1>1. s_slpq' \in Seq(Thread) /\ IsInjective(s_slpq')
  BY TailContents DEF QueueOK
<1>2. Head(s_slpq) \in ToSet(s_slpq)
  BY TailContents DEF QueueOK
<1>3. ToSet(s_slpq') = ToSet(s_slpq) \ {Head(s_slpq)}
  BY TailContents DEF QueueOK
<1>4. Sorted(s_slpq', pri')
  BY TailContents DEF QueueOK, Ordered
<1>5. \A u \in ToSet(s_slpq) : pri[Head(s_slpq)] >= pri[u]
  BY HeadHighest DEF QueueOK, Ordered
<1> QED
  BY <1>1, <1>2, <1>3, <1>4, <1>5 DEF QueueOK, Ordered

\* sema_change_pri keeps the queue in order and its threads in it.
LEMMA ChangePriQueue ==
  ASSUME Ctl, NEW t \in Thread, NEW p \in Pri, sema_change_pri(t, p)
  PROVE  QueueOK' /\ ToSet(s_slpq') = ToSet(s_slpq)
<1>1. /\ pri \in [Thread -> Int] /\ pri' \in [Thread -> Int]
      /\ \A x \in Thread \ {t} : pri'[x] = pri[x]
  BY SemaAssumption DEF Ctl, Types, QueueOK, sema_change_pri
<1>2. s_slpq' = Requeue(s_slpq, t, pri')
  BY DEF sema_change_pri
<1>3. s_slpq \in Seq(Thread) /\ IsInjective(s_slpq) /\ Sorted(s_slpq, pri)
  BY DEF Ctl, QueueOK, Ordered
<1>4. s_slpq' \in Seq(Thread) /\ IsInjective(s_slpq')
  BY <1>1, <1>2, <1>3, RequeueContents
<1>5. ToSet(s_slpq') = ToSet(s_slpq)
  BY <1>1, <1>2, <1>3, RequeueContents
<1>6. Sorted(s_slpq', pri')
  BY <1>1, <1>2, <1>3, RequeueSorted
<1> QED
  BY <1>1, <1>4, <1>5, <1>6 DEF QueueOK, Ordered

\* The loop test of sema_p keeps the control invariant.
LEMMA AcquireCtl ==
  ASSUME Ctl, NEW t \in Thread, t \notin ToSet(s_slpq),
         NEW k \in {"sema_p", "sema_p_sig"}, Acquire(t, k)
  PROVE  Ctl'
<1>1. Types'
  BY DEF Acquire, Goto, Ctl, Types, PC
<1>2. CASE s_count = 0
  <2>1. QueueOK' /\ ToSet(s_slpq') = ToSet(s_slpq) \cup {t}
    BY <1>2, BlockQueue DEF Acquire, Ctl
  <2>2. pc' = [pc EXCEPT ![t] = pc'[t]] /\ pc'[t] \in {"looking", "swtch"}
    BY <1>2 DEF Acquire, Goto, Ctl, Types
  <2>3. Queued'
    BY <2>1, <2>2, Sleepers DEF Queued, Ctl, Types
  <2> QED
    BY <1>1, <2>1, <2>3 DEF Ctl
<1>3. CASE s_count # 0
  <2>1. QueueOK' /\ s_slpq' = s_slpq
    BY <1>3, SameQueue DEF Acquire, Ctl
  <2>2. \A u \in Thread \ {t} : pc'[u] = pc[u]
    BY <1>3 DEF Ctl, Types, Acquire, Goto
  <2>3. Queued'
    BY <2>1, <2>2, Sleepers DEF Queued, Ctl
  <2> QED
    BY <1>1, <2>1, <2>3 DEF Ctl
<1> QED
  BY <1>2, <1>3

\* Every step keeps the control invariant.
LEMMA NextCtl == Ctl /\ [Next]_vars => Ctl'
<1> SUFFICES ASSUME Ctl, [Next]_vars PROVE Ctl'
  OBVIOUS
<1>1. ASSUME NEW t \in Thread, pc[t] = "idle" PROVE t \notin ToSet(s_slpq)
  BY <1>1 DEF Ctl, Queued
<1>2. ASSUME NEW t \in Thread, sema_p(t) \/ sema_p_sig(t) PROVE Ctl'
  BY <1>1, <1>2, AcquireCtl DEF sema_p, sema_p_sig
<1>3. ASSUME NEW t \in Thread, Retry(t) PROVE Ctl'
  BY <1>3, AcquireCtl DEF Retry, Asleep, Ctl, Types
<1>4. ASSUME NEW t \in Thread, sema_v(t) PROVE Ctl'
  <2>1. Types' /\ pc' = pc
    BY <1>4 DEF sema_v, Ctl, Types
  <2>2. CASE s_slpq # <<>>
    BY <1>4, <2>1, <2>2, WakeQueue DEF sema_v, Ctl, Queued
  <2>3. CASE s_slpq = <<>>
    BY <1>4, <2>1, <2>3, SameQueue DEF sema_v, Ctl, Queued
  <2> QED
    BY <2>2, <2>3
<1>5. ASSUME NEW t \in Thread, sema_tryp(t) PROVE Ctl'
  BY <1>5, SameQueue DEF sema_tryp, Ctl, Types, Queued
<1>6. ASSUME NEW t \in Thread, LookForSignal(t) PROVE Ctl'
  <2>1. Types' /\ \A u \in Thread : pc[u] \in {"looking", "swtch"} => pc'[u] \in {"looking", "swtch"}
    BY <1>6 DEF LookForSignal, Goto, Ctl, Types, PC
  <2>2. QueueOK' /\ ToSet(s_slpq') \subseteq ToSet(s_slpq)
    BY <1>6, SameQueue, UnsleepQueue DEF LookForSignal, Ctl
  <2>3. ToSet(s_slpq) \subseteq Thread
    BY Sleepers
  <2> QED
    BY <2>1, <2>2, <2>3 DEF Ctl, Queued
<1>7. ASSUME NEW t \in Thread, Interrupted(t) PROVE Ctl'
  <2>1. Types' /\ t \notin ToSet(s_slpq) /\ \A u \in Thread \ {t} : pc'[u] = pc[u]
    BY <1>7 DEF Interrupted, Asleep, Goto, Ctl, Types, PC
  <2>2. ToSet(s_slpq) \subseteq Thread
    BY Sleepers
  <2> QED
    BY <1>7, <2>1, <2>2, SameQueue DEF Interrupted, Ctl, Queued
<1>8. ASSUME NEW t \in Thread, PassOn(t) PROVE Ctl'
  <2>1. Types' /\ t \notin ToSet(s_slpq) /\ \A u \in Thread \ {t} : pc'[u] = pc[u]
    BY <1>8 DEF PassOn, Goto, Ctl, Types, PC, Queued
  <2>2. ToSet(s_slpq) \subseteq Thread
    BY Sleepers
  <2>3. QueueOK' /\ ToSet(s_slpq') \subseteq ToSet(s_slpq)
    BY <1>8, SameQueue, WakeQueue DEF PassOn, Ctl
  <2> QED
    BY <2>1, <2>2, <2>3 DEF Ctl, Queued
<1>9. ASSUME NEW t \in Thread, post_signal(t) PROVE Ctl'
  <2>1. Types' /\ pc' = pc
    BY <1>9 DEF post_signal, Ctl, Types
  <2>2. QueueOK' /\ ToSet(s_slpq') \subseteq ToSet(s_slpq)
    BY <1>9, SameQueue, UnsleepQueue DEF post_signal, Ctl
  <2> QED
    BY <2>1, <2>2 DEF Ctl, Queued
<1>10. ASSUME NEW t \in Thread, NEW p \in Pri, sema_change_pri(t, p) PROVE Ctl'
  <2>1. Types' /\ pc' = pc
    BY <1>10 DEF sema_change_pri, Ctl, Types
  <2> QED
    BY <1>10, <2>1, ChangePriQueue DEF Ctl, Queued
<1>11. CASE UNCHANGED vars
  BY <1>11 DEF vars, Ctl, Types, QueueOK, Ordered, Queued
<1> QED
  BY <1>2, <1>3, <1>4, <1>5, <1>6, <1>7, <1>8, <1>9, <1>10, <1>11 DEF Next, Wake

\* Every variable of the semaphore stays in its range, and a thread is queued
\* at most once and only between SEMA_BLOCK and the return of swtch().
THEOREM TypeCorrect == Spec => []TypeOK
BY InitCtl, NextCtl, CtlType, PTL DEF Spec

----------------------------------------------------------------------------
\* Woken threads are finitely many, and no sleeper is one of them.
CountableFlight == /\ IsFiniteSet(InFlight) /\ Cardinality(InFlight) \in Nat
                   /\ ToSet(s_slpq) \cap InFlight = {}

\* The control invariant says so.
LEMMA InFlightFinite == Ctl => CountableFlight
<1> SUFFICES ASSUME Ctl PROVE CountableFlight
  OBVIOUS
<1>1. InFlight \in SUBSET Thread
  BY DEF InFlight
<1>2. ToSet(s_slpq) \cap InFlight = {}
  BY DEF InFlight, Asleep, Ctl, Queued
<1> QED
  BY <1>1, <1>2, SemaAssumption, FS_Subset, FS_CardinalityType DEF CountableFlight

\* The same of the next state.
LEMMA InFlightFiniteNext == Ctl' => CountableFlight'
BY InFlightFinite, PTL

\* More threads in flight are enough for the same units.
LEMMA InFlightGrows ==
  ASSUME Ctl, Ctl', NoLostWakeup, s_slpq' # <<>> => s_slpq # <<>>,
         InFlight \subseteq InFlight', s_count' <= s_count
  PROVE  NoLostWakeup'
<1>1. IsFiniteSet(InFlight') /\ Cardinality(InFlight') \in Nat
  BY InFlightFiniteNext DEF CountableFlight
<1>2. IsFiniteSet(InFlight) /\ Cardinality(InFlight) \in Nat
  BY InFlightFinite DEF CountableFlight
<1>3. Cardinality(InFlight) <= Cardinality(InFlight')
  BY <1>1, FS_Subset
<1> QED
  BY <1>1, <1>2, <1>3 DEF NoLostWakeup, Ctl, Types

\* A thread that leaves InFlight takes a unit with it, or wakes another.
LEMMA InFlightShrinks ==
  ASSUME Ctl, Ctl', NoLostWakeup, s_slpq' # <<>> => s_slpq # <<>>, NEW t \in Thread,
         InFlight \ {t} \subseteq InFlight', s_count' = s_count - 1
  PROVE  NoLostWakeup'
<1>1. IsFiniteSet(InFlight') /\ Cardinality(InFlight') \in Nat
  BY InFlightFiniteNext DEF CountableFlight
<1>2. IsFiniteSet(InFlight) /\ Cardinality(InFlight) \in Nat
  BY InFlightFinite DEF CountableFlight
<1>3. Cardinality(InFlight \ {t}) >= Cardinality(InFlight) - 1
  <2>1. Cardinality(InFlight \ {t}) = IF t \in InFlight THEN Cardinality(InFlight) - 1 ELSE Cardinality(InFlight)
    BY <1>2, FS_RemoveElement
  <2> QED
    BY <1>2, <2>1
<1>4. Cardinality(InFlight \ {t}) \in Nat /\ Cardinality(InFlight \ {t}) <= Cardinality(InFlight')
  BY <1>1, <1>2, FS_Subset, FS_RemoveElement, FS_CardinalityType
<1> QED
  BY <1>1, <1>2, <1>3, <1>4 DEF NoLostWakeup, Ctl, Types

\* The loop test of sema_p keeps a thread in flight for every unit.
LEMMA AcquireWakeup ==
  ASSUME Ctl, Ctl', NoLostWakeup, NEW t \in Thread, NEW k, Acquire(t, k)
  PROVE  NoLostWakeup'
<1>1. CASE s_count = 0
  <2>1. s_count' = 0
    BY <1>1 DEF Acquire
  <2> QED
    BY <2>1, InFlightFiniteNext DEF NoLostWakeup, CountableFlight
<1>2. CASE s_count # 0
  <2>1. s_count' = s_count - 1 /\ s_slpq' = s_slpq /\ \A u \in Thread \ {t} : pc'[u] = pc[u]
    BY <1>2 DEF Acquire, Goto, Ctl, Types
  <2>2. InFlight \ {t} \subseteq InFlight'
    BY <2>1 DEF InFlight, Asleep
  <2> QED
    BY <2>1, <2>2, InFlightShrinks
<1> QED
  BY <1>1, <1>2

\* An empty queue has no elements, and only an empty queue.
LEMMA EmptyQueue == Ctl => (s_slpq = <<>> <=> ToSet(s_slpq) = {})
<1> SUFFICES ASSUME Ctl PROVE s_slpq = <<>> <=> ToSet(s_slpq) = {}
  OBVIOUS
<1>1. s_slpq \in Seq(Thread) /\ DOMAIN s_slpq = 1..Len(s_slpq)
  BY LenProperties DEF Ctl, QueueOK
<1>2. s_slpq # <<>> => 1 \in DOMAIN s_slpq
  BY <1>1, EmptySeq
<1>3. s_slpq = <<>> => DOMAIN s_slpq = {}
  BY <1>1
<1> QED
  BY <1>2, <1>3 DEF ToSet

\* Every step keeps a woken thread on its way to every available unit.
LEMMA NextWakeup == Ctl /\ NoLostWakeup /\ [Next]_vars => NoLostWakeup'
<1> SUFFICES ASSUME Ctl, NoLostWakeup, [Next]_vars PROVE NoLostWakeup'
  OBVIOUS
<1>0. Ctl'
  BY NextCtl
<1>1. (s_slpq = <<>> <=> ToSet(s_slpq) = {}) /\ (s_slpq' = <<>> <=> ToSet(s_slpq') = {})
  <2>1. s_slpq = <<>> <=> ToSet(s_slpq) = {}
    BY EmptyQueue
  <2>2. (s_slpq = <<>> <=> ToSet(s_slpq) = {})'
    BY <1>0, EmptyQueue, PTL
  <2> QED
    BY <2>1, <2>2
<1>2. ASSUME NEW t \in Thread, sema_p(t) \/ sema_p_sig(t) \/ Retry(t) PROVE NoLostWakeup'
  BY <1>0, <1>2, AcquireWakeup DEF sema_p, sema_p_sig, Retry
<1>4. ASSUME NEW t \in Thread, sema_v(t) PROVE NoLostWakeup'
  <2>1. CASE s_slpq = <<>>
    BY <1>4, <2>1 DEF sema_v, NoLostWakeup
  <2>2. CASE s_slpq # <<>>
    <3> DEFINE h == Head(s_slpq)
    <3>1. h \in ToSet(s_slpq) /\ ToSet(s_slpq') = ToSet(s_slpq) \ {h}
      BY <1>4, <2>2, WakeQueue DEF sema_v, Ctl
    <3> HIDE DEF h
    <3>2. h \in Thread /\ h \notin InFlight /\ InFlight \cup {h} \subseteq InFlight'
      BY <1>4, <3>1, Sleepers, InFlightFinite DEF CountableFlight, sema_v, InFlight, Asleep, Ctl, Queued
    <3>3. IsFiniteSet(InFlight) /\ Cardinality(InFlight) \in Nat
      BY InFlightFinite DEF CountableFlight
    <3>4. IsFiniteSet(InFlight') /\ Cardinality(InFlight') \in Nat
      BY <1>0, InFlightFiniteNext DEF CountableFlight
    <3>5. Cardinality(InFlight \cup {h}) = Cardinality(InFlight) + 1
      BY <3>2, <3>3, FS_AddElement
    <3>6. Cardinality(InFlight \cup {h}) <= Cardinality(InFlight')
      BY <3>2, <3>4, FS_Subset
    <3> QED
      BY <1>4, <2>2, <3>3, <3>4, <3>5, <3>6 DEF sema_v, NoLostWakeup, Ctl, Types
  <2> QED
    BY <2>1, <2>2
<1>5. ASSUME NEW t \in Thread, sema_tryp(t) PROVE NoLostWakeup'
  <2>1. InFlight' = InFlight /\ s_slpq' = s_slpq /\ s_count' <= s_count
    BY <1>5 DEF sema_tryp, InFlight, Asleep, Ctl, Types
  <2> QED
    BY <1>0, <2>1, InFlightGrows
<1>6. ASSUME NEW t \in Thread, LookForSignal(t) \/ post_signal(t) PROVE NoLostWakeup'
  <2>1. ToSet(s_slpq') \subseteq ToSet(s_slpq) /\ s_count' = s_count
    BY <1>6, UnsleepQueue DEF LookForSignal, post_signal, Ctl
  <2>2. InFlight \subseteq InFlight'
    BY <1>6, <2>1 DEF LookForSignal, post_signal, Goto, InFlight, Asleep, Ctl, Types
  <2> QED
    BY <1>0, <1>1, <2>1, <2>2, InFlightGrows DEF Ctl, Types
<1>7. ASSUME NEW t \in Thread, Interrupted(t) PROVE NoLostWakeup'
  <2>1. InFlight \subseteq InFlight' /\ s_slpq' = s_slpq /\ s_count' = s_count
    BY <1>7 DEF Interrupted, Goto, InFlight, Asleep, Ctl, Types
  <2> QED
    BY <1>0, <2>1, InFlightGrows DEF Ctl, Types
<1>8. ASSUME NEW t \in Thread, PassOn(t) PROVE NoLostWakeup'
  <2>1. CASE s_count = 0
    <3>1. s_count' = 0
      BY <1>8, <2>1 DEF PassOn
    <3> QED
      BY <1>0, <3>1, InFlightFiniteNext DEF NoLostWakeup, CountableFlight
  <2>2. CASE s_slpq = <<>>
    BY <1>8, <2>2 DEF PassOn, NoLostWakeup
  <2>3. CASE s_count # 0 /\ s_slpq # <<>>
    <3> DEFINE h == Head(s_slpq)
    <3>1. s_slpq' = Tail(s_slpq) /\ s_count' = s_count /\ pri' = pri
      BY <1>8, <2>3 DEF PassOn, Ctl, Types
    <3>2. h \in ToSet(s_slpq) /\ ToSet(s_slpq') = ToSet(s_slpq) \ {h}
      BY <2>3, <3>1, WakeQueue DEF Ctl
    <3> HIDE DEF h
    <3>3. h \in Thread /\ h \notin InFlight /\ h # t /\ (InFlight \ {t}) \cup {h} \subseteq InFlight'
      BY <1>8, <3>2, Sleepers, InFlightFinite DEF CountableFlight, PassOn, Goto, InFlight, Asleep, Ctl, Queued, Types
    <3>4. IsFiniteSet(InFlight) /\ Cardinality(InFlight) \in Nat
      BY InFlightFinite DEF CountableFlight
    <3>5. IsFiniteSet(InFlight') /\ Cardinality(InFlight') \in Nat
      BY <1>0, InFlightFiniteNext DEF CountableFlight
    <3>6. IsFiniteSet(InFlight \ {t}) /\ Cardinality(InFlight \ {t}) >= Cardinality(InFlight) - 1
      BY <3>4, FS_RemoveElement
    <3>7. Cardinality(InFlight \ {t}) \in Nat
      BY <3>6, FS_CardinalityType
    <3>8. Cardinality((InFlight \ {t}) \cup {h}) = Cardinality(InFlight \ {t}) + 1
      BY <3>3, <3>6, FS_AddElement
    <3>9. Cardinality((InFlight \ {t}) \cup {h}) <= Cardinality(InFlight')
      BY <3>3, <3>5, FS_Subset
    <3> QED
      BY <2>3, <3>1, <3>4, <3>5, <3>6, <3>7, <3>8, <3>9 DEF NoLostWakeup, Ctl, Types
  <2> QED
    BY <2>1, <2>2, <2>3
<1>10. ASSUME NEW t \in Thread, NEW p \in Pri, sema_change_pri(t, p) PROVE NoLostWakeup'
  <2>1. ToSet(s_slpq') = ToSet(s_slpq)
    BY <1>10, ChangePriQueue
  <2>2. InFlight' = InFlight /\ s_count' = s_count
    BY <1>10, <2>1 DEF sema_change_pri, InFlight, Asleep
  <2> QED
    BY <1>0, <1>1, <2>1, <2>2, InFlightGrows DEF Ctl, Types
<1>11. CASE UNCHANGED vars
  BY <1>11 DEF vars, NoLostWakeup, InFlight, Asleep
<1> QED
  BY <1>2, <1>4, <1>5, <1>6, <1>7, <1>8, <1>10, <1>11 DEF Next, Wake

\* While threads sleep on the semaphore, every unit that sema_v added and
\* nobody took has a woken thread on its way to it, whichever threads signals
\* interrupt and whoever takes units in between.
THEOREM NoLostWakeupThm == Spec => []NoLostWakeup
<1>1. Init => NoLostWakeup
  BY DEF Init, NoLostWakeup
<1> QED
  BY <1>1, InitCtl, NextCtl, NextWakeup, PTL DEF Spec

----------------------------------------------------------------------------
\* One step of sema_v or of the pass-on in sema_p_sig wakes nobody but a
\* thread of the highest priority.
LEMMA StepWakesHighest ==
  ASSUME Ctl, NEW v \in Thread, NEW t \in ToSet(s_slpq), sema_v(v) \/ PassOn(v),
         t \notin ToSet(s_slpq')
  PROVE  \A u \in ToSet(s_slpq') : pri[t] >= pri[u]
<1>1. s_slpq # <<>> /\ s_slpq' = Tail(s_slpq) /\ pri' = pri
  <2>1. s_slpq' # s_slpq
    OBVIOUS
  <2> QED
    BY <2>1 DEF sema_v, PassOn
<1>2. /\ ToSet(s_slpq') = ToSet(s_slpq) \ {Head(s_slpq)}
      /\ \A u \in ToSet(s_slpq) : pri[Head(s_slpq)] >= pri[u]
  BY <1>1, WakeQueue DEF Ctl
<1>3. t = Head(s_slpq)
  BY <1>2
<1> QED
  BY <1>2, <1>3

\* sema_v and the pass-on in sema_p_sig wake a thread of the highest priority,
\* whatever changes of priority sleepers have been through.
THEOREM WakesHighestThm == Spec => WakesHighest
<1>1. Ctl /\ [Next]_vars =>
        [\A v \in Thread, t \in ToSet(s_slpq) :
           (sema_v(v) \/ PassOn(v)) /\ t \notin ToSet(s_slpq')
              => \A u \in ToSet(s_slpq') : pri[t] >= pri[u]]_vars
  BY StepWakesHighest
<1> QED
  BY <1>1, InitCtl, NextCtl, PTL DEF Spec, WakesHighest
=============================================================================
