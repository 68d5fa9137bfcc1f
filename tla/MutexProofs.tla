----------------------------- MODULE MutexProofs -----------------------------
(***************************************************************************)
(* Proofs about Mutex for any number of threads and CPUs.                  *)
(*                                                                         *)
(* Base is the inductive invariant that ties control points to the lock    *)
(* word, the store buffers and tc_lock; it gives mutual exclusion and the  *)
(* absence of panics on any platform.  Wake adds what makes the blocking   *)
(* protocol sound, and needs the membar in resume().                       *)
(***************************************************************************)
EXTENDS Mutex, TLAPS

\* A thread runs on one CPU at most.
OneCPU == \A c, d \in CPU : running[c] = running[d] /\ running[c] # NULL => c = d

\* A thread that holds the mutex is the owner in the lock word.
HoldInv == \A t \in Thread : Holding(t) => m_owner.owner = t

\* A CPU with a buffered clear still executes the thread that issued it,
\* which is past the release and still the owner in memory.
ClearInv == \A c \in CPU : clearing[c] =>
                /\ running[c] \in Thread
                /\ m_owner.owner = running[c]
                /\ pc[running[c]] \in {"idle", "vector_wakeup"}

\* The owner in memory holds the mutex or has its clear buffered.
OwnerInv == \A t \in Thread : m_owner.owner = t =>
                Holding(t) \/ \E c \in CPU : clearing[c] /\ running[c] = t

\* A free lock word is zero.
WordInv == m_owner.owner = NULL => ~m_owner.waiters

\* tc_lock is held exactly between turnstile_lookup and its release.
TcInv == \A t \in Thread : pc[t] \in TcPC <=> tc_lock = t

\* A thread that cannot be preempted, or must restart if it is, is running.
RunInv == \A t \in Thread :
             pc[t] \in TcPC \cup {"search", "exit_store", "swtch"} => Running(t)

\* The search is for another thread.
LocalInv == \A t \in Thread :
             pc[t] \in {"search", "lookup", "set_waiters", "research", "recheck"} =>
                owner[t] \in Thread

Base == /\ TypeOK /\ OneCPU /\ HoldInv /\ ClearInv /\ OwnerInv /\ WordInv
        /\ TcInv /\ RunInv /\ LocalInv /\ NoPanic

\* The fields of the lock word, and the two values that the code writes to it.
LEMMA WordFacts ==
  /\ Free \in Word
  /\ \A t \in Thread : [owner |-> t, waiters |-> FALSE] \in Word
  /\ \A w \in Word : [w EXCEPT !.waiters = TRUE] \in Word
<1>1. Free \in Word
  BY DEF Free, Word
<1>2. \A t \in Thread : [owner |-> t, waiters |-> FALSE] \in Word
  BY DEF Word
<1>3. \A w \in Word : [w EXCEPT !.waiters = TRUE] \in Word
  BY DEF Word
<1> QED
  BY <1>1, <1>2, <1>3

\* The store of zero is buffered on the CPU that executes it.
LEMMA StoreFreeFacts ==
  ASSUME NEW t \in Thread, StoreFree(t)
  PROVE  /\ clearing' \in [CPU -> BOOLEAN]
         /\ \A c \in CPU : running[c] = t => clearing'[c]
<1>1. clearing' = [c \in CPU |-> clearing[c] \/ running[c] = t]
  BY DEF StoreFree, On
<1> QED
  BY <1>1, Zenon

\* What a step of a store buffer can change: one store becomes visible.
LEMMA DrainFacts ==
  ASSUME NEW f \in [CPU -> BOOLEAN], NEW c \in CPU
  PROVE  [f EXCEPT ![c] = FALSE] \in [CPU -> BOOLEAN]
BY Zenon

\* mutex_init leaves a state that satisfies Base.
LEMMA InitBase == Init => Base
BY ConstAssumption DEF Init, Base, TypeOK, OneCPU, HoldInv, ClearInv, OwnerInv, WordInv, TcInv, RunInv,
    LocalInv, NoPanic, Holding, Word, Free, PC, HoldPC, EnterPC, TcPC

\* The compare-and-exchange of the three enter paths.
LEMMA CmpXchgBase ==
  ASSUME Base, NEW t \in Thread, NEW failed \in {"idle", "spin"},
         pc[t] \in {"idle", "adaptive_tryenter"}, CmpXchg(t, failed)
  PROVE  Base'
<1> USE ConstAssumption DEF Base, TypeOK, OneCPU, HoldInv, ClearInv, OwnerInv, WordInv, TcInv, RunInv,
    LocalInv, NoPanic, Holding,
    Free, PC, HoldPC, EnterPC, TcPC, On, Running, Goto, Atomically, Drained
<1>1. m_owner' \in Word
  BY WordFacts DEF CmpXchg
<1>2. TypeOK'
  BY <1>1 DEF CmpXchg
<1>3. OneCPU'
  BY DEF CmpXchg, Word
<1>4. HoldInv'
  BY DEF CmpXchg, Word
<1>5. ClearInv'
  BY DEF CmpXchg, Word
<1>6. OwnerInv'
  BY DEF CmpXchg, Word
<1>7. WordInv'
  BY DEF CmpXchg, Word
<1>8. TcInv'
  BY DEF CmpXchg, Word
<1>9. RunInv'
  BY DEF CmpXchg, Word
<1>10. LocalInv'
  BY DEF CmpXchg, Word
<1>11. NoPanic'
  BY DEF CmpXchg, Word
<1> QED
  BY <1>2, <1>3, <1>4, <1>5, <1>6, <1>7, <1>8, <1>9, <1>10, <1>11

\* MUTEX_SET_WAITERS leaves the owner alone.
LEMMA SetWaitersBase ==
  ASSUME Base, NEW t \in Thread, SetWaiters(t) PROVE Base'
<1> USE ConstAssumption DEF Base, TypeOK, OneCPU, HoldInv, ClearInv, OwnerInv, WordInv, TcInv, RunInv,
    LocalInv, NoPanic, Holding,
    Free, PC, HoldPC, EnterPC, TcPC, On, Running, Goto, Atomically, Drained
<1>1. m_owner' \in Word
  BY WordFacts DEF SetWaiters
<1>2. TypeOK'
  BY <1>1 DEF SetWaiters
<1>3. OneCPU'
  BY DEF SetWaiters, Word
<1>4. HoldInv'
  BY DEF SetWaiters, Word
<1>5. ClearInv'
  BY DEF SetWaiters, Word
<1>6. OwnerInv'
  BY DEF SetWaiters, Word
<1>7. WordInv'
  BY DEF SetWaiters, Word
<1>8. TcInv'
  BY DEF SetWaiters, Word
<1>9. RunInv'
  BY DEF SetWaiters, Word
<1>10. LocalInv'
  BY DEF SetWaiters, Word
<1>11. NoPanic'
  BY DEF SetWaiters, Word
<1> QED
  BY <1>2, <1>3, <1>4, <1>5, <1>6, <1>7, <1>8, <1>9, <1>10, <1>11

\* The releasing store, from the fast and from the slow path, enters the
\* store buffer of the CPU the releasing thread runs on.
LEMMA StoreFreeBase ==
  ASSUME Base, NEW t \in Thread, ExitStore(t) \/ VectorClear(t) PROVE Base'
<1> USE ConstAssumption DEF Base, TypeOK, OneCPU, HoldInv, ClearInv, OwnerInv, WordInv, TcInv, RunInv,
    LocalInv, NoPanic, Holding,
    Free, PC, HoldPC, EnterPC, TcPC, On, Running, Goto, Atomically, Drained
<1>1. m_owner' \in Word
  BY WordFacts DEF ExitStore, VectorClear, StoreFree
<1>a. clearing' \in [CPU -> BOOLEAN]
  BY StoreFreeFacts DEF ExitStore, VectorClear
<1>2. TypeOK'
  BY <1>1, <1>a DEF ExitStore, VectorClear
<1>3. OneCPU'
  BY DEF ExitStore, VectorClear, StoreFree, Word
<1>4. HoldInv'
  BY DEF ExitStore, VectorClear, StoreFree, Word
<1>5. ClearInv'
  BY DEF ExitStore, VectorClear, StoreFree, Word
<1>6. OwnerInv'
  <2>1. m_owner.owner = t
    BY DEF ExitStore, VectorClear
  <2>2. PICK c \in CPU : running[c] = t
    BY DEF ExitStore, VectorClear
  <2>3. clearing'[c]
    BY <2>2, StoreFreeFacts DEF ExitStore, VectorClear
  <2>4. running'[c] = t
    BY <2>2 DEF ExitStore, VectorClear
  <2> QED
    BY <2>1, <2>3, <2>4 DEF ExitStore, VectorClear
<1>7. WordInv'
  BY DEF ExitStore, VectorClear, StoreFree, Word
<1>8. TcInv'
  BY DEF ExitStore, VectorClear, StoreFree, Word
<1>9. RunInv'
  BY DEF ExitStore, VectorClear, StoreFree, Word
<1>10. LocalInv'
  BY DEF ExitStore, VectorClear, StoreFree, Word
<1>11. NoPanic'
  BY DEF ExitStore, VectorClear, StoreFree, Word
<1> QED
  BY <1>2, <1>3, <1>4, <1>5, <1>6, <1>7, <1>8, <1>9, <1>10, <1>11

\* A store becomes visible.
LEMMA DrainBase ==
  ASSUME Base, NEW c \in CPU, Drain(c) PROVE Base'
<1> USE ConstAssumption DEF Base, TypeOK, OneCPU, HoldInv, ClearInv, OwnerInv, WordInv, TcInv, RunInv,
    LocalInv, NoPanic, Holding,
    Free, PC, HoldPC, EnterPC, TcPC, On, Running, Goto, Atomically, Drained
<1>1. m_owner' \in Word
  BY WordFacts, ZenonT(40) DEF Drain
<1>a. clearing' \in [CPU -> BOOLEAN]
  <2>1. clearing' = clearing \/ clearing' = [clearing EXCEPT ![c] = FALSE]
    BY DEF Drain
  <2>2. clearing \in [CPU -> BOOLEAN]
    OBVIOUS
  <2>3. [clearing EXCEPT ![c] = FALSE] \in [CPU -> BOOLEAN]
    BY <2>2, DrainFacts
  <2> QED
    BY <2>1, <2>2, <2>3
<1>b. cpu_thread' \in [CPU -> Thread \cup {NULL}]
  BY DEF Drain
<1>2. TypeOK'
  BY <1>1, <1>a, <1>b DEF Drain
<1>3. OneCPU'
  BY DEF Drain, Word
<1>4. HoldInv'
  BY DEF Drain, Word
<1>5. ClearInv'
  BY DEF Drain, Word
<1>6. OwnerInv'
  BY DEF Drain, Word
<1>7. WordInv'
  BY DEF Drain, Word
<1>8. TcInv'
  BY DEF Drain, Word
<1>9. RunInv'
  BY DEF Drain, Word
<1>10. LocalInv'
  BY DEF Drain, Word
<1>11. NoPanic'
  BY DEF Drain, Word
<1> QED
  BY <1>2, <1>3, <1>4, <1>5, <1>6, <1>7, <1>8, <1>9, <1>10, <1>11

\* Every step of the lock code, the dispatcher and the store buffers keeps Base.
LEMMA NextBase == Base /\ [Next]_vars => Base'
<1> SUFFICES ASSUME Base, [Next]_vars PROVE Base'
  OBVIOUS
<1>1. ASSUME NEW t \in Thread, Enter(t) PROVE Base'
  <2>1. pc[t] = "idle" /\ (CmpXchg(t, "spin") \/ CmpXchg(t, "idle"))
    BY <1>1 DEF Enter, mutex_enter, mutex_tryenter
  <2> QED
    BY <2>1, CmpXchgBase
<1>2. ASSUME NEW t \in Thread, mutex_adaptive_tryenter(t) PROVE Base'
  BY <1>2, CmpXchgBase DEF mutex_adaptive_tryenter
<1>3. ASSUME NEW t \in Thread, SetWaiters(t) PROVE Base'
  BY <1>3, SetWaitersBase
<1>4. ASSUME NEW t \in Thread, ExitStore(t) \/ VectorClear(t) PROVE Base'
  BY <1>4, StoreFreeBase
<1>5. ASSUME NEW c \in CPU, Drain(c) PROVE Base'
  BY <1>5, DrainBase
<1> USE ConstAssumption DEF Base, TypeOK, OneCPU, HoldInv, ClearInv, OwnerInv, WordInv, TcInv, RunInv,
    LocalInv, NoPanic, Holding,
    Free, Word, PC, HoldPC, EnterPC, TcPC, On, Running, Goto, Atomically, Drained
<1>6. ASSUME NEW t \in Thread, ReadOwner(t) PROVE Base'
  BY <1>6 DEF ReadOwner
<1>7. ASSUME NEW t \in Thread, Search(t) PROVE Base'
  BY <1>7 DEF Search
<1>8. ASSUME NEW t \in Thread, EnterLookup(t) PROVE Base'
  BY <1>8 DEF EnterLookup, turnstile_lookup
<1>9. ASSUME NEW t \in Thread, Research(t) PROVE Base'
  BY <1>9 DEF Research
<1>10. ASSUME NEW t \in Thread, Recheck(t) PROVE Base'
  BY <1>10 DEF Recheck, turnstile_block
<1>11. ASSUME NEW t \in Thread, mutex_exit(t) PROVE Base'
  BY <1>11 DEF mutex_exit
<1>12. ASSUME NEW t \in Thread, ExitLookup(t) PROVE Base'
  BY <1>12 DEF ExitLookup, turnstile_lookup
<1>13. ASSUME NEW t \in Thread, VectorWakeup(t) PROVE Base'
  BY <1>13 DEF VectorWakeup
<1>14. ASSUME NEW t \in Thread, NEW c \in CPU, resume(t, c) PROVE Base'
  BY <1>14 DEF resume
<1>15. ASSUME NEW t \in Thread, NEW c \in CPU, swtch(t, c) PROVE Base'
  BY <1>15 DEF swtch, Leave
<1>16. ASSUME NEW t \in Thread, NEW c \in CPU, preempt(t, c) PROVE Base'
  BY <1>16 DEF preempt, Leave, NoPreemptPC
<1>17. CASE UNCHANGED vars
  BY <1>17 DEF vars
<1> QED
  BY <1>1, <1>2, <1>3, <1>4, <1>5, <1>6, <1>7, <1>8, <1>9, <1>10, <1>11, <1>12, <1>13, <1>14, <1>15, <1>16, <1>17 DEF Next, Step, Dispatch

\* The base invariant holds in every reachable state, on every platform.
THEOREM BaseInvariant == Spec => []Base
BY InitBase, NextBase, PTL DEF Spec

\* Type correctness of the adaptive mutex model.
THEOREM TypeCorrect == Spec => []TypeOK
<1>1. Base => TypeOK
  BY DEF Base
<1> QED
  BY <1>1, BaseInvariant, PTL

\* At most one thread holds the mutex, for any number of threads and CPUs and
\* whether or not resume() has its membar: mutex_enter and mutex_exit exclude.
THEOREM Exclusion == Spec => []MutualExclusion
<1>1. Base => MutualExclusion
  BY DEF Base, HoldInv, MutualExclusion
<1> QED
  BY <1>1, BaseInvariant, PTL

\* No panic of mutex_vector_enter, mutex_vector_exit or turnstile_block is
\* reachable by clients that release only what they hold.
THEOREM PanicFree == Spec => []NoPanic
<1>1. Base => NoPanic
  BY DEF Base
<1> QED
  BY <1>1, BaseInvariant, PTL

-----------------------------------------------------------------------------
(* The blocking protocol, on platforms whose resume() has the membar. *)

\* CPU_THREAD of a CPU that runs a thread is visible.
VisInv == \A c \in CPU : running[c] \in Thread => cpu_thread[c] = running[c]

\* If the lock word is still what the searching thread wants to sleep on and
\* the owner will not look at the waiters bit again, then the owner runs on a
\* CPU that the search has yet to visit; after the search there is no such owner.
SearchInv == \A w \in Thread :
    /\ pc[w] \in {"research", "recheck"}
    /\ m_owner.waiters /\ m_owner.owner = owner[w]
    /\ PastCheck
    => pc[w] = "research" /\ \E c \in scan[w] : running[c] = owner[w]

Wake == VisInv /\ SearchInv /\ NoMissedWakeup

\* An owner past its check is running.
LEMMA PastCheckRuns ==
  ASSUME Base, PastCheck
  PROVE  m_owner.owner \in Thread /\ Running(m_owner.owner)
BY DEF Base, PastCheck, HoldInv, ClearInv, RunInv, Holding, HoldPC, Running, On

\* Nobody sleeps or searches initially.
LEMMA InitWake == Init => Wake
BY ConstAssumption DEF Init, Wake, VisInv, SearchInv, NoMissedWakeup

\* With the membar in resume() every step keeps the wakeup invariant.
LEMMA NextWake ==
  ASSUME ResumeMembar, Base, Base', Wake, [Next]_vars
  PROVE  Wake'
<1> USE ConstAssumption, PastCheckRuns DEF Base, TypeOK, OneCPU, HoldInv, ClearInv, OwnerInv, WordInv, TcInv,
    RunInv, NoPanic, Holding, HoldPC, EnterPC, TcPC, On, Running, Goto, Atomically, Drained, Free, Word,
    Wake, VisInv, SearchInv, NoMissedWakeup, PastCheck
<1>1. ASSUME NEW t \in Thread, mutex_enter(t) PROVE Wake'
  BY <1>1 DEF mutex_enter, CmpXchg
<1>2. ASSUME NEW t \in Thread, mutex_tryenter(t) PROVE Wake'
  BY <1>2 DEF mutex_tryenter, CmpXchg
<1>3. ASSUME NEW t \in Thread, mutex_adaptive_tryenter(t) PROVE Wake'
  BY <1>3 DEF mutex_adaptive_tryenter, CmpXchg
<1>4. ASSUME NEW t \in Thread, ReadOwner(t) PROVE Wake'
  BY <1>4 DEF ReadOwner
<1>5. ASSUME NEW t \in Thread, Search(t) PROVE Wake'
  BY <1>5 DEF Search
<1>6. ASSUME NEW t \in Thread, EnterLookup(t) PROVE Wake'
  BY <1>6 DEF EnterLookup, turnstile_lookup
<1>7. ASSUME NEW t \in Thread, SetWaiters(t) PROVE Wake'
  BY <1>7 DEF SetWaiters
<1>8. ASSUME NEW t \in Thread, Research(t) PROVE Wake'
  BY <1>8 DEF Research
<1>9. ASSUME NEW t \in Thread, Recheck(t) PROVE Wake'
  BY <1>9 DEF Recheck, turnstile_block
<1>10. ASSUME NEW t \in Thread, mutex_exit(t) PROVE Wake'
  BY <1>10 DEF mutex_exit
<1>11. ASSUME NEW t \in Thread, ExitStore(t) PROVE Wake'
  BY <1>11 DEF ExitStore, StoreFree
<1>12. ASSUME NEW t \in Thread, ExitLookup(t) PROVE Wake'
  BY <1>12 DEF ExitLookup, turnstile_lookup
<1>13. ASSUME NEW t \in Thread, VectorClear(t) PROVE Wake'
  BY <1>13 DEF VectorClear, StoreFree
<1>14. ASSUME NEW t \in Thread, VectorWakeup(t) PROVE Wake'
  BY <1>14 DEF VectorWakeup
<1>15. ASSUME NEW c \in CPU, Drain(c) PROVE Wake'
  BY <1>15 DEF Drain
<1>16. ASSUME NEW t \in Thread, NEW c \in CPU, resume(t, c) PROVE Wake'
  BY <1>16 DEF resume
<1>17. ASSUME NEW t \in Thread, NEW c \in CPU, swtch(t, c) PROVE Wake'
  BY <1>17 DEF swtch, Leave
<1>18. ASSUME NEW t \in Thread, NEW c \in CPU, preempt(t, c) PROVE Wake'
  BY <1>18 DEF preempt, Leave, NoPreemptPC
<1>19. CASE UNCHANGED vars
  BY <1>19 DEF vars
<1> QED
  BY <1>1, <1>2, <1>3, <1>4, <1>5, <1>6, <1>7, <1>8, <1>9, <1>10, <1>11, <1>12, <1>13, <1>14, <1>15, <1>16, <1>17, <1>18, <1>19 DEF Next, Enter, Step, Dispatch

\* No wakeup is missed, for any number of threads and CPUs, if resume() makes
\* CPU_THREAD visible before the resumed thread runs: the claim that mutex.c
\* makes of the memory orderings (2M) and (3M).
THEOREM WakeupsNotMissed ==
  ASSUME ResumeMembar
  PROVE  Spec => []NoMissedWakeup
<1>1. Init => Base /\ Wake
  BY InitBase, InitWake
<1>2. Base /\ Wake /\ [Next]_vars => (Base /\ Wake)'
  BY NextBase, NextWake
<1>3. Wake => NoMissedWakeup
  BY DEF Wake
<1> QED
  BY <1>1, <1>2, <1>3, PTL DEF Spec

-----------------------------------------------------------------------------
(* Refinement *)

\* Every step of the mutex is a step of the abstract lock or leaves its
\* variables alone.
LEMMA NextLock ==
  ASSUME Base, Base', [Next]_vars
  PROVE  [Lock!Next]_<<{t \in Thread : Holding(t)}, {t \in Thread : pc[t] \in EnterPC}>>
<1> DEFINE held == {t \in Thread : Holding(t)}
           want == {t \in Thread : pc[t] \in EnterPC}
<1> USE DEF Base, TypeOK, HoldInv, NoPanic, Holding, HoldPC, EnterPC, PC, Goto
<1>1. ASSUME NEW t \in Thread, NEW failed \in {"idle", "spin"},
             pc[t] \in {"idle", "adaptive_tryenter"}, CmpXchg(t, failed),
             failed = "idle" => pc[t] = "idle"
      PROVE  Lock!Wait(t) \/ Lock!Acquire(t) \/ UNCHANGED <<held, want>>
  <2>1. CASE m_owner = Free
    BY <1>1, <2>1, ConstAssumption DEF CmpXchg, Free, Lock!Acquire
  <2>2. CASE m_owner # Free
    BY <1>1, <2>2 DEF CmpXchg, Lock!Wait
  <2> QED
    BY <2>1, <2>2
<1>2. ASSUME NEW t \in Thread, Enter(t) \/ mutex_adaptive_tryenter(t)
      PROVE  Lock!Next \/ UNCHANGED <<held, want>>
  BY <1>1, <1>2 DEF Enter, mutex_enter, mutex_tryenter, mutex_adaptive_tryenter, Lock!Next
<1>3. ASSUME NEW t \in Thread, ExitStore(t) \/ VectorClear(t)
      PROVE  Lock!Release(t)
  BY <1>3 DEF ExitStore, VectorClear, Lock!Release
<1>4. ASSUME NEW t \in Thread,
             \/ ReadOwner(t) \/ Search(t) \/ EnterLookup(t) \/ SetWaiters(t) \/ Research(t)
             \/ Recheck(t) \/ mutex_exit(t) \/ ExitLookup(t) \/ VectorWakeup(t)
      PROVE  UNCHANGED <<held, want>>
  BY <1>4 DEF ReadOwner, Search, EnterLookup, ExitLookup, turnstile_lookup, SetWaiters, Research,
              Recheck, turnstile_block, mutex_exit, VectorWakeup
<1>5. ASSUME NEW c \in CPU, Dispatch(c) PROVE UNCHANGED <<held, want>>
  BY <1>5 DEF Dispatch, Drain, resume, swtch, preempt, Leave
<1>6. CASE UNCHANGED vars
  BY <1>6 DEF vars
<1> QED
  BY <1>2, <1>3, <1>4, <1>5, <1>6 DEF Next, Step, Lock!Next

\* The mutex implements the abstract lock, for any threads and CPUs.
THEOREM Refinement == Spec => ImplementsLock
<1>1. Init => Lock!Init
  BY DEF Init, Lock!Init, Holding, HoldPC, EnterPC
<1> QED
  BY <1>1, NextLock, BaseInvariant, PTL DEF Spec, ImplementsLock, Lock!Spec

=============================================================================
