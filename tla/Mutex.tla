------------------------------- MODULE Mutex -------------------------------
(***************************************************************************)
(* One adaptive kernel mutex: the assembly fast paths mutex_enter,         *)
(* mutex_tryenter and mutex_exit, the slow paths mutex_vector_enter and    *)
(* mutex_vector_exit of common/os/mutex.c, and the part of turnstile.c and *)
(* of the dispatcher (resume, swtch, preempt) that they depend on.         *)
(*                                                                         *)
(* mutex_exit() releases the lock with a plain store.  The model therefore *)
(* keeps the two plain stores that matter apart from the memory the other  *)
(* CPUs read: `running' is the thread a CPU executes, `cpu_thread' the     *)
(* value of CPU_THREAD the others see, and `clearing' says that the CPU's  *)
(* store buffer still holds the store of zero into the lock word.  Stores  *)
(* become visible in program order (TSO), and an atomic instruction waits  *)
(* until the CPU's own stores are visible.                                 *)
(***************************************************************************)
EXTENDS FiniteSets

CONSTANTS Thread,        \* kernel threads that use the mutex
          CPU,           \* the CPUs on cpu_list
          NULL,          \* no thread: an unheld lock, an idle CPU
          ResumeMembar   \* resume() issues membar #StoreLoad after it sets CPU_THREAD

ASSUME ConstAssumption ==
    /\ NULL \notin Thread
    /\ ResumeMembar \in BOOLEAN

VARIABLES m_owner,     \* the lock word: owner and MUTEX_WAITERS bit
          tc_lock,     \* holder of the turnstile chain's tc_lock
          sleepq,      \* threads asleep on the mutex's turnstile
          running,     \* running[c]: the thread CPU c executes
          cpu_thread,  \* cpu_thread[c]: CPU_THREAD as the other CPUs see it
          clearing,    \* clearing[c]: the store that clears m_owner is still buffered
          pc,          \* where each thread is
          owner,       \* the local variable `owner' of mutex_vector_enter
          scan         \* the CPUs that the current search has still to visit

vars == <<m_owner, tc_lock, sleepq, running, cpu_thread, clearing, pc, owner, scan>>

----------------------------------------------------------------------------
\* Control points.  Those in HoldPC lie between the acquisition of the lock
\* and the store that releases it.
EnterPC == {"spin", "adaptive_tryenter", "search", "lookup", "set_waiters",
            "research", "recheck", "swtch"}
HoldPC  == {"held", "exit_store", "vector_exit", "vector_clear"}
PC      == {"idle", "vector_wakeup", "panic"} \cup EnterPC \cup HoldPC

\* kpreempt_disable() in the first search, ipl DISP_LEVEL while tc_lock is
\* held, and the way into swtch().
NoPreemptPC == {"search", "set_waiters", "research", "recheck", "swtch",
                "vector_clear", "vector_wakeup", "panic"}

\* Between turnstile_lookup and the release of tc_lock.
TcPC == {"set_waiters", "research", "recheck", "vector_clear", "vector_wakeup"}

Word == [owner : Thread \cup {NULL}, waiters : BOOLEAN]
Free == [owner |-> NULL, waiters |-> FALSE]

Holding(t)  == pc[t] \in HoldPC
On(t, c)    == running[c] = t
Running(t)  == \E c \in CPU : On(t, c)
Drained(c)  == ~clearing[c] /\ cpu_thread[c] = running[c]
\* Thread t executes an atomic instruction: its CPU's stores are visible.
Atomically(t) == \E c \in CPU : On(t, c) /\ Drained(c)

Goto(t, l) == pc' = [pc EXCEPT ![t] = l]

Init == /\ m_owner = Free
        /\ tc_lock = NULL
        /\ sleepq = {}
        /\ running = [c \in CPU |-> NULL]
        /\ cpu_thread = [c \in CPU |-> NULL]
        /\ clearing = [c \in CPU |-> FALSE]
        /\ pc = [t \in Thread |-> "idle"]
        /\ owner = [t \in Thread |-> NULL]
        /\ scan = [t \in Thread |-> {}]

----------------------------------------------------------------------------
(* Acquiring *)

\* Mutant: xchg in place of cmpxchg takes the lock from its owner.
CmpXchgBlind(t, failed) ==
    /\ Atomically(t)
    /\ m_owner' = [owner |-> t, waiters |-> FALSE] /\ Goto(t, "held")
    /\ UNCHANGED <<tc_lock, sleepq, running, cpu_thread, clearing, owner, scan>>

\* lock cmpxchg of NULL by curthread; `failed' is where a held lock leads.
CmpXchg(t, failed) ==
    /\ Atomically(t)
    /\ IF m_owner = Free
         THEN m_owner' = [owner |-> t, waiters |-> FALSE] /\ Goto(t, "held")
         ELSE UNCHANGED m_owner /\ Goto(t, failed)
    /\ UNCHANGED <<tc_lock, sleepq, running, cpu_thread, clearing, owner, scan>>

mutex_enter(t) == pc[t] = "idle" /\ CmpXchg(t, "spin")

\* mutex_vector_tryenter() returns 0 for a held adaptive mutex.
mutex_tryenter(t) == pc[t] = "idle" /\ CmpXchg(t, "idle")

\* Mutant: the result of the compare-and-swap is ignored.
TryenterUnchecked(t) == pc[t] = "adaptive_tryenter" /\ CmpXchg(t, "held")

mutex_adaptive_tryenter(t) == pc[t] = "adaptive_tryenter" /\ CmpXchg(t, "spin")

\* The top of the loop of mutex_vector_enter: read the owner.
ReadOwner(t) ==
    /\ pc[t] = "spin" /\ Running(t)
    /\ owner' = [owner EXCEPT ![t] = m_owner.owner]
    /\ scan' = [scan EXCEPT ![t] = CPU]
    /\ Goto(t, CASE m_owner.owner = NULL -> "adaptive_tryenter"
                 [] m_owner.owner = t    -> "panic"      \* recursive mutex_enter
                 [] OTHER                -> "search")
    /\ UNCHANGED <<m_owner, tc_lock, sleepq, running, cpu_thread, clearing>>

\* One CPU of the first search; the starting point is the cached cpup, so the
\* order is arbitrary.  Preemption is disabled.
Search(t) ==
    /\ pc[t] = "search" /\ Running(t)
    /\ \E c \in scan[t] :
         /\ scan' = [scan EXCEPT ![t] = @ \ {c}]
         /\ Goto(t, IF cpu_thread[c] = owner[t] THEN "spin"
                    ELSE IF scan[t] = {c} THEN "lookup" ELSE "search")
    /\ UNCHANGED <<m_owner, tc_lock, sleepq, running, cpu_thread, clearing, owner>>

\* disp_lock_enter(&tc->tc_lock), in turnstile_lookup.
turnstile_lookup(t, from, to) ==
    /\ pc[t] = from /\ Atomically(t)
    /\ tc_lock = NULL
    /\ tc_lock' = t
    /\ Goto(t, to)
    /\ UNCHANGED <<m_owner, sleepq, running, cpu_thread, clearing, owner, scan>>

EnterLookup(t) == turnstile_lookup(t, "lookup", "set_waiters")

\* MUTEX_SET_WAITERS (a cas loop that gives up on a free lock), membar_enter().
SetWaiters(t) ==
    /\ pc[t] = "set_waiters" /\ Atomically(t)
    /\ m_owner' = IF m_owner = Free THEN Free ELSE [m_owner EXCEPT !.waiters = TRUE]
    /\ scan' = [scan EXCEPT ![t] = CPU]
    /\ Goto(t, "research")
    /\ UNCHANGED <<tc_lock, sleepq, running, cpu_thread, clearing, owner>>

\* Mutant: the way back to spinning keeps tc_lock.
ResearchKeepsLock(t) ==
    /\ pc[t] = "research" /\ Running(t)
    /\ \E c \in scan[t] :
         /\ scan' = [scan EXCEPT ![t] = @ \ {c}]
         /\ Goto(t, CASE cpu_thread[c] = owner[t] -> "spin"
                      [] scan[t] = {c}            -> "recheck"
                      [] OTHER                    -> "research")
    /\ UNCHANGED <<m_owner, tc_lock, sleepq, running, cpu_thread, clearing, owner>>

\* The second search; a running owner makes the thread drop tc_lock and spin.
Research(t) ==
    /\ pc[t] = "research" /\ Running(t)
    /\ \E c \in scan[t] :
         /\ scan' = [scan EXCEPT ![t] = @ \ {c}]
         /\ IF cpu_thread[c] = owner[t]
              THEN tc_lock' = NULL /\ Goto(t, "spin")
              ELSE /\ UNCHANGED tc_lock
                   /\ Goto(t, IF scan[t] = {c} THEN "recheck" ELSE "research")
    /\ UNCHANGED <<m_owner, sleepq, running, cpu_thread, clearing, owner>>

\* turnstile_block() up to the release of tc_lock: join the turnstile's
\* writer queue, panic if the mutex is unowned by then.
turnstile_block(t) ==
    /\ sleepq' = sleepq \cup {t}
    /\ Goto(t, IF m_owner.owner = NULL THEN "panic" ELSE "swtch")

\* Mutant: block without looking at the owner again.
RecheckDropped(t) ==
    /\ pc[t] = "recheck" /\ Running(t)
    /\ turnstile_block(t)
    /\ tc_lock' = NULL
    /\ UNCHANGED <<m_owner, running, cpu_thread, clearing, owner, scan>>

\* If owner and waiters bit are unchanged, block; otherwise try again.
Recheck(t) ==
    /\ pc[t] = "recheck" /\ Running(t)
    /\ IF m_owner.owner = owner[t] /\ m_owner.waiters
         THEN turnstile_block(t)
         ELSE UNCHANGED sleepq /\ Goto(t, "spin")
    /\ tc_lock' = NULL
    /\ UNCHANGED <<m_owner, running, cpu_thread, clearing, owner, scan>>

----------------------------------------------------------------------------
(* Releasing *)

\* mutex_exit: compare the lock word with curthread.  A waiters bit, or
\* another owner, leads to mutex_vector_exit, which panics in the second case.
mutex_exit(t) ==
    /\ pc[t] = "held" /\ Running(t)
    /\ Goto(t, CASE m_owner = [owner |-> t, waiters |-> FALSE] -> "exit_store"
                 [] m_owner.owner = t                          -> "vector_exit"
                 [] OTHER                                      -> "panic")
    /\ UNCHANGED <<m_owner, tc_lock, sleepq, running, cpu_thread, clearing, owner, scan>>

\* A store of zero into the lock word enters the store buffer.
StoreFree(t) == clearing' = [c \in CPU |-> clearing[c] \/ On(t, c)]

\* The last instruction of the critical region of mutex_exit.
ExitStore(t) ==
    /\ pc[t] = "exit_store" /\ Running(t)
    /\ StoreFree(t)
    /\ Goto(t, "idle")
    /\ UNCHANGED <<m_owner, tc_lock, sleepq, running, cpu_thread, owner, scan>>

ExitLookup(t) == turnstile_lookup(t, "vector_exit", "vector_clear")

\* MUTEX_CLEAR_LOCK_AND_WAITERS
VectorClear(t) ==
    /\ pc[t] = "vector_clear" /\ Running(t)
    /\ StoreFree(t)
    /\ Goto(t, "vector_wakeup")
    /\ UNCHANGED <<m_owner, tc_lock, sleepq, running, cpu_thread, owner, scan>>

\* turnstile_wakeup() of all ts_waiters, or turnstile_exit() without a
\* turnstile; either way the release of tc_lock follows the clearing store.
VectorWakeup(t) ==
    /\ pc[t] = "vector_wakeup" /\ Atomically(t)
    /\ sleepq' = {}
    /\ tc_lock' = NULL
    /\ Goto(t, "idle")
    /\ UNCHANGED <<m_owner, running, cpu_thread, clearing, owner, scan>>

----------------------------------------------------------------------------
(* Dispatcher and memory system *)

\* The oldest buffered store of CPU c becomes visible: first the store of
\* CPU_THREAD, made when the CPU switched threads, then the one into m_owner.
Drain(c) ==
    /\ ~Drained(c)
    /\ IF cpu_thread[c] # running[c]
         THEN /\ cpu_thread' = [cpu_thread EXCEPT ![c] = running[c]]
              /\ UNCHANGED <<m_owner, clearing>>
         ELSE /\ m_owner' = Free
              /\ clearing' = [clearing EXCEPT ![c] = FALSE]
              /\ UNCHANGED cpu_thread
    /\ UNCHANGED <<tc_lock, sleepq, running, pc, owner, scan>>

\* resume(t): the lock btsl on t_lock, then the store of CPU_THREAD and, where
\* the platform has it, the membar that makes the store visible at once.
resume(t, c) ==
    /\ ~Running(t) /\ t \notin sleepq
    /\ running[c] = NULL /\ Drained(c)
    /\ running' = [running EXCEPT ![c] = t]
    /\ cpu_thread' = IF ResumeMembar THEN [cpu_thread EXCEPT ![c] = t] ELSE cpu_thread
    /\ UNCHANGED <<m_owner, tc_lock, sleepq, clearing, pc, owner, scan>>

\* The CPU leaves thread t for its idle thread (the first half of resume()).
Leave(t, c) ==
    /\ On(t, c) /\ Drained(c)
    /\ running' = [running EXCEPT ![c] = NULL]
    /\ UNCHANGED <<m_owner, tc_lock, sleepq, cpu_thread, clearing, owner, scan>>

\* A thread that has blocked gives up the CPU; it goes round the loop of
\* mutex_vector_enter when it is resumed.
swtch(t, c) == pc[t] = "swtch" /\ Leave(t, c) /\ Goto(t, "spin")

\* Mutant: the interrupted mutex_exit goes on with its store.
PreemptNoRestart(t, c) == pc[t] \notin NoPreemptPC /\ Leave(t, c) /\ UNCHANGED pc

\* An interrupt preempts t.  The return path resets a PC inside the critical
\* region of mutex_exit to its start.
preempt(t, c) ==
    /\ pc[t] \notin NoPreemptPC
    /\ Leave(t, c)
    /\ IF pc[t] = "exit_store" THEN Goto(t, "held") ELSE UNCHANGED pc

----------------------------------------------------------------------------
Enter(t) == \/ mutex_enter(t) \/ mutex_tryenter(t)

Step(t) == \/ mutex_adaptive_tryenter(t) \/ ReadOwner(t)
           \/ Search(t) \/ EnterLookup(t) \/ SetWaiters(t) \/ Research(t) \/ Recheck(t)
           \/ mutex_exit(t) \/ ExitStore(t)
           \/ ExitLookup(t) \/ VectorClear(t) \/ VectorWakeup(t)

Dispatch(c) == \/ Drain(c)
               \/ \E t \in Thread : resume(t, c) \/ swtch(t, c) \/ preempt(t, c)

Next == \/ \E t \in Thread : Enter(t) \/ Step(t)
        \/ \E c \in CPU : Dispatch(c)

\* Stores drain; a runnable thread is dispatched and a running one advances
\* again and again; a thread cannot be preempted inside the few instructions
\* of mutex_exit, or lose the race for tc_lock, forever.
Fairness ==
    /\ \A c \in CPU : WF_vars(Drain(c))
    /\ \A t \in Thread :
         /\ SF_vars(\E c \in CPU : resume(t, c))
         /\ WF_vars(\E c \in CPU : swtch(t, c))
         /\ SF_vars(Step(t))
         /\ SF_vars(ExitStore(t))
         /\ SF_vars(ExitLookup(t))

Spec == Init /\ [][Next]_vars
FairSpec == Spec /\ Fairness

----------------------------------------------------------------------------
(* Properties *)

\* Every variable stays in its range, and tc_lock is held exactly between
\* turnstile_lookup and its release.
TypeOK == /\ m_owner \in Word
          /\ tc_lock \in Thread \cup {NULL}
          /\ sleepq \subseteq Thread
          /\ running \in [CPU -> Thread \cup {NULL}]
          /\ cpu_thread \in [CPU -> Thread \cup {NULL}]
          /\ clearing \in [CPU -> BOOLEAN]
          /\ pc \in [Thread -> PC]
          /\ owner \in [Thread -> Thread \cup {NULL}]
          /\ scan \in [Thread -> SUBSET CPU]
          /\ \A t \in Thread : pc[t] \in TcPC <=> tc_lock = t

\* At most one thread is between acquiring the mutex and the store that
\* releases it, although that store is not atomic with the check before it
\* (mutex_exit) and reaches other CPUs late.
MutualExclusion == \A s, t \in Thread : Holding(s) /\ Holding(t) => s = t

\* The owner of the lock word has looked at the waiters bit for the last time
\* before it clears the word: it will not call mutex_vector_exit.
PastCheck == \/ \E t \in Thread : pc[t] = "exit_store"
             \/ \E c \in CPU : clearing[c] /\ pc[running[c]] = "idle"

\* No missed wakeup: while threads are asleep on the mutex, either the lock
\* word is owned with its waiters bit set and the owner has yet to look at
\* it, or the releasing thread is on its way to turnstile_wakeup.  This is
\* what the Big Theory Statement of mutex.c claims of (2M) against (3M).
NoMissedWakeup ==
    sleepq # {} => \/ m_owner.owner # NULL /\ m_owner.waiters /\ ~PastCheck
                   \/ \E t \in Thread : tc_lock = t /\ pc[t] = "vector_wakeup"

\* None of the panics is reached: recursive mutex_enter, mutex_exit by a
\* thread that is not the owner, turnstile_block on an unowned mutex.
NoPanic == \A t \in Thread : pc[t] # "panic"

\* The mutex implements the abstract lock: a thread holds it from the atomic
\* instruction that takes it up to the issue of the store that releases it.
Lock == INSTANCE AbstractLock WITH holders <- {t \in Thread : Holding(t)},
                                   waiting <- {t \in Thread : pc[t] \in EnterPC}
ImplementsLock == Lock!Spec

\* A thread asleep on the mutex is eventually woken, provided holders release
\* the mutex (mutex_vector_exit wakes all waiters).
SleepersWoken == \A t \in Thread : t \in sleepq ~> t \notin sleepq

=============================================================================
