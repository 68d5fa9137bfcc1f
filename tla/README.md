# The kernel synchronisation core of Polaris, in TLA+

Polaris is the OpenSolaris ON tree (kernel, libraries, commands) with a PowerPC
port. This project specifies, model-checks and in part proves the part of the
kernel that everything else stands on: the blocking locks, the condition
variables, and the deferred work driven by the clock. All of it lives under
`usr/src/uts`; the paths below are relative to that directory.

## 1. Inventory

### 1.1 Components

| component | source | state | operations | depends on |
|---|---|---|---|---|
| adaptive mutex | `common/os/mutex.c`, `intel/ia32/ml/lock_prim.s`, `intel/sys/mutex_impl.h` | one word: owner and waiters bit | `mutex_enter`, `mutex_tryenter`, `mutex_exit`, `mutex_vector_enter`, `mutex_vector_exit` | turnstiles, `CPU_THREAD`, interrupt return |
| readers/writer lock | `common/os/rwlock.c`, `common/sys/rwlock_impl.h`, `lock_prim.s` | one word: owner or hold count, write-wanted, waiters; `t_kpri_req` of the holders | `rw_enter`, `rw_exit`, `rw_tryenter`, `rw_downgrade`, `rw_tryupgrade` | turnstiles, dispatch priorities |
| turnstile | `common/os/turnstile.c` | hash chains with `tc_lock`, two sleep queues, freelist, inheritor | `turnstile_lookup`, `_exit`, `_block`, `_wakeup`, `_change_pri`, `_interlock` | sleep queues, dispatcher |
| sleep queue | `common/os/sleepq.c` | hash of queues ordered by priority (`t_link`, `t_priforw`, `t_priback`) | `sleepq_insert`, `_unlink`, `_dequeue`, `_wakeone_chan`, `_wakeall_chan` | dispatcher locks |
| semaphore | `common/os/semaphore.c` | `s_count`, `s_slpq` | `sema_p`, `sema_p_sig`, `sema_v`, `sema_tryp`, `sema_change_pri`, `sema_unsleep` | signals, priorities |
| condition variable | `common/os/condvar.c` | `cv_waiters` (saturating), its threads on a sleep queue, `TS_SIGNALLED` | `cv_wait`, `cv_timedwait`, `cv_wait_sig`, `cv_timedwait_sig`, `cv_wait_stop`, `cv_signal`, `cv_broadcast` | mutex, callouts, signals |
| callouts | `common/os/callout.c`, `common/sys/callo.h` | hash chains by ID and by time, `ct_curtime`, `ct_runtime`, `c_done` | `timeout`, `untimeout`, `callout_schedule`, `callout_execute` | clock, task queues, condition variables |
| context switch | `intel/ia32/ml/swtch.s`, `i86pc/ml/locore.s`, `common/disp/disp.c` | `CPU_THREAD`, saved registers | `resume`, `swtch`, `preempt`, interrupt return | |
| task queue | `common/os/taskq.c` | task list, freelist, threads; per-CPU buckets of dynamic queues | `taskq_dispatch`, `_wait`, `_suspend`, `_resume`, `_destroy` | mutex, condition variables |
| stoppable rwlock | `common/os/rwstlock.c` | counts under a mutex | `rwst_enter`, `_exit`, `_trylock` | condition variables |
| serializer, error queue | `common/os/serializer.c`, `errorq.c` | job lists | dispatch and drain | task queues, soft interrupts |
| cyclics | `common/os/cyclic.c` | per-CPU heaps, producer/consumer buffers | add, remove, juggle, fire, expand | cross calls |
| dispatcher locks | `common/disp/disp_lock.c` | lock byte, spl | `disp_lock_enter`, `_exit` | |
| PowerPC lock primitives | `ppc/ml/lock_prim.s` | | unfinished: `rw_enter` and `rw_exit` return at once | |

How they interact. A lock that cannot be had leads to `turnstile_lookup`, which
takes `tc_lock`; the thread then announces itself in the lock word and joins a
sleep queue under `tc_lock`, and the releasing thread finds the announcement and
wakes sleepers, also under `tc_lock`. Condition variables and semaphores use hashed
sleep queues with their own `sq_lock`. Timed waits set a callout whose handler is
`setrun(t)`; `untimeout()` itself waits on a condition variable. Callouts are run by the
threads of a task queue. Every one of these reads state, drops a lock, and acts on
it later.

### 1.2 What is hard

* `mutex_exit` is a compare, a branch and a plain store: its correctness
  rests on the restart of interrupted code, on `CPU_THREAD`, and on memory ordering
  outside the mutex code.
* `rw_exit_wakeup` stores the whole lock word, bits and new holders included,
  without a compare-and-swap, and gives the lock to threads that are still asleep.
* `rw_downgrade` changes the word twice. `t_kpri_req` is raised and dropped for other threads.
* A `cv_signal` or `sema_v` can choose a thread that at the same time is
  interrupted or times out.
* A callout or a signal may come before the thread it should wake is queued.
* `cv_waiters` saturates and is read without a lock.
* `callout_execute` drops its lock in the middle of a chain that others change,
  while two threads and the clock move `ct_runtime` over a wrapping time.
* `turnstile_block` walks from owner to owner with two thread locks at a time, taken
  against their order when it must, while owners change and other walks overtake it.
* The buckets of a dynamic task queue grow and shrink under dispatches; a thread that has
  timed out may be given a task before it dies; `taskq_wait` looks at one place after the other.
* `taskq_t` structures and turnstiles are recycled with what is left in them.

`PROJECT.json` lists these and the others as hazards, each at its line, with the
property that would catch it.

### 1.3 Properties that make the components correct

* mutex: exclusion, no missed wakeup, no panic of a correct client, woken sleepers;
* rwlock: exclusion, the word and the turnstile tell the truth, the writer priority
  policy, no starvation where the policy promises none, balanced kernel priority;
* semaphore: every unit finds a sleeper, the highest priority first;
* condition variable: no lost signal, no oversleeping, an exact count;
* callouts: never passed over, early, executed twice or still running when
  `untimeout` has returned; always delivered;
* turnstiles: no thread waits for one of lower priority, boosts end with the lock that
  caused them, turnstiles are conserved, the walks end;
* task queues: no task lost or run twice, exact counts, complete waits, quiet
  after destroy and while suspended, every task run, every wait and every destroy finished,
  threads within their limit.

## 2. Modules

| module | models |
|---|---|
| `Mutex` | one adaptive mutex, with its turnstile, the CPUs' store buffers and the dispatcher |
| `AbstractLock` | what a mutex promises |
| `MutexProofs` | theorems about `Mutex` |
| `PriQueue` | the queue operations of `sleepq.c` as operators on sequences |
| `PriQueueProofs` | lemmas about `PriQueue`: what an insertion or a removal keeps and how it orders |
| `RWLock` | one readers/writer lock with its turnstile (uses `PriQueue`) |
| `RWLockProofs` | theorems about `RWLock` (uses `PriQueueProofs`) |
| `AbstractRWLock` | what a readers/writer lock promises |
| `Semaphore` | one semaphore (uses `PriQueue`) |
| `SemaphoreProofs` | theorems about `Semaphore` (uses `PriQueueProofs`) |
| `CondVar` | one condition variable, its mutex, its callers and their callouts |
| `CondVarProofs` | theorems about `CondVar` |
| `Callout` | one callout table, its clients, the clock and its task queue threads |
| `CalloutProofs` | theorems about `Callout` |
| `Turnstile` | priority inheritance through chains of blocked threads, and the turnstiles themselves |
| `TurnstileProofs` | theorems about `Turnstile` |
| `Taskq` | one task queue, static or dynamic, from `taskq_create` to `taskq_destroy` and again |
| `TaskqProofs` | theorems about `Taskq` |
| `MC*` | instances for TLC |

Operators named "Mutant: ..." are plausible mistakes, one for each
property; replacing the definition after it by the mutant violates the property.
Nothing else refers to them.

### 2.1 Mutex

The lock word `m_owner` is a record of owner and waiters bit. Each action is the code
between two points at which another CPU can interfere: `ReadOwner`, `Search` (one CPU
of `cpu_list` at a time), `EnterLookup`, `SetWaiters`, `Research`, `Recheck` for
`mutex_vector_enter`; `mutex_exit` (the compare) and `ExitStore` (the store) for the
fast exit; `ExitLookup`, `VectorClear`, `VectorWakeup` for the slow one.

`running[c]` is the thread a CPU executes; `cpu_thread[c]` is `CPU_THREAD` as the other
CPUs see it; `clearing[c]` says that the store of zero is still in the store buffer.
`Drain` makes the oldest store visible, and locked instructions
(`Atomically`) need an empty buffer. `preempt` includes the return path's restart of
`mutex_exit`. The constant `ResumeMembar` says whether `resume()` issues the barrier
that `mutex.c` asks for. The memory system and the locked instructions are external:
they are modelled from how the code uses them, as total store order. Only the two
stores on which the protocol depends are buffered; the stores inside the turnstile
are ordered by `tc_lock`.

Abstractions: the turnstile is a set of sleepers, because `mutex_vector_exit` wakes all
of them; the priority inheritance loop of `turnstile_block` is left to `Turnstile`; backoff
delays are left out.

### 2.2 RWLock

`rw_wwwh` is a record of owner, hold count, write-wanted and waiters. The queues are
sequences kept by `PriQueue` under `tc_lock`. `grant[t]` are the threads that `t` has made
holders in the word and has still to wake, so that handoff is visible: between the
store of the word (`Handoff`) and `turnstile_wakeup` (`ExitWakeup`) the lock belongs to
sleeping threads. `change_pri` stands for the dispatcher and for
`turnstile_change_pri`; it requires `tc_lock` free for a sleeping thread, because that
is then the thread lock. `kpri` is `t_kpri_req`.

### 2.3 Semaphore

Every critical section under `sq_lock` is a step. `sema_v` does not hand the unit over: the
woken thread competes (`Retry`). `Interrupted` and `PassOn` are separate steps because
the thread handles its signal without the lock in between.

### 2.4 CondVar

The callers form a small monitor: they add tokens and signal or broadcast after they
have dropped the mutex, or wait for a token. The monitor is external, written from how
the kernel uses condition variables; it is what gives "a lost signal" a meaning. `kind`
says which wait routine a thread is in, and the shared control points follow the order of
each: `cv_timedwait` and `cv_wait_stop` cancel the callout before they take the mutex,
`cv_timedwait_sig` after. A callout is set, due, executing, or finished, so
that `untimeout()` racing its handler and a handler that runs before `cv_block` are
separate cases. Priorities are left out: `cv_signal` wakes any sleeper, which includes the one the
code chooses. The stop loop inside `cv_wait_stop` is a delay before the mutex is
retaken. `cv_wait_sig_swap` is `cv_wait_sig` for what is modelled; the `sigret` argument of
`cv_wait_sig_swap_core`, which leaves the re-signalling to its caller, and the clock
arithmetic of `cv_waituntil_sig` are left out.

### 2.5 Callout

Times are residues modulo `Wrap`, and are compared by the sign of their difference as the
code does. `ct_lock` is a variable only where an executor holds it over
several steps; clients' critical sections are single steps that need it free. `rest[e]` is the
part of the chain that the `for` loop of `callout_execute` has still to visit; it is
recomputed when the handler has returned, because the code reads `c_lbnext` of the
callout after it has retaken the lock. `clock` takes `callout_schedule` apart at the call
of `taskq_dispatch`, which is made without the lock and whose failure is ignored. Handlers may call
`untimeout` on their own callout. CPR can stop scheduling at any time.

IDs are not reused while somebody remembers them: `callo.h` argues that short-term
timeouts end before their counter wraps, and that the long-term ones have an ID space
of their own that never wraps. The
fanout over tables and the tables run from soft interrupts are left out.

### 2.6 Turnstile

Threads follow scripts of nested locks, taken in one order (`LockOrder`) and released in any. A lock is
reduced to its owner and to what it does with turnstiles: a mutex clears its owner and wakes
all, a readers/writer lock (`Handoff`) with writers only is given to the first waiter. `Mutex` and
`RWLock` cover what happens before a thread holds `tc_lock`; here the test that leads to
`turnstile_block` and the taking of `tc_lock` are one step.

`lockp[t]` is `t_lockp`: the chain's lock for a sleeping thread, a dispatcher's lock for any
other, where each thread has a dispatcher lock of its own. `spin` says who holds each of them. A
walk keeps `cur` and `own`, the waiter and the owner at its head. `Read`, `Try`, `Check`, `Spin`
and `Lost` are the steps of `turnstile_interlock` between which other CPUs interfere;
`Serialize` and `Relock` are the restart of a loser. `Inherit` is `turnstile_pi_inherit` under both
locks and the release of the first. `ts` holds each turnstile's freelist, inheritor and inherited
priority; `t_prioinv` is read off it. The order of the sleep queue is that of `PriQueue`: `HandOver`
chooses a sleeper that nobody exceeds.

Left out: user-level priority inheritance locks (`SOBJ_USER_PI`) with their
signals, timeouts and `EDEADLK`; shared owners of readers/writer locks, which have no
`SOBJ_OWNER` and end a chain; and every change of a thread's own priority, of an owner or of a sleeper:
`t_pri` is a constant, so the priority that `CL_SLEEP` (`turnstile.c:459`) and `CL_WAKEUP` (`:742`) may
assign and what the scheduling classes do in between are not seen. `Inherited` and `BoostJustified` are
claims about fixed base priorities. `Lost` waits until the contended lock is free, where the code takes
and drops it (`turnstile.c:363-364`); that another walk may lose its `lock_try` to this momentary hold, and begin again as
it would after any other loss, is not visible.

### 2.7 Taskq

`tq` is the `taskq_t`, `bkt` its buckets; the freelist of the list's entries is a number,
since those entries differ in nothing, while the entries of buckets (`Ent`) have their
own thread, control point and `tqent_func`. `status` and `seen` are history: what has become
of each task, and which tasks `taskq_wait` owes its caller.

What `tq_lock` or a bucket's lock covers is one step, so that the steps are those between which
the code lets others in: `taskq_ent_alloc` is taken apart where it drops `tq_lock`
(`AllocUnlock`, `kmem_cache_alloc`, `EnqueueNew`), `taskq_bucket_extend` at each of its
critical sections and at the start of the stopped thread, `taskq_dispatch` at each bucket it tries.
The look at `tqbucket_nfree` before the bucket's lock is taken is one step with the test under the lock: a
stale value makes it skip or try a bucket as it would a moment earlier or later.
`tq.live` is `tq_tcreates - tq_tdeaths`. A client calls `taskq_destroy` when nobody else is in
a call, which the code assumes (`taskq.c:1433`); the next `taskq_create` finds the structure as
it was left. Allocation that may fail does so at any time. CPR, kstats and statistics are left
out, and so is the delay of one second that throttles allocation.

## 3. Runs

| run | instance | checks |
|---|---|---|
| `mutex` | 2 threads, 2 CPUs, membar | `TypeOK`, `MutualExclusion`, `NoMissedWakeup`, `NoPanic`, `ImplementsLock`, `SleepersWoken` |
| `mutex_nomembar` | 3 threads, 2 CPUs, no membar | `NoMissedWakeup`, violated |
| `rwlock` | 3 threads, 2 priorities that change | `TypeOK`, `StateAgrees`, `SleepersHaveHolder`, `WriterPriorityPolicy`, `ImplementsRW`, `NoStarvation` |
| `semaphore` | 3 threads, up to 2 units, 2 priorities that change | `TypeOK`, `NoLostWakeup`, `WakesHighest`, `UnitsTaken` |
| `condvar_safety` | 3 threads, 2 tokens, `CV_MAX_WAITERS` = 2 | `TypeOK`, `CountAgrees`, `NoLostSignal`, `NoOversleep`, `NoStaleTimer` |
| `condvar_live` | 2 threads, all routines | `TimedWaitEnds` |
| `callout` | 2 clients, 2 executors, 2 IDs, `Wrap` = 16, `MaxLag` = 1 | `TypeOK`, `NoMissedCallout`, `QuietAfterUntimeout`, `OneExecutor`, `NoMissedDone`, `NotEarly`, `Delivered` |
| `taskq_safety` | 2 clients, 2 workers, 2 entries, 2 tasks, 2 buckets, at most `MaxSize` + 1 = 2 bucket threads; static queues and prepopulated dynamic ones | `TypeOK`, `Accounted`, `WaitComplete`, `FreedQuiet`, `NoIdleWorker`, `SuspendedQuiet` |
| `taskq_live` | 2 clients, 1 worker, 1 entry, 2 tasks, 1 bucket | `Progress` |
| `taskq_threads` | 1 client, 1 worker, 2 entries, 2 buckets, a dynamic queue with `MaxSize` = 1 | `ThreadLimit`, violated |
| `taskq_waiters` | 3 clients, 1 worker, 1 task, 1 bucket, a dynamic queue | `WaitReturns`, violated |
| `turnstile` | 4 threads, 3 locks (one handed over) on 2 hash chains, 4 priorities | `TypeOK`, `Inherited`, `BoostJustified`, `Terminates` |

Why the bounds are enough.

* Mutex: an owner that is preempted at any instruction and a contender about to sleep, on
  two CPUs. The theorems remove the bound for the safety properties, here and for `RWLock`, `Semaphore`, `CondVar`,
  `Callout`, `Taskq` and `Turnstile` below; `mutex_nomembar` has three threads.
* RWLock: three threads, each of which may read or write at either priority, give a holder with a waiting writer and a waiting
  reader on either side of its priority, two waiting readers handed the lock together, and two
  waiting writers. Each of the others may come back again and again, so that streams of readers, streams of writers and queues of
  equals all occur beside a sleeper. `NoStarvation` asks only that
  priorities settle some day: the dispatcher may move them any number of times before.
* Semaphore: a thread that gives a unit, one that is woken or interrupted, one that takes the unit
  before it or sleeps on; threads change roles all the time.
* CondVar: `CV_MAX_WAITERS` is 2 where the code has 1024, so that three
  threads saturate it. `cv_wait_stop` differs from `cv_timedwait` in nothing that the safety
  properties see except its result, and is part of the liveness run. The theorems cover
  all routines and all bounds. The monitor may stop (nobody need add a token), so
  deadlock is not checked here.
* Callout: two executors, since a handler that runs long leaves the rest of the chain to the
  other. `Wrap` = 16 is several times the largest delay plus `MaxLag`, and the
  clock passes the wrap point. `MaxLag` bounds how far the clock runs ahead of callouts
  that are late and of running handlers. Without it a handler that runs
  for exactly one cycle of `clock_t` finds `ct_runtime` equal to its own old tick;
  at 100 ticks a second that takes 497 days with 32 bits. The view `Shifted` makes one state of those that differ by a common shift of all times: the
  model compares times only with each other, so such states have the same steps and satisfy
  the same predicates. For `Delivered` it matters also that no step of the clock looks like
  stuttering: while a callout is in use, each tick changes its distance from `lbolt`.
* Taskq: two entries on two buckets, one above `MaxSize`, so that the limit is what stops a
  third (`TaskqAssumption` asks for more entries than the limit, since the code makes one more); two tasks, so that one
  overtakes the other and a `TQ_NOSLEEP` dispatch finds `MaxAlloc` reached; both kinds of
  queue one after the other in the same `taskq_t`.
* Turnstile: `t1 -> a -> t2 -> b -> t3 -> c -> t4` crosses from one hash chain to the
  other and back, so walks meet in opposite directions, lose, and lose again as the serialised loser; `t1` and `t4` want both
  ends, so locks have two sleepers, a thread inherits through two locks, and a lock is handed
  over while somebody still waits. Everybody finishes, so deadlock is
  not checked; `Terminates` says that nobody stops before the end of its script.

Symmetry is used in runs without liveness properties only.

### Fairness

* Mutex: stores drain; a runnable thread is dispatched again and again (strong
  fairness of `resume`, since another thread may take the CPU); a running thread
  advances. Strong fairness of `ExitStore` says that interrupts do not hit the few
  instructions of `mutex_exit` every time; of `ExitLookup`, that the spin lock
  `tc_lock` does not starve a CPU forever. Holders release the lock: a client obligation.
* RWLock: the same for its steps, with strong fairness of the lookups, which take `tc_lock`; holders release the lock.
* Semaphore: only that a thread which is runnable runs.
* CondVar: the steps of a wait, and the callouts; nothing of the callers.
* Callout: the task queue threads run and handlers return, the clock goes on, a CPR
  suspend ends, and between suspends a tick completes (strong fairness, since suspends may recur).

* Taskq: every thread goes on with what it has begun, tasks return, and who suspends
  resumes. A worker that waits for `tq_threadlock` as a reader gets it although suspensions may
  recur (strong fairness): this is what `NoStarvation` of `RWLock` shows. Nobody has to make a call.
* Turnstile: every thread goes on (weak fairness); no fairness is assumed of the spin locks.

### The findings

**The barrier in `resume()`** (run `mutex_nomembar`). `mutex.c:134-136` names two requirements on code outside it, one of them "a membar
#StoreLoad after setting CPU_THREAD in resume()". The sun4 `resume` has it
(`sun4/ml/swtch.s:297`); the x86 `resume` stores `CPU_THREAD`
(`intel/ia32/ml/swtch.s:313` and `:513`) and nothing serialising follows. Run `mutex_nomembar`
shows what the model does without it: a thread that holds the mutex is
resumed, passes the compare of `mutex_exit` and issues its store while `CPU_THREAD` is still in the store
buffer; a contender sets the waiters bit, does not find the owner on any CPU, finds owner and
bit unchanged, and sleeps; then the stores drain and nobody wakes it.

How far this reaches in the code: a thread that is preempted by an interrupt goes back
through `iret`, which serialises, and most voluntary switches are followed by a locked
instruction (the mutex that is retaken). What remains is a switch out of a
`kpreempt(KPREEMPT_SYNC)` at the end of `disp_lock_exit`, as in a `cv_signal` under the
mutex followed by `mutex_exit`. The model preempts at any instruction
and does not tell these returns apart, so it shows that the stated requirement is needed by the algorithm,
not how often it can bite.

**One bucket thread too many** (run `taskq_threads`). The comment at `taskq.c:86-87` says that "'nthreads' specifies the
maximum number of threads in the task queue". `taskq_bucket_extend` compares the count before the increment with
`>` (`:1561`), so that the extension which finds `nthreads` bucket threads makes another. The run stops at two
bucket threads in a queue of one. The surplus does not grow: `AtMostOneOver` (section 4) bounds it by one, however many
threads extend buckets at a time.

**Waiters that are not woken** (run `taskq_waiters`). The comment at `taskq.c:156` says that `taskq_wait` "Waits for all
previously scheduled tasks to complete", and does not restrict it to a single caller. `taskq_d_thread` wakes those who wait for a
bucket with `cv_signal` (`:1188` and `:1248`), where the list's worker uses `cv_broadcast` (`:1088`). One caller is
woken when the bucket's task is done, one more when its thread dies after its idle timeout, and
the others not at all until the bucket is used again. In the run three clients wait for one task; under fairness of all threads it completes, two
callers return, and the third sleeps for ever with nothing left to wait for. `taskq_destroy` is not affected: nobody else may be in a call then.

One more observation, which is not a run: `taskq_ent_alloc` tests `tq_maxalloc` after it has dropped `tq_lock`, so concurrent
`TQ_NOSLEEP` dispatches can each find room for one and exceed it together, although the comment at `taskq.c:94-95` calls the limit
advisory for `TQ_SLEEP` only.

## 4. Proofs

TLAPS proves the following for every set of threads, CPUs and every bound.

`MutexProofs`, from `ConstAssumption` (`NULL` is no thread):

* `Base` is inductive. `MutualExclusion` is not inductive by itself: the word is freed
  by a store that becomes visible later, so `Base` says that the owner in memory either holds the
  mutex or is the running thread of a CPU with a buffered clear (`ClearInv`,
  `OwnerInv`), that a thread past the compare of `mutex_exit` is running (`RunInv`, which is
  what the restart buys), and who has `tc_lock` (`TcInv`).
* `TypeCorrect`, `Exclusion` and `PanicFree` follow from it. They do not need the membar.
* `WakeupsNotMissed`, assuming `ResumeMembar`. `Wake` adds that `CPU_THREAD` is
  visible for every running thread (`VisInv`) and the key fact about a search under way
  (`SearchInv`): if the owner is past its compare, then either the
  waiters bit is not set or the CPU that it runs on has still to be searched. This is the argument
  of the Big Theory Statement of `mutex.c`, which the comment there says was checked by exhaustive simulation.
* `Refinement`: `Mutex` implements `AbstractLock`, with holders the threads between the
  compare-and-swap and the issue of the releasing store, and waiting the threads inside `mutex_vector_enter`.

`CondVarProofs`, from `CVAssumption` (finitely many threads, a positive
`CV_MAX_WAITERS`) and `RoutineAssumption`:

* `Ctl` ties control points to the mutex, the callout and the queue, and gives
  `TypeCorrect`, `NotOverslept` and `TimersCancelled`.
* `CountExact`: below `CV_MAX_WAITERS` the count is the number of sleepers. It is
  inductive relative to `Ctl`.
* `SignalsNotLost`, by an accounting argument: each step that adds a token or removes a thread from `InFlight` is matched
  (`Balance`), and a thread blocks only while there is no token.

`PriQueueProofs` has no theorem of its own. Its lemmas say that `sleepq_insert`, removal and requeueing keep
a queue a sequence of distinct threads, add and remove exactly the thread they should, and keep it
ordered by priority; the next two modules cite them.

`SemaphoreProofs`, from `SemaAssumption` (finitely many threads, priorities that are natural numbers):

* `TypeOK` is inductive with the order of the queue in it; `WakesHighest` follows, since `sema_v` takes the
  first of an ordered queue and `sema_change_pri` requeues.
* `NoLostWakeup`: units and sleepers together imply at least as many threads in flight as can be
  served. Each step that leaves `InFlight` is shown to take a unit, to wake another thread in its place, or to leave no
  unit or no sleeper; `sema_p_sig` that is interrupted after it was woken is the case that needs `PassOn`.

`RWLockProofs`, from `RWAssumption` (`NULL` is no thread, finitely many threads, natural priorities):

* The invariant has twelve parts: `Types`; `Chain` (who holds `tc_lock`); `QueuesOK` and `Queued` (the queues are ordered, without
  repetition, and hold sleepers of their mode); `GrantOK` (threads that are granted the lock while they sleep are the first
  of their queue, and whoever granted it is about to wake them); `WordAgrees` (owner and hold count are the holders,
  granted sleepers included); `Exclusive`; `Bits` (waiters and write-wanted tell of the sleepers that have not been granted the
  lock, and of the one thread about to join them); `WaitLocked` (a lock with waiters is held); `ReadersWait` (readers wait for
  readers only during a downgrade); `Alone`; `KpriBalanced`. `StateAgrees` is not inductive without them: `Handoff` stores a
  whole word computed from the queues without a compare-and-swap, and `Alone` (who is on its way there is the only
  holder) is what makes that sound.
* `TypeCorrect`, `StateAgreesThm`, `SleepersHaveHolderThm` and `WriterPriorityPolicyThm` follow from it.
* `Refinement`: `RWLock` implements `AbstractRWLock`; a handoff is the step in which the new holders, still asleep,
  enter.

`CalloutProofs`, from `CalloutAssumption` (twice a delay, or one tick, plus the lag is less than the range of `clock_t`):

* `Ctl` ties the chains, the freelist, the executing bits, the executors and the clients who wait to each other.
  `OneExecutorThm`, `QuietAfterUntimeoutThm` and `NoMissedDoneThm` follow.
* Comparison of wrapping times is not transitive, so the invariant cannot be stated on the residues. `Timed` says that there are
  whole numbers of which `lbolt`, `ct_curtime`, `ct_runtime` and every pending `c_runtime` are the remainders,
  close enough together that the sign of a difference tells their order. `Scanned` says that
  a pending callout of the tick that an executor works on is still ahead of it on the chain. Together they give
  `NoMissedCalloutThm` and `NotEarlyThm`. `TypeCorrect` has a theorem of its own.

`TaskqProofs`, from `TaskqAssumption` (finite sets that do not overlap, positive numbers of buckets, more entries than the limit):

* The invariant has sixteen parts: types; the phase of the queue's life (`PhaseOK`); what each thread remembers across an
  unlock (`LocalsOK`, `OwnTask`); who has suspended it and which threads are not yet started (`SuspendOK`, `SetrunOK`); which
  entries are on which bucket and who runs them (`EntriesOK`, `WorkOK`); the counts (`ThreadsOK`, `AllocOK`, `LiveOK`); the one place where
  a task is (`PlacesOK`); what the waits have passed (`WaitOK`, `DestroyOK`); `FreedQuiet` and `NoIdleWorker`.
* It speaks of threads through `Kind`: a sleeper counts as being where it will be when it is woken. So a `cv_broadcast` or
  `cv_signal` changes nothing that the invariant sees, and each step moves one thread.
* `AccountedThm`, `WaitCompleteThm`, `FreedQuietThm`, `NoIdleWorkerThm`, `SuspendedQuietThm` and `TypeCorrect` follow.
  `SuspendedQuiet` is about tasks of the list and about entering a bucket; a task that is in a bucket when
  `taskq_suspend` is called may still start, as its comment says (`taskq.c:163`).
  `AtMostOneOver` follows from `LiveOK`: the threads there are, and the threads that are making one, are counted together.
  `WaitComplete` is the one that could not be argued from one lock: a task seen by `taskq_wait` may
  only move from the list into a worker, and from a bucket nowhere, which `PlacesOK` and `WaitOK` say together.

`TurnstileProofs`, from `TurnstileAssumption` (finitely many threads and locks, natural priorities) and
`LockOrder` (there is an order of the locks that every script follows; the code panics on a cycle, so its callers must have one):

* `Ctl` says which thread lock is held at each point of `turnstile_block`, that the thread whose lock a walk holds can neither be woken
  nor begin to sleep, and (`RankAt`) that a walk goes up the lock order. So it never comes back to the thread that began it, although
  the owner it reads may release the lock before its thread lock is had: the panic is not reached.
* `PlaceOK` and `CountOK`: each turnstile is attached, active or on one freelist. When the last sleepers leave, they
  take as many different turnstiles as there are, hence all of them, the active one too. With `Ctl` this is `TypeCorrect`.
* `BoostOK`: a thread inherits only from active turnstiles of locks it owns, has at least what it inherits, and no more than its own priority
  or one that it inherits. `turnstile_pi_waive` recomputes the maximum of what is left; the new owner of a lock that is handed over is the
  sleeper of highest priority, and so has already what it inherits. `BoostIsJustified` follows.
* `CoverOK`: whoever waits for an owner that has not inherited its priority is ahead of a walk on the chain of waiters and owners. `Reach` defines
  chains without induction, as membership of every set closed under waiting. A walk that loses its locks goes back to its first
  thread, so it must be shown that what was ahead of it still is (second part of `CoverOK`); waking threads cuts
  chains, but only where they end. With no walk under way nobody is left over: `PriorityInherited`.

Only model-checked: all liveness properties (`SleepersWoken`, `NoStarvation`, `UnitsTaken`, `TimedWaitEnds`, `Delivered`,
`Progress`, `Terminates`), because fairness and `ENABLED` are outside the prover.

## 5. Not modelled

Spin mutexes and `lock_set_spl`; destruction of locks; lockstat hot patching; panic
and shutdown paths, in which the primitives return at once; user-level priority
inheritance; CPR callbacks of task queue threads; the recycling of callout IDs; scheduling
classes and dispatch queues beyond `swtch` and `preempt`; the memory
allocators; file systems, STREAMS, networking, drivers, platform code and user land. The PowerPC lock primitives are unfinished
in this tree and have no behaviour to specify.

## 6. Plan

In this order; the first three blocks are done.

1. Done: `Mutex`, `RWLock`, `Semaphore`, `CondVar`, `Callout` with their runs; `MutexProofs`, `CondVarProofs`.
2. Done: `Taskq`, static and dynamic; `Turnstile`, the priority inheritance chain and the freelists.
3. Done: `SemaphoreProofs`, `RWLockProofs`, `CalloutProofs`, `TaskqProofs`, `TurnstileProofs`, with `PriQueueProofs` under the first two.
4. `SleepQ`: the pointer structure of `sleepq.c`, refined to `PriQueue`.
5. `RWStLock` over condition variables; `Serializer` over task queues; `ErrorQ`, lock-free dispatch against drain and panic.
6. User-level priority inheritance in `Turnstile`; an abstract timer that `Callout` implements.
7. Cyclics and dispatcher locks, if there is room.
