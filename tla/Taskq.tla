------------------------------- MODULE Taskq -------------------------------
(***************************************************************************)
(* One task queue, common/os/taskq.c, over its whole life: taskq_create,   *)
(* then dispatches, waits, suspensions by several clients, then            *)
(* taskq_destroy, and a new queue in the same cached taskq_t.  A static    *)
(* queue has one list served by its worker threads.  A dynamic one has     *)
(* buckets of entries with a thread of their own each, and the list, with  *)
(* one worker, behind them.  What tq_lock or a bucket's lock covers is one *)
(* step, except where the code drops the lock on the way.                  *)
(***************************************************************************)
EXTENDS Integers, FiniteSets, Sequences

CONSTANTS Client,       \* the threads that use the queue
          Worker,       \* the threads that run taskq_thread
          Ent,          \* the entries of buckets, each with its taskq_d_thread
          Task, NULL,
          NBuckets,     \* tq_nbuckets
          SearchDepth,  \* taskq_search_depth
          MinAlloc, MaxAlloc,   \* arguments of taskq_create,
          MaxSize,              \* this one its nthreads for a dynamic queue
          CreateFlags,  \* the flags that queues are created with
          DispatchFlags \* the flags that clients dispatch with

Bucket == 1..NBuckets

ASSUME TaskqAssumption ==
    /\ \A S \in {Client, Worker, Ent, Task} : IsFiniteSet(S)
    /\ \A S \in {Client, Worker, Ent} : NULL \notin S
    /\ Client \cap (Worker \cup Ent) = {} /\ Worker \cap Ent = {}
    /\ Worker # {} /\ NULL \notin Task \cup Bucket /\ Task \cap Bucket = {}
    /\ {NBuckets, SearchDepth} \subseteq Nat \ {0}
    /\ {MinAlloc, MaxAlloc, MaxSize} \subseteq Nat
    /\ Cardinality(Ent) > MaxSize    \* the limit, not Ent, stops extensions
    /\ CreateFlags \subseteq SUBSET {"DYNAMIC", "PREPOPULATE"}
    /\ DispatchFlags \subseteq SUBSET {"NOSLEEP", "NOALLOC", "NOQUEUE"}

VARIABLES tq,      \* the taskq_t
          bkt,     \* its tq_buckets
          func,    \* tqent_func (and its argument) of each entry of a bucket
          home,    \* tqent_bucket
          pc, loc, \* where each thread is, and its local variables
          life,    \* what the clients know: there is no queue, or it is live
          status,  \* what has become of each task
          seen     \* the tasks that were scheduled when c called taskq_wait

vars == <<tq, bkt, func, home, pc, loc, life, status, seen>>

Thread == Client \cup Worker \cup Ent

\* tq.freelist counts the entries on tq_freelist; tq.live is tq_tcreates -
\* tq_tdeaths.  An entry of tq.task is a task, or the bucket that an internal
\* task (taskq_bucket_extend) is to extend.
NoBucket == [freelist |-> {}, nalloc |-> 0, nfree |-> 0, flags |-> {}]
NoLocals == [task |-> NULL, flags |-> {}, bucket |-> NULL, i |-> 0,
             todo |-> <<>>, ent |-> NULL, ret |-> "idle"]

Init == /\ tq = [flags |-> {}, active |-> 0, nthreads |-> 0, nalloc |-> 0,
                 minalloc |-> 0, freelist |-> 0, task |-> <<>>, live |-> 0,
                 writer |-> NULL, readers |-> {}]
        /\ bkt = [b \in Bucket |-> NoBucket]
        /\ func = [e \in Ent |-> NULL] /\ home = [e \in Ent |-> NULL]
        /\ pc = [x \in Thread |-> IF x \in Client THEN "idle" ELSE "none"]
        /\ loc = [x \in Client \cup Worker |-> NoLocals]
        /\ life = "none"
        /\ status = [t \in Task |-> "new"]
        /\ seen = [c \in Client |-> {}]

Dynamic == "DYNAMIC" \in tq.flags

----------------------------------------------------------------------------
\* Condition variables.  A woken thread goes on where its loop tests again.

Woken == [sleep |-> "awake", wait_cv |-> "wait", join_cv |-> "join",
          bwait_cv |-> "bwait", bjoin_cv |-> "bjoin"]

dispatch_cv   == {w \in Worker : pc[w] = "sleep"}
wait_cv       == {c \in Client : pc[c] \in {"wait_cv", "join_cv"}}
tqbucket_cv(b) == {c \in Client : pc[c] \in {"bwait_cv", "bjoin_cv"} /\ loc[c].i = b}

\* The sets of threads that cv_signal may wake.
cv_signal(cv) == IF cv = {} THEN {{}} ELSE {{x} : x \in cv}

GotoWaking(x, l, woken) ==
    pc' = [y \in Thread |-> IF y = x THEN l
                            ELSE IF y \in woken THEN Woken[pc[y]] ELSE pc[y]]
Goto(x, l) == pc' = [pc EXCEPT ![x] = l]

----------------------------------------------------------------------------
\* taskq_bucket_extend(B(x)), called by a client or run by the worker.

ExtendRet(x) == IF x \in Worker THEN "run" ELSE loc[x].ret

ExtendRefused(x) ==                 \* no memory, or too many threads
    /\ pc[x] = "extend"
    /\ Goto(x, ExtendRet(x))
    /\ UNCHANGED <<tq, bkt, func, home, loc, life, status, seen>>

ExtendCount(x) ==
    /\ pc[x] = "extend" /\ tq.live <= MaxSize
    /\ tq' = [tq EXCEPT !.live = @ + 1]
    /\ Goto(x, "create")
    /\ UNCHANGED <<bkt, func, home, loc, life, status, seen>>

ExtendNoMem(x) ==
    /\ pc[x] = "create"
    /\ tq' = [tq EXCEPT !.live = @ - 1]
    /\ Goto(x, ExtendRet(x))
    /\ UNCHANGED <<bkt, func, home, loc, life, status, seen>>

\* The new thread is stopped, yet its entry can be dispatched to from now on.
ExtendLink(x) ==
    /\ pc[x] = "create"
    /\ \E e \in Ent : LET b == loc[x].bucket IN
         /\ pc[e] = "none"
         /\ home' = [home EXCEPT ![e] = b]
         /\ func' = [func EXCEPT ![e] = NULL]
         /\ bkt' = [bkt EXCEPT ![b].freelist = @ \cup {e}, ![b].nfree = @ + 1]
         /\ pc' = [pc EXCEPT ![e] = "stopped", ![x] = "setrun"]
         /\ loc' = [loc EXCEPT ![x].ent = e]
    /\ UNCHANGED <<tq, life, status, seen>>

ExtendStart(x) ==
    /\ pc[x] = "setrun"
    /\ pc' = [pc EXCEPT ![loc[x].ent] = "start", ![x] = ExtendRet(x)]
    /\ loc' = [loc EXCEPT ![x].ent = NULL]
    /\ UNCHANGED <<tq, bkt, func, home, life, status, seen>>

taskq_bucket_extend(x) == \/ ExtendRefused(x) \/ ExtendCount(x) \/ ExtendNoMem(x)
                          \/ ExtendLink(x) \/ ExtendStart(x)

----------------------------------------------------------------------------
\* taskq_create_common.  The cached taskq_t keeps what taskq_destroy left in
\* it, but for the fields set here.

taskq_create(c) ==
    /\ pc[c] = "idle" /\ life = "none"
    /\ \E f \in CreateFlags :
         \E W \in IF "DYNAMIC" \in f THEN {{w} : w \in Worker} ELSE {Worker} :
           LET populated == IF "PREPOPULATE" \in f THEN MinAlloc ELSE 0
           IN /\ tq' = [tq EXCEPT !.flags = (f \cap {"DYNAMIC"}) \cup {"ACTIVE"},
                                  !.active = Cardinality(W),
                                  !.nthreads = Cardinality(W),
                                  !.minalloc = MinAlloc,
                                  !.nalloc = @ + populated,
                                  !.freelist = @ + populated]
              /\ pc' = [x \in Thread |->
                          IF x = c THEN IF f = {"DYNAMIC", "PREPOPULATE"}
                                        THEN "populate" ELSE "created"
                          ELSE IF x \in W THEN "loop" ELSE pc[x]]
    /\ bkt' = [b \in Bucket |-> NoBucket]
    /\ life' = "creating"
    /\ status' = [t \in Task |-> "new"]
    /\ UNCHANGED <<func, home, loc, seen>>

\* Each bucket is extended in turn.
Populate(c) ==
    /\ pc[c] = "populate"
    /\ LET b == loc[c].i + 1
       IN IF b > NBuckets
          THEN Goto(c, "created") /\ loc' = [loc EXCEPT ![c] = NoLocals]
          ELSE /\ Goto(c, "extend")
               /\ loc' = [loc EXCEPT ![c].bucket = b, ![c].i = b, ![c].ret = "populate"]
    /\ UNCHANGED <<tq, bkt, func, home, life, status, seen>>

Created(c) == /\ pc[c] = "created"
              /\ life' = "live" /\ Goto(c, "idle")
              /\ UNCHANGED <<tq, bkt, func, home, loc, status, seen>>

----------------------------------------------------------------------------
\* taskq_dispatch.

taskq_dispatch(c, t, f) ==
    /\ pc[c] = "idle" /\ life = "live" /\ status[t] = "new"
    /\ IF Dynamic
       THEN /\ "NOALLOC" \notin f
            /\ \E h \in Bucket :
                 loc' = [loc EXCEPT ![c].task = t, ![c].flags = f, ![c].bucket = h]
            /\ Goto(c, "hash")
       ELSE /\ "NOQUEUE" \notin f
            /\ loc' = [loc EXCEPT ![c].task = t, ![c].flags = f, ![c].todo = <<t>>]
            /\ Goto(c, "ent_alloc")
    /\ status' = [status EXCEPT ![t] = "called"]
    /\ UNCHANGED <<tq, bkt, func, home, life, seen>>

\* The bucket that c tries: the one its task hashes to, or in the search the
\* loc[c].i-th after it.
Tried(c) == IF pc[c] = "search" THEN ((loc[c].bucket + loc[c].i - 1) % NBuckets) + 1
                                ELSE loc[c].bucket

\* Mutant: the flag of a suspended bucket is not looked at.
CanDispatchSuspended(b) == bkt[b].nfree # 0

CanDispatch(b) == bkt[b].nfree # 0 /\ "SUSPEND" \notin bkt[b].flags

\* The look at tqbucket_nfree before the lock is one step with the test under
\* it.  The freelist is used from its end; which entry it is matters to no property.
\* A task that got into another bucket than its own has its own extended in
\* the background.
taskq_bucket_dispatch(c) ==
    /\ pc[c] \in {"hash", "search", "retry"} /\ CanDispatch(Tried(c))
    /\ LET b == Tried(c) IN
       \E e \in bkt[b].freelist :
         /\ bkt' = [bkt EXCEPT ![b].freelist = @ \ {e}, ![b].nalloc = @ + 1,
                               ![b].nfree = @ - 1]
         /\ func' = [func EXCEPT ![e] = loc[c].task]
         /\ GotoWaking(c, IF pc[c] = "search" THEN "ent_alloc" ELSE "idle",
                       IF pc[e] = "sleep" THEN {e} ELSE {})
    /\ loc' = IF pc[c] = "search" THEN [loc EXCEPT ![c].todo = <<loc[c].bucket>>]
                                  ELSE [loc EXCEPT ![c] = NoLocals]
    /\ status' = [status EXCEPT ![loc[c].task] = "queued"]
    /\ UNCHANGED <<tq, home, life, seen>>

\* The internal task that extends the bucket, then the task itself.
Background(c) ==
    <<loc[c].bucket>> \o IF "NOQUEUE" \in loc[c].flags THEN <<>> ELSE <<loc[c].task>>

BucketMiss(c) ==
    /\ pc[c] \in {"hash", "search", "retry"} /\ ~CanDispatch(Tried(c))
    /\ LET more == NBuckets # 1 /\ pc[c] # "retry"
                   /\ loc[c].i < IF SearchDepth < NBuckets THEN SearchDepth ELSE NBuckets
           extend == pc[c] # "retry" /\ "NOSLEEP" \notin loc[c].flags
       IN /\ Goto(c, IF more THEN "search" ELSE IF extend THEN "extend" ELSE "ent_alloc")
          /\ loc' = [loc EXCEPT
                       ![c].i = IF more THEN @ + 1 ELSE 0,
                       ![c].ret = IF ~more /\ extend THEN "retry" ELSE @,
                       ![c].todo = IF more \/ extend THEN <<>> ELSE Background(c)]
    /\ UNCHANGED <<tq, bkt, func, home, life, status, seen>>

\* taskq_ent_alloc for the first entry of loc[c].todo.

AllocFlags(c) == IF Head(loc[c].todo) \in Bucket THEN {"NOSLEEP"} ELSE loc[c].flags

HasFree(c) == tq.freelist > 0
              /\ ("NOALLOC" \in AllocFlags(c) \/ tq.nalloc >= tq.minalloc)

\* On to the next entry, or back to the caller: a task that was not scheduled
\* is refused.
NextEnt(c, st, woken) ==
    IF Len(loc[c].todo) = 1
    THEN /\ GotoWaking(c, "idle", woken)
         /\ loc' = [loc EXCEPT ![c] = NoLocals]
         /\ status' = [t \in Task |-> IF t = loc[c].task /\ st[t] = "called"
                                      THEN "refused" ELSE st[t]]
    ELSE /\ GotoWaking(c, "ent_alloc", woken)
         /\ loc' = [loc EXCEPT ![c].todo = Tail(@)]
         /\ status' = st

\* Mutant: only the task that ends the list's emptiness is signalled.
EnqueueSignalFirst(c, nalloc, freelist) ==
    /\ tq' = [tq EXCEPT !.task = Append(@, Head(loc[c].todo)),
                        !.nalloc = nalloc, !.freelist = freelist]
    /\ \E woken \in cv_signal(IF tq.task = <<>> THEN dispatch_cv ELSE {}) :
         NextEnt(c, [t \in Task |-> IF t = Head(loc[c].todo) THEN "queued" ELSE status[t]],
                 woken)
    /\ UNCHANGED <<bkt, func, home, life, seen>>

TQ_ENQUEUE(c, nalloc, freelist) ==
    /\ tq' = [tq EXCEPT !.task = Append(@, Head(loc[c].todo)),
                        !.nalloc = nalloc, !.freelist = freelist]
    /\ \E woken \in cv_signal(dispatch_cv) :
         NextEnt(c, [t \in Task |-> IF t = Head(loc[c].todo) THEN "queued" ELSE status[t]],
                 woken)
    /\ UNCHANGED <<bkt, func, home, life, seen>>

FromFreelist(c) == /\ pc[c] = "ent_alloc" /\ HasFree(c)
                   /\ TQ_ENQUEUE(c, tq.nalloc, tq.freelist - 1)

\* tq_lock is dropped, and tq_nalloc is looked at without it.
AllocUnlock(c) == /\ pc[c] = "ent_alloc" /\ ~HasFree(c)
                  /\ "NOALLOC" \notin AllocFlags(c)
                  /\ Goto(c, "kmem")
                  /\ UNCHANGED <<tq, bkt, func, home, loc, life, status, seen>>

kmem_cache_alloc(c) ==
    /\ pc[c] = "kmem"
    /\ ~(tq.nalloc >= MaxAlloc /\ "NOSLEEP" \in AllocFlags(c))
    /\ Goto(c, "enqueue")
    /\ UNCHANGED <<tq, bkt, func, home, loc, life, status, seen>>

AllocFailed(c) ==
    /\ \/ pc[c] = "ent_alloc" /\ ~HasFree(c) /\ "NOALLOC" \in AllocFlags(c)
       \/ pc[c] = "kmem" /\ "NOSLEEP" \in AllocFlags(c)
    /\ NextEnt(c, status, {})
    /\ UNCHANGED <<tq, bkt, func, home, life, seen>>

\* Mutant: a new entry is not counted.
EnqueueUncounted(c) == /\ pc[c] = "enqueue"
                       /\ TQ_ENQUEUE(c, tq.nalloc, tq.freelist)

EnqueueNew(c) == /\ pc[c] = "enqueue"
                 /\ TQ_ENQUEUE(c, tq.nalloc + 1, tq.freelist)

taskq_ent_alloc(c) == \/ FromFreelist(c) \/ AllocUnlock(c) \/ kmem_cache_alloc(c)
                      \/ AllocFailed(c) \/ EnqueueNew(c)

----------------------------------------------------------------------------
\* taskq_thread.  A thread that cv_wait lets go counts itself active first.

\* Mutant: a woken thread forgets to count itself.
ActiveUncounted(w) == tq.active

ActiveNow(w) == tq.active + IF pc[w] = "awake" THEN 1 ELSE 0

WorkerSleep(w) ==
    /\ pc[w] \in {"loop", "awake"} /\ "ACTIVE" \in tq.flags /\ tq.task = <<>>
    /\ tq' = [tq EXCEPT !.active = ActiveNow(w) - 1]
    /\ GotoWaking(w, "sleep", IF ActiveNow(w) = 1 THEN wait_cv ELSE {})
    /\ UNCHANGED <<bkt, func, home, loc, life, status, seen>>

WorkerTake(w) ==
    /\ pc[w] \in {"loop", "awake"} /\ "ACTIVE" \in tq.flags /\ tq.task # <<>>
    /\ tq' = [tq EXCEPT !.active = ActiveNow(w), !.task = Tail(@)]
    /\ LET i == Head(tq.task)
       IN loc' = [loc EXCEPT ![w].task = IF i \in Task THEN i ELSE NULL,
                             ![w].bucket = IF i \in Task THEN NULL ELSE i]
    /\ Goto(w, "rw_enter")
    /\ UNCHANGED <<bkt, func, home, life, status, seen>>

WorkerExit(w) ==
    /\ pc[w] \in {"loop", "awake"} /\ "ACTIVE" \notin tq.flags
    /\ tq' = [tq EXCEPT !.active = ActiveNow(w), !.nthreads = @ - 1]
    /\ GotoWaking(w, "none", wait_cv)
    /\ UNCHANGED <<bkt, func, home, loc, life, status, seen>>

\* The task runs while tq_threadlock is held as a reader.
WorkerRun(w) ==
    /\ pc[w] = "rw_enter" /\ tq.writer = NULL
    /\ tq' = [tq EXCEPT !.readers = @ \cup {w}]
    /\ IF loc[w].task = NULL
       THEN Goto(w, "extend") /\ UNCHANGED status
       ELSE Goto(w, "run") /\ status' = [status EXCEPT ![loc[w].task] = "running"]
    /\ UNCHANGED <<bkt, func, home, loc, life, seen>>

WorkerDone(w) ==
    /\ pc[w] = "run"
    /\ tq' = [tq EXCEPT !.readers = @ \ {w}]
    /\ status' = [t \in Task |-> IF t = loc[w].task THEN "done" ELSE status[t]]
    /\ loc' = [loc EXCEPT ![w] = NoLocals]
    /\ Goto(w, "ent_free")
    /\ UNCHANGED <<bkt, func, home, life, seen>>

\* Mutant: an entry that goes back to the cache is still counted.
EntFreeCounted(w) ==
    /\ pc[w] = "ent_free"
    /\ tq' = IF tq.nalloc <= tq.minalloc THEN [tq EXCEPT !.freelist = @ + 1] ELSE tq
    /\ Goto(w, "loop")
    /\ UNCHANGED <<bkt, func, home, loc, life, status, seen>>

taskq_ent_free(w) ==
    /\ pc[w] = "ent_free"
    /\ tq' = IF tq.nalloc <= tq.minalloc THEN [tq EXCEPT !.freelist = @ + 1]
                                         ELSE [tq EXCEPT !.nalloc = @ - 1]
    /\ Goto(w, "loop")
    /\ UNCHANGED <<bkt, func, home, loc, life, status, seen>>

taskq_thread(w) == \/ WorkerSleep(w) \/ WorkerTake(w) \/ WorkerExit(w)
                   \/ WorkerRun(w) \/ WorkerDone(w) \/ taskq_ent_free(w)

----------------------------------------------------------------------------
\* taskq_d_thread: the thread of entry e, when it has the bucket's lock.

CanRun(e)  == pc[e] \in {"start", "awake", "timedout"}
Closing(e) == "CLOSE" \in bkt[home[e]].flags

EntRun(e) ==
    /\ CanRun(e) /\ func[e] # NULL
    /\ Goto(e, "run")
    /\ status' = [status EXCEPT ![func[e]] = "running"]
    /\ UNCHANGED <<tq, bkt, func, home, loc, life, seen>>

\* Tasks are waited for before a bucket is closed; were it closed, the thread
\* would not sleep but look at once whether to die.
EntDone(e) ==
    /\ pc[e] = "run"
    /\ LET b == home[e] IN
       /\ bkt' = [bkt EXCEPT ![b].freelist = @ \cup {e}, ![b].nalloc = @ - 1,
                             ![b].nfree = @ + 1]
       /\ \E woken \in cv_signal(tqbucket_cv(b)) :
            GotoWaking(e, IF Closing(e) THEN "awake" ELSE "sleep", woken)
    /\ func' = [func EXCEPT ![e] = NULL]
    /\ status' = [status EXCEPT ![func[e]] = "done"]
    /\ UNCHANGED <<tq, home, loc, life, seen>>

EntSleep(e) ==
    /\ pc[e] \in {"start", "awake"} /\ func[e] = NULL /\ ~Closing(e)
    /\ Goto(e, "sleep")
    /\ UNCHANGED <<tq, bkt, func, home, loc, life, status, seen>>

EntTimeout(e) ==
    /\ pc[e] = "sleep"
    /\ Goto(e, "timedout")
    /\ UNCHANGED <<tq, bkt, func, home, loc, life, status, seen>>

EntDie(e) ==
    /\ CanRun(e) /\ func[e] = NULL /\ (pc[e] = "timedout" \/ Closing(e))
    /\ LET b == home[e] IN
       /\ bkt' = [bkt EXCEPT ![b].freelist = @ \ {e}, ![b].nfree = @ - 1]
       /\ \E woken \in cv_signal(tqbucket_cv(b)) : GotoWaking(e, "none", woken)
    /\ tq' = [tq EXCEPT !.live = @ - 1]
    /\ home' = [home EXCEPT ![e] = NULL]
    /\ UNCHANGED <<func, loc, life, status, seen>>

taskq_d_thread(e) == \/ EntRun(e) \/ EntDone(e) \/ EntSleep(e) \/ EntTimeout(e)
                     \/ EntDie(e)

----------------------------------------------------------------------------
\* taskq_wait: the list first, then each bucket.

Pending == {t \in Task : status[t] \in {"queued", "running"}}

taskq_wait(c) ==
    /\ pc[c] = "idle" /\ life = "live"
    /\ Goto(c, "wait")
    /\ loc' = [loc EXCEPT ![c].ret = "waited"]
    /\ seen' = [seen EXCEPT ![c] = Pending]
    /\ UNCHANGED <<tq, bkt, func, home, life, status>>

\* Mutant: tasks taken off the list are not waited for.
WaitListOnly(c) ==
    /\ pc[c] = "wait"
    /\ IF tq.task # <<>>
       THEN Goto(c, "wait_cv") /\ UNCHANGED loc
       ELSE IF Dynamic
       THEN Goto(c, "bwait") /\ loc' = [loc EXCEPT ![c].i = 1]
       ELSE Goto(c, loc[c].ret) /\ UNCHANGED loc
    /\ UNCHANGED <<tq, bkt, func, home, life, status, seen>>

WaitList(c) ==
    /\ pc[c] = "wait"
    /\ IF tq.task # <<>> \/ tq.active # 0
       THEN Goto(c, "wait_cv") /\ UNCHANGED loc
       ELSE IF Dynamic
       THEN Goto(c, "bwait") /\ loc' = [loc EXCEPT ![c].i = 1]
       ELSE Goto(c, loc[c].ret) /\ UNCHANGED loc
    /\ UNCHANGED <<tq, bkt, func, home, life, status, seen>>

WaitBucket(c) ==
    /\ pc[c] = "bwait"
    /\ IF bkt[loc[c].i].nalloc > 0
       THEN Goto(c, "bwait_cv") /\ UNCHANGED loc
       ELSE IF loc[c].i < NBuckets
       THEN UNCHANGED pc /\ loc' = [loc EXCEPT ![c].i = @ + 1]
       ELSE Goto(c, loc[c].ret) /\ UNCHANGED loc
    /\ UNCHANGED <<tq, bkt, func, home, life, status, seen>>

Waited(c) ==
    /\ pc[c] = "waited"
    /\ Goto(c, "idle")
    /\ loc' = [loc EXCEPT ![c] = NoLocals]
    /\ seen' = [seen EXCEPT ![c] = {}]
    /\ UNCHANGED <<tq, bkt, func, home, life, status>>

----------------------------------------------------------------------------
\* taskq_suspend and taskq_resume: bucket by bucket (there are none to mark in
\* a static queue), then the queue itself.

taskq_suspend(c) ==
    /\ pc[c] = "idle" /\ life = "live" /\ tq.writer = NULL /\ tq.readers = {}
    /\ tq' = [tq EXCEPT !.writer = c]
    /\ Goto(c, "suspend")
    /\ loc' = [loc EXCEPT ![c].i = IF Dynamic THEN 1 ELSE NBuckets + 1]
    /\ UNCHANGED <<bkt, func, home, life, status, seen>>

SuspendBucket(c) ==
    /\ pc[c] = "suspend" /\ loc[c].i \in Bucket
    /\ bkt' = [bkt EXCEPT ![loc[c].i].flags = @ \cup {"SUSPEND"}]
    /\ loc' = [loc EXCEPT ![c].i = @ + 1]
    /\ UNCHANGED <<tq, func, home, pc, life, status, seen>>

Suspended(c) ==
    /\ pc[c] = "suspend" /\ loc[c].i > NBuckets
    /\ tq' = [tq EXCEPT !.flags = @ \cup {"SUSPENDED"}]
    /\ Goto(c, "suspended")
    /\ UNCHANGED <<bkt, func, home, loc, life, status, seen>>

taskq_resume(c) ==
    /\ pc[c] = "suspended"
    /\ Goto(c, "resume")
    /\ loc' = [loc EXCEPT ![c].i = IF Dynamic THEN 1 ELSE NBuckets + 1]
    /\ UNCHANGED <<tq, bkt, func, home, life, status, seen>>

ResumeBucket(c) ==
    /\ pc[c] = "resume" /\ loc[c].i \in Bucket
    /\ bkt' = [bkt EXCEPT ![loc[c].i].flags = @ \ {"SUSPEND"}]
    /\ loc' = [loc EXCEPT ![c].i = @ + 1]
    /\ UNCHANGED <<tq, func, home, pc, life, status, seen>>

Resumed(c) ==
    /\ pc[c] = "resume" /\ loc[c].i > NBuckets
    /\ tq' = [tq EXCEPT !.flags = @ \ {"SUSPENDED"}, !.writer = NULL]
    /\ Goto(c, "idle")
    /\ loc' = [loc EXCEPT ![c] = NoLocals]
    /\ UNCHANGED <<bkt, func, home, life, status, seen>>

----------------------------------------------------------------------------
\* taskq_destroy, called when nobody else uses the queue.

taskq_destroy(c) ==
    /\ \A x \in Client : pc[x] = "idle"
    /\ life = "live"
    /\ life' = "closing"
    /\ Goto(c, "wait")
    /\ loc' = [loc EXCEPT ![c].ret = "deactivate"]
    /\ seen' = [seen EXCEPT ![c] = Pending]
    /\ UNCHANGED <<tq, bkt, func, home, status>>

Deactivate(c) ==
    /\ pc[c] = "deactivate"
    /\ tq' = [tq EXCEPT !.flags = @ \ {"ACTIVE"}]
    /\ GotoWaking(c, IF tq.nthreads # 0 THEN "join_cv" ELSE "join", dispatch_cv)
    /\ UNCHANGED <<bkt, func, home, loc, life, status, seen>>

Join(c) ==
    /\ pc[c] = "join"
    /\ IF tq.nthreads # 0 THEN Goto(c, "join_cv") /\ UNCHANGED tq
                           ELSE Goto(c, "drain") /\ tq' = [tq EXCEPT !.minalloc = 0]
    /\ UNCHANGED <<bkt, func, home, loc, life, status, seen>>

\* taskq_ent_free(taskq_ent_alloc()) while tq_nalloc is not zero: an entry of
\* the freelist goes; without one, a new entry comes and goes.
Drain(c) ==
    /\ pc[c] = "drain"
    /\ IF tq.nalloc = 0
       THEN /\ Goto(c, IF Dynamic THEN "close" ELSE "free")
            /\ loc' = [loc EXCEPT ![c].i = 1]
            /\ UNCHANGED tq
       ELSE /\ tq' = IF tq.freelist > 0
                     THEN [tq EXCEPT !.freelist = @ - 1, !.nalloc = @ - 1] ELSE tq
            /\ UNCHANGED <<pc, loc>>
    /\ UNCHANGED <<bkt, func, home, life, status, seen>>

CloseBucket(c) ==
    /\ pc[c] = "close"
    /\ bkt' = [bkt EXCEPT ![loc[c].i].flags = @ \cup {"CLOSE"}]
    /\ GotoWaking(c, IF bkt[loc[c].i].nfree > 0 THEN "bjoin_cv" ELSE "bjoin",
                  {e \in bkt[loc[c].i].freelist : pc[e] = "sleep"})
    /\ UNCHANGED <<tq, func, home, loc, life, status, seen>>

\* Mutant: the threads of a closed bucket are woken, and not waited for.
JoinBucketNoWait(c) ==
    /\ pc[c] \in {"bjoin", "bjoin_cv"}
    /\ IF loc[c].i < NBuckets
       THEN Goto(c, "close") /\ loc' = [loc EXCEPT ![c].i = @ + 1]
       ELSE Goto(c, "free") /\ UNCHANGED loc
    /\ UNCHANGED <<tq, bkt, func, home, life, status, seen>>

JoinBucket(c) ==
    /\ pc[c] = "bjoin"
    /\ IF bkt[loc[c].i].nfree > 0 THEN Goto(c, "bjoin_cv") /\ UNCHANGED loc
       ELSE IF loc[c].i < NBuckets
       THEN Goto(c, "close") /\ loc' = [loc EXCEPT ![c].i = @ + 1]
       ELSE Goto(c, "free") /\ UNCHANGED loc
    /\ UNCHANGED <<tq, bkt, func, home, life, status, seen>>

\* The taskq_t goes back to its cache, for the next taskq_create to find.
Free(c) ==
    /\ pc[c] = "free"
    /\ tq' = [tq EXCEPT !.live = IF Dynamic THEN 0 ELSE @]
    /\ life' = "none"
    /\ Goto(c, "idle")
    /\ loc' = [loc EXCEPT ![c] = NoLocals]
    /\ seen' = [seen EXCEPT ![c] = {}]
    /\ UNCHANGED <<bkt, func, home, status>>

----------------------------------------------------------------------------
\* What a thread does once it has begun, and what the clients may begin.
ClientStep(c) ==
    \/ Populate(c) \/ Created(c) \/ taskq_bucket_extend(c)
    \/ taskq_bucket_dispatch(c) \/ BucketMiss(c) \/ taskq_ent_alloc(c)
    \/ WaitList(c) \/ WaitBucket(c) \/ Waited(c)
    \/ SuspendBucket(c) \/ Suspended(c) \/ taskq_resume(c) \/ ResumeBucket(c) \/ Resumed(c)
    \/ Deactivate(c) \/ Join(c) \/ Drain(c) \/ CloseBucket(c) \/ JoinBucket(c) \/ Free(c)

Call(c) == \/ taskq_create(c) \/ taskq_wait(c) \/ taskq_suspend(c) \/ taskq_destroy(c)
           \/ \E t \in Task, f \in DispatchFlags : taskq_dispatch(c, t, f)

WorkerStep(w) == taskq_thread(w) \/ taskq_bucket_extend(w)

Next == \/ \E c \in Client : Call(c) \/ ClientStep(c)
        \/ \E w \in Worker : WorkerStep(w)
        \/ \E e \in Ent : taskq_d_thread(e)

Spec == Init /\ [][Next]_vars

\* Every thread goes on; tasks return; who suspends resumes.  A worker that
\* waits for tq_threadlock gets it in spite of repeated suspensions: the
\* readers/writer lock starves nobody (RWLock's NoStarvation).
Fairness == /\ \A c \in Client : WF_vars(ClientStep(c))
            /\ \A w \in Worker : WF_vars(WorkerStep(w)) /\ SF_vars(WorkerRun(w))
            /\ \A e \in Ent : WF_vars(taskq_d_thread(e))
FairSpec == Spec /\ Fairness

----------------------------------------------------------------------------
(* Properties *)

\* Every variable stays in its range: tq_active and tq_nthreads count workers,
\* and no count goes below zero.
TypeOK ==
    /\ tq \in [flags : SUBSET {"DYNAMIC", "ACTIVE", "SUSPENDED"},
              active : 0..Cardinality(Worker), nthreads : 0..Cardinality(Worker),
              nalloc : Nat, minalloc : {0, MinAlloc}, freelist : Nat,
              task : Seq(Task \cup Bucket), live : Nat,
              writer : Client \cup {NULL}, readers : SUBSET Worker]
    /\ bkt \in [Bucket -> [freelist : SUBSET Ent, nalloc : Nat, nfree : Nat,
                           flags : SUBSET {"SUSPEND", "CLOSE"}]]
    /\ func \in [Ent -> Task \cup {NULL}] /\ home \in [Ent -> Bucket \cup {NULL}]
    /\ life \in {"none", "creating", "live", "closing"}
    /\ status \in [Task -> {"new", "called", "refused", "queued", "running", "done"}]
    /\ seen \in [Client -> SUBSET Task]

\* Every count the queue keeps agrees with the entries it counts, although
\* entries move between lists, threads and the cache while locks are dropped;
\* and a task that was scheduled and has not finished is in exactly one place,
\* any other task nowhere: none is lost and none is run twice.
Holding(w) == pc[w] \in {"rw_enter", "extend", "create", "setrun", "run", "ent_free"}
Places(t) == {<<"list", i>> : i \in {j \in DOMAIN tq.task : tq.task[j] = t}}
             \cup {<<"worker", w>> : w \in {v \in Worker : Holding(v) /\ loc[v].task = t}}
             \cup {<<"entry", e>> : e \in {d \in Ent : func[d] = t}}
Accounted ==
    /\ tq.nalloc = tq.freelist + Len(tq.task) + Cardinality({w \in Worker : Holding(w)})
    /\ tq.live = Cardinality({e \in Ent : pc[e] # "none"})
                 + Cardinality({x \in Client \cup Worker : pc[x] = "create"})
    /\ \A b \in Bucket :
         /\ bkt[b].freelist = {e \in Ent : home[e] = b /\ func[e] = NULL}
         /\ bkt[b].nfree = Cardinality(bkt[b].freelist)
         /\ bkt[b].nalloc = Cardinality({e \in Ent : home[e] = b /\ func[e] # NULL})
    /\ \A t \in Task : Cardinality(Places(t)) = IF t \in Pending THEN 1 ELSE 0

\* When taskq_wait returns, to its caller or to taskq_destroy, every task that
\* was scheduled before the call has been executed: none slips from the list
\* into a bucket, or from one bucket into another, behind its back.
WaitComplete ==
    \A c \in Client : pc[c] \in {"waited", "deactivate"} => seen[c] \cap Pending = {}

\* When taskq_destroy has given the taskq_t back to its cache, no thread of the
\* queue is left to touch it, and what taskq_create takes over unseen (the
\* list, the freelist, the counts, tq_threadlock) is as the constructor left it.
FreedQuiet ==
    life = "none" => /\ \A x \in Worker \cup Ent : pc[x] = "none"
                     /\ tq.task = <<>> /\ tq.nalloc = 0 /\ tq.freelist = 0
                     /\ tq.live = 0 /\ tq.writer = NULL /\ tq.readers = {}

\* No worker sleeps while the list has a task for it: one cv_signal for each
\* task is enough, and a task that depends on another is not left behind it.
NoIdleWorker ==
    dispatch_cv # {} =>
      Len(tq.task) <= Cardinality({w \in Worker : pc[w] \in {"loop", "awake", "ent_free"}})

\* Between the return of taskq_suspend and the call of taskq_resume no worker
\* starts a task of the list, and no task gets into a bucket.  A task that was
\* in a bucket already may start, as the comment of taskq_suspend says.
SuspendedQuiet ==
    [][(\E c \in Client : pc[c] = "suspended")
         => /\ tq'.readers \subseteq tq.readers
            /\ \A e \in Ent : func[e] = NULL => func'[e] = NULL]_vars

\* A scheduled task is executed, whatever its thread was about to do, and
\* taskq_destroy returns: every thread it waits for dies, and tells it.
TaskRuns    == \A t \in Task : status[t] = "queued" ~> status[t] = "done"
DestroyEnds == life = "closing" ~> life = "none"
Progress    == TaskRuns /\ DestroyEnds

\* What taskq.c:86 says of taskq_create: for a dynamic queue nthreads is the
\* maximum number of threads.  taskq_bucket_extend tests the number before it
\* is incremented, and lets one more thread in.
ThreadLimit == Cardinality({e \in Ent : pc[e] # "none"}) <= MaxSize

\* What taskq.c:156 says of taskq_wait, that it waits for the tasks scheduled
\* so far: nobody waits for ever in a queue with nothing left to run.  The
\* cv_signal of a bucket's thread wakes one of those who wait.
InWait(c)   == pc[c] \in {"wait", "wait_cv", "bwait", "bwait_cv"}
WaitReturns == \A c \in Client : []<>(InWait(c) => Pending # {})
=============================================================================
