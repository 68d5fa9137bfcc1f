---------------------------- MODULE TaskqProofs ----------------------------
(***************************************************************************)
(* Proofs about Taskq for any clients, workers, entries and tasks, any     *)
(* number of buckets and any limits.                                       *)
(*                                                                         *)
(* The invariant speaks of where threads are but for their sleep on a      *)
(* condition variable: a thread that sleeps is where it will be when it is *)
(* woken.  So a wakeup changes nothing that the invariant can see, and a   *)
(* step moves one client, one worker or one entry.                         *)
(***************************************************************************)
EXTENDS Taskq, FiniteSetTheorems, SequenceTheorems, TLAPS

Kind(l) == IF l \in DOMAIN Woken THEN Woken[l] ELSE l

\* Clients, workers and the threads of entries, and the locals of the first two.
cat  == [c \in Client |-> Kind(pc[c])]
wat  == [w \in Worker |-> Kind(pc[w])]
eat  == [e \in Ent |-> Kind(pc[e])]
cloc == [c \in Client |-> loc[c]]
wloc == [w \in Worker |-> loc[w]]

\* The thread that somebody has created and is to start.
setting == [x \in Client \cup Worker |-> IF pc[x] = "setrun" THEN loc[x].ent ELSE NULL]

----------------------------------------------------------------------------
(* Types *)

PCs == {"idle", "populate", "created", "extend", "create", "setrun", "hash", "search", "retry",
        "ent_alloc", "kmem", "enqueue", "wait", "wait_cv", "bwait", "bwait_cv", "waited",
        "suspend", "suspended", "resume", "deactivate", "join", "join_cv", "drain", "close",
        "bjoin", "bjoin_cv", "free", "none", "loop", "sleep", "awake", "rw_enter", "run",
        "ent_free", "stopped", "start", "timedout"}

TqType == [flags : SUBSET {"DYNAMIC", "ACTIVE", "SUSPENDED"}, active : Int, nthreads : Int,
           nalloc : Int, minalloc : {0, MinAlloc}, freelist : Nat,
           task : Seq(Task \cup Bucket), live : Int,
           writer : Client \cup {NULL}, readers : SUBSET Worker]

BktType == [freelist : SUBSET Ent, nalloc : Int, nfree : Int, flags : SUBSET {"SUSPEND", "CLOSE"}]

LocType == [task : Task \cup {NULL}, flags : SUBSET {"NOSLEEP", "NOALLOC", "NOQUEUE"},
            bucket : Bucket \cup {NULL}, i : Nat, todo : Seq(Task \cup Bucket), ent : Ent \cup {NULL},
            ret : {"idle", "populate", "retry", "waited", "deactivate"}]

Typ ==
    /\ tq \in TqType /\ bkt \in [Bucket -> BktType]
    /\ func \in [Ent -> Task \cup {NULL}] /\ home \in [Ent -> Bucket \cup {NULL}]
    /\ pc \in [Thread -> PCs] /\ loc \in [Client \cup Worker -> LocType]
    /\ life \in {"none", "creating", "live", "closing"}
    /\ status \in [Task -> {"new", "called", "refused", "queued", "running", "done"}]
    /\ seen \in [Client -> SUBSET Task]

----------------------------------------------------------------------------
(* Clients *)

Ext == {"extend", "create", "setrun"}

Creating(c)   == cat[c] \in {"populate", "created"} \/ (cat[c] \in Ext /\ cloc[c].ret = "populate")
Searching(c)  == cat[c] \in {"hash", "search", "retry"} \/ (cat[c] \in Ext /\ cloc[c].ret = "retry")
Enqueuing(c)  == cat[c] \in {"ent_alloc", "kmem", "enqueue"}
Waiting(c)    == cat[c] \in {"wait", "bwait"}
Suspending(c) == cat[c] \in {"suspend", "suspended", "resume"}
Destroying(c) == \/ cat[c] \in {"deactivate", "join", "drain", "close", "bjoin", "free"}
                 \/ Waiting(c) /\ cloc[c].ret = "deactivate"

\* What the clients do goes with the life of the queue; who creates or destroys
\* it is alone.
PhaseOK ==
    /\ \A c \in Client :
         \/ cat[c] = "idle"
         \/ life = "creating" /\ Creating(c)
         \/ life = "closing" /\ Destroying(c)
         \/ /\ life = "live"
            /\ \/ Searching(c) \/ Enqueuing(c) \/ Suspending(c) \/ cat[c] = "waited"
               \/ Waiting(c) /\ cloc[c].ret = "waited"
    /\ \A c, d \in Client :
         life \in {"creating", "closing"} /\ cat[c] # "idle" /\ cat[d] # "idle" => c = d

\* What is left to enqueue: an extension of a bucket, the task, or both.
TodoOK(c) ==
    LET t == cloc[c].task IN
    \/ \E b \in Bucket : Dynamic /\ cloc[c].todo = <<b>>
    \/ status[t] = "called" /\ cloc[c].todo = <<t>>
    \/ \E b \in Bucket : Dynamic /\ status[t] = "called" /\ cloc[c].todo = <<b, t>>

LocalsOK == \A c \in Client :
    /\ cat[c] \in {"idle", "created"} => cloc[c] = NoLocals
    /\ cat[c] = "populate" => Dynamic
    /\ cat[c] \in Ext \cup {"hash", "search", "retry"} => Dynamic /\ cloc[c].bucket \in Bucket
    /\ cat[c] \in {"bwait", "close", "bjoin"} => Dynamic /\ cloc[c].i \in Bucket
    /\ Searching(c) => cloc[c].task \in Task /\ status[cloc[c].task] = "called"
    /\ Enqueuing(c) => cloc[c].task \in Task /\ TodoOK(c)

\* A task is dispatched by one client.
OwnTask ==
    /\ \A c \in Client : cloc[c].task # NULL => status[cloc[c].task] # "new"
    /\ \A c, d \in Client : cloc[c].task # NULL /\ cloc[c].task = cloc[d].task => c = d

\* tq_threadlock is held as writer from taskq_suspend to taskq_resume, and the
\* buckets that taskq_suspend has come by are marked.
SuspendOK ==
    /\ \A c \in Client : tq.writer = c <=> Suspending(c)
    /\ Dynamic => \A c \in Client : \A b \in Bucket :
         cat[c] = "suspended" \/ (cat[c] = "suspend" /\ b < cloc[c].i) => "SUSPEND" \in bkt[b].flags

\* A new thread is started by the thread that created it.
SetrunOK ==
    /\ \A c \in Client : cat[c] = "setrun" => setting[c] \in Ent
    /\ \A w \in Worker : wat[w] = "setrun" => setting[w] \in Ent
    /\ \A x \in Client \cup Worker : setting[x] \in Ent => eat[setting[x]] = "stopped"
    /\ \A x, y \in Client \cup Worker : setting[x] \in Ent /\ setting[x] = setting[y] => x = y

----------------------------------------------------------------------------
(* Entries and workers *)

InUse(b) == {e \in Ent : home[e] = b /\ func[e] # NULL}
OnFreelist(b) == {e \in Ent : home[e] = b /\ func[e] = NULL}

EntriesOK ==
    /\ \A e \in Ent : /\ home[e] = NULL <=> eat[e] = "none"
                      /\ eat[e] = "none" => func[e] = NULL
                      /\ eat[e] = "run" => func[e] # NULL
                      /\ ~Dynamic => eat[e] = "none"
    /\ \A b \in Bucket : /\ bkt[b].freelist = OnFreelist(b)
                         /\ bkt[b].nfree = Cardinality(OnFreelist(b))
                         /\ bkt[b].nalloc = Cardinality(InUse(b))

Holders == {w \in Worker : wat[w] \in Ext \cup {"rw_enter", "run", "ent_free"}}
Active  == {w \in Worker : wat[w] \notin {"none", "awake"}}
Alive   == {w \in Worker : wat[w] # "none"}

\* The locals of a worker.
WorkOK ==
    /\ \A w \in Worker :
         /\ wat[w] \in {"none", "loop", "awake", "ent_free"} => wloc[w].task = NULL
         /\ wat[w] = "rw_enter" /\ wloc[w].task = NULL => wloc[w].bucket \in Bucket /\ Dynamic
         /\ wat[w] \in Ext => wloc[w].task = NULL /\ wloc[w].bucket \in Bucket /\ Dynamic
    /\ \A i \in DOMAIN tq.task : tq.task[i] \in Bucket => Dynamic
    /\ tq.readers = {w \in Worker : wat[w] \in Ext \cup {"run"}}

\* The counts of threads.  Who exits does not count itself out of tq_active.
ThreadsOK ==
    /\ tq.nthreads = Cardinality(Alive)
    /\ "ACTIVE" \in tq.flags => tq.active = Cardinality(Active)
    /\ "ACTIVE" \notin tq.flags =>
         /\ tq.task = <<>> /\ \A w \in Worker : wat[w] \in {"none", "awake"}
         /\ 0 <= tq.active /\ tq.active + tq.nthreads <= Cardinality(Worker)
    /\ life \in {"creating", "live"} => "ACTIVE" \in tq.flags
    /\ \A c \in Client : cat[c] \in {"wait", "bwait", "deactivate"} => "ACTIVE" \in tq.flags

AllocOK == tq.nalloc = tq.freelist + Len(tq.task) + Cardinality(Holders)

LiveEnts == {e \in Ent : eat[e] # "none"}
Creators == {c \in Client : cat[c] = "create"} \cup {w \in Worker : wat[w] = "create"}
LiveOK == tq.live = Cardinality(LiveEnts) + Cardinality(Creators) /\ tq.live <= MaxSize + 1

----------------------------------------------------------------------------
(* Tasks *)

Listed(t)  == \E i \in DOMAIN tq.task : tq.task[i] = t
Held(t)    == \E w \in Worker : wloc[w].task = t
Entered(t) == \E e \in Ent : func[e] = t

\* A task is in one place when it is scheduled and not done, else nowhere.
PlacesOK ==
    /\ \A t \in Task : status[t] \in {"queued", "running"} <=> Listed(t) \/ Held(t) \/ Entered(t)
    /\ \A i, j \in DOMAIN tq.task : tq.task[i] \in Task /\ tq.task[i] = tq.task[j] => i = j
    /\ \A v, w \in Worker : wloc[v].task # NULL /\ wloc[v].task = wloc[w].task => v = w
    /\ \A d, e \in Ent : func[d] # NULL /\ func[d] = func[e] => d = e
    /\ \A t \in Task : /\ ~(Listed(t) /\ Held(t))
                       /\ ~(Listed(t) /\ Entered(t))
                       /\ ~(Held(t) /\ Entered(t))

\* What a client waits for is in the buckets it has not come by.
WaitOK == \A c \in Client :
    /\ cat[c] \in {"wait", "bwait", "waited", "deactivate"} =>
         \A t \in seen[c] : status[t] \in {"queued", "running", "done"}
    /\ cat[c] = "bwait" => \A t \in seen[c] \cap Pending :
         \E e \in Ent : func[e] = t /\ home[e] >= cloc[c].i
    /\ cat[c] \in {"waited", "deactivate"} => seen[c] \cap Pending = {}

\* taskq_destroy: first there are no tasks, then no workers, no entries of the
\* list, and no threads of buckets.
DestroyOK == \A c \in Client : Destroying(c) =>
    /\ cat[c] # "wait" => tq.task = <<>> /\ \A w \in Worker : wat[w] \in {"none", "awake"}
    /\ cat[c] = "bwait" => \A e \in Ent : func[e] # NULL => home[e] >= cloc[c].i
    /\ cat[c] \notin {"wait", "bwait"} => \A e \in Ent : func[e] = NULL
    /\ cat[c] \notin {"wait", "bwait", "deactivate"} => "ACTIVE" \notin tq.flags
    /\ cat[c] \in {"drain", "close", "bjoin", "free"} => \A w \in Worker : wat[w] = "none"
    /\ cat[c] \in {"close", "bjoin", "free"} => tq.nalloc = 0
    /\ cat[c] \in {"close", "bjoin"} => \A e \in Ent : home[e] # NULL => home[e] >= cloc[c].i
    /\ cat[c] = "free" => \A e \in Ent : eat[e] = "none"

Inv == /\ Typ /\ PhaseOK /\ LocalsOK /\ OwnTask /\ SuspendOK /\ SetrunOK
       /\ EntriesOK /\ WorkOK /\ ThreadsOK /\ AllocOK /\ LiveOK
       /\ PlacesOK /\ WaitOK /\ DestroyOK /\ FreedQuiet /\ NoIdleWorker

----------------------------------------------------------------------------
(* Where threads are *)

\* A woken thread is where it was.
LEMMA KindFacts ==
  /\ \A l \in DOMAIN Woken : Kind(Woken[l]) = Kind(l)
  /\ \A l \in PCs \ {"sleep", "wait_cv", "join_cv", "bwait_cv", "bjoin_cv"} : Kind(l) = l
  /\ Kind("sleep") = "awake" /\ Kind("wait_cv") = "wait" /\ Kind("join_cv") = "join"
  /\ Kind("bwait_cv") = "bwait" /\ Kind("bjoin_cv") = "bjoin"
  /\ \A l : Kind(l) \notin {"awake", "wait", "join", "bwait", "bjoin"} => Kind(l) = l
<1>1. DOMAIN Woken = {"sleep", "wait_cv", "join_cv", "bwait_cv", "bjoin_cv"}
  BY DEF Woken
<1>2. /\ Woken["sleep"] = "awake" /\ Woken["wait_cv"] = "wait" /\ Woken["join_cv"] = "join"
      /\ Woken["bwait_cv"] = "bwait" /\ Woken["bjoin_cv"] = "bjoin"
  BY DEF Woken
<1> QED
  BY <1>1, <1>2 DEF Kind

\* Sleepers on condition variables.
Asleep(W) == \A y \in W : pc[y] \in DOMAIN Woken

\* A thread goes on, and may wake others.
Goes(x, l) == \E W : GotoWaking(x, l, W) /\ Asleep(W)

\* Without a wakeup the others stay where they are.
LEMMA GotoGoes ==
  ASSUME pc \in [Thread -> PCs], NEW x \in Thread, NEW l, Goto(x, l)
  PROVE  Goes(x, l)
<1>1. GotoWaking(x, l, {}) /\ Asleep({})
  BY DEF Goto, GotoWaking, Asleep
<1> QED
  BY <1>1 DEF Goes

\* The kinds of thread are disjoint.
LEMMA Threads ==
  /\ \A c \in Client : c \in Thread /\ c \notin Worker /\ c \notin Ent /\ c # NULL
  /\ \A w \in Worker : w \in Thread /\ w \notin Client /\ w \notin Ent /\ w # NULL
  /\ \A e \in Ent : e \in Thread /\ e \notin Worker /\ e \notin Client /\ e # NULL
  BY TaskqAssumption DEF Thread

\* A step of one thread, as far as the invariant can see.
LEMMA GoesKinds ==
  ASSUME pc \in [Thread -> PCs], NEW x \in Thread, NEW l \in PCs, Goes(x, l)
  PROVE  /\ pc' \in [Thread -> PCs] /\ pc'[x] = l
         /\ \A y \in Thread \ {x} : Kind(pc'[y]) = Kind(pc[y]) /\ (pc'[y] = "setrun" <=> pc[y] = "setrun")
<1>1. PICK W : GotoWaking(x, l, W) /\ Asleep(W)
  BY DEF Goes
<1>2. \A y \in Thread : pc'[y] = IF y = x THEN l ELSE IF y \in W THEN Woken[pc[y]] ELSE pc[y]
  BY <1>1 DEF GotoWaking
<1>3. \A y \in W : Woken[pc[y]] \in PCs /\ Woken[pc[y]] # "setrun" /\ pc[y] # "setrun"
  BY <1>1 DEF Asleep, Woken, PCs
<1>4. pc' \in [Thread -> PCs]
  BY <1>1, <1>3 DEF GotoWaking
<1>5. \A y \in W : Kind(Woken[pc[y]]) = Kind(pc[y])
  BY <1>1, KindFacts DEF Asleep
<1> QED
  BY <1>2, <1>3, <1>4, <1>5

CMove(c, k, r) == /\ cat' = [cat EXCEPT ![c] = k] /\ cloc' = [cloc EXCEPT ![c] = r]
                  /\ UNCHANGED <<wat, wloc, eat>>
WMove(w, k, r) == /\ wat' = [wat EXCEPT ![w] = k] /\ wloc' = [wloc EXCEPT ![w] = r]
                  /\ UNCHANGED <<cat, cloc, eat>>
EMove(e, k) == eat' = [eat EXCEPT ![e] = k] /\ UNCHANGED <<cat, cloc, wat, wloc>>

\* A client goes on.
LEMMA ClientGoes ==
  ASSUME Typ, NEW c \in Client, NEW l \in PCs, NEW r, Goes(c, l), loc' = [loc EXCEPT ![c] = r]
  PROVE  /\ CMove(c, Kind(l), r) /\ pc' \in [Thread -> PCs]
         /\ pc[c] # "setrun" /\ l # "setrun" => setting' = setting
<1>1. /\ pc' \in [Thread -> PCs] /\ pc'[c] = l
      /\ \A y \in Thread \ {c} : Kind(pc'[y]) = Kind(pc[y]) /\ (pc'[y] = "setrun" <=> pc[y] = "setrun")
  BY Threads, GoesKinds DEF Typ
<1>2. loc'[c] = r /\ \A y \in (Client \cup Worker) \ {c} : loc'[y] = loc[y]
  BY DEF Typ
<1>3. cat' = [cat EXCEPT ![c] = Kind(l)]
  BY <1>1, Threads DEF cat
<1>4. cloc' = [cloc EXCEPT ![c] = r]
  BY <1>2 DEF cloc
<1>5. wat' = wat
  BY <1>1, Threads DEF wat
<1>6. eat' = eat
  BY <1>1, Threads DEF eat
<1>7. wloc' = wloc
  BY <1>2, Threads DEF wloc
<1>8. ASSUME pc[c] # "setrun", l # "setrun" PROVE setting' = setting
  BY <1>1, <1>2, <1>8, Threads DEF setting
<1> QED
  BY <1>1, <1>3, <1>4, <1>5, <1>6, <1>7, <1>8 DEF CMove

\* A worker goes on.
LEMMA WorkerGoes ==
  ASSUME Typ, NEW w \in Worker, NEW l \in PCs, NEW r, Goes(w, l), loc' = [loc EXCEPT ![w] = r]
  PROVE  /\ WMove(w, Kind(l), r) /\ pc' \in [Thread -> PCs]
         /\ pc[w] # "setrun" /\ l # "setrun" => setting' = setting
<1>1. /\ pc' \in [Thread -> PCs] /\ pc'[w] = l
      /\ \A y \in Thread \ {w} : Kind(pc'[y]) = Kind(pc[y]) /\ (pc'[y] = "setrun" <=> pc[y] = "setrun")
  BY Threads, GoesKinds DEF Typ
<1>2. loc'[w] = r /\ \A y \in (Client \cup Worker) \ {w} : loc'[y] = loc[y]
  BY DEF Typ
<1>3. wat' = [wat EXCEPT ![w] = Kind(l)]
  BY <1>1, Threads DEF wat
<1>4. wloc' = [wloc EXCEPT ![w] = r]
  BY <1>2 DEF wloc
<1>5. cat' = cat
  BY <1>1, Threads DEF cat
<1>6. eat' = eat
  BY <1>1, Threads DEF eat
<1>7. cloc' = cloc
  BY <1>2, Threads DEF cloc
<1>8. ASSUME pc[w] # "setrun", l # "setrun" PROVE setting' = setting
  BY <1>1, <1>2, <1>8, Threads DEF setting
<1> QED
  BY <1>1, <1>3, <1>4, <1>5, <1>6, <1>7, <1>8 DEF WMove

\* The thread of an entry goes on.
LEMMA EntGoes ==
  ASSUME Typ, NEW e \in Ent, NEW l \in PCs, Goes(e, l), loc' = loc
  PROVE  EMove(e, Kind(l)) /\ setting' = setting /\ pc' \in [Thread -> PCs]
<1>1. /\ pc' \in [Thread -> PCs] /\ pc'[e] = l
      /\ \A y \in Thread \ {e} : Kind(pc'[y]) = Kind(pc[y]) /\ (pc'[y] = "setrun" <=> pc[y] = "setrun")
  BY Threads, GoesKinds DEF Typ
<1>2. eat' = [eat EXCEPT ![e] = Kind(l)]
  BY <1>1, Threads DEF eat
<1>3. cat' = cat
  BY <1>1, Threads DEF cat
<1>4. wat' = wat
  BY <1>1, Threads DEF wat
<1>5. cloc' = cloc /\ wloc' = wloc
  BY DEF cloc, wloc
<1>6. setting' = setting
  BY <1>1, Threads DEF setting
<1> QED
  BY <1>1, <1>2, <1>3, <1>4, <1>5, <1>6 DEF EMove

\* Whom the condition variables wake.
LEMMA AsleepFacts ==
  /\ Asleep({}) /\ Asleep(dispatch_cv) /\ Asleep(wait_cv)
  /\ \A b : Asleep(tqbucket_cv(b))
  /\ \A S : Asleep({e \in S : pc[e] = "sleep"})
  /\ \A S : Asleep(S) => \A W \in cv_signal(S) : Asleep(W)
<1>1. DOMAIN Woken = {"sleep", "wait_cv", "join_cv", "bwait_cv", "bjoin_cv"}
  BY DEF Woken
<1>2. \A S : Asleep(S) => \A W \in cv_signal(S) : Asleep(W)
  BY DEF Asleep, cv_signal
<1> QED
  BY <1>1, <1>2 DEF Asleep, dispatch_cv, wait_cv, tqbucket_cv

\* The types of the views.
LEMMA ViewTypes ==
  ASSUME Typ
  PROVE  /\ cat \in [Client -> PCs] /\ wat \in [Worker -> PCs] /\ eat \in [Ent -> PCs]
         /\ cloc \in [Client -> LocType] /\ wloc \in [Worker -> LocType]
         /\ setting \in [Client \cup Worker -> Ent \cup {NULL}]
         /\ \A c \in Client : cat[c] = Kind(pc[c]) /\ cloc[c] = loc[c]
         /\ \A w \in Worker : wat[w] = Kind(pc[w]) /\ wloc[w] = loc[w]
         /\ \A e \in Ent : eat[e] = Kind(pc[e])
<1>1. \A l \in PCs : Kind(l) \in PCs
  BY DEF Kind, Woken, PCs
<1>2. /\ cat \in [Client -> PCs] /\ wat \in [Worker -> PCs] /\ eat \in [Ent -> PCs]
  BY <1>1 DEF Typ, Thread, cat, wat, eat
<1>3. /\ cloc \in [Client -> LocType] /\ wloc \in [Worker -> LocType]
  BY DEF Typ, cloc, wloc
<1>4. setting \in [Client \cup Worker -> Ent \cup {NULL}]
  BY DEF Typ, setting, LocType
<1>5. /\ \A c \in Client : cat[c] = Kind(pc[c]) /\ cloc[c] = loc[c]
      /\ \A w \in Worker : wat[w] = Kind(pc[w]) /\ wloc[w] = loc[w]
      /\ \A e \in Ent : eat[e] = Kind(pc[e])
  BY DEF cat, wat, eat, cloc, wloc
<1> QED
  BY <1>2, <1>3, <1>4, <1>5

\* What a thread may return to.
LEMMA RetKinds ==
  ASSUME Typ, NEW x \in Client \cup Worker
  PROVE  /\ loc[x].ret \in PCs /\ Kind(loc[x].ret) = loc[x].ret /\ loc[x].ret # "setrun"
         /\ loc[x].ret \in {"idle", "populate", "retry", "waited", "deactivate"}
<1>1. loc[x].ret \in {"idle", "populate", "retry", "waited", "deactivate"}
  BY DEF Typ, LocType
<1> QED
  BY <1>1, KindFacts DEF PCs

CGo(c, k, r) == /\ CMove(c, k, r) /\ setting' = setting /\ pc' \in [Thread -> PCs]
                /\ loc' = [loc EXCEPT ![c] = r] /\ k # "setrun"
WGo(w, k, r) == /\ WMove(w, k, r) /\ setting' = setting /\ pc' \in [Thread -> PCs]
                /\ loc' = [loc EXCEPT ![w] = r] /\ k # "setrun"
EGo(e, k)    == EMove(e, k) /\ setting' = setting /\ pc' \in [Thread -> PCs] /\ loc' = loc

\* Where a thread does not sleep.
Plain == PCs \ {"sleep", "wait_cv", "join_cv", "bwait_cv", "bjoin_cv", "setrun"}

\* A client goes from k to l, and wakes nobody that the invariant can see.
LEMMA ClientGo ==
  ASSUME Typ, NEW c \in Client, NEW k \in Plain, NEW l \in Plain, NEW r, pc[c] = k,
         Goto(c, l) \/ Goes(c, l), loc' = [loc EXCEPT ![c] = r]
  PROVE  cat[c] = k /\ CGo(c, l, r)
<1>1. k \in PCs /\ l \in PCs /\ Kind(k) = k /\ Kind(l) = l /\ k # "setrun" /\ l # "setrun"
  BY KindFacts DEF Plain
<1>2. Goes(c, l)
  BY Threads, GotoGoes DEF Typ
<1> QED
  BY <1>1, <1>2, ViewTypes, ClientGoes DEF CGo

\* A client goes to sleep on a condition variable.
LEMMA ClientSleeps ==
  ASSUME Typ, NEW c \in Client, NEW k \in Plain, pc[c] = k, loc' = loc,
         NEW l \in {"wait_cv", "join_cv", "bwait_cv", "bjoin_cv"}, Goto(c, l) \/ Goes(c, l)
  PROVE  cat[c] = k /\ CGo(c, Kind(l), cloc[c])
<1>1. k \in PCs /\ l \in PCs /\ Kind(k) = k /\ k # "setrun" /\ l # "setrun" /\ Kind(l) # "setrun"
  BY KindFacts DEF Plain, PCs
<1>2. Goes(c, l)
  BY Threads, GotoGoes DEF Typ
<1>3. loc' = [loc EXCEPT ![c] = cloc[c]]
  BY ViewTypes DEF Typ
<1> QED
  BY <1>1, <1>2, <1>3, ViewTypes, ClientGoes DEF CGo

\* The client's part in the extension of a bucket, where nothing is linked.
LEMMA ClientExtend ==
  ASSUME Typ, NEW c \in Client
  PROVE  /\ ExtendRefused(c) => cat[c] = "extend" /\ CGo(c, cloc[c].ret, cloc[c])
         /\ ExtendCount(c) => cat[c] = "extend" /\ CGo(c, "create", cloc[c])
         /\ ExtendNoMem(c) => cat[c] = "create" /\ CGo(c, cloc[c].ret, cloc[c])
<1>1. /\ c \notin Worker /\ cloc[c] = loc[c] /\ loc \in [Client \cup Worker -> LocType]
      /\ "extend" \in Plain /\ "create" \in Plain
  BY Threads, ViewTypes DEF Typ, Plain, PCs
<1>2. loc[c].ret \in Plain /\ ExtendRet(c) = loc[c].ret
  BY <1>1, RetKinds DEF ExtendRet, Plain, PCs
<1>3. loc = [loc EXCEPT ![c] = loc[c]]
  BY <1>1
<1>4. ASSUME ExtendRefused(c) PROVE cat[c] = "extend" /\ CGo(c, cloc[c].ret, cloc[c])
  <2>1. pc[c] = "extend" /\ Goto(c, loc[c].ret) /\ loc' = loc
    BY <1>2, <1>4 DEF ExtendRefused
  <2> QED
    BY <1>1, <1>2, <1>3, <2>1, ClientGo
<1>5. ASSUME ExtendCount(c) PROVE cat[c] = "extend" /\ CGo(c, "create", cloc[c])
  <2>1. pc[c] = "extend" /\ Goto(c, "create") /\ loc' = loc
    BY <1>5 DEF ExtendCount
  <2> QED
    BY <1>1, <1>3, <2>1, ClientGo
<1>6. ASSUME ExtendNoMem(c) PROVE cat[c] = "create" /\ CGo(c, cloc[c].ret, cloc[c])
  <2>1. pc[c] = "create" /\ Goto(c, loc[c].ret) /\ loc' = loc
    BY <1>2, <1>6 DEF ExtendNoMem
  <2> QED
    BY <1>1, <1>2, <1>3, <2>1, ClientGo
<1> QED
  BY <1>4, <1>5, <1>6

\* The locals that Populate leaves.
PopulateLoc(c) == [cloc[c] EXCEPT !.bucket = cloc[c].i + 1, !.i = cloc[c].i + 1, !.ret = "populate"]

\* taskq_create after its first step.
LEMMA ClientCreate ==
  ASSUME Typ, NEW c \in Client
  PROVE  /\ Populate(c) /\ cloc[c].i + 1 > NBuckets => cat[c] = "populate" /\ CGo(c, "created", NoLocals)
         /\ Populate(c) /\ ~(cloc[c].i + 1 > NBuckets) =>
              cat[c] = "populate" /\ CGo(c, "extend", PopulateLoc(c))
         /\ Created(c) => cat[c] = "created" /\ CGo(c, "idle", cloc[c])
<1>1. /\ cloc[c] = loc[c] /\ loc \in [Client \cup Worker -> LocType]
      /\ "populate" \in Plain /\ "created" \in Plain /\ "idle" \in Plain /\ "extend" \in Plain
  BY ViewTypes DEF Typ, Plain, PCs
<1>2. ASSUME Populate(c), cloc[c].i + 1 > NBuckets PROVE cat[c] = "populate" /\ CGo(c, "created", NoLocals)
  <2>1. pc[c] = "populate" /\ Goto(c, "created") /\ loc' = [loc EXCEPT ![c] = NoLocals]
    BY <1>1, <1>2 DEF Populate
  <2> QED
    BY <1>1, <2>1, ClientGo
<1>3. ASSUME Populate(c), ~(cloc[c].i + 1 > NBuckets)
      PROVE  cat[c] = "populate" /\ CGo(c, "extend", PopulateLoc(c))
  <2>1. /\ pc[c] = "populate" /\ Goto(c, "extend")
        /\ loc' = [loc EXCEPT ![c] = PopulateLoc(c)]
    BY <1>1, <1>3 DEF Populate, PopulateLoc
  <2> QED
    BY <1>1, <2>1, ClientGo
<1>4. ASSUME Created(c) PROVE cat[c] = "created" /\ CGo(c, "idle", cloc[c])
  <2>1. pc[c] = "created" /\ Goto(c, "idle") /\ loc' = [loc EXCEPT ![c] = cloc[c]]
    BY <1>1, <1>4 DEF Created
  <2> QED
    BY <1>1, <2>1, ClientGo
<1> QED
  BY <1>2, <1>3, <1>4

\* The locals that the steps of taskq_dispatch leave.
HashLoc(c, t, f, h) == [cloc[c] EXCEPT !.task = t, !.flags = f, !.bucket = h]
ListLoc(c, t, f)    == [cloc[c] EXCEPT !.task = t, !.flags = f, !.todo = <<t>>]
MoreLoc(c)          == [cloc[c] EXCEPT !.i = cloc[c].i + 1, !.todo = <<>>]
ExtendLoc(c)        == [cloc[c] EXCEPT !.i = 0, !.ret = "retry", !.todo = <<>>]
BackLoc(c)          == [cloc[c] EXCEPT !.i = 0, !.todo = Background(c)]
FoundLoc(c)         == [cloc[c] EXCEPT !.todo = <<cloc[c].bucket>>]
TailLoc(c)          == [cloc[c] EXCEPT !.todo = Tail(cloc[c].todo)]

\* taskq_dispatch: the first step, and the search for a bucket.
LEMMA ClientDispatch ==
  ASSUME Typ, NEW c \in Client
  PROVE  /\ \A t \in Task, f \in DispatchFlags : taskq_dispatch(c, t, f) =>
              /\ cat[c] = "idle"
              /\ Dynamic => \E h \in Bucket : CGo(c, "hash", HashLoc(c, t, f, h))
              /\ ~Dynamic => CGo(c, "ent_alloc", ListLoc(c, t, f))
         /\ taskq_bucket_dispatch(c) =>
              /\ cat[c] \in {"hash", "search", "retry"}
              /\ cat[c] = "search" => CGo(c, "ent_alloc", FoundLoc(c))
              /\ cat[c] # "search" => CGo(c, "idle", NoLocals)
         /\ BucketMiss(c) =>
              /\ cat[c] \in {"hash", "search", "retry"}
              /\ \/ CGo(c, "search", MoreLoc(c))
                 \/ CGo(c, "extend", ExtendLoc(c))
                 \/ CGo(c, "ent_alloc", BackLoc(c))
<1>1. /\ cloc[c] = loc[c] /\ loc \in [Client \cup Worker -> LocType] /\ loc[c] \in LocType
      /\ "idle" \in Plain /\ "hash" \in Plain /\ "ent_alloc" \in Plain /\ "search" \in Plain
      /\ "retry" \in Plain /\ "extend" \in Plain
  BY ViewTypes DEF Typ, Plain, PCs
<1>2. ASSUME NEW t \in Task, NEW f \in DispatchFlags, taskq_dispatch(c, t, f)
      PROVE  /\ cat[c] = "idle"
             /\ Dynamic => \E h \in Bucket : CGo(c, "hash", HashLoc(c, t, f, h))
             /\ ~Dynamic => CGo(c, "ent_alloc", ListLoc(c, t, f))
  <2>1. pc[c] = "idle"
    BY <1>2 DEF taskq_dispatch
  <2>2. ASSUME Dynamic PROVE cat[c] = "idle" /\ \E h \in Bucket : CGo(c, "hash", HashLoc(c, t, f, h))
    <3>1. PICK h \in Bucket : loc' = [loc EXCEPT ![c].task = t, ![c].flags = f, ![c].bucket = h]
      BY <1>2, <2>2 DEF taskq_dispatch
    <3>2. loc' = [loc EXCEPT ![c] = HashLoc(c, t, f, h)] /\ Goto(c, "hash")
      BY <1>1, <1>2, <2>2, <3>1 DEF HashLoc, taskq_dispatch
    <3> QED
      BY <1>1, <2>1, <3>2, ClientGo
  <2>3. ASSUME ~Dynamic PROVE cat[c] = "idle" /\ CGo(c, "ent_alloc", ListLoc(c, t, f))
    <3>1. loc' = [loc EXCEPT ![c].task = t, ![c].flags = f, ![c].todo = <<t>>] /\ Goto(c, "ent_alloc")
      BY <1>2, <2>3 DEF taskq_dispatch
    <3>2. loc' = [loc EXCEPT ![c] = ListLoc(c, t, f)]
      BY <1>1, <3>1 DEF ListLoc
    <3> QED
      BY <1>1, <2>1, <3>1, <3>2, ClientGo
  <2> QED
    BY <2>2, <2>3
<1>3. ASSUME taskq_bucket_dispatch(c)
      PROVE  /\ cat[c] \in {"hash", "search", "retry"}
             /\ cat[c] = "search" => CGo(c, "ent_alloc", FoundLoc(c))
             /\ cat[c] # "search" => CGo(c, "idle", NoLocals)
  <2>1. PICK e : GotoWaking(c, IF pc[c] = "search" THEN "ent_alloc" ELSE "idle",
                            IF pc[e] = "sleep" THEN {e} ELSE {})
    BY <1>3 DEF taskq_bucket_dispatch
  <2>2. Goes(c, IF pc[c] = "search" THEN "ent_alloc" ELSE "idle")
    <3>1. Asleep(IF pc[e] = "sleep" THEN {e} ELSE {})
      BY DEF Asleep, Woken
    <3> QED
      BY <2>1, <3>1 DEF Goes
  <2>3. /\ pc[c] \in {"hash", "search", "retry"}
        /\ loc' = IF pc[c] = "search" THEN [loc EXCEPT ![c].todo = <<loc[c].bucket>>]
                                      ELSE [loc EXCEPT ![c] = NoLocals]
    BY <1>3 DEF taskq_bucket_dispatch
  <2>4. CASE pc[c] = "search"
    <3>1. loc' = [loc EXCEPT ![c] = FoundLoc(c)]
      BY <1>1, <2>3, <2>4 DEF FoundLoc
    <3>2. cat[c] = "search" /\ CGo(c, "ent_alloc", FoundLoc(c))
      BY <1>1, <2>2, <2>4, <3>1, ClientGo
    <3> QED
      BY <3>2
  <2>5. CASE pc[c] # "search"
    <3>1. pc[c] \in Plain /\ Goes(c, "idle") /\ loc' = [loc EXCEPT ![c] = NoLocals]
      BY <1>1, <2>2, <2>3, <2>5
    <3>2. cat[c] = pc[c] /\ CGo(c, "idle", NoLocals)
      BY <1>1, <3>1, ClientGo
    <3> QED
      BY <2>3, <2>5, <3>2
  <2> QED
    BY <2>4, <2>5
<1>4. ASSUME BucketMiss(c)
      PROVE  /\ cat[c] \in {"hash", "search", "retry"}
             /\ \/ CGo(c, "search", MoreLoc(c))
                \/ CGo(c, "extend", ExtendLoc(c))
                \/ CGo(c, "ent_alloc", BackLoc(c))
  <2>1. PICK more, extend \in BOOLEAN :
          /\ Goto(c, IF more THEN "search" ELSE IF extend THEN "extend" ELSE "ent_alloc")
          /\ loc' = [loc EXCEPT
                       ![c].i = IF more THEN @ + 1 ELSE 0,
                       ![c].ret = IF ~more /\ extend THEN "retry" ELSE @,
                       ![c].todo = IF more \/ extend THEN <<>> ELSE Background(c)]
    BY <1>4, Zenon DEF BucketMiss
  <2>2. pc[c] \in {"hash", "search", "retry"} /\ pc[c] \in Plain
    BY <1>1, <1>4 DEF BucketMiss
  <2>3. CASE more
    <3>1. loc' = [loc EXCEPT ![c] = MoreLoc(c)] /\ Goto(c, "search")
      BY <1>1, <2>1, <2>3 DEF MoreLoc, LocType
    <3> QED
      BY <1>1, <2>2, <3>1, ClientGo
  <2>4. CASE ~more /\ extend
    <3>1. loc' = [loc EXCEPT ![c] = ExtendLoc(c)] /\ Goto(c, "extend")
      BY <1>1, <2>1, <2>4 DEF ExtendLoc, LocType
    <3> QED
      BY <1>1, <2>2, <3>1, ClientGo
  <2>5. CASE ~more /\ ~extend
    <3>1. loc' = [loc EXCEPT ![c] = BackLoc(c)] /\ Goto(c, "ent_alloc")
      BY <1>1, <2>1, <2>5 DEF BackLoc, LocType
    <3> QED
      BY <1>1, <2>2, <3>1, ClientGo
  <2> QED
    BY <2>3, <2>4, <2>5
<1> QED
  BY <1>2, <1>3, <1>4

\* taskq_ent_alloc.
LEMMA ClientAlloc ==
  ASSUME Typ, NEW c \in Client
  PROVE  /\ \A st, W : NextEnt(c, st, W) /\ Asleep(W) /\ pc[c] \in {"ent_alloc", "kmem", "enqueue"} =>
              /\ Enqueuing(c)
              /\ Len(cloc[c].todo) = 1 => CGo(c, "idle", NoLocals)
              /\ Len(cloc[c].todo) # 1 => CGo(c, "ent_alloc", TailLoc(c))
         /\ AllocUnlock(c) => cat[c] = "ent_alloc" /\ CGo(c, "kmem", cloc[c])
         /\ kmem_cache_alloc(c) => cat[c] = "kmem" /\ CGo(c, "enqueue", cloc[c])
<1>1. /\ cloc[c] = loc[c] /\ loc \in [Client \cup Worker -> LocType] /\ loc[c] \in LocType
      /\ "idle" \in Plain /\ "ent_alloc" \in Plain /\ "kmem" \in Plain /\ "enqueue" \in Plain
  BY ViewTypes DEF Typ, Plain, PCs
<1>2. ASSUME NEW st, NEW W, NextEnt(c, st, W), Asleep(W), pc[c] \in {"ent_alloc", "kmem", "enqueue"}
      PROVE  /\ Enqueuing(c)
             /\ Len(cloc[c].todo) = 1 => CGo(c, "idle", NoLocals)
             /\ Len(cloc[c].todo) # 1 => CGo(c, "ent_alloc", TailLoc(c))
  <2>1. pc[c] \in Plain
    BY <1>1, <1>2
  <2>2. ASSUME Len(cloc[c].todo) = 1 PROVE cat[c] = pc[c] /\ CGo(c, "idle", NoLocals)
    <3>1. GotoWaking(c, "idle", W) /\ loc' = [loc EXCEPT ![c] = NoLocals]
      BY <1>1, <1>2, <2>2 DEF NextEnt
    <3>2. Goes(c, "idle")
      BY <1>2, <3>1 DEF Goes
    <3> QED
      BY <1>1, <2>1, <3>1, <3>2, ClientGo
  <2>3. ASSUME Len(cloc[c].todo) # 1 PROVE cat[c] = pc[c] /\ CGo(c, "ent_alloc", TailLoc(c))
    <3>1. GotoWaking(c, "ent_alloc", W) /\ loc' = [loc EXCEPT ![c].todo = Tail(@)]
      BY <1>1, <1>2, <2>3 DEF NextEnt
    <3>2. Goes(c, "ent_alloc")
      BY <1>2, <3>1 DEF Goes
    <3>3. loc' = [loc EXCEPT ![c] = TailLoc(c)]
      BY <1>1, <3>1 DEF TailLoc
    <3> QED
      BY <1>1, <2>1, <3>2, <3>3, ClientGo
  <2> QED
    BY <1>2, <2>2, <2>3 DEF Enqueuing
<1>3. loc = [loc EXCEPT ![c] = cloc[c]]
  BY <1>1
<1>4. ASSUME AllocUnlock(c) PROVE cat[c] = "ent_alloc" /\ CGo(c, "kmem", cloc[c])
  <2>1. pc[c] = "ent_alloc" /\ Goto(c, "kmem") /\ loc' = loc
    BY <1>4 DEF AllocUnlock
  <2> QED
    BY <1>1, <1>3, <2>1, ClientGo
<1>5. ASSUME kmem_cache_alloc(c) PROVE cat[c] = "kmem" /\ CGo(c, "enqueue", cloc[c])
  <2>1. pc[c] = "kmem" /\ Goto(c, "enqueue") /\ loc' = loc
    BY <1>5 DEF kmem_cache_alloc
  <2> QED
    BY <1>1, <1>3, <2>1, ClientGo
<1> QED
  BY <1>2, <1>4, <1>5

\* The locals with another index, and with another return.
AtLoc(c, i)  == [cloc[c] EXCEPT !.i = i]
RetLoc(c, r) == [cloc[c] EXCEPT !.ret = r]

\* taskq_wait.
LEMMA ClientWait ==
  ASSUME Typ, NEW c \in Client
  PROVE  /\ taskq_wait(c) => cat[c] = "idle" /\ CGo(c, "wait", RetLoc(c, "waited"))
         /\ taskq_destroy(c) => cat[c] = "idle" /\ CGo(c, "wait", RetLoc(c, "deactivate"))
         /\ WaitList(c) /\ (tq.task # <<>> \/ tq.active # 0) => cat[c] = "wait" /\ CGo(c, "wait", cloc[c])
         /\ WaitList(c) /\ ~(tq.task # <<>> \/ tq.active # 0) /\ Dynamic =>
              cat[c] = "wait" /\ CGo(c, "bwait", AtLoc(c, 1))
         /\ WaitList(c) /\ ~(tq.task # <<>> \/ tq.active # 0) /\ ~Dynamic =>
              cat[c] = "wait" /\ CGo(c, cloc[c].ret, cloc[c])
         /\ WaitBucket(c) /\ bkt[cloc[c].i].nalloc > 0 => cat[c] = "bwait" /\ CGo(c, "bwait", cloc[c])
         /\ WaitBucket(c) /\ ~(bkt[cloc[c].i].nalloc > 0) /\ cloc[c].i < NBuckets =>
              cat[c] = "bwait" /\ CGo(c, "bwait", AtLoc(c, cloc[c].i + 1))
         /\ WaitBucket(c) /\ ~(bkt[cloc[c].i].nalloc > 0) /\ ~(cloc[c].i < NBuckets) =>
              cat[c] = "bwait" /\ CGo(c, cloc[c].ret, cloc[c])
         /\ Waited(c) => cat[c] = "waited" /\ CGo(c, "idle", NoLocals)
<1>1. /\ cloc[c] = loc[c] /\ loc \in [Client \cup Worker -> LocType] /\ loc[c] \in LocType
      /\ "idle" \in Plain /\ "wait" \in Plain /\ "bwait" \in Plain /\ "waited" \in Plain
      /\ pc \in [Thread -> PCs] /\ c \in Thread
  BY Threads, ViewTypes DEF Typ, Plain, PCs
<1>2. loc[c].ret \in Plain /\ loc = [loc EXCEPT ![c] = cloc[c]]
  BY <1>1, RetKinds DEF Plain, PCs
<1>3. Kind("wait_cv") = "wait" /\ Kind("bwait_cv") = "bwait"
  BY KindFacts
<1>4. ASSUME taskq_wait(c) PROVE cat[c] = "idle" /\ CGo(c, "wait", RetLoc(c, "waited"))
  <2>1. pc[c] = "idle" /\ Goto(c, "wait") /\ loc' = [loc EXCEPT ![c] = RetLoc(c, "waited")]
    BY <1>1, <1>4 DEF taskq_wait, RetLoc
  <2> QED
    BY <1>1, <2>1, ClientGo
<1>5. ASSUME taskq_destroy(c) PROVE cat[c] = "idle" /\ CGo(c, "wait", RetLoc(c, "deactivate"))
  <2>1. pc[c] = "idle" /\ Goto(c, "wait") /\ loc' = [loc EXCEPT ![c] = RetLoc(c, "deactivate")]
    BY <1>1, <1>5 DEF taskq_destroy, RetLoc
  <2> QED
    BY <1>1, <2>1, ClientGo
<1>6. ASSUME WaitList(c), tq.task # <<>> \/ tq.active # 0 PROVE cat[c] = "wait" /\ CGo(c, "wait", cloc[c])
  <2>1. pc[c] = "wait" /\ Goto(c, "wait_cv") /\ loc' = loc
    BY <1>6 DEF WaitList
  <2> QED
    BY <1>1, <1>3, <2>1, ClientSleeps
<1>7. ASSUME WaitList(c), ~(tq.task # <<>> \/ tq.active # 0), Dynamic
      PROVE  cat[c] = "wait" /\ CGo(c, "bwait", AtLoc(c, 1))
  <2>1. pc[c] = "wait" /\ Goto(c, "bwait") /\ loc' = [loc EXCEPT ![c] = AtLoc(c, 1)]
    BY <1>1, <1>7 DEF WaitList, AtLoc
  <2> QED
    BY <1>1, <2>1, ClientGo
<1>8. ASSUME WaitList(c), ~(tq.task # <<>> \/ tq.active # 0), ~Dynamic
      PROVE  cat[c] = "wait" /\ CGo(c, cloc[c].ret, cloc[c])
  <2>1. pc[c] = "wait" /\ Goto(c, loc[c].ret) /\ loc' = loc
    BY <1>8 DEF WaitList
  <2> QED
    BY <1>1, <1>2, <2>1, ClientGo
<1>9. ASSUME WaitBucket(c), bkt[cloc[c].i].nalloc > 0 PROVE cat[c] = "bwait" /\ CGo(c, "bwait", cloc[c])
  <2>1. pc[c] = "bwait" /\ Goto(c, "bwait_cv") /\ loc' = loc
    BY <1>1, <1>9 DEF WaitBucket
  <2> QED
    BY <1>1, <1>3, <2>1, ClientSleeps
<1>10. ASSUME WaitBucket(c), ~(bkt[cloc[c].i].nalloc > 0), cloc[c].i < NBuckets
       PROVE  cat[c] = "bwait" /\ CGo(c, "bwait", AtLoc(c, cloc[c].i + 1))
  <2>1. pc[c] = "bwait" /\ pc' = pc /\ loc' = [loc EXCEPT ![c] = AtLoc(c, cloc[c].i + 1)]
    BY <1>1, <1>10 DEF WaitBucket, AtLoc
  <2>2. Goto(c, "bwait")
    BY <1>1, <2>1 DEF Goto
  <2> QED
    BY <1>1, <2>1, <2>2, ClientGo
<1>11. ASSUME WaitBucket(c), ~(bkt[cloc[c].i].nalloc > 0), ~(cloc[c].i < NBuckets)
       PROVE  cat[c] = "bwait" /\ CGo(c, cloc[c].ret, cloc[c])
  <2>1. pc[c] = "bwait" /\ Goto(c, loc[c].ret) /\ loc' = loc
    BY <1>1, <1>11 DEF WaitBucket
  <2> QED
    BY <1>1, <1>2, <2>1, ClientGo
<1>12. ASSUME Waited(c) PROVE cat[c] = "waited" /\ CGo(c, "idle", NoLocals)
  <2>1. pc[c] = "waited" /\ Goto(c, "idle") /\ loc' = [loc EXCEPT ![c] = NoLocals]
    BY <1>12 DEF Waited
  <2> QED
    BY <1>1, <2>1, ClientGo
<1> QED
  BY <1>4, <1>5, <1>6, <1>7, <1>8, <1>9, <1>10, <1>11, <1>12

\* taskq_suspend and taskq_resume.
FirstIndex == IF Dynamic THEN 1 ELSE NBuckets + 1

\* Where taskq_suspend and taskq_resume take the client.
LEMMA ClientSuspend ==
  ASSUME Typ, NEW c \in Client
  PROVE  /\ taskq_suspend(c) => cat[c] = "idle" /\ CGo(c, "suspend", AtLoc(c, FirstIndex))
         /\ SuspendBucket(c) => cat[c] = "suspend" /\ CGo(c, "suspend", AtLoc(c, cloc[c].i + 1))
         /\ Suspended(c) => cat[c] = "suspend" /\ CGo(c, "suspended", cloc[c])
         /\ taskq_resume(c) => cat[c] = "suspended" /\ CGo(c, "resume", AtLoc(c, FirstIndex))
         /\ ResumeBucket(c) => cat[c] = "resume" /\ CGo(c, "resume", AtLoc(c, cloc[c].i + 1))
         /\ Resumed(c) => cat[c] = "resume" /\ CGo(c, "idle", NoLocals)
<1>1. /\ cloc[c] = loc[c] /\ loc \in [Client \cup Worker -> LocType] /\ loc[c] \in LocType
      /\ "idle" \in Plain /\ "suspend" \in Plain /\ "suspended" \in Plain /\ "resume" \in Plain
      /\ pc \in [Thread -> PCs] /\ c \in Thread
  BY Threads, ViewTypes DEF Typ, Plain, PCs
<1>2. loc = [loc EXCEPT ![c] = cloc[c]]
  BY <1>1
<1>3. ASSUME taskq_suspend(c) PROVE cat[c] = "idle" /\ CGo(c, "suspend", AtLoc(c, FirstIndex))
  <2>1. pc[c] = "idle" /\ Goto(c, "suspend") /\ loc' = [loc EXCEPT ![c] = AtLoc(c, FirstIndex)]
    BY <1>1, <1>3 DEF taskq_suspend, AtLoc, FirstIndex
  <2> QED
    BY <1>1, <2>1, ClientGo
<1>4. ASSUME SuspendBucket(c) PROVE cat[c] = "suspend" /\ CGo(c, "suspend", AtLoc(c, cloc[c].i + 1))
  <2>1. pc[c] = "suspend" /\ pc' = pc /\ loc' = [loc EXCEPT ![c] = AtLoc(c, cloc[c].i + 1)]
    BY <1>1, <1>4 DEF SuspendBucket, AtLoc
  <2>2. Goto(c, "suspend")
    BY <1>1, <2>1 DEF Goto
  <2> QED
    BY <1>1, <2>1, <2>2, ClientGo
<1>5. ASSUME Suspended(c) PROVE cat[c] = "suspend" /\ CGo(c, "suspended", cloc[c])
  <2>1. pc[c] = "suspend" /\ Goto(c, "suspended") /\ loc' = loc
    BY <1>5 DEF Suspended
  <2> QED
    BY <1>1, <1>2, <2>1, ClientGo
<1>6. ASSUME taskq_resume(c) PROVE cat[c] = "suspended" /\ CGo(c, "resume", AtLoc(c, FirstIndex))
  <2>1. pc[c] = "suspended" /\ Goto(c, "resume") /\ loc' = [loc EXCEPT ![c] = AtLoc(c, FirstIndex)]
    BY <1>1, <1>6 DEF taskq_resume, AtLoc, FirstIndex
  <2> QED
    BY <1>1, <2>1, ClientGo
<1>7. ASSUME ResumeBucket(c) PROVE cat[c] = "resume" /\ CGo(c, "resume", AtLoc(c, cloc[c].i + 1))
  <2>1. pc[c] = "resume" /\ pc' = pc /\ loc' = [loc EXCEPT ![c] = AtLoc(c, cloc[c].i + 1)]
    BY <1>1, <1>7 DEF ResumeBucket, AtLoc
  <2>2. Goto(c, "resume")
    BY <1>1, <2>1 DEF Goto
  <2> QED
    BY <1>1, <2>1, <2>2, ClientGo
<1>8. ASSUME Resumed(c) PROVE cat[c] = "resume" /\ CGo(c, "idle", NoLocals)
  <2>1. pc[c] = "resume" /\ Goto(c, "idle") /\ loc' = [loc EXCEPT ![c] = NoLocals]
    BY <1>8 DEF Resumed
  <2> QED
    BY <1>1, <2>1, ClientGo
<1> QED
  BY <1>3, <1>4, <1>5, <1>6, <1>7, <1>8

\* taskq_destroy after its wait.
LEMMA ClientDestroy ==
  ASSUME Typ, NEW c \in Client
  PROVE  /\ Deactivate(c) => cat[c] = "deactivate" /\ CGo(c, "join", cloc[c])
         /\ Join(c) /\ tq.nthreads # 0 => cat[c] = "join" /\ CGo(c, "join", cloc[c])
         /\ Join(c) /\ tq.nthreads = 0 => cat[c] = "join" /\ CGo(c, "drain", cloc[c])
         /\ Drain(c) /\ tq.nalloc # 0 => cat[c] = "drain" /\ CGo(c, "drain", cloc[c])
         /\ Drain(c) /\ tq.nalloc = 0 =>
              cat[c] = "drain" /\ CGo(c, IF Dynamic THEN "close" ELSE "free", AtLoc(c, 1))
         /\ CloseBucket(c) => cat[c] = "close" /\ CGo(c, "bjoin", cloc[c])
         /\ JoinBucket(c) /\ bkt[cloc[c].i].nfree > 0 => cat[c] = "bjoin" /\ CGo(c, "bjoin", cloc[c])
         /\ JoinBucket(c) /\ ~(bkt[cloc[c].i].nfree > 0) /\ cloc[c].i < NBuckets =>
              cat[c] = "bjoin" /\ CGo(c, "close", AtLoc(c, cloc[c].i + 1))
         /\ JoinBucket(c) /\ ~(bkt[cloc[c].i].nfree > 0) /\ ~(cloc[c].i < NBuckets) =>
              cat[c] = "bjoin" /\ CGo(c, "free", cloc[c])
         /\ Free(c) => cat[c] = "free" /\ CGo(c, "idle", NoLocals)
<1>1. /\ cloc[c] = loc[c] /\ loc \in [Client \cup Worker -> LocType] /\ loc[c] \in LocType
      /\ "idle" \in Plain /\ "deactivate" \in Plain /\ "join" \in Plain /\ "drain" \in Plain
      /\ "close" \in Plain /\ "bjoin" \in Plain /\ "free" \in Plain
      /\ pc \in [Thread -> PCs] /\ c \in Thread
  BY Threads, ViewTypes DEF Typ, Plain, PCs
<1>2. loc = [loc EXCEPT ![c] = cloc[c]]
  BY <1>1
<1>3. Kind("join_cv") = "join" /\ Kind("bjoin_cv") = "bjoin"
  BY KindFacts
<1>4. ASSUME Deactivate(c) PROVE cat[c] = "deactivate" /\ CGo(c, "join", cloc[c])
  <2>1. pc[c] = "deactivate" /\ loc' = loc /\ (Goes(c, "join") \/ Goes(c, "join_cv"))
    BY <1>4, AsleepFacts DEF Deactivate, Goes
  <2> QED
    BY <1>1, <1>2, <1>3, <2>1, ClientGo, ClientSleeps
<1>5. ASSUME Join(c), tq.nthreads # 0 PROVE cat[c] = "join" /\ CGo(c, "join", cloc[c])
  <2>1. pc[c] = "join" /\ Goto(c, "join_cv") /\ loc' = loc
    BY <1>5 DEF Join
  <2> QED
    BY <1>1, <1>3, <2>1, ClientSleeps
<1>6. ASSUME Join(c), tq.nthreads = 0 PROVE cat[c] = "join" /\ CGo(c, "drain", cloc[c])
  <2>1. pc[c] = "join" /\ Goto(c, "drain") /\ loc' = loc
    BY <1>6 DEF Join
  <2> QED
    BY <1>1, <1>2, <2>1, ClientGo
<1>7. ASSUME Drain(c), tq.nalloc # 0 PROVE cat[c] = "drain" /\ CGo(c, "drain", cloc[c])
  <2>1. pc[c] = "drain" /\ pc' = pc /\ loc' = loc
    BY <1>7 DEF Drain
  <2>2. Goto(c, "drain")
    BY <1>1, <2>1 DEF Goto
  <2> QED
    BY <1>1, <1>2, <2>1, <2>2, ClientGo
<1>8. ASSUME Drain(c), tq.nalloc = 0
      PROVE  cat[c] = "drain" /\ CGo(c, IF Dynamic THEN "close" ELSE "free", AtLoc(c, 1))
  <2>1. /\ pc[c] = "drain" /\ Goto(c, IF Dynamic THEN "close" ELSE "free")
        /\ loc' = [loc EXCEPT ![c] = AtLoc(c, 1)]
    BY <1>1, <1>8 DEF Drain, AtLoc
  <2> QED
    BY <1>1, <2>1, ClientGo
<1>9. ASSUME CloseBucket(c) PROVE cat[c] = "close" /\ CGo(c, "bjoin", cloc[c])
  <2>1. pc[c] = "close" /\ loc' = loc /\ (Goes(c, "bjoin") \/ Goes(c, "bjoin_cv"))
    BY <1>9, AsleepFacts DEF CloseBucket, Goes
  <2> QED
    BY <1>1, <1>2, <1>3, <2>1, ClientGo, ClientSleeps
<1>10. ASSUME JoinBucket(c), bkt[cloc[c].i].nfree > 0 PROVE cat[c] = "bjoin" /\ CGo(c, "bjoin", cloc[c])
  <2>1. pc[c] = "bjoin" /\ Goto(c, "bjoin_cv") /\ loc' = loc
    BY <1>1, <1>10 DEF JoinBucket
  <2> QED
    BY <1>1, <1>3, <2>1, ClientSleeps
<1>11. ASSUME JoinBucket(c), ~(bkt[cloc[c].i].nfree > 0), cloc[c].i < NBuckets
       PROVE  cat[c] = "bjoin" /\ CGo(c, "close", AtLoc(c, cloc[c].i + 1))
  <2>1. pc[c] = "bjoin" /\ Goto(c, "close") /\ loc' = [loc EXCEPT ![c] = AtLoc(c, cloc[c].i + 1)]
    BY <1>1, <1>11 DEF JoinBucket, AtLoc
  <2> QED
    BY <1>1, <2>1, ClientGo
<1>12. ASSUME JoinBucket(c), ~(bkt[cloc[c].i].nfree > 0), ~(cloc[c].i < NBuckets)
       PROVE  cat[c] = "bjoin" /\ CGo(c, "free", cloc[c])
  <2>1. pc[c] = "bjoin" /\ Goto(c, "free") /\ loc' = loc
    BY <1>1, <1>12 DEF JoinBucket
  <2> QED
    BY <1>1, <1>2, <2>1, ClientGo
<1>13. ASSUME Free(c) PROVE cat[c] = "free" /\ CGo(c, "idle", NoLocals)
  <2>1. pc[c] = "free" /\ Goto(c, "idle") /\ loc' = [loc EXCEPT ![c] = NoLocals]
    BY <1>13 DEF Free
  <2> QED
    BY <1>1, <2>1, ClientGo
<1> QED
  BY <1>4, <1>5, <1>6, <1>7, <1>8, <1>9, <1>10, <1>11, <1>12, <1>13

\* A worker goes from k to l.
LEMMA WorkerGo ==
  ASSUME Typ, NEW w \in Worker, NEW k \in Plain, NEW l \in Plain, NEW r, pc[w] = k,
         Goto(w, l) \/ Goes(w, l), loc' = [loc EXCEPT ![w] = r]
  PROVE  wat[w] = k /\ WGo(w, l, r)
<1>1. k \in PCs /\ l \in PCs /\ Kind(k) = k /\ Kind(l) = l /\ k # "setrun" /\ l # "setrun"
  BY KindFacts DEF Plain
<1>2. Goes(w, l)
  BY Threads, GotoGoes DEF Typ
<1> QED
  BY <1>1, <1>2, ViewTypes, WorkerGoes DEF WGo

\* The locals of a worker that has taken i off the list.
TakenLoc(w, i) == [wloc[w] EXCEPT !.task = IF i \in Task THEN i ELSE NULL,
                                  !.bucket = IF i \in Task THEN NULL ELSE i]

\* taskq_thread.
LEMMA WorkerTable ==
  ASSUME Typ, NEW w \in Worker
  PROVE  /\ WorkerSleep(w) => wat[w] = pc[w] /\ WGo(w, "awake", wloc[w])
         /\ WorkerTake(w) => wat[w] = pc[w] /\ WGo(w, "rw_enter", TakenLoc(w, Head(tq.task)))
         /\ WorkerExit(w) => wat[w] = pc[w] /\ WGo(w, "none", wloc[w])
         /\ WorkerRun(w) /\ wloc[w].task = NULL => wat[w] = "rw_enter" /\ WGo(w, "extend", wloc[w])
         /\ WorkerRun(w) /\ wloc[w].task # NULL => wat[w] = "rw_enter" /\ WGo(w, "run", wloc[w])
         /\ WorkerDone(w) => wat[w] = "run" /\ WGo(w, "ent_free", NoLocals)
         /\ taskq_ent_free(w) => wat[w] = "ent_free" /\ WGo(w, "loop", wloc[w])
         /\ ExtendRefused(w) => wat[w] = "extend" /\ WGo(w, "run", wloc[w])
         /\ ExtendCount(w) => wat[w] = "extend" /\ WGo(w, "create", wloc[w])
         /\ ExtendNoMem(w) => wat[w] = "create" /\ WGo(w, "run", wloc[w])
<1>1. /\ wloc[w] = loc[w] /\ loc \in [Client \cup Worker -> LocType] /\ loc[w] \in LocType
      /\ "loop" \in Plain /\ "awake" \in Plain /\ "rw_enter" \in Plain /\ "run" \in Plain
      /\ "ent_free" \in Plain /\ "extend" \in Plain /\ "create" \in Plain /\ "none" \in Plain
      /\ ExtendRet(w) = "run"
  BY ViewTypes DEF Typ, Plain, PCs, ExtendRet
<1>2. loc = [loc EXCEPT ![w] = wloc[w]]
  BY <1>1
<1>3. ASSUME WorkerSleep(w) PROVE wat[w] = pc[w] /\ WGo(w, "awake", wloc[w])
  <2>1. pc[w] \in {"loop", "awake"} /\ loc' = loc /\ Goes(w, "sleep")
    BY <1>3, AsleepFacts DEF WorkerSleep, Goes
  <2>2. pc[w] \in PCs /\ pc[w] # "setrun" /\ Kind(pc[w]) = pc[w] /\ Kind("sleep") = "awake" /\ "sleep" \in PCs
    BY <2>1, KindFacts DEF PCs
  <2> QED
    BY <1>1, <1>2, <2>1, <2>2, ViewTypes, WorkerGoes DEF WGo
<1>4. ASSUME WorkerTake(w) PROVE wat[w] = pc[w] /\ WGo(w, "rw_enter", TakenLoc(w, Head(tq.task)))
  <2>1. pc[w] \in {"loop", "awake"} /\ Goto(w, "rw_enter")
    BY <1>4 DEF WorkerTake
  <2>2. loc' = [loc EXCEPT ![w] = TakenLoc(w, Head(tq.task))]
    BY <1>1, <1>4 DEF WorkerTake, TakenLoc
  <2>3. pc[w] \in Plain
    BY <1>1, <2>1
  <2> QED
    BY <1>1, <2>1, <2>2, <2>3, WorkerGo
<1>5. ASSUME WorkerExit(w) PROVE wat[w] = pc[w] /\ WGo(w, "none", wloc[w])
  <2>1. pc[w] \in Plain /\ loc' = loc /\ Goes(w, "none")
    BY <1>1, <1>5, AsleepFacts DEF WorkerExit, Goes
  <2> QED
    BY <1>1, <1>2, <2>1, WorkerGo
<1>6. ASSUME WorkerRun(w), wloc[w].task = NULL PROVE wat[w] = "rw_enter" /\ WGo(w, "extend", wloc[w])
  <2>1. pc[w] = "rw_enter" /\ Goto(w, "extend") /\ loc' = loc
    BY <1>1, <1>6 DEF WorkerRun
  <2> QED
    BY <1>1, <1>2, <2>1, WorkerGo
<1>7. ASSUME WorkerRun(w), wloc[w].task # NULL PROVE wat[w] = "rw_enter" /\ WGo(w, "run", wloc[w])
  <2>1. pc[w] = "rw_enter" /\ Goto(w, "run") /\ loc' = loc
    BY <1>1, <1>7 DEF WorkerRun
  <2> QED
    BY <1>1, <1>2, <2>1, WorkerGo
<1>8. ASSUME WorkerDone(w) PROVE wat[w] = "run" /\ WGo(w, "ent_free", NoLocals)
  <2>1. pc[w] = "run" /\ Goto(w, "ent_free") /\ loc' = [loc EXCEPT ![w] = NoLocals]
    BY <1>8 DEF WorkerDone
  <2> QED
    BY <1>1, <2>1, WorkerGo
<1>9. ASSUME taskq_ent_free(w) PROVE wat[w] = "ent_free" /\ WGo(w, "loop", wloc[w])
  <2>1. pc[w] = "ent_free" /\ Goto(w, "loop") /\ loc' = loc
    BY <1>9 DEF taskq_ent_free
  <2> QED
    BY <1>1, <1>2, <2>1, WorkerGo
<1>10. ASSUME ExtendRefused(w) PROVE wat[w] = "extend" /\ WGo(w, "run", wloc[w])
  <2>1. pc[w] = "extend" /\ Goto(w, "run") /\ loc' = loc
    BY <1>1, <1>10 DEF ExtendRefused
  <2> QED
    BY <1>1, <1>2, <2>1, WorkerGo
<1>11. ASSUME ExtendCount(w) PROVE wat[w] = "extend" /\ WGo(w, "create", wloc[w])
  <2>1. pc[w] = "extend" /\ Goto(w, "create") /\ loc' = loc
    BY <1>11 DEF ExtendCount
  <2> QED
    BY <1>1, <1>2, <2>1, WorkerGo
<1>12. ASSUME ExtendNoMem(w) PROVE wat[w] = "create" /\ WGo(w, "run", wloc[w])
  <2>1. pc[w] = "create" /\ Goto(w, "run") /\ loc' = loc
    BY <1>1, <1>12 DEF ExtendNoMem
  <2> QED
    BY <1>1, <1>2, <2>1, WorkerGo
<1> QED
  BY <1>3, <1>4, <1>5, <1>6, <1>7, <1>8, <1>9, <1>10, <1>11, <1>12

\* taskq_d_thread.
LEMMA EntTable ==
  ASSUME Typ, NEW e \in Ent
  PROVE  /\ EntRun(e) => eat[e] \in {"start", "awake", "timedout"} /\ EGo(e, "run")
         /\ EntDone(e) => eat[e] = "run" /\ EGo(e, "awake")
         /\ EntSleep(e) => eat[e] \in {"start", "awake"} /\ EGo(e, "awake")
         /\ EntTimeout(e) => eat[e] = "awake" /\ EGo(e, "timedout")
         /\ EntDie(e) => eat[e] \in {"start", "awake", "timedout"} /\ EGo(e, "none")
<1>1. /\ "run" \in PCs /\ "awake" \in PCs /\ "sleep" \in PCs /\ "timedout" \in PCs /\ "none" \in PCs
      /\ Kind("run") = "run" /\ Kind("awake") = "awake" /\ Kind("sleep") = "awake"
      /\ Kind("timedout") = "timedout" /\ Kind("none") = "none" /\ Kind("start") = "start"
      /\ eat[e] = Kind(pc[e]) /\ e \in Thread /\ pc \in [Thread -> PCs]
  BY KindFacts, ViewTypes, Threads DEF PCs, Typ
<1>2. ASSUME EntRun(e) PROVE eat[e] \in {"start", "awake", "timedout"} /\ EGo(e, "run")
  <2>1. pc[e] \in {"start", "awake", "timedout"} /\ Goto(e, "run") /\ loc' = loc
    BY <1>2 DEF EntRun, CanRun
  <2>2. Goes(e, "run")
    BY <1>1, <2>1, GotoGoes
  <2> QED
    BY <1>1, <2>1, <2>2, EntGoes DEF EGo
<1>3. ASSUME EntDone(e) PROVE eat[e] = "run" /\ EGo(e, "awake")
  <2>1. pc[e] = "run" /\ loc' = loc /\ (Goes(e, "awake") \/ Goes(e, "sleep"))
    BY <1>3, AsleepFacts DEF EntDone, Goes
  <2> QED
    BY <1>1, <2>1, EntGoes DEF EGo
<1>4. ASSUME EntSleep(e) PROVE eat[e] \in {"start", "awake"} /\ EGo(e, "awake")
  <2>1. pc[e] \in {"start", "awake"} /\ Goto(e, "sleep") /\ loc' = loc
    BY <1>4 DEF EntSleep
  <2>2. Goes(e, "sleep")
    BY <1>1, <2>1, GotoGoes
  <2> QED
    BY <1>1, <2>1, <2>2, EntGoes DEF EGo
<1>5. ASSUME EntTimeout(e) PROVE eat[e] = "awake" /\ EGo(e, "timedout")
  <2>1. pc[e] = "sleep" /\ Goto(e, "timedout") /\ loc' = loc
    BY <1>5 DEF EntTimeout
  <2>2. Goes(e, "timedout")
    BY <1>1, <2>1, GotoGoes
  <2> QED
    BY <1>1, <2>1, <2>2, EntGoes DEF EGo
<1>6. ASSUME EntDie(e) PROVE eat[e] \in {"start", "awake", "timedout"} /\ EGo(e, "none")
  <2>1. pc[e] \in {"start", "awake", "timedout"} /\ loc' = loc /\ Goes(e, "none")
    BY <1>6, AsleepFacts DEF EntDie, CanRun, Goes
  <2> QED
    BY <1>1, <2>1, EntGoes DEF EGo
<1> QED
  BY <1>2, <1>3, <1>4, <1>5, <1>6

\* The creator x of a thread moves to k.
Moves(x, k, r) ==
    /\ x \in Client => /\ cat' = [cat EXCEPT ![x] = k] /\ cloc' = [cloc EXCEPT ![x] = r]
                       /\ UNCHANGED <<wat, wloc>>
    /\ x \in Worker => /\ wat' = [wat EXCEPT ![x] = k] /\ wloc' = [wloc EXCEPT ![x] = r]
                       /\ UNCHANGED <<cat, cloc>>
EntLoc(x, e) == [loc[x] EXCEPT !.ent = e]

LinkGo(x, e) == /\ pc[x] = "create" /\ eat[e] = "none"
                /\ Moves(x, "setrun", EntLoc(x, e))
                /\ eat' = [eat EXCEPT ![e] = "stopped"]
                /\ setting' = [setting EXCEPT ![x] = e]
                /\ pc' \in [Thread -> PCs] /\ pc'[x] = "setrun"
                /\ \A y \in Client \cup Worker : y # x => pc'[y] = pc[y]
StartGo(x, e) == /\ pc[x] = "setrun" /\ setting[x] = e
                 /\ Moves(x, ExtendRet(x), EntLoc(x, NULL))
                 /\ eat' = [eat EXCEPT ![e] = "start"]
                 /\ setting' = [setting EXCEPT ![x] = NULL]
                 /\ pc' \in [Thread -> PCs] /\ pc'[x] # "setrun"
                 /\ \A y \in Client \cup Worker : y # x => pc'[y] = pc[y]

\* A step that changes where x and the entry e are.
Pair(x, e, k, l, r) == pc' = [pc EXCEPT ![e] = l, ![x] = k] /\ loc' = [loc EXCEPT ![x] = r]
PairGo(x, e, k, l, r) ==
    /\ Moves(x, k, r) /\ eat' = [eat EXCEPT ![e] = l]
    /\ pc' \in [Thread -> PCs] /\ pc'[x] = k
    /\ \A y \in Client \cup Worker : y # x => pc'[y] = pc[y] /\ loc'[y] = loc[y]
    /\ loc'[x] = r

\* Such a step moves x and e, and no other thread.
LEMMA PairGoes ==
  ASSUME Typ, NEW x \in Client \cup Worker, NEW e \in Ent, NEW k \in PCs, NEW l \in PCs, NEW r,
         Pair(x, e, k, l, r), Kind(k) = k, Kind(l) = l
  PROVE  PairGo(x, e, k, l, r)
<1> USE DEF Pair
<1>1. x \in Thread /\ e \in Thread /\ x # e
  BY Threads DEF Thread
<1>2. /\ pc' \in [Thread -> PCs] /\ pc'[x] = k /\ pc'[e] = l
      /\ \A y \in Thread : y # x /\ y # e => pc'[y] = pc[y]
  BY <1>1 DEF Typ
<1>3. \A y \in Client \cup Worker : y \in Thread /\ y # e
  BY Threads
<1>4. loc'[x] = r /\ \A y \in Client \cup Worker : y # x => loc'[y] = loc[y]
  BY DEF Typ
<1>5. eat' = [eat EXCEPT ![e] = l]
  BY <1>2, Threads DEF eat
<1>6. x \in Client => x \notin Worker
  BY Threads
<1>7. ASSUME x \in Client PROVE cat' = [cat EXCEPT ![x] = k] /\ wat' = wat
  BY <1>2, <1>3, <1>6, <1>7 DEF cat, wat
<1>8. ASSUME x \in Client PROVE cloc' = [cloc EXCEPT ![x] = r] /\ wloc' = wloc
  BY <1>4, <1>6, <1>8 DEF cloc, wloc
<1>9. ASSUME x \in Worker PROVE wat' = [wat EXCEPT ![x] = k] /\ cat' = cat
  BY <1>2, <1>3, <1>6, <1>9 DEF cat, wat
<1>10. ASSUME x \in Worker PROVE wloc' = [wloc EXCEPT ![x] = r] /\ cloc' = cloc
  BY <1>4, <1>6, <1>10 DEF cloc, wloc
<1>11. Moves(x, k, r)
  BY <1>7, <1>8, <1>9, <1>10 DEF Moves
<1> QED
  BY <1>2, <1>3, <1>4, <1>5, <1>11 DEF PairGo

\* A thread is created for the bucket of x.
Linked(x, e) ==
    /\ home' = [home EXCEPT ![e] = loc[x].bucket] /\ func' = [func EXCEPT ![e] = NULL]
    /\ bkt' = [bkt EXCEPT ![loc[x].bucket].freelist = @ \cup {e}, ![loc[x].bucket].nfree = @ + 1]
    /\ UNCHANGED <<tq, life, status, seen>>

\* taskq_bucket_extend creates a thread, stopped, for an entry that had none.
LEMMA LinkTable ==
  ASSUME Typ, NEW x \in Client \cup Worker, ExtendLink(x)
  PROVE  \E e \in Ent : LinkGo(x, e) /\ Linked(x, e) /\ loc' = [loc EXCEPT ![x] = EntLoc(x, e)]
<1>1. PICK e \in Ent :
         /\ pc[e] = "none"
         /\ home' = [home EXCEPT ![e] = loc[x].bucket]
         /\ func' = [func EXCEPT ![e] = NULL]
         /\ bkt' = [bkt EXCEPT ![loc[x].bucket].freelist = @ \cup {e}, ![loc[x].bucket].nfree = @ + 1]
         /\ pc' = [pc EXCEPT ![e] = "stopped", ![x] = "setrun"]
         /\ loc' = [loc EXCEPT ![x].ent = e]
  BY DEF ExtendLink
<1>2. pc[x] = "create" /\ UNCHANGED <<tq, life, status, seen>>
  BY DEF ExtendLink
<1>3. "stopped" \in PCs /\ "setrun" \in PCs /\ Kind("stopped") = "stopped" /\ Kind("setrun") = "setrun"
  BY KindFacts DEF PCs
<1>4. loc' = [loc EXCEPT ![x] = EntLoc(x, e)]
  BY <1>1 DEF EntLoc, Typ
<1>5. /\ Moves(x, "setrun", EntLoc(x, e)) /\ eat' = [eat EXCEPT ![e] = "stopped"]
      /\ pc' \in [Thread -> PCs] /\ pc'[x] = "setrun"
      /\ \A y \in Client \cup Worker : y # x => pc'[y] = pc[y] /\ loc'[y] = loc[y]
      /\ loc'[x] = EntLoc(x, e)
  <2>1. Pair(x, e, "setrun", "stopped", EntLoc(x, e))
    BY <1>1, <1>4 DEF Pair
  <2>2. PairGo(x, e, "setrun", "stopped", EntLoc(x, e))
    BY <1>3, <2>1, PairGoes
  <2> QED
    BY <2>2 DEF PairGo
<1>6. eat[e] = "none"
  BY <1>1, KindFacts, ViewTypes DEF PCs
<1>7. setting' = [setting EXCEPT ![x] = e]
  <2>1. loc'[x].ent = e
    BY <1>5 DEF EntLoc, Typ, LocType
  <2> QED
    BY <1>5, <2>1 DEF setting
<1> QED
  BY <1>1, <1>2, <1>4, <1>5, <1>6, <1>7 DEF LinkGo, Linked

\* It is started.
LEMMA StartTable ==
  ASSUME Typ, SetrunOK, NEW x \in Client \cup Worker, ExtendStart(x)
  PROVE  /\ \E e \in Ent : StartGo(x, e) /\ loc' = [loc EXCEPT ![x] = EntLoc(x, NULL)]
         /\ UNCHANGED <<tq, bkt, func, home, life, status, seen>>
<1>1. /\ pc[x] = "setrun"
      /\ pc' = [pc EXCEPT ![loc[x].ent] = "start", ![x] = ExtendRet(x)]
      /\ loc' = [loc EXCEPT ![x].ent = NULL]
      /\ UNCHANGED <<tq, bkt, func, home, life, status, seen>>
  BY DEF ExtendStart
<1>2. PICK e \in Ent : e = loc[x].ent /\ setting[x] = e
  <2>1. Kind(pc[x]) = "setrun"
    BY <1>1, KindFacts DEF PCs
  <2>2. setting[x] \in Ent
    BY <2>1, ViewTypes DEF SetrunOK
  <2> QED
    BY <1>1, <2>2 DEF setting
<1>3. /\ "start" \in PCs /\ Kind("start") = "start" /\ ExtendRet(x) \in PCs
      /\ Kind(ExtendRet(x)) = ExtendRet(x) /\ ExtendRet(x) # "setrun"
  BY KindFacts, RetKinds DEF PCs, ExtendRet
<1>4. loc' = [loc EXCEPT ![x] = EntLoc(x, NULL)]
  BY <1>1 DEF EntLoc, Typ
<1>5. /\ Moves(x, ExtendRet(x), EntLoc(x, NULL)) /\ eat' = [eat EXCEPT ![e] = "start"]
      /\ pc' \in [Thread -> PCs] /\ pc'[x] = ExtendRet(x)
      /\ \A y \in Client \cup Worker : y # x => pc'[y] = pc[y] /\ loc'[y] = loc[y]
      /\ loc'[x] = EntLoc(x, NULL)
  <2>1. Pair(x, e, ExtendRet(x), "start", EntLoc(x, NULL))
    BY <1>1, <1>2, <1>4 DEF Pair
  <2>2. PairGo(x, e, ExtendRet(x), "start", EntLoc(x, NULL))
    BY <1>3, <2>1, PairGoes
  <2> QED
    BY <2>2 DEF PairGo
<1>6. setting' = [setting EXCEPT ![x] = NULL]
  BY <1>3, <1>5 DEF setting
<1> QED
  BY <1>1, <1>2, <1>3, <1>4, <1>5, <1>6 DEF StartGo

\* taskq_create: the workers W of the new queue start.
CreateGo(c, f, W) ==
    /\ W \in SUBSET Worker /\ W # {}
    /\ cat[c] = "idle" /\ life = "none" /\ life' = "creating"
    /\ cat' = [cat EXCEPT ![c] = IF f = {"DYNAMIC", "PREPOPULATE"} THEN "populate" ELSE "created"]
    /\ wat' = [w \in Worker |-> IF w \in W THEN "loop" ELSE wat[w]]
    /\ UNCHANGED <<eat, cloc, wloc, setting, loc, func, home, seen>>
    /\ pc' \in [Thread -> PCs]
    /\ \E n \in {0, MinAlloc} :
         tq' = [tq EXCEPT !.flags = (f \cap {"DYNAMIC"}) \cup {"ACTIVE"},
                          !.active = Cardinality(W), !.nthreads = Cardinality(W),
                          !.minalloc = MinAlloc, !.nalloc = @ + n, !.freelist = @ + n]
    /\ bkt' = [b \in Bucket |-> NoBucket] /\ status' = [t \in Task |-> "new"]

\* taskq_create starts the workers of the new queue, and moves no other thread.
LEMMA CreateTable ==
  ASSUME Typ, FreedQuiet, NEW c \in Client, taskq_create(c)
  PROVE  \E f \in CreateFlags, W \in SUBSET Worker : CreateGo(c, f, W)
<1> DEFINE New(f, W) ==
          LET populated == IF "PREPOPULATE" \in f THEN MinAlloc ELSE 0
          IN /\ tq' = [tq EXCEPT !.flags = (f \cap {"DYNAMIC"}) \cup {"ACTIVE"},
                                 !.active = Cardinality(W),
                                 !.nthreads = Cardinality(W),
                                 !.minalloc = MinAlloc,
                                 !.nalloc = @ + populated,
                                 !.freelist = @ + populated]
             /\ pc' = [x \in Thread |->
                         IF x = c THEN IF f = {"DYNAMIC", "PREPOPULATE"}
                                       THEN "populate" ELSE "created"
                         ELSE IF x \in W THEN "loop" ELSE pc[x]]
<1>0. PICK f \in CreateFlags :
        \E W \in IF "DYNAMIC" \in f THEN {{w} : w \in Worker} ELSE {Worker} : New(f, W)
  BY Zenon DEF taskq_create
<1>1. PICK W \in IF "DYNAMIC" \in f THEN {{w} : w \in Worker} ELSE {Worker} : New(f, W)
  BY <1>0
<1>2. /\ pc[c] = "idle" /\ life = "none" /\ life' = "creating" /\ UNCHANGED <<func, home, loc, seen>>
      /\ bkt' = [b \in Bucket |-> NoBucket] /\ status' = [t \in Task |-> "new"]
  BY DEF taskq_create
<1>3. W \in SUBSET Worker /\ W # {}
  BY <1>1, TaskqAssumption
<1>4. \E n \in {0, MinAlloc} :
         tq' = [tq EXCEPT !.flags = (f \cap {"DYNAMIC"}) \cup {"ACTIVE"},
                          !.active = Cardinality(W), !.nthreads = Cardinality(W),
                          !.minalloc = MinAlloc, !.nalloc = @ + n, !.freelist = @ + n]
  BY <1>1, Zenon
<1>5. PICK k \in {"populate", "created"} :
        /\ k = IF f = {"DYNAMIC", "PREPOPULATE"} THEN "populate" ELSE "created"
        /\ pc' = [x \in Thread |-> IF x = c THEN k ELSE IF x \in W THEN "loop" ELSE pc[x]]
  BY <1>1, Zenon
<1>6. /\ Kind("populate") = "populate" /\ Kind("created") = "created" /\ Kind("loop") = "loop"
      /\ Kind("idle") = "idle" /\ "populate" \in PCs /\ "created" \in PCs /\ "loop" \in PCs
  BY KindFacts DEF PCs
<1>7. pc' \in [Thread -> PCs]
  BY <1>5, <1>6 DEF Typ
<1>8. cat' = [cat EXCEPT ![c] = k] /\ cat[c] = "idle"
  BY <1>2, <1>3, <1>5, <1>6, Threads DEF cat
<1>9. wat' = [w \in Worker |-> IF w \in W THEN "loop" ELSE wat[w]]
  BY <1>2, <1>3, <1>5, <1>6, Threads DEF wat
<1>10. eat' = eat
  BY <1>2, <1>3, <1>5, <1>6, Threads DEF eat
<1>11. cloc' = cloc /\ wloc' = wloc
  BY <1>2 DEF cloc, wloc
<1>12. setting' = setting
  <2>1. \A x \in Worker : pc[x] # "setrun"
    BY <1>2 DEF FreedQuiet
  <2>2. \A x \in Client \cup Worker : pc'[x] = "setrun" <=> pc[x] = "setrun"
    BY <1>2, <1>3, <1>5, <2>1, Threads
  <2> QED
    BY <1>2, <2>2 DEF setting
<1>13. CreateGo(c, f, W)
  BY <1>2, <1>3, <1>4, <1>5, <1>7, <1>8, <1>9, <1>10, <1>11, <1>12 DEF CreateGo
<1> QED
  BY <1>3, <1>13

----------------------------------------------------------------------------
(* Steps of others than clients *)

\* Workers and entries change nothing of what a client is at, and tasks only
\* from scheduled to running or done.
Onwards == \A t \in Task : \/ status'[t] = status[t]
                           \/ /\ status[t] \in {"queued", "running"}
                              /\ status'[t] \in {"running", "done"}
Others == /\ UNCHANGED <<cat, cloc, life, seen>>
          /\ tq'.flags = tq.flags /\ tq'.writer = tq.writer
          /\ \A b \in Bucket : bkt'[b].flags = bkt[b].flags
          /\ Onwards
OtherStep == \/ \E w \in Worker : WorkerStep(w)
             \/ \E e \in Ent : taskq_d_thread(e)

\* Workers and entries leave the clients where they are, and tasks only go forwards.
LEMMA OthersFrame ==
  ASSUME Inv, OtherStep
  PROVE  Others
<1>1. Typ /\ PlacesOK /\ WorkOK /\ EntriesOK /\ SetrunOK
  BY DEF Inv
<1>2. /\ \A w \in Worker : wloc[w].task \in Task => status[wloc[w].task] \in {"queued", "running"}
      /\ \A e \in Ent : func[e] \in Task => status[func[e]] \in {"queued", "running"}
  BY <1>1 DEF PlacesOK, Held, Entered
<1>3. /\ tq \in TqType /\ bkt \in [Bucket -> BktType] /\ func \in [Ent -> Task \cup {NULL}]
      /\ status \in [Task -> {"new", "called", "refused", "queued", "running", "done"}]
      /\ wloc \in [Worker -> LocType] /\ \A w \in Worker : wloc[w] = loc[w] /\ wloc[w].task \in Task \cup {NULL}
      /\ home \in [Ent -> Bucket \cup {NULL}]
  BY <1>1, ViewTypes DEF Typ, LocType
<1>4. ASSUME NEW w \in Worker, taskq_thread(w) PROVE Others
  <2>1. CASE WorkerSleep(w)
    BY <1>1, <1>3, <2>1, WorkerTable DEF WorkerSleep, WGo, WMove, Others, Onwards, TqType
  <2>2. CASE WorkerTake(w)
    BY <1>1, <1>3, <2>2, WorkerTable DEF WorkerTake, WGo, WMove, Others, Onwards, TqType
  <2>3. CASE WorkerExit(w)
    BY <1>1, <1>3, <2>3, WorkerTable DEF WorkerExit, WGo, WMove, Others, Onwards, TqType
  <2>4. CASE WorkerRun(w)
    <3>1. UNCHANGED <<cat, cloc>>
      BY <1>1, <2>4, WorkerTable DEF WGo, WMove
    <3>2. Onwards
      BY <1>2, <1>3, <2>4 DEF WorkerRun, Onwards
    <3> QED
      BY <1>3, <2>4, <3>1, <3>2 DEF WorkerRun, Others, TqType
  <2>5. CASE WorkerDone(w)
    <3>1. UNCHANGED <<cat, cloc>>
      BY <1>1, <2>5, WorkerTable DEF WGo, WMove
    <3>2. Onwards
      BY <1>2, <1>3, <2>5 DEF WorkerDone, Onwards
    <3> QED
      BY <1>3, <2>5, <3>1, <3>2 DEF WorkerDone, Others, TqType
  <2>6. CASE taskq_ent_free(w)
    BY <1>1, <1>3, <2>6, WorkerTable DEF taskq_ent_free, WGo, WMove, Others, Onwards, TqType
  <2> QED
    BY <1>4, <2>1, <2>2, <2>3, <2>4, <2>5, <2>6 DEF taskq_thread
<1>5. ASSUME NEW w \in Worker, taskq_bucket_extend(w) PROVE Others
  <2>1. CASE ExtendRefused(w)
    BY <1>1, <1>3, <2>1, WorkerTable DEF ExtendRefused, WGo, WMove, Others, Onwards, TqType
  <2>2. CASE ExtendCount(w)
    BY <1>1, <1>3, <2>2, WorkerTable DEF ExtendCount, WGo, WMove, Others, Onwards, TqType
  <2>3. CASE ExtendNoMem(w)
    BY <1>1, <1>3, <2>3, WorkerTable DEF ExtendNoMem, WGo, WMove, Others, Onwards, TqType
  <2>4. CASE ExtendLink(w)
    <3>1. PICK e \in Ent : LinkGo(w, e) /\ Linked(w, e)
      BY <1>1, <2>4, LinkTable
    <3>2. UNCHANGED <<cat, cloc, tq, life, status, seen>>
      BY <3>1 DEF LinkGo, Linked, Moves
    <3>3. \A b \in Bucket : bkt'[b].flags = bkt[b].flags
      BY <1>3, <3>1 DEF Linked, BktType
    <3> QED
      BY <3>2, <3>3 DEF Others, Onwards
  <2>5. CASE ExtendStart(w)
    <3>1. PICK e \in Ent : StartGo(w, e)
      BY <1>1, <2>5, StartTable
    <3>2. UNCHANGED <<cat, cloc, tq, bkt, life, status, seen>>
      BY <1>1, <2>5, <3>1, StartTable DEF StartGo, Moves
    <3> QED
      BY <3>2 DEF Others, Onwards
  <2> QED
    BY <1>5, <2>1, <2>2, <2>3, <2>4, <2>5 DEF taskq_bucket_extend
<1>6. ASSUME NEW e \in Ent, taskq_d_thread(e) PROVE Others
  <2>1. CASE EntRun(e)
    BY <1>1, <1>2, <1>3, <2>1, EntTable DEF EntRun, EGo, EMove, Others, Onwards
  <2>2. CASE EntDone(e)
    <3>1. UNCHANGED <<cat, cloc>> /\ eat[e] = "run"
      BY <1>1, <2>2, EntTable DEF EGo, EMove
    <3>2. func[e] \in Task
      BY <1>1, <1>3, <3>1 DEF EntriesOK
    <3>3. Onwards
      BY <1>2, <1>3, <2>2, <3>2 DEF EntDone, Onwards
    <3>4. \A b \in Bucket : bkt'[b].flags = bkt[b].flags
      BY <1>3, <2>2 DEF EntDone, BktType
    <3> QED
      BY <2>2, <3>1, <3>3, <3>4 DEF EntDone, Others
  <2>3. CASE EntSleep(e)
    BY <1>1, <2>3, EntTable DEF EntSleep, EGo, EMove, Others, Onwards
  <2>4. CASE EntTimeout(e)
    BY <1>1, <2>4, EntTable DEF EntTimeout, EGo, EMove, Others, Onwards
  <2>5. CASE EntDie(e)
    <3>1. UNCHANGED <<cat, cloc>>
      BY <1>1, <2>5, EntTable DEF EGo, EMove
    <3>2. \A b \in Bucket : bkt'[b].flags = bkt[b].flags
      BY <1>3, <2>5 DEF EntDie, BktType
    <3>3. tq'.flags = tq.flags /\ tq'.writer = tq.writer
      BY <1>3, <2>5 DEF EntDie, TqType
    <3> QED
      BY <2>5, <3>1, <3>2, <3>3 DEF EntDie, Others, Onwards
  <2> QED
    BY <1>6, <2>1, <2>2, <2>3, <2>4, <2>5 DEF taskq_d_thread
<1> QED
  BY <1>4, <1>5, <1>6 DEF OtherStep, WorkerStep

\* So what is known of the clients stays.
LEMMA OthersClients ==
  ASSUME Inv, Others
  PROVE  PhaseOK' /\ LocalsOK' /\ OwnTask' /\ SuspendOK'
<1>1. Typ /\ PhaseOK /\ LocalsOK /\ OwnTask /\ SuspendOK
  BY DEF Inv
<1>2. /\ cat' = cat /\ cloc' = cloc /\ life' = life /\ tq'.writer = tq.writer
      /\ \A b \in Bucket : bkt'[b].flags = bkt[b].flags
      /\ Dynamic' = Dynamic
  BY DEF Others, Dynamic
<1>3. \A c \in Client : /\ Creating(c)' = Creating(c) /\ Searching(c)' = Searching(c)
                        /\ Enqueuing(c)' = Enqueuing(c) /\ Waiting(c)' = Waiting(c)
                        /\ Suspending(c)' = Suspending(c) /\ Destroying(c)' = Destroying(c)
  BY <1>2 DEF Creating, Searching, Enqueuing, Waiting, Suspending, Destroying
<1>4. /\ \A t \in Task : status[t] = "called" => status'[t] = "called"
      /\ \A t \in Task : status[t] # "new" => status'[t] # "new"
      /\ \A c \in Client : cloc[c].task \in Task \cup {NULL}
  BY <1>1, ViewTypes DEF Others, Onwards, LocType
<1>5. PhaseOK'
  BY <1>1, <1>2, <1>3 DEF PhaseOK
<1>6. \A c \in Client : TodoOK(c) /\ cloc[c].task \in Task => TodoOK(c)'
  BY <1>2, <1>4 DEF TodoOK
<1>7. LocalsOK'
  BY <1>1, <1>2, <1>3, <1>4, <1>6 DEF LocalsOK
<1>8. OwnTask'
  BY <1>1, <1>2, <1>4 DEF OwnTask
<1>9. SuspendOK'
  BY <1>1, <1>2, <1>3 DEF SuspendOK
<1> QED
  BY <1>5, <1>7, <1>8, <1>9

----------------------------------------------------------------------------
(* Steps of clients: what they are at *)

\* A client that is not alone in the queue's life stays in its phase.
Phase(l, k, r) ==
    \/ k = "idle"
    \/ l = "creating" /\ (k \in {"populate", "created"} \/ (k \in Ext /\ r.ret = "populate"))
    \/ /\ l = "closing"
       /\ \/ k \in {"deactivate", "join", "drain", "close", "bjoin", "free"}
          \/ k \in {"wait", "bwait"} /\ r.ret = "deactivate"
    \/ /\ l = "live"
       /\ \/ k \in {"hash", "search", "retry"} \/ (k \in Ext /\ r.ret = "retry")
          \/ k \in {"ent_alloc", "kmem", "enqueue", "suspend", "suspended", "resume", "waited"}
          \/ k \in {"wait", "bwait"} /\ r.ret = "waited"
InPhase == \A c \in Client : Phase(life, cat[c], cloc[c])
Alone == \A c, d \in Client :
           life \in {"creating", "closing"} /\ cat[c] # "idle" /\ cat[d] # "idle" => c = d

\* The phases of clients, said of one client at a time.
LEMMA PhaseDef ==
  PhaseOK <=> InPhase /\ Alone
BY DEF PhaseOK, InPhase, Phase, Alone, Creating, Searching, Enqueuing, Waiting, Suspending, Destroying

\* A client that moves within its phase, or alone into the next, disturbs no other.
LEMMA PhaseStep ==
  ASSUME Typ, PhaseOK, NEW c \in Client, NEW k, NEW r, CMove(c, k, r) \/ Moves(c, k, r),
         Phase(life', k, r),
         \/ life' = life /\ (k # "idle" => cat[c] # "idle" \/ life \notin {"creating", "closing"})
         \/ \A d \in Client : d = c \/ cat[d] = "idle"
  PROVE  PhaseOK'
<1>1. /\ cat' = [cat EXCEPT ![c] = k] /\ cloc' = [cloc EXCEPT ![c] = r]
      /\ cat \in [Client -> PCs] /\ cloc \in [Client -> LocType]
  BY ViewTypes DEF CMove, Moves
<1>2. (\A d \in Client : Phase(life, cat[d], cloc[d])) /\ Alone
  BY PhaseDef DEF InPhase
<1>3. \A d \in Client : Phase(life', cat'[d], cloc'[d])
  <2>1. \A l, q : Phase(l, "idle", q)
    BY DEF Phase
  <2>2. ASSUME NEW d \in Client, d # c PROVE Phase(life', cat'[d], cloc'[d])
    <3>1. cat'[d] = cat[d] /\ cloc'[d] = cloc[d]
      BY <1>1, <2>2
    <3>2. CASE life' = life
      BY <1>2, <3>1, <3>2
    <3>3. CASE \A b \in Client : b = c \/ cat[b] = "idle"
      BY <2>1, <2>2, <3>1, <3>3
    <3> QED
      BY <3>2, <3>3
  <2>3. Phase(life', cat'[c], cloc'[c])
    BY <1>1
  <2> QED
    BY <2>2, <2>3
<1>4. Alone'
  BY <1>1, <1>2 DEF Alone
<1>5. (InPhase /\ Alone)' => PhaseOK'
  BY PhaseDef, PTL
<1> QED
  BY <1>3, <1>4, <1>5 DEF InPhase

\* The end of taskq_ent_alloc for one entry.
NextEntStep(c) == FromFreelist(c) \/ EnqueueNew(c) \/ AllocFailed(c)

\* After taskq_ent_alloc the client goes on with the next entry, or returns.
LEMMA NextEntTable ==
  ASSUME Typ, NEW c \in Client, NextEntStep(c)
  PROVE  /\ cat[c] \in {"ent_alloc", "kmem", "enqueue"} /\ Enqueuing(c)
         /\ Len(cloc[c].todo) = 1 => CGo(c, "idle", NoLocals)
         /\ Len(cloc[c].todo) # 1 => CGo(c, "ent_alloc", TailLoc(c))
<1>1. pc[c] \in {"ent_alloc", "kmem", "enqueue"} /\ \E st, W : NextEnt(c, st, W) /\ Asleep(W)
  BY AsleepFacts DEF NextEntStep, FromFreelist, EnqueueNew, AllocFailed, TQ_ENQUEUE
<1> QED
  BY <1>1, ClientAlloc DEF Enqueuing

\* Every step of a client takes it to where the life of the queue lets it be.
LEMMA ClientPhase ==
  ASSUME Inv, NEW c \in Client, Call(c) \/ ClientStep(c)
  PROVE  PhaseOK'
<1>1. Typ /\ PhaseOK /\ FreedQuiet /\ SetrunOK
  BY DEF Inv
<1>2. Phase(life, cat[c], cloc[c]) /\ Alone
  BY <1>1, PhaseDef DEF InPhase
<1>3. cloc[c] \in LocType /\ cloc[c] = loc[c] /\ c \notin Worker
  BY <1>1, ViewTypes, Threads
<1> USE DEF CGo
<1>4. CASE taskq_create(c)
  <2>1. PICK f \in CreateFlags, W \in SUBSET Worker : CreateGo(c, f, W)
    BY <1>1, <1>4, CreateTable
  <2>2. \A d \in Client : cat[d] = "idle"
    BY <1>1, <2>1, PhaseDef DEF InPhase, Phase, CreateGo
  <2>3. \A d \in Client : d = c \/ cat'[d] = "idle"
    BY <1>1, <2>1, <2>2, ViewTypes DEF CreateGo
  <2>4. life' = "creating" /\ cat'[c] \in {"populate", "created"}
    BY <1>1, <2>1, ViewTypes DEF CreateGo
  <2>5. InPhase'
    BY <2>3, <2>4 DEF InPhase, Phase
  <2>6. Alone'
    BY <2>3 DEF Alone
  <2>7. (InPhase /\ Alone)' => PhaseOK'
    BY PhaseDef, PTL
  <2> QED
    BY <2>5, <2>6, <2>7
<1>5. CASE Populate(c)
  <2>1. cat[c] = "populate" /\ life' = life
    BY <1>1, <1>5, ClientCreate DEF Populate
  <2>2. CASE cloc[c].i + 1 > NBuckets
    BY <1>1, <1>2, <1>5, <2>1, <2>2, ClientCreate, PhaseStep DEF Phase, Ext
  <2>3. CASE ~(cloc[c].i + 1 > NBuckets)
    <3>1. CMove(c, "extend", PopulateLoc(c))
      BY <1>1, <1>5, <2>3, ClientCreate
    <3>2. Phase(life', "extend", PopulateLoc(c))
      BY <1>2, <1>3, <2>1 DEF Phase, Ext, PopulateLoc, LocType
    <3> QED
      BY <1>1, <2>1, <3>1, <3>2, PhaseStep
  <2> QED
    BY <2>2, <2>3
<1>6. CASE Created(c)
  <2>1. cat[c] = "created" /\ CMove(c, "idle", cloc[c])
    BY <1>1, <1>6, ClientCreate
  <2>2. \A d \in Client : d = c \/ cat[d] = "idle"
    BY <1>2, <2>1 DEF Phase, Alone, Ext
  <2> QED
    BY <1>1, <2>1, <2>2, PhaseStep DEF Phase
<1>7. CASE ExtendRefused(c)
  BY <1>1, <1>2, <1>3, <1>7, ClientExtend, PhaseStep DEF Phase, Ext, ExtendRefused
<1>8. CASE ExtendCount(c)
  BY <1>1, <1>2, <1>3, <1>8, ClientExtend, PhaseStep DEF Phase, Ext, ExtendCount
<1>9. CASE ExtendNoMem(c)
  BY <1>1, <1>2, <1>3, <1>9, ClientExtend, PhaseStep DEF Phase, Ext, ExtendNoMem
<1>10. CASE ExtendLink(c)
  <2>1. PICK e \in Ent : LinkGo(c, e) /\ Linked(c, e)
    BY <1>1, <1>10, LinkTable
  <2>2. cat[c] = "create"
    BY <1>1, <2>1, KindFacts, ViewTypes DEF LinkGo, PCs
  <2>3. /\ Moves(c, "setrun", EntLoc(c, e)) /\ life' = life
        /\ EntLoc(c, e).ret = cloc[c].ret
    BY <1>3, <2>1 DEF LinkGo, Linked, EntLoc, LocType
  <2> QED
    BY <1>1, <1>2, <2>2, <2>3, PhaseStep DEF Phase, Ext
<1>11. CASE ExtendStart(c)
  <2>1. PICK e \in Ent : StartGo(c, e)
    BY <1>1, <1>11, StartTable
  <2>2. cat[c] = "setrun"
    BY <1>1, <2>1, KindFacts, ViewTypes DEF StartGo, PCs
  <2>3. Moves(c, cloc[c].ret, EntLoc(c, NULL)) /\ life' = life
    BY <1>1, <1>3, <1>11, <2>1, StartTable DEF StartGo, ExtendRet
  <2> QED
    BY <1>1, <1>2, <2>2, <2>3, PhaseStep DEF Phase, Ext
<1>12. ASSUME NEW t \in Task, NEW f \in DispatchFlags, taskq_dispatch(c, t, f) PROVE PhaseOK'
  <2>1. life = "live" /\ life' = life
    BY <1>12 DEF taskq_dispatch
  <2> QED
    BY <1>1, <1>12, <2>1, ClientDispatch, PhaseStep DEF Phase
<1>13. CASE taskq_bucket_dispatch(c)
  <2>1. life = "live" /\ life' = life
    BY <1>1, <1>2, <1>13, ClientDispatch DEF taskq_bucket_dispatch, Phase, Ext
  <2> QED
    BY <1>1, <1>13, <2>1, ClientDispatch, PhaseStep DEF Phase
<1>14. CASE BucketMiss(c)
  <2>1. life = "live" /\ life' = life
    BY <1>1, <1>2, <1>14, ClientDispatch DEF BucketMiss, Phase, Ext
  <2>2. ExtendLoc(c).ret = "retry"
    BY <1>3 DEF ExtendLoc, LocType
  <2> QED
    BY <1>1, <1>14, <2>1, <2>2, ClientDispatch, PhaseStep DEF Phase, Ext
<1>15. CASE AllocUnlock(c)
  BY <1>1, <1>2, <1>15, ClientAlloc, PhaseStep DEF Phase, Ext, AllocUnlock
<1>16. CASE kmem_cache_alloc(c)
  BY <1>1, <1>2, <1>16, ClientAlloc, PhaseStep DEF Phase, Ext, kmem_cache_alloc
<1>17. CASE NextEntStep(c)
  <2>1. life = "live"
    BY <1>1, <1>2, <1>17, NextEntTable DEF Phase, Ext
  <2>2. life' = life
    BY <1>17 DEF NextEntStep, FromFreelist, EnqueueNew, AllocFailed, TQ_ENQUEUE
  <2> QED
    BY <1>1, <1>17, <2>1, <2>2, NextEntTable, PhaseStep DEF Phase
<1>18. CASE taskq_wait(c)
  <2>1. RetLoc(c, "waited").ret = "waited" /\ life = "live" /\ life' = life
    BY <1>3, <1>18 DEF RetLoc, LocType, taskq_wait
  <2> QED
    BY <1>1, <1>18, <2>1, ClientWait, PhaseStep DEF Phase
<1>19. CASE taskq_destroy(c)
  <2>1. RetLoc(c, "deactivate").ret = "deactivate" /\ life' = "closing"
    BY <1>3, <1>19 DEF RetLoc, LocType, taskq_destroy
  <2>2. \A d \in Client : cat[d] = "idle"
    BY <1>1, <1>19, KindFacts, ViewTypes DEF taskq_destroy, PCs
  <2> QED
    BY <1>1, <1>19, <2>1, <2>2, ClientWait, PhaseStep DEF Phase
<1>20. CASE WaitList(c)
  <2>1. cat[c] = "wait" /\ life' = life
    BY <1>1, <1>20, ClientWait DEF WaitList
  <2>2. \/ CMove(c, "wait", cloc[c]) \/ CMove(c, cloc[c].ret, cloc[c]) \/ CMove(c, "bwait", AtLoc(c, 1))
    BY <1>1, <1>20, ClientWait
  <2>3. AtLoc(c, 1).ret = cloc[c].ret
    BY <1>3 DEF AtLoc, LocType
  <2> QED
    BY <1>1, <1>2, <2>1, <2>2, <2>3, PhaseStep DEF Phase, Ext
<1>21. CASE WaitBucket(c)
  <2>1. cat[c] = "bwait" /\ life' = life
    BY <1>1, <1>21, ClientWait DEF WaitBucket
  <2>2. \/ CMove(c, "bwait", cloc[c]) \/ CMove(c, cloc[c].ret, cloc[c])
        \/ CMove(c, "bwait", AtLoc(c, cloc[c].i + 1))
    BY <1>1, <1>21, ClientWait
  <2>3. AtLoc(c, cloc[c].i + 1).ret = cloc[c].ret
    BY <1>3 DEF AtLoc, LocType
  <2> QED
    BY <1>1, <1>2, <2>1, <2>2, <2>3, PhaseStep DEF Phase, Ext
<1>22. CASE Waited(c)
  BY <1>1, <1>2, <1>22, ClientWait, PhaseStep DEF Phase, Ext, Waited
<1>23. CASE taskq_suspend(c)
  BY <1>1, <1>2, <1>23, ClientSuspend, PhaseStep DEF Phase, Ext, taskq_suspend
<1>24. CASE SuspendBucket(c)
  BY <1>1, <1>2, <1>24, ClientSuspend, PhaseStep DEF Phase, Ext, SuspendBucket
<1>25. CASE Suspended(c)
  BY <1>1, <1>2, <1>25, ClientSuspend, PhaseStep DEF Phase, Ext, Suspended
<1>26. CASE taskq_resume(c)
  BY <1>1, <1>2, <1>26, ClientSuspend, PhaseStep DEF Phase, Ext, taskq_resume
<1>27. CASE ResumeBucket(c)
  BY <1>1, <1>2, <1>27, ClientSuspend, PhaseStep DEF Phase, Ext, ResumeBucket
<1>28. CASE Resumed(c)
  BY <1>1, <1>2, <1>28, ClientSuspend, PhaseStep DEF Phase, Ext, Resumed
<1>29. CASE Deactivate(c)
  BY <1>1, <1>2, <1>29, ClientDestroy, PhaseStep DEF Phase, Ext, Deactivate
<1>30. CASE Join(c)
  BY <1>1, <1>2, <1>30, ClientDestroy, PhaseStep DEF Phase, Ext, Join
<1>31. CASE Drain(c)
  BY <1>1, <1>2, <1>31, ClientDestroy, PhaseStep DEF Phase, Ext, Drain
<1>32. CASE CloseBucket(c)
  BY <1>1, <1>2, <1>32, ClientDestroy, PhaseStep DEF Phase, Ext, CloseBucket
<1>33. CASE JoinBucket(c)
  BY <1>1, <1>2, <1>33, ClientDestroy, PhaseStep DEF Phase, Ext, JoinBucket
<1>34. CASE Free(c)
  <2>1. cat[c] = "free" /\ CMove(c, "idle", NoLocals)
    BY <1>1, <1>34, ClientDestroy
  <2>2. \A d \in Client : d = c \/ cat[d] = "idle"
    BY <1>2, <2>1 DEF Phase, Alone, Ext
  <2> QED
    BY <1>1, <2>1, <2>2, PhaseStep DEF Phase
<1> QED
  BY <1>4, <1>5, <1>6, <1>7, <1>8, <1>9, <1>10, <1>11, <1>12, <1>13, <1>14, <1>15, <1>16, <1>17,
     <1>18, <1>19, <1>20, <1>21, <1>22, <1>23, <1>24, <1>25, <1>26, <1>27, <1>28, <1>29, <1>30,
     <1>31, <1>32, <1>33, <1>34
  DEF Call, ClientStep, taskq_bucket_extend, taskq_ent_alloc, NextEntStep

----------------------------------------------------------------------------
(* Steps of clients: their tasks *)

\* What is next to be enqueued.
TodoCases(c) ==
    LET t == cloc[c].task
        s == cloc[c].todo
    IN \/ Head(s) \in Bucket /\ Dynamic /\ Len(s) = 1
       \/ Head(s) = t /\ status[t] = "called" /\ Len(s) = 1
       \/ Head(s) \in Bucket /\ Dynamic /\ Len(s) = 2 /\ Tail(s) = <<t>> /\ status[t] = "called"

\* What is left to enqueue has one or two elements, the task the last.
LEMMA TodoFacts ==
  ASSUME NEW c \in Client, TodoOK(c)
  PROVE  TodoCases(c)
<1>1. ASSUME NEW b PROVE Head(<<b>>) = b /\ Len(<<b>>) = 1
  OBVIOUS
<1>2. ASSUME NEW b, NEW t PROVE Head(<<b, t>>) = b /\ Len(<<b, t>>) = 2 /\ Tail(<<b, t>>) = <<t>>
  OBVIOUS
<1>3. CASE \E b \in Bucket : Dynamic /\ cloc[c].todo = <<b>>
  BY <1>1, <1>3 DEF TodoCases
<1>4. CASE status[cloc[c].task] = "called" /\ cloc[c].todo = <<cloc[c].task>>
  BY <1>1, <1>4 DEF TodoCases
<1>5. CASE \E b \in Bucket : /\ Dynamic /\ status[cloc[c].task] = "called"
                             /\ cloc[c].todo = <<b, cloc[c].task>>
  BY <1>2, <1>5 DEF TodoCases
<1> QED
  BY <1>3, <1>4, <1>5 DEF TodoOK

\* An entry is enqueued, and a sleeping worker is woken for it.
Enqueue(c) == FromFreelist(c) \/ EnqueueNew(c)

\* What becomes of the task when an entry is enqueued, or was not to be had.
LEMMA EnqueueStatus ==
  ASSUME Typ, LocalsOK, NEW c \in Client, NextEntStep(c)
  PROVE  LET t == cloc[c].task
             h == Head(cloc[c].todo)
             n == Len(cloc[c].todo)
         IN /\ t \in Task /\ TodoCases(c)
            /\ \A u \in Task : u # t => status'[u] = status[u]
            /\ status[t] # "called" => status'[t] = status[t]
            /\ n # 1 => status' = status
            /\ n = 1 /\ h = t /\ Enqueue(c) => status'[t] = "queued"
            /\ n = 1 /\ (h # t \/ AllocFailed(c)) /\ status[t] = "called" => status'[t] = "refused"
<1>1. /\ cloc[c] = loc[c] /\ cat[c] \in {"ent_alloc", "kmem", "enqueue"} /\ Enqueuing(c)
      /\ status \in [Task -> {"new", "called", "refused", "queued", "running", "done"}]
  BY ViewTypes, NextEntTable DEF Typ
<1>2. cloc[c].task \in Task /\ TodoCases(c)
  BY <1>1, TodoFacts DEF LocalsOK
<1>3. \A t \in Task : t \notin Bucket
  BY TaskqAssumption
<1>4. CASE AllocFailed(c)
  <2>1. /\ Len(loc[c].todo) = 1 =>
             status' = [t \in Task |-> IF t = loc[c].task /\ status[t] = "called"
                                       THEN "refused" ELSE status[t]]
        /\ Len(loc[c].todo) # 1 => status' = status
    BY <1>4 DEF AllocFailed, NextEnt
  <2>2. ~Enqueue(c)
    BY <1>4 DEF AllocFailed, Enqueue, FromFreelist, EnqueueNew
  <2> QED
    BY <1>1, <1>2, <2>1, <2>2
<1>5. CASE Enqueue(c)
  <2> DEFINE st == [t \in Task |-> IF t = Head(loc[c].todo) THEN "queued" ELSE status[t]]
  <2>1. /\ Len(loc[c].todo) = 1 =>
             status' = [t \in Task |-> IF t = loc[c].task /\ st[t] = "called" THEN "refused" ELSE st[t]]
        /\ Len(loc[c].todo) # 1 => status' = st
    BY <1>5 DEF Enqueue, FromFreelist, EnqueueNew, TQ_ENQUEUE, NextEnt
  <2>2. ~AllocFailed(c)
    BY <1>5 DEF AllocFailed, Enqueue, FromFreelist, EnqueueNew
  <2>3. CASE Head(cloc[c].todo) \in Bucket
    <3>1. st = status
      BY <1>1, <1>3, <2>3
    <3> QED
      BY <1>1, <1>2, <1>3, <2>1, <2>2, <2>3, <3>1
  <2>4. CASE Head(cloc[c].todo) = cloc[c].task /\ Len(cloc[c].todo) = 1
    <3>1. \A t \in Task : st[t] = IF t = cloc[c].task THEN "queued" ELSE status[t]
      BY <1>1, <2>4
    <3>2. \A t \in Task : status'[t] = IF t = cloc[c].task /\ st[t] = "called" THEN "refused" ELSE st[t]
      BY <1>1, <2>1, <2>4
    <3>3. \A t \in Task : status'[t] = IF t = cloc[c].task THEN "queued" ELSE status[t]
      BY <3>1, <3>2
    <3> HIDE DEF st
    <3> QED
      BY <1>1, <1>2, <1>3, <2>2, <2>4, <3>3 DEF TodoCases
  <2> QED
    BY <1>2, <2>3, <2>4 DEF TodoCases
<1> QED
  BY <1>4, <1>5 DEF NextEntStep, Enqueue

\* A client changes the state of no task but its own, forwards.
OwnOnly(c) == \A t \in Task : \/ status'[t] = status[t]
                              \/ status[t] = "new" /\ status'[t] = "called"
                              \/ /\ t = cloc[c].task /\ status[t] = "called"
                                 /\ status'[t] \in {"queued", "refused"}
ClientSteps(c) == Call(c) \/ ClientStep(c)

\* No client makes a static queue dynamic, or touches the task of another.
LEMMA ClientKeeps ==
  ASSUME Inv, NEW c \in Client, ClientSteps(c), ~taskq_create(c)
  PROVE  Dynamic' = Dynamic /\ OwnOnly(c)
<1>1. Typ /\ LocalsOK
  BY DEF Inv
<1>2. /\ tq \in TqType /\ cloc[c] = loc[c] /\ cloc[c].task \in Task \cup {NULL}
      /\ status \in [Task -> {"new", "called", "refused", "queued", "running", "done"}]
  BY <1>1, ViewTypes DEF Typ, LocType
<1>4. CASE NextEntStep(c)
  <2>1. OwnOnly(c)
    <3>1. /\ cloc[c].task \in Task /\ \A u \in Task : u # cloc[c].task => status'[u] = status[u]
          /\ status[cloc[c].task] # "called" => status'[cloc[c].task] = status[cloc[c].task]
          /\ status'[cloc[c].task] \in {status[cloc[c].task], "queued", "refused"}
      BY <1>1, <1>4, EnqueueStatus DEF NextEntStep, Enqueue
    <3> QED
      BY <1>2, <3>1 DEF OwnOnly
  <2>2. tq'.flags = tq.flags
    BY <1>2, <1>4 DEF NextEntStep, FromFreelist, EnqueueNew, AllocFailed, TQ_ENQUEUE, TqType
  <2> QED
    BY <2>1, <2>2 DEF Dynamic
<1>5. ASSUME NEW t \in Task, NEW f \in DispatchFlags, taskq_dispatch(c, t, f) PROVE Dynamic' = Dynamic /\ OwnOnly(c)
  BY <1>2, <1>5 DEF taskq_dispatch, OwnOnly, Dynamic
<1>6. CASE taskq_bucket_dispatch(c)
  <2>1. Searching(c)
    BY <1>1, <1>6, ClientDispatch DEF Searching
  <2>2. cloc[c].task \in Task /\ status[cloc[c].task] = "called"
    BY <1>1, <2>1 DEF LocalsOK
  <2> QED
    BY <1>2, <1>6, <2>2 DEF taskq_bucket_dispatch, OwnOnly, Dynamic
<1>7. CASE \/ Suspended(c) \/ Resumed(c) \/ Deactivate(c)
  <2>1. status' = status
    BY <1>7 DEF Suspended, Resumed, Deactivate
  <2>2. "DYNAMIC" \in tq'.flags <=> "DYNAMIC" \in tq.flags
    <3>1. \/ tq'.flags = tq.flags \cup {"SUSPENDED"} \/ tq'.flags = tq.flags \ {"SUSPENDED"}
          \/ tq'.flags = tq.flags \ {"ACTIVE"}
      BY <1>2, <1>7 DEF Suspended, Resumed, Deactivate, TqType
    <3> QED
      BY <3>1
  <2> QED
    BY <2>1, <2>2 DEF Dynamic, OwnOnly
<1>8. CASE \/ ExtendCount(c) \/ ExtendNoMem(c) \/ taskq_suspend(c) \/ Join(c) \/ Drain(c) \/ Free(c)
  <2>1. status' = status
    BY <1>8 DEF ExtendCount, ExtendNoMem, taskq_suspend, Join, Drain, Free
  <2>2. tq'.flags = tq.flags
    BY <1>2, <1>8 DEF ExtendCount, ExtendNoMem, taskq_suspend, Join, Drain, Free, TqType
  <2> QED
    BY <2>1, <2>2 DEF Dynamic, OwnOnly
<1>9. CASE \/ Populate(c) \/ Created(c) \/ ExtendRefused(c) \/ ExtendLink(c) \/ ExtendStart(c)
           \/ BucketMiss(c) \/ AllocUnlock(c) \/ kmem_cache_alloc(c) \/ taskq_wait(c)
           \/ taskq_destroy(c) \/ WaitList(c) \/ WaitBucket(c) \/ Waited(c) \/ SuspendBucket(c)
           \/ taskq_resume(c) \/ ResumeBucket(c) \/ CloseBucket(c) \/ JoinBucket(c)
  <2>1. tq' = tq /\ status' = status
    BY <1>9 DEF Populate, Created, ExtendRefused, ExtendLink, ExtendStart, BucketMiss,
       AllocUnlock, kmem_cache_alloc, taskq_wait, taskq_destroy, WaitList, WaitBucket, Waited,
       SuspendBucket, taskq_resume, ResumeBucket, CloseBucket, JoinBucket
  <2> QED
    BY <2>1 DEF Dynamic, OwnOnly
<1> QED
  BY <1>4, <1>5, <1>6, <1>7, <1>8, <1>9
  DEF ClientSteps, Call, ClientStep, taskq_bucket_extend, taskq_ent_alloc, NextEntStep

\* What must hold of the locals r of a client that has come to k.
TodoNew(r) ==
    \/ \E b \in Bucket : Dynamic' /\ r.todo = <<b>>
    \/ status'[r.task] = "called" /\ r.todo = <<r.task>>
    \/ \E b \in Bucket : Dynamic' /\ status'[r.task] = "called" /\ r.todo = <<b, r.task>>
LocalsNew(k, r) ==
    /\ k \in {"idle", "created"} => r = NoLocals
    /\ k = "populate" => Dynamic'
    /\ k \in Ext \cup {"hash", "search", "retry"} => Dynamic' /\ r.bucket \in Bucket
    /\ k \in {"bwait", "close", "bjoin"} => Dynamic' /\ r.i \in Bucket
    /\ k \in {"hash", "search", "retry"} \/ (k \in Ext /\ r.ret = "retry") =>
         r.task \in Task /\ status'[r.task] = "called"
    /\ k \in {"ent_alloc", "kmem", "enqueue"} => r.task \in Task /\ TodoNew(r)
TaskNew(c, t) == \/ t = NULL \/ t = cloc[c].task
                 \/ t \in Task /\ status[t] = "new" /\ status'[t] = "called"
Moved(c, k, r) == /\ CMove(c, k, r) \/ Moves(c, k, r)
                  /\ k \in PCs /\ r \in LocType /\ loc' = [loc EXCEPT ![c] = r]
                  /\ LocalsNew(k, r) /\ TaskNew(c, r.task)

\* A client that moves with fitting locals leaves the locals of all in order.
LEMMA MovedLocals ==
  ASSUME Inv, NEW c \in Client, OwnOnly(c), Dynamic' = Dynamic, NEW k, NEW r, Moved(c, k, r)
  PROVE  LocalsOK' /\ OwnTask'
<1>1. Typ /\ LocalsOK /\ OwnTask
  BY DEF Inv
<1>2. /\ cat' = [cat EXCEPT ![c] = k] /\ cloc' = [cloc EXCEPT ![c] = r]
      /\ cat \in [Client -> PCs] /\ cloc \in [Client -> LocType]
  BY <1>1, ViewTypes DEF Moved, CMove, Moves
<1>3. /\ cat'[c] = k /\ cloc'[c] = r
      /\ \A d \in Client : d # c => cat'[d] = cat[d] /\ cloc'[d] = cloc[d]
      /\ \A d \in Client : cloc[d].task \in Task \cup {NULL}
      /\ r.task \in Task \cup {NULL} /\ NULL \notin Task
  BY <1>2, TaskqAssumption DEF Moved, LocType
<1>4. /\ \A t \in Task : status[t] # "new" => status'[t] # "new"
      /\ \A d \in Client : d # c /\ cloc[d].task \in Task /\ status[cloc[d].task] = "called" =>
           status'[cloc[d].task] = "called"
  BY <1>1, <1>3 DEF OwnOnly, OwnTask
<1>5. ASSUME NEW d \in Client, d # c, cloc[d].task \in Task, TodoOK(d) PROVE TodoOK(d)'
  <2>1. cloc'[d] = cloc[d] /\ (status[cloc[d].task] = "called" => status'[cloc[d].task] = "called")
    BY <1>3, <1>4, <1>5
  <2> QED
    BY <1>5, <2>1 DEF TodoOK
<1>6. LocalsNew(k, r) /\ TaskNew(c, r.task)
  BY DEF Moved
<1>7. TodoNew(r) => TodoOK(c)'
  BY <1>3 DEF TodoNew, TodoOK
<1>8. LocalsOK'
  <2>1. ASSUME NEW d \in Client, d # c
        PROVE  /\ cat'[d] \in {"idle", "created"} => cloc'[d] = NoLocals
               /\ cat'[d] = "populate" => Dynamic'
               /\ cat'[d] \in Ext \cup {"hash", "search", "retry"} => Dynamic' /\ cloc'[d].bucket \in Bucket
               /\ cat'[d] \in {"bwait", "close", "bjoin"} => Dynamic' /\ cloc'[d].i \in Bucket
               /\ Searching(d)' => cloc'[d].task \in Task /\ status'[cloc'[d].task] = "called"
               /\ Enqueuing(d)' => cloc'[d].task \in Task /\ TodoOK(d)'
    <3>1. Searching(d)' = Searching(d) /\ Enqueuing(d)' = Enqueuing(d)
      BY <1>3, <2>1 DEF Searching, Enqueuing
    <3>2. cat'[d] = cat[d] /\ cloc'[d] = cloc[d]
      BY <1>3, <2>1
    <3> QED
      BY <1>1, <1>4, <1>5, <2>1, <3>1, <3>2 DEF LocalsOK
  <2>2. /\ cat'[c] \in {"idle", "created"} => cloc'[c] = NoLocals
        /\ cat'[c] = "populate" => Dynamic'
        /\ cat'[c] \in Ext \cup {"hash", "search", "retry"} => Dynamic' /\ cloc'[c].bucket \in Bucket
        /\ cat'[c] \in {"bwait", "close", "bjoin"} => Dynamic' /\ cloc'[c].i \in Bucket
        /\ Searching(c)' => cloc'[c].task \in Task /\ status'[cloc'[c].task] = "called"
        /\ Enqueuing(c)' => cloc'[c].task \in Task /\ TodoOK(c)'
    BY <1>3, <1>6, <1>7 DEF LocalsNew, Searching, Enqueuing
  <2> QED
    BY <2>1, <2>2 DEF LocalsOK
<1>9. OwnTask'
  <2>1. \A d \in Client : cloc'[d].task # NULL => status'[cloc'[d].task] # "new"
    BY <1>1, <1>3, <1>4, <1>6 DEF OwnTask, TaskNew
  <2>2. ASSUME NEW d \in Client, d # c, cloc'[c].task # NULL, cloc'[c].task = cloc'[d].task PROVE FALSE
    BY <1>1, <1>3, <1>6, <2>2 DEF OwnTask, TaskNew
  <2>3. ASSUME NEW d \in Client, NEW e \in Client, d # c, e # c,
               cloc'[d].task # NULL, cloc'[d].task = cloc'[e].task PROVE d = e
    BY <1>1, <1>3, <2>3 DEF OwnTask
  <2> QED
    BY <2>1, <2>2, <2>3 DEF OwnTask
<1> QED
  BY <1>8, <1>9

\* Two short lists in one.
LEMMA ShortConcat ==
  \A x, y : <<x>> \o <<>> = <<x>> /\ <<x>> \o <<y>> = <<x, y>>
<1>1. ASSUME NEW x, NEW y PROVE <<x>> \o <<y>> = <<x, y>>
  <2>1. <<x>> \in Seq({x, y}) /\ <<y>> \in Seq({x, y}) /\ <<x, y>> \in Seq({x, y})
    OBVIOUS
  <2>2. /\ <<x>> \o <<y>> \in Seq({x, y}) /\ Len(<<x>> \o <<y>>) = 2
        /\ (<<x>> \o <<y>>)[1] = x /\ (<<x>> \o <<y>>)[2] = y
    BY <2>1, ConcatProperties
  <2>3. Len(<<x, y>>) = 2 /\ <<x, y>>[1] = x /\ <<x, y>>[2] = y
    OBVIOUS
  <2>4. \A i \in 1..2 : (<<x>> \o <<y>>)[i] = <<x, y>>[i]
    BY <2>2, <2>3
  <2> QED
    BY <2>1, <2>2, <2>3, <2>4, SeqEqual
<1>2. ASSUME NEW x PROVE <<x>> \o <<>> = <<x>>
  <2>1. <<x>> \in Seq({x})
    OBVIOUS
  <2> QED
    BY <2>1, ConcatEmptySeq
<1> QED
  BY <1>1, <1>2

\* Short lists of what to do.
LEMMA ShortSeqs ==
  /\ <<>> \in Seq(Task \cup Bucket)
  /\ \A x \in Task \cup Bucket : <<x>> \in Seq(Task \cup Bucket)
  /\ \A x, y \in Task \cup Bucket : <<x, y>> \in Seq(Task \cup Bucket)
<1>1. <<>> \in Seq(Task \cup Bucket)
  OBVIOUS
<1>2. \A x \in Task \cup Bucket : <<x>> \in Seq(Task \cup Bucket)
  OBVIOUS
<1>3. \A x, y \in Task \cup Bucket : <<x, y>> \in Seq(Task \cup Bucket)
  OBVIOUS
<1> QED
  BY <1>1, <1>2, <1>3

\* Locals with something else to do are locals.
LEMMA TodoLocs ==
  ASSUME NEW r \in LocType, NEW q \in Seq(Task \cup Bucket)
  PROVE  /\ [r EXCEPT !.todo = q] \in LocType
         /\ [r EXCEPT !.todo = q].todo = q /\ [r EXCEPT !.todo = q].task = r.task
         /\ [r EXCEPT !.todo = q].bucket = r.bucket /\ [r EXCEPT !.todo = q].ret = r.ret
BY DEF LocType

\* Also at another index.
LEMMA IndexLocs ==
  ASSUME NEW r \in LocType, NEW n \in Nat, NEW q \in Seq(Task \cup Bucket)
  PROVE  /\ [r EXCEPT !.i = n, !.todo = q] \in LocType
         /\ [r EXCEPT !.i = n, !.todo = q].task = r.task
         /\ [r EXCEPT !.i = n, !.todo = q].bucket = r.bucket
BY DEF LocType

\* And with a return to the search.
LEMMA RetryLocs ==
  ASSUME NEW r \in LocType, NEW q \in Seq(Task \cup Bucket)
  PROVE  /\ [r EXCEPT !.i = 0, !.ret = "retry", !.todo = q] \in LocType
         /\ [r EXCEPT !.i = 0, !.ret = "retry", !.todo = q].task = r.task
         /\ [r EXCEPT !.i = 0, !.ret = "retry", !.todo = q].bucket = r.bucket
BY DEF LocType

\* Every step of a client, but for the creation of the queue, is such a move.
LEMMA ClientMoves ==
  ASSUME Inv, NEW c \in Client, ClientSteps(c), ~taskq_create(c)
  PROVE  \E k, r : Moved(c, k, r)
<1>1. /\ Typ /\ LocalsOK /\ PhaseOK /\ SetrunOK
      /\ Phase(life, cat[c], cloc[c])
      /\ Dynamic' = Dynamic /\ OwnOnly(c)
  BY ClientKeeps, PhaseDef DEF Inv, InPhase
<1>2. /\ cloc[c] \in LocType /\ cloc[c] = loc[c] /\ c \notin Worker
      /\ cat[c] \in PCs /\ cloc[c].ret \in PCs /\ cloc[c].i \in Nat
      /\ cloc[c].task \in Task \cup {NULL} /\ cloc[c].bucket \in Bucket \cup {NULL}
  BY <1>1, ViewTypes, Threads, RetKinds DEF LocType
<1>3. NoLocals \in LocType /\ NoLocals.task = NULL
  BY DEF NoLocals, LocType
<1>4. 1 \in Bucket /\ NBuckets \in Nat /\ \A i \in Nat : i < NBuckets => i + 1 \in Bucket
  BY TaskqAssumption DEF Bucket
<1>5. \A k \in PCs, r \in LocType : CGo(c, k, r) /\ LocalsNew(k, r) /\ TaskNew(c, r.task) => Moved(c, k, r)
  BY DEF CGo, Moved
<1>6. \A k : k \in {"idle", "suspend", "suspended", "resume", "wait", "waited", "deactivate", "join", "drain", "free"}
        => k \in PCs /\ \A r \in LocType : (k = "idle" => r = NoLocals) => LocalsNew(k, r)
  BY DEF LocalsNew, PCs, Ext
<1>7. /\ TaskNew(c, NULL) /\ TaskNew(c, cloc[c].task)
      /\ \A i \in Nat : AtLoc(c, i) \in LocType /\ AtLoc(c, i).task = cloc[c].task /\ AtLoc(c, i).i = i
      /\ \A l \in {"waited", "deactivate"} : RetLoc(c, l) \in LocType /\ RetLoc(c, l).task = cloc[c].task
  BY <1>2 DEF TaskNew, AtLoc, RetLoc, LocType
<1>8. \A k \in {"extend", "create", "populate", "retry", "hash", "search", "ent_alloc", "kmem", "enqueue", "bwait",
                "close", "bjoin", "created"} : k \in PCs
  BY DEF PCs
<1>9. CASE Populate(c)
  <2>1. cat[c] = "populate" /\ Dynamic
    BY <1>1, <1>9, ClientCreate DEF LocalsOK
  <2>2. CASE cloc[c].i + 1 > NBuckets
    <3>1. CGo(c, "created", NoLocals)
      BY <1>1, <1>9, <2>2, ClientCreate
    <3>2. LocalsNew("created", NoLocals)
      BY DEF LocalsNew, Ext
    <3> QED
      BY <1>3, <1>5, <1>7, <1>8, <3>1, <3>2
  <2>3. CASE ~(cloc[c].i + 1 > NBuckets)
    <3>1. CGo(c, "extend", PopulateLoc(c))
      BY <1>1, <1>9, <2>3, ClientCreate
    <3>2. cloc[c].i + 1 \in Bucket /\ cloc[c].i + 1 \in Nat
      BY <1>2, <1>4, <2>3
    <3>3. /\ PopulateLoc(c) \in LocType /\ PopulateLoc(c).task = cloc[c].task
          /\ PopulateLoc(c).bucket \in Bucket /\ PopulateLoc(c).ret = "populate"
      BY <1>2, <3>2 DEF PopulateLoc, LocType
    <3>4. LocalsNew("extend", PopulateLoc(c))
      BY <1>1, <2>1, <3>3 DEF LocalsNew, Ext
    <3> QED
      BY <1>5, <1>7, <1>8, <3>1, <3>3, <3>4
  <2> QED
    BY <2>2, <2>3
<1>10. CASE Created(c)
  <2>1. cat[c] = "created" /\ CGo(c, "idle", cloc[c])
    BY <1>1, <1>10, ClientCreate
  <2>2. cloc[c] = NoLocals
    BY <1>1, <2>1 DEF LocalsOK
  <2> QED
    BY <1>3, <1>5, <1>6, <1>7, <2>1, <2>2
<1>11. ASSUME cat[c] \in Ext
       PROVE  /\ \A r \in LocType : r.ret = cloc[c].ret /\ r.bucket = cloc[c].bucket /\ r.task = cloc[c].task
                                    /\ status' = status =>
                   /\ LocalsNew("create", r) /\ LocalsNew("setrun", r) /\ LocalsNew(cloc[c].ret, r)
              /\ cloc[c].ret \in {"populate", "retry"}
  <2>1. cloc[c].bucket \in Bucket /\ Dynamic /\ cloc[c].ret \in {"populate", "retry"}
    BY <1>1, <1>11 DEF LocalsOK, Phase, Ext
  <2>2. cloc[c].ret = "retry" => cloc[c].task \in Task /\ status[cloc[c].task] = "called"
    BY <1>1, <1>11 DEF LocalsOK, Searching
  <2> QED
    BY <1>1, <2>1, <2>2 DEF LocalsNew, Ext
<1>12. CASE ExtendRefused(c)
  <2>1. cat[c] = "extend" /\ CGo(c, cloc[c].ret, cloc[c]) /\ status' = status
    BY <1>1, <1>12, ClientExtend DEF ExtendRefused
  <2> QED
    BY <1>2, <1>5, <1>7, <1>11, <2>1 DEF Ext
<1>13. CASE ExtendCount(c)
  <2>1. cat[c] = "extend" /\ CGo(c, "create", cloc[c]) /\ status' = status
    BY <1>1, <1>13, ClientExtend DEF ExtendCount
  <2> QED
    BY <1>2, <1>5, <1>7, <1>8, <1>11, <2>1 DEF Ext
<1>14. CASE ExtendNoMem(c)
  <2>1. cat[c] = "create" /\ CGo(c, cloc[c].ret, cloc[c]) /\ status' = status
    BY <1>1, <1>14, ClientExtend DEF ExtendNoMem
  <2> QED
    BY <1>2, <1>5, <1>7, <1>11, <2>1 DEF Ext
<1>15. CASE ExtendLink(c)
  <2>1. PICK e \in Ent : LinkGo(c, e) /\ Linked(c, e) /\ loc' = [loc EXCEPT ![c] = EntLoc(c, e)]
    BY <1>1, <1>15, LinkTable
  <2>2. cat[c] = "create" /\ Moves(c, "setrun", EntLoc(c, e)) /\ status' = status /\ "setrun" \in PCs
    BY <1>1, <2>1, KindFacts, ViewTypes DEF LinkGo, Linked, PCs
  <2>3. /\ EntLoc(c, e) \in LocType /\ EntLoc(c, e).ret = cloc[c].ret
        /\ EntLoc(c, e).bucket = cloc[c].bucket /\ EntLoc(c, e).task = cloc[c].task
    BY <1>2 DEF EntLoc, LocType
  <2>4. LocalsNew("setrun", EntLoc(c, e))
    BY <1>11, <2>2, <2>3 DEF Ext
  <2>5. Moved(c, "setrun", EntLoc(c, e))
    BY <1>7, <2>1, <2>2, <2>3, <2>4 DEF Moved
  <2> QED
    BY <2>5
<1>16. CASE ExtendStart(c)
  <2>1. PICK e \in Ent : StartGo(c, e) /\ loc' = [loc EXCEPT ![c] = EntLoc(c, NULL)]
    BY <1>1, <1>16, StartTable
  <2>2. cat[c] = "setrun" /\ Moves(c, cloc[c].ret, EntLoc(c, NULL)) /\ status' = status
    <3>1. cat[c] = "setrun"
      BY <1>1, <2>1, KindFacts, ViewTypes DEF StartGo, PCs
    <3>2. status' = status
      BY <1>16 DEF ExtendStart
    <3> QED
      BY <1>2, <2>1, <3>1, <3>2 DEF StartGo, ExtendRet
  <2>3. /\ EntLoc(c, NULL) \in LocType /\ EntLoc(c, NULL).ret = cloc[c].ret
        /\ EntLoc(c, NULL).bucket = cloc[c].bucket /\ EntLoc(c, NULL).task = cloc[c].task
    BY <1>2 DEF EntLoc, LocType
  <2>4. LocalsNew(cloc[c].ret, EntLoc(c, NULL))
    BY <1>11, <2>2, <2>3 DEF Ext
  <2>5. Moved(c, cloc[c].ret, EntLoc(c, NULL))
    BY <1>2, <1>7, <2>1, <2>2, <2>3, <2>4 DEF Moved
  <2> QED
    BY <2>5
<1>17. ASSUME NEW t \in Task, NEW f \in DispatchFlags, taskq_dispatch(c, t, f)
       PROVE  \E k, r : Moved(c, k, r)
  <2>1. /\ status[t] = "new" /\ status'[t] = "called" /\ cat[c] = "idle"
        /\ f \in SUBSET {"NOSLEEP", "NOALLOC", "NOQUEUE"}
    <3>1. cat[c] = "idle"
      BY <1>1, <1>17, ClientDispatch
    <3>2. f \in SUBSET {"NOSLEEP", "NOALLOC", "NOQUEUE"}
      BY TaskqAssumption
    <3> QED
      BY <1>1, <1>17, <3>1, <3>2 DEF taskq_dispatch, Typ
  <2>2. CASE Dynamic
    <3>1. PICK h \in Bucket : CGo(c, "hash", HashLoc(c, t, f, h))
      BY <1>1, <1>17, <2>2, ClientDispatch
    <3>2. /\ HashLoc(c, t, f, h) \in LocType /\ HashLoc(c, t, f, h).task = t
          /\ HashLoc(c, t, f, h).bucket = h
      BY <1>2, <2>1 DEF HashLoc, LocType
    <3>3. LocalsNew("hash", HashLoc(c, t, f, h)) /\ TaskNew(c, t)
      BY <1>1, <2>1, <2>2, <3>2 DEF LocalsNew, Ext, TaskNew
    <3> QED
      BY <1>5, <1>8, <3>1, <3>2, <3>3
  <2>3. CASE ~Dynamic
    <3>1. CGo(c, "ent_alloc", ListLoc(c, t, f))
      BY <1>1, <1>17, <2>3, ClientDispatch
    <3>2. /\ ListLoc(c, t, f) \in LocType /\ ListLoc(c, t, f).task = t
          /\ ListLoc(c, t, f).todo = <<t>>
      <4>1. PICK q \in Seq(Task \cup Bucket) : q = <<t>>
        BY ShortSeqs
      <4>2. ListLoc(c, t, f) = [cloc[c] EXCEPT !.task = t, !.flags = f, !.todo = q]
        BY <4>1 DEF ListLoc
      <4>3. /\ ListLoc(c, t, f) \in LocType /\ ListLoc(c, t, f).task = t
            /\ ListLoc(c, t, f).todo = q
        BY <1>2, <2>1, <4>2 DEF LocType
      <4> QED
        BY <4>1, <4>3
    <3>3. LocalsNew("ent_alloc", ListLoc(c, t, f)) /\ TaskNew(c, t)
      BY <2>1, <3>2 DEF LocalsNew, Ext, TaskNew, TodoNew
    <3> QED
      BY <1>5, <1>8, <3>1, <3>2, <3>3
  <2> QED
    BY <2>2, <2>3
<1>18. ASSUME cat[c] \in {"hash", "search", "retry"}
       PROVE  /\ Dynamic /\ cloc[c].bucket \in Bucket
              /\ cloc[c].task \in Task /\ status[cloc[c].task] = "called"
  BY <1>1, <1>18 DEF LocalsOK, Searching
<1>19. CASE taskq_bucket_dispatch(c)
  <2>1. CASE cat[c] = "search"
    <3>1. CGo(c, "ent_alloc", FoundLoc(c))
      BY <1>1, <1>19, <2>1, ClientDispatch
    <3>2. /\ FoundLoc(c) \in LocType /\ FoundLoc(c).task = cloc[c].task
          /\ FoundLoc(c).todo = <<cloc[c].bucket>>
      BY <1>2, <1>18, <2>1, ShortSeqs, TodoLocs DEF FoundLoc
    <3>3. LocalsNew("ent_alloc", FoundLoc(c))
      BY <1>1, <1>18, <2>1, <3>2 DEF LocalsNew, Ext, TodoNew
    <3> QED
      BY <1>5, <1>7, <1>8, <3>1, <3>2, <3>3
  <2>2. CASE cat[c] # "search"
    BY <1>1, <1>3, <1>5, <1>6, <1>7, <1>19, <2>2, ClientDispatch
  <2> QED
    BY <2>1, <2>2
<1>20. CASE BucketMiss(c)
  <2>1. cat[c] \in {"hash", "search", "retry"} /\ status' = status
    BY <1>1, <1>20, ClientDispatch DEF BucketMiss
  <2>2. CASE CGo(c, "search", MoreLoc(c))
    <3>1. /\ MoreLoc(c) \in LocType /\ MoreLoc(c).task = cloc[c].task
          /\ MoreLoc(c).bucket = cloc[c].bucket
      <4>1. PICK n \in Nat : n = cloc[c].i + 1
        BY <1>2
      <4>2. PICK q \in Seq(Task \cup Bucket) : q = <<>>
        BY ShortSeqs
      <4>3. MoreLoc(c) = [cloc[c] EXCEPT !.i = n, !.todo = q]
        BY <4>1, <4>2 DEF MoreLoc
      <4>4. PICK r \in LocType : r = cloc[c]
        BY <1>2
      <4>5. MoreLoc(c) = [r EXCEPT !.i = n, !.todo = q]
        BY <4>3, <4>4
      <4>6. /\ [r EXCEPT !.i = n, !.todo = q] \in LocType
            /\ [r EXCEPT !.i = n, !.todo = q].task = r.task
            /\ [r EXCEPT !.i = n, !.todo = q].bucket = r.bucket
        BY IndexLocs, Zenon
      <4> QED
        BY <4>4, <4>5, <4>6, Zenon
    <3>2. LocalsNew("search", MoreLoc(c))
      BY <1>1, <1>18, <2>1, <3>1 DEF LocalsNew, Ext
    <3> QED
      BY <1>5, <1>7, <1>8, <2>2, <3>1, <3>2
  <2>3. CASE CGo(c, "extend", ExtendLoc(c))
    <3>1. /\ ExtendLoc(c) \in LocType /\ ExtendLoc(c).task = cloc[c].task
          /\ ExtendLoc(c).bucket = cloc[c].bucket
      BY <1>2, ShortSeqs, RetryLocs DEF ExtendLoc
    <3>2. LocalsNew("extend", ExtendLoc(c))
      BY <1>1, <1>18, <2>1, <3>1 DEF LocalsNew, Ext
    <3> QED
      BY <1>5, <1>7, <1>8, <2>3, <3>1, <3>2
  <2>4. CASE CGo(c, "ent_alloc", BackLoc(c))
    <3>1. Background(c) = <<cloc[c].bucket>> \/ Background(c) = <<cloc[c].bucket, cloc[c].task>>
      BY <1>2, ShortConcat DEF Background
    <3>2. Background(c) \in Seq(Task \cup Bucket)
      <4>1. cloc[c].bucket \in Task \cup Bucket /\ cloc[c].task \in Task \cup Bucket
        BY <1>18, <2>1
      <4> QED
        BY <3>1, <4>1, ShortSeqs
    <3>3. BackLoc(c) \in LocType /\ BackLoc(c).task = cloc[c].task /\ BackLoc(c).todo = Background(c)
      BY <1>2, <3>2 DEF BackLoc, LocType
    <3>4. LocalsNew("ent_alloc", BackLoc(c))
      BY <1>1, <1>18, <2>1, <3>1, <3>3 DEF LocalsNew, Ext, TodoNew
    <3> QED
      BY <1>5, <1>7, <1>8, <2>4, <3>3, <3>4
  <2> QED
    BY <1>1, <1>20, <2>2, <2>3, <2>4, ClientDispatch
<1>21. CASE AllocUnlock(c) \/ kmem_cache_alloc(c)
  <2>1. /\ cat[c] \in {"ent_alloc", "kmem"} /\ status' = status
        /\ CGo(c, "kmem", cloc[c]) \/ CGo(c, "enqueue", cloc[c])
    BY <1>1, <1>21, ClientAlloc DEF AllocUnlock, kmem_cache_alloc
  <2>2. cloc[c].task \in Task /\ TodoOK(c)
    BY <1>1, <2>1 DEF LocalsOK, Enqueuing
  <2>3. TodoNew(cloc[c])
    BY <1>1, <2>1, <2>2 DEF TodoNew, TodoOK
  <2>4. LocalsNew("kmem", cloc[c]) /\ LocalsNew("enqueue", cloc[c])
    BY <2>2, <2>3 DEF LocalsNew, Ext
  <2> QED
    BY <1>2, <1>5, <1>7, <1>8, <2>1, <2>4
<1>22. CASE NextEntStep(c)
  <2>1. CASE Len(cloc[c].todo) = 1
    BY <1>1, <1>3, <1>5, <1>6, <1>7, <1>22, <2>1, NextEntTable
  <2>2. CASE Len(cloc[c].todo) # 1
    <3>1. CGo(c, "ent_alloc", TailLoc(c))
      BY <1>1, <1>22, <2>2, NextEntTable
    <3>2. /\ cloc[c].task \in Task /\ status' = status /\ status[cloc[c].task] = "called"
          /\ Tail(cloc[c].todo) = <<cloc[c].task>>
      BY <1>1, <1>22, <2>2, EnqueueStatus DEF TodoCases
    <3>3. TailLoc(c) \in LocType /\ TailLoc(c).task = cloc[c].task /\ TailLoc(c).todo = <<cloc[c].task>>
      <4>1. Tail(cloc[c].todo) \in Seq(Task \cup Bucket)
        BY <3>2, ShortSeqs
      <4>2. TailLoc(c) \in LocType /\ TailLoc(c).task = cloc[c].task /\ TailLoc(c).todo = Tail(cloc[c].todo)
        BY <1>2, <4>1, TodoLocs DEF TailLoc
      <4> QED
        BY <3>2, <4>2
    <3>4. LocalsNew("ent_alloc", TailLoc(c))
      BY <3>2, <3>3 DEF LocalsNew, Ext, TodoNew
    <3> QED
      BY <1>5, <1>7, <1>8, <3>1, <3>3, <3>4
  <2> QED
    BY <2>1, <2>2
<1>23. CASE taskq_wait(c) \/ taskq_destroy(c)
  BY <1>1, <1>5, <1>6, <1>7, <1>23, ClientWait
<1>24. CASE WaitList(c)
  <2>1. cat[c] = "wait" /\ cloc[c].ret \in {"waited", "deactivate"}
    BY <1>1, <1>24, ClientWait DEF Phase, Ext
  <2>2. LocalsNew("wait", cloc[c]) /\ LocalsNew(cloc[c].ret, cloc[c])
    BY <1>2, <1>6, <2>1
  <2>3. Dynamic => LocalsNew("bwait", AtLoc(c, 1))
    BY <1>1, <1>4, <1>7 DEF LocalsNew, Ext
  <2>4. "wait" \in PCs /\ "bwait" \in PCs /\ AtLoc(c, 1) \in LocType /\ AtLoc(c, 1).task = cloc[c].task
    BY <1>6, <1>7, <1>8
  <2> QED
    BY <1>1, <1>2, <1>5, <1>7, <1>24, <2>2, <2>3, <2>4, ClientWait
<1>25. CASE WaitBucket(c)
  <2>1. cat[c] = "bwait" /\ cloc[c].ret \in {"waited", "deactivate"} /\ Dynamic /\ cloc[c].i \in Bucket
    BY <1>1, <1>25, ClientWait DEF Phase, Ext, LocalsOK
  <2>2. LocalsNew("bwait", cloc[c]) /\ LocalsNew(cloc[c].ret, cloc[c])
    BY <1>1, <1>2, <1>6, <2>1 DEF LocalsNew, Ext
  <2>3. cloc[c].i < NBuckets => LocalsNew("bwait", AtLoc(c, cloc[c].i + 1))
    BY <1>1, <1>2, <1>4, <1>7, <2>1 DEF LocalsNew, Ext
  <2>4. "bwait" \in PCs /\ AtLoc(c, cloc[c].i + 1) \in LocType /\ AtLoc(c, cloc[c].i + 1).task = cloc[c].task
    BY <1>2, <1>7, <1>8
  <2> QED
    BY <1>1, <1>2, <1>5, <1>7, <1>25, <2>2, <2>3, <2>4, ClientWait
<1>26. CASE Waited(c) \/ Resumed(c) \/ Free(c)
  BY <1>1, <1>3, <1>5, <1>6, <1>7, <1>26, ClientWait, ClientSuspend, ClientDestroy
<1>27. CASE taskq_suspend(c) \/ SuspendBucket(c) \/ Suspended(c) \/ taskq_resume(c) \/ ResumeBucket(c)
  <2>1. FirstIndex \in Nat /\ cloc[c].i + 1 \in Nat
    BY <1>2, <1>4 DEF FirstIndex
  <2> QED
    <3>1. CASE taskq_suspend(c)
      BY <1>1, <1>5, <1>6, <1>7, <2>1, <3>1, ClientSuspend
    <3>2. CASE SuspendBucket(c)
      BY <1>1, <1>5, <1>6, <1>7, <2>1, <3>2, ClientSuspend
    <3>3. CASE Suspended(c)
      BY <1>1, <1>2, <1>5, <1>6, <1>7, <3>3, ClientSuspend
    <3>4. CASE taskq_resume(c)
      BY <1>1, <1>5, <1>6, <1>7, <2>1, <3>4, ClientSuspend
    <3>5. CASE ResumeBucket(c)
      BY <1>1, <1>5, <1>6, <1>7, <2>1, <3>5, ClientSuspend
    <3> QED
      BY <1>27, <3>1, <3>2, <3>3, <3>4, <3>5
<1>28. CASE Deactivate(c) \/ Join(c) \/ (Drain(c) /\ tq.nalloc # 0)
  BY <1>1, <1>2, <1>5, <1>6, <1>7, <1>28, ClientDestroy
<1>29. CASE Drain(c) /\ tq.nalloc = 0
  <2>1. CASE Dynamic
    <3>1. CGo(c, "close", AtLoc(c, 1))
      BY <1>1, <1>29, <2>1, ClientDestroy
    <3>2. LocalsNew("close", AtLoc(c, 1))
      BY <1>1, <1>4, <1>7, <2>1 DEF LocalsNew, Ext
    <3> QED
      BY <1>4, <1>5, <1>7, <1>8, <3>1, <3>2
  <2>2. CASE ~Dynamic
    <3>1. CGo(c, "free", AtLoc(c, 1))
      BY <1>1, <1>29, <2>2, ClientDestroy
    <3> QED
      BY <1>4, <1>5, <1>6, <1>7, <3>1
  <2> QED
    BY <2>1, <2>2
<1>30. CASE CloseBucket(c) \/ JoinBucket(c)
  <2>1. cat[c] \in {"close", "bjoin"}
    BY <1>1, <1>30, ClientDestroy
  <2>2. Dynamic /\ cloc[c].i \in Bucket
    BY <1>1, <2>1 DEF LocalsOK
  <2>3. LocalsNew("bjoin", cloc[c]) /\ LocalsNew("free", cloc[c])
    BY <1>1, <2>2 DEF LocalsNew, Ext
  <2>4. cloc[c].i < NBuckets => LocalsNew("close", AtLoc(c, cloc[c].i + 1))
    BY <1>1, <1>2, <1>4, <1>7, <2>2 DEF LocalsNew, Ext
  <2>5. /\ AtLoc(c, cloc[c].i + 1) \in LocType /\ AtLoc(c, cloc[c].i + 1).task = cloc[c].task
        /\ "bjoin" \in PCs /\ "close" \in PCs /\ "free" \in PCs
    BY <1>2, <1>6, <1>7, <1>8
  <2> QED
    BY <1>1, <1>2, <1>5, <1>7, <1>30, <2>3, <2>4, <2>5, ClientDestroy
<1> QED
  BY <1>9, <1>10, <1>12, <1>13, <1>14, <1>15, <1>16, <1>17, <1>19, <1>20, <1>21, <1>22, <1>23, <1>24,
     <1>25, <1>26, <1>27, <1>28, <1>29, <1>30
  DEF ClientSteps, Call, ClientStep, taskq_bucket_extend, taskq_ent_alloc, NextEntStep

----------------------------------------------------------------------------
(* Steps of clients: suspension *)

Sus == {"suspend", "suspended", "resume"}
SuspendStep(c) == \/ taskq_suspend(c) \/ SuspendBucket(c) \/ Suspended(c) \/ taskq_resume(c)
                  \/ ResumeBucket(c) \/ Resumed(c)

\* Other steps of a client neither begin nor end a suspension.
LEMMA NotSuspending ==
  ASSUME Inv, NEW c \in Client, ClientSteps(c), ~taskq_create(c), ~SuspendStep(c)
  PROVE  /\ cat[c] \notin Sus /\ cat'[c] \notin Sus
         /\ \A d \in Client : d # c => cat'[d] = cat[d]
         /\ tq'.writer = tq.writer
         /\ \A b \in Bucket : bkt[b].flags \subseteq bkt'[b].flags
<1>1. /\ Typ /\ PhaseOK /\ SetrunOK /\ tq \in TqType /\ bkt \in [Bucket -> BktType]
      /\ Phase(life, cat[c], cloc[c]) /\ cat \in [Client -> PCs] /\ cloc \in [Client -> LocType]
      /\ cloc[c].ret \notin Sus
  BY ViewTypes, PhaseDef, RetKinds DEF Inv, InPhase, Typ, Sus, LocType
<1>2. \A d \in Client : d # c => cat'[d] = cat[d]
  BY <1>1, ClientMoves DEF Moved, CMove, Moves
<1>3. \A k, r : CGo(c, k, r) => cat'[c] = k
  BY <1>1 DEF CGo, CMove
<1>4. CASE Populate(c) \/ Created(c)
  <2>1. cat[c] \notin Sus /\ cat'[c] \notin Sus
    BY <1>1, <1>3, <1>4, ClientCreate DEF Sus
  <2> QED
    BY <1>2, <1>4, <2>1 DEF Populate, Created
<1>5. CASE ExtendRefused(c) \/ ExtendCount(c) \/ ExtendNoMem(c)
  <2>1. cat[c] \notin Sus /\ cat'[c] \notin Sus
    BY <1>1, <1>3, <1>5, ClientExtend DEF Sus
  <2>2. tq'.writer = tq.writer /\ bkt' = bkt
    BY <1>1, <1>5 DEF ExtendRefused, ExtendCount, ExtendNoMem, TqType
  <2> QED
    BY <1>2, <2>1, <2>2
<1>6. CASE ExtendLink(c)
  <2>1. PICK e \in Ent : LinkGo(c, e) /\ Linked(c, e)
    BY <1>1, <1>6, LinkTable
  <2>2. cat[c] \notin Sus /\ cat'[c] \notin Sus
    BY <1>1, <2>1, KindFacts, ViewTypes DEF LinkGo, Moves, Sus, PCs
  <2>3. tq' = tq
    BY <2>1 DEF Linked
  <2>4. \A b \in Bucket : bkt'[b].flags = bkt[b].flags
    BY <1>1, <2>1 DEF Linked, BktType
  <2> QED
    BY <1>2, <2>2, <2>3, <2>4
<1>7. CASE ExtendStart(c)
  <2>1. PICK e \in Ent : StartGo(c, e)
    BY <1>1, <1>7, StartTable
  <2>2. cat[c] = "setrun"
    BY <1>1, <2>1, KindFacts, ViewTypes DEF StartGo, PCs
  <2>3. cat'[c] = cloc[c].ret
    BY <1>1, <2>1, Threads, ViewTypes DEF StartGo, Moves, ExtendRet
  <2> QED
    BY <1>1, <1>2, <1>7, <2>2, <2>3 DEF ExtendStart, Sus
<1>8. ASSUME NEW t \in Task, NEW f \in DispatchFlags, taskq_dispatch(c, t, f)
      PROVE  cat[c] \notin Sus /\ cat'[c] \notin Sus /\ tq' = tq /\ bkt' = bkt
  <2>1. cat[c] \notin Sus /\ cat'[c] \notin Sus
    BY <1>1, <1>3, <1>8, ClientDispatch DEF Sus
  <2> QED
    BY <1>8, <2>1 DEF taskq_dispatch
<1>9. CASE taskq_bucket_dispatch(c) \/ BucketMiss(c)
  <2>1. cat[c] \notin Sus /\ cat'[c] \notin Sus
    BY <1>1, <1>3, <1>9, ClientDispatch DEF Sus
  <2>2. tq' = tq
    BY <1>9 DEF taskq_bucket_dispatch, BucketMiss
  <2>3. \A b \in Bucket : bkt'[b].flags = bkt[b].flags
    <3>1. CASE BucketMiss(c)
      BY <3>1 DEF BucketMiss
    <3>2. CASE taskq_bucket_dispatch(c)
      <4>1. PICK b, e : bkt' = [bkt EXCEPT ![b].freelist = @ \ {e}, ![b].nalloc = @ + 1,
                                           ![b].nfree = @ - 1]
        BY <3>2 DEF taskq_bucket_dispatch
      <4> QED
        BY <1>1, <4>1 DEF BktType
    <3> QED
      BY <1>9, <3>1, <3>2
  <2> QED
    BY <1>2, <2>1, <2>2, <2>3
<1>10. CASE AllocUnlock(c) \/ kmem_cache_alloc(c)
  <2>1. cat[c] \notin Sus /\ cat'[c] \notin Sus
    BY <1>1, <1>3, <1>10, ClientAlloc DEF Sus
  <2> QED
    BY <1>2, <1>10, <2>1 DEF AllocUnlock, kmem_cache_alloc
<1>11. CASE NextEntStep(c)
  <2>1. cat[c] \notin Sus /\ cat'[c] \notin Sus
    BY <1>1, <1>3, <1>11, NextEntTable DEF Sus
  <2>2. tq'.writer = tq.writer /\ bkt' = bkt
    BY <1>1, <1>11 DEF NextEntStep, FromFreelist, EnqueueNew, AllocFailed, TQ_ENQUEUE, TqType
  <2> QED
    BY <1>2, <2>1, <2>2
<1>12. CASE taskq_wait(c) \/ taskq_destroy(c) \/ WaitList(c) \/ WaitBucket(c) \/ Waited(c)
  <2>1. cat[c] \notin Sus
    BY <1>1, <1>12, ClientWait DEF Sus
  <2>2. cat'[c] \notin Sus
    BY <1>1, <1>3, <1>12, ClientWait DEF Sus
  <2> QED
    BY <1>2, <1>12, <2>1, <2>2 DEF taskq_wait, taskq_destroy, WaitList, WaitBucket, Waited
<1>13. CASE Deactivate(c) \/ Join(c) \/ Drain(c) \/ CloseBucket(c) \/ JoinBucket(c) \/ Free(c)
  <2>1. cat[c] \notin Sus
    BY <1>1, <1>13, ClientDestroy DEF Sus
  <2>2. cat'[c] \notin Sus
    BY <1>1, <1>3, <1>13, ClientDestroy DEF Sus
  <2>3. tq'.writer = tq.writer
    BY <1>1, <1>13 DEF Deactivate, Join, Drain, CloseBucket, JoinBucket, Free, TqType
  <2>4. \A b \in Bucket : bkt[b].flags \subseteq bkt'[b].flags
    BY <1>1, <1>13 DEF Deactivate, Join, Drain, CloseBucket, JoinBucket, Free, BktType
  <2> QED
    BY <1>2, <2>1, <2>2, <2>3, <2>4
<1> QED
  BY <1>2, <1>4, <1>5, <1>6, <1>7, <1>8, <1>9, <1>10, <1>11, <1>12, <1>13
  DEF ClientSteps, Call, ClientStep, taskq_bucket_extend, taskq_ent_alloc, NextEntStep, SuspendStep

\* Only who has suspended the queue is its writer, whatever clients do.
LEMMA ClientSuspension ==
  ASSUME Inv, NEW c \in Client, ClientSteps(c)
  PROVE  SuspendOK'
<1>1. /\ Typ /\ SuspendOK /\ FreedQuiet /\ PhaseOK /\ tq \in TqType /\ bkt \in [Bucket -> BktType]
      /\ cat \in [Client -> PCs] /\ cloc \in [Client -> LocType]
  BY ViewTypes DEF Inv, Typ
<1>2. \A d \in Client : Suspending(d)' <=> cat'[d] \in Sus
  BY DEF Suspending, Sus
<1>3. \A d \in Client : tq.writer = d <=> cat[d] \in Sus
  BY <1>1 DEF SuspendOK, Suspending, Sus
<1>4. CASE taskq_create(c)
  <2>1. PICK f \in CreateFlags, W \in SUBSET Worker : CreateGo(c, f, W)
    BY <1>1, <1>4, CreateTable
  <2>2. \A d \in Client : cat'[d] \notin Sus
    BY <1>1, <2>1, PhaseDef DEF CreateGo, InPhase, Phase, Sus
  <2>3. tq'.writer = NULL
    BY <1>1, <2>1 DEF CreateGo, FreedQuiet, TqType
  <2>4. \A d \in Client : d # NULL
    BY Threads
  <2>5. \A d \in Client : tq'.writer = d <=> cat'[d] \in Sus
    BY <2>2, <2>3, <2>4
  <2> QED
    BY <1>2, <2>2, <2>5 DEF SuspendOK, Sus
<1>5. CASE ~taskq_create(c) /\ ~SuspendStep(c)
  <2>1. /\ cat[c] \notin Sus /\ cat'[c] \notin Sus
        /\ \A d \in Client : d # c => cat'[d] = cat[d] /\ cloc'[d] = cloc[d]
        /\ tq'.writer = tq.writer
        /\ \A b \in Bucket : bkt[b].flags \subseteq bkt'[b].flags
        /\ Dynamic' = Dynamic
    BY <1>1, <1>5, NotSuspending, ClientKeeps, ClientMoves DEF Moved, CMove, Moves
  <2>2. \A d \in Client : tq'.writer = d <=> cat'[d] \in Sus
    BY <1>3, <2>1
  <2> QED
    BY <1>1, <1>2, <2>1, <2>2 DEF SuspendOK, Sus
<1>6. CASE ~taskq_create(c) /\ SuspendStep(c)
  <2>1. Dynamic' = Dynamic /\ \A d \in Client : d # c => cat'[d] = cat[d] /\ cloc'[d] = cloc[d]
    BY <1>1, <1>6, ClientKeeps, ClientMoves DEF Moved, CMove, Moves
  <2>2. \A k, r : CGo(c, k, r) => cat'[c] = k /\ cloc'[c] = r
    BY <1>1 DEF CGo, CMove
  <2>3. \A i \in Nat : AtLoc(c, i).i = i
    BY <1>1 DEF AtLoc, LocType
  <2>4. cloc[c].i \in Nat /\ NBuckets \in Nat /\ Bucket = 1..NBuckets /\ cloc[c] = loc[c]
    BY <1>1, ViewTypes, TaskqAssumption DEF LocType, Bucket
  <2>5. c # NULL /\ \A d \in Client : d # NULL
    BY Threads
  <2>6. CASE taskq_suspend(c)
    <3>1. tq.writer = NULL /\ tq'.writer = c /\ cat'[c] = "suspend" /\ cloc'[c] = AtLoc(c, FirstIndex)
      <4>1. tq.writer = NULL /\ tq' = [tq EXCEPT !.writer = c]
        BY <2>6 DEF taskq_suspend
      <4>2. tq'.writer = c
        BY <1>1, <4>1 DEF TqType
      <4> QED
        BY <1>1, <2>2, <2>6, <4>1, <4>2, ClientSuspend
    <3>2. \A d \in Client : d # c => cat'[d] \notin Sus
      BY <1>3, <2>1, <2>5, <3>1
    <3>3. \A d \in Client : tq'.writer = d <=> cat'[d] \in Sus
      BY <3>1, <3>2 DEF Sus
    <3>4. Dynamic => cloc'[c].i = 1
      BY <2>3, <3>1 DEF FirstIndex
    <3>5. Dynamic => \A b \in Bucket : ~(b < cloc'[c].i)
      BY <2>4, <3>4
    <3> QED
      BY <1>2, <2>1, <3>1, <3>2, <3>3, <3>5 DEF SuspendOK, Sus
  <2>7. ASSUME cat[c] \in Sus, cat'[c] \in Sus, tq'.writer = tq.writer,
               Dynamic => \A b \in Bucket : cat'[c] = "suspended" \/ (cat'[c] = "suspend" /\ b < cloc'[c].i)
                                              => "SUSPEND" \in bkt'[b].flags
        PROVE  SuspendOK'
    <3>1. tq.writer = c /\ \A d \in Client : d # c => cat'[d] \notin Sus
      BY <1>3, <2>1, <2>7
    <3>2. \A d \in Client : tq'.writer = d <=> cat'[d] \in Sus
      BY <2>7, <3>1
    <3> QED
      BY <1>2, <2>1, <2>7, <3>1, <3>2 DEF SuspendOK, Sus
  <2>8. CASE SuspendBucket(c)
    <3>1. /\ cat[c] = "suspend" /\ cat'[c] = "suspend" /\ cloc'[c] = AtLoc(c, cloc[c].i + 1)
          /\ tq' = tq /\ cloc[c].i \in Bucket
          /\ bkt' = [bkt EXCEPT ![cloc[c].i].flags = @ \cup {"SUSPEND"}]
      BY <1>1, <2>2, <2>4, <2>8, ClientSuspend DEF SuspendBucket
    <3>2. cloc'[c].i = cloc[c].i + 1
      BY <2>3, <2>4, <3>1
    <3>3. "SUSPEND" \in bkt'[cloc[c].i].flags /\ \A b \in Bucket : bkt[b].flags \subseteq bkt'[b].flags
      BY <1>1, <3>1 DEF BktType
    <3>4. \A b \in Bucket : b < cloc'[c].i => b < cloc[c].i \/ b = cloc[c].i
      BY <2>4, <3>2
    <3>5. Dynamic => \A b \in Bucket : b < cloc[c].i => "SUSPEND" \in bkt[b].flags
      BY <1>1, <3>1 DEF SuspendOK
    <3> QED
      BY <2>7, <3>1, <3>3, <3>4, <3>5 DEF Sus
  <2>9. CASE Suspended(c)
    <3>1. /\ cat[c] = "suspend" /\ cat'[c] = "suspended" /\ tq'.writer = tq.writer /\ bkt' = bkt
          /\ cloc[c].i > NBuckets
      BY <1>1, <2>2, <2>4, <2>9, ClientSuspend DEF Suspended, TqType
    <3>2. \A b \in Bucket : b < cloc[c].i
      BY <2>4, <3>1
    <3>3. Dynamic => \A b \in Bucket : b < cloc[c].i => "SUSPEND" \in bkt[b].flags
      BY <1>1, <3>1 DEF SuspendOK
    <3> QED
      BY <2>7, <3>1, <3>2, <3>3 DEF Sus
  <2>10. CASE taskq_resume(c)
    <3>1. cat[c] = "suspended" /\ cat'[c] = "resume" /\ tq' = tq
      BY <1>1, <2>2, <2>10, ClientSuspend DEF taskq_resume
    <3> QED
      BY <2>7, <3>1 DEF Sus
  <2>11. CASE ResumeBucket(c)
    <3>1. cat[c] = "resume" /\ cat'[c] = "resume" /\ tq' = tq
      BY <1>1, <2>2, <2>11, ClientSuspend DEF ResumeBucket
    <3> QED
      BY <2>7, <3>1 DEF Sus
  <2>12. CASE Resumed(c)
    <3>1. cat[c] = "resume" /\ cat'[c] = "idle" /\ tq'.writer = NULL
      BY <1>1, <2>2, <2>12, ClientSuspend DEF Resumed, TqType
    <3>2. \A d \in Client : cat'[d] \notin Sus
      BY <1>3, <2>1, <3>1 DEF Sus
    <3>3. \A d \in Client : tq'.writer = d <=> cat'[d] \in Sus
      BY <2>5, <3>1, <3>2
    <3> QED
      BY <1>2, <3>2, <3>3 DEF SuspendOK, Sus
  <2> QED
    BY <1>6, <2>6, <2>8, <2>9, <2>10, <2>11, <2>12 DEF SuspendStep
<1> QED
  BY <1>4, <1>5, <1>6

\* What is known of the clients is preserved.
LEMMA ClientsPreserved ==
  ASSUME Inv, Next
  PROVE  PhaseOK' /\ LocalsOK' /\ OwnTask' /\ SuspendOK'
<1>1. CASE OtherStep
  BY <1>1, OthersFrame, OthersClients
<1>2. ASSUME NEW c \in Client, ClientSteps(c) PROVE PhaseOK' /\ LocalsOK' /\ OwnTask' /\ SuspendOK'
  <2>1. PhaseOK' /\ SuspendOK'
    BY <1>2, ClientPhase, ClientSuspension DEF ClientSteps
  <2>2. CASE ~taskq_create(c)
    <3>1. PICK k, r : Moved(c, k, r)
      BY <1>2, <2>2, ClientMoves
    <3>2. OwnOnly(c) /\ Dynamic' = Dynamic
      BY <1>2, <2>2, ClientKeeps
    <3> QED
      BY <2>1, <3>1, <3>2, MovedLocals
  <2>3. CASE taskq_create(c)
    <3>1. Typ /\ FreedQuiet /\ PhaseOK /\ LocalsOK /\ cat \in [Client -> PCs] /\ tq \in TqType
      BY ViewTypes DEF Inv, Typ
    <3>2. PICK f \in CreateFlags, W \in SUBSET Worker : CreateGo(c, f, W)
      BY <2>3, <3>1, CreateTable
    <3>3. \A d \in Client : cat[d] = "idle"
      BY <3>1, <3>2, PhaseDef DEF CreateGo, InPhase, Phase
    <3>4. \A d \in Client : cloc'[d] = NoLocals
      BY <3>1, <3>2, <3>3 DEF CreateGo, LocalsOK
    <3>5. /\ \A d \in Client : d # c => cat'[d] = "idle"
          /\ cat'[c] = IF f = {"DYNAMIC", "PREPOPULATE"} THEN "populate" ELSE "created"
      BY <3>1, <3>2, <3>3 DEF CreateGo
    <3>6. f = {"DYNAMIC", "PREPOPULATE"} => Dynamic'
      <4>1. tq'.flags = (f \cap {"DYNAMIC"}) \cup {"ACTIVE"}
        BY <3>1, <3>2 DEF CreateGo, TqType
      <4> QED
        BY <4>1 DEF Dynamic
    <3>7. LocalsOK'
      <4>1. \A d \in Client : cat'[d] \in {"idle", "populate", "created"} /\ (cat'[d] = "populate" => Dynamic')
        BY <3>5, <3>6
      <4>2. \A d \in Client : ~Searching(d)' /\ ~Enqueuing(d)'
        BY <4>1 DEF Searching, Enqueuing, Ext
      <4> QED
        BY <3>4, <4>1, <4>2 DEF LocalsOK, Ext
    <3>8. OwnTask'
      BY <3>4 DEF OwnTask, NoLocals
    <3> QED
      BY <2>1, <3>7, <3>8
  <2> QED
    BY <2>2, <2>3
<1> QED
  BY <1>1, <1>2 DEF Next, OtherStep, ClientSteps

----------------------------------------------------------------------------
(* Frames *)

\* The steps of a client that move no other thread.
LEMMA ClientGos ==
  ASSUME Inv, NEW c \in Client, ClientSteps(c), ~taskq_create(c), ~ExtendLink(c), ~ExtendStart(c)
  PROVE  \E k, r : CGo(c, k, r)
<1>1. Typ
  BY DEF Inv
<1>2. CASE Populate(c) \/ Created(c)
  BY <1>1, <1>2, ClientCreate
<1>3. CASE ExtendRefused(c) \/ ExtendCount(c) \/ ExtendNoMem(c)
  BY <1>1, <1>3, ClientExtend
<1>4. ASSUME NEW t \in Task, NEW f \in DispatchFlags, taskq_dispatch(c, t, f) PROVE \E k, r : CGo(c, k, r)
  BY <1>1, <1>4, ClientDispatch
<1>5. CASE taskq_bucket_dispatch(c) \/ BucketMiss(c)
  BY <1>1, <1>5, ClientDispatch
<1>6. CASE AllocUnlock(c) \/ kmem_cache_alloc(c)
  BY <1>1, <1>6, ClientAlloc
<1>7. CASE NextEntStep(c)
  BY <1>1, <1>7, NextEntTable
<1>8. CASE taskq_wait(c) \/ taskq_destroy(c) \/ WaitList(c) \/ WaitBucket(c) \/ Waited(c)
  BY <1>1, <1>8, ClientWait
<1>9. CASE SuspendStep(c)
  BY <1>1, <1>9, ClientSuspend DEF SuspendStep
<1>10. CASE Deactivate(c) \/ Join(c) \/ Drain(c) \/ CloseBucket(c) \/ JoinBucket(c) \/ Free(c)
  BY <1>1, <1>10, ClientDestroy
<1> QED
  BY <1>2, <1>3, <1>4, <1>5, <1>6, <1>7, <1>8, <1>9, <1>10
  DEF ClientSteps, Call, ClientStep, taskq_bucket_extend, taskq_ent_alloc, NextEntStep, SuspendStep

\* Most steps of a client leave the tasks and the counts of entries alone too.
QuietStep(c) == /\ ClientSteps(c) /\ ~taskq_create(c) /\ ~ExtendLink(c) /\ ~ExtendStart(c)
                /\ ~taskq_bucket_dispatch(c) /\ ~Enqueue(c)
SameCounts == \A b \in Bucket : /\ bkt'[b].freelist = bkt[b].freelist
                                /\ bkt'[b].nfree = bkt[b].nfree /\ bkt'[b].nalloc = bkt[b].nalloc

\* These steps leave entries, the list and the readers alone.
LEMMA QuietFrame ==
  ASSUME Inv, NEW c \in Client, QuietStep(c)
  PROVE  /\ UNCHANGED <<func, home>> /\ tq'.task = tq.task /\ tq'.readers = tq.readers
         /\ SameCounts
<1>1. tq \in TqType /\ bkt \in [Bucket -> BktType]
  BY DEF Inv, Typ
<1>2. CASE \/ \E t \in Task, f \in DispatchFlags : taskq_dispatch(c, t, f)
           \/ Populate(c) \/ Created(c) \/ ExtendRefused(c) \/ BucketMiss(c) \/ AllocUnlock(c)
           \/ kmem_cache_alloc(c) \/ AllocFailed(c) \/ taskq_wait(c) \/ taskq_destroy(c) \/ WaitList(c)
           \/ WaitBucket(c) \/ Waited(c) \/ taskq_resume(c) \/ JoinBucket(c)
  BY <1>2 DEF taskq_dispatch, Populate, Created, ExtendRefused, BucketMiss, AllocUnlock, kmem_cache_alloc,
     AllocFailed, taskq_wait, taskq_destroy, WaitList, WaitBucket, Waited, taskq_resume, JoinBucket, SameCounts
<1>3. CASE \/ ExtendCount(c) \/ ExtendNoMem(c) \/ taskq_suspend(c) \/ Suspended(c) \/ Resumed(c) \/ Deactivate(c)
           \/ Join(c) \/ Drain(c) \/ Free(c)
  <2>1. UNCHANGED <<func, home, bkt>>
    BY <1>3 DEF ExtendCount, ExtendNoMem, taskq_suspend, Suspended, Resumed, Deactivate, Join, Drain, Free
  <2>2. tq'.task = tq.task /\ tq'.readers = tq.readers
    BY <1>1, <1>3 DEF ExtendCount, ExtendNoMem, taskq_suspend, Suspended, Resumed, Deactivate, Join, Drain, Free, TqType
  <2> QED
    BY <2>1, <2>2 DEF SameCounts
<1>4. CASE SuspendBucket(c) \/ ResumeBucket(c) \/ CloseBucket(c)
  <2>1. UNCHANGED <<func, home, tq>>
    BY <1>4 DEF SuspendBucket, ResumeBucket, CloseBucket
  <2>2. \E b, F : bkt' = [bkt EXCEPT ![b].flags = F]
    BY <1>4 DEF SuspendBucket, ResumeBucket, CloseBucket
  <2> QED
    BY <1>1, <2>1, <2>2 DEF SameCounts, BktType
<1> QED
  BY <1>2, <1>3, <1>4
  DEF QuietStep, ClientSteps, Call, ClientStep, taskq_bucket_extend, taskq_ent_alloc, Enqueue

\* The steps of workers that move no other thread.
LEMMA WorkerGos ==
  ASSUME Inv, NEW w \in Worker, WorkerStep(w), ~ExtendLink(w), ~ExtendStart(w)
  PROVE  /\ \E k, r : WGo(w, k, r)
         /\ UNCHANGED <<func, home, bkt, life, seen>>
<1>1. Typ
  BY DEF Inv
<1>2. \E k, r : WGo(w, k, r)
  BY <1>1, WorkerTable DEF WorkerStep, taskq_thread, taskq_bucket_extend
<1>3. UNCHANGED <<func, home, bkt, life, seen>>
  BY DEF WorkerStep, taskq_thread, taskq_bucket_extend, WorkerSleep, WorkerTake, WorkerExit,
     WorkerRun, WorkerDone, taskq_ent_free, ExtendRefused, ExtendCount, ExtendNoMem
<1> QED
  BY <1>2, <1>3

\* The kinds of steps.
StepCases == \/ \E c \in Client : taskq_create(c)
             \/ \E c \in Client : QuietStep(c)
             \/ \E c \in Client : Enqueue(c)
             \/ \E c \in Client : taskq_bucket_dispatch(c)
             \/ \E w \in Worker : WorkerStep(w) /\ ~ExtendLink(w) /\ ~ExtendStart(w)
             \/ \E x \in Client \cup Worker : ExtendLink(x)
             \/ \E x \in Client \cup Worker : ExtendStart(x)
             \/ \E e \in Ent : taskq_d_thread(e)

\* Every step is of one of these kinds.
LEMMA Cases ==
  ASSUME Next
  PROVE  StepCases
BY DEF Next, StepCases, QuietStep, ClientSteps

\* Thus most steps of clients are moves of the client.
LEMMA QuietGo ==
  ASSUME Inv, NEW c \in Client, QuietStep(c) \/ Enqueue(c) \/ taskq_bucket_dispatch(c)
  PROVE  (\E k, r : CGo(c, k, r)) /\ Dynamic' = Dynamic /\ OwnOnly(c)
<1>1. ClientSteps(c)
  BY DEF QuietStep, Enqueue, ClientSteps, ClientStep, taskq_ent_alloc
<1>2. ~taskq_create(c) /\ ~ExtendLink(c) /\ ~ExtendStart(c)
  BY DEF QuietStep, Enqueue, FromFreelist, EnqueueNew, taskq_bucket_dispatch, taskq_create, ExtendLink, ExtendStart
<1> QED
  BY <1>1, <1>2, ClientGos, ClientKeeps

\* New threads stay with those who start them.
LEMMA SetrunPreserved ==
  ASSUME Inv, Next
  PROVE  SetrunOK'
<1>1. /\ Typ /\ SetrunOK /\ FreedQuiet
      /\ cat \in [Client -> PCs] /\ wat \in [Worker -> PCs] /\ eat \in [Ent -> PCs]
      /\ setting \in [Client \cup Worker -> Ent \cup {NULL}] /\ NULL \notin Ent
  BY ViewTypes, TaskqAssumption DEF Inv
<1>2. ASSUME NEW c \in Client, taskq_create(c) PROVE SetrunOK'
  <2>1. PICK f \in CreateFlags, W \in SUBSET Worker : CreateGo(c, f, W)
    BY <1>1, <1>2, CreateTable
  <2> QED
    BY <1>1, <2>1 DEF CreateGo, SetrunOK
<1>3. ASSUME NEW c \in Client, NEW k, NEW r, CGo(c, k, r) PROVE SetrunOK'
  BY <1>1, <1>3 DEF CGo, CMove, SetrunOK
<1>4. ASSUME NEW w \in Worker, NEW k, NEW r, WGo(w, k, r) PROVE SetrunOK'
  BY <1>1, <1>4 DEF WGo, WMove, SetrunOK
<1>5. ASSUME NEW x \in Client \cup Worker, ExtendLink(x) PROVE SetrunOK'
  <2>1. PICK e \in Ent : LinkGo(x, e)
    BY <1>1, <1>5, LinkTable
  <2>2. /\ setting' = [setting EXCEPT ![x] = e] /\ eat' = [eat EXCEPT ![e] = "stopped"] /\ eat[e] = "none"
        /\ \A c \in Client : c # x => cat'[c] = cat[c]
        /\ \A w \in Worker : w # x => wat'[w] = wat[w]
    BY <1>1, <2>1 DEF LinkGo, Moves
  <2> QED
    BY <1>1, <2>2 DEF SetrunOK
<1>6. ASSUME NEW x \in Client \cup Worker, ExtendStart(x) PROVE SetrunOK'
  <2>1. PICK e \in Ent : StartGo(x, e)
    BY <1>1, <1>6, StartTable
  <2>2. ExtendRet(x) # "setrun"
    BY <1>1, RetKinds DEF ExtendRet
  <2>3. /\ setting' = [setting EXCEPT ![x] = NULL] /\ eat' = [eat EXCEPT ![e] = "start"] /\ setting[x] = e
        /\ \A c \in Client : IF c # x THEN cat'[c] = cat[c] ELSE cat'[c] # "setrun"
        /\ \A w \in Worker : IF w # x THEN wat'[w] = wat[w] ELSE wat'[w] # "setrun"
    BY <1>1, <2>1, <2>2 DEF StartGo, Moves
  <2> QED
    BY <1>1, <2>3 DEF SetrunOK
<1>7. ASSUME NEW e \in Ent, taskq_d_thread(e) PROVE SetrunOK'
  <2>1. eat[e] # "stopped" /\ \E k : EGo(e, k)
    BY <1>1, <1>7, EntTable DEF taskq_d_thread
  <2> QED
    BY <1>1, <2>1 DEF EGo, EMove, SetrunOK
<1> QED
  BY <1>2, <1>3, <1>4, <1>5, <1>6, <1>7, Cases, QuietGo, WorkerGos DEF StepCases

----------------------------------------------------------------------------
(* Entries *)

\* The sets of entries are finite.
LEMMA EntSets ==
  \A b : IsFiniteSet(OnFreelist(b)) /\ IsFiniteSet(InUse(b))
<1>1. IsFiniteSet(Ent)
  BY TaskqAssumption
<1>2. \A b : OnFreelist(b) \subseteq Ent /\ InUse(b) \subseteq Ent
  BY DEF OnFreelist, InUse
<1> QED
  BY <1>1, <1>2, FS_Subset

\* The entries of b agree with its counts.
BucketOK(b) == /\ bkt[b].freelist = OnFreelist(b) /\ bkt[b].nfree = Cardinality(OnFreelist(b))
               /\ bkt[b].nalloc = Cardinality(InUse(b))

\* An element more.
LEMMA OneMore ==
  ASSUME NEW S, NEW x, IsFiniteSet(S), x \notin S
  PROVE  Cardinality(S \cup {x}) = Cardinality(S) + 1 /\ Cardinality(S) \in Nat
BY FS_AddElement, FS_CardinalityType

\* An element less.
LEMMA OneLess ==
  ASSUME NEW S, NEW x, IsFiniteSet(S), x \in S
  PROVE  Cardinality(S \ {x}) = Cardinality(S) - 1 /\ Cardinality(S) \in Nat
BY FS_RemoveElement, FS_CardinalityType

\* A bucket whose entries and counts stay is in order.
LEMMA SameBucket ==
  ASSUME NEW b, BucketOK(b), bkt'[b].freelist = bkt[b].freelist, bkt'[b].nfree = bkt[b].nfree,
         bkt'[b].nalloc = bkt[b].nalloc,
         \A e \in Ent : home'[e] = b <=> home[e] = b,
         \A e \in Ent : home[e] = b => (func'[e] = NULL <=> func[e] = NULL)
  PROVE  BucketOK(b)'
<1>1. OnFreelist(b)' = OnFreelist(b)
  BY DEF OnFreelist
<1>2. InUse(b)' = InUse(b)
  BY DEF InUse
<1> QED
  BY <1>1, <1>2 DEF BucketOK

\* A task gets into a free entry.
LEMMA DispatchedBucket ==
  ASSUME NEW b \in Bucket, bkt \in [Bucket -> BktType], BucketOK(b), NEW e \in bkt[b].freelist, NEW t, t # NULL,
         func \in [Ent -> Task \cup {NULL}], home' = home,
         bkt' = [bkt EXCEPT ![b].freelist = @ \ {e}, ![b].nalloc = @ + 1, ![b].nfree = @ - 1],
         func' = [func EXCEPT ![e] = t]
  PROVE  BucketOK(b)'
<1>1. /\ bkt'[b].freelist = bkt[b].freelist \ {e} /\ bkt'[b].nalloc = bkt[b].nalloc + 1
      /\ bkt'[b].nfree = bkt[b].nfree - 1
  BY DEF BktType
<1>2. e \in Ent /\ e \in OnFreelist(b) /\ e \notin InUse(b)
  BY DEF BucketOK, OnFreelist, InUse
<1>3. OnFreelist(b)' = OnFreelist(b) \ {e}
  BY <1>2 DEF OnFreelist
<1>4. InUse(b)' = InUse(b) \cup {e}
  BY <1>2 DEF OnFreelist, InUse
<1>5. Cardinality(OnFreelist(b) \ {e}) = Cardinality(OnFreelist(b)) - 1
  BY <1>2, EntSets, OneLess
<1>6. Cardinality(InUse(b) \cup {e}) = Cardinality(InUse(b)) + 1
  BY <1>2, EntSets, OneMore
<1> QED
  BY <1>1, <1>3, <1>4, <1>5, <1>6 DEF BucketOK

\* A task is done, and its entry free again.
LEMMA DoneBucket ==
  ASSUME NEW b \in Bucket, bkt \in [Bucket -> BktType], BucketOK(b), NEW e \in Ent,
         func \in [Ent -> Task \cup {NULL}], home' = home, home[e] = b, func[e] # NULL,
         bkt' = [bkt EXCEPT ![b].freelist = @ \cup {e}, ![b].nalloc = @ - 1, ![b].nfree = @ + 1],
         func' = [func EXCEPT ![e] = NULL]
  PROVE  BucketOK(b)'
<1>1. /\ bkt'[b].freelist = bkt[b].freelist \cup {e} /\ bkt'[b].nalloc = bkt[b].nalloc - 1
      /\ bkt'[b].nfree = bkt[b].nfree + 1
  BY DEF BktType
<1>2. e \notin OnFreelist(b) /\ e \in InUse(b)
  BY DEF OnFreelist, InUse
<1>3. OnFreelist(b)' = OnFreelist(b) \cup {e}
  BY <1>2 DEF OnFreelist
<1>4. InUse(b)' = InUse(b) \ {e}
  BY <1>2 DEF OnFreelist, InUse
<1>5. Cardinality(OnFreelist(b) \cup {e}) = Cardinality(OnFreelist(b)) + 1
  BY <1>2, EntSets, OneMore
<1>6. Cardinality(InUse(b) \ {e}) = Cardinality(InUse(b)) - 1
  BY <1>2, EntSets, OneLess
<1> QED
  BY <1>1, <1>3, <1>4, <1>5, <1>6 DEF BucketOK

\* A free entry comes, and a free entry goes.
LEMMA LinkedBucket ==
  ASSUME NEW b \in Bucket, bkt \in [Bucket -> BktType], BucketOK(b), NEW e \in Ent, home[e] = NULL,
         func \in [Ent -> Task \cup {NULL}], home \in [Ent -> Bucket \cup {NULL}],
         home' = [home EXCEPT ![e] = b], func' = [func EXCEPT ![e] = NULL],
         bkt' = [bkt EXCEPT ![b].freelist = @ \cup {e}, ![b].nfree = @ + 1]
  PROVE  BucketOK(b)'
<1>1. /\ bkt'[b].freelist = bkt[b].freelist \cup {e} /\ bkt'[b].nalloc = bkt[b].nalloc
      /\ bkt'[b].nfree = bkt[b].nfree + 1 /\ b # NULL
  BY TaskqAssumption DEF BktType
<1>2. e \notin OnFreelist(b) /\ e \notin InUse(b)
  BY <1>1 DEF OnFreelist, InUse
<1>3. OnFreelist(b)' = OnFreelist(b) \cup {e}
  BY <1>2 DEF OnFreelist
<1>4. InUse(b)' = InUse(b)
  BY <1>2 DEF InUse
<1>5. Cardinality(OnFreelist(b) \cup {e}) = Cardinality(OnFreelist(b)) + 1
  BY <1>2, EntSets, OneMore
<1> QED
  BY <1>1, <1>3, <1>4, <1>5 DEF BucketOK

\* A bucket one of whose threads dies.
LEMMA DeadBucket ==
  ASSUME NEW b \in Bucket, bkt \in [Bucket -> BktType], BucketOK(b), NEW e \in Ent, home[e] = b,
         func[e] = NULL, func' = func, home \in [Ent -> Bucket \cup {NULL}],
         home' = [home EXCEPT ![e] = NULL],
         bkt' = [bkt EXCEPT ![b].freelist = @ \ {e}, ![b].nfree = @ - 1]
  PROVE  BucketOK(b)'
<1>1. /\ bkt'[b].freelist = bkt[b].freelist \ {e} /\ bkt'[b].nalloc = bkt[b].nalloc
      /\ bkt'[b].nfree = bkt[b].nfree - 1 /\ b # NULL
  BY TaskqAssumption DEF BktType
<1>2. e \in OnFreelist(b) /\ e \notin InUse(b)
  BY <1>1 DEF OnFreelist, InUse
<1>3. OnFreelist(b)' = OnFreelist(b) \ {e}
  BY <1>1, <1>2 DEF OnFreelist
<1>4. InUse(b)' = InUse(b)
  BY <1>1, <1>2 DEF InUse
<1>5. Cardinality(OnFreelist(b) \ {e}) = Cardinality(OnFreelist(b)) - 1
  BY <1>2, EntSets, OneLess
<1> QED
  BY <1>1, <1>3, <1>4, <1>5 DEF BucketOK

\* The bucket that a client tries is one.
LEMMA TriedBucket ==
  ASSUME Inv, NEW c \in Client, pc[c] \in {"hash", "search", "retry"}
  PROVE  Tried(c) \in Bucket
<1>1. cat[c] = pc[c] /\ cloc[c] = loc[c] /\ cloc[c] \in LocType
  BY KindFacts, ViewTypes DEF Inv, PCs
<1>2. loc[c].bucket \in Bucket /\ loc[c].i \in Nat
  BY <1>1 DEF Inv, LocalsOK, LocType
<1>3. NBuckets \in Nat \ {0} /\ loc[c].bucket + loc[c].i - 1 \in Nat
  BY <1>2, TaskqAssumption DEF Bucket
<1>4. \A a \in Nat : a % NBuckets \in 0..(NBuckets - 1)
  BY <1>3
<1>5. \A m \in 0..(NBuckets - 1) : m + 1 \in Bucket
  BY <1>3 DEF Bucket
<1> QED
  BY <1>2, <1>3, <1>4, <1>5 DEF Tried

\* taskq_bucket_dispatch, but for where the client goes.
Dispatched(c, b, e) ==
    /\ e \in bkt[b].freelist /\ CanDispatch(b) /\ cloc[c].task \in Task /\ status[cloc[c].task] = "called"
    /\ bkt' = [bkt EXCEPT ![b].freelist = @ \ {e}, ![b].nalloc = @ + 1, ![b].nfree = @ - 1]
    /\ func' = [func EXCEPT ![e] = cloc[c].task]
    /\ status' = [status EXCEPT ![cloc[c].task] = "queued"]
    /\ UNCHANGED <<tq, home, life, seen>>

\* A dispatch takes a free entry of the bucket that is tried.
LEMMA DispatchTable ==
  ASSUME Inv, NEW c \in Client, taskq_bucket_dispatch(c)
  PROVE  \E b \in Bucket, e \in Ent : Dispatched(c, b, e)
<1>1. pc[c] \in {"hash", "search", "retry"} /\ CanDispatch(Tried(c)) /\ UNCHANGED <<tq, home, life, seen>>
  BY DEF taskq_bucket_dispatch
<1>2. Tried(c) \in Bucket
  BY <1>1, TriedBucket
<1>3. PICK e \in bkt[Tried(c)].freelist :
        /\ bkt' = [bkt EXCEPT ![Tried(c)].freelist = @ \ {e}, ![Tried(c)].nalloc = @ + 1,
                              ![Tried(c)].nfree = @ - 1]
        /\ func' = [func EXCEPT ![e] = loc[c].task]
  BY DEF taskq_bucket_dispatch
<1>4. cat[c] = pc[c] /\ cloc[c] = loc[c]
  BY <1>1, KindFacts, ViewTypes DEF Inv, PCs
<1>5. cloc[c].task \in Task /\ status[cloc[c].task] = "called"
  BY <1>1, <1>4 DEF Inv, LocalsOK, Searching
<1>6. e \in Ent
  BY <1>2 DEF Inv, Typ, BktType
<1>7. status' = [status EXCEPT ![cloc[c].task] = "queued"]
  BY <1>4 DEF taskq_bucket_dispatch
<1> QED
  BY <1>1, <1>2, <1>3, <1>4, <1>5, <1>6, <1>7 DEF Dispatched

\* The part of it about one entry.
EntOK(e) == /\ home[e] = NULL <=> eat[e] = "none"
            /\ eat[e] = "none" => func[e] = NULL
            /\ eat[e] = "run" => func[e] # NULL
            /\ ~Dynamic => eat[e] = "none"

\* The entries of the buckets stay in order.
LEMMA EntriesPreserved ==
  ASSUME Inv, Next
  PROVE  EntriesOK'
<1>1. /\ Typ /\ FreedQuiet /\ bkt \in [Bucket -> BktType] /\ eat \in [Ent -> PCs]
      /\ func \in [Ent -> Task \cup {NULL}] /\ home \in [Ent -> Bucket \cup {NULL}]
      /\ NULL \notin Bucket /\ NULL \notin Task
  BY ViewTypes, TaskqAssumption DEF Inv, Typ
<1>2. /\ \A e \in Ent : EntOK(e)
      /\ \A b \in Bucket : BucketOK(b)
  BY DEF Inv, EntriesOK, EntOK, BucketOK
<1>3. SUFFICES /\ \A e \in Ent : EntOK(e)'
               /\ \A b \in Bucket : BucketOK(b)'
  BY DEF EntriesOK, EntOK, BucketOK
<1> DEFINE Goal == (\A e \in Ent : EntOK(e)') /\ (\A b \in Bucket : BucketOK(b)')
<1>4. ASSUME NEW c \in Client, taskq_create(c) PROVE Goal
  <2>1. PICK f \in CreateFlags, W \in SUBSET Worker : CreateGo(c, f, W)
    BY <1>1, <1>4, CreateTable
  <2>2. \A e \in Ent : pc[e] = "none"
    BY <1>1, <2>1 DEF CreateGo, FreedQuiet
  <2>3. \A e \in Ent : eat[e] = "none"
    BY <1>1, <2>2, KindFacts, ViewTypes DEF PCs
  <2>4. \A e \in Ent : home[e] = NULL /\ func[e] = NULL
    BY <1>2, <2>3 DEF EntOK
  <2>5. UNCHANGED <<eat, home, func>> /\ bkt' = [b \in Bucket |-> NoBucket]
    BY <2>1 DEF CreateGo
  <2>6. \A b \in Bucket : OnFreelist(b)' = {} /\ InUse(b)' = {}
    BY <1>1, <2>4, <2>5 DEF OnFreelist, InUse
  <2>7. \A b \in Bucket : BucketOK(b)'
    BY <2>5, <2>6, FS_EmptySet DEF BucketOK, NoBucket
  <2>8. \A e \in Ent : EntOK(e)'
    BY <2>3, <2>4, <2>5 DEF EntOK
  <2> QED
    BY <2>7, <2>8
<1>5. ASSUME UNCHANGED <<eat, func, home>>, Dynamic' = Dynamic, SameCounts PROVE Goal
  <2>1. \A e \in Ent : EntOK(e)'
    BY <1>2, <1>5 DEF EntOK
  <2>2. \A b \in Bucket : BucketOK(b)'
    BY <1>2, <1>5, SameBucket DEF SameCounts
  <2> QED
    BY <2>1, <2>2
<1>6. ASSUME NEW c \in Client, QuietStep(c) PROVE Goal
  BY <1>5, <1>6, QuietFrame, QuietGo DEF CGo, CMove
<1>7. ASSUME NEW c \in Client, Enqueue(c) PROVE Goal
  BY <1>5, <1>7, QuietGo DEF CGo, CMove, Enqueue, FromFreelist, EnqueueNew, TQ_ENQUEUE, SameCounts
<1>8. ASSUME NEW c \in Client, taskq_bucket_dispatch(c) PROVE Goal
  <2>1. PICK b \in Bucket, e \in Ent : Dispatched(c, b, e)
    BY <1>8, DispatchTable
  <2>2. cloc[c].task # NULL /\ eat' = eat /\ Dynamic' = Dynamic
    BY <1>1, <1>8, <2>1, QuietGo DEF Dispatched, CGo, CMove
  <2>3. BucketOK(b)'
    BY <1>1, <1>2, <2>1, <2>2, DispatchedBucket DEF Dispatched
  <2>4. home[e] = b /\ func'[e] # NULL /\ \A d \in Ent : d # e => func'[d] = func[d]
    <3>1. e \in bkt[b].freelist /\ func' = [func EXCEPT ![e] = cloc[c].task]
      BY <2>1 DEF Dispatched
    <3>2. bkt[b].freelist = OnFreelist(b)
      BY <1>2 DEF BucketOK
    <3>3. home[e] = b
      BY <3>1, <3>2 DEF OnFreelist
    <3> QED
      BY <1>1, <2>2, <3>1, <3>3
  <2>5. ASSUME NEW a \in Bucket, a # b PROVE BucketOK(a)'
    <3>1. bkt'[a] = bkt[a] /\ home' = home
      BY <1>1, <2>1, <2>5 DEF Dispatched
    <3> QED
      BY <1>2, <2>4, <2>5, <3>1, SameBucket
  <2>6. \A d \in Ent : EntOK(d)'
    BY <1>1, <1>2, <2>1, <2>2, <2>4 DEF EntOK, Dispatched
  <2> QED
    BY <2>3, <2>5, <2>6
<1>9. ASSUME NEW w \in Worker, WorkerStep(w), ~ExtendLink(w), ~ExtendStart(w) PROVE Goal
  <2>1. UNCHANGED <<eat, func, home, bkt>>
    BY <1>9, WorkerGos DEF WGo, WMove
  <2>2. Dynamic' = Dynamic
    BY <1>9, OthersFrame DEF OtherStep, Others, Dynamic
  <2> QED
    BY <1>5, <2>1, <2>2 DEF SameCounts
<1>10. ASSUME NEW x \in Client \cup Worker, ExtendLink(x) PROVE Goal
  <2>1. PICK e \in Ent : LinkGo(x, e) /\ Linked(x, e)
    BY <1>1, <1>10, LinkTable
  <2>2. eat[e] = "none" /\ eat' = [eat EXCEPT ![e] = "stopped"] /\ tq' = tq
    BY <2>1 DEF LinkGo, Linked
  <2>3. PICK b \in Bucket : b = loc[x].bucket /\ Dynamic
    <3>1. Kind(pc[x]) = "create"
      BY <2>1, KindFacts DEF LinkGo, PCs
    <3>2. CASE x \in Client
      <4>1. cat[x] = "create" /\ cloc[x] = loc[x]
        BY <1>1, <3>1, <3>2, ViewTypes
      <4> QED
        BY <3>2, <4>1 DEF Inv, LocalsOK, Ext
    <3>3. CASE x \in Worker
      <4>1. wat[x] = "create" /\ wloc[x] = loc[x]
        BY <1>1, <3>1, <3>3, ViewTypes
      <4> QED
        BY <3>3, <4>1 DEF Inv, WorkOK, Ext
    <3> QED
      BY <3>2, <3>3
  <2>4. /\ home' = [home EXCEPT ![e] = b] /\ func' = [func EXCEPT ![e] = NULL]
        /\ bkt' = [bkt EXCEPT ![b].freelist = @ \cup {e}, ![b].nfree = @ + 1]
    BY <2>1, <2>3 DEF Linked
  <2>5. home[e] = NULL
    BY <1>2, <2>2 DEF EntOK
  <2>6. BucketOK(b)'
    BY <1>1, <1>2, <2>4, <2>5, LinkedBucket
  <2>7. ASSUME NEW a \in Bucket, a # b PROVE BucketOK(a)'
    <3>1. bkt'[a] = bkt[a] /\ (\A d \in Ent : home'[d] = a <=> home[d] = a)
          /\ \A d \in Ent : home[d] = a => func'[d] = func[d]
      BY <1>1, <2>4, <2>5, <2>7
    <3> QED
      BY <1>2, <3>1, SameBucket
  <2>8. Dynamic'
    BY <2>2, <2>3 DEF Dynamic
  <2>9. \A d \in Ent : EntOK(d)'
    BY <1>1, <1>2, <2>2, <2>4, <2>8 DEF EntOK
  <2> QED
    BY <2>6, <2>7, <2>9
<1>11. ASSUME NEW x \in Client \cup Worker, ExtendStart(x) PROVE Goal
  <2>1. PICK e \in Ent : StartGo(x, e)
    BY <1>1, <1>11, StartTable DEF Inv
  <2>2. eat' = [eat EXCEPT ![e] = "start"] /\ UNCHANGED <<tq, bkt, func, home>>
    BY <1>11, <2>1 DEF StartGo, ExtendStart
  <2>3. eat[e] = "stopped"
    BY <2>1 DEF StartGo, Inv, SetrunOK
  <2>4. \A d \in Ent : EntOK(d)'
    BY <1>1, <1>2, <2>2, <2>3 DEF EntOK, Dynamic
  <2>5. \A b \in Bucket : BucketOK(b)'
    BY <1>2, <2>2, SameBucket
  <2> QED
    BY <2>4, <2>5
<1>12. ASSUME NEW e \in Ent, taskq_d_thread(e) PROVE Goal
  <2>1. Dynamic' = Dynamic
    BY <1>12, OthersFrame DEF OtherStep, Others, Dynamic
  <2>2. CASE EntRun(e) \/ EntSleep(e) \/ EntTimeout(e)
    <3>1. UNCHANGED <<func, home, bkt>>
      BY <2>2 DEF EntRun, EntSleep, EntTimeout
    <3>2. \E k : /\ eat[e] # "none" /\ k # "none" /\ eat' = [eat EXCEPT ![e] = k]
                 /\ k = "run" => func[e] # NULL
      BY <1>1, <2>2, EntTable DEF EGo, EMove, EntRun
    <3>3. \A d \in Ent : EntOK(d)'
      BY <1>1, <1>2, <2>1, <3>1, <3>2 DEF EntOK
    <3> QED
      BY <1>2, <3>1, <3>3, SameBucket
  <2>3. ASSUME EntDone(e) \/ EntDie(e) PROVE home[e] \in Bucket
    <3>1. eat[e] # "none"
      BY <1>1, <2>3, EntTable
    <3> QED
      BY <1>1, <1>2, <3>1 DEF EntOK
  <2>4. CASE EntDone(e)
    <3>1. PICK b \in Bucket : b = home[e]
      BY <2>3, <2>4
    <3>2. /\ bkt' = [bkt EXCEPT ![b].freelist = @ \cup {e}, ![b].nalloc = @ - 1, ![b].nfree = @ + 1]
          /\ func' = [func EXCEPT ![e] = NULL] /\ home' = home
      BY <2>4, <3>1 DEF EntDone
    <3>3. eat[e] = "run" /\ eat' = [eat EXCEPT ![e] = "awake"] /\ func[e] # NULL
      BY <1>1, <1>2, <2>4, EntTable DEF EGo, EMove, EntOK
    <3>4. BucketOK(b)'
      BY <1>1, <1>2, <3>1, <3>2, <3>3, DoneBucket
    <3>5. ASSUME NEW a \in Bucket, a # b PROVE BucketOK(a)'
      <4>1. bkt'[a] = bkt[a] /\ \A d \in Ent : home[d] = a => func'[d] = func[d]
        BY <1>1, <3>1, <3>2, <3>5
      <4> QED
        BY <1>2, <3>2, <4>1, SameBucket
    <3>6. \A d \in Ent : EntOK(d)'
      BY <1>1, <1>2, <2>1, <3>2, <3>3 DEF EntOK
    <3> QED
      BY <3>4, <3>5, <3>6
  <2>5. CASE EntDie(e)
    <3>1. PICK b \in Bucket : b = home[e]
      BY <2>3, <2>5
    <3>2. /\ bkt' = [bkt EXCEPT ![b].freelist = @ \ {e}, ![b].nfree = @ - 1]
          /\ func' = func /\ home' = [home EXCEPT ![e] = NULL] /\ func[e] = NULL
      BY <2>5, <3>1 DEF EntDie
    <3>3. eat' = [eat EXCEPT ![e] = "none"]
      BY <1>1, <2>5, EntTable DEF EGo, EMove
    <3>4. BucketOK(b)'
      BY <1>1, <1>2, <3>1, <3>2, DeadBucket
    <3>5. ASSUME NEW a \in Bucket, a # b PROVE BucketOK(a)'
      <4>1. bkt'[a] = bkt[a] /\ \A d \in Ent : home'[d] = a <=> home[d] = a
        BY <1>1, <3>1, <3>2, <3>5
      <4> QED
        BY <1>2, <3>2, <4>1, SameBucket
    <3>6. \A d \in Ent : EntOK(d)'
      BY <1>1, <1>2, <2>1, <3>2, <3>3 DEF EntOK
    <3> QED
      BY <3>4, <3>5, <3>6
  <2> QED
    BY <1>12, <2>2, <2>4, <2>5 DEF taskq_d_thread
<1> QED
  BY <1>4, <1>6, <1>7, <1>8, <1>9, <1>10, <1>11, <1>12, Cases DEF StepCases

----------------------------------------------------------------------------
(* Workers and the list *)

\* What is appended is at the end, and the rest where it was.
LEMMA Appended ==
  ASSUME NEW S, NEW s \in Seq(S), NEW x \in S
  PROVE  /\ Append(s, x) \in Seq(S) /\ Len(Append(s, x)) = Len(s) + 1 /\ Len(s) \in Nat
         /\ \A i \in DOMAIN s : i \in DOMAIN Append(s, x) /\ Append(s, x)[i] = s[i]
         /\ Len(s) + 1 \in DOMAIN Append(s, x) /\ Append(s, x)[Len(s) + 1] = x
         /\ \A i \in DOMAIN Append(s, x) : i \in DOMAIN s \/ i = Len(s) + 1
         /\ Len(s) + 1 \notin DOMAIN s
BY AppendProperties
\* What is taken off the front leaves the rest.
LEMMA Shifted ==
  ASSUME NEW S, NEW s \in Seq(S), s # <<>>
  PROVE  /\ Tail(s) \in Seq(S) /\ Len(Tail(s)) = Len(s) - 1 /\ Head(s) \in S
         /\ 1 \in DOMAIN s /\ Head(s) = s[1] /\ Len(s) \in Nat /\ Len(s) > 0
         /\ \A i \in DOMAIN Tail(s) : i + 1 \in DOMAIN s /\ i \in Nat /\ i + 1 # 1 /\ Tail(s)[i] = s[i + 1]
         /\ \A i \in DOMAIN s : i = 1 \/ (i \in Int /\ i - 1 \in DOMAIN Tail(s) /\ Tail(s)[i - 1] = s[i])
<1>1. /\ Tail(s) \in Seq(S) /\ Len(Tail(s)) = Len(s) - 1 /\ Head(s) \in S
      /\ Head(s) = s[1] /\ Len(s) \in Nat /\ Len(s) > 0 /\ DOMAIN s = 1..Len(s)
  BY HeadTailProperties, EmptySeq, LenProperties
<1>2. DOMAIN Tail(s) = 1..(Len(s) - 1)
  BY <1>1
<1>3. \A i \in 1..(Len(s) - 1) : Tail(s)[i] = s[i + 1]
  BY <1>1
<1> QED
  BY <1>1, <1>2, <1>3

\* The enqueued entry, and the queue's counts.
LEMMA EnqueueTable ==
  ASSUME Inv, NEW c \in Client, Enqueue(c)
  PROVE  LET h == Head(cloc[c].todo) IN
         /\ h \in Task \cup Bucket /\ (h \in Bucket => Dynamic)
         /\ h \in Task => /\ h = cloc[c].task /\ status[h] = "called" /\ status'[h] = "queued"
         /\ tq' = [tq EXCEPT !.task = Append(@, h), !.nalloc = tq'.nalloc, !.freelist = tq'.freelist]
         /\ tq'.nalloc - tq'.freelist = tq.nalloc - tq.freelist + 1
         /\ tq'.nalloc \in Int /\ tq'.freelist \in Nat
         /\ UNCHANGED <<bkt, func, home, life, seen>>
<1>1. Typ /\ LocalsOK /\ tq \in TqType /\ cloc[c] = loc[c] /\ tq.nalloc \in Int /\ tq.freelist \in Nat
  BY ViewTypes DEF Inv, Typ, TqType
<1>2. NextEntStep(c)
  BY DEF Enqueue, NextEntStep
<1>3. PICK h : h = Head(cloc[c].todo)
  OBVIOUS
<1>4. /\ cloc[c].task \in Task
      /\ \/ h \in Bucket /\ Dynamic
         \/ h = cloc[c].task /\ status[h] = "called" /\ Len(cloc[c].todo) = 1
  BY <1>1, <1>2, <1>3, EnqueueStatus DEF TodoCases
<1>5. h = cloc[c].task /\ Len(cloc[c].todo) = 1 => status'[h] = "queued"
  BY <1>1, <1>2, <1>3, EnqueueStatus
<1>6. \A b \in Bucket : b \notin Task
  BY TaskqAssumption
<1>7. PICK n \in Int, f \in Nat : /\ tq' = [tq EXCEPT !.task = Append(@, h), !.nalloc = n, !.freelist = f]
                                  /\ n - f = tq.nalloc - tq.freelist + 1
  <2>1. CASE FromFreelist(c)
    <3>1. /\ tq' = [tq EXCEPT !.task = Append(@, h), !.nalloc = tq.nalloc, !.freelist = tq.freelist - 1]
          /\ tq.freelist > 0
      BY <1>1, <1>3, <2>1 DEF FromFreelist, TQ_ENQUEUE, HasFree
    <3>2. PICK m \in Nat : m = tq.freelist - 1
      BY <1>1, <3>1
    <3>3. tq' = [tq EXCEPT !.task = Append(@, h), !.nalloc = tq.nalloc, !.freelist = m]
      BY <3>1, <3>2
    <3>4. tq.nalloc - m = tq.nalloc - tq.freelist + 1
      BY <1>1, <3>2
    <3> QED
      BY <1>1, <3>3, <3>4
  <2>2. CASE EnqueueNew(c)
    <3>1. tq' = [tq EXCEPT !.task = Append(@, h), !.nalloc = tq.nalloc + 1, !.freelist = tq.freelist]
      BY <1>1, <1>3, <2>2 DEF EnqueueNew, TQ_ENQUEUE
    <3>2. PICK m \in Int : m = tq.nalloc + 1
      BY <1>1
    <3>3. tq' = [tq EXCEPT !.task = Append(@, h), !.nalloc = m, !.freelist = tq.freelist]
      BY <3>1, <3>2
    <3>4. m - tq.freelist = tq.nalloc - tq.freelist + 1
      BY <1>1, <3>2
    <3> QED
      BY <1>1, <3>3, <3>4
  <2> QED
    BY <2>1, <2>2 DEF Enqueue
<1>8. tq'.nalloc = n /\ tq'.freelist = f
  BY <1>1, <1>7 DEF TqType
<1>9. UNCHANGED <<bkt, func, home, life, seen>>
  BY DEF Enqueue, FromFreelist, EnqueueNew, TQ_ENQUEUE
<1> QED
  BY <1>3, <1>4, <1>5, <1>6, <1>7, <1>8, <1>9

\* The locals of workers and the readers of tq_threadlock.
LEMMA WorkPreserved ==
  ASSUME Inv, Next
  PROVE  WorkOK'
<1>1. /\ Typ /\ WorkOK /\ FreedQuiet /\ tq \in TqType /\ wat \in [Worker -> PCs]
      /\ wloc \in [Worker -> LocType] /\ tq.task \in Seq(Task \cup Bucket)
  BY ViewTypes DEF Inv, Typ, TqType
<1>2. ASSUME UNCHANGED <<wat, wloc>>, Dynamic' = Dynamic, tq'.task = tq.task, tq'.readers = tq.readers
      PROVE  WorkOK'
  BY <1>1, <1>2 DEF WorkOK
<1>3. ASSUME NEW c \in Client, taskq_create(c) PROVE WorkOK'
  <2>1. PICK f \in CreateFlags, W \in SUBSET Worker : CreateGo(c, f, W)
    BY <1>1, <1>3, CreateTable
  <2>2. /\ tq.task = <<>> /\ tq.readers = {} /\ \A w \in Worker : wat[w] = "none"
    BY <1>1, <2>1, KindFacts, ViewTypes DEF CreateGo, FreedQuiet, PCs
  <2>3. tq'.task = tq.task /\ tq'.readers = tq.readers
    BY <1>1, <2>1 DEF CreateGo, TqType
  <2>4. wloc' = wloc /\ \A w \in Worker : wat'[w] \in {"none", "loop"} /\ wloc[w].task = NULL
    BY <1>1, <2>1, <2>2 DEF CreateGo, WorkOK
  <2>5. \A w \in Worker : wat'[w] \notin Ext \cup {"run"} /\ wat'[w] # "rw_enter" /\ wat'[w] \notin Ext
    BY <2>4 DEF Ext
  <2>6. DOMAIN tq.task = {}
    BY <2>2
  <2> QED
    BY <2>2, <2>3, <2>4, <2>5, <2>6 DEF WorkOK
<1>4. ASSUME NEW c \in Client, QuietStep(c) PROVE WorkOK'
  BY <1>2, <1>4, QuietFrame, QuietGo DEF CGo, CMove
<1>5. ASSUME NEW c \in Client, Enqueue(c) PROVE WorkOK'
  <2>1. UNCHANGED <<wat, wloc>> /\ Dynamic' = Dynamic
    BY <1>5, QuietGo DEF CGo, CMove
  <2>2. PICK h \in Task \cup Bucket : tq'.task = Append(tq.task, h) /\ tq'.readers = tq.readers /\ (h \in Bucket => Dynamic)
    BY <1>1, <1>5, EnqueueTable DEF TqType
  <2>3. \A i \in DOMAIN tq'.task : tq'.task[i] \in Bucket => Dynamic
    BY <1>1, <2>2, Appended DEF WorkOK
  <2> QED
    BY <1>1, <2>1, <2>2, <2>3 DEF WorkOK
<1>6. ASSUME NEW c \in Client, taskq_bucket_dispatch(c) PROVE WorkOK'
  <2>1. UNCHANGED <<wat, wloc, tq>>
    BY <1>6, QuietGo DEF CGo, CMove, taskq_bucket_dispatch
  <2> QED
    BY <1>2, <2>1 DEF Dynamic
<1>7. ASSUME NEW e \in Ent, taskq_d_thread(e) PROVE WorkOK'
  <2>1. UNCHANGED <<wat, wloc>>
    BY <1>1, <1>7, EntTable DEF taskq_d_thread, EGo, EMove
  <2>2. tq'.task = tq.task /\ tq'.readers = tq.readers /\ tq'.flags = tq.flags
    BY <1>1, <1>7 DEF taskq_d_thread, EntRun, EntDone, EntSleep, EntTimeout, EntDie, TqType
  <2> QED
    BY <1>2, <2>1, <2>2 DEF Dynamic
<1>8. ASSUME NEW x \in Client \cup Worker, ExtendLink(x) \/ ExtendStart(x) PROVE WorkOK'
  <2>1. tq' = tq
    BY <1>8 DEF ExtendLink, ExtendStart
  <2>2. CASE x \in Client
    <3>1. UNCHANGED <<wat, wloc>>
      BY <1>1, <1>8, <2>2, LinkTable, StartTable DEF Inv, LinkGo, StartGo, Moves
    <3> QED
      BY <1>2, <2>1, <3>1 DEF Dynamic
  <2>3. CASE x \in Worker
    <3>1. PICK k, e : /\ wat' = [wat EXCEPT ![x] = k] /\ wloc' = [wloc EXCEPT ![x] = EntLoc(x, e)]
                      /\ k \in {"setrun", "run"} /\ pc[x] \in {"create", "setrun"}
      BY <1>1, <1>8, <2>3, LinkTable, StartTable DEF Inv, LinkGo, StartGo, Moves, ExtendRet
    <3>2. wat[x] \in Ext
      BY <1>1, <3>1, <2>3, KindFacts, ViewTypes DEF Ext, PCs
    <3>3. EntLoc(x, e).task = wloc[x].task /\ EntLoc(x, e).bucket = wloc[x].bucket
      BY <1>1, <2>3, ViewTypes DEF EntLoc, LocType
    <3>4. wloc[x].task = NULL /\ wloc[x].bucket \in Bucket /\ Dynamic
      BY <1>1, <2>3, <3>2 DEF WorkOK
    <3>5. /\ wat'[x] \in {"setrun", "run"} /\ wloc'[x] = EntLoc(x, e)
          /\ \A w \in Worker : w # x => wat'[w] = wat[w] /\ wloc'[w] = wloc[w]
      BY <1>1, <2>3, <3>1
    <3>6. \A w \in Worker :
            /\ wat'[w] \in {"none", "loop", "awake", "ent_free"} => wloc'[w].task = NULL
            /\ wat'[w] = "rw_enter" /\ wloc'[w].task = NULL => wloc'[w].bucket \in Bucket /\ Dynamic
            /\ wat'[w] \in Ext => wloc'[w].task = NULL /\ wloc'[w].bucket \in Bucket /\ Dynamic
      BY <1>1, <3>3, <3>4, <3>5 DEF WorkOK
    <3>7. tq.readers = {w \in Worker : wat'[w] \in Ext \cup {"run"}}
      BY <1>1, <3>2, <3>5 DEF WorkOK, Ext
    <3> QED
      BY <1>1, <2>1, <3>6, <3>7 DEF WorkOK, Dynamic
  <2> QED
    BY <2>2, <2>3
<1>9. ASSUME NEW w \in Worker, WorkerStep(w), ~ExtendLink(w), ~ExtendStart(w) PROVE WorkOK'
  <2>1. Dynamic' = Dynamic
    BY <1>9, OthersFrame DEF OtherStep, Others, Dynamic
  <2>2. ASSUME NEW k, NEW r, WGo(w, k, r),
               k \in {"none", "loop", "awake", "ent_free"} => r.task = NULL,
               k = "rw_enter" /\ r.task = NULL => r.bucket \in Bucket /\ Dynamic,
               k \in Ext => r.task = NULL /\ r.bucket \in Bucket /\ Dynamic,
               \A i \in DOMAIN tq'.task : tq'.task[i] \in Bucket => Dynamic,
               tq'.readers = IF k \in Ext \cup {"run"} THEN tq.readers \cup {w} ELSE tq.readers \ {w}
        PROVE  WorkOK'
    <3>1. /\ wat'[w] = k /\ wloc'[w] = r
          /\ \A v \in Worker : v # w => wat'[v] = wat[v] /\ wloc'[v] = wloc[v]
      BY <1>1, <2>2 DEF WGo, WMove
    <3>2. tq'.readers = {v \in Worker : wat'[v] \in Ext \cup {"run"}}
      BY <1>1, <2>2, <3>1 DEF WorkOK
    <3>3. \A v \in Worker :
            /\ wat'[v] \in {"none", "loop", "awake", "ent_free"} => wloc'[v].task = NULL
            /\ wat'[v] = "rw_enter" /\ wloc'[v].task = NULL => wloc'[v].bucket \in Bucket /\ Dynamic
            /\ wat'[v] \in Ext => wloc'[v].task = NULL /\ wloc'[v].bucket \in Bucket /\ Dynamic
      BY <1>1, <2>2, <3>1 DEF WorkOK
    <3> QED
      BY <2>1, <2>2, <3>2, <3>3 DEF WorkOK
  <2>3. /\ \A i \in DOMAIN tq.task : tq.task[i] \in Bucket => Dynamic
        /\ wat[w] \in Ext \cup {"run"} => tq.readers = tq.readers \cup {w}
        /\ wat[w] \notin Ext \cup {"run"} => tq.readers = tq.readers \ {w}
    BY <1>1 DEF WorkOK
  <2>4. CASE WorkerSleep(w) \/ WorkerExit(w) \/ taskq_ent_free(w)
    <3>1. tq'.task = tq.task /\ tq'.readers = tq.readers
      BY <1>1, <2>4 DEF WorkerSleep, WorkerExit, taskq_ent_free, TqType
    <3>2. /\ WGo(w, "awake", wloc[w]) \/ WGo(w, "none", wloc[w]) \/ WGo(w, "loop", wloc[w])
          /\ wat[w] \in {"loop", "awake", "ent_free"}
      BY <1>1, <2>4, WorkerTable DEF WorkerSleep, WorkerExit
    <3>3. wloc[w].task = NULL /\ wat[w] \notin Ext \cup {"run"}
      BY <1>1, <3>2 DEF WorkOK, Ext
    <3> QED
      BY <2>2, <2>3, <3>1, <3>2, <3>3 DEF Ext
  <2>5. CASE WorkerTake(w)
    <3>1. /\ WGo(w, "rw_enter", TakenLoc(w, Head(tq.task))) /\ wat[w] \in {"loop", "awake"}
          /\ tq.task # <<>> /\ tq'.task = Tail(tq.task) /\ tq'.readers = tq.readers
      BY <1>1, <2>5, WorkerTable DEF WorkerTake, TqType
    <3>2. Head(tq.task) \in Task \cup Bucket /\ (Head(tq.task) \in Bucket => Dynamic)
      BY <1>1, <2>3, <3>1, Shifted
    <3>3. \A i \in DOMAIN tq'.task : tq'.task[i] \in Bucket => Dynamic
      BY <1>1, <2>3, <3>1, Shifted
    <3>4. /\ TakenLoc(w, Head(tq.task)).task = IF Head(tq.task) \in Task THEN Head(tq.task) ELSE NULL
          /\ TakenLoc(w, Head(tq.task)).bucket = IF Head(tq.task) \in Task THEN NULL ELSE Head(tq.task)
      BY <1>1 DEF TakenLoc, LocType
    <3>5. TakenLoc(w, Head(tq.task)).task = NULL => TakenLoc(w, Head(tq.task)).bucket \in Bucket /\ Dynamic
      BY <3>2, <3>4, TaskqAssumption
    <3>6. wat[w] \notin Ext \cup {"run"}
      BY <3>1 DEF Ext
    <3> QED
      BY <2>2, <2>3, <3>1, <3>3, <3>5, <3>6 DEF Ext
  <2>6. CASE WorkerRun(w)
    <3>1. tq'.task = tq.task /\ tq'.readers = tq.readers \cup {w}
      BY <1>1, <2>6 DEF WorkerRun, TqType
    <3>2. CASE wloc[w].task = NULL
      <4>1. wat[w] = "rw_enter" /\ WGo(w, "extend", wloc[w])
        BY <1>1, <2>6, <3>2, WorkerTable
      <4>2. wloc[w].bucket \in Bucket /\ Dynamic
        BY <1>1, <3>2, <4>1 DEF WorkOK
      <4> QED
        BY <2>2, <2>3, <3>1, <3>2, <4>1, <4>2 DEF Ext
    <3>3. CASE wloc[w].task # NULL
      <4>1. wat[w] = "rw_enter" /\ WGo(w, "run", wloc[w])
        BY <1>1, <2>6, <3>3, WorkerTable
      <4> QED
        BY <2>2, <2>3, <3>1, <4>1 DEF Ext
    <3> QED
      BY <3>2, <3>3
  <2>7. CASE WorkerDone(w)
    <3>1. tq'.task = tq.task /\ tq'.readers = tq.readers \ {w}
      BY <1>1, <2>7 DEF WorkerDone, TqType
    <3>2. WGo(w, "ent_free", NoLocals) /\ NoLocals.task = NULL
      BY <1>1, <2>7, WorkerTable DEF NoLocals
    <3> QED
      BY <2>2, <2>3, <3>1, <3>2 DEF Ext
  <2>8. CASE ExtendRefused(w) \/ ExtendCount(w) \/ ExtendNoMem(w)
    <3>1. tq'.task = tq.task /\ tq'.readers = tq.readers
      BY <1>1, <2>8 DEF ExtendRefused, ExtendCount, ExtendNoMem, TqType
    <3>2. wat[w] \in Ext /\ (WGo(w, "run", wloc[w]) \/ WGo(w, "create", wloc[w]))
      BY <1>1, <2>8, WorkerTable DEF Ext
    <3>3. wloc[w].task = NULL /\ wloc[w].bucket \in Bucket /\ Dynamic
      BY <1>1, <3>2 DEF WorkOK
    <3> QED
      BY <2>2, <2>3, <3>1, <3>2, <3>3 DEF Ext
  <2> QED
    BY <1>9, <2>4, <2>5, <2>6, <2>7, <2>8 DEF WorkerStep, taskq_thread, taskq_bucket_extend
<1> QED
  BY <1>3, <1>4, <1>5, <1>6, <1>7, <1>8, <1>9, Cases DEF StepCases

----------------------------------------------------------------------------
(* Types *)

\* What is typed but where threads are and their locals.
DataTyp == /\ tq \in TqType /\ bkt \in [Bucket -> BktType]
           /\ func \in [Ent -> Task \cup {NULL}] /\ home \in [Ent -> Bucket \cup {NULL}]
           /\ life \in {"none", "creating", "live", "closing"}
           /\ status \in [Task -> {"new", "called", "refused", "queued", "running", "done"}]
           /\ seen \in [Client -> SUBSET Task]

\* The steps of clients keep the types.
LEMMA ClientData ==
  ASSUME Inv, NEW c \in Client, ClientSteps(c), ~taskq_create(c), ~ExtendLink(c)
  PROVE  DataTyp'
<1>1. /\ Typ /\ DataTyp /\ tq \in TqType /\ bkt \in [Bucket -> BktType]
      /\ func \in [Ent -> Task \cup {NULL}] /\ home \in [Ent -> Bucket \cup {NULL}]
      /\ status \in [Task -> {"new", "called", "refused", "queued", "running", "done"}]
      /\ seen \in [Client -> SUBSET Task]
  BY DEF Inv, Typ, DataTyp
<1>11. tq \in TqType
  BY <1>1
<1>2. CASE \/ Populate(c) \/ ExtendRefused(c) \/ ExtendStart(c) \/ BucketMiss(c) \/ AllocUnlock(c)
           \/ kmem_cache_alloc(c) \/ WaitList(c) \/ WaitBucket(c) \/ taskq_resume(c) \/ JoinBucket(c)
  BY <1>1, <1>2 DEF DataTyp, Populate, ExtendRefused, ExtendStart, BucketMiss, AllocUnlock, kmem_cache_alloc,
     WaitList, WaitBucket, taskq_resume, JoinBucket
<1>3. CASE Created(c) \/ taskq_wait(c) \/ taskq_destroy(c) \/ Waited(c)
  BY <1>1, <1>3 DEF DataTyp, Created, taskq_wait, taskq_destroy, Waited, Pending
<1>4. CASE ExtendCount(c) \/ ExtendNoMem(c) \/ taskq_suspend(c) \/ Suspended(c) \/ Resumed(c) \/ Deactivate(c) \/ Join(c)
  <2>1. UNCHANGED <<bkt, func, home, life, status, seen>>
    BY <1>4 DEF ExtendCount, ExtendNoMem, taskq_suspend, Suspended, Resumed, Deactivate, Join
  <2>2. tq' \in TqType
    <3>1. CASE ExtendCount(c)
      BY <1>11, <3>1 DEF ExtendCount, TqType
    <3>2. CASE ExtendNoMem(c)
      BY <1>11, <3>2 DEF ExtendNoMem, TqType
    <3>3. CASE taskq_suspend(c)
      BY <1>11, <3>3, TaskqAssumption DEF taskq_suspend, TqType
    <3>4. CASE Suspended(c)
      BY <1>11, <3>4 DEF Suspended, TqType
    <3>5. CASE Resumed(c)
      BY <1>11, <3>5, TaskqAssumption DEF Resumed, TqType
    <3>6. CASE Deactivate(c)
      BY <1>11, <3>6 DEF Deactivate, TqType
    <3>7. CASE Join(c)
      <4>1. tq' = tq \/ tq' = [tq EXCEPT !.minalloc = 0]
        BY <3>7 DEF Join
      <4> QED
        BY <1>11, <4>1 DEF TqType
    <3> QED
      BY <1>4, <3>1, <3>2, <3>3, <3>4, <3>5, <3>6, <3>7
  <2> QED
    BY <1>1, <2>1, <2>2 DEF DataTyp
<1>5. CASE Drain(c)
  <2>1. tq' \in TqType
    <3>1. tq' = tq \/ (tq.freelist > 0 /\ tq' = [tq EXCEPT !.freelist = @ - 1, !.nalloc = @ - 1])
      BY <1>5 DEF Drain
    <3>2. CASE tq.freelist > 0 /\ tq' = [tq EXCEPT !.freelist = @ - 1, !.nalloc = @ - 1]
      <4>1. tq.freelist - 1 \in Nat /\ tq.nalloc - 1 \in Int
        BY <1>11, <3>2 DEF TqType
      <4> QED
        BY <1>11, <3>2, <4>1 DEF TqType
    <3> QED
      BY <1>1, <3>1, <3>2
  <2> QED
    BY <1>1, <1>5, <2>1 DEF Drain, DataTyp
<1>6. CASE Free(c)
  <2>1. tq' \in TqType
    <3>1. PICK n \in Int : tq' = [tq EXCEPT !.live = n]
      <4>1. (IF Dynamic THEN 0 ELSE tq.live) \in Int
        BY <1>11 DEF TqType
      <4> QED
        BY <1>6, <4>1 DEF Free
    <3> QED
      BY <1>11, <3>1 DEF TqType
  <2>2. seen' \in [Client -> SUBSET Task]
    BY <1>1, <1>6 DEF Free
  <2> QED
    BY <1>1, <1>6, <2>1, <2>2 DEF Free, DataTyp
<1>7. CASE SuspendBucket(c) \/ ResumeBucket(c) \/ CloseBucket(c)
  <2>1. UNCHANGED <<tq, func, home, life, status, seen>>
    BY <1>7 DEF SuspendBucket, ResumeBucket, CloseBucket
  <2>2. bkt' \in [Bucket -> BktType]
    BY <1>1, <1>7 DEF SuspendBucket, ResumeBucket, CloseBucket, BktType
  <2> QED
    BY <1>1, <2>1, <2>2 DEF DataTyp
<1>8. ASSUME NEW t \in Task, NEW f \in DispatchFlags, taskq_dispatch(c, t, f) PROVE DataTyp'
  BY <1>1, <1>8 DEF taskq_dispatch, DataTyp
<1>9. CASE taskq_bucket_dispatch(c)
  <2>1. PICK b \in Bucket, e \in Ent : Dispatched(c, b, e)
    BY <1>9, DispatchTable
  <2>2. bkt' \in [Bucket -> BktType]
    BY <1>1, <2>1 DEF Dispatched, BktType
  <2>3. /\ func' \in [Ent -> Task \cup {NULL}]
        /\ status' \in [Task -> {"new", "called", "refused", "queued", "running", "done"}]
    BY <1>1, <2>1 DEF Dispatched
  <2> QED
    BY <1>1, <2>1, <2>2, <2>3 DEF Dispatched, DataTyp
<1>10. CASE NextEntStep(c)
  <2>1. status' \in [Task -> {"new", "called", "refused", "queued", "running", "done"}]
    <3>1. PICK st, W : NextEnt(c, st, W) /\ (st = status \/ st = [t \in Task |-> IF t = Head(loc[c].todo) THEN "queued" ELSE status[t]])
      BY <1>10 DEF NextEntStep, FromFreelist, EnqueueNew, AllocFailed, TQ_ENQUEUE
    <3>2. st \in [Task -> {"new", "called", "refused", "queued", "running", "done"}]
      BY <1>1, <3>1
    <3> QED
      BY <3>1, <3>2 DEF NextEnt
  <2>2. UNCHANGED <<bkt, func, home, life, seen>>
    BY <1>10 DEF NextEntStep, FromFreelist, EnqueueNew, AllocFailed, TQ_ENQUEUE
  <2>3. CASE AllocFailed(c)
    BY <1>1, <2>1, <2>2, <2>3 DEF AllocFailed, DataTyp
  <2>4. CASE Enqueue(c)
    <3>1. PICK h \in Task \cup Bucket, n \in Int, f \in Nat :
            tq' = [tq EXCEPT !.task = Append(@, h), !.nalloc = n, !.freelist = f]
      <4>1. PICK h : h = Head(cloc[c].todo)
        OBVIOUS
      <4>2. PICK n, f : n = tq'.nalloc /\ f = tq'.freelist
        OBVIOUS
      <4>3. /\ h \in Task \cup Bucket /\ n \in Int /\ f \in Nat
            /\ tq' = [tq EXCEPT !.task = Append(@, h), !.nalloc = n, !.freelist = f]
        BY <2>4, <4>1, <4>2, EnqueueTable
      <4> QED
        BY <4>3
    <3>2. PICK q \in Seq(Task \cup Bucket) : q = Append(tq.task, h)
      BY <1>11, Appended DEF TqType
    <3>3. tq' = [tq EXCEPT !.task = q, !.nalloc = n, !.freelist = f]
      BY <3>1, <3>2
    <3>4. tq' \in TqType
      BY <1>11, <3>3 DEF TqType
    <3> QED
      BY <1>1, <2>1, <2>2, <3>4 DEF DataTyp
  <2> QED
    BY <1>10, <2>3, <2>4 DEF NextEntStep, Enqueue
<1> QED
  BY <1>2, <1>3, <1>4, <1>5, <1>6, <1>7, <1>8, <1>9, <1>10
  DEF ClientSteps, Call, ClientStep, taskq_bucket_extend, taskq_ent_alloc, NextEntStep

\* A bucket whose entries have changed is a bucket.
LEMMA BktFields ==
  ASSUME NEW q \in BktType, NEW e \in Ent
  PROVE  /\ [q EXCEPT !.freelist = @ \cup {e}, !.nalloc = @ - 1, !.nfree = @ + 1] \in BktType
         /\ [q EXCEPT !.freelist = @ \ {e}, !.nfree = @ - 1] \in BktType
<1>1. q.freelist \cup {e} \in SUBSET Ent /\ q.freelist \ {e} \in SUBSET Ent
      /\ q.nalloc - 1 \in Int /\ q.nfree + 1 \in Int /\ q.nfree - 1 \in Int
  BY DEF BktType
<1> QED
  BY <1>1 DEF BktType

\* So do the steps of workers and of the threads of entries.
LEMMA OtherData ==
  ASSUME Inv, OtherStep, \A w \in Worker : ~ExtendLink(w)
  PROVE  DataTyp'
<1>1. /\ Typ /\ DataTyp /\ tq \in TqType /\ bkt \in [Bucket -> BktType]
      /\ func \in [Ent -> Task \cup {NULL}] /\ home \in [Ent -> Bucket \cup {NULL}]
      /\ status \in [Task -> {"new", "called", "refused", "queued", "running", "done"}]
      /\ loc \in [Client \cup Worker -> LocType]
  BY DEF Inv, Typ, DataTyp
<1>11. tq \in TqType
  BY <1>1
<1>2. ASSUME NEW w \in Worker, WorkerStep(w) PROVE DataTyp'
  <2>1. UNCHANGED <<bkt, func, home, life, seen>>
    BY <1>2 DEF WorkerStep, taskq_thread, taskq_bucket_extend, WorkerSleep, WorkerTake, WorkerExit,
       WorkerRun, WorkerDone, taskq_ent_free, ExtendRefused, ExtendCount, ExtendNoMem, ExtendStart
  <2>2. status' \in [Task -> {"new", "called", "refused", "queued", "running", "done"}]
    BY <1>1, <1>2 DEF WorkerStep, taskq_thread, taskq_bucket_extend, WorkerSleep, WorkerTake, WorkerExit,
       WorkerRun, WorkerDone, taskq_ent_free, ExtendRefused, ExtendCount, ExtendNoMem, ExtendStart
  <2>3. tq' \in TqType
    <3>1. CASE WorkerSleep(w) \/ WorkerExit(w) \/ WorkerRun(w) \/ WorkerDone(w)
      <4>1. CASE WorkerSleep(w)
        <5>1. PICK n \in Int : n = ActiveNow(w) - 1
          BY <1>11 DEF ActiveNow, TqType
        <5>2. tq' = [tq EXCEPT !.active = n]
          BY <4>1, <5>1 DEF WorkerSleep
        <5> QED
          BY <1>11, <5>2 DEF TqType
      <4>2. CASE WorkerExit(w)
        <5>1. PICK n \in Int : n = ActiveNow(w)
          BY <1>11 DEF ActiveNow, TqType
        <5>2. PICK m \in Int : m = tq.nthreads - 1
          BY <1>11 DEF TqType
        <5>3. tq' = [tq EXCEPT !.active = n, !.nthreads = m]
          BY <4>2, <5>1, <5>2 DEF WorkerExit
        <5> QED
          BY <1>11, <5>3 DEF TqType
      <4>3. CASE WorkerRun(w)
        BY <1>11, <4>3 DEF WorkerRun, ActiveNow, TqType
      <4>4. CASE WorkerDone(w)
        BY <1>11, <4>4 DEF WorkerDone, ActiveNow, TqType
      <4> QED
        BY <3>1, <4>1, <4>2, <4>3, <4>4
    <3>2. CASE taskq_ent_free(w) \/ ExtendRefused(w) \/ ExtendCount(w) \/ ExtendNoMem(w) \/ ExtendStart(w)
      <4>1. CASE taskq_ent_free(w)
        <5>1. tq' = [tq EXCEPT !.freelist = @ + 1] \/ tq' = [tq EXCEPT !.nalloc = @ - 1]
          BY <4>1 DEF taskq_ent_free
        <5>2. CASE tq' = [tq EXCEPT !.freelist = @ + 1]
          BY <1>11, <5>2 DEF TqType
        <5>3. CASE tq' = [tq EXCEPT !.nalloc = @ - 1]
          BY <1>11, <5>3 DEF TqType
        <5> QED
          BY <5>1, <5>2, <5>3
      <4>2. CASE ExtendRefused(w)
        BY <1>11, <4>2 DEF ExtendRefused, TqType
      <4>3. CASE ExtendCount(w)
        BY <1>11, <4>3 DEF ExtendCount, TqType
      <4>4. CASE ExtendNoMem(w)
        <5>1. tq' = [tq EXCEPT !.live = @ - 1]
          BY <4>4 DEF ExtendNoMem
        <5> QED
          BY <1>11, <5>1 DEF TqType
      <4>5. CASE ExtendStart(w)
        BY <1>11, <4>5 DEF ExtendStart, TqType
      <4> QED
        BY <3>2, <4>1, <4>2, <4>3, <4>4, <4>5
    <3>3. CASE WorkerTake(w)
      <4>1. PICK q \in Seq(Task \cup Bucket) : q = Tail(tq.task)
        BY <1>11, <3>3, Shifted DEF WorkerTake, TqType
      <4>2. PICK n \in Int : n = ActiveNow(w)
        BY <1>1 DEF ActiveNow, TqType
      <4>3. tq' = [tq EXCEPT !.active = n, !.task = q]
        BY <3>3, <4>1, <4>2 DEF WorkerTake
      <4> QED
        BY <1>11, <4>3 DEF TqType
    <3> QED
      BY <1>2, <3>1, <3>2, <3>3 DEF WorkerStep, taskq_thread, taskq_bucket_extend
  <2> QED
    BY <1>1, <2>1, <2>2, <2>3 DEF DataTyp
<1>3. ASSUME NEW e \in Ent, taskq_d_thread(e) PROVE DataTyp'
  <2>1. UNCHANGED <<life, seen>>
    BY <1>3 DEF taskq_d_thread, EntRun, EntDone, EntSleep, EntTimeout, EntDie
  <2>2. status' \in [Task -> {"new", "called", "refused", "queued", "running", "done"}]
    BY <1>1, <1>3 DEF taskq_d_thread, EntRun, EntDone, EntSleep, EntTimeout, EntDie
  <2>3. func' \in [Ent -> Task \cup {NULL}] /\ home' \in [Ent -> Bucket \cup {NULL}]
    BY <1>1, <1>3 DEF taskq_d_thread, EntRun, EntDone, EntSleep, EntTimeout, EntDie
  <2>4. tq' \in TqType
    <3>1. tq' = tq \/ tq' = [tq EXCEPT !.live = @ - 1]
      BY <1>3 DEF taskq_d_thread, EntRun, EntDone, EntSleep, EntTimeout, EntDie
    <3> QED
      BY <1>11, <3>1 DEF TqType
  <2>6. bkt \in [Bucket -> BktType]
    BY <1>1
  <2>5. bkt' \in [Bucket -> BktType]
    <3>1. \/ bkt' = bkt
          \/ \E b : bkt' = [bkt EXCEPT ![b].freelist = @ \cup {e}, ![b].nalloc = @ - 1, ![b].nfree = @ + 1]
          \/ \E b : bkt' = [bkt EXCEPT ![b].freelist = @ \ {e}, ![b].nfree = @ - 1]
      BY <1>3 DEF taskq_d_thread, EntRun, EntDone, EntSleep, EntTimeout, EntDie
    <3>2. ASSUME NEW b, bkt' = [bkt EXCEPT ![b].freelist = @ \cup {e}, ![b].nalloc = @ - 1, ![b].nfree = @ + 1]
          PROVE  bkt' \in [Bucket -> BktType]
      <4>1. CASE b \in Bucket
        <5>1. PICK q \in BktType : q = [bkt[b] EXCEPT !.freelist = @ \cup {e}, !.nalloc = @ - 1, !.nfree = @ + 1]
          BY <2>6, <4>1, BktFields
        <5>2. bkt' = [bkt EXCEPT ![b] = q]
          BY <2>6, <3>2, <4>1, <5>1 DEF BktType
        <5> QED
          BY <2>6, <5>2
      <4>2. CASE b \notin Bucket
        BY <2>6, <3>2, <4>2
      <4> QED
        BY <4>1, <4>2
    <3>3. ASSUME NEW b, bkt' = [bkt EXCEPT ![b].freelist = @ \ {e}, ![b].nfree = @ - 1]
          PROVE  bkt' \in [Bucket -> BktType]
      <4>1. CASE b \in Bucket
        <5>1. PICK q \in BktType : q = [bkt[b] EXCEPT !.freelist = @ \ {e}, !.nfree = @ - 1]
          BY <2>6, <4>1, BktFields
        <5>2. bkt' = [bkt EXCEPT ![b] = q]
          BY <2>6, <3>3, <4>1, <5>1 DEF BktType
        <5> QED
          BY <2>6, <5>2
      <4>2. CASE b \notin Bucket
        BY <2>6, <3>3, <4>2
      <4> QED
        BY <4>1, <4>2
    <3> QED
      BY <1>1, <3>1, <3>2, <3>3
  <2> QED
    BY <1>1, <2>1, <2>2, <2>3, <2>4, <2>5 DEF DataTyp
<1> QED
  BY <1>2, <1>3 DEF OtherStep

\* Every variable keeps its type.
LEMMA TypPreserved ==
  ASSUME Inv, Next
  PROVE  Typ'
<1>1. /\ Typ /\ FreedQuiet /\ SetrunOK /\ tq \in TqType /\ func \in [Ent -> Task \cup {NULL}]
      /\ home \in [Ent -> Bucket \cup {NULL}] /\ bkt \in [Bucket -> BktType]
      /\ loc \in [Client \cup Worker -> LocType]
  BY DEF Inv, Typ
<1>2. DataTyp' /\ pc' \in [Thread -> PCs] /\ loc' \in [Client \cup Worker -> LocType] => Typ'
  BY DEF DataTyp, Typ
<1>3. /\ \A x \in Client \cup Worker, e \in Ent \cup {NULL} : EntLoc(x, e) \in LocType
      /\ NoLocals \in LocType
  <2>1. NoLocals \in LocType
    BY DEF LocType, NoLocals
  <2>2. \A q \in LocType, e \in Ent \cup {NULL} : [q EXCEPT !.ent = e] \in LocType
    BY DEF LocType
  <2> QED
    BY <1>1, <2>1, <2>2 DEF EntLoc
<1>4. ASSUME NEW c \in Client, taskq_create(c) PROVE Typ'
  <2>1. PICK f \in CreateFlags, W \in SUBSET Worker : CreateGo(c, f, W)
    BY <1>1, <1>4, CreateTable
  <2>2. PICK n \in {0, MinAlloc} :
          tq' = [tq EXCEPT !.flags = (f \cap {"DYNAMIC"}) \cup {"ACTIVE"},
                           !.active = Cardinality(W), !.nthreads = Cardinality(W),
                           !.minalloc = MinAlloc, !.nalloc = @ + n, !.freelist = @ + n]
    BY <2>1 DEF CreateGo
  <2>3. PICK k \in Int : k = Cardinality(W)
    <3>1. IsFiniteSet(W)
      BY FS_Subset, TaskqAssumption
    <3> QED
      BY <3>1, FS_CardinalityType
  <2>4. PICK F \in SUBSET {"DYNAMIC", "ACTIVE", "SUSPENDED"} : F = (f \cap {"DYNAMIC"}) \cup {"ACTIVE"}
    OBVIOUS
  <2>5. PICK i \in Int, j \in Nat : i = tq.nalloc + n /\ j = tq.freelist + n
    BY <1>1, TaskqAssumption DEF TqType
  <2>6. tq' = [tq EXCEPT !.flags = F, !.active = k, !.nthreads = k,
                         !.minalloc = MinAlloc, !.nalloc = i, !.freelist = j]
    BY <2>2, <2>3, <2>4, <2>5
  <2>7. tq \in TqType
    BY <1>1
  <2>8. tq' \in TqType
    BY <2>6, <2>7 DEF TqType
  <2>9. bkt' \in [Bucket -> BktType]
    BY <2>1 DEF CreateGo, NoBucket, BktType
  <2>10. status' \in [Task -> {"new", "called", "refused", "queued", "running", "done"}]
    BY <2>1 DEF CreateGo
  <2> QED
    BY <1>1, <2>1, <2>8, <2>9, <2>10 DEF CreateGo, Typ
<1>5. ASSUME NEW c \in Client, QuietStep(c) \/ Enqueue(c) \/ taskq_bucket_dispatch(c) PROVE Typ'
  <2>1. ClientSteps(c) /\ ~taskq_create(c) /\ ~ExtendLink(c)
    BY <1>5 DEF QuietStep, Enqueue, ClientSteps, ClientStep, taskq_ent_alloc, FromFreelist, EnqueueNew,
       taskq_bucket_dispatch, taskq_create, ExtendLink
  <2>2. PICK k, r : Moved(c, k, r)
    BY <2>1, ClientMoves
  <2>3. loc' \in [Client \cup Worker -> LocType]
    BY <1>1, <2>2 DEF Moved
  <2>4. pc' \in [Thread -> PCs]
    BY <1>5, QuietGo DEF CGo
  <2> QED
    BY <1>2, <2>1, <2>3, <2>4, ClientData
<1>6. ASSUME NEW w \in Worker, WorkerStep(w), ~ExtendLink(w), ~ExtendStart(w) PROVE Typ'
  <2>1. pc' \in [Thread -> PCs]
    BY <1>6, WorkerGos DEF WGo
  <2>2. wloc[w] \in LocType
    BY <1>1, ViewTypes
  <2>3. ASSUME WorkerTake(w) PROVE TakenLoc(w, Head(tq.task)) \in LocType
    <3>1. Head(tq.task) \in Task \cup Bucket
      BY <1>1, <2>3, Shifted DEF WorkerTake, TqType
    <3>2. PICK t \in Task \cup {NULL}, b \in Bucket \cup {NULL} :
            /\ t = IF Head(tq.task) \in Task THEN Head(tq.task) ELSE NULL
            /\ b = IF Head(tq.task) \in Task THEN NULL ELSE Head(tq.task)
      BY <3>1
    <3>3. TakenLoc(w, Head(tq.task)) = [wloc[w] EXCEPT !.task = t, !.bucket = b]
      BY <3>2 DEF TakenLoc
    <3> QED
      BY <2>2, <3>3 DEF LocType
  <2>4. \E k, r : WGo(w, k, r) /\ r \in LocType
    BY <1>1, <1>3, <1>6, <2>2, <2>3, WorkerTable DEF WorkerStep, taskq_thread, taskq_bucket_extend
  <2>5. loc' \in [Client \cup Worker -> LocType]
    BY <1>1, <2>4 DEF WGo
  <2>6. ~\E v \in Worker : ExtendLink(v)
    <3>1. ASSUME NEW v \in Worker, ExtendLink(v) PROVE FALSE
      <4>1. eat' # eat
        <5>1. PICK e \in Ent : LinkGo(v, e)
          BY <1>1, <3>1, LinkTable
        <5> QED
          BY <1>1, <5>1, ViewTypes DEF LinkGo
      <4>2. eat' = eat
        BY <2>4 DEF WGo, WMove
      <4> QED
        BY <4>1, <4>2
    <3> QED
      BY <3>1
  <2>7. DataTyp'
    BY <1>6, <2>6, OtherData DEF OtherStep
  <2> QED
    BY <1>2, <2>1, <2>5, <2>7
<1>7. ASSUME NEW x \in Client \cup Worker, ExtendLink(x) PROVE Typ'
  <2>1. PICK e \in Ent : LinkGo(x, e) /\ Linked(x, e) /\ loc' = [loc EXCEPT ![x] = EntLoc(x, e)]
    BY <1>1, <1>7, LinkTable
  <2>2. PICK b \in Bucket \cup {NULL} : b = loc[x].bucket
    BY <1>1 DEF LocType
  <2>3. func' \in [Ent -> Task \cup {NULL}] /\ home' \in [Ent -> Bucket \cup {NULL}]
    BY <1>1, <2>1, <2>2 DEF Linked
  <2>4. bkt' \in [Bucket -> BktType]
    <3>1. bkt' = [bkt EXCEPT ![b].freelist = @ \cup {e}, ![b].nfree = @ + 1]
      BY <2>1, <2>2 DEF Linked
    <3>2. CASE b \in Bucket
      <4>1. PICK F \in SUBSET Ent, n \in Int : F = bkt[b].freelist \cup {e} /\ n = bkt[b].nfree + 1
        <5>1. bkt[b] \in BktType
          BY <1>1, <3>2
        <5>2. bkt[b].freelist \in SUBSET Ent /\ bkt[b].nfree \in Int
          BY <5>1 DEF BktType
        <5>3. bkt[b].freelist \cup {e} \in SUBSET Ent /\ bkt[b].nfree + 1 \in Int
          BY <5>2
        <5> QED
          BY <5>3
      <4>2. bkt[b] \in BktType /\ bkt' = [bkt EXCEPT ![b] = [@ EXCEPT !.freelist = F, !.nfree = n]]
        BY <1>1, <3>1, <3>2, <4>1 DEF BktType
      <4>3. [bkt[b] EXCEPT !.freelist = F, !.nfree = n] \in BktType
        BY <4>2 DEF BktType
      <4> QED
        BY <1>1, <4>2, <4>3
    <3>3. CASE b \notin Bucket
      BY <1>1, <3>1, <3>3
    <3> QED
      BY <3>2, <3>3
  <2>5. DataTyp'
    BY <1>1, <2>1, <2>3, <2>4 DEF Linked, DataTyp, Typ
  <2>6. pc' \in [Thread -> PCs] /\ loc' \in [Client \cup Worker -> LocType]
    BY <1>1, <1>3, <2>1 DEF LinkGo
  <2> QED
    BY <1>2, <2>5, <2>6
<1>8. ASSUME NEW x \in Client \cup Worker, ExtendStart(x) PROVE Typ'
  <2>1. PICK e \in Ent : StartGo(x, e) /\ loc' = [loc EXCEPT ![x] = EntLoc(x, NULL)]
    BY <1>1, <1>8, StartTable
  <2>2. pc' \in [Thread -> PCs] /\ loc' \in [Client \cup Worker -> LocType]
    BY <1>1, <1>3, <2>1 DEF StartGo
  <2>3. DataTyp'
    BY <1>1, <1>8 DEF ExtendStart, DataTyp, Typ
  <2> QED
    BY <1>2, <2>2, <2>3
<1>9. ASSUME NEW e \in Ent, taskq_d_thread(e) PROVE Typ'
  <2>1. pc' \in [Thread -> PCs] /\ loc' = loc /\ wat' = wat
    BY <1>1, <1>9, EntTable DEF taskq_d_thread, EGo, EMove
  <2>2. ASSUME NEW v \in Worker, ExtendLink(v) PROVE FALSE
    <3>1. PICK d \in Ent : LinkGo(v, d)
      BY <1>1, <2>2, LinkTable
    <3>2. wat'[v] = "setrun" /\ wat[v] = "create"
      BY <1>1, <3>1, KindFacts, ViewTypes DEF LinkGo, Moves, PCs
    <3> QED
      BY <2>1, <3>2
  <2>3. DataTyp'
    BY <1>9, <2>2, OtherData DEF OtherStep
  <2> QED
    BY <1>1, <1>2, <2>1, <2>3
<1> QED
  BY <1>4, <1>5, <1>6, <1>7, <1>8, <1>9, Cases DEF StepCases

----------------------------------------------------------------------------
(* Threads *)

\* The steps of taskq_wait and of taskq_destroy, and where clients are in them.
WaitStep(c) == taskq_wait(c) \/ taskq_destroy(c) \/ WaitList(c) \/ WaitBucket(c) \/ Waited(c)
DestroyStep(c) == Deactivate(c) \/ Join(c) \/ Drain(c) \/ CloseBucket(c) \/ JoinBucket(c) \/ Free(c)
Late == {"wait", "bwait", "waited", "deactivate", "join", "drain", "close", "bjoin", "free"}

\* Other steps do not lead there.
LEMMA Elsewhere ==
  ASSUME Inv, NEW c \in Client, ClientSteps(c), ~WaitStep(c), ~DestroyStep(c)
  PROVE  /\ cat'[c] \notin Late /\ cat[c] \notin Late /\ \A d \in Client : d # c => cat'[d] = cat[d]
         /\ seen' = seen /\ life \in {"none", "creating", "live"} /\ life' \in {life, "creating", "live"}
         /\ ~taskq_create(c) => life \in {"creating", "live"}
<1>1. /\ Typ /\ FreedQuiet /\ SetrunOK /\ PhaseOK /\ cat \in [Client -> PCs]
      /\ Phase(life, cat[c], cloc[c]) /\ c \notin Worker /\ cloc[c] = loc[c]
  BY PhaseDef, Threads, ViewTypes DEF Inv, InPhase
<1>2. ASSUME NEW k \in PCs \ Late, NEW r, CMove(c, k, r) \/ Moves(c, k, r)
      PROVE  cat'[c] \notin Late /\ \A d \in Client : d # c => cat'[d] = cat[d]
  BY <1>1, <1>2 DEF CMove, Moves
<1>3. \A k \in {"idle", "populate", "created", "extend", "create", "setrun", "hash", "search", "retry",
                "ent_alloc", "kmem", "enqueue", "suspend", "suspended", "resume"} : k \in PCs \ Late
  BY DEF PCs, Late
<1>4. cat[c] \in Ext => cloc[c].ret \in {"populate", "retry"} /\ life \in {"creating", "live"}
  BY <1>1 DEF Phase, Ext
<1>5. cat[c] \notin {"idle"} \cup Late => life \in {"creating", "live"}
  BY <1>1 DEF Phase, Late
<1>6. CASE taskq_create(c)
  <2>1. PICK f \in CreateFlags, W \in SUBSET Worker : CreateGo(c, f, W)
    BY <1>1, <1>6, CreateTable
  <2>2. PICK k \in {"populate", "created"} : cat' = [cat EXCEPT ![c] = k]
    BY <2>1 DEF CreateGo
  <2>3. cat[c] = "idle" /\ life = "none" /\ life' = "creating" /\ seen' = seen
    BY <2>1 DEF CreateGo
  <2> QED
    BY <1>1, <1>6, <2>2, <2>3 DEF Late
<1>7. CASE Populate(c) \/ Created(c)
  <2>1. cat[c] \in {"populate", "created"} /\ \E k, r : CGo(c, k, r) /\ k \in {"created", "extend", "idle"}
    BY <1>1, <1>7, ClientCreate
  <2>2. seen' = seen /\ life' \in {life, "live"}
    BY <1>7 DEF Populate, Created
  <2> QED
    BY <1>2, <1>3, <1>5, <2>1, <2>2 DEF CGo, Late
<1>8. CASE ExtendRefused(c) \/ ExtendCount(c) \/ ExtendNoMem(c)
  <2>1. cat[c] \in Ext /\ \E k, r : CGo(c, k, r) /\ (k = "create" \/ k = cloc[c].ret)
    BY <1>1, <1>8, ClientExtend DEF Ext
  <2>2. seen' = seen /\ life' = life
    BY <1>8 DEF ExtendRefused, ExtendCount, ExtendNoMem
  <2> QED
    BY <1>2, <1>3, <1>4, <2>1, <2>2 DEF CGo, Late, Ext
<1>9. CASE ExtendLink(c) \/ ExtendStart(c)
  <2>1. pc[c] \in {"create", "setrun"} /\ \E k, r : Moves(c, k, r) /\ (k = "setrun" \/ k = cloc[c].ret)
    BY <1>1, <1>9, LinkTable, StartTable DEF LinkGo, StartGo, ExtendRet
  <2>2. cat[c] \in Ext
    BY <1>1, <2>1, KindFacts, ViewTypes DEF Ext, PCs
  <2>3. seen' = seen /\ life' = life
    BY <1>9 DEF ExtendLink, ExtendStart
  <2> QED
    BY <1>2, <1>3, <1>4, <2>1, <2>2, <2>3 DEF Late, Ext
<1>10. CASE (\E t \in Task, f \in DispatchFlags : taskq_dispatch(c, t, f)) \/ taskq_bucket_dispatch(c) \/ BucketMiss(c)
  <2>1. /\ cat[c] \in {"idle", "hash", "search", "retry"}
        /\ \E k, r : CGo(c, k, r) /\ k \in {"hash", "ent_alloc", "idle", "search", "extend"}
    BY <1>1, <1>10, ClientDispatch
  <2>2. seen' = seen /\ life' = life /\ (cat[c] = "idle" => life = "live")
    <3>1. ASSUME taskq_bucket_dispatch(c) \/ BucketMiss(c) PROVE cat[c] # "idle"
      BY <1>1, <3>1, ClientDispatch
    <3> QED
      BY <1>10, <3>1 DEF taskq_dispatch, taskq_bucket_dispatch, BucketMiss
  <2> QED
    BY <1>2, <1>3, <1>5, <2>1, <2>2 DEF CGo, Late
<1>11. CASE AllocUnlock(c) \/ kmem_cache_alloc(c) \/ NextEntStep(c)
  <2>1. /\ cat[c] \in {"ent_alloc", "kmem", "enqueue"}
        /\ \E k, r : CGo(c, k, r) /\ k \in {"kmem", "enqueue", "ent_alloc", "idle"}
    BY <1>1, <1>11, ClientAlloc, NextEntTable
  <2>2. seen' = seen /\ life' = life
    BY <1>11 DEF AllocUnlock, kmem_cache_alloc, NextEntStep, FromFreelist, EnqueueNew, AllocFailed, TQ_ENQUEUE
  <2> QED
    BY <1>2, <1>3, <1>5, <2>1, <2>2 DEF CGo, Late
<1>12. CASE SuspendStep(c)
  <2>1. /\ cat[c] \in {"idle", "suspend", "suspended", "resume"}
        /\ \E k, r : CGo(c, k, r) /\ k \in {"suspend", "suspended", "resume", "idle"}
    BY <1>1, <1>12, ClientSuspend DEF SuspendStep
  <2>2. seen' = seen /\ life' = life /\ (cat[c] = "idle" => life = "live")
    <3>1. ASSUME ~taskq_suspend(c) PROVE cat[c] # "idle"
      BY <1>1, <1>12, <3>1, ClientSuspend DEF SuspendStep
    <3> QED
      BY <1>12, <3>1 DEF SuspendStep, taskq_suspend, SuspendBucket, Suspended, taskq_resume, ResumeBucket, Resumed
  <2> QED
    BY <1>2, <1>3, <1>5, <2>1, <2>2 DEF CGo, Late
<1> QED
  BY <1>6, <1>7, <1>8, <1>9, <1>10, <1>11, <1>12
  DEF ClientSteps, Call, ClientStep, taskq_bucket_extend, taskq_ent_alloc, NextEntStep, SuspendStep, WaitStep, DestroyStep

\* Most steps of clients leave the counts of the queue alone.
LEMMA QuietCounts ==
  ASSUME Inv, NEW c \in Client, QuietStep(c)
  PROVE  /\ tq'.active = tq.active /\ tq'.nthreads = tq.nthreads
         /\ tq'.nalloc - tq'.freelist = tq.nalloc - tq.freelist
         /\ ~Deactivate(c) => ("ACTIVE" \in tq'.flags <=> "ACTIVE" \in tq.flags)
         /\ Deactivate(c) => "ACTIVE" \notin tq'.flags
<1>1. tq \in TqType
  BY DEF Inv, Typ
<1>2. CASE \/ \E t \in Task, f \in DispatchFlags : taskq_dispatch(c, t, f)
           \/ Populate(c) \/ Created(c) \/ ExtendRefused(c) \/ BucketMiss(c) \/ AllocUnlock(c)
           \/ kmem_cache_alloc(c) \/ AllocFailed(c) \/ taskq_wait(c) \/ taskq_destroy(c) \/ WaitList(c)
           \/ WaitBucket(c) \/ Waited(c) \/ taskq_resume(c) \/ JoinBucket(c)
           \/ SuspendBucket(c) \/ ResumeBucket(c) \/ CloseBucket(c)
  <2>1. tq' = tq
    BY <1>2 DEF taskq_dispatch, Populate, Created, ExtendRefused, BucketMiss, AllocUnlock, kmem_cache_alloc,
     AllocFailed, taskq_wait, taskq_destroy, WaitList, WaitBucket, Waited, taskq_resume, JoinBucket, SuspendBucket,
     ResumeBucket, CloseBucket
  <2>2. ~Deactivate(c)
    <3>1. "ACTIVE" \notin tq'.flags /\ "ACTIVE" \notin tq.flags => ~Deactivate(c)
      <4>1. Deactivate(c) => cat[c] = "deactivate"
        BY ClientDestroy DEF Inv
      <4> QED
        BY <4>1 DEF Inv, ThreadsOK
    <3>2. Deactivate(c) => "ACTIVE" \notin tq'.flags
      BY <1>1 DEF Deactivate, TqType
    <3> QED
      BY <2>1, <3>1, <3>2
  <2> QED
    BY <2>1, <2>2
<1>3. CASE ExtendCount(c) \/ ExtendNoMem(c) \/ taskq_suspend(c) \/ Join(c) \/ Free(c)
  <2>1. /\ tq'.active = tq.active /\ tq'.nthreads = tq.nthreads /\ tq'.flags = tq.flags
        /\ tq'.nalloc = tq.nalloc /\ tq'.freelist = tq.freelist
    BY <1>1, <1>3 DEF ExtendCount, ExtendNoMem, taskq_suspend, Join, Free, TqType
  <2>2. ~Deactivate(c)
    BY <1>3 DEF ExtendCount, ExtendNoMem, taskq_suspend, Join, Free, Deactivate
  <2> QED
    BY <2>1, <2>2
<1>4. CASE Drain(c)
  <2>1. /\ tq'.active = tq.active /\ tq'.nthreads = tq.nthreads /\ tq'.flags = tq.flags
    BY <1>1, <1>4 DEF Drain, TqType
  <2>2. tq'.nalloc - tq'.freelist = tq.nalloc - tq.freelist
    <3>1. tq' = tq \/ tq' = [tq EXCEPT !.freelist = @ - 1, !.nalloc = @ - 1]
      BY <1>4 DEF Drain
    <3>2. CASE tq' = [tq EXCEPT !.freelist = @ - 1, !.nalloc = @ - 1]
      <4>1. tq'.freelist = tq.freelist - 1 /\ tq'.nalloc = tq.nalloc - 1 /\ tq.freelist \in Int /\ tq.nalloc \in Int
        BY <1>1, <3>2 DEF TqType
      <4> QED
        BY <4>1
    <3> QED
      BY <3>1, <3>2
  <2>3. ~Deactivate(c)
    BY <1>4 DEF Drain, Deactivate
  <2> QED
    BY <2>1, <2>2, <2>3
<1>5. CASE Suspended(c) \/ Resumed(c) \/ Deactivate(c)
  <2>1. /\ tq'.active = tq.active /\ tq'.nthreads = tq.nthreads
        /\ tq'.nalloc = tq.nalloc /\ tq'.freelist = tq.freelist
    BY <1>1, <1>5 DEF Suspended, Resumed, Deactivate, TqType
  <2>2. CASE Deactivate(c)
    BY <1>1, <2>1, <2>2 DEF Deactivate, TqType
  <2>3. CASE Suspended(c) \/ Resumed(c)
    <3>1. tq'.flags \in {tq.flags \cup {"SUSPENDED"}, tq.flags \ {"SUSPENDED"}}
      BY <1>1, <2>3 DEF Suspended, Resumed, TqType
    <3>2. ~Deactivate(c)
      BY <2>3 DEF Suspended, Resumed, Deactivate
    <3> QED
      BY <2>1, <3>1, <3>2
  <2> QED
    BY <1>5, <2>2, <2>3
<1> QED
  BY <1>2, <1>3, <1>4, <1>5
  DEF QuietStep, ClientSteps, Call, ClientStep, taskq_bucket_extend, taskq_ent_alloc, Enqueue

\* The sets of workers are finite.
LEMMA WorkerSets ==
  /\ IsFiniteSet(Worker) /\ IsFiniteSet(Alive) /\ IsFiniteSet(Active) /\ IsFiniteSet(Holders)
  /\ Cardinality(Alive) \in Nat /\ Cardinality(Active) \in Nat /\ Cardinality(Holders) \in Nat
  /\ Cardinality(Alive) <= Cardinality(Worker) /\ Cardinality(Worker) \in Nat
<1>1. IsFiniteSet(Worker) /\ Alive \subseteq Worker /\ Active \subseteq Worker /\ Holders \subseteq Worker
  BY TaskqAssumption DEF Alive, Active, Holders
<1>2. IsFiniteSet(Alive) /\ IsFiniteSet(Active) /\ IsFiniteSet(Holders)
  BY <1>1, FS_Subset
<1>3. Cardinality(Alive) <= Cardinality(Worker)
  BY <1>1, FS_Subset
<1> QED
  BY <1>1, <1>2, <1>3, FS_CardinalityType

\* The parts of ThreadsOK.
Counted ==
    /\ tq.nthreads = Cardinality(Alive)
    /\ "ACTIVE" \in tq.flags => tq.active = Cardinality(Active)
    /\ "ACTIVE" \notin tq.flags =>
         /\ tq.task = <<>> /\ \A w \in Worker : wat[w] \in {"none", "awake"}
         /\ 0 <= tq.active /\ tq.active + tq.nthreads <= Cardinality(Worker)
Acting ==
    /\ life \in {"creating", "live"} => "ACTIVE" \in tq.flags
    /\ \A c \in Client : cat[c] \in {"wait", "bwait", "deactivate"} => "ACTIVE" \in tq.flags

\* A client that uses the queue finds it active until it deactivates it.
LEMMA UsedActive ==
  ASSUME Inv, NEW c \in Client, ClientSteps(c), ~taskq_create(c), ~DestroyStep(c)
  PROVE  "ACTIVE" \in tq.flags
<1>1. Typ /\ ThreadsOK /\ Phase(life, cat[c], cloc[c])
  BY PhaseDef DEF Inv, InPhase
<1>2. CASE ~WaitStep(c)
  BY <1>1, <1>2, Elsewhere DEF ThreadsOK
<1>3. CASE taskq_wait(c) \/ taskq_destroy(c)
  BY <1>1, <1>3 DEF taskq_wait, taskq_destroy, ThreadsOK
<1>4. CASE WaitList(c) \/ WaitBucket(c)
  <2>1. cat[c] \in {"wait", "bwait"}
    BY <1>1, <1>4, ClientWait
  <2> QED
    BY <1>1, <2>1 DEF ThreadsOK
<1>5. CASE Waited(c)
  <2>1. cat[c] = "waited"
    BY <1>1, <1>5, ClientWait
  <2>2. life = "live"
    BY <1>1, <2>1 DEF Phase, Ext
  <2> QED
    BY <1>1, <2>2 DEF ThreadsOK
<1> QED
  BY <1>2, <1>3, <1>4, <1>5 DEF WaitStep

\* The queue is active as long as it is used.
LEMMA ActingPreserved ==
  ASSUME Inv, Next
  PROVE  Acting'
<1>1. Typ /\ Acting /\ FreedQuiet /\ PhaseOK /\ tq \in TqType /\ cat \in [Client -> PCs] /\ Alone
  BY ViewTypes, PhaseDef DEF Inv, Typ, ThreadsOK, Acting
<1>2. ASSUME NEW c \in Client, taskq_create(c) PROVE Acting'
  <2>1. "ACTIVE" \in tq'.flags
    BY <1>1, <1>2 DEF taskq_create, TqType
  <2> QED
    BY <2>1 DEF Acting
<1>3. CASE OtherStep
  <2>1. UNCHANGED <<cat, life>> /\ tq'.flags = tq.flags
    BY <1>3, OthersFrame DEF Others
  <2> QED
    BY <1>1, <2>1 DEF Acting
<1>4. ASSUME NEW c \in Client, ClientSteps(c), ~taskq_create(c), ~DestroyStep(c) PROVE Acting'
  <2>1. "ACTIVE" \in tq.flags
    BY <1>4, UsedActive
  <2>2. "ACTIVE" \in tq'.flags
    <3>1. CASE QuietStep(c)
      BY <1>4, <2>1, <3>1, QuietCounts DEF DestroyStep
    <3>2. CASE ExtendLink(c) \/ ExtendStart(c) \/ taskq_bucket_dispatch(c)
      BY <2>1, <3>2 DEF ExtendLink, ExtendStart, taskq_bucket_dispatch
    <3>3. CASE Enqueue(c)
      BY <1>1, <2>1, <3>3 DEF Enqueue, FromFreelist, EnqueueNew, TQ_ENQUEUE, TqType
    <3> QED
      BY <1>4, <3>1, <3>2, <3>3 DEF QuietStep
  <2> QED
    BY <2>2 DEF Acting
<1>5. ASSUME NEW c \in Client, DestroyStep(c) PROVE Acting'
  <2>1. ClientSteps(c)
    BY <1>5 DEF DestroyStep, ClientSteps, ClientStep
  <2>2. PICK k, r : /\ CGo(c, k, r) /\ k \in {"join", "drain", "close", "free", "bjoin", "idle"}
                    /\ cat[c] \in {"deactivate", "join", "drain", "close", "bjoin", "free"}
    BY <1>1, <1>5, ClientDestroy DEF DestroyStep
  <2>3. life = "closing" /\ life' \in {life, "none"}
    <3>1. Phase(life, cat[c], cloc[c])
      BY <1>1, PhaseDef DEF InPhase
    <3>2. life' \in {life, "none"}
      BY <1>5 DEF DestroyStep, Deactivate, Join, Drain, CloseBucket, JoinBucket, Free
    <3> QED
      BY <2>2, <3>1, <3>2 DEF Phase, Ext
  <2>4. \A d \in Client : d # c => cat[d] = "idle" /\ cat'[d] = "idle"
    BY <1>1, <2>2, <2>3 DEF Alone, CGo, CMove
  <2>5. cat'[c] = k
    BY <1>1, <2>2 DEF CGo, CMove
  <2> QED
    BY <2>2, <2>3, <2>4, <2>5 DEF Acting
<1> QED
  BY <1>2, <1>3, <1>4, <1>5 DEF Next, OtherStep, ClientSteps

\* The counts of threads are right.
LEMMA CountedPreserved ==
  ASSUME Inv, Next
  PROVE  Counted'
<1>1. /\ Typ /\ Counted /\ FreedQuiet /\ SetrunOK /\ DestroyOK /\ tq \in TqType /\ wat \in [Worker -> PCs]
      /\ tq.active \in Int /\ tq.nthreads \in Int
  BY ViewTypes DEF Inv, Typ, ThreadsOK, Counted, TqType
<1>2. ASSUME wat' = wat, tq'.active = tq.active, tq'.nthreads = tq.nthreads, tq'.task = tq.task,
             "ACTIVE" \in tq'.flags <=> "ACTIVE" \in tq.flags
      PROVE  Counted'
  <2>1. Alive' = Alive
    BY <1>2 DEF Alive
  <2>2. Active' = Active
    BY <1>2 DEF Active
  <2> QED
    BY <1>1, <1>2, <2>1, <2>2 DEF Counted
<1>3. ASSUME NEW c \in Client, taskq_create(c) PROVE Counted'
  <2>1. PICK f \in CreateFlags, W \in SUBSET Worker : CreateGo(c, f, W)
    BY <1>1, <1>3, CreateTable
  <2>2. \A w \in Worker : wat[w] = "none"
    BY <1>1, <2>1, KindFacts, ViewTypes DEF CreateGo, FreedQuiet, PCs
  <2>3. \A w \in Worker : wat'[w] = IF w \in W THEN "loop" ELSE "none"
    BY <2>1, <2>2 DEF CreateGo
  <2>4. Alive' = W
    BY <2>3 DEF Alive
  <2>5. Active' = W
    BY <2>3 DEF Active
  <2>6. tq'.active = Cardinality(W) /\ tq'.nthreads = Cardinality(W) /\ "ACTIVE" \in tq'.flags
    BY <1>1, <2>1 DEF CreateGo, TqType
  <2> QED
    BY <2>4, <2>5, <2>6 DEF Counted
<1>4. ASSUME NEW c \in Client, QuietStep(c) PROVE Counted'
  <2>1. wat' = wat /\ tq'.task = tq.task /\ tq'.active = tq.active /\ tq'.nthreads = tq.nthreads
    BY <1>4, QuietFrame, QuietGo, QuietCounts DEF CGo, CMove
  <2>2. CASE ~Deactivate(c)
    BY <1>2, <1>4, <2>1, <2>2, QuietCounts
  <2>3. CASE Deactivate(c)
    <3>1. cat[c] = "deactivate"
      BY <1>1, <2>3, ClientDestroy
    <3>2. tq.task = <<>> /\ \A w \in Worker : wat[w] \in {"none", "awake"}
      BY <1>1, <3>1 DEF DestroyOK, Destroying
    <3>3. "ACTIVE" \in tq.flags /\ "ACTIVE" \notin tq'.flags
      BY <1>4, <2>3, <3>1, QuietCounts DEF Inv, ThreadsOK
    <3>4. Active = {}
      BY <3>2 DEF Active
    <3>5. tq.active = 0
      BY <1>1, <3>3, <3>4, FS_EmptySet DEF Counted
    <3>6. Alive' = Alive
      BY <2>1 DEF Alive
    <3> QED
      BY <1>1, <2>1, <3>2, <3>3, <3>5, <3>6, WorkerSets DEF Counted
  <2> QED
    BY <2>2, <2>3
<1>5. ASSUME NEW c \in Client, Enqueue(c) PROVE Counted'
  <2>1. wat' = wat
    BY <1>5, QuietGo DEF CGo, CMove
  <2>2. tq'.active = tq.active /\ tq'.nthreads = tq.nthreads /\ tq'.flags = tq.flags
    BY <1>1, <1>5 DEF Enqueue, FromFreelist, EnqueueNew, TQ_ENQUEUE, TqType
  <2>3. "ACTIVE" \in tq.flags
    <3>1. ClientSteps(c) /\ ~taskq_create(c) /\ ~DestroyStep(c)
      BY <1>5 DEF Enqueue, FromFreelist, EnqueueNew, ClientSteps, ClientStep, taskq_ent_alloc, taskq_create,
         DestroyStep, Deactivate, Join, Drain, CloseBucket, JoinBucket, Free
    <3> QED
      BY <3>1, UsedActive
  <2>4. Alive' = Alive
    BY <2>1 DEF Alive
  <2>5. Active' = Active
    BY <2>1 DEF Active
  <2> QED
    BY <1>1, <2>2, <2>3, <2>4, <2>5 DEF Counted
<1>6. ASSUME NEW c \in Client, taskq_bucket_dispatch(c) PROVE Counted'
  BY <1>2, <1>6, QuietGo DEF CGo, CMove, taskq_bucket_dispatch
<1>7. ASSUME NEW e \in Ent, taskq_d_thread(e) PROVE Counted'
  <2>1. wat' = wat
    BY <1>1, <1>7, EntTable DEF taskq_d_thread, EGo, EMove
  <2>2. tq'.task = tq.task /\ tq'.active = tq.active /\ tq'.flags = tq.flags /\ tq'.nthreads = tq.nthreads
    BY <1>1, <1>7 DEF taskq_d_thread, EntRun, EntDone, EntSleep, EntTimeout, EntDie, TqType
  <2> QED
    BY <1>2, <2>1, <2>2
\* A worker at work stays at work.
<1>8. ASSUME NEW w \in Worker, NEW k, wat' = [wat EXCEPT ![w] = k], wat[w] \notin {"none", "awake"},
             k \notin {"none", "awake"}, tq'.active = tq.active, tq'.nthreads = tq.nthreads, tq'.flags = tq.flags
      PROVE  Counted'
  <2>1. \A v \in Worker : wat'[v] = IF v = w THEN k ELSE wat[v]
    BY <1>1, <1>8
  <2>2. Alive' = Alive
    BY <1>8, <2>1 DEF Alive
  <2>3. Active' = Active
    BY <1>8, <2>1 DEF Active
  <2> QED
    BY <1>1, <1>8, <2>2, <2>3 DEF Counted
<1>9. ASSUME NEW x \in Client \cup Worker, ExtendLink(x) \/ ExtendStart(x) PROVE Counted'
  <2>1. tq' = tq
    BY <1>9 DEF ExtendLink, ExtendStart
  <2>2. CASE x \in Client
    <3>1. wat' = wat
      BY <1>1, <1>9, <2>2, LinkTable, StartTable DEF LinkGo, StartGo, Moves
    <3> QED
      BY <1>2, <2>1, <3>1
  <2>3. CASE x \in Worker
    <3>1. PICK k : /\ wat' = [wat EXCEPT ![x] = k]
                   /\ k \in {"setrun", "run"} /\ pc[x] \in {"create", "setrun"}
      BY <1>1, <1>9, <2>3, LinkTable, StartTable DEF LinkGo, StartGo, Moves, ExtendRet
    <3>2. wat[x] \in {"create", "setrun"}
      BY <1>1, <3>1, <2>3, KindFacts, ViewTypes DEF PCs
    <3> QED
      BY <1>8, <2>1, <2>3, <3>1, <3>2
  <2> QED
    BY <2>2, <2>3
<1>10. ASSUME NEW w \in Worker, WorkerStep(w), ~ExtendLink(w), ~ExtendStart(w) PROVE Counted'
  <2>1. CASE WorkerRun(w) \/ WorkerDone(w) \/ taskq_ent_free(w) \/ ExtendRefused(w) \/ ExtendCount(w) \/ ExtendNoMem(w)
    <3>1. /\ wat[w] \notin {"none", "awake"}
          /\ \E k, r : WGo(w, k, r) /\ k \notin {"none", "awake"}
      BY <1>1, <2>1, WorkerTable
    <3>2. tq'.active = tq.active /\ tq'.nthreads = tq.nthreads /\ tq'.flags = tq.flags
      BY <1>1, <2>1 DEF WorkerRun, WorkerDone, taskq_ent_free, ExtendRefused, ExtendCount, ExtendNoMem, TqType
    <3> QED
      BY <1>8, <3>1, <3>2 DEF WGo, WMove
  <2>2. CASE WorkerSleep(w)
    <3>1. /\ wat[w] = pc[w] /\ pc[w] \in {"loop", "awake"} /\ "ACTIVE" \in tq.flags
          /\ wat' = [wat EXCEPT ![w] = "awake"]
      BY <1>1, <2>2, WorkerTable DEF WorkerSleep, WGo, WMove
    <3>2. /\ tq'.active = ActiveNow(w) - 1 /\ tq'.nthreads = tq.nthreads /\ tq'.flags = tq.flags
      BY <1>1, <2>2 DEF WorkerSleep, TqType
    <3>3. \A v \in Worker : wat'[v] = IF v = w THEN "awake" ELSE wat[v]
      BY <1>1, <3>1
    <3>4. Alive' = Alive
      BY <3>1, <3>3 DEF Alive
    <3>5. Active' = Active \ {w}
      BY <3>1, <3>3 DEF Active
    <3>6. CASE wat[w] = "loop"
      <4>1. w \in Active /\ tq'.active = tq.active - 1
        BY <1>1, <3>1, <3>2, <3>6 DEF Active, ActiveNow
      <4>2. Cardinality(Active \ {w}) = Cardinality(Active) - 1
        BY <4>1, WorkerSets, OneLess
      <4> QED
        BY <1>1, <3>1, <3>2, <3>4, <3>5, <4>1, <4>2 DEF Counted
    <3>7. CASE wat[w] = "awake"
      <4>1. w \notin Active /\ tq'.active = tq.active
        BY <1>1, <3>1, <3>2, <3>7 DEF Active, ActiveNow
      <4>2. Active \ {w} = Active
        BY <4>1
      <4> QED
        BY <1>1, <3>1, <3>2, <3>4, <3>5, <4>1, <4>2 DEF Counted
    <3> QED
      BY <3>1, <3>6, <3>7
  <2>3. CASE WorkerTake(w)
    <3>1. /\ wat[w] = pc[w] /\ pc[w] \in {"loop", "awake"} /\ "ACTIVE" \in tq.flags
          /\ wat' = [wat EXCEPT ![w] = "rw_enter"]
      BY <1>1, <2>3, WorkerTable DEF WorkerTake, WGo, WMove
    <3>2. /\ tq'.active = ActiveNow(w) /\ tq'.nthreads = tq.nthreads /\ tq'.flags = tq.flags
      BY <1>1, <2>3 DEF WorkerTake, TqType
    <3>3. \A v \in Worker : wat'[v] = IF v = w THEN "rw_enter" ELSE wat[v]
      BY <1>1, <3>1
    <3>4. Alive' = Alive
      BY <3>1, <3>3 DEF Alive
    <3>5. Active' = Active \cup {w}
      BY <3>1, <3>3 DEF Active
    <3>6. CASE wat[w] = "loop"
      <4>1. Active \cup {w} = Active /\ tq'.active = tq.active
        BY <1>1, <3>1, <3>2, <3>6 DEF Active, ActiveNow
      <4> QED
        BY <1>1, <3>1, <3>2, <3>4, <3>5, <4>1 DEF Counted
    <3>7. CASE wat[w] = "awake"
      <4>1. w \notin Active /\ tq'.active = tq.active + 1
        BY <1>1, <3>1, <3>2, <3>7 DEF Active, ActiveNow
      <4>2. Cardinality(Active \cup {w}) = Cardinality(Active) + 1
        BY <4>1, WorkerSets, OneMore
      <4> QED
        BY <1>1, <3>1, <3>2, <3>4, <3>5, <4>1, <4>2 DEF Counted
    <3> QED
      BY <3>1, <3>6, <3>7
  <2>4. CASE WorkerExit(w)
    <3>1. /\ wat[w] = pc[w] /\ pc[w] \in {"loop", "awake"} /\ "ACTIVE" \notin tq.flags
          /\ wat' = [wat EXCEPT ![w] = "none"]
      BY <1>1, <2>4, WorkerTable DEF WorkerExit, WGo, WMove
    <3>2. /\ tq'.active = ActiveNow(w) /\ tq'.nthreads = tq.nthreads - 1 /\ tq'.flags = tq.flags
          /\ tq'.task = tq.task
      BY <1>1, <2>4 DEF WorkerExit, TqType
    <3>3. \A v \in Worker : wat'[v] = IF v = w THEN "none" ELSE wat[v]
      BY <1>1, <3>1
    <3>4. wat[w] = "awake" /\ tq'.active = tq.active + 1
      BY <1>1, <3>1, <3>2 DEF Counted, ActiveNow
    <3>5. Alive' = Alive \ {w} /\ w \in Alive
      BY <3>3, <3>4 DEF Alive
    <3>6. Cardinality(Alive \ {w}) = Cardinality(Alive) - 1
      BY <3>5, WorkerSets, OneLess
    <3>7. \A v \in Worker : wat'[v] \in {"none", "awake"}
      BY <1>1, <3>1, <3>3 DEF Counted
    <3>8. 0 <= tq'.active /\ tq'.active + tq'.nthreads <= Cardinality(Worker)
      BY <1>1, <3>1, <3>2, <3>4, WorkerSets DEF Counted
    <3> QED
      BY <1>1, <3>1, <3>2, <3>5, <3>6, <3>7, <3>8 DEF Counted
  <2> QED
    BY <1>10, <2>1, <2>2, <2>3, <2>4 DEF WorkerStep, taskq_thread, taskq_bucket_extend
<1> QED
  BY <1>3, <1>4, <1>5, <1>6, <1>7, <1>9, <1>10, Cases DEF StepCases

----------------------------------------------------------------------------
(* Entries of the list, and threads of buckets *)

\* Every entry that is allocated is free, on the list or with a worker.
LEMMA AllocPreserved ==
  ASSUME Inv, Next
  PROVE  AllocOK'
<1>1. /\ Typ /\ AllocOK /\ FreedQuiet /\ SetrunOK /\ tq \in TqType /\ wat \in [Worker -> PCs]
      /\ tq.nalloc \in Int /\ tq.freelist \in Nat /\ tq.task \in Seq(Task \cup Bucket) /\ Len(tq.task) \in Nat
      /\ Cardinality(Holders) \in Nat
  BY ViewTypes, WorkerSets DEF Inv, Typ, TqType
<1> DEFINE HolderKinds == Ext \cup {"rw_enter", "run", "ent_free"}
<1>2. /\ tq' \in TqType /\ tq'.nalloc \in Int /\ tq'.freelist \in Nat
  BY TypPreserved DEF Typ, TqType
<1>13. tq.nalloc - tq.freelist = Len(tq.task) + Cardinality(Holders)
  BY <1>1 DEF AllocOK
<1>14. ASSUME Len(tq'.task) \in Nat, Cardinality(Holders') \in Nat,
              tq'.nalloc - tq'.freelist = Len(tq'.task) + Cardinality(Holders')
       PROVE  AllocOK'
  <2>1. tq'.nalloc = tq'.freelist + Len(tq'.task) + Cardinality(Holders')
    BY <1>2, <1>14
  <2> QED
    BY <2>1 DEF AllocOK
<1>4. ASSUME wat' = wat, tq'.nalloc - tq'.freelist = tq.nalloc - tq.freelist, tq'.task = tq.task PROVE AllocOK'
  <2>1. Holders' = Holders
    BY <1>4 DEF Holders
  <2> QED
    BY <1>1, <1>13, <1>14, <1>4, <2>1
<1>5. ASSUME NEW c \in Client, taskq_create(c) PROVE AllocOK'
  <2>1. PICK f \in CreateFlags, W \in SUBSET Worker : CreateGo(c, f, W)
    BY <1>1, <1>5, CreateTable
  <2>2. \A w \in Worker : wat[w] = "none"
    BY <1>1, <2>1, KindFacts, ViewTypes DEF CreateGo, FreedQuiet, PCs
  <2>3. \A w \in Worker : wat'[w] \in {"loop", "none"}
    BY <2>1, <2>2 DEF CreateGo
  <2>4. Holders' = {}
    BY <2>3 DEF Holders, Ext
  <2>5. tq.task = <<>> /\ tq.nalloc = 0 /\ tq.freelist = 0
    BY <1>1, <2>1 DEF CreateGo, FreedQuiet
  <2>6. tq'.task = <<>> /\ tq'.nalloc = tq'.freelist
    BY <1>1, <2>1, <2>5 DEF CreateGo, TqType
  <2> QED
    BY <1>2, <1>13, <1>14, <2>4, <2>6, FS_EmptySet
<1>6. ASSUME NEW c \in Client, QuietStep(c) PROVE AllocOK'
  BY <1>4, <1>6, QuietFrame, QuietGo, QuietCounts DEF CGo, CMove
<1>7. ASSUME NEW c \in Client, Enqueue(c) PROVE AllocOK'
  <2>1. wat' = wat
    BY <1>7, QuietGo DEF CGo, CMove
  <2>2. Holders' = Holders
    BY <2>1 DEF Holders
  <2>3. PICK h \in Task \cup Bucket : tq'.task = Append(tq.task, h)
    <3>1. PICK h : h = Head(cloc[c].todo)
      OBVIOUS
    <3>2. /\ h \in Task \cup Bucket
          /\ tq' = [tq EXCEPT !.task = Append(@, h), !.nalloc = tq'.nalloc, !.freelist = tq'.freelist]
      BY <1>7, <3>1, EnqueueTable
    <3> QED
      BY <1>1, <3>2 DEF TqType
  <2>4. Len(tq'.task) = Len(tq.task) + 1
    BY <1>1, <2>3, Appended
  <2>5. tq'.nalloc - tq'.freelist = tq.nalloc - tq.freelist + 1
    BY <1>7, EnqueueTable
  <2> QED
    <3>1. Len(tq.task) \in Nat /\ Cardinality(Holders) \in Nat
      BY <1>1
    <3>2. tq'.nalloc - tq'.freelist = Len(tq'.task) + Cardinality(Holders')
      BY <1>1, <1>2, <1>13, <2>2, <2>4, <2>5, <3>1
    <3>3. Len(tq'.task) \in Nat /\ Cardinality(Holders') \in Nat
      BY <2>2, <2>4, <3>1
    <3> QED
      BY <1>14, <3>2, <3>3
<1>8. ASSUME NEW c \in Client, taskq_bucket_dispatch(c) PROVE AllocOK'
  BY <1>4, <1>8, QuietGo DEF CGo, CMove, taskq_bucket_dispatch
<1>9. ASSUME NEW e \in Ent, taskq_d_thread(e) PROVE AllocOK'
  <2>1. wat' = wat
    BY <1>1, <1>9, EntTable DEF taskq_d_thread, EGo, EMove
  <2>2. tq'.task = tq.task /\ tq'.nalloc = tq.nalloc /\ tq'.freelist = tq.freelist
    BY <1>1, <1>9 DEF taskq_d_thread, EntRun, EntDone, EntSleep, EntTimeout, EntDie, TqType
  <2> QED
    BY <1>4, <2>1, <2>2
<1>10. ASSUME NEW w \in Worker, NEW k, wat' = [wat EXCEPT ![w] = k], wat[w] \in HolderKinds <=> k \in HolderKinds,
              tq'.nalloc = tq.nalloc, tq'.freelist = tq.freelist, tq'.task = tq.task
       PROVE  AllocOK'
  <2>1. \A v \in Worker : wat'[v] = IF v = w THEN k ELSE wat[v]
    BY <1>1, <1>10
  <2>2. Holders' = Holders
    BY <1>10, <2>1 DEF Holders
  <2> QED
    BY <1>1, <1>13, <1>14, <1>10, <2>2
<1>11. ASSUME NEW x \in Client \cup Worker, ExtendLink(x) \/ ExtendStart(x) PROVE AllocOK'
  <2>1. tq' = tq
    BY <1>11 DEF ExtendLink, ExtendStart
  <2>2. CASE x \in Client
    <3>1. wat' = wat
      BY <1>1, <1>11, <2>2, LinkTable, StartTable DEF LinkGo, StartGo, Moves
    <3> QED
      BY <1>4, <2>1, <3>1
  <2>3. CASE x \in Worker
    <3>1. PICK k : /\ wat' = [wat EXCEPT ![x] = k]
                   /\ k \in {"setrun", "run"} /\ pc[x] \in {"create", "setrun"}
      BY <1>1, <1>11, <2>3, LinkTable, StartTable DEF LinkGo, StartGo, Moves, ExtendRet
    <3>2. wat[x] \in {"create", "setrun"}
      BY <1>1, <3>1, <2>3, KindFacts, ViewTypes DEF PCs
    <3> QED
      BY <1>10, <2>1, <2>3, <3>1, <3>2 DEF Ext
  <2> QED
    BY <2>2, <2>3
<1>12. ASSUME NEW w \in Worker, WorkerStep(w), ~ExtendLink(w), ~ExtendStart(w) PROVE AllocOK'
  <2>1. CASE WorkerRun(w) \/ WorkerDone(w) \/ ExtendRefused(w) \/ ExtendCount(w) \/ ExtendNoMem(w)
    <3>1. /\ wat[w] \in HolderKinds /\ \E k, r : WGo(w, k, r) /\ k \in HolderKinds
      BY <1>1, <2>1, WorkerTable DEF Ext
    <3>2. tq'.nalloc = tq.nalloc /\ tq'.freelist = tq.freelist /\ tq'.task = tq.task
      BY <1>1, <2>1 DEF WorkerRun, WorkerDone, ExtendRefused, ExtendCount, ExtendNoMem, TqType
    <3> QED
      BY <1>10, <3>1, <3>2 DEF WGo, WMove
  <2>2. CASE WorkerSleep(w) \/ WorkerExit(w)
    <3>1. wat[w] \in {"loop", "awake"} /\ \E k, r : WGo(w, k, r) /\ k \in {"awake", "none"}
      BY <1>1, <2>2, WorkerTable DEF WorkerSleep, WorkerExit
    <3>2. tq'.nalloc = tq.nalloc /\ tq'.freelist = tq.freelist /\ tq'.task = tq.task
      BY <1>1, <2>2 DEF WorkerSleep, WorkerExit, TqType
    <3> QED
      BY <1>10, <3>1, <3>2 DEF WGo, WMove, Ext
  <2>3. CASE WorkerTake(w)
    <3>1. /\ wat[w] \in {"loop", "awake"} /\ wat' = [wat EXCEPT ![w] = "rw_enter"] /\ tq.task # <<>>
      BY <1>1, <2>3, WorkerTable DEF WorkerTake, WGo, WMove
    <3>2. \A v \in Worker : wat'[v] = IF v = w THEN "rw_enter" ELSE wat[v]
      BY <1>1, <3>1
    <3>3. Holders' = Holders \cup {w} /\ w \notin Holders
      BY <3>1, <3>2 DEF Holders, Ext
    <3>4. Cardinality(Holders \cup {w}) = Cardinality(Holders) + 1
      BY <3>3, WorkerSets, OneMore
    <3>5. tq'.nalloc = tq.nalloc /\ tq'.freelist = tq.freelist /\ tq'.task = Tail(tq.task)
      BY <1>1, <2>3 DEF WorkerTake, TqType
    <3>6. Len(tq'.task) = Len(tq.task) - 1 /\ Len(tq.task) > 0
      BY <1>1, <3>1, <3>5, Shifted
    <3> QED
      BY <1>1, <1>13, <1>14, <3>3, <3>4, <3>5, <3>6
  <2>4. CASE taskq_ent_free(w)
    <3>1. /\ wat[w] = "ent_free" /\ wat' = [wat EXCEPT ![w] = "loop"]
      BY <1>1, <2>4, WorkerTable DEF WGo, WMove
    <3>2. \A v \in Worker : wat'[v] = IF v = w THEN "loop" ELSE wat[v]
      BY <1>1, <3>1
    <3>3. Holders' = Holders \ {w} /\ w \in Holders
      BY <3>1, <3>2 DEF Holders, Ext
    <3>4. Cardinality(Holders \ {w}) = Cardinality(Holders) - 1 /\ Cardinality(Holders \ {w}) \in Nat
      BY <3>3, WorkerSets, OneLess, FS_RemoveElement, FS_CardinalityType
    <3>5. tq'.task = tq.task /\ tq'.nalloc - tq'.freelist = tq.nalloc - tq.freelist - 1
      <4>1. tq' = [tq EXCEPT !.freelist = @ + 1] \/ tq' = [tq EXCEPT !.nalloc = @ - 1]
        BY <2>4 DEF taskq_ent_free
      <4>2. \/ tq'.task = tq.task /\ tq'.nalloc = tq.nalloc /\ tq'.freelist = tq.freelist + 1
            \/ tq'.task = tq.task /\ tq'.nalloc = tq.nalloc - 1 /\ tq'.freelist = tq.freelist
        BY <1>1, <4>1 DEF TqType
      <4> QED
        BY <1>1, <4>2
    <3> QED
      BY <1>1, <1>13, <1>14, <3>3, <3>4, <3>5
  <2> QED
    BY <1>12, <2>1, <2>2, <2>3, <2>4 DEF WorkerStep, taskq_thread, taskq_bucket_extend
<1> QED
  BY <1>5, <1>6, <1>7, <1>8, <1>9, <1>11, <1>12, Cases DEF StepCases

\* The sets that tq.live counts are finite.
LEMMA LiveSets ==
  /\ IsFiniteSet(LiveEnts) /\ IsFiniteSet(Creators)
  /\ Cardinality(LiveEnts) \in Nat /\ Cardinality(Creators) \in Nat
<1>1. LiveEnts \subseteq Ent /\ IsFiniteSet(Ent)
  BY TaskqAssumption DEF LiveEnts
<1>2. Creators \subseteq Client \cup Worker /\ IsFiniteSet(Client) /\ IsFiniteSet(Worker)
  BY TaskqAssumption DEF Creators
<1>3. IsFiniteSet(Client \cup Worker)
  BY <1>2, FS_Union
<1> QED
  BY <1>1, <1>2, <1>3, FS_Subset, FS_CardinalityType

\* A client comes to create a thread, and leaves it, in an extension only.
LEMMA NoCreate ==
  ASSUME Inv, NEW c \in Client, QuietStep(c) \/ Enqueue(c) \/ taskq_bucket_dispatch(c), ~ExtendCount(c), ~ExtendNoMem(c)
  PROVE  cat[c] # "create" /\ \E k, r : CGo(c, k, r) /\ k # "create"
<1>1. Typ /\ cloc[c] = loc[c] /\ loc[c].ret # "create"
  BY ViewTypes, RetKinds DEF Inv
<1>2. CASE Populate(c) \/ Created(c)
  BY <1>1, <1>2, ClientCreate
<1>3. CASE ExtendRefused(c)
  BY <1>1, <1>3, ClientExtend
<1>4. CASE (\E t \in Task, f \in DispatchFlags : taskq_dispatch(c, t, f)) \/ taskq_bucket_dispatch(c) \/ BucketMiss(c)
  BY <1>1, <1>4, ClientDispatch
<1>5. CASE AllocUnlock(c) \/ kmem_cache_alloc(c) \/ NextEntStep(c)
  BY <1>1, <1>5, ClientAlloc, NextEntTable
<1>6. CASE SuspendStep(c)
  BY <1>1, <1>6, ClientSuspend DEF SuspendStep
<1>7. CASE taskq_wait(c) \/ taskq_destroy(c) \/ WaitList(c) \/ WaitBucket(c) \/ Waited(c)
  BY <1>1, <1>7, ClientWait
<1>8. CASE Deactivate(c) \/ Join(c) \/ Drain(c) \/ CloseBucket(c) \/ JoinBucket(c) \/ Free(c)
  BY <1>1, <1>8, ClientDestroy
<1> QED
  BY <1>2, <1>3, <1>4, <1>5, <1>6, <1>7, <1>8
  DEF QuietStep, Enqueue, ClientSteps, Call, ClientStep, taskq_bucket_extend, taskq_ent_alloc, NextEntStep, SuspendStep

\* Every thread of a bucket is counted, from before it is created.
LEMMA LivePreserved ==
  ASSUME Inv, Next
  PROVE  LiveOK'
<1>1. /\ Typ /\ LiveOK /\ FreedQuiet /\ SetrunOK /\ PhaseOK /\ tq \in TqType /\ wat \in [Worker -> PCs]
      /\ cat \in [Client -> PCs] /\ eat \in [Ent -> PCs] /\ tq.live \in Int /\ MaxSize \in Nat
  BY ViewTypes, TaskqAssumption DEF Inv, Typ, TqType
<1>2. \A x \in Client \cup Worker : x \in Creators <=> (x \in Client /\ cat[x] = "create") \/ (x \in Worker /\ wat[x] = "create")
  BY DEF Creators
<1>3. /\ tq.live = Cardinality(LiveEnts) + Cardinality(Creators)
      /\ Cardinality(LiveEnts) \in Nat /\ Cardinality(Creators) \in Nat
  BY <1>1, LiveSets DEF LiveOK
<1>4. ASSUME LiveEnts' = LiveEnts, Creators' = Creators, tq'.live = tq.live PROVE LiveOK'
  BY <1>1, <1>4 DEF LiveOK
<1>5. ASSUME NEW c \in Client, taskq_create(c) PROVE LiveOK'
  <2>1. PICK f \in CreateFlags, W \in SUBSET Worker : CreateGo(c, f, W)
    BY <1>1, <1>5, CreateTable
  <2>2. PICK k \in {"populate", "created"} : cat' = [cat EXCEPT ![c] = k]
    BY <2>1 DEF CreateGo
  <2>3. \A w \in Worker : wat[w] = "none"
    BY <1>1, <2>1, KindFacts, ViewTypes DEF CreateGo, FreedQuiet, PCs
  <2>4. \A w \in Worker : wat'[w] \in {"loop", "none"}
    BY <2>1, <2>3 DEF CreateGo
  <2>5. \A d \in Client : cat[d] = "idle"
    BY <1>1, <2>1, PhaseDef DEF CreateGo, InPhase, Phase
  <2>6. \A d \in Client : cat'[d] # "create"
    BY <1>1, <2>2, <2>5
  <2>7. Creators = {} /\ Creators' = {}
    BY <2>3, <2>4, <2>5, <2>6 DEF Creators
  <2>8. LiveEnts' = LiveEnts
    BY <2>1 DEF CreateGo, LiveEnts
  <2>9. tq'.live = tq.live
    BY <1>1, <2>1 DEF CreateGo, TqType
  <2> QED
    BY <1>4, <2>7, <2>8, <2>9
\* A thread is counted, and its creation fails.
<1>6. ASSUME NEW x \in Client \cup Worker, x \notin Creators, Creators' = Creators \cup {x}, LiveEnts' = LiveEnts,
             tq'.live = tq.live + 1, tq.live <= MaxSize
      PROVE  LiveOK'
  <2>1. Cardinality(Creators \cup {x}) = Cardinality(Creators) + 1
    BY <1>6, LiveSets, OneMore
  <2> QED
    BY <1>1, <1>3, <1>6, <2>1 DEF LiveOK
<1>7. ASSUME NEW x \in Client \cup Worker, x \in Creators, Creators' = Creators \ {x}, LiveEnts' = LiveEnts,
             tq'.live = tq.live - 1
      PROVE  LiveOK'
  <2>1. Cardinality(Creators \ {x}) = Cardinality(Creators) - 1
    BY <1>7, LiveSets, OneLess
  <2> QED
    BY <1>1, <1>3, <1>7, <2>1 DEF LiveOK
<1>8. ASSUME NEW c \in Client, NEW k, NEW r, CGo(c, k, r)
      PROVE  /\ LiveEnts' = LiveEnts
             /\ k = "create" => Creators' = Creators \cup {c}
             /\ k # "create" => Creators' = Creators \ {c}
  <2>1. eat' = eat /\ wat' = wat /\ \A d \in Client : cat'[d] = IF d = c THEN k ELSE cat[d]
    BY <1>1, <1>8 DEF CGo, CMove
  <2>2. LiveEnts' = LiveEnts
    BY <2>1 DEF LiveEnts
  <2>3. k = "create" => Creators' = Creators \cup {c}
    BY <2>1 DEF Creators
  <2>4. k # "create" => Creators' = Creators \ {c}
    BY <2>1, Threads DEF Creators
  <2> QED
    BY <2>2, <2>3, <2>4
<1>9. ASSUME NEW w \in Worker, NEW k, NEW r, WGo(w, k, r)
      PROVE  /\ LiveEnts' = LiveEnts
             /\ k = "create" => Creators' = Creators \cup {w}
             /\ k # "create" => Creators' = Creators \ {w}
  <2>1. eat' = eat /\ cat' = cat /\ \A v \in Worker : wat'[v] = IF v = w THEN k ELSE wat[v]
    BY <1>1, <1>9 DEF WGo, WMove
  <2>2. LiveEnts' = LiveEnts
    BY <2>1 DEF LiveEnts
  <2>3. k = "create" => Creators' = Creators \cup {w}
    BY <2>1 DEF Creators
  <2>4. k # "create" => Creators' = Creators \ {w}
    BY <2>1, Threads DEF Creators
  <2> QED
    BY <2>2, <2>3, <2>4
<1>10. ASSUME NEW c \in Client, QuietStep(c) \/ Enqueue(c) \/ taskq_bucket_dispatch(c) PROVE LiveOK'
  <2>1. CASE ExtendCount(c)
    <3>1. cat[c] = "extend" /\ CGo(c, "create", cloc[c])
      BY <1>1, <2>1, ClientExtend
    <3>2. tq'.live = tq.live + 1 /\ tq.live <= MaxSize
      BY <1>1, <2>1 DEF ExtendCount, TqType
    <3>3. c \notin Creators
      BY <1>2, <3>1, Threads
    <3> QED
      BY <1>6, <1>8, <3>1, <3>2, <3>3
  <2>2. CASE ExtendNoMem(c)
    <3>1. cat[c] = "create" /\ CGo(c, cloc[c].ret, cloc[c])
      BY <1>1, <2>2, ClientExtend
    <3>2. tq'.live = tq.live - 1 /\ cloc[c].ret # "create"
      BY <1>1, <2>2, RetKinds, ViewTypes DEF ExtendNoMem, TqType
    <3>3. c \in Creators
      BY <1>2, <3>1
    <3> QED
      BY <1>7, <1>8, <3>1, <3>2, <3>3
  <2>3. CASE ~ExtendCount(c) /\ ~ExtendNoMem(c)
    <3>1. PICK k, r : cat[c] # "create" /\ CGo(c, k, r) /\ k # "create"
      BY <1>10, <2>3, NoCreate
    <3>2. c \notin Creators
      BY <1>2, <3>1, Threads
    <3>3. LiveEnts' = LiveEnts /\ Creators' = Creators
      BY <1>8, <3>1, <3>2
    <3>4. CASE ~Free(c)
      <4>1. tq'.live = tq.live
        <5>1. CASE \/ \E t \in Task, f \in DispatchFlags : taskq_dispatch(c, t, f)
                   \/ Populate(c) \/ Created(c) \/ ExtendRefused(c) \/ BucketMiss(c) \/ AllocUnlock(c)
                   \/ kmem_cache_alloc(c) \/ AllocFailed(c) \/ taskq_wait(c) \/ taskq_destroy(c) \/ WaitList(c)
                   \/ WaitBucket(c) \/ Waited(c) \/ taskq_resume(c) \/ JoinBucket(c)
                   \/ SuspendBucket(c) \/ ResumeBucket(c) \/ CloseBucket(c) \/ taskq_bucket_dispatch(c)
          BY <5>1 DEF taskq_dispatch, Populate, Created, ExtendRefused, BucketMiss, AllocUnlock, kmem_cache_alloc,
            AllocFailed, taskq_wait, taskq_destroy, WaitList, WaitBucket, Waited, taskq_resume, JoinBucket, SuspendBucket,
            ResumeBucket, CloseBucket, taskq_bucket_dispatch
        <5>2. CASE taskq_suspend(c) \/ Suspended(c) \/ Resumed(c) \/ Deactivate(c) \/ Join(c) \/ Drain(c)
          BY <1>1, <5>2 DEF taskq_suspend, Suspended, Resumed, Deactivate, Join, Drain, TqType
        <5>3. CASE Enqueue(c)
          BY <1>1, <5>3 DEF Enqueue, FromFreelist, EnqueueNew, TQ_ENQUEUE, TqType
        <5> QED
          BY <1>10, <2>3, <3>4, <5>1, <5>2, <5>3
          DEF QuietStep, ClientSteps, Call, ClientStep, taskq_bucket_extend, taskq_ent_alloc, Enqueue
      <4> QED
        BY <1>4, <3>3, <4>1
    <3>5. CASE Free(c)
      <4>1. cat[c] = "free"
        BY <1>1, <3>5, ClientDestroy
      <4>2. (\A e \in Ent : eat[e] = "none") /\ \A w \in Worker : wat[w] = "none"
        BY <4>1 DEF Inv, DestroyOK, Destroying
      <4>3. life = "closing" /\ Alone
        BY <1>1, <4>1, PhaseDef DEF InPhase, Phase, Ext
      <4>4. \A d \in Client : cat[d] \in {"idle", "free"}
        BY <4>1, <4>3 DEF Alone
      <4>5. LiveEnts = {}
        BY <4>2 DEF LiveEnts
      <4>6. Creators = {}
        BY <4>2, <4>4 DEF Creators
      <4>7. tq.live = 0
        BY <1>3, <4>5, <4>6, FS_EmptySet
      <4>8. tq'.live = 0
        BY <1>1, <3>5, <4>7 DEF Free, TqType
      <4> QED
        BY <1>4, <3>3, <4>7, <4>8
    <3> QED
      BY <3>4, <3>5
  <2> QED
    BY <2>1, <2>2, <2>3
<1>11. ASSUME NEW w \in Worker, WorkerStep(w), ~ExtendLink(w), ~ExtendStart(w) PROVE LiveOK'
  <2>1. CASE ExtendCount(w)
    <3>1. wat[w] = "extend" /\ WGo(w, "create", wloc[w])
      BY <1>1, <2>1, WorkerTable
    <3>2. tq'.live = tq.live + 1 /\ tq.live <= MaxSize
      BY <1>1, <2>1 DEF ExtendCount, TqType
    <3>3. w \notin Creators
      BY <1>2, <3>1, Threads
    <3> QED
      BY <1>6, <1>9, <3>1, <3>2, <3>3
  <2>2. CASE ExtendNoMem(w)
    <3>1. wat[w] = "create" /\ WGo(w, "run", wloc[w])
      BY <1>1, <2>2, WorkerTable
    <3>2. tq'.live = tq.live - 1
      BY <1>1, <2>2 DEF ExtendNoMem, TqType
    <3>3. w \in Creators
      BY <1>2, <3>1
    <3> QED
      BY <1>7, <1>9, <3>1, <3>2, <3>3
  <2>3. CASE taskq_thread(w) \/ ExtendRefused(w)
    <3>1. wat[w] # "create" /\ \E k, r : WGo(w, k, r) /\ k # "create"
      <4>1. WorkerSleep(w) \/ WorkerTake(w) \/ WorkerExit(w) => pc[w] # "create"
        BY DEF WorkerSleep, WorkerTake, WorkerExit
      <4> QED
        BY <1>1, <2>3, <4>1, WorkerTable DEF taskq_thread
    <3>2. w \notin Creators
      BY <1>2, <3>1, Threads
    <3>3. LiveEnts' = LiveEnts /\ Creators' = Creators
      BY <1>9, <3>1, <3>2
    <3>4. tq'.live = tq.live
      BY <1>1, <2>3 DEF taskq_thread, WorkerSleep, WorkerTake, WorkerExit, WorkerRun, WorkerDone, taskq_ent_free,
         ExtendRefused, TqType
    <3> QED
      BY <1>4, <3>3, <3>4
  <2> QED
    BY <1>11, <2>1, <2>2, <2>3 DEF WorkerStep, taskq_bucket_extend
<1>12. ASSUME NEW x \in Client \cup Worker, ExtendLink(x) PROVE LiveOK'
  <2>1. PICK e \in Ent : LinkGo(x, e) /\ tq' = tq
    BY <1>1, <1>12, LinkTable DEF Linked
  <2>2. x \in Creators
    <3>1. Kind(pc[x]) = "create"
      BY <2>1, KindFacts DEF LinkGo, PCs
    <3> QED
      BY <1>1, <1>2, <3>1, ViewTypes
  <2>3. Creators' = Creators \ {x}
    <3>1. /\ \A c \in Client : cat'[c] = IF c = x THEN "setrun" ELSE cat[c]
          /\ \A w \in Worker : wat'[w] = IF w = x THEN "setrun" ELSE wat[w]
      BY <1>1, <2>1, Threads DEF LinkGo, Moves
    <3> QED
      BY <3>1 DEF Creators
  <2>4. LiveEnts' = LiveEnts \cup {e} /\ e \notin LiveEnts
    BY <1>1, <2>1 DEF LinkGo, LiveEnts
  <2>5. Cardinality(Creators \ {x}) = Cardinality(Creators) - 1
    BY <2>2, LiveSets, OneLess
  <2>6. Cardinality(LiveEnts \cup {e}) = Cardinality(LiveEnts) + 1
    BY <2>4, LiveSets, OneMore
  <2> QED
    BY <1>1, <1>3, <2>1, <2>3, <2>4, <2>5, <2>6 DEF LiveOK
<1>13. ASSUME NEW x \in Client \cup Worker, ExtendStart(x) PROVE LiveOK'
  <2>1. PICK e \in Ent : StartGo(x, e)
    BY <1>1, <1>13, StartTable
  <2>2. tq' = tq
    BY <1>13 DEF ExtendStart
  <2>3. eat[e] = "stopped"
    BY <1>1, <2>1 DEF StartGo, SetrunOK
  <2>4. LiveEnts' = LiveEnts
    BY <1>1, <2>1, <2>3 DEF StartGo, LiveEnts
  <2>5. ExtendRet(x) # "create" /\ Kind(pc[x]) = "setrun"
    BY <1>1, <2>1, RetKinds, KindFacts DEF ExtendRet, StartGo, PCs
  <2>6. x \notin Creators
    BY <1>1, <1>2, <2>5, ViewTypes, Threads
  <2>7. Creators' = Creators
    <3>1. /\ \A c \in Client : cat'[c] = IF c = x THEN ExtendRet(x) ELSE cat[c]
          /\ \A w \in Worker : wat'[w] = IF w = x THEN ExtendRet(x) ELSE wat[w]
      BY <1>1, <2>1, Threads DEF StartGo, Moves
    <3> QED
      BY <2>5, <2>6, <3>1 DEF Creators
  <2> QED
    BY <1>4, <2>2, <2>4, <2>7
<1>14. ASSUME NEW e \in Ent, taskq_d_thread(e) PROVE LiveOK'
  <2>1. PICK k : EGo(e, k) /\ eat[e] # "none" /\ (k = "none" <=> EntDie(e))
    <3>1. \A l \in {"run", "awake", "timedout"} : l # "none"
      OBVIOUS
    <3>2. EntDie(e) => EGo(e, "none") /\ eat[e] # "none"
      BY <1>1, EntTable
    <3>3. ~EntDie(e) => \E l \in {"run", "awake", "timedout"} : EGo(e, l) /\ eat[e] # "none"
      BY <1>1, <1>14, EntTable DEF taskq_d_thread
    <3> QED
      BY <3>1, <3>2, <3>3
  <2>2. cat' = cat /\ wat' = wat /\ \A d \in Ent : eat'[d] = IF d = e THEN k ELSE eat[d]
    BY <1>1, <2>1 DEF EGo, EMove
  <2>3. Creators' = Creators
    BY <2>2 DEF Creators
  <2>4. CASE EntDie(e)
    <3>1. LiveEnts' = LiveEnts \ {e} /\ e \in LiveEnts
      BY <2>1, <2>2, <2>4 DEF LiveEnts
    <3>2. Cardinality(LiveEnts \ {e}) = Cardinality(LiveEnts) - 1
      BY <3>1, LiveSets, OneLess
    <3>3. tq'.live = tq.live - 1
      BY <1>1, <2>4 DEF EntDie, TqType
    <3> QED
      BY <1>1, <1>3, <2>3, <3>1, <3>2, <3>3 DEF LiveOK
  <2>5. CASE ~EntDie(e)
    <3>1. LiveEnts' = LiveEnts
      BY <2>1, <2>2, <2>5 DEF LiveEnts
    <3>2. tq'.live = tq.live
      BY <1>14, <2>5 DEF taskq_d_thread, EntRun, EntDone, EntSleep, EntTimeout
    <3> QED
      BY <1>4, <2>3, <3>1, <3>2
  <2> QED
    BY <2>4, <2>5
<1> QED
  BY <1>5, <1>10, <1>11, <1>12, <1>13, <1>14, Cases DEF StepCases

----------------------------------------------------------------------------
(* Tasks *)

\* Tasks that are scheduled and not done.
Out == {"queued", "running"}
SameOut == \A t \in Task : status'[t] \in Out <=> status[t] \in Out

\* Most steps of clients schedule no task.
LEMMA QuietStatus ==
  ASSUME Inv, NEW c \in Client, QuietStep(c)
  PROVE  SameOut
<1>1. /\ Typ /\ status \in [Task -> {"new", "called", "refused", "queued", "running", "done"}]
  BY DEF Inv, Typ
<1>2. ASSUME NEW t \in Task, NEW f \in DispatchFlags, taskq_dispatch(c, t, f) PROVE SameOut
  BY <1>1, <1>2 DEF taskq_dispatch, SameOut, Out
<1>3. CASE AllocFailed(c)
  <2>1. \A t \in Task : status'[t] = status[t] \/ (status[t] = "called" /\ status'[t] = "refused")
    BY <1>1, <1>3 DEF AllocFailed, NextEnt
  <2> QED
    BY <2>1 DEF SameOut, Out
<1>4. CASE ~AllocFailed(c) /\ ~\E t \in Task, f \in DispatchFlags : taskq_dispatch(c, t, f)
  <2>1. status' = status
    BY <1>4 DEF QuietStep, ClientSteps, Call, ClientStep, taskq_bucket_extend, taskq_ent_alloc, Enqueue,
       Populate, Created, ExtendRefused, ExtendCount, ExtendNoMem, BucketMiss, AllocUnlock, kmem_cache_alloc,
       taskq_wait, taskq_destroy, WaitList, WaitBucket, Waited, taskq_resume, JoinBucket, SuspendBucket,
       ResumeBucket, CloseBucket, taskq_suspend, Suspended, Resumed, Deactivate, Join, Drain, Free
  <2> QED
    BY <2>1 DEF SameOut
<1> QED
  BY <1>2, <1>3, <1>4

\* The parts of PlacesOK.
Placed  == \A t \in Task : status[t] \in Out <=> Listed(t) \/ Held(t) \/ Entered(t)
OneItem == \A i, j \in DOMAIN tq.task : tq.task[i] \in Task /\ tq.task[i] = tq.task[j] => i = j
OneHand == \A v, w \in Worker : wloc[v].task # NULL /\ wloc[v].task = wloc[w].task => v = w
OneEnt  == \A d, e \in Ent : func[d] # NULL /\ func[d] = func[e] => d = e
Apart   == \A t \in Task : /\ ~(Listed(t) /\ Held(t))
                           /\ ~(Listed(t) /\ Entered(t))
                           /\ ~(Held(t) /\ Entered(t))

\* A task stays in one place.
LEMMA PlacesPreserved ==
  ASSUME Inv, Next
  PROVE  PlacesOK'
<1>1. /\ Typ /\ FreedQuiet /\ SetrunOK /\ WorkOK /\ LocalsOK /\ tq \in TqType /\ wat \in [Worker -> PCs]
      /\ wloc \in [Worker -> LocType] /\ eat \in [Ent -> PCs]
      /\ func \in [Ent -> Task \cup {NULL}] /\ tq.task \in Seq(Task \cup Bucket)
      /\ NULL \notin Task /\ Task \cap Bucket = {}
      /\ status \in [Task -> {"new", "called", "refused", "queued", "running", "done"}]
  BY ViewTypes, TaskqAssumption DEF Inv, Typ, TqType
<1>2. \A w \in Worker : wloc[w].task \in Task \cup {NULL}
  BY <1>1 DEF LocType
<1>3. Placed /\ OneItem /\ OneHand /\ OneEnt /\ Apart
  BY DEF Inv, PlacesOK, Placed, OneItem, OneHand, OneEnt, Apart, Out
<1>4. SUFFICES Placed' /\ OneItem' /\ OneHand' /\ OneEnt' /\ Apart'
  BY DEF PlacesOK, Placed, OneItem, OneHand, OneEnt, Apart, Out
<1> DEFINE Goal == Placed' /\ OneItem' /\ OneHand' /\ OneEnt' /\ Apart'
<1> DEFINE SameHands == \A w \in Worker : wloc'[w].task = wloc[w].task
\* What stays where it is.
<1>5. ASSUME tq'.task = tq.task PROVE OneItem' /\ \A t \in Task : Listed(t)' <=> Listed(t)
  BY <1>3, <1>5 DEF OneItem, Listed
<1>6. ASSUME SameHands PROVE OneHand' /\ \A t \in Task : Held(t)' <=> Held(t)
  BY <1>3, <1>6 DEF OneHand, Held
<1>7. ASSUME func' = func PROVE OneEnt' /\ \A t \in Task : Entered(t)' <=> Entered(t)
  BY <1>3, <1>7 DEF OneEnt, Entered
<1>8. ASSUME tq'.task = tq.task, SameHands, func' = func, SameOut PROVE Goal
  BY <1>3, <1>5, <1>6, <1>7, <1>8 DEF Placed, Apart, SameOut
<1>9. ASSUME NEW c \in Client, taskq_create(c) PROVE Goal
  <2>1. PICK f \in CreateFlags, W \in SUBSET Worker : CreateGo(c, f, W)
    BY <1>1, <1>9, CreateTable
  <2>2. /\ tq.task = <<>> /\ \A w \in Worker : wat[w] = "none"
    BY <1>1, <2>1, KindFacts, ViewTypes DEF CreateGo, FreedQuiet, PCs
  <2>3. \A e \in Ent : eat[e] = "none"
    BY <1>1, <2>1, KindFacts, ViewTypes DEF CreateGo, FreedQuiet, PCs
  <2>4. tq'.task = tq.task /\ SameHands /\ func' = func
    BY <1>1, <2>1 DEF CreateGo, TqType
  <2>5. \A t \in Task : ~Listed(t) /\ ~Held(t) /\ ~Entered(t)
    <3>1. \A t \in Task : ~Listed(t)
      BY <2>2 DEF Listed
    <3>2. \A t \in Task : ~Held(t)
      BY <1>1, <2>2 DEF Held, WorkOK
    <3>3. \A t \in Task : ~Entered(t)
      BY <1>1, <2>3 DEF Entered, Inv, EntriesOK
    <3> QED
      BY <3>1, <3>2, <3>3
  <2>6. \A t \in Task : status'[t] = "new"
    BY <2>1 DEF CreateGo
  <2>7. \A t \in Task : ~Listed(t)' /\ ~Held(t)' /\ ~Entered(t)'
    BY <1>5, <1>6, <1>7, <2>4, <2>5
  <2> QED
    BY <1>5, <1>6, <1>7, <2>4, <2>6, <2>7 DEF Placed, Apart, Out
<1>10. ASSUME NEW c \in Client, QuietStep(c) PROVE Goal
  <2>1. SameHands /\ tq'.task = tq.task /\ func' = func
    BY <1>10, QuietFrame, QuietGo DEF CGo, CMove
  <2> QED
    BY <1>8, <1>10, <2>1, QuietStatus
<1>11. ASSUME NEW c \in Client, Enqueue(c) PROVE Goal
  <2>1. SameHands /\ func' = func
    BY <1>11, QuietGo DEF CGo, CMove, Enqueue, FromFreelist, EnqueueNew, TQ_ENQUEUE
  <2>2. PICK h : h = Head(cloc[c].todo)
    OBVIOUS
  <2>3. /\ h \in Task \cup Bucket
        /\ h \in Task => h = cloc[c].task /\ status[h] = "called" /\ status'[h] = "queued"
        /\ tq' = [tq EXCEPT !.task = Append(@, h), !.nalloc = tq'.nalloc, !.freelist = tq'.freelist]
    BY <1>11, <2>2, EnqueueTable
  <2>4. tq'.task = Append(tq.task, h)
    BY <1>1, <2>3 DEF TqType
  <2>5. \A u \in Task : u # h => (status'[u] \in Out <=> status[u] \in Out)
    <3>1. NextEntStep(c)
      BY <1>11 DEF NextEntStep, Enqueue
    <3>2. /\ \A u \in Task : u # cloc[c].task => status'[u] = status[u]
          /\ status[cloc[c].task] # "called" => status'[cloc[c].task] = status[cloc[c].task]
          /\ Len(cloc[c].todo) # 1 => status' = status
          /\ (Len(cloc[c].todo) = 1 /\ h # cloc[c].task /\ status[cloc[c].task] = "called")
               => status'[cloc[c].task] = "refused"
      BY <1>1, <2>2, <3>1, EnqueueStatus
    <3> QED
      BY <1>1, <3>2 DEF Out
  <2>6. \A t \in Task : Listed(t)' <=> Listed(t) \/ t = h
    <3>1. \A t \in Task : Listed(t)' => Listed(t) \/ t = h
      BY <1>1, <2>3, <2>4, Appended DEF Listed
    <3>2. \A t \in Task : Listed(t) \/ t = h => Listed(t)'
      BY <1>1, <2>3, <2>4, Appended DEF Listed
    <3> QED
      BY <3>1, <3>2
  <2>7. h \in Task => ~Listed(h) /\ ~Held(h) /\ ~Entered(h)
    BY <1>3, <2>3 DEF Placed, Out
  <2>8. OneItem'
    <3>1. ASSUME NEW i \in DOMAIN tq'.task, NEW j \in DOMAIN tq'.task, tq'.task[i] \in Task, tq'.task[i] = tq'.task[j]
          PROVE  i = j
      <4>1. \A k \in DOMAIN tq'.task :
              \/ k \in DOMAIN tq.task /\ tq'.task[k] = tq.task[k]
              \/ k = Len(tq.task) + 1 /\ tq'.task[k] = h
        BY <1>1, <2>3, <2>4, Appended
      <4> QED
        BY <1>3, <2>7, <3>1, <4>1 DEF OneItem, Listed
    <3> QED
      BY <3>1 DEF OneItem
  <2>9. Placed'
    BY <1>3, <1>6, <1>7, <2>1, <2>3, <2>5, <2>6 DEF Placed, Out
  <2>10. Apart'
    BY <1>3, <1>6, <1>7, <2>1, <2>6, <2>7 DEF Apart
  <2> QED
    BY <1>6, <1>7, <2>1, <2>8, <2>9, <2>10
<1>12. ASSUME NEW c \in Client, taskq_bucket_dispatch(c) PROVE Goal
  <2>1. PICK b \in Bucket, e \in Ent : Dispatched(c, b, e)
    BY <1>12, DispatchTable
  <2>2. SameHands /\ tq' = tq
    BY <1>12, <2>1, QuietGo DEF CGo, CMove, Dispatched
  <2>3. PICK t \in Task : t = cloc[c].task
    BY <2>1 DEF Dispatched
  <2>4. func' = [func EXCEPT ![e] = t] /\ status[t] = "called" /\ status' = [status EXCEPT ![t] = "queued"]
    BY <2>1, <2>3 DEF Dispatched
  <2>5. func[e] = NULL
    <3>1. e \in bkt[b].freelist
      BY <2>1 DEF Dispatched
    <3>2. bkt[b].freelist = OnFreelist(b)
      BY DEF Inv, EntriesOK
    <3> QED
      BY <3>1, <3>2 DEF OnFreelist
  <2>6. ~Listed(t) /\ ~Held(t) /\ ~Entered(t)
    BY <1>3, <2>4 DEF Placed, Out
  <2>7. \A u \in Task : Entered(u)' <=> Entered(u) \/ u = t
    BY <1>1, <2>4, <2>5 DEF Entered
  <2>8. OneEnt'
    BY <1>1, <1>3, <2>4, <2>5, <2>6 DEF OneEnt, Entered
  <2>9. Placed'
    BY <1>1, <1>3, <1>5, <1>6, <2>2, <2>4, <2>7 DEF Placed, Out
  <2>10. Apart'
    BY <1>3, <1>5, <1>6, <2>2, <2>6, <2>7 DEF Apart
  <2> QED
    BY <1>5, <1>6, <2>2, <2>8, <2>9, <2>10
<1>13. ASSUME NEW x \in Client \cup Worker, ExtendLink(x) \/ ExtendStart(x) PROVE Goal
  <2>1. tq' = tq /\ status' = status
    BY <1>13 DEF ExtendLink, ExtendStart
  <2>2. func' = func
    <3>1. CASE ExtendLink(x)
      <4>1. PICK e \in Ent : LinkGo(x, e) /\ Linked(x, e)
        BY <1>1, <3>1, LinkTable
      <4>2. func[e] = NULL
        BY <4>1 DEF LinkGo, Inv, EntriesOK
      <4> QED
        BY <1>1, <4>1, <4>2 DEF Linked
    <3>2. CASE ExtendStart(x)
      BY <3>2 DEF ExtendStart
    <3> QED
      BY <1>13, <3>1, <3>2
  <2>3. SameHands
    <3>1. CASE x \in Client
      <4>1. wloc' = wloc
        BY <1>1, <1>13, <3>1, LinkTable, StartTable DEF LinkGo, StartGo, Moves
      <4> QED
        BY <4>1
    <3>2. CASE x \in Worker
      <4>1. PICK e : wloc' = [wloc EXCEPT ![x] = EntLoc(x, e)]
        BY <1>1, <1>13, <3>2, LinkTable, StartTable DEF LinkGo, StartGo, Moves
      <4>2. EntLoc(x, e).task = wloc[x].task
        BY <1>1, <3>2, ViewTypes DEF EntLoc, LocType
      <4> QED
        BY <1>1, <3>2, <4>1, <4>2
    <3> QED
      BY <3>1, <3>2
  <2> QED
    BY <1>8, <2>1, <2>2, <2>3 DEF SameOut
<1>14. ASSUME NEW e \in Ent, taskq_d_thread(e) PROVE Goal
  <2>1. SameHands
    BY <1>1, <1>14, EntTable DEF taskq_d_thread, EGo, EMove
  <2>2. tq'.task = tq.task
    BY <1>1, <1>14 DEF taskq_d_thread, EntRun, EntDone, EntSleep, EntTimeout, EntDie, TqType
  <2>3. CASE EntSleep(e) \/ EntTimeout(e) \/ EntDie(e)
    <3>1. func' = func /\ status' = status
      BY <2>3 DEF EntSleep, EntTimeout, EntDie
    <3> QED
      BY <1>8, <2>1, <2>2, <3>1 DEF SameOut
  <2>4. CASE EntRun(e)
    <3>1. func' = func /\ func[e] \in Task /\ status' = [status EXCEPT ![func[e]] = "running"]
      BY <1>1, <2>4 DEF EntRun
    <3>2. status[func[e]] \in Out
      BY <1>3, <3>1 DEF Placed, Entered
    <3>3. SameOut
      BY <1>1, <3>1, <3>2 DEF SameOut, Out
    <3> QED
      BY <1>8, <2>1, <2>2, <3>1, <3>3
  <2>5. CASE EntDone(e)
    <3>1. eat[e] = "run"
      BY <1>1, <2>5, EntTable
    <3>2. PICK t \in Task : t = func[e]
      BY <1>1, <3>1 DEF Inv, EntriesOK
    <3>3. func' = [func EXCEPT ![e] = NULL] /\ status' = [status EXCEPT ![t] = "done"]
      BY <2>5, <3>2 DEF EntDone
    <3>4. \A u \in Task : Entered(u)' <=> Entered(u) /\ u # t
      BY <1>1, <1>3, <3>2, <3>3 DEF Entered, OneEnt
    <3>5. Entered(t) /\ ~Listed(t) /\ ~Held(t)
      BY <1>3, <3>2 DEF Entered, Apart
    <3>6. OneEnt'
      BY <1>1, <1>3, <3>3 DEF OneEnt
    <3>7. Placed'
      BY <1>1, <1>3, <1>5, <1>6, <2>1, <2>2, <3>3, <3>4, <3>5 DEF Placed, Out
    <3>8. Apart'
      BY <1>3, <1>5, <1>6, <2>1, <2>2, <3>4 DEF Apart
    <3> QED
      BY <1>5, <1>6, <2>1, <2>2, <3>6, <3>7, <3>8
  <2> QED
    BY <1>14, <2>3, <2>4, <2>5 DEF taskq_d_thread
<1>15. ASSUME NEW w \in Worker, WorkerStep(w), ~ExtendLink(w), ~ExtendStart(w) PROVE Goal
  <2>1. func' = func
    BY <1>15, WorkerGos
  <2>2. CASE WorkerSleep(w) \/ WorkerExit(w) \/ taskq_ent_free(w) \/ ExtendRefused(w) \/ ExtendCount(w) \/ ExtendNoMem(w)
    <3>1. tq'.task = tq.task /\ status' = status
      BY <1>1, <2>2 DEF WorkerSleep, WorkerExit, taskq_ent_free, ExtendRefused, ExtendCount, ExtendNoMem, TqType
    <3>2. \E k : WGo(w, k, wloc[w])
      BY <1>1, <2>2, WorkerTable
    <3>3. SameHands
      BY <1>1, <3>2 DEF WGo, WMove
    <3> QED
      BY <1>8, <2>1, <3>1, <3>3 DEF SameOut
  <2>3. CASE WorkerRun(w)
    <3>1. tq'.task = tq.task
      BY <1>1, <2>3 DEF WorkerRun, TqType
    <3>2. \E k : WGo(w, k, wloc[w])
      BY <1>1, <2>3, WorkerTable
    <3>3. SameHands
      BY <1>1, <3>2 DEF WGo, WMove
    <3>4. SameOut
      <4>1. CASE wloc[w].task = NULL
        BY <1>1, <2>3, <4>1, ViewTypes DEF WorkerRun, SameOut
      <4>2. CASE wloc[w].task # NULL
        <5>1. PICK t \in Task : t = wloc[w].task /\ status' = [status EXCEPT ![t] = "running"]
          BY <1>1, <1>2, <2>3, <4>2, ViewTypes DEF WorkerRun
        <5>2. status[t] \in Out
          BY <1>3, <5>1 DEF Placed, Held
        <5> QED
          BY <1>1, <5>1, <5>2 DEF SameOut, Out
      <4> QED
        BY <4>1, <4>2
    <3> QED
      BY <1>8, <2>1, <3>1, <3>3, <3>4
  <2>4. CASE WorkerDone(w)
    <3>1. tq'.task = tq.task
      BY <1>1, <2>4 DEF WorkerDone, TqType
    <3>2. WGo(w, "ent_free", NoLocals) /\ NoLocals.task = NULL
      BY <1>1, <2>4, WorkerTable DEF NoLocals
    <3>3. \A v \in Worker : wloc'[v].task = IF v = w THEN NULL ELSE wloc[v].task
      BY <1>1, <3>2 DEF WGo, WMove
    <3>4. \A u \in Task : status'[u] = IF u = wloc[w].task THEN "done" ELSE status[u]
      BY <1>1, <2>4, ViewTypes DEF WorkerDone
    <3>5. \A u \in Task : Held(u)' <=> Held(u) /\ u # wloc[w].task
      BY <1>1, <1>3, <3>3 DEF Held, OneHand
    <3>6. OneHand'
      BY <1>3, <3>3 DEF OneHand
    <3>7. \A u \in Task : u = wloc[w].task => Held(u)
      BY DEF Held
    <3>8. Placed'
      BY <1>3, <1>5, <1>7, <2>1, <3>1, <3>4, <3>5, <3>7 DEF Placed, Apart, Out
    <3>9. Apart'
      BY <1>3, <1>5, <1>7, <2>1, <3>1, <3>5 DEF Apart
    <3> QED
      BY <1>5, <1>7, <2>1, <3>1, <3>6, <3>8, <3>9
  <2>5. CASE WorkerTake(w)
    <3>1. /\ WGo(w, "rw_enter", TakenLoc(w, Head(tq.task))) /\ wat[w] \in {"loop", "awake"}
          /\ tq.task # <<>> /\ tq'.task = Tail(tq.task) /\ status' = status
      BY <1>1, <2>5, WorkerTable DEF WorkerTake, TqType
    <3>2. PICK h \in Task \cup Bucket : h = Head(tq.task)
      BY <1>1, <3>1, Shifted
    <3>3. \A v \in Worker : wloc'[v].task = IF v = w THEN IF h \in Task THEN h ELSE NULL ELSE wloc[v].task
      BY <1>1, <3>1, <3>2 DEF WGo, WMove, TakenLoc, LocType
    <3>4. wloc[w].task = NULL
      BY <1>1, <3>1 DEF WorkOK
    <3>5. \A u \in Task : Held(u)' <=> Held(u) \/ u = h
      BY <1>1, <3>3, <3>4 DEF Held
    <3>6. 1 \in DOMAIN tq.task /\ tq.task[1] = h
      BY <1>1, <3>1, <3>2, Shifted
    <3>7. \A u \in Task : Listed(u)' <=> Listed(u) /\ u # h
      <4>1. \A u \in Task : Listed(u)' => Listed(u) /\ u # h
        BY <1>1, <1>3, <3>1, <3>6, Shifted DEF Listed, OneItem
      <4>2. \A u \in Task : Listed(u) /\ u # h => Listed(u)'
        <5>1. ASSUME NEW u \in Task, u # h, NEW i \in DOMAIN tq.task, tq.task[i] = u
              PROVE  i - 1 \in DOMAIN tq'.task /\ tq'.task[i - 1] = u
          BY <1>1, <3>1, <3>6, <5>1, Shifted
        <5> QED
          BY <5>1 DEF Listed
      <4> QED
        BY <4>1, <4>2
    <3>8. OneItem'
      <4>1. ASSUME NEW i \in DOMAIN tq'.task, NEW j \in DOMAIN tq'.task, tq'.task[i] \in Task, tq'.task[i] = tq'.task[j]
            PROVE  i = j
        <5>1. /\ i \in Nat /\ j \in Nat /\ i + 1 \in DOMAIN tq.task /\ j + 1 \in DOMAIN tq.task
              /\ tq'.task[i] = tq.task[i + 1] /\ tq'.task[j] = tq.task[j + 1]
          BY <1>1, <3>1, Shifted
        <5>2. i + 1 = j + 1
          BY <1>3, <4>1, <5>1 DEF OneItem
        <5> QED
          BY <5>1, <5>2
      <4> QED
        BY <4>1 DEF OneItem
    <3>9. h \in Task => Listed(h) /\ ~Held(h) /\ ~Entered(h)
      BY <1>3, <3>6 DEF Listed, Apart
    <3>10. OneHand'
      BY <1>3, <3>3, <3>9 DEF OneHand, Held
    <3>11. Placed'
      BY <1>3, <1>7, <2>1, <3>1, <3>5, <3>7, <3>9 DEF Placed
    <3>12. Apart'
      BY <1>3, <1>7, <2>1, <3>5, <3>7, <3>9 DEF Apart
    <3> QED
      BY <1>7, <2>1, <3>8, <3>10, <3>11, <3>12
  <2> QED
    BY <1>15, <2>2, <2>3, <2>4, <2>5 DEF WorkerStep, taskq_thread, taskq_bucket_extend
<1> QED
  BY <1>9, <1>10, <1>11, <1>12, <1>13, <1>14, <1>15, Cases DEF StepCases

----------------------------------------------------------------------------
(* Waits *)

\* Tasks that were scheduled; how they and their entries go on.
Sched == {"queued", "running", "done"}
Ahead == /\ \A t \in Task : status[t] \in Sched => status'[t] \in Sched
         /\ \A t \in Task : status[t] \in Sched /\ status'[t] \in Out => status[t] \in Out
Stays == \A e \in Ent : func[e] \in Task /\ status'[func[e]] \in Out => func'[e] = func[e] /\ home'[e] = home[e]

\* A scheduled task stays scheduled until it is done.
LEMMA TasksAhead ==
  ASSUME Inv, Next, \A c \in Client : ~taskq_create(c)
  PROVE  Ahead
<1>1. CASE OtherStep
  BY <1>1, OthersFrame DEF Others, Onwards, Ahead, Sched, Out
<1>2. ASSUME NEW c \in Client, ClientSteps(c) PROVE Ahead
  BY <1>2, ClientKeeps DEF OwnOnly, Ahead, Sched, Out
<1> QED
  BY <1>1, <1>2 DEF Next, OtherStep, ClientSteps

\* A task that is in an entry stays in it until it is done.
LEMMA EntriesStay ==
  ASSUME Inv, Next, \A c \in Client : ~taskq_create(c)
  PROVE  Stays
<1>1. /\ Typ /\ func \in [Ent -> Task \cup {NULL}] /\ home \in [Ent -> Bucket \cup {NULL}] /\ NULL \notin Task
      /\ eat \in [Ent -> PCs] /\ status \in [Task -> {"new", "called", "refused", "queued", "running", "done"}]
  BY ViewTypes, TaskqAssumption DEF Inv, Typ
<1>2. ASSUME UNCHANGED <<func, home>> PROVE Stays
  BY <1>2 DEF Stays
<1>3. ASSUME NEW c \in Client, QuietStep(c) PROVE Stays
  BY <1>2, <1>3, QuietFrame
<1>4. ASSUME NEW c \in Client, Enqueue(c) PROVE Stays
  BY <1>2, <1>4 DEF Enqueue, FromFreelist, EnqueueNew, TQ_ENQUEUE
<1>5. ASSUME NEW c \in Client, taskq_bucket_dispatch(c) PROVE Stays
  <2>1. PICK b \in Bucket, e \in Ent : Dispatched(c, b, e)
    BY <1>5, DispatchTable
  <2>2. func[e] = NULL
    <3>1. e \in bkt[b].freelist
      BY <2>1 DEF Dispatched
    <3>2. bkt[b].freelist = OnFreelist(b)
      BY DEF Inv, EntriesOK
    <3> QED
      BY <3>1, <3>2 DEF OnFreelist
  <2> QED
    BY <1>1, <2>1, <2>2 DEF Dispatched, Stays
<1>6. ASSUME NEW w \in Worker, WorkerStep(w), ~ExtendLink(w), ~ExtendStart(w) PROVE Stays
  BY <1>2, <1>6, WorkerGos
<1>7. ASSUME NEW x \in Client \cup Worker, ExtendLink(x) PROVE Stays
  <2>1. PICK e \in Ent : LinkGo(x, e) /\ Linked(x, e)
    BY <1>1, <1>7, LinkTable
  <2>2. func[e] = NULL
    BY <2>1 DEF LinkGo, Inv, EntriesOK
  <2> QED
    BY <1>1, <2>1, <2>2 DEF Linked, Stays
<1>8. ASSUME NEW x \in Client \cup Worker, ExtendStart(x) PROVE Stays
  BY <1>2, <1>8 DEF ExtendStart
<1>9. ASSUME NEW e \in Ent, taskq_d_thread(e) PROVE Stays
  <2>1. CASE EntRun(e) \/ EntSleep(e) \/ EntTimeout(e)
    BY <1>2, <2>1 DEF EntRun, EntSleep, EntTimeout
  <2>2. CASE EntDone(e)
    <3>1. eat[e] = "run"
      BY <1>1, <2>2, EntTable
    <3>2. PICK t \in Task : t = func[e]
      BY <1>1, <3>1 DEF Inv, EntriesOK
    <3>3. func' = [func EXCEPT ![e] = NULL] /\ status' = [status EXCEPT ![t] = "done"] /\ home' = home
      BY <2>2, <3>2 DEF EntDone
    <3>4. status'[t] \notin Out
      BY <1>1, <3>3 DEF Out
    <3> QED
      BY <1>1, <3>2, <3>3, <3>4 DEF Stays
  <2>3. CASE EntDie(e)
    <3>1. func' = func /\ func[e] = NULL /\ home' = [home EXCEPT ![e] = NULL]
      BY <2>3 DEF EntDie
    <3> QED
      BY <1>1, <3>1 DEF Stays
  <2> QED
    BY <1>9, <2>1, <2>2, <2>3 DEF taskq_d_thread
<1> QED
  BY <1>3, <1>4, <1>5, <1>6, <1>7, <1>8, <1>9, Cases DEF StepCases

\* When the list is empty and no worker is active, tasks are in buckets only.
LEMMA ListIdle ==
  ASSUME Inv, "ACTIVE" \in tq.flags, tq.task = <<>>, tq.active = 0
  PROVE  /\ \A w \in Worker : wat[w] \in {"none", "awake"}
         /\ \A t \in Pending : \E e \in Ent : func[e] = t
<1>1. Active = {}
  <2>1. Cardinality(Active) = 0
    BY DEF Inv, ThreadsOK
  <2> QED
    BY <2>1, WorkerSets, FS_EmptySet
<1>2. \A w \in Worker : wat[w] \in {"none", "awake"}
  BY <1>1 DEF Active
<1>3. \A w \in Worker : wloc[w].task = NULL
  BY <1>2 DEF Inv, WorkOK
<1>4. ASSUME NEW t \in Task, status[t] \in {"queued", "running"} PROVE \E e \in Ent : func[e] = t
  <2>1. ~Listed(t)
    BY DEF Listed
  <2>2. ~Held(t)
    BY <1>3, TaskqAssumption DEF Held
  <2> QED
    BY <1>4, <2>1, <2>2 DEF Inv, PlacesOK, Entered
<1> QED
  BY <1>2, <1>4 DEF Pending

\* An entry with a task is in a bucket of a dynamic queue.
LEMMA EntryHome ==
  ASSUME Inv, NEW e \in Ent, func[e] # NULL \/ home[e] # NULL
  PROVE  home[e] \in Bucket /\ Dynamic
BY DEF Inv, EntriesOK, Typ

\* A bucket without entries in use, and one without free entries.
LEMMA EmptyBucket ==
  ASSUME Inv, NEW b \in Bucket
  PROVE  /\ ~(bkt[b].nalloc > 0) => \A e \in Ent : home[e] = b => func[e] = NULL
         /\ ~(bkt[b].nfree > 0) => \A e \in Ent : home[e] = b => func[e] # NULL
<1>1. bkt[b].nfree = Cardinality(OnFreelist(b)) /\ bkt[b].nalloc = Cardinality(InUse(b))
  BY DEF Inv, EntriesOK
<1>2. ASSUME ~(bkt[b].nalloc > 0) PROVE \A e \in Ent : home[e] = b => func[e] = NULL
  <2>1. Cardinality(InUse(b)) = 0
    BY <1>1, <1>2, EntSets, FS_CardinalityType
  <2>2. InUse(b) = {}
    BY <2>1, EntSets, FS_EmptySet
  <2> QED
    BY <2>2 DEF InUse
<1>3. ASSUME ~(bkt[b].nfree > 0) PROVE \A e \in Ent : home[e] = b => func[e] # NULL
  <2>1. Cardinality(OnFreelist(b)) = 0
    BY <1>1, <1>3, EntSets, FS_CardinalityType
  <2>2. OnFreelist(b) = {}
    BY <2>1, EntSets, FS_EmptySet
  <2> QED
    BY <2>2 DEF OnFreelist
<1> QED
  BY <1>2, <1>3

\* What a client waits for.
WaitsFor(c) ==
    /\ cat[c] \in {"wait", "bwait", "waited", "deactivate"} => \A t \in seen[c] : status[t] \in Sched
    /\ cat[c] = "bwait" => \A t \in seen[c] \cap Pending : \E e \in Ent : func[e] = t /\ home[e] >= cloc[c].i
    /\ cat[c] \in {"waited", "deactivate"} => seen[c] \cap Pending = {}

\* taskq_wait comes by no task that it has to wait for.
LEMMA WaitPreserved ==
  ASSUME Inv, Next
  PROVE  WaitOK'
<1>1. /\ Typ /\ FreedQuiet /\ cat \in [Client -> PCs] /\ cloc \in [Client -> LocType] /\ PhaseOK
      /\ seen \in [Client -> SUBSET Task] /\ home \in [Ent -> Bucket \cup {NULL}] /\ NULL \notin Task
  BY ViewTypes, TaskqAssumption DEF Inv, Typ
<1>2. \A c \in Client : WaitsFor(c)
  BY DEF Inv, WaitOK, WaitsFor, Sched
<1>3. SUFFICES \A c \in Client : WaitsFor(c)'
  BY DEF WaitOK, WaitsFor, Sched
<1>4. ASSUME NEW c \in Client, taskq_create(c) PROVE \A d \in Client : WaitsFor(d)'
  <2>1. PICK f \in CreateFlags, W \in SUBSET Worker : CreateGo(c, f, W)
    BY <1>1, <1>4, CreateTable
  <2>2. PICK k \in {"populate", "created"} : cat' = [cat EXCEPT ![c] = k]
    BY <2>1 DEF CreateGo
  <2>3. \A d \in Client : cat[d] = "idle"
    BY <1>1, <2>1, PhaseDef DEF CreateGo, InPhase, Phase
  <2>4. \A d \in Client : cat'[d] \in {"idle", "populate", "created"}
    BY <1>1, <2>2, <2>3
  <2> QED
    BY <2>4 DEF WaitsFor
<1>5. ASSUME \A c \in Client : ~taskq_create(c) PROVE \A c \in Client : WaitsFor(c)'
  <2>1. Ahead /\ Stays
    BY <1>5, TasksAhead, EntriesStay
  <2>2. ASSUME NEW d \in Client, cat'[d] = cat[d], cloc'[d] = cloc[d], seen'[d] = seen[d] PROVE WaitsFor(d)'
    <3>1. seen[d] \subseteq Task
      BY <1>1
    <3>2. cat[d] \in {"wait", "bwait", "waited", "deactivate"} => \A t \in seen[d] : status'[t] \in Sched
      BY <1>2, <2>1, <3>1 DEF WaitsFor, Ahead
    <3>3. cat[d] \in {"wait", "bwait", "waited", "deactivate"} => seen[d] \cap Pending' \subseteq seen[d] \cap Pending
      BY <1>2, <2>1, <3>1 DEF WaitsFor, Ahead, Pending, Out
    <3>4. ASSUME cat[d] = "bwait", NEW t \in seen[d] \cap Pending' PROVE \E e \in Ent : func'[e] = t /\ home'[e] >= cloc[d].i
      <4>1. PICK e \in Ent : func[e] = t /\ home[e] >= cloc[d].i
        BY <1>2, <3>3, <3>4 DEF WaitsFor
      <4>2. status'[t] \in Out /\ t \in Task
        BY <3>1, <3>4 DEF Pending, Out
      <4> QED
        BY <2>1, <4>1, <4>2 DEF Stays
    <3> QED
      BY <1>2, <2>2, <3>2, <3>3, <3>4 DEF WaitsFor
  <2>3. CASE OtherStep
    BY <2>2, <2>3, OthersFrame DEF Others
  <2>4. ASSUME NEW c \in Client, ClientSteps(c) PROVE \A d \in Client : WaitsFor(d)'
    <3>1. PICK k, r : Moved(c, k, r)
      BY <1>5, <2>4, ClientMoves
    <3>2. \A d \in Client : d # c => cat'[d] = cat[d] /\ cloc'[d] = cloc[d]
      BY <1>1, <3>1 DEF Moved, CMove, Moves
    <3>3. \A d \in Client : d # c => seen'[d] = seen[d]
      <4>1. CASE ~WaitStep(c) /\ ~DestroyStep(c)
        BY <2>4, <4>1, Elsewhere
      <4>2. CASE WaitStep(c) \/ DestroyStep(c)
        BY <1>1, <4>2 DEF WaitStep, DestroyStep, taskq_wait, taskq_destroy, WaitList, WaitBucket, Waited, Deactivate,
           Join, Drain, CloseBucket, JoinBucket, Free
      <4> QED
        BY <4>1, <4>2
    <3>4. SUFFICES WaitsFor(c)'
      BY <2>2, <3>2, <3>3
    <3>5. CASE cat'[c] \notin {"wait", "bwait", "waited", "deactivate"}
      BY <3>5 DEF WaitsFor
    <3>6. CASE ~WaitStep(c) /\ ~DestroyStep(c)
      BY <2>4, <3>5, <3>6, Elsewhere DEF Late
    <3>7. CASE DestroyStep(c)
      <4>1. \E l, q : CGo(c, l, q) /\ l \in {"join", "drain", "close", "free", "bjoin", "idle"}
        BY <1>1, <3>7, ClientDestroy DEF DestroyStep
      <4> QED
        BY <1>1, <3>5, <4>1 DEF CGo, CMove
    <3>8. CASE Waited(c)
      BY <1>1, <3>5, <3>8, ClientWait DEF CGo, CMove
    <3>9. CASE taskq_wait(c) \/ taskq_destroy(c)
      <4>1. cat'[c] = "wait" /\ seen'[c] = Pending /\ status' = status
        BY <1>1, <3>9, ClientWait DEF CGo, CMove, taskq_wait, taskq_destroy
      <4> QED
        BY <4>1 DEF WaitsFor, Pending, Sched
    <3>10. ASSUME WaitList(c) \/ WaitBucket(c)
           PROVE  /\ UNCHANGED <<seen, status, func, home>> /\ "ACTIVE" \in tq.flags /\ Pending' = Pending
                  /\ cat[c] \in {"wait", "bwait"} /\ cloc[c].ret \in {"waited", "deactivate"}
      <4>1. UNCHANGED <<seen, status, func, home>>
        BY <3>10 DEF WaitList, WaitBucket
      <4>2. cat[c] \in {"wait", "bwait"}
        BY <1>1, <3>10, ClientWait
      <4>3. cloc[c].ret \in {"waited", "deactivate"}
        BY <1>1, <4>2, PhaseDef DEF InPhase, Phase, Ext
      <4> QED
        BY <4>1, <4>2, <4>3 DEF Pending, Inv, ThreadsOK
    <3>11. CASE WaitList(c)
      <4>1. CASE tq.task # <<>> \/ tq.active # 0
        <5>1. cat[c] = "wait" /\ CGo(c, "wait", cloc[c])
          BY <1>1, <3>11, <4>1, ClientWait
        <5> QED
          BY <1>1, <2>2, <3>10, <3>11, <5>1 DEF CGo, CMove
      <4>2. CASE ~(tq.task # <<>> \/ tq.active # 0)
        <5>1. \A t \in Pending : \E e \in Ent : func[e] = t
          BY <3>10, <3>11, <4>2, ListIdle
        <5>2. \A t \in seen[c] : status[t] \in Sched
          BY <1>2, <3>10, <3>11 DEF WaitsFor
        <5>3. CASE Dynamic
          <6>1. CGo(c, "bwait", AtLoc(c, 1))
            BY <1>1, <3>11, <4>2, <5>3, ClientWait
          <6>2. cat'[c] = "bwait" /\ cloc'[c].i = 1
            BY <1>1, <6>1 DEF CGo, CMove, AtLoc, LocType
          <6>3. \A e \in Ent : func[e] \in Task => home[e] >= 1
            BY <1>1, EntryHome DEF Bucket
          <6>4. \A t \in seen[c] \cap Pending : \E e \in Ent : func[e] = t /\ home[e] >= 1
            BY <1>1, <5>1, <6>3
          <6> QED
            BY <3>10, <3>11, <5>2, <6>2, <6>4 DEF WaitsFor
        <5>4. CASE ~Dynamic
          <6>1. CGo(c, cloc[c].ret, cloc[c])
            BY <1>1, <3>11, <4>2, <5>4, ClientWait
          <6>2. cat'[c] = cloc[c].ret
            BY <1>1, <6>1 DEF CGo, CMove
          <6>3. \A e \in Ent : func[e] = NULL
            BY <5>4, EntryHome
          <6>4. Pending = {}
            BY <1>1, <5>1, <6>3 DEF Pending
          <6> QED
            BY <3>10, <3>11, <5>2, <6>2, <6>4 DEF WaitsFor
        <5> QED
          BY <5>3, <5>4
      <4> QED
        BY <4>1, <4>2
    <3>12. CASE WaitBucket(c)
      <4>1. PICK i \in Bucket : i = cloc[c].i /\ cat[c] = "bwait"
        <5>1. cat[c] = "bwait"
          BY <1>1, <3>12, ClientWait
        <5> QED
          BY <5>1 DEF Inv, LocalsOK
      <4>2. /\ \A t \in seen[c] : status[t] \in Sched
            /\ \A t \in seen[c] \cap Pending : \E e \in Ent : func[e] = t /\ home[e] >= i
        BY <1>2, <4>1 DEF WaitsFor
      <4>3. CASE bkt[i].nalloc > 0
        <5>1. CGo(c, "bwait", cloc[c])
          BY <1>1, <3>12, <4>1, <4>3, ClientWait
        <5> QED
          BY <1>1, <2>2, <3>10, <3>12, <4>1, <5>1 DEF CGo, CMove
      <4>4. CASE ~(bkt[i].nalloc > 0)
        <5>1. \A e \in Ent : home[e] = i => func[e] = NULL
          BY <4>4, EmptyBucket
        <5>2. \A e \in Ent : func[e] \in Task => home[e] \in Bucket /\ home[e] # i
          BY <1>1, <5>1, EntryHome
        <5>3. CASE i < NBuckets
          <6>1. CGo(c, "bwait", AtLoc(c, cloc[c].i + 1))
            BY <1>1, <3>12, <4>1, <4>4, <5>3, ClientWait
          <6>2. cat'[c] = "bwait" /\ cloc'[c].i = i + 1
            BY <1>1, <4>1, <6>1 DEF CGo, CMove, AtLoc, LocType
          <6>3. \A e \in Ent : func[e] \in Task /\ home[e] >= i => home[e] >= i + 1
            BY <5>2 DEF Bucket
          <6>4. \A t \in seen[c] \cap Pending : \E e \in Ent : func[e] = t /\ home[e] >= i + 1
            BY <1>1, <4>2, <6>3 DEF Pending
          <6> QED
            BY <3>10, <3>12, <4>2, <6>2, <6>4 DEF WaitsFor
        <5>4. CASE ~(i < NBuckets)
          <6>1. CGo(c, cloc[c].ret, cloc[c])
            BY <1>1, <3>12, <4>1, <4>4, <5>4, ClientWait
          <6>2. cat'[c] = cloc[c].ret
            BY <1>1, <6>1 DEF CGo, CMove
          <6>3. \A e \in Ent : func[e] \in Task => ~(home[e] >= i)
            BY <5>2, <5>4, TaskqAssumption DEF Bucket
          <6>4. seen[c] \cap Pending = {}
            BY <1>1, <4>2, <6>3 DEF Pending
          <6> QED
            BY <3>10, <3>12, <4>2, <6>2, <6>4 DEF WaitsFor
        <5> QED
          BY <5>3, <5>4
      <4> QED
        BY <4>3, <4>4
    <3> QED
      BY <3>6, <3>7, <3>8, <3>9, <3>11, <3>12 DEF WaitStep
  <2> QED
    BY <1>5, <2>3, <2>4 DEF Next, OtherStep, ClientSteps
<1> QED
  BY <1>4, <1>5

----------------------------------------------------------------------------
(* Destruction *)

\* What holds when taskq_destroy is at k, at bucket i.
Stage(k, i) ==
    /\ k # "wait" => tq.task = <<>> /\ \A w \in Worker : wat[w] \in {"none", "awake"}
    /\ k = "bwait" => \A e \in Ent : func[e] # NULL => home[e] >= i
    /\ k \notin {"wait", "bwait"} => \A e \in Ent : func[e] = NULL
    /\ k \notin {"wait", "bwait", "deactivate"} => "ACTIVE" \notin tq.flags
    /\ k \in {"drain", "close", "bjoin", "free"} => \A w \in Worker : wat[w] = "none"
    /\ k \in {"close", "bjoin", "free"} => tq.nalloc = 0
    /\ k \in {"close", "bjoin"} => \A e \in Ent : home[e] # NULL => home[e] >= i
    /\ k = "free" => \A e \in Ent : eat[e] = "none"

DestroyCloses == \A c \in Client : Destroying(c) => life = "closing"

\* A queue is destroyed only when it is closing.
LEMMA ClosingOnly ==
  PhaseOK => DestroyCloses
BY PhaseDef DEF InPhase, Phase, Destroying, Waiting, DestroyCloses, Ext

\* Without tasks the workers come to rest, and entries only die.
Winding ==
    /\ tq'.task = <<>> /\ \A w \in Worker : wat'[w] \in {"none", "awake"}
    /\ (\A w \in Worker : wat[w] = "none") => \A w \in Worker : wat'[w] = "none"
    /\ tq'.nalloc = tq.nalloc /\ tq'.flags = tq.flags
    /\ \A e \in Ent : /\ func'[e] # NULL => func[e] # NULL /\ home'[e] = home[e]
                      /\ home'[e] # NULL => home'[e] = home[e]
    /\ (\A e \in Ent : eat[e] = "none") => \A e \in Ent : eat'[e] = "none"

\* So it is whatever step a worker or an entry takes.
LEMMA Winds ==
  ASSUME Inv, OtherStep, tq.task = <<>>, \A w \in Worker : wat[w] \in {"none", "awake"}
  PROVE  Winding
<1>1. /\ Typ /\ func \in [Ent -> Task \cup {NULL}] /\ home \in [Ent -> Bucket \cup {NULL}]
      /\ eat \in [Ent -> PCs] /\ wat \in [Worker -> PCs] /\ tq \in TqType
  BY ViewTypes DEF Inv, Typ
<1>2. ASSUME NEW w \in Worker, WorkerStep(w) PROVE Winding
  <2>1. ~WorkerTake(w) /\ ~WorkerRun(w) /\ ~WorkerDone(w) /\ ~taskq_ent_free(w)
    <3>1. ~WorkerTake(w)
      BY DEF WorkerTake
    <3> QED
      BY <1>1, <3>1, WorkerTable
  <2>2. ~ExtendRefused(w) /\ ~ExtendCount(w) /\ ~ExtendNoMem(w)
    BY <1>1, WorkerTable
  <2>3. ~ExtendLink(w) /\ ~ExtendStart(w)
    <3>1. wat[w] = Kind(pc[w])
      BY DEF wat
    <3> QED
      BY <3>1, KindFacts DEF ExtendLink, ExtendStart, PCs
  <2>4. WorkerSleep(w) \/ WorkerExit(w)
    BY <1>2, <2>1, <2>2, <2>3 DEF WorkerStep, taskq_thread, taskq_bucket_extend
  <2>5. UNCHANGED <<func, home>>
    BY <2>4 DEF WorkerSleep, WorkerExit
  <2>6. tq'.task = tq.task /\ tq'.nalloc = tq.nalloc /\ tq'.flags = tq.flags
    BY <1>1, <2>4 DEF WorkerSleep, WorkerExit, TqType
  <2>7. PICK k \in {"awake", "none"} : WGo(w, k, wloc[w])
    BY <1>1, <2>4, WorkerTable
  <2>8. wat[w] # "none"
    <3>1. pc[w] \in {"loop", "awake"}
      BY <2>4 DEF WorkerSleep, WorkerExit
    <3> QED
      BY <1>1, <2>4, <3>1, WorkerTable
  <2>9. wat' = [wat EXCEPT ![w] = k] /\ eat' = eat
    BY <2>7 DEF WGo, WMove
  <2> QED
    BY <1>1, <2>5, <2>6, <2>8, <2>9 DEF Winding
<1>3. ASSUME NEW e \in Ent, taskq_d_thread(e) PROVE Winding
  <2>1. wat' = wat /\ eat[e] # "none" 
    BY <1>1, <1>3, EntTable DEF taskq_d_thread, EGo, EMove
  <2>2. tq'.task = tq.task /\ tq'.nalloc = tq.nalloc /\ tq'.flags = tq.flags
    BY <1>1, <1>3 DEF taskq_d_thread, EntRun, EntDone, EntSleep, EntTimeout, EntDie, TqType
  <2>3. \A d \in Ent : /\ func'[d] # NULL => func[d] # NULL /\ home'[d] = home[d]
                       /\ home'[d] # NULL => home'[d] = home[d]
    BY <1>1, <1>3 DEF taskq_d_thread, EntRun, EntDone, EntSleep, EntTimeout, EntDie
  <2> QED
    BY <2>1, <2>2, <2>3 DEF Winding
<1> QED
  BY <1>2, <1>3 DEF OtherStep

\* Other threads do not disturb taskq_destroy.
LEMMA StageKept ==
  ASSUME Inv, OtherStep, NEW k, NEW i, Stage(k, i)
  PROVE  Stage(k, i)'
<1>1. CASE k = "wait"
  BY <1>1 DEF Stage
<1>2. CASE k # "wait"
  <2>1. Winding
    BY <1>2, Winds DEF Stage
  <2> QED
    BY <1>2, <2>1 DEF Winding, Stage
<1> QED
  BY <1>1, <1>2

\* When all threads of the workers are gone, none is counted.
LEMMA NoneAlive ==
  ASSUME Inv, tq.nthreads = 0
  PROVE  \A w \in Worker : wat[w] = "none"
<1>1. Cardinality(Alive) = 0
  BY DEF Inv, ThreadsOK
<1>2. Alive = {}
  BY <1>1, WorkerSets, FS_EmptySet
<1> QED
  BY <1>2 DEF Alive

\* taskq_destroy goes from stage to stage.
LEMMA StageNext ==
  ASSUME Inv, NEW c \in Client, WaitList(c) \/ WaitBucket(c) \/ DestroyStep(c), Destroying(c), life' = life
  PROVE  \E k, i : k = cat'[c] /\ i = cloc'[c].i /\ Stage(k, i)'
<1>1. /\ Typ /\ cat \in [Client -> PCs] /\ cloc \in [Client -> LocType] /\ tq \in TqType
      /\ home \in [Ent -> Bucket \cup {NULL}]
  BY ViewTypes DEF Inv, Typ
<1>2. PICK k, i : k = cat[c] /\ i = cloc[c].i /\ Stage(k, i)
  BY DEF Inv, DestroyOK, Stage
<1>3. ASSUME NEW l, NEW r, CGo(c, l, r) PROVE cat'[c] = l /\ cloc'[c] = r /\ wat' = wat /\ eat' = eat
  BY <1>1, <1>3 DEF CGo, CMove
<1>4. cat[c] \in {"wait", "bwait"} => cloc[c].ret = "deactivate"
  BY DEF Destroying, Waiting
<1>5. ASSUME NEW n \in Nat PROVE AtLoc(c, n).i = n
  BY <1>1 DEF AtLoc, LocType
<1>6. CASE WaitList(c)
  <2>1. UNCHANGED <<tq, func, home>>
    BY <1>6 DEF WaitList
  <2>2. CASE tq.task # <<>> \/ tq.active # 0
    <3>1. cat'[c] = "wait"
      BY <1>1, <1>3, <1>6, <2>2, ClientWait
    <3>2. Stage("wait", i)'
      BY DEF Stage
    <3> QED
      BY <3>1 DEF Stage
  <2>3. CASE ~(tq.task # <<>> \/ tq.active # 0)
    <3>1. cat[c] = "wait" /\ "ACTIVE" \in tq.flags
      BY <1>1, <1>6, ClientWait DEF Inv, ThreadsOK
    <3>2. \A w \in Worker : wat[w] \in {"none", "awake"}
      BY <2>3, <3>1, ListIdle
    <3>3. CASE Dynamic
      <4>1. cat'[c] = "bwait" /\ cloc'[c] = AtLoc(c, 1) /\ wat' = wat
        BY <1>1, <1>3, <1>6, <2>3, <3>3, ClientWait
      <4>2. cloc'[c].i = 1
        BY <1>5, <4>1
      <4>3. \A e \in Ent : func[e] # NULL => home[e] >= 1
        BY EntryHome DEF Bucket
      <4>4. Stage("bwait", 1)'
        BY <2>1, <2>3, <3>2, <4>1, <4>3 DEF Stage
      <4> QED
        BY <4>1, <4>2, <4>4
    <3>4. CASE ~Dynamic
      <4>1. cat'[c] = "deactivate" /\ cloc'[c] = cloc[c] /\ wat' = wat
        BY <1>1, <1>3, <1>4, <1>6, <2>3, <3>1, <3>4, ClientWait
      <4>2. \A e \in Ent : func[e] = NULL
        BY <3>4, EntryHome
      <4>3. Stage("deactivate", i)'
        BY <2>1, <2>3, <3>2, <4>1, <4>2 DEF Stage
      <4> QED
        BY <1>2, <4>1, <4>3
    <3> QED
      BY <3>3, <3>4
  <2> QED
    BY <2>2, <2>3
<1>7. CASE WaitBucket(c)
  <2>1. UNCHANGED <<tq, func, home>>
    BY <1>7 DEF WaitBucket
  <2>2. cat[c] = "bwait" /\ i \in Bucket
    BY <1>1, <1>2, <1>7, ClientWait DEF Inv, LocalsOK
  <2>3. /\ tq.task = <<>> /\ \A w \in Worker : wat[w] \in {"none", "awake"}
        /\ \A e \in Ent : func[e] # NULL => home[e] >= i
    BY <1>2, <2>2 DEF Stage
  <2>4. CASE bkt[i].nalloc > 0
    <3>1. cat'[c] = "bwait" /\ cloc'[c] = cloc[c] /\ wat' = wat
      BY <1>1, <1>2, <1>3, <1>7, <2>4, ClientWait
    <3>2. Stage("bwait", i)'
      BY <2>1, <2>3, <3>1 DEF Stage
    <3> QED
      BY <1>2, <3>1, <3>2
  <2>5. CASE ~(bkt[i].nalloc > 0)
    <3>1. \A e \in Ent : func[e] # NULL => home[e] \in Bucket /\ home[e] # i
      BY <2>2, <2>5, EmptyBucket, EntryHome
    <3>2. CASE i < NBuckets
      <4>1. cat'[c] = "bwait" /\ cloc'[c] = AtLoc(c, i + 1) /\ wat' = wat
        BY <1>1, <1>2, <1>3, <1>7, <2>5, <3>2, ClientWait
      <4>2. i + 1 \in Nat
        BY <2>2 DEF Bucket
      <4>3. cloc'[c].i = i + 1
        BY <1>5, <4>1, <4>2
      <4>4. \A e \in Ent : func[e] # NULL => home[e] >= i + 1
        BY <2>2, <2>3, <3>1 DEF Bucket
      <4>5. Stage("bwait", i + 1)'
        BY <2>1, <2>3, <4>1, <4>4 DEF Stage
      <4> QED
        BY <4>1, <4>3, <4>5
    <3>3. CASE ~(i < NBuckets)
      <4>1. cat'[c] = "deactivate" /\ cloc'[c] = cloc[c] /\ wat' = wat
        BY <1>1, <1>2, <1>3, <1>4, <1>7, <2>2, <2>5, <3>3, ClientWait
      <4>2. \A e \in Ent : func[e] = NULL
        BY <2>2, <2>3, <3>1, <3>3, TaskqAssumption DEF Bucket
      <4>3. Stage("deactivate", i)'
        BY <2>1, <2>3, <4>1, <4>2 DEF Stage
      <4> QED
        BY <1>2, <4>1, <4>3
    <3> QED
      BY <3>2, <3>3
  <2> QED
    BY <2>4, <2>5
<1>8. CASE Deactivate(c)
  <2>1. UNCHANGED <<func, home>>
    BY <1>8 DEF Deactivate
  <2>2. tq'.task = tq.task /\ "ACTIVE" \notin tq'.flags
    BY <1>1, <1>8 DEF Deactivate, TqType
  <2>3. cat[c] = "deactivate" /\ cat'[c] = "join" /\ cloc'[c] = cloc[c] /\ wat' = wat
    BY <1>1, <1>3, <1>8, ClientDestroy
  <2>4. Stage("join", i)'
    BY <1>2, <2>1, <2>2, <2>3 DEF Stage
  <2> QED
    BY <1>2, <2>3, <2>4
<1>9. CASE Join(c)
  <2>1. UNCHANGED <<func, home>>
    BY <1>9 DEF Join
  <2>2. tq'.task = tq.task /\ tq'.flags = tq.flags
    BY <1>1, <1>9 DEF Join, TqType
  <2>3. cat[c] = "join"
    BY <1>1, <1>9, ClientDestroy
  <2>4. CASE tq.nthreads # 0
    <3>1. cat'[c] = "join" /\ cloc'[c] = cloc[c] /\ wat' = wat
      BY <1>1, <1>3, <1>9, <2>4, ClientDestroy
    <3>2. Stage("join", i)'
      BY <1>2, <2>1, <2>2, <2>3, <3>1 DEF Stage
    <3> QED
      BY <1>2, <3>1, <3>2
  <2>5. CASE tq.nthreads = 0
    <3>1. cat'[c] = "drain" /\ cloc'[c] = cloc[c] /\ wat' = wat
      BY <1>1, <1>3, <1>9, <2>5, ClientDestroy
    <3>2. \A w \in Worker : wat[w] = "none"
      BY <2>5, NoneAlive
    <3>3. Stage("drain", i)'
      BY <1>2, <2>1, <2>2, <2>3, <3>1, <3>2 DEF Stage
    <3> QED
      BY <1>2, <3>1, <3>3
  <2> QED
    BY <2>4, <2>5
<1>10. CASE Drain(c)
  <2>1. UNCHANGED <<func, home>>
    BY <1>10 DEF Drain
  <2>2. tq'.task = tq.task /\ tq'.flags = tq.flags
    BY <1>1, <1>10 DEF Drain, TqType
  <2>3. cat[c] = "drain"
    BY <1>1, <1>10, ClientDestroy
  <2>4. CASE tq.nalloc # 0
    <3>1. cat'[c] = "drain" /\ cloc'[c] = cloc[c] /\ wat' = wat
      BY <1>1, <1>3, <1>10, <2>4, ClientDestroy
    <3>2. Stage("drain", i)'
      BY <1>2, <2>1, <2>2, <2>3, <3>1 DEF Stage
    <3> QED
      BY <1>2, <3>1, <3>2
  <2>5. CASE tq.nalloc = 0
    <3>1. PICK l : l = IF Dynamic THEN "close" ELSE "free"
      OBVIOUS
    <3>2. cat'[c] = l /\ cloc'[c] = AtLoc(c, 1) /\ wat' = wat /\ eat' = eat
      BY <1>1, <1>3, <1>10, <2>5, <3>1, ClientDestroy
    <3>3. cloc'[c].i = 1
      BY <1>5, <3>2
    <3>4. tq' = tq
      BY <1>10, <2>5 DEF Drain
    <3>5. CASE Dynamic
      <4>1. \A e \in Ent : home[e] # NULL => home[e] >= 1
        BY EntryHome DEF Bucket
      <4>2. Stage("close", 1)'
        BY <1>2, <2>1, <2>2, <2>3, <2>5, <3>2, <3>4, <4>1 DEF Stage
      <4> QED
        BY <3>1, <3>2, <3>3, <3>5, <4>2
    <3>6. CASE ~Dynamic
      <4>1. \A e \in Ent : eat[e] = "none"
        BY <3>6 DEF Inv, EntriesOK
      <4>2. Stage("free", 1)'
        BY <1>2, <2>1, <2>2, <2>3, <2>5, <3>2, <3>4, <4>1 DEF Stage
      <4> QED
        BY <3>1, <3>2, <3>3, <3>6, <4>2
    <3> QED
      BY <3>5, <3>6
  <2> QED
    BY <2>4, <2>5
<1>11. CASE CloseBucket(c)
  <2>1. UNCHANGED <<tq, func, home>>
    BY <1>11 DEF CloseBucket
  <2>2. cat[c] = "close" /\ cat'[c] = "bjoin" /\ cloc'[c] = cloc[c] /\ wat' = wat
    BY <1>1, <1>3, <1>11, ClientDestroy
  <2>3. Stage("bjoin", i)'
    BY <1>2, <2>1, <2>2 DEF Stage
  <2> QED
    BY <1>2, <2>2, <2>3
<1>12. CASE JoinBucket(c)
  <2>1. UNCHANGED <<tq, func, home>>
    BY <1>12 DEF JoinBucket
  <2>2. cat[c] = "bjoin" /\ i \in Bucket
    BY <1>1, <1>2, <1>12, ClientDestroy DEF Inv, LocalsOK
  <2>3. CASE bkt[i].nfree > 0
    <3>1. cat'[c] = "bjoin" /\ cloc'[c] = cloc[c] /\ wat' = wat
      BY <1>1, <1>2, <1>3, <1>12, <2>3, ClientDestroy
    <3>2. Stage("bjoin", i)'
      BY <1>2, <2>1, <2>2, <3>1 DEF Stage
    <3> QED
      BY <1>2, <3>1, <3>2
  <2>4. CASE ~(bkt[i].nfree > 0)
    <3>1. \A e \in Ent : func[e] = NULL /\ (home[e] # NULL => home[e] >= i)
      BY <1>2, <2>2 DEF Stage
    <3>2. \A e \in Ent : home[e] # NULL => home[e] \in Bucket /\ home[e] # i
      BY <2>2, <2>4, <3>1, EmptyBucket, EntryHome
    <3>3. CASE i < NBuckets
      <4>1. cat'[c] = "close" /\ cloc'[c] = AtLoc(c, i + 1) /\ wat' = wat
        BY <1>1, <1>2, <1>3, <1>12, <2>4, <3>3, ClientDestroy
      <4>2. i + 1 \in Nat
        BY <2>2 DEF Bucket
      <4>3. cloc'[c].i = i + 1
        BY <1>5, <4>1, <4>2
      <4>4. \A e \in Ent : home[e] # NULL => home[e] >= i + 1
        BY <2>2, <3>1, <3>2 DEF Bucket
      <4>5. Stage("close", i + 1)'
        BY <1>2, <2>1, <2>2, <4>1, <4>4 DEF Stage
      <4> QED
        BY <4>1, <4>3, <4>5
    <3>4. CASE ~(i < NBuckets)
      <4>1. cat'[c] = "free" /\ cloc'[c] = cloc[c] /\ wat' = wat /\ eat' = eat
        BY <1>1, <1>2, <1>3, <1>12, <2>4, <3>4, ClientDestroy
      <4>2. \A e \in Ent : home[e] = NULL
        BY <2>2, <3>1, <3>2, <3>4, TaskqAssumption DEF Bucket
      <4>3. \A e \in Ent : eat[e] = "none"
        BY <4>2 DEF Inv, EntriesOK
      <4>4. Stage("free", i)'
        BY <1>2, <2>1, <2>2, <4>1, <4>3 DEF Stage
      <4> QED
        BY <1>2, <4>1, <4>4
    <3> QED
      BY <3>3, <3>4
  <2> QED
    BY <2>3, <2>4
<1>13. CASE Free(c)
  <2>1. life = "closing" /\ life' = "none"
    BY <1>13, ClosingOnly DEF Inv, DestroyCloses, Free
  <2> QED
    BY <2>1
<1> QED
  BY <1>6, <1>7, <1>8, <1>9, <1>10, <1>11, <1>12, <1>13 DEF DestroyStep

\* Every stage of taskq_destroy finds what the earlier ones have done.
LEMMA DestroyPreserved ==
  ASSUME Inv, Next
  PROVE  DestroyOK'
<1>1. /\ Typ /\ PhaseOK /\ cat \in [Client -> PCs] /\ cloc \in [Client -> LocType]
  BY ViewTypes DEF Inv
<1>2. PhaseOK'
  BY ClientsPreserved
<1>3. DestroyCloses /\ DestroyCloses'
  <2>1. PhaseOK' => DestroyCloses'
    BY ClosingOnly, PTL
  <2> QED
    BY <1>1, <1>2, <2>1, ClosingOnly
<1>4. SUFFICES ASSUME NEW c \in Client, Destroying(c)'
               PROVE  \E k, i : k = cat'[c] /\ i = cloc'[c].i /\ Stage(k, i)'
  BY DEF DestroyOK, Stage
<1>5. life' = "closing"
  BY <1>3, <1>4 DEF DestroyCloses
<1>6. CASE OtherStep
  <2>1. cat' = cat /\ cloc' = cloc
    BY <1>6, OthersFrame DEF Others
  <2>2. Destroying(c)
    BY <1>4, <2>1 DEF Destroying, Waiting
  <2>3. PICK k, i : k = cat[c] /\ i = cloc[c].i /\ Stage(k, i)
    BY <2>2 DEF Inv, DestroyOK, Stage
  <2> QED
    BY <1>6, <2>1, <2>3, StageKept
<1>7. ASSUME NEW d \in Client, ClientSteps(d) PROVE \E k, i : k = cat'[c] /\ i = cloc'[c].i /\ Stage(k, i)'
  <2>1. WaitStep(d) \/ DestroyStep(d)
    <3>1. CASE ~(WaitStep(d) \/ DestroyStep(d))
      BY <1>5, <1>7, <3>1, Elsewhere
    <3> QED
      BY <3>1
  <2>2. ~Free(d)
    BY <1>5 DEF Free
  <2>3. \A x \in Client : x # d => cat'[x] = cat[x] /\ cloc'[x] = cloc[x]
    <3>1. ~taskq_create(d)
      BY <1>5 DEF taskq_create
    <3>2. PICK k, r : Moved(d, k, r)
      BY <1>7, <3>1, ClientMoves
    <3> QED
      BY <1>1, <3>2 DEF Moved, CMove, Moves
  <2>4. CASE taskq_destroy(d)
    <3>1. \A x \in Client : pc[x] = "idle"
      BY <2>4 DEF taskq_destroy
    <3>2. \A x \in Client : cat[x] = "idle"
      BY <3>1, KindFacts DEF cat, PCs
    <3>3. c = d
      BY <1>4, <2>3, <3>2 DEF Destroying, Waiting
    <3>4. cat'[c] = "wait"
      BY <1>1, <2>4, <3>3, ClientWait DEF CGo, CMove
    <3>5. \A i : Stage("wait", i)'
      BY DEF Stage
    <3> QED
      BY <3>4, <3>5
  <2>5. CASE ~taskq_destroy(d)
    <3>1. life' = life
      BY <2>1, <2>2, <2>5 DEF WaitStep, DestroyStep, taskq_wait, WaitList, WaitBucket, Waited, Deactivate,
           Join, Drain, CloseBucket, JoinBucket
    <3>2. ~taskq_wait(d)
      BY <1>5, <3>1 DEF taskq_wait
    <3>3. cat[d] # "idle" /\ cat[d] # "waited"
      <4>1. CASE Waited(d)
        BY <1>1, <1>5, <3>1, <4>1, ClientWait, PhaseDef DEF InPhase, Phase, Ext
      <4>2. CASE WaitList(d) \/ WaitBucket(d)
        BY <1>1, <4>2, ClientWait
      <4>3. CASE DestroyStep(d)
        BY <1>1, <4>3, ClientDestroy DEF DestroyStep
      <4> QED
        BY <2>1, <2>5, <3>2, <4>1, <4>2, <4>3 DEF WaitStep
    <3>4. Destroying(d)
      BY <1>1, <1>5, <3>1, <3>3 DEF PhaseOK
    <3>5. c = d
      <4>1. CASE c # d
        <5>1. cat[c] # "idle"
          BY <1>4, <2>3, <4>1 DEF Destroying, Waiting
        <5> QED
          BY <1>1, <1>5, <3>1, <3>3, <5>1 DEF PhaseOK
      <4> QED
        BY <4>1
    <3>6. ~Waited(d)
      BY <1>1, <3>3, ClientWait
    <3> QED
      BY <2>1, <2>5, <3>1, <3>2, <3>4, <3>5, <3>6, StageNext DEF WaitStep
  <2> QED
    BY <2>4, <2>5
<1> QED
  BY <1>6, <1>7 DEF Next, OtherStep, ClientSteps

----------------------------------------------------------------------------
(* The end of a queue *)

\* What taskq_destroy finds when it frees the taskq_t.
LEMMA AllQuiet ==
  ASSUME Inv, NEW c \in Client, Free(c)
  PROVE  FreedQuiet'
<1>1. /\ Typ /\ PhaseOK /\ cat \in [Client -> PCs] /\ cloc \in [Client -> LocType] /\ tq \in TqType /\ pc \in [Thread -> PCs]
  BY ViewTypes DEF Inv, Typ
<1>2. cat[c] = "free"
  BY <1>1, ClientDestroy
<1>3. Destroying(c) /\ life = "closing"
  BY <1>1, <1>2, ClosingOnly DEF Destroying, DestroyCloses
<1>4. Stage("free", cloc[c].i)
  BY <1>2, <1>3 DEF Inv, DestroyOK, Stage
<1>5. /\ tq.task = <<>> /\ tq.nalloc = 0
      /\ \A w \in Worker : wat[w] = "none"
      /\ \A e \in Ent : eat[e] = "none"
  BY <1>4 DEF Stage
<1>6. \A x \in Worker \cup Ent : pc[x] = "none"
  <2>1. \A w \in Worker : Kind(pc[w]) = "none"
    BY <1>5 DEF wat
  <2>2. \A e \in Ent : Kind(pc[e]) = "none"
    BY <1>5 DEF eat
  <2> QED
    BY <2>1, <2>2, KindFacts
<1>7. \A x \in Worker \cup Ent : pc'[x] = "none"
  BY <1>1, <1>6, Threads DEF Free, Goto
<1>8. tq.freelist = 0
  <2>1. tq.nalloc = tq.freelist + Len(tq.task) + Cardinality(Holders)
    BY DEF Inv, AllocOK
  <2>2. tq.freelist \in Nat /\ Len(tq.task) = 0
    BY <1>1, <1>5 DEF TqType
  <2> QED
    BY <1>5, <2>1, <2>2, WorkerSets
<1>9. \A d \in Client : cat[d] \in {"idle", "free"}
  BY <1>1, <1>2, <1>3 DEF PhaseOK
<1>10. tq.live = 0
  <2>1. LiveEnts = {}
    BY <1>5 DEF LiveEnts
  <2>2. Creators = {}
    BY <1>5, <1>9 DEF Creators
  <2> QED
    BY <2>1, <2>2, FS_EmptySet DEF Inv, LiveOK
<1>11. tq.writer = NULL
  <2>1. \A d \in Client : tq.writer # d
    BY <1>9 DEF Inv, SuspendOK, Suspending
  <2> QED
    BY <1>1, <2>1 DEF TqType
<1>12. tq.readers = {}
  BY <1>5 DEF Inv, WorkOK, Ext
<1>13. /\ tq'.task = tq.task /\ tq'.nalloc = tq.nalloc /\ tq'.freelist = tq.freelist
       /\ tq'.live \in {0, tq.live} /\ tq'.writer = tq.writer /\ tq'.readers = tq.readers
  BY <1>1 DEF Free, TqType
<1> QED
  BY <1>5, <1>7, <1>8, <1>10, <1>11, <1>12, <1>13 DEF FreedQuiet

\* A queue that is freed is as it was made, until the next is created.
LEMMA FreedPreserved ==
  ASSUME Inv, Next
  PROVE  FreedQuiet'
<1>1. /\ Typ /\ PhaseOK /\ wat \in [Worker -> PCs] /\ eat \in [Ent -> PCs]
  BY ViewTypes DEF Inv
<1>2. ASSUME life' = "none", OtherStep PROVE FALSE
  <2>1. life = "none"
    BY <1>2, OthersFrame DEF Others
  <2>2. \A x \in Worker \cup Ent : pc[x] = "none"
    BY <2>1 DEF Inv, FreedQuiet
  <2>3. ASSUME NEW w \in Worker PROVE ~WorkerStep(w)
    BY <2>2, <2>3 DEF WorkerStep, taskq_thread, taskq_bucket_extend, WorkerSleep, WorkerTake, WorkerExit,
       WorkerRun, WorkerDone, taskq_ent_free, ExtendRefused, ExtendCount, ExtendNoMem, ExtendLink, ExtendStart
  <2>4. ASSUME NEW e \in Ent PROVE ~taskq_d_thread(e)
    BY <2>2, <2>4 DEF taskq_d_thread, EntRun, EntDone, EntSleep, EntTimeout, EntDie, CanRun
  <2> QED
    BY <1>2, <2>3, <2>4 DEF OtherStep
<1>3. ASSUME NEW c \in Client, ClientSteps(c), ~Free(c), life' = "none" PROVE FALSE
  <2>1. CASE WaitStep(c) \/ DestroyStep(c)
    <3>1. life = "none" /\ (WaitList(c) \/ WaitBucket(c) \/ Waited(c) \/ DestroyStep(c))
      BY <1>3, <2>1 DEF WaitStep, DestroyStep, taskq_wait, taskq_destroy, WaitList, WaitBucket, Waited,
         Deactivate, Join, Drain, CloseBucket, JoinBucket
    <3>2. cat[c] = "idle"
      BY <1>1, <3>1 DEF PhaseOK
    <3>3. cat[c] # "idle"
      <4>1. CASE DestroyStep(c)
        BY <1>1, <4>1, ClientDestroy DEF DestroyStep
      <4>2. CASE WaitList(c) \/ WaitBucket(c) \/ Waited(c)
        BY <1>1, <4>2, ClientWait
      <4> QED
        BY <3>1, <4>1, <4>2
    <3> QED
      BY <3>2, <3>3
  <2>2. CASE ~WaitStep(c) /\ ~DestroyStep(c)
    <3>1. CASE taskq_create(c)
      BY <1>3, <3>1 DEF taskq_create
    <3>2. CASE ~taskq_create(c)
      BY <1>3, <2>2, <3>2, Elsewhere
    <3> QED
      BY <3>1, <3>2
  <2> QED
    BY <2>1, <2>2
<1>4. CASE life' # "none"
  BY <1>4 DEF FreedQuiet
<1> QED
  BY <1>2, <1>3, <1>4, AllQuiet DEF Next, OtherStep, ClientSteps

----------------------------------------------------------------------------
(* Idle workers *)

Ready == {w \in Worker : pc[w] \in {"loop", "awake", "ent_free"}}

\* No worker falls asleep, and none is taken off its way to the list.
Calm == \A w \in Worker : /\ pc'[w] = "sleep" => pc[w] = "sleep"
                          /\ pc[w] \in {"loop", "awake", "ent_free"} => pc'[w] \in {"loop", "awake", "ent_free"}

\* The workers on their way are finitely many, before a step and after it.
LEMMA ReadySets ==
  /\ IsFiniteSet(Ready) /\ Cardinality(Ready) \in Nat
  /\ IsFiniteSet(Ready') /\ Cardinality(Ready') \in Nat
<1>1. IsFiniteSet(Ready) /\ IsFiniteSet(Ready')
  BY TaskqAssumption, FS_Subset DEF Ready
<1> QED
  BY <1>1, FS_CardinalityType

\* After a calm step the sleepers are as well off as before it.
LEMMA CalmIdle ==
  ASSUME Inv, Calm, tq'.task = tq.task
  PROVE  NoIdleWorker'
<1>1. dispatch_cv' \subseteq dispatch_cv
  BY DEF Calm, dispatch_cv
<1>2. Ready \subseteq Ready'
  BY DEF Calm, Ready
<1>3. IsFiniteSet(Ready') /\ Cardinality(Ready') \in Nat
  BY ReadySets
<1>4. Cardinality(Ready) <= Cardinality(Ready')
  BY <1>2, <1>3, FS_Subset
<1>5. Len(tq.task) \in Nat
  BY DEF Inv, Typ, TqType
<1> QED
  BY <1>1, <1>3, <1>4, <1>5, ReadySets DEF Inv, NoIdleWorker, Ready

\* A thread that is no worker can only wake workers.
LEMMA GoesCalm ==
  ASSUME Inv, NEW x \in Thread, x \notin Worker, NEW l, Goes(x, l)
  PROVE  Calm
<1>1. PICK W : GotoWaking(x, l, W) /\ Asleep(W)
  BY DEF Goes
<1>2. \A w \in Worker : pc'[w] = IF w \in W THEN Woken[pc[w]] ELSE pc[w]
  BY <1>1, Threads DEF GotoWaking
<1>3. \A w \in W : Woken[pc[w]] # "sleep" /\ pc[w] \notin {"loop", "awake", "ent_free"}
  BY <1>1 DEF Asleep, Woken
<1> QED
  BY <1>2, <1>3 DEF Calm

\* Quiet steps of clients leave the workers alone, or wake them.
LEMMA QuietCalm ==
  ASSUME Inv, NEW c \in Client, QuietStep(c)
  PROVE  Calm
<1>1. pc \in [Thread -> PCs] /\ c \in Thread /\ c \notin Worker
  BY Threads DEF Inv, Typ
<1>2. ASSUME pc' = pc PROVE Calm
  BY <1>2 DEF Calm
<1>3. ASSUME \E l : Goto(c, l) PROVE Calm
  BY <1>1, <1>3, Threads DEF Calm, Goto
<1>4. CASE \E t \in Task, f \in DispatchFlags : taskq_dispatch(c, t, f)
  BY <1>3, <1>4 DEF taskq_dispatch
<1>5. CASE Populate(c) \/ Created(c) \/ ExtendRefused(c) \/ ExtendCount(c) \/ ExtendNoMem(c) \/ BucketMiss(c)
  BY <1>3, <1>5 DEF Populate, Created, ExtendRefused, ExtendCount, ExtendNoMem, BucketMiss
<1>6. CASE AllocUnlock(c) \/ kmem_cache_alloc(c)
  BY <1>3, <1>6 DEF AllocUnlock, kmem_cache_alloc
<1>7. CASE AllocFailed(c)
  <2>1. \E l : GotoWaking(c, l, {})
    BY <1>7 DEF AllocFailed, NextEnt
  <2>2. \E l : Goes(c, l)
    BY <2>1 DEF Goes, Asleep
  <2> QED
    BY <1>1, <2>2, GoesCalm
<1>8. CASE taskq_wait(c) \/ taskq_destroy(c) \/ WaitList(c) \/ WaitBucket(c) \/ Waited(c)
  BY <1>2, <1>3, <1>8 DEF taskq_wait, taskq_destroy, WaitList, WaitBucket, Waited
<1>9. CASE \/ taskq_suspend(c) \/ SuspendBucket(c) \/ Suspended(c) \/ taskq_resume(c) \/ ResumeBucket(c) \/ Resumed(c)
  BY <1>2, <1>3, <1>9 DEF taskq_suspend, SuspendBucket, Suspended, taskq_resume, ResumeBucket, Resumed
<1>10. CASE Deactivate(c)
  <2>1. \E l : GotoWaking(c, l, dispatch_cv)
    BY <1>10 DEF Deactivate
  <2>2. Asleep(dispatch_cv)
    BY DEF Asleep, dispatch_cv, Woken
  <2> QED
    BY <1>1, <2>1, <2>2, GoesCalm DEF Goes
<1>11. CASE Join(c) \/ Drain(c) \/ JoinBucket(c) \/ Free(c)
  BY <1>2, <1>3, <1>11 DEF Join, Drain, JoinBucket, Free
<1>12. CASE CloseBucket(c)
  <2> DEFINE W == {e \in bkt[loc[c].i].freelist : pc[e] = "sleep"}
  <2>1. \E l : GotoWaking(c, l, W)
    BY <1>12 DEF CloseBucket
  <2>2. Asleep(W)
    BY DEF Asleep, Woken
  <2> QED
    BY <1>1, <2>1, <2>2, GoesCalm DEF Goes
<1> QED
  BY <1>4, <1>5, <1>6, <1>7, <1>8, <1>9, <1>10, <1>11, <1>12
  DEF QuietStep, ClientSteps, Call, ClientStep, taskq_bucket_extend, taskq_ent_alloc, Enqueue

\* Each task that comes wakes a worker, and each worker on its way takes one.
LEMMA IdlePreserved ==
  ASSUME Inv, Next
  PROVE  NoIdleWorker'
<1>1. /\ Typ /\ pc \in [Thread -> PCs] /\ tq \in TqType /\ tq.task \in Seq(Task \cup Bucket) /\ NoIdleWorker
  BY DEF Inv, Typ, TqType
<1>2. IsFiniteSet(Ready) /\ Cardinality(Ready) \in Nat /\ Cardinality(Ready') \in Nat
  BY ReadySets
<1>3. ASSUME tq'.task = <<>> PROVE NoIdleWorker'
  BY <1>2, <1>3 DEF NoIdleWorker, Ready
<1>4. ASSUME NEW c \in Client, taskq_create(c) PROVE NoIdleWorker'
  <2>1. tq.task = <<>>
    BY <1>4 DEF taskq_create, Inv, FreedQuiet
  <2>2. tq'.task = tq.task
    BY <1>1, <1>4 DEF taskq_create, TqType
  <2> QED
    BY <1>3, <2>1, <2>2
<1>5. ASSUME NEW c \in Client, QuietStep(c) PROVE NoIdleWorker'
  BY <1>5, QuietCalm, QuietFrame, CalmIdle
<1>6. ASSUME NEW c \in Client, Enqueue(c) PROVE NoIdleWorker'
  <2>1. PICK h : h = Head(cloc[c].todo)
    OBVIOUS
  <2>2. h \in Task \cup Bucket /\ tq'.task = Append(tq.task, h)
    <3>1. h \in Task \cup Bucket /\ tq' = [tq EXCEPT !.task = Append(@, h), !.nalloc = tq'.nalloc, !.freelist = tq'.freelist]
      BY <1>6, <2>1, EnqueueTable
    <3> QED
      BY <1>1, <3>1 DEF TqType
  <2>3. Len(tq'.task) = Len(tq.task) + 1 /\ Len(tq.task) \in Nat
    BY <1>1, <2>2
  <2>4. PICK woken \in cv_signal(dispatch_cv) : \E l : GotoWaking(c, l, woken)
    BY <1>6 DEF Enqueue, FromFreelist, EnqueueNew, TQ_ENQUEUE, NextEnt
  <2>5. \A w \in Worker : pc'[w] = IF w \in woken THEN Woken[pc[w]] ELSE pc[w]
    BY <2>4, Threads DEF GotoWaking
  <2>6. CASE dispatch_cv = {}
    <3>1. dispatch_cv' = {}
      BY <2>4, <2>5, <2>6 DEF cv_signal, dispatch_cv
    <3> QED
      BY <3>1 DEF NoIdleWorker
  <2>7. CASE dispatch_cv # {}
    <3>1. PICK x \in dispatch_cv : woken = {x}
      BY <2>4, <2>7 DEF cv_signal
    <3>2. x \in Worker /\ pc[x] = "sleep" /\ pc'[x] = "awake"
      BY <2>5, <3>1 DEF dispatch_cv, Woken
    <3>3. Ready' = Ready \cup {x} /\ x \notin Ready
      BY <2>5, <3>1, <3>2 DEF Ready
    <3>4. Cardinality(Ready') = Cardinality(Ready) + 1
      BY <1>2, <3>3, OneMore
    <3>5. Len(tq.task) <= Cardinality(Ready)
      BY <1>1, <2>7 DEF NoIdleWorker, Ready
    <3>6. Len(tq'.task) <= Cardinality(Ready')
      BY <1>2, <2>3, <3>4, <3>5
    <3> QED
      BY <3>6 DEF NoIdleWorker, Ready
  <2> QED
    BY <2>6, <2>7
<1>7. ASSUME NEW c \in Client, taskq_bucket_dispatch(c) PROVE NoIdleWorker'
  <2>1. \E e, l : GotoWaking(c, l, IF pc[e] = "sleep" THEN {e} ELSE {}) /\ tq' = tq
    <3>1. PICK e : GotoWaking(c, IF pc[c] = "search" THEN "ent_alloc" ELSE "idle",
                              IF pc[e] = "sleep" THEN {e} ELSE {})
      BY <1>7 DEF taskq_bucket_dispatch
    <3>2. tq' = tq
      BY <1>7 DEF taskq_bucket_dispatch
    <3> QED
      BY <3>1, <3>2
  <2>2. \A e : Asleep(IF pc[e] = "sleep" THEN {e} ELSE {})
    BY DEF Asleep, Woken
  <2>3. \E l : Goes(c, l)
    BY <2>1, <2>2 DEF Goes
  <2> QED
    BY <2>1, <2>3, Threads, GoesCalm, CalmIdle
<1>8. ASSUME NEW w \in Worker, WorkerStep(w), ~ExtendLink(w), ~ExtendStart(w) PROVE NoIdleWorker'
  <2>1. CASE WorkerSleep(w)
    <3>1. tq'.task = <<>>
      BY <1>1, <2>1 DEF WorkerSleep, TqType
    <3> QED
      BY <1>3, <3>1
  <2>2. CASE WorkerExit(w)
    <3>1. tq'.task = <<>>
      BY <1>1, <2>2 DEF WorkerExit, TqType, Inv, ThreadsOK
    <3> QED
      BY <1>3, <3>1
  <2>3. CASE WorkerTake(w)
    <3>1. tq.task # <<>> /\ tq'.task = Tail(tq.task)
      BY <1>1, <2>3 DEF WorkerTake, TqType
    <3>2. Len(tq'.task) = Len(tq.task) - 1 /\ Len(tq.task) \in Nat
      BY <1>1, <3>1, Shifted
    <3>3. pc[w] \in {"loop", "awake"} /\ pc' = [pc EXCEPT ![w] = "rw_enter"]
      BY <2>3 DEF WorkerTake, Goto
    <3>4. Ready' = Ready \ {w} /\ w \in Ready
      BY <1>1, <3>3, Threads DEF Ready
    <3>5. dispatch_cv' = dispatch_cv
      BY <1>1, <3>3, Threads DEF dispatch_cv
    <3>6. Cardinality(Ready') = Cardinality(Ready) - 1
      BY <1>2, <3>4, OneLess
    <3>7. dispatch_cv # {} => Len(tq.task) <= Cardinality(Ready)
      BY <1>1 DEF NoIdleWorker, Ready
    <3>8. dispatch_cv # {} => Len(tq'.task) <= Cardinality(Ready')
      BY <1>2, <3>2, <3>6, <3>7
    <3> QED
      BY <3>5, <3>8 DEF NoIdleWorker, Ready
  <2>4. ASSUME NEW l, Goto(w, l), l # "sleep", pc[w] \notin {"loop", "awake", "ent_free"} \/ l = "loop" PROVE Calm
    BY <1>1, <2>4, Threads DEF Calm, Goto
  <2>5. CASE WorkerRun(w) \/ WorkerDone(w)
    <3>1. tq'.task = tq.task
      BY <1>1, <2>5 DEF WorkerRun, WorkerDone, TqType
    <3>2. Calm
      BY <2>4, <2>5 DEF WorkerRun, WorkerDone
    <3> QED
      BY <3>1, <3>2, CalmIdle
  <2>6. CASE taskq_ent_free(w)
    <3>1. tq'.task = tq.task
      BY <1>1, <2>6 DEF taskq_ent_free, TqType
    <3>2. Calm
      BY <2>4, <2>6 DEF taskq_ent_free
    <3> QED
      BY <3>1, <3>2, CalmIdle
  <2>7. CASE ExtendRefused(w) \/ ExtendCount(w) \/ ExtendNoMem(w)
    <3>1. tq'.task = tq.task
      BY <1>1, <2>7 DEF ExtendRefused, ExtendCount, ExtendNoMem, TqType
    <3>2. Calm
      BY <2>4, <2>7 DEF ExtendRefused, ExtendCount, ExtendNoMem, ExtendRet
    <3> QED
      BY <3>1, <3>2, CalmIdle
  <2> QED
    BY <1>8, <2>1, <2>2, <2>3, <2>5, <2>6, <2>7 DEF WorkerStep, taskq_thread, taskq_bucket_extend
<1>9. ASSUME NEW x \in Client \cup Worker, ExtendLink(x) PROVE NoIdleWorker'
  <2>1. PICK e \in Ent : pc' = [pc EXCEPT ![e] = "stopped", ![x] = "setrun"] /\ pc[x] = "create" /\ tq' = tq
    BY <1>9 DEF ExtendLink
  <2>2. Calm
    BY <1>1, <2>1, Threads DEF Calm
  <2> QED
    BY <2>1, <2>2, CalmIdle
<1>10. ASSUME NEW x \in Client \cup Worker, ExtendStart(x) PROVE NoIdleWorker'
  <2>1. PICK e \in Ent : e = loc[x].ent
    <3>1. setting[x] \in Ent
      BY <1>1, <1>10, StartTable DEF Inv, StartGo
    <3> QED
      BY <1>10, <3>1 DEF setting, ExtendStart
  <2>2. pc' = [pc EXCEPT ![e] = "start", ![x] = ExtendRet(x)] /\ pc[x] = "setrun" /\ tq' = tq
    BY <1>10, <2>1 DEF ExtendStart
  <2>3. x \in Worker => ExtendRet(x) = "run"
    BY DEF ExtendRet
  <2>4. Calm
    BY <1>1, <2>2, <2>3, Threads DEF Calm
  <2> QED
    BY <2>2, <2>4, CalmIdle
<1>11. ASSUME NEW e \in Ent, taskq_d_thread(e) PROVE NoIdleWorker'
  <2>1. tq'.task = tq.task
    BY <1>1, <1>11 DEF taskq_d_thread, EntRun, EntDone, EntSleep, EntTimeout, EntDie, TqType
  <2>2. CASE EntRun(e) \/ EntSleep(e) \/ EntTimeout(e)
    <3>1. \E l : Goto(e, l)
      BY <2>2 DEF EntRun, EntSleep, EntTimeout
    <3>2. Calm
      BY <1>1, <3>1, Threads DEF Calm, Goto
    <3> QED
      BY <2>1, <3>2, CalmIdle
  <2>3. CASE EntDone(e) \/ EntDie(e)
    <3>1. \E b, l : \E woken \in cv_signal(tqbucket_cv(b)) : GotoWaking(e, l, woken)
      BY <2>3 DEF EntDone, EntDie
    <3> PICK b, l : \E woken \in cv_signal(tqbucket_cv(b)) : GotoWaking(e, l, woken)
      BY <3>1
    <3> PICK woken \in cv_signal(tqbucket_cv(b)) : GotoWaking(e, l, woken)
      OBVIOUS
    <3>2. Asleep(woken)
      BY DEF cv_signal, tqbucket_cv, Asleep, Woken
    <3>3. Goes(e, l)
      BY <3>2 DEF Goes
    <3> QED
      BY <2>1, <3>3, Threads, GoesCalm, CalmIdle
  <2> QED
    BY <1>11, <2>2, <2>3 DEF taskq_d_thread
<1> QED
  BY <1>4, <1>5, <1>6, <1>7, <1>8, <1>9, <1>10, <1>11, Cases DEF StepCases

----------------------------------------------------------------------------
(* The invariant *)

\* The cached taskq_t that the first taskq_create finds is in order.
LEMMA InitInv ==
  ASSUME Init
  PROVE  Inv
<1>1. /\ \A c \in Client : pc[c] = "idle" /\ loc[c] = NoLocals /\ seen[c] = {}
      /\ \A w \in Worker : pc[w] = "none" /\ loc[w] = NoLocals
      /\ \A e \in Ent : pc[e] = "none" /\ func[e] = NULL /\ home[e] = NULL
      /\ \A b \in Bucket : bkt[b] = NoBucket
      /\ \A t \in Task : status[t] = "new"
      /\ life = "none"
  BY Threads DEF Init
<1>2. /\ tq.flags = {} /\ tq.active = 0 /\ tq.nthreads = 0 /\ tq.nalloc = 0 /\ tq.freelist = 0
      /\ tq.task = <<>> /\ tq.live = 0 /\ tq.writer = NULL /\ tq.readers = {}
  BY DEF Init
<1>3. /\ \A c \in Client : cat[c] = "idle" /\ cloc[c] = NoLocals
      /\ \A w \in Worker : wat[w] = "none" /\ wloc[w] = NoLocals
      /\ \A e \in Ent : eat[e] = "none"
      /\ \A x \in Client \cup Worker : setting[x] = NULL
  BY <1>1, KindFacts DEF cat, wat, eat, cloc, wloc, setting, PCs
<1>4. NoLocals.task = NULL /\ NULL \notin Task /\ NULL \notin Ent /\ NULL \notin Client /\ ~Dynamic
  BY <1>2, TaskqAssumption DEF NoLocals, Dynamic
<1>5. Typ
  <2>1. tq \in TqType
    BY TaskqAssumption DEF Init, TqType
  <2>2. NoBucket \in BktType /\ NoLocals \in LocType
    BY ShortSeqs DEF NoBucket, NoLocals, BktType, LocType
  <2>3. bkt \in [Bucket -> BktType] /\ loc \in [Client \cup Worker -> LocType]
    BY <2>2 DEF Init
  <2>4. func \in [Ent -> Task \cup {NULL}] /\ home \in [Ent -> Bucket \cup {NULL}]
    BY DEF Init
  <2>5. pc \in [Thread -> PCs]
    BY DEF Init, PCs
  <2>6. seen \in [Client -> SUBSET Task]
    BY DEF Init
  <2>7. status \in [Task -> {"new", "called", "refused", "queued", "running", "done"}]
    BY DEF Init
  <2> QED
    BY <1>1, <2>1, <2>3, <2>4, <2>5, <2>6, <2>7 DEF Typ
<1>6. PhaseOK /\ LocalsOK
  BY <1>1, <1>3 DEF PhaseOK, LocalsOK, Searching, Enqueuing, Ext
<1>7. OwnTask /\ SuspendOK /\ SetrunOK
  BY <1>2, <1>3, <1>4 DEF OwnTask, SuspendOK, SetrunOK, Suspending
<1>8. EntriesOK
  <2>1. \A b \in Bucket : OnFreelist(b) = {} /\ InUse(b) = {}
    BY <1>1, TaskqAssumption DEF OnFreelist, InUse
  <2>2. \A b \in Bucket : bkt[b].freelist = {} /\ bkt[b].nfree = 0 /\ bkt[b].nalloc = 0
    BY <1>1 DEF NoBucket
  <2> QED
    BY <1>1, <1>3, <2>1, <2>2, FS_EmptySet DEF EntriesOK
<1>9. WorkOK
  BY <1>2, <1>3, <1>4 DEF WorkOK, Ext
<1>10. Alive = {} /\ Holders = {} /\ LiveEnts = {} /\ Creators = {}
  BY <1>3 DEF Alive, Holders, LiveEnts, Creators, Ext
<1>11. ThreadsOK
  BY <1>1, <1>2, <1>3, <1>10, FS_EmptySet, WorkerSets DEF ThreadsOK
<1>12. AllocOK /\ LiveOK
  BY <1>2, <1>10, FS_EmptySet, TaskqAssumption DEF AllocOK, LiveOK
<1>13. PlacesOK
  BY <1>1, <1>2, <1>3, <1>4 DEF PlacesOK, Listed, Held, Entered
<1>14. WaitOK /\ DestroyOK
  BY <1>3 DEF WaitOK, DestroyOK, Destroying, Waiting
<1>15. FreedQuiet
  BY <1>1, <1>2 DEF FreedQuiet
<1>16. NoIdleWorker
  BY <1>1 DEF NoIdleWorker, dispatch_cv
<1> QED
  BY <1>5, <1>6, <1>7, <1>8, <1>9, <1>11, <1>12, <1>13, <1>14, <1>15, <1>16 DEF Inv

\* The invariant speaks of nothing but the variables.
LEMMA StutterInv ==
  ASSUME Inv, UNCHANGED vars
  PROVE  Inv'
<1>1. UNCHANGED <<tq, bkt, func, home, pc, loc, life, status, seen>>
  BY DEF vars
<1>2. UNCHANGED <<cat, wat, eat, cloc, wloc, setting, Dynamic, Pending>>
  BY <1>1 DEF cat, wat, eat, cloc, wloc, setting, Dynamic, Pending
<1>3. UNCHANGED <<Alive, Active, Holders, LiveEnts, Creators, dispatch_cv>>
  BY <1>1, <1>2 DEF Alive, Active, Holders, LiveEnts, Creators, dispatch_cv
<1>4. Typ' /\ PhaseOK'
  BY <1>1, <1>2 DEF Inv, Typ, PhaseOK, Creating, Searching, Enqueuing, Waiting, Suspending, Destroying
<1>5. LocalsOK' /\ OwnTask'
  BY <1>1, <1>2 DEF Inv, LocalsOK, OwnTask, Searching, Enqueuing, TodoOK
<1>6. SuspendOK' /\ SetrunOK'
  BY <1>1, <1>2 DEF Inv, SuspendOK, SetrunOK, Suspending
<1>7. EntriesOK'
  BY <1>1, <1>2 DEF Inv, EntriesOK, OnFreelist, InUse
<1>8. WorkOK' /\ ThreadsOK' /\ AllocOK' /\ LiveOK'
  BY <1>1, <1>2, <1>3 DEF Inv, WorkOK, ThreadsOK, AllocOK, LiveOK
<1>9. PlacesOK'
  BY <1>1, <1>2 DEF Inv, PlacesOK, Listed, Held, Entered
<1>10. WaitOK' /\ DestroyOK'
  BY <1>1, <1>2 DEF Inv, WaitOK, DestroyOK, Destroying, Waiting
<1>11. FreedQuiet' /\ NoIdleWorker'
  BY <1>1, <1>3 DEF Inv, FreedQuiet, NoIdleWorker
<1> QED
  BY <1>4, <1>5, <1>6, <1>7, <1>8, <1>9, <1>10, <1>11 DEF Inv

\* The invariant that the other theorems rest on holds of every queue: every
\* step of a client in taskq_create, taskq_dispatch, taskq_wait, taskq_suspend,
\* taskq_resume and taskq_destroy, of a worker in taskq_thread and of an entry
\* in taskq_d_thread keeps it.
THEOREM Invariance == Spec => []Inv
<1>1. ASSUME Inv, Next PROVE Inv'
  <2>1. Typ'
    BY <1>1, TypPreserved
  <2>2. PhaseOK' /\ LocalsOK' /\ OwnTask' /\ SuspendOK' /\ SetrunOK'
    BY <1>1, ClientsPreserved, SetrunPreserved
  <2>3. EntriesOK' /\ WorkOK'
    BY <1>1, EntriesPreserved, WorkPreserved
  <2>4. ThreadsOK'
    BY <1>1, CountedPreserved, ActingPreserved DEF Counted, Acting, ThreadsOK
  <2>5. AllocOK' /\ LiveOK' /\ PlacesOK'
    BY <1>1, AllocPreserved, LivePreserved, PlacesPreserved
  <2>6. WaitOK' /\ DestroyOK'
    BY <1>1, WaitPreserved, DestroyPreserved
  <2>7. FreedQuiet' /\ NoIdleWorker'
    BY <1>1, FreedPreserved, IdlePreserved
  <2> QED
    BY <2>1, <2>2, <2>3, <2>4, <2>5, <2>6, <2>7 DEF Inv
<1>2. Inv /\ [Next]_vars => Inv'
  BY <1>1, StutterInv
<1> QED
  BY <1>2, InitInv, PTL DEF Spec

----------------------------------------------------------------------------
(* The theorems *)

\* TypeOK: every variable stays in its range, whatever the clients call in
\* whatever order; tq_active and tq_nthreads never exceed the number of workers,
\* and no count goes below zero.
THEOREM TypeCorrect == Spec => []TypeOK
<1>1. ASSUME Inv PROVE TypeOK
  <2>1. tq \in TqType /\ bkt \in [Bucket -> BktType]
    BY <1>1 DEF Inv, Typ
  <2>2. tq.nthreads \in 0..Cardinality(Worker)
    BY <1>1, WorkerSets DEF Inv, ThreadsOK
  <2>3. tq.active \in 0..Cardinality(Worker)
    <3>1. CASE "ACTIVE" \in tq.flags
      <4>1. Cardinality(Active) <= Cardinality(Worker)
        BY TaskqAssumption, FS_Subset DEF Active
      <4> QED
        BY <1>1, <3>1, <4>1, WorkerSets DEF Inv, ThreadsOK
    <3>2. CASE "ACTIVE" \notin tq.flags
      BY <1>1, <2>1, <2>2, <3>2, WorkerSets DEF Inv, ThreadsOK, TqType
    <3> QED
      BY <3>1, <3>2
  <2>4. tq.nalloc \in Nat
    <3>1. tq.freelist \in Nat /\ Len(tq.task) \in Nat
      BY <2>1 DEF TqType
    <3> QED
      BY <1>1, <3>1, WorkerSets DEF Inv, AllocOK
  <2>5. tq.live \in Nat
    BY <1>1, LiveSets DEF Inv, LiveOK
  <2>6. tq \in [flags : SUBSET {"DYNAMIC", "ACTIVE", "SUSPENDED"},
                active : 0..Cardinality(Worker), nthreads : 0..Cardinality(Worker),
                nalloc : Nat, minalloc : {0, MinAlloc}, freelist : Nat,
                task : Seq(Task \cup Bucket), live : Nat,
                writer : Client \cup {NULL}, readers : SUBSET Worker]
    BY <2>1, <2>2, <2>3, <2>4, <2>5 DEF TqType
  <2>7. \A b \in Bucket : bkt[b].nalloc \in Nat /\ bkt[b].nfree \in Nat
    BY <1>1, EntSets, FS_CardinalityType DEF Inv, EntriesOK
  <2>8. bkt \in [Bucket -> [freelist : SUBSET Ent, nalloc : Nat, nfree : Nat,
                            flags : SUBSET {"SUSPEND", "CLOSE"}]]
    BY <2>1, <2>7 DEF BktType
  <2> QED
    BY <1>1, <2>6, <2>8 DEF Inv, Typ, TypeOK
<1> QED
  BY <1>1, Invariance, PTL

\* WaitComplete: when taskq_wait returns, no task that was scheduled before it
\* was called is still queued or running, although the tasks of the list and
\* those of each bucket are waited for one after the other.
THEOREM WaitCompleteThm == Spec => []WaitComplete
<1>1. ASSUME Inv PROVE WaitComplete
  <2>1. \A c \in Client : pc[c] \in {"waited", "deactivate"} => cat[c] = pc[c]
    BY KindFacts DEF cat, PCs
  <2> QED
    BY <1>1, <2>1 DEF Inv, WaitOK, WaitComplete
<1> QED
  BY <1>1, Invariance, PTL

\* FreedQuiet: taskq_destroy leaves no thread of the queue behind, and gives
\* the taskq_t back to its cache as the constructor left it.
THEOREM FreedQuietThm == Spec => []FreedQuiet
<1>1. Inv => FreedQuiet
  BY DEF Inv
<1> QED
  BY <1>1, Invariance, PTL

\* NoIdleWorker: the one cv_signal of each dispatch never leaves a worker
\* asleep with a task for it on the list.
THEOREM NoIdleWorkerThm == Spec => []NoIdleWorker
<1>1. Inv => NoIdleWorker
  BY DEF Inv
<1> QED
  BY <1>1, Invariance, PTL

\* Where a worker can be.
WorkerAt == \A w \in Worker : wat[w] \in Ext \cup {"none", "loop", "awake", "rw_enter", "run", "ent_free"}

\* A worker stays in taskq_thread, or in the taskq_bucket_extend it calls.
LEMMA WorkerAtKept ==
  ASSUME Inv, WorkerAt, Next
  PROVE  WorkerAt'
<1>1. Typ /\ wat \in [Worker -> PCs] /\ FreedQuiet /\ SetrunOK
  BY ViewTypes DEF Inv
<1>2. ASSUME wat' = wat PROVE WorkerAt'
  BY <1>2 DEF WorkerAt
<1>3. ASSUME NEW w \in Worker, NEW k \in Ext \cup {"none", "loop", "awake", "rw_enter", "run", "ent_free"},
             wat' = [wat EXCEPT ![w] = k]
      PROVE  WorkerAt'
  BY <1>1, <1>3 DEF WorkerAt
<1>4. ASSUME NEW c \in Client, taskq_create(c) PROVE WorkerAt'
  <2>1. PICK f \in CreateFlags, W \in SUBSET Worker : CreateGo(c, f, W)
    BY <1>1, <1>4, CreateTable
  <2> QED
    BY <2>1 DEF CreateGo, WorkerAt
<1>5. ASSUME NEW c \in Client, QuietStep(c) \/ Enqueue(c) \/ taskq_bucket_dispatch(c) PROVE WorkerAt'
  BY <1>2, <1>5, QuietGo DEF CGo, CMove
<1>6. ASSUME NEW w \in Worker, WorkerStep(w), ~ExtendLink(w), ~ExtendStart(w) PROVE WorkerAt'
  <2>1. \E k \in Ext \cup {"none", "loop", "awake", "rw_enter", "run", "ent_free"} : \E r : WGo(w, k, r)
    BY <1>1, <1>6, WorkerTable DEF WorkerStep, taskq_thread, taskq_bucket_extend, Ext
  <2> QED
    BY <1>3, <2>1 DEF WGo, WMove
<1>7. ASSUME NEW x \in Client \cup Worker, ExtendLink(x) PROVE WorkerAt'
  <2>1. PICK e \in Ent : LinkGo(x, e)
    BY <1>1, <1>7, LinkTable
  <2> QED
    BY <1>2, <1>3, <2>1, Threads DEF LinkGo, Moves, Ext
<1>8. ASSUME NEW x \in Client \cup Worker, ExtendStart(x) PROVE WorkerAt'
  <2>1. PICK e \in Ent : StartGo(x, e)
    BY <1>1, <1>8, StartTable
  <2>2. x \in Worker => ExtendRet(x) = "run"
    BY DEF ExtendRet
  <2> QED
    BY <1>2, <1>3, <2>1, <2>2, Threads DEF StartGo, Moves
<1>9. ASSUME NEW e \in Ent, taskq_d_thread(e) PROVE WorkerAt'
  BY <1>1, <1>2, <1>9, EntTable DEF taskq_d_thread, EGo, EMove
<1> QED
  BY <1>4, <1>5, <1>6, <1>7, <1>8, <1>9, Cases DEF StepCases

\* A task is in one place when it is scheduled and not done, else nowhere.
LEMMA OnePlace ==
  ASSUME Inv, WorkerAt, NEW t \in Task
  PROVE  Cardinality(Places(t)) = IF t \in Pending THEN 1 ELSE 0
<1>1. NULL \notin Task
  BY TaskqAssumption
<1>2. /\ t \in Pending <=> Listed(t) \/ Held(t) \/ Entered(t)
      /\ ~(Listed(t) /\ Held(t)) /\ ~(Listed(t) /\ Entered(t)) /\ ~(Held(t) /\ Entered(t))
  BY DEF Inv, PlacesOK, Pending
<1>3. \A w \in Worker : Holding(w) /\ loc[w].task = t <=> wloc[w].task = t
  <2>1. ASSUME NEW w \in Worker, wloc[w].task = t PROVE Holding(w)
    <3>1. wat[w] \in Ext \cup {"rw_enter", "run"}
      BY <1>1, <2>1 DEF Inv, WorkOK, WorkerAt
    <3> QED
      BY <3>1, KindFacts DEF Holding, wat, Ext
  <2> QED
    BY <2>1 DEF wloc
<1> DEFINE L == {<<"list", i>> : i \in {j \in DOMAIN tq.task : tq.task[j] = t}}
           H == {<<"worker", w>> : w \in {v \in Worker : Holding(v) /\ loc[v].task = t}}
           E == {<<"entry", e>> : e \in {d \in Ent : func[d] = t}}
<1>4. Places(t) = L \cup H \cup E
  BY DEF Places
<1>5. (~Listed(t) => L = {}) /\ (~Held(t) => H = {}) /\ (~Entered(t) => E = {})
  BY <1>3 DEF Listed, Held, Entered
<1>6. Listed(t) => \E p : L = {p}
  <2>1. SUFFICES ASSUME Listed(t) PROVE \E p : L = {p}
    OBVIOUS
  <2>2. PICK i \in DOMAIN tq.task : tq.task[i] = t
    BY <2>1 DEF Listed
  <2>3. \A j \in DOMAIN tq.task : tq.task[j] = t => j = i
    BY <2>2 DEF Inv, PlacesOK
  <2>4. L = {<<"list", i>>}
    BY <2>2, <2>3
  <2> QED
    BY <2>4
<1>7. Held(t) => \E p : H = {p}
  <2>1. SUFFICES ASSUME Held(t) PROVE \E p : H = {p}
    OBVIOUS
  <2>2. PICK w \in Worker : wloc[w].task = t
    BY <2>1 DEF Held
  <2>3. \A v \in Worker : wloc[v].task = t => v = w
    BY <1>1, <2>2 DEF Inv, PlacesOK
  <2>4. H = {<<"worker", w>>}
    BY <1>3, <2>2, <2>3
  <2> QED
    BY <2>4
<1>8. Entered(t) => \E p : E = {p}
  <2>1. SUFFICES ASSUME Entered(t) PROVE \E p : E = {p}
    OBVIOUS
  <2>2. PICK e \in Ent : func[e] = t
    BY <2>1 DEF Entered
  <2>3. \A d \in Ent : func[d] = t => d = e
    BY <1>1, <2>2 DEF Inv, PlacesOK
  <2>4. E = {<<"entry", e>>}
    BY <2>2, <2>3
  <2> QED
    BY <2>4
<1> HIDE DEF L, H, E
<1>9. CASE t \in Pending
  <2>1. PICK p : Places(t) = {p}
    BY <1>2, <1>4, <1>5, <1>6, <1>7, <1>8, <1>9
  <2> QED
    BY <1>9, <2>1, FS_Singleton
<1>10. CASE t \notin Pending
  <2>1. Places(t) = {}
    BY <1>2, <1>4, <1>5, <1>10
  <2> QED
    BY <1>10, <2>1, FS_EmptySet
<1> QED
  BY <1>9, <1>10

\* Accounted: the counts that the queue and its buckets keep are those of the
\* entries and threads there are, whatever locks were dropped on the way, and a
\* scheduled task is on the list, with a worker or in an entry, exactly once.
THEOREM AccountedThm == Spec => []Accounted
<1>1. ASSUME Inv, WorkerAt PROVE Accounted
  <2>1. {w \in Worker : Holding(w)} = Holders
    <3>1. \A w \in Worker : wat[w] = Kind(pc[w])
      BY DEF wat
    <3> QED
      BY <3>1, KindFacts DEF Holding, Holders, Ext, PCs
  <2>2. {e \in Ent : pc[e] # "none"} = LiveEnts
    BY KindFacts DEF LiveEnts, eat, PCs
  <2>3. {x \in Client \cup Worker : pc[x] = "create"} = Creators
    <3>1. /\ \A c \in Client : cat[c] = "create" <=> pc[c] = "create"
          /\ \A w \in Worker : wat[w] = "create" <=> pc[w] = "create"
      BY KindFacts DEF cat, wat, PCs
    <3> QED
      BY <3>1 DEF Creators
  <2>4. /\ tq.nalloc = tq.freelist + Len(tq.task) + Cardinality({w \in Worker : Holding(w)})
        /\ tq.live = Cardinality({e \in Ent : pc[e] # "none"})
                     + Cardinality({x \in Client \cup Worker : pc[x] = "create"})
    BY <1>1, <2>1, <2>2, <2>3 DEF Inv, AllocOK, LiveOK
  <2>5. \A b \in Bucket : /\ bkt[b].freelist = {e \in Ent : home[e] = b /\ func[e] = NULL}
                          /\ bkt[b].nfree = Cardinality(bkt[b].freelist)
                          /\ bkt[b].nalloc = Cardinality({e \in Ent : home[e] = b /\ func[e] # NULL})
    BY <1>1 DEF Inv, EntriesOK, OnFreelist, InUse
  <2>6. \A t \in Task : Cardinality(Places(t)) = IF t \in Pending THEN 1 ELSE 0
    BY <1>1, OnePlace
  <2> QED
    BY <2>4, <2>5, <2>6 DEF Accounted
<1>2. Init => WorkerAt
  BY KindFacts, Threads DEF Init, WorkerAt, wat, PCs
<1>3. Inv /\ WorkerAt /\ [Next]_vars => WorkerAt'
  <2>1. ASSUME WorkerAt, UNCHANGED vars PROVE WorkerAt'
    BY <2>1 DEF WorkerAt, wat, vars
  <2> QED
    BY <2>1, WorkerAtKept
<1> QED
  BY <1>1, <1>2, <1>3, Invariance, PTL DEF Spec

\* The limit that taskq_bucket_extend observes is missed by one thread at most,
\* however many threads extend buckets at the same time.
THEOREM AtMostOneOver == Spec => [](Cardinality({e \in Ent : pc[e] # "none"}) <= MaxSize + 1)
<1>1. ASSUME Inv PROVE Cardinality({e \in Ent : pc[e] # "none"}) <= MaxSize + 1
  <2>1. {e \in Ent : pc[e] # "none"} = LiveEnts
    BY KindFacts DEF LiveEnts, eat, PCs
  <2>2. Cardinality(LiveEnts) + Cardinality(Creators) <= MaxSize + 1
    BY <1>1 DEF Inv, LiveOK
  <2>3. MaxSize \in Nat
    BY TaskqAssumption
  <2>4. Cardinality(LiveEnts) \in Nat /\ Cardinality(Creators) \in Nat
    BY LiveSets, FS_CardinalityType
  <2>5. Cardinality(LiveEnts) <= MaxSize + 1
    BY <2>2, <2>3, <2>4
  <2> QED
    BY <2>1, <2>5
<1> QED
  BY <1>1, Invariance, PTL

----------------------------------------------------------------------------
(* Suspension *)

\* No worker starts a task of the list, and no bucket entry gets one.
Rests == /\ tq'.readers \subseteq tq.readers
         /\ \A e \in Ent : func[e] = NULL => func'[e] = NULL

\* While the queue is suspended, no step of any thread does either.
LEMMA SuspendedRests ==
  ASSUME Inv, Next, NEW c \in Client, pc[c] = "suspended"
  PROVE  Rests
<1>1. /\ Typ /\ tq \in TqType /\ func \in [Ent -> Task \cup {NULL}] /\ bkt \in [Bucket -> BktType]
  BY DEF Inv, Typ
<1>2. cat[c] = "suspended"
  BY KindFacts DEF cat, PCs
<1>3. tq.writer = c /\ tq.writer # NULL
  BY <1>2, TaskqAssumption DEF Inv, SuspendOK, Suspending
<1>4. life = "live"
  BY <1>2, PhaseDef DEF Inv, InPhase, Phase, Ext
<1>5. Dynamic => \A b \in Bucket : "SUSPEND" \in bkt[b].flags
  BY <1>2 DEF Inv, SuspendOK
<1>6. ASSUME tq'.readers \subseteq tq.readers, func' = func PROVE Rests
  BY <1>6 DEF Rests
<1>7. ASSUME NEW d \in Client, taskq_create(d) PROVE Rests
  BY <1>4, <1>7 DEF taskq_create
<1>8. ASSUME NEW d \in Client, QuietStep(d) PROVE Rests
  BY <1>6, <1>8, QuietFrame
<1>9. ASSUME NEW d \in Client, Enqueue(d) PROVE Rests
  <2>1. func' = func /\ tq'.readers = tq.readers
    BY <1>1, <1>9 DEF Enqueue, FromFreelist, EnqueueNew, TQ_ENQUEUE, TqType
  <2> QED
    BY <1>6, <2>1
<1>10. ASSUME NEW d \in Client, taskq_bucket_dispatch(d) PROVE Rests
  <2>1. pc[d] \in {"hash", "search", "retry"} /\ CanDispatch(Tried(d))
    BY <1>10 DEF taskq_bucket_dispatch
  <2>2. Tried(d) \in Bucket
    BY <2>1, TriedBucket
  <2>3. cat[d] \in {"hash", "search", "retry"}
    BY <2>1, KindFacts DEF cat, PCs
  <2>4. Dynamic
    BY <2>3 DEF Inv, LocalsOK
  <2> QED
    BY <1>5, <2>1, <2>2, <2>4 DEF CanDispatch
<1>11. ASSUME NEW w \in Worker, WorkerStep(w), ~ExtendLink(w), ~ExtendStart(w) PROVE Rests
  <2>1. ~WorkerRun(w)
    BY <1>3 DEF WorkerRun
  <2>2. tq'.readers \subseteq tq.readers
    <3>1. CASE WorkerSleep(w) \/ WorkerTake(w) \/ WorkerExit(w)
      BY <1>1, <3>1 DEF WorkerSleep, WorkerTake, WorkerExit, TqType
    <3>2. CASE WorkerDone(w)
      <4>1. PICK R : R = tq.readers \ {w} /\ tq' = [tq EXCEPT !.readers = R]
        BY <3>2 DEF WorkerDone
      <4>2. tq'.readers = R
        BY <1>1, <4>1 DEF TqType
      <4> QED
        BY <4>1, <4>2
    <3>3. CASE taskq_ent_free(w)
      BY <1>1, <3>3 DEF taskq_ent_free, TqType
    <3>4. CASE ExtendRefused(w) \/ ExtendCount(w) \/ ExtendNoMem(w)
      BY <1>1, <3>4 DEF ExtendRefused, ExtendCount, ExtendNoMem, TqType
    <3> QED
      BY <1>11, <2>1, <3>1, <3>2, <3>3, <3>4 DEF WorkerStep, taskq_thread, taskq_bucket_extend
  <2> QED
    BY <1>6, <1>11, <2>2, WorkerGos
<1>12. ASSUME NEW x \in Client \cup Worker, ExtendLink(x) PROVE Rests
  <2>1. tq' = tq /\ \E e \in Ent : func' = [func EXCEPT ![e] = NULL]
    BY <1>12 DEF ExtendLink
  <2> QED
    BY <1>1, <2>1 DEF Rests
<1>13. ASSUME NEW x \in Client \cup Worker, ExtendStart(x) PROVE Rests
  BY <1>6, <1>13 DEF ExtendStart
<1>14. ASSUME NEW e \in Ent, taskq_d_thread(e) PROVE Rests
  <2>1. tq'.readers = tq.readers
    BY <1>1, <1>14 DEF taskq_d_thread, EntRun, EntDone, EntSleep, EntTimeout, EntDie, TqType
  <2>2. func' = func \/ func' = [func EXCEPT ![e] = NULL]
    BY <1>14 DEF taskq_d_thread, EntRun, EntDone, EntSleep, EntTimeout, EntDie
  <2> QED
    BY <1>1, <2>1, <2>2 DEF Rests
<1> QED
  BY <1>7, <1>8, <1>9, <1>10, <1>11, <1>12, <1>13, <1>14, Cases DEF StepCases

\* SuspendedQuiet: from the return of taskq_suspend to the call of taskq_resume
\* tq_threadlock keeps the workers from starting a task of the list, and the
\* flags of the buckets keep every task out of them. A task that was in a bucket
\* before may still start (taskq.c:163).
THEOREM SuspendedQuietThm == Spec => SuspendedQuiet
<1>1. Inv /\ [Next]_vars
        => [(\E c \in Client : pc[c] = "suspended")
              => /\ tq'.readers \subseteq tq.readers
                 /\ \A e \in Ent : func[e] = NULL => func'[e] = NULL]_vars
  BY SuspendedRests DEF Rests
<1> QED
  BY <1>1, Invariance, PTL DEF Spec, SuspendedQuiet
=============================================================================
