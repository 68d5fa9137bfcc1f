------------------------------- MODULE RWLock -------------------------------
(***************************************************************************)
(* One kernel readers/writer lock: common/os/rwlock.c with the fast paths  *)
(* of the assembly rw_enter and rw_exit, its turnstile (two priority       *)
(* ordered sleep queues under tc_lock) and direct handoff.                 *)
(*                                                                         *)
(* Between two steps of a thread any other thread may run: the word is     *)
(* read and written by single atomic instructions, the queues only under   *)
(* tc_lock.                                                                *)
(***************************************************************************)
EXTENDS PriQueue

CONSTANTS Thread,
          NULL,       \* no thread
          Role,       \* Role[t]: the modes, "reader" or "writer", in which t enters
          InitPri,    \* the dispatch priority of each thread at the start
          NewPri      \* the priorities a thread may be moved to while the lock is in use

ASSUME RWAssumption ==
    /\ NULL \notin Thread /\ IsFiniteSet(Thread)
    /\ Role \in [Thread -> SUBSET {"reader", "writer"}]
    /\ InitPri \in [Thread -> Nat]
    /\ NewPri \subseteq Nat

VARIABLES rw_wwwh,   \* the lock word: owner or hold count, write-wanted and waiters bits
          tc_lock,   \* holder of the turnstile chain lock
          readerq,   \* ts_sleepq[TS_READER_Q]
          writerq,   \* ts_sleepq[TS_WRITER_Q]
          pri,       \* DISP_PRIO of each thread
          kpri,      \* t_kpri_req of each thread
          pc,        \* where each thread is
          mode,      \* the argument rw of rw_enter, then the mode in which t holds the lock
          grant      \* grant[t]: the threads t is about to wake, which own the lock already

vars == <<rw_wwwh, tc_lock, readerq, writerq, pri, kpri, pc, mode, grant>>

----------------------------------------------------------------------------
Mode == {"reader", "writer"}
PC == {"idle", "enter", "lookup", "set_wait", "block", "asleep", "held",
       "exit_lookup", "handoff", "exit_wakeup",
       "downgrade_lookup", "downgrade_grant", "downgrade_wakeup", "panic"}

\* RW_WRITE_LOCKED is owner # NULL: the two are only ever set together.
Unheld        == [owner |-> NULL, count |-> 0, want |-> FALSE, wait |-> FALSE]
Locked(w)     == w.owner # NULL \/ w.count > 0       \* RW_LOCKED
Claimed(w)    == w.owner # NULL \/ w.want            \* RW_WRITE_CLAIMED
Busy(w, m)    == IF m = "reader" THEN Claimed(w) ELSE Locked(w)
Add(w, t, m)  == IF m = "reader" THEN [w EXCEPT !.count = @ + 1] ELSE [w EXCEPT !.owner = t]
Drop(w, m)    == IF m = "reader" THEN [w EXCEPT !.count = @ - 1] ELSE [w EXCEPT !.owner = NULL]

ts_waiters == Len(readerq) + Len(writerq)

\* Mutant: readers are woken only when no writer waits.
ReadersLast == IF writerq = <<>> THEN Len(readerq) ELSE 0

\* The number of readers to wake, all of them if no writer waits.
rw_readers_to_wake ==
    IF writerq = <<>> THEN Len(readerq) ELSE AtLeast(readerq, pri, pri[Head(writerq)])

FirstReaders(n) == {readerq[i] : i \in 1..n}

Goto(t, l)     == pc' = [pc EXCEPT ![t] = l]
Kpri(t, k)     == kpri' = [kpri EXCEPT ![t] = @ + k]
\* THREAD_KPRI_RELEASE of a thread that leaves a read hold.
KpriDrop(t, m) == kpri' = IF m = "reader" THEN [kpri EXCEPT ![t] = @ - 1] ELSE kpri

Init == /\ rw_wwwh = Unheld
        /\ tc_lock = NULL
        /\ readerq = <<>> /\ writerq = <<>>
        /\ pri = InitPri
        /\ kpri = [t \in Thread |-> 0]
        /\ pc = [t \in Thread |-> "idle"]
        /\ mode = [t \in Thread |-> "reader"]
        /\ grant = [t \in Thread |-> {}]

----------------------------------------------------------------------------
(* Entering *)

\* rw_enter: note the mode, and request kernel priority for a reader.
rw_enter(t, m) ==
    /\ pc[t] = "idle"
    /\ mode' = [mode EXCEPT ![t] = m]
    /\ Kpri(t, IF m = "reader" THEN 1 ELSE 0)
    /\ Goto(t, "enter")
    /\ UNCHANGED <<rw_wwwh, tc_lock, readerq, writerq, pri, grant>>

\* The head of the loop of rw_enter_sleep, and the fast path of rw_enter: take
\* a lock that is not busy by compare-and-swap, panic on a lock one owns.
EnterTry(t) ==
    /\ pc[t] = "enter"
    /\ IF Busy(rw_wwwh, mode[t])
         THEN /\ Goto(t, IF rw_wwwh.owner = t THEN "panic" ELSE "lookup")
              /\ UNCHANGED rw_wwwh
         ELSE /\ rw_wwwh' = Add(rw_wwwh, t, mode[t])
              /\ Goto(t, "held")
    /\ UNCHANGED <<tc_lock, readerq, writerq, pri, kpri, mode, grant>>

\* turnstile_lookup: take tc_lock.
turnstile_lookup(t, from, to) ==
    /\ pc[t] = from
    /\ tc_lock = NULL
    /\ tc_lock' = t
    /\ Goto(t, to)
    /\ UNCHANGED <<rw_wwwh, readerq, writerq, pri, kpri, mode, grant>>

EnterLookup(t) == turnstile_lookup(t, "lookup", "set_wait")

\* Mutant: the bits are set without checking that the lock is still busy.
SetWaitBlind(t) ==
    /\ pc[t] = "set_wait"
    /\ rw_wwwh' = [rw_wwwh EXCEPT !.wait = TRUE, !.want = @ \/ mode[t] = "writer"]
    /\ Goto(t, "block")
    /\ UNCHANGED <<tc_lock, readerq, writerq, pri, kpri, mode, grant>>

\* Set the waiters bit, and for a writer write-wanted, only if the lock is
\* still busy; otherwise drop tc_lock and try again.
SetWait(t) ==
    /\ pc[t] = "set_wait"
    /\ IF Busy(rw_wwwh, mode[t])
         THEN /\ rw_wwwh' = [rw_wwwh EXCEPT !.wait = TRUE, !.want = @ \/ mode[t] = "writer"]
              /\ Goto(t, "block")
              /\ UNCHANGED tc_lock
         ELSE /\ tc_lock' = NULL
              /\ Goto(t, "enter")
              /\ UNCHANGED rw_wwwh
    /\ UNCHANGED <<readerq, writerq, pri, kpri, mode, grant>>

\* Drop kpri if a reader, join the queue, release tc_lock and sleep.
turnstile_block(t) ==
    /\ pc[t] = "block"
    /\ IF mode[t] = "reader"
         THEN readerq' = Insert(readerq, t, pri) /\ UNCHANGED writerq
         ELSE writerq' = Insert(writerq, t, pri) /\ UNCHANGED readerq
    /\ KpriDrop(t, mode[t])
    /\ tc_lock' = NULL
    /\ Goto(t, "asleep")
    /\ UNCHANGED <<rw_wwwh, pri, mode, grant>>

\* Mutant: a writer looks for another writer only.
TryenterOverReaders(t, m) ==
    /\ pc[t] = "idle"
    /\ IF m = "reader" THEN ~Claimed(rw_wwwh) ELSE rw_wwwh.owner = NULL
    /\ rw_wwwh' = Add(rw_wwwh, t, m)
    /\ mode' = [mode EXCEPT ![t] = m]
    /\ Kpri(t, IF m = "reader" THEN 1 ELSE 0)
    /\ Goto(t, "held")
    /\ UNCHANGED <<tc_lock, readerq, writerq, pri, grant>>

\* rw_tryenter: a reader fails on a claimed lock, a writer on any lock that
\* is not zero.
rw_tryenter(t, m) ==
    /\ pc[t] = "idle"
    /\ IF m = "reader" THEN ~Claimed(rw_wwwh) ELSE rw_wwwh = Unheld
    /\ rw_wwwh' = Add(rw_wwwh, t, m)
    /\ mode' = [mode EXCEPT ![t] = m]
    /\ Kpri(t, IF m = "reader" THEN 1 ELSE 0)
    /\ Goto(t, "held")
    /\ UNCHANGED <<tc_lock, readerq, writerq, pri, grant>>

----------------------------------------------------------------------------
(* Leaving *)

\* rw_exit, and rw_exit_wakeup up to the lookup: unless this is the final
\* exit of a lock with waiters, drop the hold by compare-and-swap.
rw_exit(t) ==
    /\ pc[t] = "held"
    /\ LET new == Drop(rw_wwwh, mode[t]) IN
       IF (mode[t] = "writer" /\ rw_wwwh.owner # t) \/ ~Locked(rw_wwwh)
         THEN Goto(t, "panic") /\ UNCHANGED <<rw_wwwh, kpri>>
         ELSE IF ~Locked(new) /\ new.wait
           THEN Goto(t, "exit_lookup") /\ UNCHANGED <<rw_wwwh, kpri>>
           ELSE rw_wwwh' = new /\ KpriDrop(t, mode[t]) /\ Goto(t, "idle")
    /\ UNCHANGED <<tc_lock, readerq, writerq, pri, mode, grant>>

ExitLookup(t) == turnstile_lookup(t, "exit_lookup", "handoff")

\* The exiting writer grants the lock to n readers at once; their t_kpri_req
\* was raised by rw_readers_to_wake.
GrantReaders(t, n) ==
    /\ rw_wwwh' = [owner |-> NULL, count |-> n,
                   want |-> writerq # <<>>, wait |-> ts_waiters > n]
    /\ grant' = [grant EXCEPT ![t] = FirstReaders(n)]
    /\ kpri' = [r \in Thread |-> IF r \in FirstReaders(n) THEN kpri[r] + 1 ELSE kpri[r]]

\* Mutant: the waiters bit forgets the readers that stay asleep.
GrantForgetsReaders(t) ==
    /\ rw_wwwh' = [owner |-> Head(writerq), count |-> 0,
                   want |-> Len(writerq) > 1, wait |-> Len(writerq) > 1]
    /\ grant' = [grant EXCEPT ![t] = {Head(writerq)}]
    /\ UNCHANGED kpri

\* Otherwise the lock goes to the first waiting writer.
GrantWriter(t) ==
    /\ rw_wwwh' = [owner |-> Head(writerq), count |-> 0,
                   want |-> Len(writerq) > 1, wait |-> ts_waiters > 1]
    /\ grant' = [grant EXCEPT ![t] = {Head(writerq)}]
    /\ UNCHANGED kpri

\* The final exit of a lock with waiters: store the new word.
Handoff(t) ==
    /\ pc[t] = "handoff"
    /\ IF mode[t] = "writer" /\ rw_readers_to_wake > 0
         THEN GrantReaders(t, rw_readers_to_wake)
         ELSE GrantWriter(t)
    /\ Goto(t, "exit_wakeup")
    /\ UNCHANGED <<tc_lock, readerq, writerq, pri, mode>>

\* Mutant: tc_lock is not released.
WakeupKeepsLock(t, next) ==
    LET woken == grant[t] IN
    /\ readerq' = DequeueFirst(readerq, woken)
    /\ writerq' = DequeueFirst(writerq, woken)
    /\ pc' = [s \in Thread |-> IF s = t THEN next ELSE IF s \in woken THEN "held" ELSE pc[s]]
    /\ grant' = [grant EXCEPT ![t] = {}]
    /\ UNCHANGED tc_lock

\* turnstile_wakeup: dequeue the granted threads, which run on as holders,
\* and release tc_lock.  `next' is where the waker goes.
turnstile_wakeup(t, next) ==
    LET woken == grant[t] IN
    /\ readerq' = DequeueFirst(readerq, woken)
    /\ writerq' = DequeueFirst(writerq, woken)
    /\ pc' = [s \in Thread |-> IF s = t THEN next ELSE IF s \in woken THEN "held" ELSE pc[s]]
    /\ grant' = [grant EXCEPT ![t] = {}]
    /\ tc_lock' = NULL

ExitWakeup(t) ==
    /\ pc[t] = "exit_wakeup"
    /\ turnstile_wakeup(t, "idle")
    /\ KpriDrop(t, mode[t])
    /\ UNCHANGED <<rw_wwwh, pri, mode>>

----------------------------------------------------------------------------
(* Changing the mode *)

\* rw_downgrade: one atomic add turns the write lock into one read hold, and
\* keeps the two bits.
rw_downgrade(t) ==
    /\ pc[t] = "held" /\ mode[t] = "writer"
    /\ IF rw_wwwh.owner # t
         THEN Goto(t, "panic") /\ UNCHANGED <<rw_wwwh, mode>>
         ELSE /\ rw_wwwh' = [rw_wwwh EXCEPT !.owner = NULL, !.count = 1]
              /\ mode' = [mode EXCEPT ![t] = "reader"]
              /\ Goto(t, IF rw_wwwh.wait THEN "downgrade_lookup" ELSE "held")
    /\ Kpri(t, 1)
    /\ UNCHANGED <<tc_lock, readerq, writerq, pri, grant>>

DowngradeLookup(t) == turnstile_lookup(t, "downgrade_lookup", "downgrade_grant")

\* A second atomic add grants read holds to the readers that an exiting writer
\* would have woken; it clears the waiters bit if nobody else waits.
DowngradeGrant(t) ==
    /\ pc[t] = "downgrade_grant"
    /\ LET n == rw_readers_to_wake IN
       /\ rw_wwwh' = [rw_wwwh EXCEPT !.count = @ + n, !.wait = @ /\ (n = 0 \/ ts_waiters # n)]
       /\ grant' = [grant EXCEPT ![t] = FirstReaders(n)]
       /\ kpri' = [r \in Thread |-> IF r \in FirstReaders(n) THEN kpri[r] + 1 ELSE kpri[r]]
    /\ Goto(t, "downgrade_wakeup")
    /\ UNCHANGED <<tc_lock, readerq, writerq, pri, mode>>

DowngradeWakeup(t) ==
    /\ pc[t] = "downgrade_wakeup"
    /\ turnstile_wakeup(t, "held")
    /\ UNCHANGED <<rw_wwwh, pri, kpri, mode>>

\* rw_tryupgrade succeeds for the only reader of a lock no writer wants.
rw_tryupgrade(t) ==
    /\ pc[t] = "held" /\ mode[t] = "reader"
    /\ [rw_wwwh EXCEPT !.wait = FALSE] = Add(Unheld, t, "reader")
    /\ rw_wwwh' = [rw_wwwh EXCEPT !.owner = t, !.count = 0]
    /\ mode' = [mode EXCEPT ![t] = "writer"]
    /\ Kpri(t, -1)
    /\ UNCHANGED <<tc_lock, readerq, writerq, pri, pc, grant>>

----------------------------------------------------------------------------
\* Mutant: a sleeping thread keeps its place.
ChangePriInPlace(t, p) ==
    /\ pri' = [pri EXCEPT ![t] = p]
    /\ pc[t] = "asleep" => tc_lock = NULL
    /\ UNCHANGED <<rw_wwwh, tc_lock, readerq, writerq, kpri, pc, mode, grant>>

\* The dispatcher moves thread t to priority p; turnstile_change_pri requeues
\* a thread that sleeps, under its thread lock, which is then tc_lock.
change_pri(t, p) ==
    /\ pri' = [pri EXCEPT ![t] = p]
    /\ pc[t] = "asleep" => tc_lock = NULL
    /\ readerq' = Requeue(readerq, t, pri')
    /\ writerq' = Requeue(writerq, t, pri')
    /\ UNCHANGED <<rw_wwwh, tc_lock, kpri, pc, mode, grant>>

Enter(t) == \E m \in Role[t] : rw_enter(t, m) \/ rw_tryenter(t, m)

Step(t) == \/ EnterTry(t) \/ EnterLookup(t) \/ SetWait(t) \/ turnstile_block(t)
           \/ rw_exit(t) \/ ExitLookup(t) \/ Handoff(t) \/ ExitWakeup(t)
           \/ DowngradeLookup(t) \/ DowngradeGrant(t) \/ DowngradeWakeup(t)

Convert(t) == rw_downgrade(t) \/ rw_tryupgrade(t)

Next == \/ \E t \in Thread : Enter(t) \/ Step(t) \/ Convert(t)
        \/ \E t \in Thread, p \in NewPri : change_pri(t, p)

\* Threads that run keep running, holders release the lock, and nobody loses
\* the race for tc_lock forever.
Fairness == \A t \in Thread :
    /\ WF_vars(Step(t))
    /\ SF_vars(rw_exit(t))
    /\ SF_vars(EnterLookup(t) \/ ExitLookup(t) \/ DowngradeLookup(t))

Spec     == Init /\ [][Next]_vars
FairSpec == Spec /\ Fairness

----------------------------------------------------------------------------
(* Properties *)

TurnstilePC == {"set_wait", "block", "handoff", "exit_wakeup", "downgrade_grant",
                "downgrade_wakeup"}
HoldPC  == {"held", "exit_lookup", "handoff",
            "downgrade_lookup", "downgrade_grant", "downgrade_wakeup"}
Granted == UNION {grant[t] : t \in Thread}
Holders(m) == {t \in Thread : mode[t] = m /\ (pc[t] \in HoldPC \/ t \in Granted)}

\* Every variable stays in its range, tc_lock is held exactly by the thread
\* that is between turnstile_lookup and the release, and none of the panics is
\* reached: rw_enter by the owner, rw_exit or rw_downgrade of a lock that the
\* thread does not hold.
TypeOK ==
    /\ rw_wwwh \in [owner : Thread \cup {NULL}, count : 0..Cardinality(Thread),
                    want : BOOLEAN, wait : BOOLEAN]
    /\ tc_lock \in Thread \cup {NULL}
    /\ readerq \in Seq(Thread) /\ IsInjective(readerq)
    /\ writerq \in Seq(Thread) /\ IsInjective(writerq)
    /\ pri \in [Thread -> Nat] /\ kpri \in [Thread -> Nat]
    /\ pc \in [Thread -> PC \ {"panic"}] /\ mode \in [Thread -> Mode]
    /\ grant \in [Thread -> SUBSET Thread]
    /\ \A t \in Thread : pc[t] \in TurnstilePC <=> tc_lock = t

\* The lock word tells the truth: its hold count is the number of readers, its
\* owner the writer, handed-off holds included, although rw_exit_wakeup stores
\* the word without a compare-and-swap and rw_downgrade adds to it twice.
WordAgrees == /\ rw_wwwh.count = Cardinality(Holders("reader"))
              /\ Holders("writer") = {rw_wwwh.owner} \ {NULL}

\* While nobody holds tc_lock, the waiters bit says whether threads sleep on
\* the lock and the write-wanted bit whether writers do (rule 2 of rwlock.c).
TurnstileAgrees == tc_lock = NULL => /\ rw_wwwh.wait <=> ts_waiters > 0
                                     /\ rw_wwwh.want <=> writerq # <<>>

\* A thread never sleeps on a lock nobody holds, and an exit that finds no
\* reader to wake finds a writer, as rw_exit_wakeup assumes.
SleepersHaveHolder ==
    /\ ts_waiters > 0 => Locked(rw_wwwh)
    /\ \A t \in Thread :
         pc[t] = "handoff" /\ (mode[t] = "reader" \/ rw_readers_to_wake = 0)
            => writerq # <<>> /\ rw_wwwh.want

\* t_kpri_req is raised once while a thread holds the lock as a reader or is
\* in the reader's enter or exit path, not while it sleeps or writes.
KpriBalanced == \A t \in Thread :
    kpri[t] = IF mode[t] = "reader" /\ (pc[t] \notin {"idle", "asleep"} \/ t \in Granted)
                THEN 1 ELSE 0

\* The lock word, its two bits and the threads' requests for a kernel priority
\* agree with who holds the lock and who sleeps on it.
StateAgrees == WordAgrees /\ TurnstileAgrees /\ KpriBalanced

\* The writer priority policy of the Big Theory Statement: an exiting reader
\* hands over to a waiting writer of the highest priority; an exiting writer
\* hands over to all waiting readers whose priority is no lower than that of
\* every waiting writer, and to a writer if there is no such reader.
Entitled == {r \in ToSet(readerq) : \A w \in ToSet(writerq) : pri[r] >= pri[w]}
TopWriters == {w \in ToSet(writerq) : \A v \in ToSet(writerq) : pri[w] >= pri[v]}
WriterPriorityPolicy == [][\A t \in Thread : Handoff(t) =>
    IF mode[t] = "writer" /\ Entitled # {} THEN grant'[t] = Entitled
    ELSE \E w \in TopWriters : grant'[t] = {w}]_vars

\* A sleeping thread is eventually granted the lock, once the dispatcher has
\* stopped moving priorities and no thread of a higher priority writes:
\* requirements (1), (2), (4) and (5) of the Big Theory Statement.
Unopposed(t) == \A w \in Thread : mode[w] = "writer" /\ pc[w] # "idle" => pri[w] <= pri[t]
NoStarvation == \A t \in Thread :
    <>[][\A u \in Thread, p \in NewPri : ~change_pri(u, p)]_vars /\ <>[]Unopposed(t)
        => (pc[t] = "asleep" ~> pc[t] = "held")

\* The lock implements the abstract readers/writer lock.
RW == INSTANCE AbstractRWLock WITH readers <- Holders("reader"), writers <- Holders("writer")
ImplementsRW == RW!Spec
=============================================================================
