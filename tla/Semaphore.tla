----------------------------- MODULE Semaphore -----------------------------
(***************************************************************************)
(* One counting semaphore, common/os/semaphore.c.  s_count and the sleep   *)
(* queue are only touched under the sq_lock of the hashed sleep queue, so  *)
(* each critical section is one step; what a thread does between two of    *)
(* them interleaves with everything else.  A wakeup does not hand over the *)
(* semaphore: the woken thread competes for s_count again.                 *)
(***************************************************************************)
EXTENDS PriQueue

CONSTANTS Thread,
          Count,      \* the argument count of sema_init
          MaxCount,   \* bound: no sema_v beyond this count
          Pri         \* the dispatch priorities

ASSUME SemaAssumption == /\ IsFiniteSet(Thread) /\ Count \in Nat /\ MaxCount \in Nat
                         /\ Pri \subseteq Nat /\ Pri # {}

VARIABLES s_count,
          s_slpq,   \* the sleeping threads, highest priority first
          pri,      \* DISP_PRIO of each thread
          sig,      \* sig[t]: a signal (or MUSTRETURN) is pending for t's lwp
          pc,
          kind      \* the routine t is in: "sema_p" or "sema_p_sig"

vars == <<s_count, s_slpq, pri, sig, pc, kind>>

PC == {"idle", "looking", "swtch", "interrupted"}

Asleep(t) == t \in ToSet(s_slpq)
Goto(t, l) == pc' = [pc EXCEPT ![t] = l]

Init == /\ s_count = Count
        /\ s_slpq = <<>>
        /\ pri \in [Thread -> Pri]
        /\ sig = [t \in Thread |-> FALSE]
        /\ pc = [t \in Thread |-> "idle"]
        /\ kind = [t \in Thread |-> "sema_p"]

\* Mutant: the loop test is off by one.
AcquireBelowZero(t, k) ==
    /\ kind' = [kind EXCEPT ![t] = k]
    /\ s_count' = s_count - 1
    /\ Goto(t, "idle")
    /\ UNCHANGED <<s_slpq, pri, sig>>

\* The loop test of sema_p and sema_p_sig under sq_lock: take a unit, or
\* queue up (SEMA_BLOCK) and drop the lock.  sema_p_sig then looks for signals.
Acquire(t, k) ==
    /\ kind' = [kind EXCEPT ![t] = k]
    /\ IF s_count = 0
         THEN /\ s_slpq' = Insert(s_slpq, t, pri)
              /\ Goto(t, IF k = "sema_p_sig" THEN "looking" ELSE "swtch")
              /\ UNCHANGED s_count
         ELSE /\ s_count' = s_count - 1
              /\ Goto(t, "idle")
              /\ UNCHANGED s_slpq
    /\ UNCHANGED <<pri, sig>>

sema_p(t)     == pc[t] = "idle" /\ Acquire(t, "sema_p")
sema_p_sig(t) == pc[t] = "idle" /\ Acquire(t, "sema_p_sig")

\* ISSIG(t, JUSTLOOKING): a pending signal makes t runnable again, unless it
\* has been woken already (setrun, sema_unsleep).
LookForSignal(t) ==
    /\ pc[t] = "looking"
    /\ s_slpq' = IF sig[t] THEN Dequeue(s_slpq, t) ELSE s_slpq
    /\ Goto(t, "swtch")
    /\ UNCHANGED <<s_count, pri, sig, kind>>

\* swtch() returns; no signal has to be handled, so try again.
Retry(t) ==
    /\ pc[t] = "swtch" /\ ~Asleep(t)
    /\ Acquire(t, kind[t])

\* swtch() returns and ISSIG(t, FORREAL) finds a signal.
Interrupted(t) ==
    /\ pc[t] = "swtch" /\ ~Asleep(t)
    /\ kind[t] = "sema_p_sig" /\ sig[t]
    /\ sig' = [sig EXCEPT ![t] = FALSE]
    /\ Goto(t, "interrupted")
    /\ UNCHANGED <<s_count, s_slpq, pri, kind>>

\* Mutant: the interrupted thread keeps the wakeup to itself.
PassOnForgotten(t) ==
    /\ pc[t] = "interrupted"
    /\ Goto(t, "idle")
    /\ UNCHANGED <<s_count, s_slpq, pri, sig, kind>>

\* Return 1, passing on a sema_v that may have been meant for this thread.
PassOn(t) ==
    /\ pc[t] = "interrupted"
    /\ s_slpq' = IF s_slpq # <<>> /\ s_count > 0 THEN Tail(s_slpq) ELSE s_slpq
    /\ Goto(t, "idle")
    /\ UNCHANGED <<s_count, pri, sig, kind>>

\* Mutant: only the first unit wakes a thread.
WakeOnFirstUnit(t) ==
    /\ pc[t] = "idle" /\ s_count < MaxCount
    /\ s_count' = s_count + 1
    /\ s_slpq' = IF s_slpq # <<>> /\ s_count = 0 THEN Tail(s_slpq) ELSE s_slpq
    /\ UNCHANGED <<pri, sig, pc, kind>>

sema_v(t) ==
    /\ pc[t] = "idle" /\ s_count < MaxCount
    /\ s_count' = s_count + 1
    /\ s_slpq' = IF s_slpq # <<>> THEN Tail(s_slpq) ELSE s_slpq
    /\ UNCHANGED <<pri, sig, pc, kind>>

sema_tryp(t) ==
    /\ pc[t] = "idle" /\ s_count > 0
    /\ s_count' = s_count - 1
    /\ UNCHANGED <<s_slpq, pri, sig, pc, kind>>

\* A signal is posted to t; a wakeable sleeper is taken off the queue
\* (setrun, sema_unsleep).
post_signal(t) ==
    /\ ~sig[t]
    /\ sig' = [sig EXCEPT ![t] = TRUE]
    /\ s_slpq' = IF kind[t] = "sema_p_sig" THEN Dequeue(s_slpq, t) ELSE s_slpq
    /\ UNCHANGED <<s_count, pri, pc, kind>>

\* Mutant: a sleeper keeps its place.
ChangePriInPlace(t, p) ==
    /\ pri' = [pri EXCEPT ![t] = p]
    /\ UNCHANGED <<s_count, s_slpq, sig, pc, kind>>

\* The dispatcher changes the priority of t; a sleeper is requeued.
sema_change_pri(t, p) ==
    /\ pri' = [pri EXCEPT ![t] = p]
    /\ s_slpq' = Requeue(s_slpq, t, pri')
    /\ UNCHANGED <<s_count, sig, pc, kind>>

Wake(t) == LookForSignal(t) \/ Retry(t) \/ Interrupted(t) \/ PassOn(t)

Next == \E t \in Thread :
           \/ sema_p(t) \/ sema_p_sig(t) \/ sema_v(t) \/ sema_tryp(t)
           \/ Wake(t) \/ post_signal(t)
           \/ \E p \in Pri : sema_change_pri(t, p)

Spec == Init /\ [][Next]_vars
\* A thread that has been made runnable runs.
FairSpec == Spec /\ \A t \in Thread : WF_vars(Wake(t))

----------------------------------------------------------------------------
\* Every variable stays in its range; a thread is queued at most once, and
\* only between SEMA_BLOCK and the return of swtch().
TypeOK == /\ s_count \in Nat
          /\ s_slpq \in Seq(Thread) /\ IsInjective(s_slpq)
          /\ \A t \in ToSet(s_slpq) : pc[t] \in {"looking", "swtch"}
          /\ pri \in [Thread -> Pri]
          /\ sig \in [Thread -> BOOLEAN]
          /\ pc \in [Thread -> PC]
          /\ kind \in [Thread -> {"sema_p", "sema_p_sig"}]

\* The threads that have been woken and will yet look at s_count.
InFlight == {t \in Thread : \/ pc[t] \in {"looking", "swtch"} /\ ~Asleep(t)
                            \/ pc[t] = "interrupted"}

\* No wakeup is lost: while threads sleep, every available unit has a woken
\* thread on its way to it, also when sema_v wakes a thread that a signal
\* interrupts, and when another thread takes the unit first.
NoLostWakeup == s_slpq # <<>> => s_count <= Cardinality(InFlight)

\* sema_v and the pass-on wake a thread of the highest priority, also after
\* the priorities of sleeping threads have changed.
WakesHighest == [][\A v \in Thread, t \in ToSet(s_slpq) :
    (sema_v(v) \/ PassOn(v)) /\ t \notin ToSet(s_slpq')
        => \A u \in ToSet(s_slpq') : pri[t] >= pri[u]]_vars

\* Units and sleepers do not stay together: somebody takes the units, or the
\* sleepers are woken.
UnitsTaken == (s_count > 0 /\ s_slpq # <<>>) ~> (s_count = 0 \/ s_slpq = <<>>)
=============================================================================
