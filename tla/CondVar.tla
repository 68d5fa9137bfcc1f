------------------------------ MODULE CondVar ------------------------------
(***************************************************************************)
(* One condition variable, common/os/condvar.c, with its mutex mp and the  *)
(* monitor it is used for: a thread that finds no token waits for one, a   *)
(* thread that adds a token signals.  cv_waiters and the sleep queue are   *)
(* changed only under sq_lock, so each such critical section is one step.  *)
(* Priorities are left out: cv_signal may wake any sleeper.                *)
(***************************************************************************)
EXTENDS Integers, FiniteSets

CONSTANTS Thread, NULL,
          CV_MAX_WAITERS,   \* how far cv_waiters counts (1024 in the code)
          MaxTokens,        \* bound on the tokens of the monitor
          Routine           \* the wait routines its callers use

ASSUME CVAssumption == /\ IsFiniteSet(Thread) /\ NULL \notin Thread
                       /\ CV_MAX_WAITERS \in Nat \ {0}
                       /\ MaxTokens \in Nat

VARIABLES cv_waiters,
          slpq,        \* the threads on the sleep queue with t_wchan = cvp
          signalled,   \* TS_SIGNALLED in t_schedflag
          timer,       \* the realtime callout a timed wait has set
          sig,         \* a signal, a stop request or MUSTRETURN is pending
          mp,          \* the owner of the mutex, or NULL
          tokens,      \* what the monitor is about
          pc, kind,    \* where t is in which of the wait routines
          rval         \* the result so far: 1, 0 (signal) or -1 (timeout)

vars == <<cv_waiters, slpq, signalled, timer, sig, mp, tokens, pc, kind, rval>>

Timed == {"cv_timedwait", "cv_wait_stop", "cv_timedwait_sig"}
Sig   == {"cv_wait_sig", "cv_timedwait_sig"}
Kind  == Timed \cup Sig \cup {"cv_wait"}

ASSUME RoutineAssumption == Routine \subseteq Kind

PC == {"idle", "test", "block", "exit", "look", "swtch", "reenter", "untimeout",
       "out", "issig", "sigenter", "resignal", "cv_signal", "wakeone",
       "cv_broadcast", "wakeall", "done"}
\* The lifetime of a callout: set, due by lbolt, executing setrun, finished.
Timer == {"off", "armed", "due", "running", "fired"}

Goto(t, l) == pc' = [pc EXCEPT ![t] = l]

Init == /\ cv_waiters = 0 /\ slpq = {} /\ mp = NULL /\ tokens = 0
        /\ signalled = [t \in Thread |-> FALSE]
        /\ timer = [t \in Thread |-> "off"]
        /\ sig = [t \in Thread |-> FALSE]
        /\ pc = [t \in Thread |-> "idle"]
        /\ kind = [t \in Thread |-> "cv_wait"]
        /\ rval = [t \in Thread |-> 1]

----------------------------------------------------------------------------
\* The callers: one adds a token; the other takes the mutex, and then a token,
\* or waits for one.

Lock(t, from, to) == /\ pc[t] = from /\ mp = NULL
                     /\ mp' = t /\ Goto(t, to)
                     /\ UNCHANGED <<cv_waiters, slpq, signalled, timer, sig, tokens, kind, rval>>

Enter(t) == Lock(t, "idle", "test")

Take(t) == /\ pc[t] = "test" /\ tokens > 0
           /\ tokens' = tokens - 1
           /\ Goto(t, "done")
           /\ UNCHANGED <<cv_waiters, slpq, signalled, timer, sig, mp, kind, rval>>

\* The token is added under the mutex; the wakeup comes after mutex_exit.
Add(t, wakeup) ==
    /\ pc[t] = "idle" /\ mp = NULL /\ tokens < MaxTokens
    /\ tokens' = tokens + 1
    /\ Goto(t, wakeup)
    /\ UNCHANGED <<cv_waiters, slpq, signalled, timer, sig, mp, kind, rval>>

\* The caller is through, and gives the mutex back if it has it.  What the
\* wait left behind in its locals and in t_schedflag is not read again.
Done(t) == /\ pc[t] = "done"
           /\ mp' = IF mp = t THEN NULL ELSE mp
           /\ sig' = [sig EXCEPT ![t] = FALSE]
           /\ signalled' = [signalled EXCEPT ![t] = FALSE]
           /\ kind' = [kind EXCEPT ![t] = "cv_wait"]
           /\ rval' = [rval EXCEPT ![t] = 1]
           /\ Goto(t, "idle")
           /\ UNCHANGED <<cv_waiters, slpq, timer, tokens>>

----------------------------------------------------------------------------
\* Mutant: cv_unsleep leaves the count alone.
SetrunNoCount(t) == slpq' = slpq \ {t} /\ UNCHANGED cv_waiters

\* setrun() on a thread that sleeps on the cv (cv_unsleep); setrun() on a
\* thread that does not sleep has no effect.
setrun(t) ==
    /\ slpq' = slpq \ {t}
    /\ cv_waiters' = IF t \in slpq /\ cv_waiters # CV_MAX_WAITERS
                       THEN cv_waiters - 1 ELSE cv_waiters

\* A wait begins.  The timed ones return at once when tim has passed
\* (cv_timedwait_sig looks for signals first), and otherwise set a callout.
\* cv_wait_stop computes tim itself, in the future.
WaitBegin(t, k) ==
    /\ pc[t] = "test" /\ tokens = 0
    /\ kind' = [kind EXCEPT ![t] = k]
    /\ rval' = [rval EXCEPT ![t] = 1]
    /\ timer' = [timer EXCEPT ![t] = IF k \in Timed THEN "armed" ELSE @]
    /\ Goto(t, "block")
    /\ UNCHANGED <<cv_waiters, slpq, signalled, sig, mp, tokens>>

WaitPassed(t, k) ==
    /\ pc[t] = "test" /\ tokens = 0
    /\ k \in Timed \ {"cv_wait_stop"}
    /\ kind' = [kind EXCEPT ![t] = k]
    /\ rval' = [rval EXCEPT ![t] = -1]
    /\ signalled' = [signalled EXCEPT ![t] = FALSE]
    /\ Goto(t, IF k \in Sig THEN "out" ELSE "done")
    /\ UNCHANGED <<cv_waiters, slpq, timer, sig, mp, tokens>>

\* Mutant: the count does not saturate.
BlockUnbounded(t) ==
    /\ pc[t] = "block"
    /\ signalled' = [signalled EXCEPT ![t] = FALSE]
    /\ cv_waiters' = cv_waiters + 1
    /\ slpq' = slpq \cup {t}
    /\ Goto(t, "exit")
    /\ UNCHANGED <<timer, sig, mp, tokens, kind, rval>>

cv_block(t) ==
    /\ pc[t] = "block"
    /\ signalled' = [signalled EXCEPT ![t] = FALSE]
    /\ cv_waiters' = IF cv_waiters < CV_MAX_WAITERS THEN cv_waiters + 1 ELSE cv_waiters
    /\ slpq' = slpq \cup {t}
    /\ Goto(t, "exit")
    /\ UNCHANGED <<timer, sig, mp, tokens, kind, rval>>

WaitExit(t) ==
    /\ pc[t] = "exit"
    /\ mp' = NULL
    /\ Goto(t, IF kind[t] = "cv_wait" THEN "swtch" ELSE "look")
    /\ UNCHANGED <<cv_waiters, slpq, signalled, timer, sig, tokens, kind, rval>>

\* Mutant: the time is not looked at again.
LookForSignalOnly(t) ==
    /\ pc[t] = "look"
    /\ IF kind[t] \in Sig /\ sig[t] THEN setrun(t) ELSE UNCHANGED <<cv_waiters, slpq>>
    /\ Goto(t, "swtch")
    /\ UNCHANGED <<signalled, timer, sig, mp, tokens, kind, rval>>

\* Having released the mutex, see whether the signal came, or the callout
\* ran, before the thread was asleep.
Look(t) ==
    /\ pc[t] = "look"
    /\ IF \/ kind[t] \in Sig /\ sig[t]
          \/ kind[t] \in Timed /\ timer[t] # "armed"
         THEN setrun(t) ELSE UNCHANGED <<cv_waiters, slpq>>
    /\ Goto(t, "swtch")
    /\ UNCHANGED <<signalled, timer, sig, mp, tokens, kind, rval>>

\* swtch() returns.  cv_timedwait and cv_wait_stop cancel the callout first,
\* the others take the mutex first.
Woken(t) ==
    /\ pc[t] = "swtch" /\ t \notin slpq
    /\ Goto(t, IF kind[t] \in Timed \ Sig THEN "untimeout" ELSE "reenter")
    /\ UNCHANGED <<cv_waiters, slpq, signalled, timer, sig, mp, tokens, kind, rval>>

Reenter(t) == Lock(t, "reenter", CASE kind[t] \in {"cv_wait", "cv_wait_stop"} -> "test"
                                   [] kind[t] = "cv_timedwait"     -> "resignal"
                                   [] kind[t] = "cv_wait_sig"      -> "out"
                                   [] kind[t] = "cv_timedwait_sig" -> "untimeout")

\* Mutant: the callout that is executing is not waited for.
UntimeoutNoWait(t) ==
    /\ pc[t] = "untimeout"
    /\ timer' = [timer EXCEPT ![t] = IF @ = "running" THEN @ ELSE "off"]
    /\ rval' = [rval EXCEPT ![t] =
                  IF timer[t] = "armed" \/ kind[t] = "cv_wait_stop" THEN 1 ELSE -1]
    /\ Goto(t, IF kind[t] \in Sig THEN "out" ELSE "reenter")
    /\ UNCHANGED <<cv_waiters, slpq, signalled, sig, mp, tokens, kind>>

\* untimeout(): time is left, or none is (the callout is deleted before it
\* ran, or has run).  It waits for a callout that is executing.
untimeout(t) ==
    /\ pc[t] = "untimeout" /\ timer[t] # "running"
    /\ timer' = [timer EXCEPT ![t] = "off"]
    /\ rval' = [rval EXCEPT ![t] =
                  IF timer[t] = "armed" \/ kind[t] = "cv_wait_stop" THEN 1 ELSE -1]
    /\ Goto(t, IF kind[t] \in Sig THEN "out" ELSE "reenter")
    /\ UNCHANGED <<cv_waiters, slpq, signalled, sig, mp, tokens, kind>>

\* ISSIG_PENDING makes the thread drop the mutex for issig(FORREAL).
Pending(t) ==
    /\ pc[t] = "out" /\ sig[t]
    /\ mp' = NULL
    /\ Goto(t, "issig")
    /\ UNCHANGED <<cv_waiters, slpq, signalled, timer, sig, tokens, kind, rval>>

\* issig(FORREAL) finds a signal to take, or only stops the thread for a while.
issig(t) ==
    /\ pc[t] = "issig"
    /\ sig' = [sig EXCEPT ![t] = FALSE]
    /\ \E r \in {rval[t], 0} : rval' = [rval EXCEPT ![t] = r]
    /\ Goto(t, "sigenter")
    /\ UNCHANGED <<cv_waiters, slpq, signalled, timer, mp, tokens, kind>>

Sigenter(t) == Lock(t, "sigenter", "resignal")

\* Nothing is pending; or it is MUSTRETURN alone, which needs no issig().
NotPending(t) ==
    /\ pc[t] = "out"
    /\ rval' = [rval EXCEPT ![t] = IF sig[t] THEN 0 ELSE @]
    /\ Goto(t, "resignal")
    /\ UNCHANGED <<cv_waiters, slpq, signalled, timer, sig, mp, tokens, kind>>

\* Mutant: the signal is consumed.
ResignalForgotten(t) ==
    /\ pc[t] = "resignal"
    /\ Goto(t, IF rval[t] > 0 THEN "test" ELSE "done")
    /\ UNCHANGED <<cv_waiters, slpq, signalled, timer, sig, mp, tokens, kind, rval>>

\* A wait that was cut short must not consume the cv_signal.  Its caller gives
\* up; after a wakeup the caller tests its condition again.
Resignal(t) ==
    /\ pc[t] = "resignal"
    /\ Goto(t, CASE rval[t] > 0                        -> "test"
                 [] rval[t] <= 0 /\ signalled[t]       -> "cv_signal"
                 [] rval[t] <= 0 /\ ~signalled[t]      -> "done")
    /\ UNCHANGED <<cv_waiters, slpq, signalled, timer, sig, mp, tokens, kind, rval>>

Wait(t) == \/ cv_block(t) \/ WaitExit(t) \/ Look(t) \/ Woken(t) \/ Reenter(t)
           \/ untimeout(t) \/ Pending(t) \/ issig(t) \/ Sigenter(t) \/ NotPending(t)
           \/ Resignal(t)

----------------------------------------------------------------------------
\* cv_signal and cv_broadcast look at cv_waiters before they take sq_lock.
Peek(t, from, to) ==
    /\ pc[t] = from
    /\ Goto(t, IF cv_waiters > 0 THEN to ELSE "done")
    /\ UNCHANGED <<cv_waiters, slpq, signalled, timer, sig, mp, tokens, kind, rval>>

\* cv_signal under sq_lock: once cv_waiters has reached CV_MAX_WAITERS it stays
\* there until a cv_signal finds no sleeper.
cv_signal(t) ==
    /\ pc[t] = "wakeone"
    /\ IF slpq = {} THEN UNCHANGED <<slpq, signalled>>
                    ELSE \E u \in slpq : /\ slpq' = slpq \ {u}
                                         /\ signalled' = [signalled EXCEPT ![u] = TRUE]
    /\ cv_waiters' = CASE cv_waiters % CV_MAX_WAITERS # 0              -> cv_waiters - 1
                       [] cv_waiters % CV_MAX_WAITERS = 0 /\ slpq = {} -> 0
                       [] OTHER                                        -> cv_waiters
    /\ Goto(t, "done")
    /\ UNCHANGED <<timer, sig, mp, tokens, kind, rval>>

\* cv_broadcast under sq_lock; sleepq_wakeall_chan does not set TS_SIGNALLED.
cv_broadcast(t) ==
    /\ pc[t] = "wakeall"
    /\ slpq' = {}
    /\ cv_waiters' = 0
    /\ Goto(t, "done")
    /\ UNCHANGED <<signalled, timer, sig, mp, tokens, kind, rval>>

----------------------------------------------------------------------------
\* lbolt reaches tim; callout_execute picks the callout up; setrun(t) runs.
Tick(t) == /\ timer[t] = "armed"
           /\ timer' = [timer EXCEPT ![t] = "due"]
           /\ UNCHANGED <<cv_waiters, slpq, signalled, sig, mp, tokens, pc, kind, rval>>

CalloutStart(t) ==
    /\ timer[t] = "due"
    /\ timer' = [timer EXCEPT ![t] = "running"]
    /\ UNCHANGED <<cv_waiters, slpq, signalled, sig, mp, tokens, pc, kind, rval>>

CalloutRun(t) ==
    /\ timer[t] = "running"
    /\ setrun(t)
    /\ timer' = [timer EXCEPT ![t] = "fired"]
    /\ UNCHANGED <<signalled, sig, mp, tokens, pc, kind, rval>>

\* A signal is posted to a thread in an interruptible wait: T_WAKEABLE lets it
\* take the thread off the queue.
post_signal(t) ==
    /\ kind[t] \in Sig /\ ~sig[t]
    /\ pc[t] \in {"block", "exit", "look", "swtch", "reenter", "untimeout", "out"}
    /\ sig' = [sig EXCEPT ![t] = TRUE]
    /\ setrun(t)
    /\ UNCHANGED <<signalled, timer, mp, tokens, pc, kind, rval>>

Caller(t) == \/ Enter(t) \/ Take(t) \/ Done(t)
             \/ \E w \in {"cv_signal", "cv_broadcast"} : Add(t, w)
             \/ \E k \in Routine : WaitBegin(t, k) \/ WaitPassed(t, k)
Wakeup(t) == \/ Peek(t, "cv_signal", "wakeone") \/ cv_signal(t)
             \/ Peek(t, "cv_broadcast", "wakeall") \/ cv_broadcast(t)
Callout(t) == Tick(t) \/ CalloutStart(t) \/ CalloutRun(t)

Next == \E t \in Thread : Caller(t) \/ Wait(t) \/ Wakeup(t) \/ Callout(t) \/ post_signal(t)

Spec == Init /\ [][Next]_vars
\* Runnable threads run, time passes, and due callouts are executed.
FairSpec == Spec /\ \A t \in Thread : WF_vars(Wait(t)) /\ WF_vars(Callout(t))

----------------------------------------------------------------------------
\* Every variable stays in its range; the mutex is held where the code holds it.
TypeOK ==
    /\ cv_waiters \in 0..CV_MAX_WAITERS /\ tokens \in 0..MaxTokens
    /\ slpq \subseteq {t \in Thread : pc[t] \in {"exit", "look", "swtch"}}
    /\ mp \in Thread \cup {NULL}
    /\ signalled \in [Thread -> BOOLEAN] /\ sig \in [Thread -> BOOLEAN]
    /\ timer \in [Thread -> Timer]
    /\ pc \in [Thread -> PC] /\ kind \in [Thread -> Kind]
    /\ rval \in [Thread -> {1, 0, -1}]
    /\ \A t \in Thread : pc[t] \in {"test", "block", "exit", "out", "resignal"} => mp = t

\* cv_waiters is exact until it has saturated: cv_signal may skip the queue when
\* it reads 0, and its assertion that a thread is found below CV_MAX_WAITERS holds.
CountAgrees == cv_waiters # CV_MAX_WAITERS => cv_waiters = Cardinality(slpq)

\* The wakeups under way: a signalled thread that has yet to test the condition
\* or to pass the signal on, and a thread that is about to signal.
Chosen(t) == signalled[t] /\ pc[t] \in
    {"exit", "look", "swtch", "reenter", "untimeout", "out", "issig", "sigenter", "resignal"}
InFlight == {t \in Thread :
    \/ pc[t] \in {"cv_signal", "wakeone", "cv_broadcast", "wakeall"}
    \/ Chosen(t)
    \/ pc[t] = "test"}

\* No signal is lost: while threads sleep, there is a wakeup under way for every
\* token, also when a signalled thread times out or takes a signal, and when
\* another thread takes its token first.
NoLostSignal == slpq # {} => tokens <= Cardinality(InFlight)

\* Nobody sleeps through its timeout or its signal: a thread that has gone to
\* sleep is off the queue once its callout has run or a signal is pending,
\* although either may come before cv_block has queued the thread.
NoOversleep == \A t \in slpq : pc[t] = "swtch" =>
    /\ kind[t] \in Timed => timer[t] \in {"armed", "due", "running"}
    /\ kind[t] \in Sig => ~sig[t]

\* No callout outlives the wait that set it, so that setrun() never wakes the
\* thread from something else.
NoStaleTimer == \A t \in Thread : timer[t] # "off" =>
    /\ kind[t] \in Timed
    /\ pc[t] \in {"block", "exit", "look", "swtch", "reenter", "untimeout"}

\* A timed wait ends: the thread is woken whatever the other threads do.
TimedWaitEnds == \A t \in Thread :
    (t \in slpq /\ kind[t] \in Timed) ~> t \notin slpq
=============================================================================
