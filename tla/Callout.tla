------------------------------ MODULE Callout ------------------------------
(***************************************************************************)
(* One callout table, common/os/callout.c: timeout(), untimeout(), the     *)
(* clock that schedules and the taskq threads that execute.  All state is  *)
(* under ct_lock; a critical section that ends in the step that began it   *)
(* is one step, and ct_lock shows the longer ones of callout_execute,      *)
(* which drops the lock around the handler and then goes on where it was.  *)
(* Times are clock ticks modulo Wrap, compared as the code does by the     *)
(* sign of their difference.                                               *)
(***************************************************************************)
EXTENDS Integers, FiniteSets, SequencesExt

CONSTANTS Client,     \* the threads that set timeouts, each at most one
          Executor,   \* the CALLOUT_THREADS threads of ct_taskq
          ID,         \* callout IDs; none is reused while somebody may still name it
          CP,         \* callout structures
          NULL,
          Wrap,       \* the range of clock_t
          Delta,      \* the arguments of timeout()
          MaxLag      \* bound on how far the executors lag behind lbolt

ASSUME CalloutAssumption ==
    /\ NULL \notin Executor \cup ID \cup CP /\ IsFiniteSet(Executor)
    /\ Wrap \in Nat /\ MaxLag \in Nat /\ Delta \subseteq Int
    /\ \A d \in Delta \cup {1} : 2 * (d + MaxLag) < Wrap

VARIABLES lbolt, cpr_stop_callout,
          ct_lock,      \* the executor that holds ct_lock across steps, or NULL
          ct_curtime, ct_runtime,
          lbhash,       \* the callouts in the table, newest first
          c_xid,        \* the ID of each callout, NULL on the freelist
          executing,    \* the CALLOUT_EXECUTING bit of c_xid
          c_runtime, c_executor,
          c_done,       \* the clients asleep on the c_done of each callout
          clock,        \* where callout_schedule_1 is
          queued,       \* tasks waiting for a thread of ct_taskq
          epc, runtime, cp, rest,   \* callout_execute and its locals
          upc, id, ucp              \* untimeout and its locals

ct_vars == <<ct_lock, ct_curtime, ct_runtime, queued>>
c_vars  == <<lbhash, c_xid, executing, c_runtime, c_executor, c_done>>
e_vars  == <<epc, runtime, cp, rest>>
u_vars  == <<upc, id, ucp>>
vars    == <<lbolt, cpr_stop_callout, clock, ct_vars, c_vars, e_vars, u_vars>>

Time == 0..(Wrap - 1)
Plus(a, n) == (a + n) % Wrap
\* a - b as a signed clock_t
Minus(a, b) == LET d == (a - b) % Wrap IN IF 2 * d >= Wrap THEN d - Wrap ELSE d

Free == ct_lock = NULL
\* The place of c in the hash chain, and what follows it.
Place(q, c) == CHOOSE i \in DOMAIN q : q[i] = c
After(q, c) == SubSeq(q, Place(q, c) + 1, Len(q))
\* Mutant: the CALLOUT_EXECUTING bit is not looked at.
EligibleExecuting(q, r) == {i \in DOMAIN q : c_runtime[q[i]] = r}

\* The places of the callouts that are due at time r and that nobody executes.
Eligible(q, r) == {i \in DOMAIN q : c_runtime[q[i]] = r /\ ~executing[q[i]]}
EGoto(e, l) == epc' = [epc EXCEPT ![e] = l]

\* Tasks of ct_taskq that are neither queued nor being run.
FreeTasks == 2 * Cardinality(Executor) - queued - Cardinality({e \in Executor : epc[e] # "idle"})

Init == /\ lbolt = 0 /\ cpr_stop_callout = FALSE
        /\ ct_lock = NULL /\ ct_curtime = lbolt /\ ct_runtime = lbolt /\ queued = 0
        /\ lbhash = <<>> /\ c_xid = [c \in CP |-> NULL] /\ executing = [c \in CP |-> FALSE]
        /\ c_runtime = [c \in CP |-> 0] /\ c_executor = [c \in CP |-> NULL]
        /\ c_done = [c \in CP |-> {}]
        /\ clock = "idle"
        /\ epc = [e \in Executor |-> "idle"] /\ runtime = [e \in Executor |-> 0]
        /\ cp = [e \in Executor |-> NULL] /\ rest = [e \in Executor |-> <<>>]
        /\ upc = [t \in Client |-> "idle"] /\ id = [t \in Client |-> NULL]
        /\ ucp = [t \in Client |-> NULL]

----------------------------------------------------------------------------
\* Mutant: a delay of zero ticks is taken as it is.
DelayZero(d) == d

\* A delay of less than a tick becomes one tick.
Delay(d) == IF d <= 0 THEN 1 ELSE d

timeout(t, d) ==
    /\ upc[t] = "idle" /\ Free
    /\ \E c \in CP, i \in ID :
         /\ c_xid[c] = NULL
         /\ \A u \in Client : id[u] # i
         /\ c_xid' = [c_xid EXCEPT ![c] = i]
         /\ c_runtime' = [c_runtime EXCEPT ![c] = Plus(lbolt, Delay(d))]
         /\ lbhash' = <<c>> \o lbhash
         /\ id' = [id EXCEPT ![t] = i]
    /\ upc' = [upc EXCEPT ![t] = "set"]
    /\ UNCHANGED <<lbolt, cpr_stop_callout, clock, ct_vars, executing, c_executor, c_done, e_vars, ucp>>

\* Mutant: the callout stays in the hash chain.
DeleteNotUnlinked(c) ==
    /\ c_xid' = [c_xid EXCEPT ![c] = NULL]
    /\ executing' = [executing EXCEPT ![c] = FALSE]
    /\ c_executor' = [c_executor EXCEPT ![c] = NULL]
    /\ c_runtime' = [c_runtime EXCEPT ![c] = 0]
    /\ UNCHANGED lbhash

\* CALLOUT_HASH_UPDATE(DELETE), and the structure goes to the freelist.
Delete(c) ==
    /\ lbhash' = RemoveAt(lbhash, Place(lbhash, c))
    /\ c_xid' = [c_xid EXCEPT ![c] = NULL]
    /\ executing' = [executing EXCEPT ![c] = FALSE]
    /\ c_executor' = [c_executor EXCEPT ![c] = NULL]
    /\ c_runtime' = [c_runtime EXCEPT ![c] = 0]

\* The client has its answer and forgets the ID.
Return(t) == /\ upc' = [upc EXCEPT ![t] = "idle"]
             /\ id' = [id EXCEPT ![t] = NULL]
             /\ ucp' = [ucp EXCEPT ![t] = NULL]

\* untimeout() of a callout that has not begun: time left, or none.
untimeout(t) ==
    /\ upc[t] = "set" /\ Free
    /\ \E c \in CP : c_xid[c] = id[t] /\ ~executing[c] /\ Delete(c)
    /\ Return(t)
    /\ UNCHANGED <<lbolt, cpr_stop_callout, clock, ct_vars, c_done, e_vars>>

\* Mutant: an executing callout is not waited for.
UntimeoutNoWait(t) ==
    /\ upc[t] = "set" /\ Free
    /\ \E c \in CP : c_xid[c] = id[t] /\ executing[c]
    /\ Return(t)
    /\ UNCHANGED <<lbolt, cpr_stop_callout, clock, ct_vars, c_vars, e_vars>>

\* ... of one that is executing: sleep on its c_done.
UntimeoutExecuting(t) ==
    /\ upc[t] = "set" /\ Free
    /\ \E c \in CP : /\ c_xid[c] = id[t] /\ executing[c]
                     /\ ucp' = [ucp EXCEPT ![t] = c]
                     /\ c_done' = [c_done EXCEPT ![c] = @ \cup {t}]
    /\ upc' = [upc EXCEPT ![t] = "wait"]
    /\ UNCHANGED <<lbolt, cpr_stop_callout, clock, ct_vars, lbhash, c_xid, executing,
                   c_runtime, c_executor, e_vars, id>>

\* ... woken: until the ID of that structure changes, sleep again.
UntimeoutWoken(t) ==
    /\ upc[t] = "wait" /\ t \notin c_done[ucp[t]] /\ Free
    /\ IF c_xid[ucp[t]] = id[t] /\ executing[ucp[t]]
         THEN c_done' = [c_done EXCEPT ![ucp[t]] = @ \cup {t}] /\ UNCHANGED u_vars
         ELSE Return(t) /\ UNCHANGED c_done
    /\ UNCHANGED <<lbolt, cpr_stop_callout, clock, ct_vars, lbhash, c_xid, executing,
                   c_runtime, c_executor, e_vars>>

\* ... of one that is not in the table: it has run.
UntimeoutBogus(t) ==
    /\ upc[t] = "set" /\ Free
    /\ \A c \in CP : c_xid[c] # id[t]
    /\ Return(t)
    /\ UNCHANGED <<lbolt, cpr_stop_callout, clock, ct_vars, c_vars, e_vars>>

----------------------------------------------------------------------------
\* The bound on how long callouts wait and handlers run: a handler that runs
\* for Wrap ticks would meet its own tick again.
Lagging == \E r \in {ct_runtime} \cup {runtime[e] : e \in {x \in Executor : cp[x] # NULL}} :
              Minus(lbolt, r) >= MaxLag

\* clock() advances lbolt and calls callout_schedule().
Tick == /\ clock = "idle"
        /\ lbolt' = IF Lagging THEN lbolt ELSE Plus(lbolt, 1)
        /\ clock' = IF cpr_stop_callout THEN "idle" ELSE "schedule"
        /\ UNCHANGED <<cpr_stop_callout, ct_vars, c_vars, e_vars, u_vars>>

\* callout_schedule_1 moves ct_runtime up to the first time with a callout to
\* execute, if there is one by now.
callout_schedule ==
    /\ clock = "schedule" /\ Free
    /\ ct_curtime' = lbolt
    /\ LET late == Minus(lbolt, ct_runtime)
           due  == {n \in 0..late : Eligible(lbhash, Plus(ct_runtime, n)) # {}}
       IN  /\ ct_runtime' = IF due = {} THEN Plus(ct_runtime, IF late < 0 THEN 0 ELSE late + 1)
                                        ELSE Plus(ct_runtime, Min(due))
           /\ clock' = IF due = {} THEN "idle" ELSE "dispatch"
    /\ UNCHANGED <<lbolt, cpr_stop_callout, ct_lock, queued, c_vars, e_vars, u_vars>>

\* taskq_dispatch(KM_NOSLEEP), without ct_lock: it fails when no task is free.
Dispatch ==
    /\ clock = "dispatch"
    /\ queued' = IF FreeTasks > 0 THEN queued + 1 ELSE queued
    /\ clock' = "idle"
    /\ UNCHANGED <<lbolt, cpr_stop_callout, ct_lock, ct_curtime, ct_runtime, c_vars, e_vars, u_vars>>

callout_cpr_callb ==
    /\ cpr_stop_callout' = ~cpr_stop_callout
    /\ UNCHANGED <<lbolt, clock, ct_vars, c_vars, e_vars, u_vars>>

----------------------------------------------------------------------------
\* A thread of ct_taskq takes the task and enters callout_execute.
callout_execute(e) ==
    /\ epc[e] = "idle" /\ queued > 0 /\ Free
    /\ queued' = queued - 1
    /\ ct_lock' = e
    /\ EGoto(e, "loop")
    /\ UNCHANGED <<lbolt, cpr_stop_callout, clock, ct_curtime, ct_runtime, c_vars, runtime, cp, rest, u_vars>>

\* Mutant: the test is off by one tick.
LoopTooFar(e) ==
    /\ epc[e] = "loop"
    /\ IF Minus(ct_runtime, ct_curtime) <= 1
         THEN /\ runtime' = [runtime EXCEPT ![e] = ct_runtime]
              /\ rest' = [rest EXCEPT ![e] = lbhash]
              /\ EGoto(e, "scan")
              /\ UNCHANGED ct_lock
         ELSE /\ runtime' = [runtime EXCEPT ![e] = 0]
              /\ EGoto(e, "idle")
              /\ ct_lock' = NULL
              /\ UNCHANGED rest
    /\ UNCHANGED <<lbolt, cpr_stop_callout, clock, ct_curtime, ct_runtime, queued, c_vars, cp, u_vars>>

\* The test of the while loop.
Loop(e) ==
    /\ epc[e] = "loop"
    /\ IF Minus(ct_runtime, ct_curtime) <= 0
         THEN /\ runtime' = [runtime EXCEPT ![e] = ct_runtime]
              /\ rest' = [rest EXCEPT ![e] = lbhash]
              /\ EGoto(e, "scan")
              /\ UNCHANGED ct_lock
         ELSE /\ runtime' = [runtime EXCEPT ![e] = 0]
              /\ EGoto(e, "idle")
              /\ ct_lock' = NULL
              /\ UNCHANGED rest
    /\ UNCHANGED <<lbolt, cpr_stop_callout, clock, ct_curtime, ct_runtime, queued, c_vars, cp, u_vars>>

\* The for loop goes down the rest of the hash chain: mark the next callout
\* that is due and drop the lock for its handler ...
Start(e) ==
    /\ epc[e] = "scan"
    /\ LET todo == Eligible(rest[e], runtime[e])
           next == rest[e][Min(todo)]
       IN  /\ todo # {}
           /\ executing' = [executing EXCEPT ![next] = TRUE]
           /\ c_executor' = [c_executor EXCEPT ![next] = e]
           /\ cp' = [cp EXCEPT ![e] = next]
    /\ rest' = [rest EXCEPT ![e] = <<>>]
    /\ ct_lock' = NULL
    /\ EGoto(e, "handler")
    /\ UNCHANGED <<lbolt, cpr_stop_callout, clock, ct_curtime, ct_runtime, queued,
                   lbhash, c_xid, c_runtime, c_done, runtime, u_vars>>

\* ... or, at its end, advance ct_runtime unless somebody else has.
Advance(e) ==
    /\ epc[e] = "scan" /\ Eligible(rest[e], runtime[e]) = {}
    /\ ct_runtime' = IF ct_runtime = runtime[e] THEN Plus(ct_runtime, 1) ELSE ct_runtime
    /\ rest' = [rest EXCEPT ![e] = <<>>]
    /\ EGoto(e, "loop")
    /\ UNCHANGED <<lbolt, cpr_stop_callout, clock, ct_lock, ct_curtime, queued, c_vars, runtime, cp, u_vars>>

\* Mutant: the handler waits for itself.
UntimeoutSelfWaits(e) ==
    /\ epc[e] = "handler" /\ Free
    /\ EGoto(e, "blocked")
    /\ UNCHANGED <<lbolt, cpr_stop_callout, clock, ct_vars, c_vars, runtime, cp, rest, u_vars>>

\* The handler may call untimeout() on its own callout, which cannot wait for it.
UntimeoutSelf(e) ==
    /\ epc[e] = "handler" /\ Free
    /\ EGoto(e, IF c_executor[cp[e]] = e THEN "returning" ELSE "blocked")
    /\ UNCHANGED <<lbolt, cpr_stop_callout, clock, ct_vars, c_vars, runtime, cp, rest, u_vars>>

\* Mutant: nobody is told that the callout is done.
FinishNoBroadcast(e) ==
    /\ epc[e] \in {"handler", "returning"} /\ Free
    /\ ct_lock' = e
    /\ Delete(cp[e])
    /\ rest' = [rest EXCEPT ![e] = After(lbhash, cp[e])]
    /\ cp' = [cp EXCEPT ![e] = NULL]
    /\ EGoto(e, "scan")
    /\ UNCHANGED <<lbolt, cpr_stop_callout, clock, ct_curtime, ct_runtime, queued, c_done, runtime, u_vars>>

\* The handler has returned: delete the callout, wake up whoever waits for it,
\* and go on down the chain from where it was.
Finish(e) ==
    /\ epc[e] \in {"handler", "returning"} /\ Free
    /\ ct_lock' = e
    /\ Delete(cp[e])
    /\ c_done' = [c_done EXCEPT ![cp[e]] = {}]
    /\ rest' = [rest EXCEPT ![e] = After(lbhash, cp[e])]
    /\ cp' = [cp EXCEPT ![e] = NULL]
    /\ EGoto(e, "scan")
    /\ UNCHANGED <<lbolt, cpr_stop_callout, clock, ct_curtime, ct_runtime, queued, runtime, u_vars>>

Execute(e) == \/ callout_execute(e) \/ Loop(e) \/ Start(e) \/ Advance(e)
              \/ UntimeoutSelf(e) \/ Finish(e)
Clock == Tick \/ callout_schedule \/ Dispatch

Next == \/ \E t \in Client : \/ \E d \in Delta : timeout(t, d)
                             \/ untimeout(t) \/ UntimeoutExecuting(t)
                             \/ UntimeoutWoken(t) \/ UntimeoutBogus(t)
        \/ Clock \/ callout_cpr_callb
        \/ \E e \in Executor : Execute(e)

Spec == Init /\ [][Next]_vars
\* The taskq threads run, handlers return, CPR resumes, and between suspends
\* the clock ticks.
FairSpec == /\ Spec /\ WF_vars(Clock) /\ SF_vars(~cpr_stop_callout /\ Tick)
            /\ \A e \in Executor : WF_vars(Execute(e))
            /\ WF_vars(cpr_stop_callout /\ callout_cpr_callb)

----------------------------------------------------------------------------
\* Every variable stays in its range; the hash chain has exactly the callouts
\* in use, each once.
TypeOK ==
    /\ {lbolt, ct_curtime, ct_runtime} \subseteq Time /\ cpr_stop_callout \in BOOLEAN
    /\ ct_lock \in Executor \cup {NULL} /\ queued \in 0..2 * Cardinality(Executor)
    /\ lbhash \in Seq(CP) /\ IsInjective(lbhash)
    /\ ToSet(lbhash) = {c \in CP : c_xid[c] # NULL}
    /\ c_xid \in [CP -> ID \cup {NULL}] /\ executing \in [CP -> BOOLEAN]
    /\ c_runtime \in [CP -> Time] /\ c_executor \in [CP -> Executor \cup {NULL}]
    /\ c_done \in [CP -> SUBSET Client] /\ clock \in {"idle", "schedule", "dispatch"}
    /\ epc \in [Executor -> {"idle", "loop", "scan", "handler", "returning"}]
    /\ runtime \in [Executor -> Time] /\ cp \in [Executor -> CP \cup {NULL}]
    /\ rest \in [Executor -> Seq(CP)]
    /\ upc \in [Client -> {"idle", "set", "wait"}]
    /\ id \in [Client -> ID \cup {NULL}] /\ ucp \in [Client -> CP \cup {NULL}]

Pending(c) == c_xid[c] # NULL /\ ~executing[c]

\* No callout is passed over: ct_runtime never moves beyond one that is not yet
\* executing, although timeouts are added while callout_execute has dropped the
\* lock and two threads move ct_runtime.
NoMissedCallout == \A c \in CP : Pending(c) => Minus(c_runtime[c], ct_runtime) >= 0

\* The caller of untimeout() may free what its handler uses: when it has its
\* answer, the handler neither runs nor will run.
QuietAfterUntimeout == \A c \in CP : c_xid[c] # NULL => \E t \in Client : id[t] = c_xid[c]

\* A callout is executed by one thread, which deletes the callout it executed.
OneExecutor == \A e, f \in Executor :
    cp[e] # NULL => /\ executing[cp[e]] /\ c_executor[cp[e]] = e
                    /\ cp[e] = cp[f] => e = f

\* No wakeup of an untimeout() is missed: who sleeps on c_done waits for a
\* callout that is still executing, not for a structure that has been reused.
NoMissedDone == \A c \in CP : \A t \in c_done[c] :
    ucp[t] = c /\ c_xid[c] = id[t] /\ executing[c]

\* A handler is not called before its time.
NotEarly == [][\A c \in CP : executing'[c] /\ ~executing[c]
                  => Minus(c_runtime[c], lbolt) <= 0]_vars

\* Every callout is executed or cancelled.
Delivered == \A c \in CP : Pending(c) ~> ~Pending(c)
=============================================================================
