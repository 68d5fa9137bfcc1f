----------------------------- MODULE Turnstile -----------------------------
(***************************************************************************)
(* Priority inheritance through chains of blocked threads, common/os/      *)
(* turnstile.c.  Threads enter kernel locks one inside another.  Whoever   *)
(* blocks wills its priority to the owner of the lock, to the owner of the *)
(* lock that owner is blocked on, and so on, holding two thread locks at a *)
(* time: the thread lock of a sleeping thread is the lock of a hash chain  *)
(* of turnstiles, that of any other thread a dispatcher's lock, for which  *)
(* the thread itself stands.  The locks that are entered are exclusive:    *)
(* mutexes, which wake everybody, and readers/writer locks held by         *)
(* writers, which are handed to the first waiter.                          *)
(***************************************************************************)
EXTENDS Integers, FiniteSets, FiniteSetsExt, Sequences

CONSTANTS Thread, Lock, NULL,
          Handoff,    \* the locks that are handed over; the others are mutexes
          Hash,       \* Hash[l]: the hash chain of l
          NChains,    \* chains are numbered in the order of their addresses
          Script,     \* Script[t]: the locks t enters, in its lock order
          Pri         \* Pri[t]: t_pri

Chain == 1..NChains

ASSUME TurnstileAssumption ==
    /\ IsFiniteSet(Thread) /\ IsFiniteSet(Lock)
    /\ NULL \notin Thread \cup Lock /\ Thread \cap Chain = {} /\ Handoff \subseteq Lock
    /\ Hash \in [Lock -> Chain] /\ NChains \in Nat
    /\ Script \in [Thread -> Seq(Lock)] /\ Pri \in [Thread -> Nat]

\* Locks are entered in one order, the same for all threads: a cycle of owners is
\* an error of the callers, for which turnstile_block panics.
ASSUME LockOrder ==
    \E rank \in [Lock -> 1..Cardinality(Lock)] :
      \A t \in Thread : \A i, j \in 1..Len(Script[t]) :
        i < j => rank[Script[t][i]] < rank[Script[t][j]]

VARIABLES owner,     \* who owns each lock
          spin,      \* who holds each thread lock: of a chain or a dispatcher
          loser_lock,\* who holds turnstile_loser_lock
          lockp,     \* t_lockp
          wchan,     \* the lock t sleeps on
          epri,      \* t_epri, the inherited priority
          t_ts,      \* the turnstile of t; there is one for each thread
          active,    \* the turnstile of l on its hash chain, or NULL
          ts,        \* the turnstiles' ts_free, ts_inheritor, ts_epri
          pc, at,    \* where t is in its code, and in its Script
          cur, own, olp, loser  \* locals of turnstile_block and _interlock

pivars == <<epri, ts>>
walk   == <<cur, own, olp, loser>>
locks  == <<spin, loser_lock>>
sleep  == <<lockp, wchan, t_ts, active>>
vars   == <<owner, locks, sleep, pivars, pc, at, walk>>

Init == /\ owner = [l \in Lock |-> NULL] /\ active = [l \in Lock |-> NULL]
        /\ spin = [x \in Chain \cup Thread |-> NULL] /\ loser_lock = NULL
        /\ lockp = [t \in Thread |-> t] /\ wchan = [t \in Thread |-> NULL]
        /\ epri = [t \in Thread |-> 0]
        /\ t_ts = [t \in Thread |-> t]
        /\ ts = [x \in Thread |-> [free |-> {}, inheritor |-> NULL, epri |-> 0]]
        /\ pc = [t \in Thread |-> "run"] /\ at = [t \in Thread |-> 1]
        /\ cur = [t \in Thread |-> NULL] /\ own = [t \in Thread |-> NULL]
        /\ olp = [t \in Thread |-> NULL] /\ loser = [t \in Thread |-> FALSE]

Goto(t, l) == pc' = [pc EXCEPT ![t] = l]

DISP_PRIO(t) == Max({Pri[t], epri[t]})
Sleepers(l)  == {t \in Thread : wchan[t] = l}
Wanted(t)    == Script[t][at[t]]

\* t_prioinv: the turnstiles t inherits from.
t_prioinv(t) == {x \in Thread : ts[x].inheritor = t}

----------------------------------------------------------------------------
\* The locks, as far as they use turnstiles: the owner is cleared, and waiters
\* are announced, under the lock of the hash chain.

Enter(t) == /\ pc[t] = "run" /\ at[t] <= Len(Script[t]) /\ owner[Wanted(t)] = NULL
            /\ owner' = [owner EXCEPT ![Wanted(t)] = t]
            /\ at' = [at EXCEPT ![t] = @ + 1]
            /\ UNCHANGED <<locks, sleep, pivars, pc, walk>>

Contend(t) == /\ pc[t] = "run" /\ at[t] <= Len(Script[t]) /\ owner[Wanted(t)] # NULL
              /\ Goto(t, "lookup")
              /\ UNCHANGED <<owner, locks, sleep, pivars, at, walk>>

turnstile_lookup(t) ==
    /\ pc[t] = "lookup" /\ spin[Hash[Wanted(t)]] = NULL
    /\ IF owner[Wanted(t)] = NULL
       THEN Goto(t, "run") /\ UNCHANGED spin       \* turnstile_exit
       ELSE Goto(t, "block") /\ spin' = [spin EXCEPT ![Hash[Wanted(t)]] = t]
    /\ UNCHANGED <<owner, loser_lock, sleep, pivars, at, walk>>

HasWaiters(l) == active[l] # NULL \/ \E t \in Thread : pc[t] = "block" /\ Wanted(t) = l

\* With all it wanted, a thread exits its locks in any order.
Exit(t, l) == /\ pc[t] = "run" /\ at[t] > Len(Script[t]) /\ owner[l] = t
              /\ ~HasWaiters(l)
              /\ owner' = [owner EXCEPT ![l] = NULL]
              /\ UNCHANGED <<locks, sleep, pivars, pc, at, walk>>

ExitLookup(t, l) ==
    /\ pc[t] = "run" /\ at[t] > Len(Script[t]) /\ owner[l] = t
    /\ HasWaiters(l) /\ spin[Hash[l]] = NULL
    /\ spin' = [spin EXCEPT ![Hash[l]] = t]
    /\ olp' = [olp EXCEPT ![t] = l]
    /\ Goto(t, "wakeup")
    /\ UNCHANGED <<owner, loser_lock, sleep, pivars, at, cur, own, loser>>

----------------------------------------------------------------------------
\* turnstile_block.

\* Mutant: the turnstile of a second blocker is not left on the freelist.
BlockKeepsTurnstile(t) ==
    /\ pc[t] = "block" /\ spin[t] = NULL
    /\ LET l == Wanted(t) IN
       /\ IF active[l] = NULL
          THEN active' = [active EXCEPT ![l] = t_ts[t]] /\ UNCHANGED t_ts
          ELSE t_ts' = [t_ts EXCEPT ![t] = active[l]] /\ UNCHANGED active
       /\ wchan' = [wchan EXCEPT ![t] = l]
       /\ lockp' = [lockp EXCEPT ![t] = Hash[l]]
    /\ cur' = [cur EXCEPT ![t] = t]
    /\ Goto(t, "walk")
    /\ UNCHANGED <<owner, locks, epri, ts, at, own, olp, loser>>

\* The first to block on a lock takes its turnstile to the hash chain, the
\* others leave theirs on its freelist.  From here on the thread lock of t is
\* the lock of the chain, which t holds.
Block(t) ==
    /\ pc[t] = "block" /\ spin[t] = NULL
    /\ LET l == Wanted(t) IN
       /\ IF active[l] = NULL
          THEN active' = [active EXCEPT ![l] = t_ts[t]] /\ UNCHANGED <<t_ts, ts>>
          ELSE /\ ts' = [ts EXCEPT ![active[l]].free = @ \cup {t_ts[t]}]
               /\ t_ts' = [t_ts EXCEPT ![t] = active[l]]
               /\ UNCHANGED active
       /\ wchan' = [wchan EXCEPT ![t] = l]
       /\ lockp' = [lockp EXCEPT ![t] = Hash[l]]
    /\ cur' = [cur EXCEPT ![t] = t]
    /\ Goto(t, "walk")
    /\ UNCHANGED <<owner, locks, epri, at, own, olp, loser>>

OwnerOf(t) == IF wchan[t] = NULL THEN NULL ELSE owner[wchan[t]]

Follow(t) ==
    /\ pc[t] = "walk" /\ OwnerOf(cur[t]) # NULL
    /\ own' = [own EXCEPT ![t] = OwnerOf(cur[t])]
    /\ Goto(t, IF OwnerOf(cur[t]) = t THEN "panic" ELSE "interlock")
    /\ UNCHANGED <<owner, locks, sleep, pivars, at, cur, olp, loser>>

\* The end of the chain: its last thread's lock is dropped, and t switches.
ChainEnd(t) ==
    /\ pc[t] = "walk" /\ OwnerOf(cur[t]) = NULL
    /\ spin' = [spin EXCEPT ![lockp[cur[t]]] = NULL]
    /\ loser_lock' = IF loser[t] THEN NULL ELSE loser_lock
    /\ loser' = [loser EXCEPT ![t] = FALSE]
    /\ cur' = [cur EXCEPT ![t] = NULL]
    /\ Goto(t, "swtch")
    /\ UNCHANGED <<owner, sleep, pivars, at, own, olp>>

\* swtch() does not return before t is woken: with the lock if it was handed
\* over, else to try again.
Swtch(t) ==
    /\ pc[t] = "swtch" /\ wchan[t] = NULL
    /\ at' = [at EXCEPT ![t] = IF owner[Wanted(t)] = t THEN @ + 1 ELSE @]
    /\ Goto(t, "run")
    /\ UNCHANGED <<owner, locks, sleep, pivars, walk>>

\* turnstile_interlock(cur->t_lockp, &own->t_lockp).

Read(t) == /\ pc[t] = "interlock"
           /\ olp' = [olp EXCEPT ![t] = lockp[own[t]]]
           /\ Goto(t, "try")
           /\ UNCHANGED <<owner, locks, sleep, pivars, at, cur, own, loser>>

\* Mutant: there is no lock order, everybody spins.
NeverOutOfOrder(t) == FALSE

OutOfOrder(t) == olp[t] \in Chain /\ olp[t] < lockp[cur[t]]

Try(t) ==
    /\ pc[t] = "try"
    /\ \/ olp[t] = lockp[cur[t]] /\ Goto(t, "inherit") /\ UNCHANGED spin
       \/ /\ olp[t] # lockp[cur[t]] /\ spin[olp[t]] = NULL
          /\ spin' = [spin EXCEPT ![olp[t]] = t] /\ Goto(t, "check")
       \/ /\ olp[t] # lockp[cur[t]] /\ spin[olp[t]] # NULL /\ OutOfOrder(t)
          /\ spin' = [spin EXCEPT ![lockp[cur[t]]] = NULL] /\ Goto(t, "lost")
       \/ /\ olp[t] # lockp[cur[t]] /\ spin[olp[t]] # NULL /\ ~OutOfOrder(t)
          /\ Goto(t, "spin") /\ UNCHANGED spin
    /\ UNCHANGED <<owner, loser_lock, sleep, pivars, at, walk>>

\* Is it still the owner's lock?
Check(t) ==
    /\ pc[t] = "check"
    /\ IF olp[t] = lockp[own[t]] THEN Goto(t, "inherit") /\ UNCHANGED spin
       ELSE Goto(t, "interlock") /\ spin' = [spin EXCEPT ![olp[t]] = NULL]
    /\ UNCHANGED <<owner, loser_lock, sleep, pivars, at, walk>>

Spin(t) == /\ pc[t] = "spin" /\ (olp[t] # lockp[own[t]] \/ spin[olp[t]] = NULL)
           /\ Goto(t, "interlock")
           /\ UNCHANGED <<owner, locks, sleep, pivars, at, walk>>

\* Mutant: after losing, the rest of the chain is left as it is.
LostGivesUp(t) == /\ pc[t] = "lost" /\ spin[olp[t]] = NULL
                  /\ loser_lock' = IF loser[t] THEN NULL ELSE loser_lock
                  /\ loser' = [loser EXCEPT ![t] = FALSE]
                  /\ cur' = [cur EXCEPT ![t] = NULL]
                  /\ Goto(t, "swtch")
                  /\ UNCHANGED <<owner, spin, sleep, pivars, at, own, olp>>

\* The owner's lock is set and cleared, that is waited for.
Lost(t) == /\ pc[t] = "lost" /\ spin[olp[t]] = NULL
           /\ Goto(t, IF loser[t] THEN "relock" ELSE "serialize")
           /\ UNCHANGED <<owner, locks, sleep, pivars, at, walk>>

Serialize(t) == /\ pc[t] = "serialize" /\ loser_lock = NULL
                /\ loser_lock' = t
                /\ loser' = [loser EXCEPT ![t] = TRUE]
                /\ Goto(t, "relock")
                /\ UNCHANGED <<owner, spin, sleep, pivars, at, cur, own, olp>>

\* Again from the beginning of the chain, with whatever t's lock is now.
Relock(t) == /\ pc[t] = "relock" /\ spin[lockp[t]] = NULL
             /\ spin' = [spin EXCEPT ![lockp[t]] = t]
             /\ cur' = [cur EXCEPT ![t] = t]
             /\ Goto(t, "walk")
             /\ UNCHANGED <<owner, loser_lock, sleep, pivars, at, own, olp, loser>>

\* turnstile_pi_inherit(x, o, p), as the new values of ts and of epri.

InheritTs(tss, x, o, p) ==
    IF p <= Pri[o] THEN tss
    ELSE [tss EXCEPT ![x] = [free |-> @.free, inheritor |-> o,
                             epri |-> IF @.inheritor = NULL THEN p ELSE Max({@.epri, p})]]
InheritPri(pris, o, p) ==
    IF p > Max({Pri[o], pris[o]}) THEN [pris EXCEPT ![o] = p] ELSE pris

\* Both locks are held.
Inherit(t) ==
    /\ pc[t] = "inherit"
    /\ ts' = InheritTs(ts, t_ts[cur[t]], own[t], DISP_PRIO(cur[t]))
    /\ epri' = InheritPri(epri, own[t], DISP_PRIO(cur[t]))
    /\ spin' = IF lockp[cur[t]] # lockp[own[t]]
               THEN [spin EXCEPT ![lockp[cur[t]]] = NULL] ELSE spin
    /\ cur' = [cur EXCEPT ![t] = own[t]]
    /\ Goto(t, "walk")
    /\ UNCHANGED <<owner, loser_lock, sleep, at, own, olp, loser>>

turnstile_block(t) == \/ Block(t) \/ Follow(t) \/ ChainEnd(t) \/ Swtch(t) \/ Read(t)
                      \/ Try(t) \/ Check(t) \/ Spin(t) \/ Lost(t) \/ Serialize(t)
                      \/ Relock(t) \/ Inherit(t)

----------------------------------------------------------------------------
\* turnstile_wakeup, for the lock olp[t] that t exits.

\* Mutant: everything inherited is given up, not only what came from x.
WaiveAll(t, x) == IF ts[x].inheritor # NULL THEN [epri EXCEPT ![t] = 0] ELSE epri

\* turnstile_pi_waive, if t inherits from x: what is left to inherit.
Waived(t, x) == LET left == Max({0} \cup {ts[y].epri : y \in t_prioinv(t) \ {x}})
                IN IF ts[x].inheritor # NULL /\ left # DISP_PRIO(t)
                   THEN [epri EXCEPT ![t] = left] ELSE epri

\* turnstile_dequeue of the threads W: each takes a turnstile off the freelist,
\* the last sleeper the one that was active.
Dequeue(t, l, W, tss, pris) ==
    LET x == active[l]
        last == W = Sleepers(l)
    IN /\ \E f \in [W -> ts[x].free \cup (IF last THEN {x} ELSE {})] :
            /\ \A a, b \in W : a # b => f[a] # f[b]
            /\ t_ts' = [y \in Thread |-> IF y \in W THEN f[y] ELSE t_ts[y]]
            /\ ts' = [tss EXCEPT ![x].free = @ \ {f[y] : y \in W}]
       /\ active' = [active EXCEPT ![l] = IF last THEN NULL ELSE x]
       /\ wchan' = [y \in Thread |-> IF y \in W THEN NULL ELSE wchan[y]]
       /\ lockp' = [y \in Thread |-> IF y \in W THEN y ELSE lockp[y]]
       /\ epri' = pris
       /\ spin' = [spin EXCEPT ![Hash[l]] = NULL]
       /\ olp' = [olp EXCEPT ![t] = NULL]
       /\ Goto(t, "run")
       /\ UNCHANGED <<loser_lock, at, cur, own, loser>>

Released(x) == [ts EXCEPT ![x].inheritor = NULL]

\* mutex_vector_exit wakes all.
WakeAll(t) ==
    /\ pc[t] = "wakeup" /\ olp[t] \notin Handoff
    /\ LET l == olp[t] IN
       /\ \A y \in Sleepers(l) \cup {t} : spin[y] = NULL
       /\ owner' = [owner EXCEPT ![l] = NULL]
       /\ Dequeue(t, l, Sleepers(l), Released(active[l]), Waived(t, active[l]))

\* rw_exit_wakeup hands the lock to the first waiter, which inherits from the
\* threads that still wait.
HandOver(t) ==
    /\ pc[t] = "wakeup" /\ olp[t] \in Handoff
    /\ LET l == olp[t]
           x == active[l]
       IN \E n \in Sleepers(l) :
          LET rest == Max({0} \cup {DISP_PRIO(y) : y \in Sleepers(l) \ {n}}) IN
          /\ rest <= DISP_PRIO(n)
          /\ spin[t] = NULL /\ spin[n] = NULL
          /\ owner' = [owner EXCEPT ![l] = n]
          /\ Dequeue(t, l, {n}, InheritTs(Released(x), x, n, rest),
                     InheritPri(Waived(t, x), n, rest))

----------------------------------------------------------------------------
Step(t) == \/ Enter(t) \/ Contend(t) \/ turnstile_lookup(t) \/ turnstile_block(t)
           \/ WakeAll(t) \/ HandOver(t)
           \/ \E l \in Lock : Exit(t, l) \/ ExitLookup(t, l)

Next == \E t \in Thread : Step(t)

Spec == Init /\ [][Next]_vars
FairSpec == Spec /\ \A t \in Thread : WF_vars(Step(t))

----------------------------------------------------------------------------
(* Properties *)

PC == {"run", "lookup", "block", "walk", "interlock", "try", "check", "spin", "lost",
       "serialize", "relock", "inherit", "swtch", "wakeup"}

\* Nobody gets to the panic for a cycle: the chain is read while locks change
\* hands, and a cycle that is not there is never seen.  Turnstiles are neither
\* lost nor shared: each is attached to one thread that does not sleep, or on one
\* hash chain, or on one freelist, and a lock with sleepers has just enough of
\* them to give each sleeper one when it is woken.
TypeOK ==
    /\ pc \in [Thread -> PC]
    /\ \A l \in Lock :
         IF active[l] = NULL THEN Sleepers(l) = {}
         ELSE /\ Cardinality(Sleepers(l)) = Cardinality(ts[active[l]].free) + 1
              /\ \A t \in Sleepers(l) : t_ts[t] = active[l]
    /\ \A x \in Thread : Cardinality({t \in Thread : wchan[t] = NULL /\ t_ts[t] = x})
                         + Cardinality({l \in Lock : active[l] = x})
                         + Cardinality({y \in Thread : x \in ts[y].free}) = 1

\* t is inside turnstile_block and has not come to the end of the chain.
Walking(t) == cur[t] # NULL \/ pc[t] \in {"lost", "serialize", "relock"}

\* Whenever nobody walks a chain, no thread waits for one of lower priority:
\* walks that overtake each other, lose the locks and begin again, or find that
\* owners have changed, have together willed every priority to the chain's end.
Inherited ==
    (\A t \in Thread : ~Walking(t)) =>
      \A t \in Thread : wchan[t] # NULL => DISP_PRIO(t) <= DISP_PRIO(owner[wchan[t]])

\* A thread runs at its own priority or at the highest that it still inherits,
\* and inherits only from turnstiles of locks that it owns: waiving one of
\* several, or handing a lock over, leaves nothing behind and takes nothing away.
BoostJustified ==
    \A t \in Thread :
      /\ DISP_PRIO(t) = Max({Pri[t]} \cup {ts[x].epri : x \in t_prioinv(t)})
      /\ \A x \in t_prioinv(t) : \E l \in Lock : active[l] = x /\ owner[l] = t

\* Every thread gets all its locks and releases them: with thread locks taken
\* against their order there is neither a deadlock nor a livelock of threads
\* that keep losing to each other, and nobody sleeps for good.
Done == \A t \in Thread : at[t] > Len(Script[t]) /\ \A l \in Lock : owner[l] # t
Terminates == <>Done
=============================================================================
