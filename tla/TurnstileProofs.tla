-------------------------- MODULE TurnstileProofs --------------------------
(***************************************************************************)
(* Proofs about Turnstile for any finite sets of threads and locks that    *)
(* are entered in one order.  Control comes first: who holds which thread  *)
(* lock, what a walk along a chain knows, and that the lock order lets it  *)
(* never come back to its first thread.  Then the places of turnstiles,    *)
(* the justification of each boost, and, with chains as reachability, that *)
(* whoever is not satisfied is ahead of a walk.                            *)
(***************************************************************************)
EXTENDS Turnstile, FiniteSetTheorems, WellFoundedInduction, TLAPS

Rank == CHOOSE rank \in [Lock -> 1..Cardinality(Lock)] :
          \A t \in Thread : \A i, j \in 1..Len(Script[t]) :
            i < j => rank[Script[t][i]] < rank[Script[t][j]]

----------------------------------------------------------------------------
(* The invariant *)

\* In turnstile_block, with the lock of cur, and without it.
Walks  == {"walk", "interlock", "try", "check", "spin", "inherit"}
Losing == {"lost", "serialize", "relock"}

Tsrec == [free : SUBSET Thread, inheritor : Thread \cup {NULL}, epri : Nat]

Typ ==
    /\ owner \in [Lock -> Thread \cup {NULL}] /\ active \in [Lock -> Thread \cup {NULL}]
    /\ spin \in [Chain \cup Thread -> Thread \cup {NULL}]
    /\ lockp \in [Thread -> Chain \cup Thread] /\ wchan \in [Thread -> Lock \cup {NULL}]
    /\ epri \in [Thread -> Nat] /\ t_ts \in [Thread -> Thread] /\ ts \in [Thread -> Tsrec]
    /\ pc \in [Thread -> PC] /\ at \in [Thread -> Nat \ {0}]
    /\ cur \in [Thread -> Thread \cup {NULL}] /\ own \in [Thread -> Thread \cup {NULL}]
    /\ olp \in [Thread -> Chain \cup Thread \cup Lock \cup {NULL}]

\* The thread lock of a sleeping thread is that of the chain.
LockpOK == \A y \in Thread : lockp[y] = IF wchan[y] = NULL THEN y ELSE Hash[wchan[y]]

\* A thread that has not come to the end of its script wants a lock.
AtOK == \A t \in Thread : pc[t] \notin {"run", "wakeup"} => at[t] <= Len(Script[t])

\* A thread sleeps on the lock it wants, which is owned and has a turnstile.
SleepOK == \A y \in Thread : wchan[y] # NULL =>
    /\ pc[y] \in Walks \cup Losing \cup {"swtch"} /\ wchan[y] = Wanted(y)
    /\ owner[wchan[y]] # NULL /\ active[wchan[y]] # NULL /\ t_ts[y] = active[wchan[y]]

\* A thread owns locks that it has entered, and one that it was given.
OwnOK == \A l \in Lock, t \in Thread : owner[l] = t =>
    \/ \E i \in 1..Len(Script[t]) : i < at[t] /\ Script[t][i] = l
    \/ /\ pc[t] \in Walks \cup Losing \cup {"swtch"} /\ wchan[t] = NULL /\ l = Wanted(t)

\* What a thread at each point of its code holds and knows.
BlockAt(t) == pc[t] = "block" => spin[Hash[Wanted(t)]] = t /\ owner[Wanted(t)] # NULL

WakeupAt(t) == pc[t] = "wakeup" =>
    /\ olp[t] \in Lock /\ spin[Hash[olp[t]]] = t /\ owner[olp[t]] = t /\ active[olp[t]] # NULL

WalkAt(t) ==
    /\ cur[t] # NULL <=> pc[t] \in Walks \cup Losing
    /\ pc[t] \in Walks => spin[lockp[cur[t]]] = t
    /\ pc[t] \in Walks \ {"walk"} =>
         /\ own[t] # NULL /\ wchan[cur[t]] # NULL /\ owner[wchan[cur[t]]] = own[t]
    /\ pc[t] \in {"try", "check", "spin", "lost"} => olp[t] \in Chain \cup Thread
    /\ pc[t] = "try" /\ olp[t] = lockp[cur[t]] => lockp[own[t]] = olp[t]
    /\ pc[t] = "check" => spin[olp[t]] = t /\ olp[t] # lockp[cur[t]]
    /\ pc[t] = "inherit" => spin[lockp[own[t]]] = t

\* A walk goes up the lock order.
RankAt(t) ==
    pc[t] \in Walks /\ cur[t] # t /\ wchan[cur[t]] # NULL => Rank[wchan[cur[t]]] > Rank[Wanted(t)]

PointOK == \A t \in Thread : BlockAt(t) /\ WakeupAt(t) /\ WalkAt(t) /\ RankAt(t)

----------------------------------------------------------------------------
(* Turnstiles *)

Attached(x) == \E t \in Thread : wchan[t] = NULL /\ t_ts[t] = x
Active(x)   == \E l \in Lock : active[l] = x
Freed(x)    == \E y \in Thread : x \in ts[y].free

\* A turnstile is in one place, and only an active one has a freelist.
PlaceOK ==
    /\ \A t, u \in Thread : wchan[t] = NULL /\ wchan[u] = NULL /\ t_ts[t] = t_ts[u] => t = u
    /\ \A l, m \in Lock : active[l] # NULL /\ active[l] = active[m] => l = m
    /\ \A x, y, z \in Thread : x \in ts[y].free /\ x \in ts[z].free => y = z
    /\ \A x \in Thread : Attached(x) \/ Active(x) \/ Freed(x)
    /\ \A x \in Thread : /\ ~(Attached(x) /\ Active(x))
                         /\ ~(Attached(x) /\ Freed(x))
                         /\ ~(Active(x) /\ Freed(x))
    /\ \A x \in Thread : ts[x].free # {} => Active(x)

CountOK == \A l \in Lock :
    active[l] # NULL => Cardinality(Sleepers(l)) = Cardinality(ts[active[l]].free) + 1

----------------------------------------------------------------------------
(* Priorities *)

\* What t inherits it has, and has from a lock it owns.
BoostOK == \A t \in Thread :
    /\ epri[t] <= Pri[t] \/ \E x \in t_prioinv(t) : ts[x].epri = epri[t]
    /\ \A x \in t_prioinv(t) : ts[x].epri <= Pri[t] \/ ts[x].epri <= epri[t]
    /\ \A x \in t_prioinv(t) : \E l \in Lock : active[l] = x /\ owner[l] = t

\* The owner of the lock y sleeps on has inherited y's priority.
Satisfied(y) == LET o == owner[wchan[y]]
                    x == active[wchan[y]]
                IN DISP_PRIO(y) <= Pri[o] \/ (ts[x].inheritor = o /\ DISP_PRIO(y) <= ts[x].epri)

\* b comes after a in the chain of waiters and owners, or is a.
Closed(S) == \A y \in S : y \in Thread /\ wchan[y] # NULL => owner[wchan[y]] \in S
Reach(a, b) == \A S \in SUBSET Thread : Closed(S) /\ a \in S => b \in S

Pos(u) == IF pc[u] \in Losing THEN u ELSE cur[u]

\* Whoever is not satisfied is ahead of a walk; a walk can begin again.
CoverOK ==
    /\ \A y \in Thread : wchan[y] # NULL /\ ~Satisfied(y) =>
         \E u \in Thread : pc[u] \in Walks \cup Losing /\ Reach(Pos(u), y)
    /\ \A u \in Thread : pc[u] \in Walks /\ wchan[cur[u]] # NULL => Reach(u, cur[u])

\* Control.
Ctl == Typ /\ LockpOK /\ AtOK /\ SleepOK /\ OwnOK /\ PointOK

Inv == Ctl /\ PlaceOK /\ CountOK /\ BoostOK /\ CoverOK

----------------------------------------------------------------------------
(* Constants *)

\* There is an order of the locks that the scripts follow.
LEMMA RankFacts ==
  /\ Rank \in [Lock -> Nat]
  /\ \A t \in Thread : \A i, j \in 1..Len(Script[t]) :
       i < j => Rank[Script[t][i]] < Rank[Script[t][j]]
<1>1. Cardinality(Lock) \in Nat
  BY TurnstileAssumption, FS_CardinalityType
<1>2. /\ Rank \in [Lock -> 1..Cardinality(Lock)]
      /\ \A t \in Thread : \A i, j \in 1..Len(Script[t]) :
           i < j => Rank[Script[t][i]] < Rank[Script[t][j]]
  BY LockOrder, Zenon DEF Rank
<1>3. 1..Cardinality(Lock) \subseteq Nat
  BY <1>1
<1>4. Rank \in [Lock -> Nat]
  BY <1>2, <1>3
<1> QED
  BY <1>2, <1>4

\* The constants, as the provers need them.
LEMMA Consts ==
  /\ NULL \notin Thread /\ NULL \notin Lock /\ Thread \cap Chain = {}
  /\ Hash \in [Lock -> Chain] /\ Pri \in [Thread -> Nat]
  /\ \A t \in Thread : Script[t] \in Seq(Lock) /\ Len(Script[t]) \in Nat
  /\ \A t \in Thread : \A i \in 1..Len(Script[t]) : Script[t][i] \in Lock
<1>1. \A t \in Thread : Script[t] \in Seq(Lock)
  BY TurnstileAssumption
<1> QED
  BY <1>1, TurnstileAssumption

\* A thread that is not done wants a lock.
LEMMA WantedLock ==
  ASSUME Typ, NEW t \in Thread, at[t] <= Len(Script[t])
  PROVE  Wanted(t) \in Lock
  BY Consts DEF Typ, Wanted

----------------------------------------------------------------------------
(* Control *)

\* Nobody holds, wants or waits for anything.
LEMMA InitCtl == Init => Ctl
<1> SUFFICES ASSUME Init PROVE Ctl
  OBVIOUS
<1>1. Typ
  BY Consts DEF Init, Typ, PC, Tsrec
<1>2. LockpOK /\ AtOK /\ SleepOK /\ PointOK
  BY Consts DEF Init, LockpOK, AtOK, SleepOK, PointOK, BlockAt, WakeupAt, WalkAt, RankAt, Walks, Losing
<1>3. OwnOK
  BY Consts DEF Init, OwnOK
<1> QED
  BY <1>1, <1>2, <1>3 DEF Ctl

\* Entering a free lock.
LEMMA EnterCtl ==
  ASSUME Ctl, NEW t \in Thread, Enter(t)
  PROVE  Ctl'
<1>1. Typ /\ LockpOK /\ AtOK /\ SleepOK /\ OwnOK /\ PointOK
  BY DEF Ctl
<1> DEFINE l == Wanted(t)
<1>2. /\ pc[t] = "run" /\ at[t] <= Len(Script[t]) /\ owner[l] = NULL
      /\ owner' = [owner EXCEPT ![l] = t] /\ at' = [at EXCEPT ![t] = @ + 1]
      /\ UNCHANGED <<locks, sleep, pivars, pc, walk>>
  BY DEF Enter
<1>3. l \in Lock /\ l = Script[t][at[t]]
  BY <1>1, <1>2, WantedLock DEF Wanted
<1> HIDE DEF l
<1>4. Typ'
  BY <1>1, <1>2, <1>3 DEF Typ, locks, sleep, pivars, walk
<1>5. \A u \in Thread : u # t => Wanted(u)' = Wanted(u)
  BY <1>1, <1>2 DEF Typ, Wanted
<1>6. LockpOK' /\ AtOK'
  BY <1>1, <1>2 DEF Typ, LockpOK, AtOK, locks, sleep, pivars, walk
<1>7. SleepOK'
  <2>1. \A u \in Thread : pc[u] # "run" => Script[u][at'[u]] = Script[u][at[u]]
    BY <1>1, <1>2 DEF Typ
  <2>2. \A m \in Lock : owner[m] # NULL => owner'[m] = owner[m]
    BY <1>1, <1>2, <1>3 DEF Typ
  <2> SUFFICES ASSUME NEW y \in Thread, wchan[y] # NULL
               PROVE  /\ pc[y] \in Walks \cup Losing \cup {"swtch"} /\ wchan[y] = Script[y][at'[y]]
                      /\ owner'[wchan[y]] # NULL /\ active[wchan[y]] # NULL
                      /\ t_ts[y] = active[wchan[y]]
    BY <1>2 DEF SleepOK, Wanted, sleep
  <2>3. /\ pc[y] \in Walks \cup Losing \cup {"swtch"} /\ wchan[y] = Script[y][at[y]]
        /\ owner[wchan[y]] # NULL /\ active[wchan[y]] # NULL /\ t_ts[y] = active[wchan[y]]
        /\ wchan[y] \in Lock
    BY <1>1 DEF SleepOK, Wanted, Typ
  <2>4. pc[y] # "run"
    BY <2>3 DEF Walks, Losing
  <2> QED
    BY <2>1, <2>2, <2>3, <2>4
<1>8. OwnOK'
  <2> SUFFICES ASSUME NEW m \in Lock, NEW u \in Thread, owner'[m] = u
               PROVE  \/ \E i \in 1..Len(Script[u]) : i < at'[u] /\ Script[u][i] = m
                      \/ /\ pc'[u] \in Walks \cup Losing \cup {"swtch"} /\ wchan'[u] = NULL
                         /\ m = Wanted(u)'
    BY DEF OwnOK
  <2>1. CASE m = l /\ u = t
    <3>1. at[t] \in 1..Len(Script[t]) /\ at'[t] = at[t] + 1 /\ at[t] < at'[t]
      BY <1>1, <1>2, Consts DEF Typ
    <3> QED
      BY <1>3, <2>1, <3>1
  <2>2. CASE ~(m = l /\ u = t)
    <3>1. owner[m] = u
      BY <1>1, <1>2, <1>3, <2>2 DEF Typ
    <3>2. u = t => pc[u] \notin Walks \cup Losing \cup {"swtch"}
      BY <1>2 DEF Walks, Losing
    <3> QED
      <4>1. at'[u] >= at[u] /\ at'[u] \in Nat /\ at[u] \in Nat
        BY <1>1, <1>2 DEF Typ
      <4>2. \/ \E i \in 1..Len(Script[u]) : i < at[u] /\ Script[u][i] = m
            \/ /\ pc[u] \in Walks \cup Losing \cup {"swtch"} /\ wchan[u] = NULL
               /\ m = Script[u][at[u]]
        BY <1>1, <3>1 DEF OwnOK, Wanted
      <4>3. pc[u] \in Walks \cup Losing \cup {"swtch"} => at'[u] = at[u]
        BY <1>1, <1>2, <3>2 DEF Typ
      <4> QED
        BY <1>2, <4>1, <4>2, <4>3, Consts DEF Wanted, sleep
  <2> QED
    BY <2>1, <2>2
<1>9. PointOK'
  <2>1. \A u \in Thread : pc[u] # "run" => Script[u][at'[u]] = Script[u][at[u]]
    BY <1>1, <1>2 DEF Typ
  <2>2. \A m \in Lock : owner[m] # NULL => owner'[m] = owner[m]
    BY <1>1, <1>2, <1>3 DEF Typ
  <2>3. \A u \in Thread : pc[u] = "block" => Script[u][at[u]] \in Lock
    BY <1>1, WantedLock DEF AtOK, Wanted
  <2> SUFFICES ASSUME NEW u \in Thread
               PROVE  BlockAt(u)' /\ WakeupAt(u)' /\ WalkAt(u)' /\ RankAt(u)'
    BY DEF PointOK
  <2>4. BlockAt(u) /\ WakeupAt(u) /\ WalkAt(u) /\ RankAt(u)
    BY <1>1 DEF PointOK
  <2>5. BlockAt(u)'
    BY <1>2, <2>1, <2>2, <2>3, <2>4 DEF BlockAt, Wanted, locks
  <2>6. WakeupAt(u)'
    BY <1>2, <2>2, <2>4, Consts DEF WakeupAt, locks, sleep, walk
  <2>7. WalkAt(u)'
    BY <1>1, <1>2, <2>2, <2>4, Consts DEF Typ, WalkAt, locks, sleep, walk, Walks, Losing
  <2>8. RankAt(u)'
    BY <1>2, <2>1, <2>4 DEF RankAt, Wanted, locks, sleep, walk, Walks
  <2> QED
    BY <2>5, <2>6, <2>7, <2>8
<1> QED
  BY <1>4, <1>6, <1>7, <1>8, <1>9 DEF Ctl

\* Where a thread is from its sleep on until it runs again.
Steps == {"walk", "interlock", "try", "check", "spin", "inherit", "lost", "serialize", "relock", "swtch"}

\* A step of t that leaves locks and sleepers alone, and takes no thread lock
\* away from others, need only be looked at for t.
LEMMA StepCtl ==
  ASSUME Ctl, NEW t \in Thread, UNCHANGED <<owner, sleep, at>>,
         Typ', \A u \in Thread : u # t => /\ pc'[u] = pc[u] /\ cur'[u] = cur[u]
                                         /\ own'[u] = own[u] /\ olp'[u] = olp[u],
         \A z \in Chain \cup Thread : spin[z] \in Thread \ {t} => spin'[z] = spin[z],
         pc'[t] \notin {"run", "wakeup"} => at[t] <= Len(Script[t]),
         pc[t] \in Steps => pc'[t] \in Steps,
         BlockAt(t)', WakeupAt(t)', WalkAt(t)', RankAt(t)'
  PROVE  Ctl'
<1>1. Typ /\ LockpOK /\ AtOK /\ SleepOK /\ OwnOK /\ PointOK
  BY DEF Ctl
<1>2. LockpOK' /\ AtOK'
  BY <1>1 DEF LockpOK, AtOK, sleep
<1>3. Steps = Walks \cup Losing \cup {"swtch"}
  BY DEF Steps, Walks, Losing
<1>4. SleepOK' /\ OwnOK'
  BY <1>1, <1>3 DEF SleepOK, OwnOK, Wanted, sleep
<1>5. PointOK'
  <2> SUFFICES ASSUME NEW u \in Thread, u # t
               PROVE  BlockAt(u)' /\ WakeupAt(u)' /\ WalkAt(u)' /\ RankAt(u)'
    BY DEF PointOK
  <2>1. BlockAt(u) /\ WakeupAt(u) /\ WalkAt(u) /\ RankAt(u)
    BY <1>1 DEF PointOK
  <2>2. pc[u] = "block" => Wanted(u) \in Lock /\ Hash[Wanted(u)] \in Chain
    BY <1>1, WantedLock, Consts DEF AtOK
  <2>3. BlockAt(u)'
    BY <2>1, <2>2 DEF BlockAt, Wanted
  <2>4. WakeupAt(u)'
    BY <2>1, Consts DEF WakeupAt, sleep
  <2>5. WalkAt(u)'
    <3>1. /\ cur[u] # NULL => cur[u] \in Thread /\ lockp[cur[u]] \in Chain \cup Thread
          /\ own[u] # NULL => own[u] \in Thread /\ lockp[own[u]] \in Chain \cup Thread
      BY <1>1 DEF Typ
    <3>2. /\ pc[u] \in Walks => spin[lockp[cur[u]]] = u /\ cur[u] # NULL
          /\ pc[u] = "check" => spin[olp[u]] = u /\ olp[u] \in Chain \cup Thread
          /\ pc[u] = "inherit" => spin[lockp[own[u]]] = u /\ own[u] # NULL
      BY <2>1 DEF WalkAt, Walks
    <3>3. /\ pc[u] \in Walks => spin'[lockp[cur[u]]] = u
          /\ pc[u] = "check" => spin'[olp[u]] = u
          /\ pc[u] = "inherit" => spin'[lockp[own[u]]] = u
      BY <3>1, <3>2
    <3> QED
      BY <2>1, <3>3 DEF WalkAt, sleep
  <2>6. RankAt(u)'
    BY <2>1 DEF RankAt, Wanted, sleep
  <2> QED
    BY <2>3, <2>4, <2>5, <2>6
<1> QED
  BY <1>1, <1>2, <1>4, <1>5 DEF Ctl

\* The steps outside turnstile_block that only move on or take a thread lock.
LEMMA LookupCtl ==
  ASSUME Ctl, NEW t \in Thread, Contend(t) \/ turnstile_lookup(t) \/ \E l \in Lock : ExitLookup(t, l)
  PROVE  Ctl'
<1>1. Typ /\ LockpOK /\ AtOK /\ SleepOK /\ OwnOK /\ PointOK
  BY DEF Ctl
<1>2. BlockAt(t) /\ WakeupAt(t) /\ WalkAt(t) /\ RankAt(t)
  BY <1>1 DEF PointOK
<1>3. CASE Contend(t)
  <2>1. /\ pc[t] = "run" /\ at[t] <= Len(Script[t]) /\ pc' = [pc EXCEPT ![t] = "lookup"]
        /\ UNCHANGED <<owner, locks, sleep, pivars, at, walk>>
    BY <1>3 DEF Contend, Goto
  <2>2. Typ'
    BY <1>1, <2>1 DEF Typ, PC, locks, sleep, pivars, walk
  <2>3. pc'[t] = "lookup" /\ \A u \in Thread : u # t => pc'[u] = pc[u]
    BY <1>1, <2>1 DEF Typ
  <2>4. BlockAt(t)' /\ WakeupAt(t)' /\ WalkAt(t)' /\ RankAt(t)'
    BY <1>2, <2>1, <2>3 DEF BlockAt, WakeupAt, WalkAt, RankAt, Walks, Losing, walk
  <2>5. pc[t] \notin Steps
    BY <2>1 DEF Steps
  <2> QED
    BY <2>1, <2>2, <2>3, <2>4, <2>5, StepCtl DEF locks, walk
<1>4. CASE turnstile_lookup(t)
  <2>1. /\ pc[t] = "lookup" /\ spin[Hash[Wanted(t)]] = NULL
        /\ \/ owner[Wanted(t)] = NULL /\ pc' = [pc EXCEPT ![t] = "run"] /\ UNCHANGED spin
           \/ /\ owner[Wanted(t)] # NULL /\ pc' = [pc EXCEPT ![t] = "block"]
              /\ spin' = [spin EXCEPT ![Hash[Wanted(t)]] = t]
        /\ UNCHANGED <<owner, loser_lock, sleep, pivars, at, walk>>
    BY <1>4 DEF turnstile_lookup, Goto
  <2>2. at[t] <= Len(Script[t]) /\ Wanted(t) \in Lock /\ Hash[Wanted(t)] \in Chain /\ Wanted(t)' = Wanted(t)
    BY <1>1, <2>1, WantedLock, Consts DEF AtOK, Wanted
  <2>3. Typ'
    <3>1. spin' \in [Chain \cup Thread -> Thread \cup {NULL}]
      <4>1. PICK h \in Chain : h = Hash[Wanted(t)]
        BY <2>2
      <4>2. spin' = spin \/ spin' = [spin EXCEPT ![h] = t]
        BY <2>1, <4>1
      <4> QED
        BY <1>1, <4>2 DEF Typ
    <3>2. pc' \in [Thread -> PC]
      BY <1>1, <2>1 DEF Typ, PC
    <3> QED
      BY <1>1, <2>1, <3>1, <3>2 DEF Typ, sleep, pivars, walk
  <2>4. pc'[t] \in {"run", "block"} /\ \A u \in Thread : u # t => pc'[u] = pc[u]
    BY <1>1, <2>1 DEF Typ
  <2>5. \A z \in Chain \cup Thread : spin[z] \in Thread \ {t} => spin'[z] = spin[z]
    BY <1>1, <2>1, <2>2, Consts DEF Typ
  <2>6. BlockAt(t)'
    BY <1>1, <2>1, <2>2 DEF Typ, BlockAt
  <2>7. WakeupAt(t)' /\ WalkAt(t)' /\ RankAt(t)'
    BY <1>2, <2>1, <2>4 DEF WakeupAt, WalkAt, RankAt, Walks, Losing, walk
  <2>8. pc[t] \notin Steps
    BY <2>1 DEF Steps
  <2> QED
    BY <2>1, <2>2, <2>3, <2>4, <2>5, <2>6, <2>7, <2>8, StepCtl DEF walk
<1>5. ASSUME NEW l \in Lock, ExitLookup(t, l) PROVE Ctl'
  <2>1. /\ pc[t] = "run" /\ owner[l] = t /\ HasWaiters(l) /\ spin[Hash[l]] = NULL
        /\ spin' = [spin EXCEPT ![Hash[l]] = t] /\ olp' = [olp EXCEPT ![t] = l]
        /\ pc' = [pc EXCEPT ![t] = "wakeup"]
        /\ UNCHANGED <<owner, loser_lock, sleep, pivars, at, cur, own, loser>>
    BY <1>5 DEF ExitLookup, Goto
  <2>2. Typ'
    BY <1>1, <2>1, Consts DEF Typ, PC, sleep, pivars
  <2>3. pc'[t] = "wakeup" /\ \A u \in Thread : u # t => pc'[u] = pc[u] /\ olp'[u] = olp[u]
    BY <1>1, <2>1 DEF Typ
  <2>4. Hash[l] \in Chain /\ \A z \in Chain \cup Thread : spin[z] \in Thread \ {t} => spin'[z] = spin[z]
    BY <1>1, <2>1, Consts DEF Typ
  <2>5. active[l] # NULL
    BY <1>1, <2>1, Consts DEF HasWaiters, PointOK, BlockAt
  <2>6. WakeupAt(t)'
    BY <1>1, <2>1, <2>4, <2>5 DEF Typ, WakeupAt, sleep
  <2>7. BlockAt(t)' /\ WalkAt(t)' /\ RankAt(t)'
    BY <1>2, <2>1, <2>3 DEF BlockAt, WalkAt, RankAt, Walks, Losing
  <2>8. pc[t] \notin Steps
    BY <2>1 DEF Steps
  <2> QED
    BY <2>1, <2>2, <2>3, <2>4, <2>6, <2>7, <2>8, StepCtl
<1> QED
  BY <1>3, <1>4, <1>5

\* The steps of a walk that leave cur and the thread locks alone.
LEMMA QuietCtl ==
  ASSUME Ctl, NEW t \in Thread, Follow(t) \/ Read(t) \/ Spin(t) \/ Lost(t) \/ Serialize(t),
         pc'[t] # "panic"
  PROVE  Ctl'
<1>1. Typ /\ LockpOK /\ AtOK /\ SleepOK /\ OwnOK /\ PointOK
  BY DEF Ctl
<1>2. BlockAt(t) /\ WakeupAt(t) /\ WalkAt(t) /\ RankAt(t)
  BY <1>1 DEF PointOK
<1>3. /\ pc[t] \in {"walk", "interlock", "spin", "lost", "serialize"}
      /\ UNCHANGED <<owner, spin, sleep, pivars, at, cur>>
      /\ \E p \in PC \cup {"panic"} : pc' = [pc EXCEPT ![t] = p]
      /\ own' = own \/ (pc[t] = "walk" /\ own' = [own EXCEPT ![t] = OwnerOf(cur[t])])
      /\ olp' = olp \/ (pc[t] = "interlock" /\ olp' = [olp EXCEPT ![t] = lockp[own[t]]])
  BY DEF Follow, Read, Spin, Lost, Serialize, Goto, locks, walk, PC
<1>4. /\ pc[t] = "interlock" => lockp[own[t]] \in Chain \cup Thread
      /\ pc[t] = "walk" => OwnerOf(cur[t]) \in Thread \cup {NULL}
  BY <1>1, <1>2 DEF Typ, WalkAt, Walks, OwnerOf
<1>5. Typ'
  <2>1. own' \in [Thread -> Thread \cup {NULL}]
    BY <1>1, <1>3, <1>4 DEF Typ
  <2>2. olp' \in [Thread -> Chain \cup Thread \cup Lock \cup {NULL}]
    BY <1>1, <1>3, <1>4 DEF Typ
  <2>3. pc' \in [Thread -> PC]
    BY <1>1, <1>3 DEF Typ
  <2> QED
    BY <1>1, <1>3, <2>1, <2>2, <2>3 DEF Typ, sleep, pivars
<1>6. /\ \A u \in Thread : u # t => pc'[u] = pc[u] /\ own'[u] = own[u] /\ olp'[u] = olp[u]
      /\ at[t] <= Len(Script[t])
  BY <1>1, <1>3 DEF Typ, AtOK
<1>7. pc'[t] \in Steps \ {"inherit", "check", "swtch"}
  BY <1>1 DEF Typ, Follow, Read, Spin, Lost, Serialize, Goto, Steps
<1>8. BlockAt(t)' /\ WakeupAt(t)'
  BY <1>7 DEF BlockAt, WakeupAt, Steps
<1>9. RankAt(t)'
  <2>1. pc[t] \in Losing => pc'[t] \notin Walks
    BY <1>1 DEF Typ, Follow, Read, Spin, Lost, Serialize, Goto, Walks, Losing
  <2>2. Wanted(t)' = Wanted(t)
    BY <1>3 DEF Wanted
  <2>3. pc'[t] \in Walks => pc[t] \in Walks
    BY <1>3, <2>1 DEF Walks, Losing
  <2> QED
    BY <1>2, <1>3, <2>2, <2>3 DEF RankAt, sleep
<1>10. WalkAt(t)'
  <2>1. CASE Follow(t)
    BY <1>1, <1>2, <1>3, <2>1 DEF Typ, Follow, Goto, WalkAt, Walks, Losing, OwnerOf, sleep
  <2>2. CASE Read(t)
    BY <1>1, <1>2, <1>3, <1>4, <2>2 DEF Typ, Read, Goto, WalkAt, Walks, Losing, sleep
  <2>3. CASE Spin(t) \/ Lost(t) \/ Serialize(t)
    BY <1>1, <1>2, <1>3, <2>3 DEF Typ, Spin, Lost, Serialize, Goto, WalkAt, Walks, Losing, sleep, walk
  <2> QED
    BY <2>1, <2>2, <2>3
<1> QED
  BY <1>3, <1>5, <1>6, <1>7, <1>8, <1>9, <1>10, StepCtl

\* The lock that a thread sleeps on comes after those it owns.
LEMMA SleeperRank ==
  ASSUME Ctl, NEW y \in Thread, wchan[y] # NULL, NEW l \in Lock, owner[l] = y
  PROVE  /\ wchan[y] \in Lock /\ Rank[l] \in Nat /\ Rank[wchan[y]] \in Nat
         /\ Rank[l] < Rank[wchan[y]]
<1>1. Typ /\ AtOK /\ SleepOK /\ OwnOK
  BY DEF Ctl
<1>2. PICK i \in 1..Len(Script[y]) : i < at[y] /\ Script[y][i] = l
  BY <1>1 DEF OwnOK
<1>3. /\ pc[y] \notin {"run", "wakeup"} /\ wchan[y] = Script[y][at[y]]
  BY <1>1 DEF SleepOK, Wanted, Walks, Losing
<1>4. at[y] \in 1..Len(Script[y])
  BY <1>1, <1>3, Consts DEF Typ, AtOK
<1>5. wchan[y] \in Lock /\ Rank[l] \in Nat /\ Rank[wchan[y]] \in Nat
  BY <1>1, RankFacts DEF Typ
<1> QED
  BY <1>2, <1>3, <1>4, <1>5, RankFacts

\* Nobody owns the lock it sleeps on.
LEMMA NotOwn ==
  ASSUME Ctl, NEW y \in Thread, wchan[y] # NULL
  PROVE  owner[wchan[y]] \in Thread /\ owner[wchan[y]] # y /\ wchan[y] \in Lock
<1>1. wchan[y] \in Lock /\ owner[wchan[y]] \in Thread
  BY DEF Ctl, Typ, SleepOK
<1> QED
  BY <1>1, SleeperRank

\* The lock after which a walk looks does not come before the one wanted.
LEMMA WalkRank ==
  ASSUME Ctl, NEW t \in Thread, pc[t] \in Walks, wchan[cur[t]] # NULL
  PROVE  /\ cur[t] \in Thread /\ wchan[cur[t]] \in Lock
         /\ Rank[wchan[cur[t]]] \in Nat /\ Rank[Wanted(t)] \in Nat
         /\ Rank[wchan[cur[t]]] >= Rank[Wanted(t)]
         /\ cur[t] # t => Rank[wchan[cur[t]]] > Rank[Wanted(t)]
<1>1. Typ /\ AtOK /\ SleepOK /\ PointOK /\ WalkAt(t) /\ RankAt(t)
  BY DEF Ctl, PointOK
<1>2. cur[t] \in Thread /\ wchan[cur[t]] \in Lock
  BY <1>1 DEF Typ, WalkAt
<1>3. Wanted(t) \in Lock
  BY <1>1, WantedLock DEF AtOK, Walks
<1>4. cur[t] = t => wchan[cur[t]] = Wanted(t)
  BY <1>1 DEF SleepOK
<1> QED
  BY <1>1, <1>2, <1>3, <1>4, RankFacts DEF RankAt

\* A walk does not come back to the thread it began with.
LEMMA NoCycle ==
  ASSUME Ctl, NEW t \in Thread, Follow(t)
  PROVE  pc'[t] # "panic" /\ OwnerOf(cur[t]) # t
<1>1. Typ /\ AtOK /\ SleepOK /\ OwnOK /\ PointOK /\ WalkAt(t)
  BY DEF Ctl, PointOK
<1>2. /\ pc[t] = "walk" /\ pc[t] \in Walks
      /\ pc' = [pc EXCEPT ![t] = IF OwnerOf(cur[t]) = t THEN "panic" ELSE "interlock"]
  BY DEF Follow, Goto, Walks
<1>3. ASSUME OwnerOf(cur[t]) = t PROVE FALSE
  <2>1. wchan[cur[t]] # NULL /\ owner[wchan[cur[t]]] = t
    BY <1>3, Consts DEF OwnerOf
  <2>2. /\ cur[t] \in Thread /\ wchan[cur[t]] \in Lock
        /\ Rank[wchan[cur[t]]] \in Nat /\ Rank[Wanted(t)] \in Nat
        /\ Rank[wchan[cur[t]]] >= Rank[Wanted(t)]
        /\ cur[t] # t => Rank[wchan[cur[t]]] > Rank[Wanted(t)]
    BY <1>2, <2>1, WalkRank
  <2>3. cur[t] # t
    BY <2>1, <2>2, NotOwn
  <2>4. wchan[cur[t]] # Wanted(t)
    BY <2>2, <2>3
  <2>5. PICK i \in 1..Len(Script[t]) : i < at[t] /\ Script[t][i] = wchan[cur[t]]
    BY <1>1, <2>1, <2>2, <2>4 DEF OwnOK
  <2>6. at[t] \in 1..Len(Script[t]) /\ Wanted(t) = Script[t][at[t]]
    <3>1. at[t] \in Nat \ {0} /\ at[t] <= Len(Script[t]) /\ Len(Script[t]) \in Nat
      BY <1>1, <1>2, Consts DEF Typ, AtOK
    <3> QED
      BY <3>1 DEF Wanted
  <2>7. Rank[Script[t][i]] < Rank[Script[t][at[t]]]
    BY <2>5, <2>6, RankFacts
  <2> QED
    BY <2>2, <2>5, <2>6, <2>7
<1> QED
  BY <1>1, <1>2, <1>3 DEF Typ

\* The steps of a walk that take and drop thread locks.
LEMMA TryCtl ==
  ASSUME Ctl, NEW t \in Thread, Try(t) \/ Check(t)
  PROVE  Ctl'
<1>1. Typ /\ LockpOK /\ AtOK /\ SleepOK /\ OwnOK /\ PointOK
  BY DEF Ctl
<1>2. BlockAt(t) /\ WakeupAt(t) /\ WalkAt(t) /\ RankAt(t)
  BY <1>1 DEF PointOK
<1> DEFINE c == lockp[cur[t]]
           o == lockp[own[t]]
<1>3. /\ pc[t] \in {"try", "check"} /\ pc[t] \in Walks /\ at[t] <= Len(Script[t])
      /\ cur[t] \in Thread /\ own[t] \in Thread /\ c \in Chain \cup Thread /\ o \in Chain \cup Thread
      /\ olp[t] \in Chain \cup Thread /\ spin[c] = t
      /\ wchan[cur[t]] # NULL /\ owner[wchan[cur[t]]] = own[t]
  BY <1>1, <1>2 DEF Typ, WalkAt, Walks, Try, Check, AtOK
<1>4. UNCHANGED <<owner, sleep, at, pivars, cur, own, olp>>
  BY DEF Try, Check, walk
<1>5. \/ /\ pc[t] = "try" /\ olp[t] = c /\ pc' = [pc EXCEPT ![t] = "inherit"] /\ spin' = spin
      \/ /\ pc[t] = "try" /\ olp[t] # c /\ spin[olp[t]] = NULL
         /\ spin' = [spin EXCEPT ![olp[t]] = t] /\ pc' = [pc EXCEPT ![t] = "check"]
      \/ /\ pc[t] = "try" /\ spin' = [spin EXCEPT ![c] = NULL] /\ pc' = [pc EXCEPT ![t] = "lost"]
      \/ /\ pc[t] = "try" /\ spin' = spin /\ pc' = [pc EXCEPT ![t] = "spin"]
      \/ /\ pc[t] = "check" /\ olp[t] = o /\ spin' = spin /\ pc' = [pc EXCEPT ![t] = "inherit"]
      \/ /\ pc[t] = "check" /\ spin' = [spin EXCEPT ![olp[t]] = NULL]
         /\ pc' = [pc EXCEPT ![t] = "interlock"]
  BY DEF Try, Check, Goto
<1>6. pc[t] = "try" /\ olp[t] = c => o = c
  BY <1>2 DEF WalkAt
<1>7. pc[t] = "check" => spin[olp[t]] = t /\ olp[t] # c
  BY <1>2 DEF WalkAt
<1> HIDE DEF c, o
<1>8. /\ pc' \in [Thread -> PC] /\ spin' \in [Chain \cup Thread -> Thread \cup {NULL}]
      /\ \A u \in Thread : u # t => pc'[u] = pc[u]
      /\ \A z \in Chain \cup Thread : spin[z] \in Thread \ {t} => spin'[z] = spin[z]
  <2>1. pc \in [Thread -> PC] /\ spin \in [Chain \cup Thread -> Thread \cup {NULL}]
    BY <1>1 DEF Typ
  <2>2. pc' \in [Thread -> PC] /\ \A u \in Thread : u # t => pc'[u] = pc[u]
    BY <1>5, <2>1 DEF PC
  <2>3. /\ spin' \in [Chain \cup Thread -> Thread \cup {NULL}]
        /\ \A z \in Chain \cup Thread : spin[z] \in Thread \ {t} => spin'[z] = spin[z]
    <3>1. CASE spin' = spin
      BY <2>1, <3>1
    <3>2. CASE spin[olp[t]] \in {t, NULL} /\ \E v \in {t, NULL} : spin' = [spin EXCEPT ![olp[t]] = v]
      BY <1>3, <2>1, <3>2, Consts
    <3>3. CASE spin' = [spin EXCEPT ![c] = NULL]
      BY <1>3, <2>1, <3>3, Consts
    <3> QED
      BY <1>5, <1>7, <3>1, <3>2, <3>3
  <2> QED
    BY <2>2, <2>3
<1>9. Typ'
  BY <1>1, <1>4, <1>8 DEF Typ, sleep, pivars
<1>10. /\ pc'[t] \in {"inherit", "check", "lost", "spin", "interlock"}
       /\ pc'[t] \in {"inherit", "check", "spin", "interlock"} => spin'[c] = t
       /\ pc'[t] = "check" => spin'[olp[t]] = t /\ olp[t] # c
       /\ pc'[t] = "inherit" => spin'[o] = t
  <2>1. pc \in [Thread -> PC] /\ spin \in [Chain \cup Thread -> Thread \cup {NULL}]
    BY <1>1 DEF Typ
  <2> QED
    BY <1>3, <1>5, <1>6, <1>7, <2>1
<1>11. BlockAt(t)' /\ WakeupAt(t)'
  BY <1>10 DEF BlockAt, WakeupAt
<1>12. RankAt(t)'
  BY <1>2, <1>3, <1>4, <1>10 DEF RankAt, Wanted, sleep
<1>13. WalkAt(t)'
  <2>1. lockp'[cur'[t]] = c /\ lockp'[own'[t]] = o
    BY <1>4 DEF sleep, c, o
  <2> QED
    BY <1>3, <1>4, <1>10, <2>1, Consts DEF WalkAt, Walks, Losing, sleep
<1>14. pc'[t] \in Steps
  BY <1>10 DEF Steps
<1> QED
  BY <1>3, <1>4, <1>8, <1>9, <1>11, <1>12, <1>13, <1>14, StepCtl

\* The beginning and the end of a walk, and the step to the next owner.
LEMMA MoveCtl ==
  ASSUME Ctl, NEW t \in Thread, ChainEnd(t) \/ Relock(t) \/ Inherit(t), Typ'
  PROVE  Ctl'
<1>1. Typ /\ LockpOK /\ AtOK /\ SleepOK /\ OwnOK /\ PointOK
  BY DEF Ctl
<1>2. BlockAt(t) /\ WakeupAt(t) /\ WalkAt(t) /\ RankAt(t)
  BY <1>1 DEF PointOK
<1>3. /\ pc[t] \in {"walk", "relock", "inherit"} /\ at[t] <= Len(Script[t])
      /\ UNCHANGED <<owner, sleep, at, own, olp>>
      /\ cur[t] \in Thread /\ lockp[cur[t]] \in Chain \cup Thread /\ lockp[t] \in Chain \cup Thread
  <2>1. pc[t] \in {"walk", "relock", "inherit"} /\ UNCHANGED <<owner, sleep, at, own, olp>>
    BY DEF ChainEnd, Relock, Inherit
  <2>2. at[t] <= Len(Script[t])
    BY <1>1, <2>1 DEF AtOK
  <2>3. cur[t] \in Thread
    BY <1>1, <1>2, <2>1 DEF Typ, WalkAt, Walks, Losing
  <2> QED
    BY <1>1, <2>1, <2>2, <2>3 DEF Typ
<1>4. CASE ChainEnd(t)
  <2>1. /\ pc[t] = "walk" /\ spin' = [spin EXCEPT ![lockp[cur[t]]] = NULL]
        /\ cur' = [cur EXCEPT ![t] = NULL] /\ pc' = [pc EXCEPT ![t] = "swtch"]
    BY <1>4 DEF ChainEnd, Goto
  <2>2. pc'[t] = "swtch" /\ cur'[t] = NULL /\ \A u \in Thread : u # t => pc'[u] = pc[u] /\ cur'[u] = cur[u]
    BY <1>1, <2>1 DEF Typ
  <2>3. \A z \in Chain \cup Thread : spin[z] \in Thread \ {t} => spin'[z] = spin[z]
    BY <1>1, <1>2, <1>3, <2>1 DEF Typ, WalkAt, Walks
  <2>4. BlockAt(t)' /\ WakeupAt(t)' /\ WalkAt(t)' /\ RankAt(t)'
    BY <2>2 DEF BlockAt, WakeupAt, WalkAt, RankAt, Walks, Losing
  <2>5. pc'[t] \in Steps
    BY <2>2 DEF Steps
  <2> QED
    BY <1>3, <2>2, <2>3, <2>4, <2>5, StepCtl
<1>5. CASE Relock(t)
  <2>1. /\ spin[lockp[t]] = NULL /\ spin' = [spin EXCEPT ![lockp[t]] = t]
        /\ cur' = [cur EXCEPT ![t] = t] /\ pc' = [pc EXCEPT ![t] = "walk"]
    BY <1>5 DEF Relock, Goto
  <2>2. pc'[t] = "walk" /\ cur'[t] = t /\ \A u \in Thread : u # t => pc'[u] = pc[u] /\ cur'[u] = cur[u]
    BY <1>1, <2>1 DEF Typ
  <2>3. /\ \A z \in Chain \cup Thread : spin[z] \in Thread \ {t} => spin'[z] = spin[z]
        /\ spin'[lockp[t]] = t
    BY <1>1, <1>3, <2>1, Consts DEF Typ
  <2>4. BlockAt(t)' /\ WakeupAt(t)' /\ WalkAt(t)' /\ RankAt(t)'
    BY <1>3, <2>2, <2>3, Consts DEF BlockAt, WakeupAt, WalkAt, RankAt, Walks, Losing, sleep
  <2>5. pc'[t] \in Steps
    BY <2>2 DEF Steps
  <2> QED
    BY <1>3, <2>2, <2>3, <2>4, <2>5, StepCtl
<1>6. CASE Inherit(t)
  <2>1. /\ pc[t] = "inherit" /\ pc[t] \in Walks
        /\ spin' = IF lockp[cur[t]] # lockp[own[t]]
                   THEN [spin EXCEPT ![lockp[cur[t]]] = NULL] ELSE spin
        /\ cur' = [cur EXCEPT ![t] = own[t]] /\ pc' = [pc EXCEPT ![t] = "walk"]
    BY <1>6 DEF Inherit, Goto, Walks
  <2>2. pc'[t] = "walk" /\ cur'[t] = own[t] /\ \A u \in Thread : u # t => pc'[u] = pc[u] /\ cur'[u] = cur[u]
    BY <1>1, <2>1 DEF Typ
  <2>3. /\ spin[lockp[cur[t]]] = t /\ spin[lockp[own[t]]] = t /\ own[t] \in Thread
        /\ wchan[cur[t]] # NULL /\ owner[wchan[cur[t]]] = own[t]
    BY <1>1, <1>2, <2>1 DEF Typ, WalkAt
  <2>4. \A z \in Chain \cup Thread : spin[z] \in Thread \ {t} => spin'[z] = spin[z]
    BY <1>1, <1>3, <2>1, <2>3 DEF Typ
  <2>5. spin'[lockp[own[t]]] = t
    BY <1>1, <1>3, <2>1, <2>3 DEF Typ
  <2>6. BlockAt(t)' /\ WakeupAt(t)' /\ WalkAt(t)'
    BY <1>3, <2>2, <2>3, <2>5, Consts DEF BlockAt, WakeupAt, WalkAt, Walks, Losing, sleep
  <2>7. RankAt(t)'
    <3> SUFFICES ASSUME wchan[own[t]] # NULL PROVE Rank[wchan[own[t]]] > Rank[Wanted(t)]
      BY <1>3, <2>2 DEF RankAt, Wanted, sleep
    <3>1. /\ cur[t] \in Thread /\ wchan[cur[t]] \in Lock
          /\ Rank[wchan[cur[t]]] \in Nat /\ Rank[Wanted(t)] \in Nat
          /\ Rank[wchan[cur[t]]] >= Rank[Wanted(t)]
      BY <2>1, <2>3, WalkRank
    <3>2. /\ Rank[wchan[own[t]]] \in Nat /\ Rank[wchan[cur[t]]] < Rank[wchan[own[t]]]
      BY <2>3, <3>1, SleeperRank
    <3> QED
      BY <3>1, <3>2
  <2>8. pc'[t] \in Steps
    BY <2>2 DEF Steps
  <2> QED
    BY <1>3, <2>2, <2>4, <2>6, <2>7, <2>8, StepCtl
<1> QED
  BY <1>4, <1>5, <1>6

\* Back from swtch(), with the lock if it was handed over.
LEMMA SwtchCtl ==
  ASSUME Ctl, NEW t \in Thread, Swtch(t)
  PROVE  Ctl'
<1>1. Typ /\ LockpOK /\ AtOK /\ SleepOK /\ OwnOK /\ PointOK
  BY DEF Ctl
<1>2. /\ pc[t] = "swtch" /\ wchan[t] = NULL /\ pc' = [pc EXCEPT ![t] = "run"]
      /\ at' = [at EXCEPT ![t] = IF owner[Wanted(t)] = t THEN @ + 1 ELSE @]
      /\ UNCHANGED <<owner, locks, sleep, pivars, walk>>
  BY DEF Swtch, Goto
<1>3. /\ at[t] \in Nat \ {0} /\ at[t] <= Len(Script[t]) /\ Len(Script[t]) \in Nat
      /\ at'[t] = IF owner[Wanted(t)] = t THEN at[t] + 1 ELSE at[t]
  BY <1>1, <1>2, Consts DEF Typ, AtOK
<1>4. /\ pc'[t] = "run"
      /\ \A u \in Thread : u # t => pc'[u] = pc[u] /\ at'[u] = at[u] /\ Wanted(u)' = Wanted(u)
  BY <1>1, <1>2 DEF Typ, Wanted
<1>5. Typ'
  <2>1. at' \in [Thread -> Nat \ {0}] /\ pc' \in [Thread -> PC]
    BY <1>1, <1>2, <1>3 DEF Typ, PC
  <2> QED
    BY <1>1, <1>2, <2>1 DEF Typ, locks, sleep, pivars, walk
<1>6. LockpOK' /\ AtOK' /\ SleepOK'
  BY <1>1, <1>2, <1>4 DEF LockpOK, AtOK, SleepOK, Wanted, sleep
<1>7. OwnOK'
  <2> SUFFICES ASSUME NEW m \in Lock, NEW u \in Thread, owner[m] = u
               PROVE  \/ \E i \in 1..Len(Script[u]) : i < at'[u] /\ Script[u][i] = m
                      \/ /\ pc'[u] \in Walks \cup Losing \cup {"swtch"} /\ wchan[u] = NULL
                         /\ m = Wanted(u)'
    BY <1>2 DEF OwnOK, sleep
  <2>1. \/ \E i \in 1..Len(Script[u]) : i < at[u] /\ Script[u][i] = m
        \/ /\ pc[u] \in Walks \cup Losing \cup {"swtch"} /\ wchan[u] = NULL /\ m = Wanted(u)
    BY <1>1 DEF OwnOK
  <2>2. CASE u # t
    BY <1>4, <2>1, <2>2
  <2>3. CASE u = t /\ m = Wanted(t)
    <3>1. at[t] \in 1..Len(Script[t]) /\ at[t] < at'[t] /\ Script[t][at[t]] = m
      BY <1>3, <2>3 DEF Wanted
    <3> QED
      BY <2>3, <3>1
  <2>4. CASE u = t /\ m # Wanted(t)
    <3>1. PICK i \in 1..Len(Script[t]) : i < at[t] /\ Script[t][i] = m
      BY <2>1, <2>4
    <3>2. i < at'[t]
      BY <1>3, <3>1
    <3> QED
      BY <2>4, <3>1, <3>2
  <2> QED
    BY <2>2, <2>3, <2>4
<1>8. PointOK'
  <2> SUFFICES ASSUME NEW u \in Thread
               PROVE  BlockAt(u)' /\ WakeupAt(u)' /\ WalkAt(u)' /\ RankAt(u)'
    BY DEF PointOK
  <2>1. BlockAt(u) /\ WakeupAt(u) /\ WalkAt(u) /\ RankAt(u)
    BY <1>1 DEF PointOK
  <2>2. CASE u = t
    BY <1>2, <1>4, <2>1, <2>2 DEF BlockAt, WakeupAt, WalkAt, RankAt, Walks, Losing, walk
  <2>3. CASE u # t
    BY <1>2, <1>4, <2>1, <2>3 DEF BlockAt, WakeupAt, WalkAt, RankAt, Wanted, sleep, walk, locks
  <2> QED
    BY <2>2, <2>3
<1> QED
  BY <1>5, <1>6, <1>7, <1>8 DEF Ctl

\* Releasing a lock that nobody waits for.
LEMMA ExitCtl ==
  ASSUME Ctl, NEW t \in Thread, NEW l \in Lock, Exit(t, l)
  PROVE  Ctl'
<1>1. Typ /\ LockpOK /\ AtOK /\ SleepOK /\ OwnOK /\ PointOK
  BY DEF Ctl
<1>2. /\ pc[t] = "run" /\ owner[l] = t /\ active[l] = NULL
      /\ \A u \in Thread : pc[u] = "block" => Wanted(u) # l
      /\ owner' = [owner EXCEPT ![l] = NULL]
      /\ UNCHANGED <<locks, sleep, pivars, pc, at, walk>>
  BY DEF Exit, HasWaiters
<1>3. owner'[l] = NULL /\ \A m \in Lock : m # l => owner'[m] = owner[m]
  BY <1>1, <1>2 DEF Typ
<1>4. Typ' /\ LockpOK' /\ AtOK'
  BY <1>1, <1>2 DEF Typ, LockpOK, AtOK, locks, sleep, pivars, walk
<1>5. \A y \in Thread : wchan[y] # l /\ wchan[y] \in Lock \cup {NULL}
  BY <1>1, <1>2, Consts DEF Typ, SleepOK
<1>6. SleepOK' /\ OwnOK'
  BY <1>1, <1>2, <1>3, <1>5, Consts DEF SleepOK, OwnOK, Wanted, sleep
<1>7. PointOK'
  <2> SUFFICES ASSUME NEW u \in Thread
               PROVE  BlockAt(u)' /\ WakeupAt(u)' /\ WalkAt(u)' /\ RankAt(u)'
    BY DEF PointOK
  <2>1. BlockAt(u) /\ WakeupAt(u) /\ WalkAt(u) /\ RankAt(u)
    BY <1>1 DEF PointOK
  <2>2. pc[u] = "block" => Wanted(u) \in Lock
    BY <1>1, WantedLock DEF AtOK
  <2>3. BlockAt(u)' /\ RankAt(u)'
    BY <1>2, <1>3, <2>1, <2>2 DEF BlockAt, RankAt, Wanted, locks, sleep, walk
  <2>4. WakeupAt(u)'
    BY <1>2, <1>3, <2>1 DEF WakeupAt, locks, sleep, walk
  <2>5. WalkAt(u)'
    <3>1. pc[u] \in Walks \ {"walk"} => /\ cur[u] \in Thread
                                        /\ owner'[wchan[cur[u]]] = owner[wchan[cur[u]]]
      BY <1>1, <1>3, <1>5, <2>1 DEF Typ, WalkAt
    <3> QED
      BY <1>2, <2>1, <3>1 DEF WalkAt, locks, sleep, walk
  <2> QED
    BY <2>3, <2>4, <2>5
<1> QED
  BY <1>4, <1>6, <1>7 DEF Ctl

----------------------------------------------------------------------------
(* Maxima *)

\* A set of numbers that is not empty has a least one.
LEMMA LeastNat ==
  ASSUME NEW N \in SUBSET Nat, N # {}
  PROVE  \E m \in N : \A n \in N : m <= n
<1>1. PICK m \in N : \A n \in N : ~(<<n, m>> \in OpToRel(<, Nat))
  BY NatLessThanWellFounded, WFMin
<1>2. \A n \in N : ~(n < m)
  BY <1>1 DEF OpToRel
<1> QED
  BY <1>2

\* A number of a set that is exceeded by none is the maximum.
LEMMA MaxIs ==
  ASSUME NEW S \in SUBSET Nat, NEW m \in S, \A s \in S : s <= m
  PROVE  Max(S) = m
<1>1. \A s \in S : m >= s
  OBVIOUS
<1>2. ASSUME NEW n \in S, \A s \in S : n >= s PROVE n = m
  BY <1>2
<1> QED
  BY <1>1, <1>2 DEF Max

\* The greater of two numbers.
LEMMA MaxPair ==
  ASSUME NEW a \in Nat, NEW b \in Nat
  PROVE  Max({a, b}) = IF a >= b THEN a ELSE b
<1> DEFINE m == IF a >= b THEN a ELSE b
<1>1. {a, b} \in SUBSET Nat /\ m \in {a, b} /\ \A s \in {a, b} : s <= m
  OBVIOUS
<1> QED
  BY <1>1, MaxIs

\* A finite set of numbers that is not empty has a maximum.
LEMMA MaxFinite ==
  ASSUME NEW S \in SUBSET Nat, IsFiniteSet(S), S # {}
  PROVE  Max(S) \in S /\ \A s \in S : s <= Max(S)
<1> DEFINE HasMax(A) == \E m \in A : \A s \in A : s <= m
           Bad == {A \in SUBSET S : A # {} /\ ~HasMax(A)}
           Sizes == {Cardinality(A) : A \in Bad}
<1>1. \A A \in Bad : IsFiniteSet(A) /\ Cardinality(A) \in Nat
  BY FS_Subset, FS_CardinalityType
<1>2. Sizes \in SUBSET Nat
  BY <1>1
<1>3. ASSUME NEW B \in Bad PROVE FALSE
  <2>1. Cardinality(B) \in Sizes
    BY <1>3
  <2> HIDE DEF Sizes
  <2>2. PICK k \in Sizes : \A j \in Sizes : k <= j
    BY <1>2, <2>1, LeastNat
  <2>3. PICK A \in Bad : k = Cardinality(A)
    BY <2>2 DEF Sizes
  <2>4. PICK a \in A : TRUE
    BY <2>3
  <2>5. IsFiniteSet(A \ {a}) /\ Cardinality(A \ {a}) = Cardinality(A) - 1 /\ Cardinality(A) \in Nat
    BY <1>1, <2>4, FS_RemoveElement
  <2>6. A \ {a} \notin Bad
    <3> SUFFICES ASSUME A \ {a} \in Bad PROVE FALSE
      OBVIOUS
    <3>1. Cardinality(A \ {a}) \in Sizes
      BY DEF Sizes
    <3> QED
      BY <2>2, <2>3, <2>5, <3>1
  <2>7. A \in SUBSET Nat /\ ~HasMax(A)
    BY <2>3
  <2>8. CASE A \ {a} = {}
    BY <2>4, <2>7, <2>8
  <2>9. CASE HasMax(A \ {a})
    <3>1. PICK m \in A \ {a} : \A s \in A \ {a} : s <= m
      BY <2>9
    <3>2. CASE a <= m
      BY <2>4, <2>7, <3>1, <3>2
    <3>3. CASE m <= a
      <4>1. \A s \in A : s <= a
        BY <2>4, <2>7, <3>1, <3>3
      <4> QED
        BY <2>4, <2>7, <4>1
    <3> QED
      BY <2>4, <2>7, <3>1, <3>2, <3>3
  <2> QED
    BY <2>3, <2>6, <2>8, <2>9
<1>4. PICK m \in S : \A s \in S : s <= m
  BY <1>3
<1> QED
  BY <1>4, MaxIs

\* Priorities are numbers.
LEMMA DispPrio ==
  ASSUME Typ, NEW t \in Thread
  PROVE  /\ DISP_PRIO(t) \in Nat /\ Pri[t] \in Nat /\ epri[t] \in Nat
         /\ DISP_PRIO(t) = IF Pri[t] >= epri[t] THEN Pri[t] ELSE epri[t]
<1>1. Pri[t] \in Nat /\ epri[t] \in Nat
  BY Consts DEF Typ
<1> QED
  BY <1>1, MaxPair DEF DISP_PRIO

\* The set of values of a function on threads is finite.
LEMMA ImageFinite ==
  ASSUME NEW S \in SUBSET Thread, NEW f \in [Thread -> Nat]
  PROVE  IsFiniteSet({0} \cup {f[y] : y \in S}) /\ {0} \cup {f[y] : y \in S} \in SUBSET Nat
<1>1. IsFiniteSet(S)
  BY FS_Subset, TurnstileAssumption
<1> DEFINE g == [y \in S |-> f[y]]
           R == {f[y] : y \in S}
<1>2. g \in Surjection(S, R)
  BY DEF Surjection
<1>3. IsFiniteSet(R)
  BY <1>1, <1>2, FS_Surjection
<1> QED
  BY <1>3, FS_AddElement

----------------------------------------------------------------------------
(* Inheriting *)

\* turnstile_pi_inherit on the turnstiles: only x changes, and not its freelist.
Inherits(tss, r, x, o, p) ==
    /\ r \in [Thread -> Tsrec] /\ \A y \in Thread : r[y].free = tss[y].free
    /\ \A y \in Thread : y # x => r[y] = tss[y]
    /\ p <= Pri[o] => r = tss
    /\ p > Pri[o] => /\ r[x].inheritor = o
                     /\ r[x].epri = IF tss[x].inheritor # NULL /\ tss[x].epri >= p THEN tss[x].epri ELSE p

\* InheritTs does that.
LEMMA InheritTsIs ==
  ASSUME NEW tss \in [Thread -> Tsrec], NEW x \in Thread, NEW o \in Thread, NEW p \in Nat
  PROVE  Inherits(tss, InheritTs(tss, x, o, p), x, o, p)
<1>1. Pri[o] \in Nat
  BY Consts
<1>2. CASE p <= Pri[o]
  BY <1>1, <1>2 DEF InheritTs, Inherits
<1>3. CASE p > Pri[o]
  <2>1. PICK F \in SUBSET Thread, i \in Thread \cup {NULL}, e \in Nat :
          tss[x] = [free |-> F, inheritor |-> i, epri |-> e]
    BY DEF Tsrec
  <2> DEFINE g == IF i = NULL THEN p ELSE Max({e, p})
             r == [free |-> F, inheritor |-> o, epri |-> g]
  <2>2. g \in Nat /\ g = IF i # NULL /\ e >= p THEN e ELSE p
    BY MaxPair
  <2>3. InheritTs(tss, x, o, p) = [tss EXCEPT ![x] = r]
    <3>1. tss[x].free = F /\ tss[x].inheritor = i /\ tss[x].epri = e
      BY <2>1
    <3> QED
      BY <1>1, <1>3, <3>1 DEF InheritTs
  <2>4. r \in Tsrec
    BY <2>2 DEF Tsrec
  <2> HIDE DEF g
  <2>5. /\ InheritTs(tss, x, o, p) \in [Thread -> Tsrec]
        /\ InheritTs(tss, x, o, p)[x] = r
        /\ \A y \in Thread : y # x => InheritTs(tss, x, o, p)[y] = tss[y]
    BY <2>3, <2>4
  <2> QED
    BY <1>1, <1>3, <2>1, <2>2, <2>5 DEF Inherits
<1> QED
  BY <1>1, <1>2, <1>3

\* turnstile_pi_inherit on the priorities: o has at least p.
LEMMA InheritPriIs ==
  ASSUME NEW pris \in [Thread -> Nat], NEW o \in Thread, NEW p \in Nat
  PROVE  /\ InheritPri(pris, o, p) \in [Thread -> Nat]
         /\ \A y \in Thread : y # o => InheritPri(pris, o, p)[y] = pris[y]
         /\ InheritPri(pris, o, p)[o] = IF p > Pri[o] /\ p > pris[o] THEN p ELSE pris[o]
<1>1. Pri[o] \in Nat /\ pris[o] \in Nat
  BY Consts
<1>2. Max({Pri[o], pris[o]}) = IF Pri[o] >= pris[o] THEN Pri[o] ELSE pris[o]
  BY <1>1, MaxPair
<1> QED
  BY <1>1, <1>2 DEF InheritPri

\* What Inherit(t) does.
LEMMA InheritFacts ==
  ASSUME Ctl, NEW t \in Thread, Inherit(t)
  PROVE  /\ pc[t] = "inherit" /\ pc[t] \in Walks
         /\ cur[t] \in Thread /\ own[t] \in Thread /\ wchan[cur[t]] \in Lock
         /\ owner[wchan[cur[t]]] = own[t]
         /\ t_ts[cur[t]] \in Thread /\ active[wchan[cur[t]]] = t_ts[cur[t]]
         /\ DISP_PRIO(cur[t]) \in Nat /\ Pri[own[t]] \in Nat
         /\ ts' = InheritTs(ts, t_ts[cur[t]], own[t], DISP_PRIO(cur[t]))
         /\ epri' = InheritPri(epri, own[t], DISP_PRIO(cur[t]))
         /\ ts \in [Thread -> Tsrec] /\ ts' \in [Thread -> Tsrec]
         /\ epri \in [Thread -> Nat] /\ epri' \in [Thread -> Nat]
         /\ cur[t] # own[t]
<1>1. Typ /\ SleepOK /\ WalkAt(t)
  BY DEF Ctl, PointOK
<1>2. /\ pc[t] = "inherit" /\ pc[t] \in Walks
      /\ ts' = InheritTs(ts, t_ts[cur[t]], own[t], DISP_PRIO(cur[t]))
      /\ epri' = InheritPri(epri, own[t], DISP_PRIO(cur[t]))
  BY DEF Inherit, Walks
<1>3. /\ cur[t] \in Thread /\ own[t] \in Thread /\ wchan[cur[t]] \in Lock /\ wchan[cur[t]] # NULL
      /\ owner[wchan[cur[t]]] = own[t]
  BY <1>1, <1>2 DEF Typ, WalkAt
<1>4. t_ts[cur[t]] \in Thread /\ active[wchan[cur[t]]] = t_ts[cur[t]]
  BY <1>1, <1>3 DEF Typ, SleepOK
<1>5. DISP_PRIO(cur[t]) \in Nat /\ Pri[own[t]] \in Nat
  BY <1>1, <1>3, DispPrio
<1>6. ts \in [Thread -> Tsrec] /\ epri \in [Thread -> Nat]
  BY <1>1 DEF Typ
<1>7. ts' \in [Thread -> Tsrec] /\ epri' \in [Thread -> Nat]
  BY <1>2, <1>3, <1>4, <1>5, <1>6, InheritTsIs, InheritPriIs DEF Inherits
<1>8. cur[t] # own[t]
  BY <1>3, NotOwn
<1> QED
  BY <1>2, <1>3, <1>4, <1>5, <1>6, <1>7, <1>8

\* The types after a step that moves a walk.
LEMMA MoveTyp ==
  ASSUME Ctl, NEW t \in Thread, ChainEnd(t) \/ Relock(t) \/ Inherit(t)
  PROVE  Typ'
<1>1. Typ /\ WalkAt(t)
  BY DEF Ctl, PointOK
<1>2. \/ /\ pc' = [pc EXCEPT ![t] = "walk"] \/ pc' = [pc EXCEPT ![t] = "swtch"]
  BY DEF ChainEnd, Relock, Inherit, Goto
<1>3. pc' \in [Thread -> PC]
  BY <1>1, <1>2 DEF Typ, PC
<1>4. /\ \/ spin' = spin \/ spin' = [spin EXCEPT ![lockp[cur[t]]] = NULL]
         \/ spin' = [spin EXCEPT ![lockp[t]] = t]
      /\ cur' \in {[cur EXCEPT ![t] = NULL], [cur EXCEPT ![t] = t], [cur EXCEPT ![t] = own[t]]}
      /\ UNCHANGED <<owner, sleep, at, own, olp>>
  BY DEF ChainEnd, Relock, Inherit
<1>5. spin' \in [Chain \cup Thread -> Thread \cup {NULL}] /\ cur' \in [Thread -> Thread \cup {NULL}]
  BY <1>1, <1>4 DEF Typ
<1>6. ts' \in [Thread -> Tsrec] /\ epri' \in [Thread -> Nat]
  <2>1. CASE Inherit(t)
    BY <2>1, InheritFacts
  <2>2. CASE ChainEnd(t) \/ Relock(t)
    BY <1>1, <2>2 DEF Typ, ChainEnd, Relock, pivars
  <2> QED
    BY <2>1, <2>2
<1> QED
  BY <1>1, <1>3, <1>4, <1>5, <1>6 DEF Typ, sleep

----------------------------------------------------------------------------
(* Falling asleep *)

\* What Block(t) does to the turnstiles.
LEMMA BlockFacts ==
  ASSUME Ctl, NEW t \in Thread, Block(t)
  PROVE  /\ pc[t] = "block" /\ Wanted(t) \in Lock /\ wchan[t] = NULL
         /\ wchan' = [wchan EXCEPT ![t] = Wanted(t)]
         /\ ts' \in [Thread -> Tsrec]
         /\ \A y \in Thread : ts'[y].inheritor = ts[y].inheritor /\ ts'[y].epri = ts[y].epri
         /\ active[Wanted(t)] = NULL =>
              /\ active' = [active EXCEPT ![Wanted(t)] = t_ts[t]] /\ t_ts' = t_ts /\ ts' = ts
         /\ active[Wanted(t)] # NULL =>
              /\ active' = active /\ t_ts' = [t_ts EXCEPT ![t] = active[Wanted(t)]]
              /\ active[Wanted(t)] \in Thread
              /\ ts'[active[Wanted(t)]].free = ts[active[Wanted(t)]].free \cup {t_ts[t]}
              /\ \A y \in Thread : y # active[Wanted(t)] => ts'[y] = ts[y]
<1>1. Typ /\ AtOK /\ SleepOK
  BY DEF Ctl
<1> DEFINE l == Wanted(t)
           x == active[l]
<1>2. /\ pc[t] = "block" /\ wchan' = [wchan EXCEPT ![t] = l]
      /\ x = NULL => active' = [active EXCEPT ![l] = t_ts[t]] /\ t_ts' = t_ts /\ ts' = ts
      /\ x # NULL => /\ active' = active /\ t_ts' = [t_ts EXCEPT ![t] = x]
                     /\ ts' = [ts EXCEPT ![x].free = @ \cup {t_ts[t]}]
  BY DEF Block
<1>3. l \in Lock
  BY <1>1, <1>2, WantedLock DEF AtOK
<1>4. wchan[t] = NULL
  BY <1>1, <1>2 DEF SleepOK, Walks, Losing
<1>5. CASE x = NULL
  BY <1>1, <1>2, <1>3, <1>4, <1>5 DEF Typ
<1>6. CASE x # NULL
  <2>1. x \in Thread /\ t_ts[t] \in Thread /\ ts \in [Thread -> Tsrec]
    BY <1>1, <1>3, <1>6 DEF Typ
  <2>2. PICK F \in SUBSET Thread, i \in Thread \cup {NULL}, e \in Nat :
          ts[x] = [free |-> F, inheritor |-> i, epri |-> e]
    BY <2>1 DEF Tsrec
  <2> DEFINE r == [free |-> F \cup {t_ts[t]}, inheritor |-> i, epri |-> e]
  <2>3. ts' = [ts EXCEPT ![x] = r]
    BY <1>2, <1>6, <2>1, <2>2
  <2>4. r \in Tsrec
    BY <2>1 DEF Tsrec
  <2>5. ts' \in [Thread -> Tsrec] /\ ts'[x] = r /\ \A y \in Thread : y # x => ts'[y] = ts[y]
    BY <2>1, <2>3, <2>4
  <2> QED
    BY <1>2, <1>3, <1>4, <1>6, <2>1, <2>2, <2>5
<1> QED
  BY <1>5, <1>6

\* turnstile_block up to the walk.
LEMMA BlockCtl ==
  ASSUME Ctl, NEW t \in Thread, Block(t)
  PROVE  Ctl'
<1>1. Typ /\ LockpOK /\ AtOK /\ SleepOK /\ OwnOK /\ PointOK
  BY DEF Ctl
<1> DEFINE l == Wanted(t)
<1>2. /\ pc[t] = "block" /\ l \in Lock /\ wchan[t] = NULL
      /\ wchan' = [wchan EXCEPT ![t] = l] /\ ts' \in [Thread -> Tsrec]
      /\ active[l] = NULL => active' = [active EXCEPT ![l] = t_ts[t]] /\ t_ts' = t_ts
      /\ active[l] # NULL => /\ active' = active /\ t_ts' = [t_ts EXCEPT ![t] = active[l]]
                             /\ active[l] \in Thread
  BY BlockFacts
<1>3. /\ spin[t] = NULL /\ lockp' = [lockp EXCEPT ![t] = Hash[l]]
      /\ cur' = [cur EXCEPT ![t] = t] /\ pc' = [pc EXCEPT ![t] = "walk"]
      /\ UNCHANGED <<owner, locks, epri, at, own, olp, loser>>
  BY DEF Block, Goto
<1>4. Hash[l] \in Chain /\ at[t] <= Len(Script[t]) /\ spin[Hash[l]] = t /\ owner[l] # NULL
  BY <1>1, <1>2, Consts DEF AtOK, PointOK, BlockAt
<1> HIDE DEF l
<1>5. /\ active' \in [Lock -> Thread \cup {NULL}] /\ t_ts' \in [Thread -> Thread]
      /\ active'[l] # NULL /\ t_ts'[t] = active'[l]
      /\ \A m \in Lock : active[m] # NULL => active'[m] = active[m]
      /\ \A u \in Thread : u # t => t_ts'[u] = t_ts[u]
  <2>1. /\ active \in [Lock -> Thread \cup {NULL}] /\ t_ts \in [Thread -> Thread]
        /\ t_ts[t] \in Thread /\ t_ts[t] # NULL
    BY <1>1, Consts DEF Typ
  <2> QED
    BY <1>2, <2>1
<1>6. /\ wchan' \in [Thread -> Lock \cup {NULL}] /\ lockp' \in [Thread -> Chain \cup Thread]
      /\ cur' \in [Thread -> Thread \cup {NULL}] /\ pc' \in [Thread -> PC]
  BY <1>1, <1>2, <1>3, <1>4 DEF Typ, PC
<1>7. Typ'
  BY <1>1, <1>2, <1>3, <1>5, <1>6 DEF Typ, locks
<1>8. /\ pc'[t] = "walk" /\ cur'[t] = t /\ lockp'[t] = Hash[l] /\ wchan'[t] = l
      /\ \A u \in Thread : u # t => /\ pc'[u] = pc[u] /\ cur'[u] = cur[u]
                                    /\ lockp'[u] = lockp[u] /\ wchan'[u] = wchan[u]
  BY <1>1, <1>2, <1>3 DEF Typ
<1>9. LockpOK' /\ AtOK'
  BY <1>1, <1>2, <1>3, <1>4, <1>8, Consts DEF LockpOK, AtOK
<1>10. SleepOK'
  <2> SUFFICES ASSUME NEW y \in Thread, wchan'[y] # NULL
               PROVE  /\ pc'[y] \in Walks \cup Losing \cup {"swtch"} /\ wchan'[y] = Wanted(y)'
                      /\ owner'[wchan'[y]] # NULL /\ active'[wchan'[y]] # NULL
                      /\ t_ts'[y] = active'[wchan'[y]]
    BY DEF SleepOK
  <2>1. Wanted(y)' = Wanted(y)
    BY <1>3 DEF Wanted
  <2>2. CASE y = t
    BY <1>3, <1>4, <1>5, <1>8, <2>1, <2>2 DEF Walks, l
  <2>3. CASE y # t
    BY <1>1, <1>3, <1>5, <1>8, <2>1, <2>3 DEF Typ, SleepOK
  <2> QED
    BY <2>2, <2>3
<1>11. OwnOK'
  BY <1>1, <1>2, <1>3, <1>8 DEF OwnOK, Wanted, Walks, Losing
<1>12. PointOK'
  <2> SUFFICES ASSUME NEW u \in Thread
               PROVE  BlockAt(u)' /\ WakeupAt(u)' /\ WalkAt(u)' /\ RankAt(u)'
    BY DEF PointOK
  <2>1. BlockAt(u) /\ WakeupAt(u) /\ WalkAt(u) /\ RankAt(u)
    BY <1>1 DEF PointOK
  <2>2. CASE u = t
    BY <1>3, <1>4, <1>8, <2>2, Consts DEF BlockAt, WakeupAt, WalkAt, RankAt, Walks, Losing, locks
  <2>3. CASE u # t
    <3>1. BlockAt(u)'
      BY <1>3, <1>8, <2>1, <2>3 DEF BlockAt, Wanted, locks
    <3>2. WakeupAt(u)'
      BY <1>3, <1>5, <1>8, <2>1, <2>3 DEF WakeupAt, locks
    <3>3. lockp[t] = t
      BY <1>1, <1>2 DEF LockpOK
    <3>4. /\ pc[u] \in Walks => cur[u] # t /\ cur[u] \in Thread /\ lockp[cur[u]] # t
          /\ pc[u] \in Walks \ {"walk"} => own[u] \in Thread
          /\ pc[u] = "inherit" => own[u] # t
      BY <1>1, <1>3, <2>1, <3>3, Consts DEF Typ, WalkAt, Walks
    <3>5. pc[u] = "try" /\ olp[u] = lockp[cur[u]] => own[u] # t
      BY <2>1, <3>3, <3>4 DEF WalkAt, Walks
    <3>6. /\ pc[u] \in Walks => lockp'[cur[u]] = lockp[cur[u]] /\ wchan'[cur[u]] = wchan[cur[u]]
          /\ pc[u] = "inherit" => lockp'[own[u]] = lockp[own[u]]
          /\ pc[u] = "try" /\ olp[u] = lockp[cur[u]] => lockp'[own[u]] = lockp[own[u]]
      BY <1>8, <3>4, <3>5 DEF Walks
    <3>7. WalkAt(u)'
      BY <1>3, <1>8, <2>1, <2>3, <3>6 DEF WalkAt, Walks, Losing, locks
    <3>8. RankAt(u)'
      BY <1>3, <1>8, <2>1, <2>3, <3>6 DEF RankAt, Wanted
    <3> QED
      BY <3>1, <3>2, <3>7, <3>8
  <2> QED
    BY <2>2, <2>3
<1> QED
  BY <1>7, <1>9, <1>10, <1>11, <1>12 DEF Ctl

----------------------------------------------------------------------------
(* Waking up *)

\* A turnstile without its inheritor.
LEMMA ReleasedIs ==
  ASSUME Typ, NEW x \in Thread
  PROVE  /\ Released(x) \in [Thread -> Tsrec]
         /\ Released(x)[x].inheritor = NULL /\ Released(x)[x].free = ts[x].free
         /\ \A y \in Thread : y # x => Released(x)[y] = ts[y]
<1>1. ts \in [Thread -> Tsrec]
  BY DEF Typ
<1>2. PICK F \in SUBSET Thread, i \in Thread \cup {NULL}, e \in Nat :
        ts[x] = [free |-> F, inheritor |-> i, epri |-> e]
  BY <1>1 DEF Tsrec
<1> DEFINE r == [free |-> F, inheritor |-> NULL, epri |-> e]
<1>3. Released(x) = [ts EXCEPT ![x] = r]
  <2>1. [ts[x] EXCEPT !.inheritor = NULL] = r
    BY <1>2
  <2>2. Released(x) = [ts EXCEPT ![x] = [ts[x] EXCEPT !.inheritor = NULL]]
    BY DEF Released
  <2> QED
    BY <2>1, <2>2
<1>4. r \in Tsrec
  BY DEF Tsrec
<1>5. Released(x) \in [Thread -> Tsrec] /\ Released(x)[x] = r
      /\ \A y \in Thread : y # x => Released(x)[y] = ts[y]
  BY <1>1, <1>3, <1>4
<1> QED
  BY <1>2, <1>5

\* What t inherits but for x.
Left(t, x) == Max({0} \cup {ts[y].epri : y \in t_prioinv(t) \ {x}})

\* It is inherited from one of the others, and from none of them more.
LEMMA LeftIs ==
  ASSUME Typ, NEW t \in Thread, NEW x \in Thread
  PROVE  /\ Left(t, x) \in Nat
         /\ Left(t, x) = 0 \/ \E y \in t_prioinv(t) \ {x} : ts[y].epri = Left(t, x)
         /\ \A y \in t_prioinv(t) \ {x} : ts[y].epri <= Left(t, x)
<1> DEFINE f == [y \in Thread |-> ts[y].epri]
           P == t_prioinv(t) \ {x}
           S == {0} \cup {f[y] : y \in P}
<1>1. \A y \in Thread : ts[y].epri \in Nat
  BY DEF Typ, Tsrec
<1>2. f \in [Thread -> Nat] /\ P \in SUBSET Thread
  BY <1>1 DEF t_prioinv
<1>3. IsFiniteSet(S) /\ S \in SUBSET Nat /\ S # {}
  BY <1>2, ImageFinite
<1>4. Max(S) \in S /\ \A s \in S : s <= Max(S)
  BY <1>3, MaxFinite
<1>5. S = {0} \cup {ts[y].epri : y \in P}
  BY <1>2
<1> QED
  BY <1>3, <1>4, <1>5 DEF Left

\* turnstile_pi_waive.
LEMMA WaivedIs ==
  ASSUME Typ, NEW t \in Thread, NEW x \in Thread
  PROVE  /\ Waived(t, x) \in [Thread -> Nat]
         /\ \A y \in Thread : y # t => Waived(t, x)[y] = epri[y]
         /\ Waived(t, x)[t] = IF ts[x].inheritor # NULL /\ Left(t, x) # DISP_PRIO(t)
                              THEN Left(t, x) ELSE epri[t]
<1>1. epri \in [Thread -> Nat] /\ Left(t, x) \in Nat
  BY LeftIs DEF Typ
<1>2. Waived(t, x) = IF ts[x].inheritor # NULL /\ Left(t, x) # DISP_PRIO(t)
                     THEN [epri EXCEPT ![t] = Left(t, x)] ELSE epri
  BY DEF Waived, Left
<1> QED
  BY <1>1, <1>2

\* The highest priority of those who are left behind.
Rest(l, n) == Max({0} \cup {DISP_PRIO(y) : y \in Sleepers(l) \ {n}})

\* Nobody who is left behind has more.
LEMMA RestIs ==
  ASSUME Typ, NEW l \in Lock, NEW n \in Thread
  PROVE  /\ Rest(l, n) \in Nat
         /\ \A y \in Sleepers(l) \ {n} : DISP_PRIO(y) <= Rest(l, n)
         /\ Sleepers(l) \ {n} = {} => Rest(l, n) = 0
<1> DEFINE f == [y \in Thread |-> DISP_PRIO(y)]
           P == Sleepers(l) \ {n}
           S == {0} \cup {f[y] : y \in P}
<1>1. f \in [Thread -> Nat] /\ P \in SUBSET Thread
  BY DispPrio DEF Sleepers
<1>2. IsFiniteSet(S) /\ S \in SUBSET Nat /\ S # {}
  BY <1>1, ImageFinite
<1>3. Max(S) \in S /\ \A s \in S : s <= Max(S)
  BY <1>2, MaxFinite
<1>4. S = {0} \cup {DISP_PRIO(y) : y \in P}
  BY <1>1
<1> QED
  BY <1>2, <1>3, <1>4 DEF Rest

\* The threads W are woken from l, and v, which is one of them or nobody, is
\* the new owner.
TakeFree(x, W, last) == ts[x].free \cup (IF last THEN {x} ELSE {})

Handed(x, W, last) == \E f \in [W -> TakeFree(x, W, last)] :
    /\ \A a, b \in W : a # b => f[a] # f[b]
    /\ t_ts' = [y \in Thread |-> IF y \in W THEN f[y] ELSE t_ts[y]]
    /\ ts'[x].free = ts[x].free \ {f[y] : y \in W}

Woke(t, l, W, v) ==
    /\ pc[t] = "wakeup" /\ olp[t] = l /\ l \in Lock /\ owner[l] = t /\ spin[Hash[l]] = t
    /\ active[l] \in Thread /\ W \in SUBSET Sleepers(l) /\ \A y \in W : spin[y] = NULL
    /\ (v = NULL /\ W = Sleepers(l)) \/ (v \in Thread /\ W = {v})
    /\ owner' = [owner EXCEPT ![l] = v]
    /\ active' = [active EXCEPT ![l] = IF W = Sleepers(l) THEN NULL ELSE active[l]]
    /\ wchan' = [y \in Thread |-> IF y \in W THEN NULL ELSE wchan[y]]
    /\ lockp' = [y \in Thread |-> IF y \in W THEN y ELSE lockp[y]]
    /\ Handed(active[l], W, W = Sleepers(l))
    /\ ts' \in [Thread -> Tsrec] /\ \A y \in Thread : y # active[l] => ts'[y] = ts[y]
    /\ epri' \in [Thread -> Nat] /\ \A y \in Thread : y # t => epri'[y] = epri[y]
    /\ spin' = [spin EXCEPT ![Hash[l]] = NULL] /\ olp' = [olp EXCEPT ![t] = NULL]
    /\ pc' = [pc EXCEPT ![t] = "run"] /\ UNCHANGED <<at, cur, own>>

\* What turnstile_dequeue does to the turnstile x.
LEMMA DequeueTs ==
  ASSUME NEW tss \in [Thread -> Tsrec], NEW x \in Thread, NEW F, tss[x].free = ts[x].free,
         ts' = [tss EXCEPT ![x].free = @ \ F]
  PROVE  /\ ts' \in [Thread -> Tsrec] /\ ts'[x].free = ts[x].free \ F
         /\ ts'[x].inheritor = tss[x].inheritor /\ ts'[x].epri = tss[x].epri
         /\ \A y \in Thread : y # x => ts'[y] = tss[y]
<1>1. PICK E \in SUBSET Thread, i \in Thread \cup {NULL}, e \in Nat :
        tss[x] = [free |-> E, inheritor |-> i, epri |-> e]
  BY DEF Tsrec
<1> DEFINE r == [free |-> E \ F, inheritor |-> i, epri |-> e]
<1>2. ts' = [tss EXCEPT ![x] = r]
  <2>1. [tss[x] EXCEPT !.free = tss[x].free \ F] = r
    BY <1>1
  <2>2. ts' = [tss EXCEPT ![x] = [tss[x] EXCEPT !.free = tss[x].free \ F]]
    OBVIOUS
  <2> QED
    BY <2>1, <2>2
<1>3. r \in Tsrec
  BY DEF Tsrec
<1>4. ts' \in [Thread -> Tsrec] /\ ts'[x] = r /\ \A y \in Thread : y # x => ts'[y] = tss[y]
  BY <1>2, <1>3
<1> QED
  BY <1>1, <1>4

\* What a thread that wakes knows.
LEMMA WakeupKnows ==
  ASSUME Ctl, NEW t \in Thread, pc[t] = "wakeup"
  PROVE  /\ olp[t] \in Lock /\ spin[Hash[olp[t]]] = t /\ owner[olp[t]] = t
         /\ active[olp[t]] \in Thread /\ Typ
  BY DEF Ctl, PointOK, WakeupAt, Typ

\* WakeAll wakes all and leaves the lock free.
LEMMA WakeAllFacts ==
  ASSUME Ctl, NEW t \in Thread, WakeAll(t)
  PROVE  LET l == olp[t]
             x == active[l]
         IN /\ Woke(t, l, Sleepers(l), NULL)
            /\ ts'[x].inheritor = NULL
            /\ epri' = Waived(t, x)
<1> DEFINE l == olp[t]
           x == active[l]
           W == Sleepers(l)
<1>1. /\ pc[t] = "wakeup" /\ \A y \in W \cup {t} : spin[y] = NULL
      /\ owner' = [owner EXCEPT ![l] = NULL]
      /\ Dequeue(t, l, W, Released(x), Waived(t, x))
  BY DEF WakeAll
<1>2. l \in Lock /\ spin[Hash[l]] = t /\ owner[l] = t /\ x \in Thread /\ Typ
  BY <1>1, WakeupKnows
<1>3. PICK f \in [W -> ts[x].free \cup (IF W = Sleepers(l) THEN {x} ELSE {})] :
            /\ \A a, b \in W : a # b => f[a] # f[b]
            /\ t_ts' = [y \in Thread |-> IF y \in W THEN f[y] ELSE t_ts[y]]
            /\ ts' = [Released(x) EXCEPT ![x].free = @ \ {f[y] : y \in W}]
  BY <1>1 DEF Dequeue
<1>4. /\ active' = [active EXCEPT ![l] = IF W = Sleepers(l) THEN NULL ELSE x]
      /\ wchan' = [y \in Thread |-> IF y \in W THEN NULL ELSE wchan[y]]
      /\ lockp' = [y \in Thread |-> IF y \in W THEN y ELSE lockp[y]]
      /\ epri' = Waived(t, x) /\ spin' = [spin EXCEPT ![Hash[l]] = NULL]
      /\ olp' = [olp EXCEPT ![t] = NULL] /\ pc' = [pc EXCEPT ![t] = "run"]
      /\ UNCHANGED <<at, cur, own>>
  BY <1>1 DEF Dequeue, Goto
<1>5. /\ ts' \in [Thread -> Tsrec] /\ ts'[x].free = ts[x].free \ {f[y] : y \in W}
      /\ ts'[x].inheritor = NULL
      /\ \A y \in Thread : y # x => ts'[y] = ts[y]
  <2> DEFINE R == Released(x)
             F == {f[y] : y \in W}
  <2> HIDE DEF x, l
  <2>1. /\ R \in [Thread -> Tsrec] /\ R[x].inheritor = NULL /\ R[x].free = ts[x].free
        /\ \A y \in Thread : y # x => R[y] = ts[y]
    BY <1>2, ReleasedIs
  <2>2. ts' = [R EXCEPT ![x].free = @ \ F]
    BY <1>3
  <2> HIDE DEF R, F
  <2>3. /\ ts' \in [Thread -> Tsrec] /\ ts'[x].free = ts[x].free \ F
        /\ ts'[x].inheritor = R[x].inheritor /\ ts'[x].epri = R[x].epri
        /\ \A y \in Thread : y # x => ts'[y] = R[y]
    BY <1>2, <2>1, <2>2, DequeueTs
  <2> QED
    BY <2>1, <2>3 DEF F
<1>6. epri' \in [Thread -> Nat] /\ \A y \in Thread : y # t => epri'[y] = epri[y]
  <2> HIDE DEF x, l
  <2> QED
    BY <1>2, <1>4, WaivedIs
<1>7. Handed(x, W, W = Sleepers(l))
  BY <1>3, <1>5 DEF Handed, TakeFree
<1> HIDE DEF x, l, W
<1>8. Woke(t, l, W, NULL)
  <2>1. W = Sleepers(l) /\ olp[t] = l /\ x = active[l]
    BY DEF W, l, x
  <2> QED
    BY <1>1, <1>2, <1>4, <1>5, <1>6, <1>7, <2>1 DEF Woke
<1> QED
  BY <1>4, <1>5, <1>8 DEF W, l, x

\* HandOver wakes one, which owns the lock and inherits from the others.
LEMMA HandOverFacts ==
  ASSUME Ctl, NEW t \in Thread, HandOver(t)
  PROVE  LET l == olp[t]
             x == active[l]
         IN \E n \in Sleepers(l) :
            /\ Woke(t, l, {n}, n) /\ Rest(l, n) <= DISP_PRIO(n)
            /\ Rest(l, n) <= Pri[n] => ts'[x].inheritor = NULL
            /\ Rest(l, n) > Pri[n] => ts'[x].inheritor = n /\ ts'[x].epri = Rest(l, n)
            /\ epri' = InheritPri(Waived(t, x), n, Rest(l, n))
<1> DEFINE l == olp[t]
           x == active[l]
<1>1. pc[t] = "wakeup"
  BY DEF HandOver
<1>2. l \in Lock /\ spin[Hash[l]] = t /\ owner[l] = t /\ x \in Thread /\ Typ
  BY <1>1, WakeupKnows
<1>3. PICK n \in Sleepers(l) :
         /\ Rest(l, n) <= DISP_PRIO(n) /\ spin[t] = NULL /\ spin[n] = NULL
         /\ owner' = [owner EXCEPT ![l] = n]
         /\ Dequeue(t, l, {n}, InheritTs(Released(x), x, n, Rest(l, n)),
                    InheritPri(Waived(t, x), n, Rest(l, n)))
  BY DEF HandOver, Rest
<1> DEFINE W == {n}
           p == Rest(l, n)
           tss == InheritTs(Released(x), x, n, p)
<1>4. PICK f \in [W -> ts[x].free \cup (IF W = Sleepers(l) THEN {x} ELSE {})] :
            /\ \A a, b \in W : a # b => f[a] # f[b]
            /\ t_ts' = [y \in Thread |-> IF y \in W THEN f[y] ELSE t_ts[y]]
            /\ ts' = [tss EXCEPT ![x].free = @ \ {f[y] : y \in W}]
  BY <1>3 DEF Dequeue
<1>5. /\ active' = [active EXCEPT ![l] = IF W = Sleepers(l) THEN NULL ELSE x]
      /\ wchan' = [y \in Thread |-> IF y \in W THEN NULL ELSE wchan[y]]
      /\ lockp' = [y \in Thread |-> IF y \in W THEN y ELSE lockp[y]]
      /\ epri' = InheritPri(Waived(t, x), n, p) /\ spin' = [spin EXCEPT ![Hash[l]] = NULL]
      /\ olp' = [olp EXCEPT ![t] = NULL] /\ pc' = [pc EXCEPT ![t] = "run"]
      /\ UNCHANGED <<at, cur, own>>
  BY <1>3 DEF Dequeue, Goto
<1>6. n \in Thread /\ p \in Nat /\ Pri[n] \in Nat
  BY <1>2, <1>3, RestIs, Consts DEF Sleepers
<1> HIDE DEF x, l, p
<1>7. /\ tss \in [Thread -> Tsrec] /\ tss[x].free = ts[x].free
      /\ \A y \in Thread : y # x => tss[y] = ts[y]
      /\ p <= Pri[n] => tss[x].inheritor = NULL
      /\ p > Pri[n] => tss[x].inheritor = n /\ tss[x].epri = p
  <2> DEFINE R == Released(x)
  <2>1. /\ R \in [Thread -> Tsrec] /\ R[x].inheritor = NULL /\ R[x].free = ts[x].free
        /\ \A y \in Thread : y # x => R[y] = ts[y]
    BY <1>2, ReleasedIs
  <2> HIDE DEF R
  <2>2. tss = InheritTs(R, x, n, p)
    BY DEF R
  <2> HIDE DEF tss
  <2>3. Inherits(R, InheritTs(R, x, n, p), x, n, p)
    BY <1>2, <1>6, <2>1, InheritTsIs
  <2>4. Inherits(R, tss, x, n, p)
    BY <2>2, <2>3
  <2> QED
    BY <1>2, <2>1, <2>4 DEF Inherits
<1> HIDE DEF tss
<1>8. /\ ts' \in [Thread -> Tsrec] /\ ts'[x].free = ts[x].free \ {f[y] : y \in W}
      /\ ts'[x].inheritor = tss[x].inheritor /\ ts'[x].epri = tss[x].epri
      /\ \A y \in Thread : y # x => ts'[y] = ts[y]
  <2> DEFINE F == {f[y] : y \in W}
  <2>1. ts' = [tss EXCEPT ![x].free = @ \ F]
    BY <1>4
  <2> HIDE DEF F
  <2>2. /\ ts' \in [Thread -> Tsrec] /\ ts'[x].free = ts[x].free \ F
        /\ ts'[x].inheritor = tss[x].inheritor /\ ts'[x].epri = tss[x].epri
        /\ \A y \in Thread : y # x => ts'[y] = tss[y]
    BY <1>2, <1>7, <2>1, DequeueTs
  <2> QED
    BY <1>7, <2>2 DEF F
<1>9. n # t
  <2>1. wchan[n] = l /\ l # NULL
    BY <1>2, <1>3, Consts DEF Sleepers
  <2> QED
    BY <1>2, <1>6, <2>1, NotOwn
<1>10. epri' \in [Thread -> Nat] /\ \A y \in Thread : y # t => epri'[y] = epri[y]
  <2> DEFINE V == Waived(t, x)
  <2>1. V \in [Thread -> Nat] /\ \A y \in Thread : y # t => V[y] = epri[y]
    BY <1>2, WaivedIs
  <2> HIDE DEF V
  <2>2. epri' = InheritPri(V, n, p)
    BY <1>5 DEF V
  <2>3. /\ epri' \in [Thread -> Nat]
        /\ \A y \in Thread : y # n => epri'[y] = V[y]
        /\ epri'[n] = IF p > Pri[n] /\ p > V[n] THEN p ELSE V[n]
    <3>1. V \in [Thread -> Nat] /\ n \in Thread /\ p \in Nat
      BY <1>6, <2>1
    <3> DEFINE Q == InheritPri(V, n, p)
    <3>2. /\ Q \in [Thread -> Nat]
          /\ \A y \in Thread : y # n => Q[y] = V[y]
          /\ Q[n] = IF p > Pri[n] /\ p > V[n] THEN p ELSE V[n]
      BY <3>1, InheritPriIs
    <3> QED
      BY <2>2, <3>2
  <2>4. epri'[n] = V[n]
    <3>1. DISP_PRIO(n) = IF Pri[n] >= epri[n] THEN Pri[n] ELSE epri[n]
      BY <1>2, <1>6, DispPrio
    <3>2. p <= DISP_PRIO(n) /\ V[n] = epri[n] /\ epri[n] \in Nat
      BY <1>2, <1>3, <1>6, <1>9, <2>1 DEF p, Typ
    <3> QED
      BY <1>6, <2>3, <3>1, <3>2
  <2> QED
    BY <2>1, <2>3, <2>4
<1>11. Handed(x, W, W = Sleepers(l))
  BY <1>4, <1>8 DEF Handed, TakeFree
<1> HIDE DEF W
<1>12. Woke(t, l, W, n)
  <2>1. W = {n} /\ olp[t] = l /\ x = active[l] /\ W \in SUBSET Sleepers(l) /\ \A y \in W : spin[y] = NULL
    BY <1>3 DEF W, l, x
  <2> QED
    BY <1>1, <1>2, <1>3, <1>5, <1>6, <1>8, <1>10, <1>11, <2>1 DEF Woke
<1>13. Woke(t, l, {n}, n)
  BY <1>12 DEF W
<1>14. /\ Rest(l, n) <= Pri[n] => ts'[x].inheritor = NULL
       /\ Rest(l, n) > Pri[n] => ts'[x].inheritor = n /\ ts'[x].epri = Rest(l, n)
       /\ epri' = InheritPri(Waived(t, x), n, Rest(l, n))
  BY <1>5, <1>7, <1>8 DEF p
<1> QED
  BY <1>3, <1>13, <1>14 DEF l, x

\* What is woken, and what is not.
LEMMA WokeFacts ==
  ASSUME Ctl, NEW t \in Thread, NEW l, NEW W, NEW v, Woke(t, l, W, v)
  PROVE  /\ l \in Lock /\ l # NULL /\ Hash[l] \in Chain /\ W \in SUBSET Thread /\ v \in Thread \cup {NULL}
         /\ \A y \in W : wchan[y] = l /\ lockp[y] = Hash[l] /\ wchan'[y] = NULL /\ lockp'[y] = y
         /\ \A y \in Thread \ W : wchan'[y] = wchan[y] /\ lockp'[y] = lockp[y] /\ t_ts'[y] = t_ts[y]
         /\ \A y \in Thread : wchan[y] = l /\ y \notin W => v \in Thread /\ W # Sleepers(l)
         /\ owner'[l] = v /\ \A m \in Lock : m # l => owner'[m] = owner[m] /\ active'[m] = active[m]
         /\ active'[l] = IF W = Sleepers(l) THEN NULL ELSE active[l]
         /\ active[l] \in Thread
         /\ spin'[Hash[l]] = NULL /\ \A z \in Chain \cup Thread : z # Hash[l] => spin'[z] = spin[z]
         /\ pc'[t] = "run" /\ \A u \in Thread : u # t => pc'[u] = pc[u] /\ olp'[u] = olp[u]
         /\ \A u \in Thread : cur'[u] = cur[u] /\ own'[u] = own[u] /\ at'[u] = at[u] /\ Wanted(u)' = Wanted(u)
         /\ pc[t] = "wakeup" /\ wchan[t] = NULL /\ cur[t] = NULL /\ owner[l] = t /\ spin[Hash[l]] = t
<1>1. Typ /\ LockpOK /\ SleepOK /\ WalkAt(t)
  BY DEF Ctl, PointOK
<1>2. /\ pc[t] = "wakeup" /\ l \in Lock /\ owner[l] = t /\ spin[Hash[l]] = t
      /\ active[l] \in Thread /\ W \in SUBSET Sleepers(l)
      /\ (v = NULL /\ W = Sleepers(l)) \/ (v \in Thread /\ W = {v})
      /\ owner' = [owner EXCEPT ![l] = v]
      /\ active' = [active EXCEPT ![l] = IF W = Sleepers(l) THEN NULL ELSE active[l]]
      /\ wchan' = [y \in Thread |-> IF y \in W THEN NULL ELSE wchan[y]]
      /\ lockp' = [y \in Thread |-> IF y \in W THEN y ELSE lockp[y]]
      /\ spin' = [spin EXCEPT ![Hash[l]] = NULL] /\ olp' = [olp EXCEPT ![t] = NULL]
      /\ pc' = [pc EXCEPT ![t] = "run"] /\ UNCHANGED <<at, cur, own>>
  BY DEF Woke
<1>3. l # NULL /\ Hash[l] \in Chain /\ W \in SUBSET Thread
  BY <1>2, Consts DEF Sleepers
<1>4. \A y \in W : wchan[y] = l /\ lockp[y] = Hash[l] /\ wchan'[y] = NULL /\ lockp'[y] = y
  BY <1>1, <1>2, <1>3 DEF Sleepers, LockpOK
<1>5. \A y \in Thread \ W : wchan'[y] = wchan[y] /\ lockp'[y] = lockp[y] /\ t_ts'[y] = t_ts[y]
  <2>1. \E f : t_ts' = [y \in Thread |-> IF y \in W THEN f[y] ELSE t_ts[y]]
    BY DEF Woke, Handed
  <2> QED
    BY <1>2, <2>1
<1>6. \A y \in Thread : wchan[y] = l /\ y \notin W => v \in Thread /\ W # Sleepers(l)
  BY <1>2 DEF Sleepers
<1>7. /\ owner'[l] = v /\ \A m \in Lock : m # l => owner'[m] = owner[m] /\ active'[m] = active[m]
      /\ active'[l] = IF W = Sleepers(l) THEN NULL ELSE active[l]
  <2>1. owner \in [Lock -> Thread \cup {NULL}] /\ active \in [Lock -> Thread \cup {NULL}]
    BY <1>1 DEF Typ
  <2> QED
    BY <1>2, <2>1
<1>8. /\ spin'[Hash[l]] = NULL /\ \A z \in Chain \cup Thread : z # Hash[l] => spin'[z] = spin[z]
  BY <1>1, <1>2, <1>3 DEF Typ
<1>9. /\ pc'[t] = "run" /\ \A u \in Thread : u # t => pc'[u] = pc[u] /\ olp'[u] = olp[u]
      /\ \A u \in Thread : cur'[u] = cur[u] /\ own'[u] = own[u] /\ at'[u] = at[u] /\ Wanted(u)' = Wanted(u)
  BY <1>1, <1>2 DEF Typ, Wanted
<1>10. wchan[t] = NULL /\ cur[t] = NULL
  BY <1>1, <1>2 DEF SleepOK, WalkAt, Walks, Losing
<1> QED
  BY <1>2, <1>3, <1>4, <1>5, <1>6, <1>7, <1>8, <1>9, <1>10

\* turnstile_wakeup.
LEMMA WokeCtl ==
  ASSUME Ctl, NEW t \in Thread, NEW l, NEW W, NEW v, Woke(t, l, W, v)
  PROVE  Ctl'
<1>1. Typ /\ LockpOK /\ AtOK /\ SleepOK /\ OwnOK /\ PointOK
  BY DEF Ctl
<1>2. /\ l \in Lock /\ l # NULL /\ Hash[l] \in Chain /\ W \in SUBSET Thread /\ v \in Thread \cup {NULL}
      /\ \A y \in W : wchan[y] = l /\ lockp[y] = Hash[l] /\ wchan'[y] = NULL /\ lockp'[y] = y
      /\ \A y \in Thread \ W : wchan'[y] = wchan[y] /\ lockp'[y] = lockp[y] /\ t_ts'[y] = t_ts[y]
  BY WokeFacts
<1>3. /\ \A y \in Thread : wchan[y] = l /\ y \notin W => v \in Thread /\ W # Sleepers(l)
      /\ owner'[l] = v /\ \A m \in Lock : m # l => owner'[m] = owner[m] /\ active'[m] = active[m]
      /\ active'[l] = IF W = Sleepers(l) THEN NULL ELSE active[l]
      /\ active[l] \in Thread
  BY WokeFacts
<1>4. /\ spin'[Hash[l]] = NULL /\ \A z \in Chain \cup Thread : z # Hash[l] => spin'[z] = spin[z]
      /\ spin[Hash[l]] = t
  BY WokeFacts
<1>5. /\ pc'[t] = "run" /\ \A u \in Thread : u # t => pc'[u] = pc[u] /\ olp'[u] = olp[u]
      /\ \A u \in Thread : cur'[u] = cur[u] /\ own'[u] = own[u] /\ at'[u] = at[u] /\ Wanted(u)' = Wanted(u)
      /\ pc[t] = "wakeup" /\ wchan[t] = NULL /\ cur[t] = NULL /\ owner[l] = t
  BY WokeFacts
<1>6. Typ'
  <2>1. /\ W \in SUBSET Sleepers(l)
        /\ owner' = [owner EXCEPT ![l] = v]
        /\ active' = [active EXCEPT ![l] = IF W = Sleepers(l) THEN NULL ELSE active[l]]
        /\ wchan' = [y \in Thread |-> IF y \in W THEN NULL ELSE wchan[y]]
        /\ lockp' = [y \in Thread |-> IF y \in W THEN y ELSE lockp[y]]
        /\ Handed(active[l], W, W = Sleepers(l))
        /\ ts' \in [Thread -> Tsrec] /\ epri' \in [Thread -> Nat]
        /\ spin' = [spin EXCEPT ![Hash[l]] = NULL] /\ olp' = [olp EXCEPT ![t] = NULL]
        /\ pc' = [pc EXCEPT ![t] = "run"] /\ UNCHANGED <<at, cur, own>>
    BY DEF Woke
  <2>2. owner' \in [Lock -> Thread \cup {NULL}] /\ active' \in [Lock -> Thread \cup {NULL}]
    BY <1>1, <1>2, <1>3, <2>1 DEF Typ
  <2>3. wchan' \in [Thread -> Lock \cup {NULL}] /\ lockp' \in [Thread -> Chain \cup Thread]
    BY <1>1, <1>2, <2>1 DEF Typ
  <2>4. t_ts' \in [Thread -> Thread]
    <3>1. TakeFree(active[l], W, W = Sleepers(l)) \in SUBSET Thread
      <4>1. ts[active[l]].free \in SUBSET Thread
        BY <1>1, <1>3 DEF Typ, Tsrec
      <4> QED
        BY <1>3, <4>1 DEF TakeFree
    <3>2. PICK f \in [W -> TakeFree(active[l], W, W = Sleepers(l))] :
            t_ts' = [y \in Thread |-> IF y \in W THEN f[y] ELSE t_ts[y]]
      BY <2>1 DEF Handed
    <3>3. t_ts \in [Thread -> Thread] /\ \A y \in W : f[y] \in Thread
      BY <1>1, <3>1 DEF Typ
    <3> QED
      BY <3>2, <3>3
  <2>5. pc' \in [Thread -> PC]
    BY <1>1, <2>1 DEF Typ, PC
  <2>6. /\ spin' \in [Chain \cup Thread -> Thread \cup {NULL}]
        /\ olp' \in [Thread -> Chain \cup Thread \cup Lock \cup {NULL}]
    BY <1>1, <1>2, <2>1 DEF Typ
  <2> QED
    BY <1>1, <2>1, <2>2, <2>3, <2>4, <2>5, <2>6 DEF Typ
<1>7. LockpOK'
  BY <1>1, <1>2 DEF LockpOK
<1>8. AtOK'
  BY <1>1, <1>5 DEF AtOK
<1>9. SleepOK'
  <2> SUFFICES ASSUME NEW y \in Thread, wchan'[y] # NULL
               PROVE  /\ pc'[y] \in Walks \cup Losing \cup {"swtch"} /\ wchan'[y] = Wanted(y)'
                      /\ owner'[wchan'[y]] # NULL /\ active'[wchan'[y]] # NULL
                      /\ t_ts'[y] = active'[wchan'[y]]
    BY DEF SleepOK
  <2>1. y \notin W /\ wchan'[y] = wchan[y] /\ t_ts'[y] = t_ts[y] /\ y # t
    BY <1>2, <1>5
  <2>2. /\ pc[y] \in Walks \cup Losing \cup {"swtch"} /\ wchan[y] = Wanted(y) /\ wchan[y] \in Lock
        /\ owner[wchan[y]] # NULL /\ active[wchan[y]] # NULL /\ t_ts[y] = active[wchan[y]]
    BY <1>1, <2>1 DEF SleepOK, Typ
  <2>3. CASE wchan[y] # l
    BY <1>3, <1>5, <2>1, <2>2, <2>3
  <2>4. CASE wchan[y] = l
    <3>1. v \in Thread /\ owner'[l] = v /\ active'[l] = active[l] /\ active[l] \in Thread
      BY <1>3, <2>1, <2>4
    <3>2. owner'[l] # NULL /\ active'[l] # NULL /\ t_ts'[y] = active'[l] /\ wchan'[y] = l
      BY <2>1, <2>2, <2>4, <3>1, Consts
    <3>3. pc'[y] = pc[y] /\ Wanted(y)' = Wanted(y)
      BY <1>5, <2>1
    <3> QED
      BY <2>1, <2>2, <3>2, <3>3
  <2> QED
    BY <2>3, <2>4
<1>10. OwnOK'
  <2> SUFFICES ASSUME NEW m \in Lock, NEW u \in Thread, owner'[m] = u
               PROVE  \/ \E i \in 1..Len(Script[u]) : i < at'[u] /\ Script[u][i] = m
                      \/ /\ pc'[u] \in Walks \cup Losing \cup {"swtch"} /\ wchan'[u] = NULL
                         /\ m = Wanted(u)'
    BY DEF OwnOK
  <2>1. CASE m = l
    <3>1. u = v /\ v \in W
      BY <1>3, <2>1, Consts DEF Woke
    <3>2. /\ pc[u] \in Walks \cup Losing \cup {"swtch"} /\ wchan[u] = Wanted(u) /\ wchan[u] = l
      BY <1>1, <1>2, <3>1 DEF SleepOK
    <3>3. u # t
      BY <1>2, <1>5, <3>2
    <3> QED
      BY <1>2, <1>5, <2>1, <3>1, <3>2, <3>3
  <2>2. CASE m # l
    <3>1. owner[m] = u
      BY <1>3, <2>2
    <3>2. \/ \E i \in 1..Len(Script[u]) : i < at[u] /\ Script[u][i] = m
          \/ pc[u] \in Walks \cup Losing \cup {"swtch"} /\ wchan[u] = NULL /\ m = Wanted(u)
      BY <1>1, <3>1 DEF OwnOK
    <3>3. pc[u] \in Walks \cup Losing \cup {"swtch"} => u # t
      BY <1>5 DEF Walks, Losing
    <3>4. wchan[u] = NULL => wchan'[u] = NULL
      BY <1>2
    <3> QED
      BY <1>5, <3>2, <3>3, <3>4
  <2> QED
    BY <2>1, <2>2
<1>11. PointOK'
  <2> SUFFICES ASSUME NEW u \in Thread
               PROVE  BlockAt(u)' /\ WakeupAt(u)' /\ WalkAt(u)' /\ RankAt(u)'
    BY DEF PointOK
  <2>1. BlockAt(u) /\ WakeupAt(u) /\ WalkAt(u) /\ RankAt(u)
    BY <1>1 DEF PointOK
  <2>2. CASE u = t
    BY <1>5, <2>2 DEF BlockAt, WakeupAt, WalkAt, RankAt, Walks, Losing
  <2>3. CASE u # t
    <3>1. pc'[u] = pc[u] /\ olp'[u] = olp[u]
      BY <1>5, <2>3
    <3>2. BlockAt(u)'
      <4> SUFFICES ASSUME pc[u] = "block" PROVE spin'[Hash[Wanted(u)]] = u /\ owner'[Wanted(u)] # NULL
        BY <1>5, <3>1 DEF BlockAt
      <4>1. Wanted(u) \in Lock /\ Hash[Wanted(u)] \in Chain
        BY <1>1, WantedLock, Consts DEF AtOK
      <4>2. spin[Hash[Wanted(u)]] = u /\ owner[Wanted(u)] # NULL
        BY <2>1 DEF BlockAt
      <4> QED
        BY <1>3, <1>4, <2>3, <4>1, <4>2
    <3>3. WakeupAt(u)'
      <4> SUFFICES ASSUME pc[u] = "wakeup"
                   PROVE  /\ olp[u] \in Lock /\ spin'[Hash[olp[u]]] = u /\ owner'[olp[u]] = u
                          /\ active'[olp[u]] # NULL
        BY <3>1 DEF WakeupAt
      <4>1. /\ olp[u] \in Lock /\ spin[Hash[olp[u]]] = u /\ owner[olp[u]] = u /\ active[olp[u]] # NULL
            /\ Hash[olp[u]] \in Chain
        BY <2>1, Consts DEF WakeupAt
      <4> QED
        BY <1>3, <1>4, <2>3, <4>1
    <3>4. ASSUME pc[u] \in Walks
          PROVE  /\ cur[u] \in Thread \ W /\ lockp[cur[u]] \in (Chain \cup Thread) \ {Hash[l]}
                 /\ wchan[cur[u]] # l
      <4>1. cur[u] \in Thread /\ lockp[cur[u]] \in Chain \cup Thread /\ spin[lockp[cur[u]]] = u
        BY <1>1, <2>1, <3>4 DEF Typ, WalkAt
      <4>2. lockp[cur[u]] # Hash[l]
        BY <1>4, <2>3, <4>1
      <4>3. wchan[cur[u]] # l
        BY <1>1, <1>2, <4>1, <4>2 DEF LockpOK
      <4> QED
        BY <1>2, <4>1, <4>2, <4>3
    <3>5. ASSUME pc[u] \in Walks
          PROVE  /\ lockp'[cur[u]] = lockp[cur[u]] /\ wchan'[cur[u]] = wchan[cur[u]]
                 /\ spin'[lockp[cur[u]]] = spin[lockp[cur[u]]]
                 /\ wchan[cur[u]] # NULL => owner'[wchan[cur[u]]] = owner[wchan[cur[u]]]
      <4>1. wchan[cur[u]] # NULL => wchan[cur[u]] \in Lock
        BY <1>1, <3>4, <3>5 DEF Typ
      <4> QED
        BY <1>2, <1>3, <1>4, <3>4, <3>5, <4>1
    <3>6. ASSUME pc[u] \in Walks, own[u] \in Thread, lockp[own[u]] # Hash[l]
          PROVE  lockp'[own[u]] = lockp[own[u]]
      BY <1>2, <3>6
    <3>7. ASSUME pc[u] = "try", olp[u] = lockp[cur[u]] PROVE lockp'[own[u]] = olp[u]
      <4>1. pc[u] \in Walks /\ pc[u] \in Walks \ {"walk"}
        BY <3>7 DEF Walks
      <4>2. lockp[own[u]] = olp[u] /\ own[u] \in Thread
        BY <1>1, <2>1, <3>7, <4>1 DEF WalkAt, Typ
      <4> QED
        BY <3>4, <3>6, <3>7, <4>1, <4>2
    <3>8. ASSUME pc[u] = "inherit" PROVE spin'[lockp'[own[u]]] = u
      <4>1. pc[u] \in Walks /\ pc[u] \in Walks \ {"walk"}
        BY <3>8 DEF Walks
      <4>2. spin[lockp[own[u]]] = u /\ own[u] \in Thread /\ lockp[own[u]] \in Chain \cup Thread
        BY <1>1, <2>1, <3>8, <4>1 DEF WalkAt, Typ
      <4>3. lockp[own[u]] # Hash[l]
        BY <1>4, <2>3, <4>2
      <4> QED
        BY <1>4, <3>6, <4>1, <4>2, <4>3
    <3>9. ASSUME pc[u] = "check" PROVE spin'[olp[u]] = u
      <4>1. spin[olp[u]] = u /\ olp[u] \in Chain \cup Thread
        BY <2>1, <3>9 DEF WalkAt
      <4> QED
        BY <1>4, <2>3, <4>1
    <3>10. WalkAt(u)'
      <4>1. /\ pc[u] \in {"try", "check", "inherit"} => pc[u] \in Walks
            /\ pc[u] \in Walks \ {"walk"} => pc[u] \in Walks
        BY DEF Walks
      <4> QED
        BY <1>5, <2>1, <3>1, <3>5, <3>7, <3>8, <3>9, <4>1 DEF WalkAt
    <3>11. RankAt(u)'
      BY <1>5, <2>1, <3>1, <3>5 DEF RankAt
    <3> QED
      BY <3>2, <3>3, <3>10, <3>11
  <2> QED
    BY <2>2, <2>3
<1> QED
  BY <1>6, <1>7, <1>8, <1>9, <1>10, <1>11 DEF Ctl

\* Every step keeps the control invariant.
LEMMA NextCtl == Ctl /\ [Next]_vars => Ctl'
<1> SUFFICES ASSUME Ctl, [Next]_vars PROVE Ctl'
  OBVIOUS
<1>1. CASE UNCHANGED vars
  <2>1. UNCHANGED <<owner, spin, lockp, wchan, t_ts, active, epri, ts, pc, at, cur, own, olp>>
    BY <1>1 DEF vars, locks, sleep, pivars, walk
  <2>2. Typ' /\ LockpOK' /\ AtOK' /\ SleepOK' /\ OwnOK'
    BY <2>1 DEF Ctl, Typ, LockpOK, AtOK, SleepOK, OwnOK, Wanted
  <2>3. PointOK'
    BY <2>1 DEF Ctl, PointOK, BlockAt, WakeupAt, WalkAt, RankAt, Wanted
  <2> QED
    BY <2>2, <2>3 DEF Ctl
<1>2. ASSUME NEW t \in Thread, Step(t) PROVE Ctl'
  <2>1. CASE Enter(t)
    BY <2>1, EnterCtl
  <2>2. CASE Contend(t) \/ turnstile_lookup(t) \/ \E l \in Lock : ExitLookup(t, l)
    BY <2>2, LookupCtl
  <2>3. CASE Block(t)
    BY <2>3, BlockCtl
  <2>4. CASE Follow(t)
    BY <2>4, NoCycle, QuietCtl
  <2>5. CASE ChainEnd(t) \/ Relock(t) \/ Inherit(t)
    BY <2>5, MoveTyp, MoveCtl
  <2>6. CASE Swtch(t)
    BY <2>6, SwtchCtl
  <2>7. CASE Read(t) \/ Spin(t) \/ Lost(t) \/ Serialize(t)
    <3>1. pc'[t] # "panic"
      BY <2>7 DEF Ctl, Typ, Read, Spin, Lost, Serialize, Goto
    <3> QED
      BY <2>7, <3>1, QuietCtl
  <2>8. CASE Try(t) \/ Check(t)
    BY <2>8, TryCtl
  <2>9. CASE WakeAll(t)
    BY <2>9, WakeAllFacts, WokeCtl
  <2>10. CASE HandOver(t)
    BY <2>10, HandOverFacts, WokeCtl
  <2>11. CASE \E l \in Lock : Exit(t, l)
    BY <2>11, ExitCtl
  <2> QED
    BY <1>2, <2>1, <2>2, <2>3, <2>4, <2>5, <2>6, <2>7, <2>8, <2>9, <2>10, <2>11
    DEF Step, turnstile_block
<1> QED
  BY <1>1, <1>2 DEF Next

----------------------------------------------------------------------------
(* Conservation of turnstiles *)

\* Each turnstile is with its thread, and none is in use.
LEMMA InitPlace == Init => PlaceOK /\ CountOK
<1> SUFFICES ASSUME Init PROVE PlaceOK /\ CountOK
  OBVIOUS
<1>1. /\ \A l \in Lock : active[l] = NULL
      /\ \A t \in Thread : wchan[t] = NULL /\ t_ts[t] = t /\ ts[t].free = {}
  BY DEF Init
<1>2. CountOK
  BY <1>1 DEF CountOK
<1>3. \A x \in Thread : Attached(x) /\ ~Active(x) /\ ~Freed(x)
  BY <1>1, Consts DEF Attached, Active, Freed
<1> QED
  BY <1>1, <1>2, <1>3 DEF PlaceOK

\* The turnstiles stay where they are.
LEMMA SamePlace ==
  ASSUME PlaceOK, CountOK, UNCHANGED <<wchan, t_ts, active>>, Typ,
         \A y \in Thread : ts'[y].free = ts[y].free
  PROVE  PlaceOK' /\ CountOK'
<1>1. \A x : (Attached(x)' <=> Attached(x)) /\ (Active(x)' <=> Active(x)) /\ (Freed(x)' <=> Freed(x))
  BY DEF Attached, Active, Freed
<1>2. PlaceOK'
  BY <1>1 DEF PlaceOK
<1>3. CountOK'
  <2> SUFFICES ASSUME NEW l \in Lock, active[l] # NULL
               PROVE  Cardinality(Sleepers(l)') = Cardinality(ts'[active[l]].free) + 1
    BY DEF CountOK
  <2>1. Sleepers(l)' = Sleepers(l) /\ active[l] \in Thread
    BY DEF Sleepers, Typ
  <2> QED
    BY <2>1 DEF CountOK
<1> QED
  BY <1>2, <1>3

\* Sets of threads are finite.
LEMMA Finite ==
  ASSUME NEW S \in SUBSET Thread
  PROVE  IsFiniteSet(S) /\ Cardinality(S) \in Nat
  BY FS_Subset, FS_CardinalityType, TurnstileAssumption

\* The turnstile of a thread that blocks goes to the chain or to the freelist.
LEMMA BlockPlace ==
  ASSUME Ctl, PlaceOK, CountOK, NEW t \in Thread, Block(t)
  PROVE  PlaceOK' /\ CountOK'
<1>0. PICK l, x, s : l = Wanted(t) /\ x = active[l] /\ s = t_ts[t]
  OBVIOUS
<1>1. Typ /\ SleepOK
  BY DEF Ctl
<1>2. /\ l \in Lock /\ wchan[t] = NULL /\ wchan' = [wchan EXCEPT ![t] = l]
      /\ x = NULL => active' = [active EXCEPT ![l] = s] /\ t_ts' = t_ts /\ ts' = ts
      /\ x # NULL => /\ active' = active /\ t_ts' = [t_ts EXCEPT ![t] = x]
                     /\ x \in Thread /\ ts'[x].free = ts[x].free \cup {s}
                     /\ \A y \in Thread : y # x => ts'[y] = ts[y]
  BY <1>0, BlockFacts
<1>3. /\ l # NULL /\ s \in Thread /\ s # NULL /\ wchan'[t] = l
      /\ \A u \in Thread : u # t => wchan'[u] = wchan[u] /\ t_ts'[u] = t_ts[u]
  BY <1>0, <1>1, <1>2, Consts DEF Typ
<1>4. Attached(s)
  BY <1>0, <1>2 DEF Attached
<1>5. ~Active(s) /\ ~Freed(s) /\ \A y \in Thread : s \notin ts[y].free
  BY <1>3, <1>4 DEF PlaceOK, Freed
<1>6. \A y \in Thread : Attached(y)' <=> Attached(y) /\ y # s
  <2> SUFFICES ASSUME NEW y \in Thread PROVE Attached(y)' <=> Attached(y) /\ y # s
    OBVIOUS
  <2>1. ASSUME Attached(y)' PROVE Attached(y) /\ y # s
    <3>1. PICK u \in Thread : wchan'[u] = NULL /\ t_ts'[u] = y
      BY <2>1 DEF Attached
    <3>2. u # t /\ wchan[u] = NULL /\ t_ts[u] = y
      BY <1>3, <3>1
    <3>3. y # s
      BY <1>0, <1>2, <3>2 DEF PlaceOK
    <3> QED
      BY <3>2, <3>3 DEF Attached
  <2>2. ASSUME Attached(y), y # s PROVE Attached(y)'
    <3>1. PICK u \in Thread : wchan[u] = NULL /\ t_ts[u] = y
      BY <2>2 DEF Attached
    <3>2. u # t
      BY <1>0, <2>2, <3>1
    <3> QED
      BY <1>3, <3>1, <3>2 DEF Attached
  <2> QED
    BY <2>1, <2>2
<1>7. \A u, w \in Thread : wchan'[u] = NULL /\ wchan'[w] = NULL /\ t_ts'[u] = t_ts'[w] => u = w
  BY <1>3 DEF PlaceOK
<1>8. \A m \in Lock : m # l => Sleepers(m)' = Sleepers(m)
  BY <1>2, <1>3, Consts DEF Sleepers
<1>9. Sleepers(l)' = Sleepers(l) \cup {t} /\ t \notin Sleepers(l) /\ Sleepers(l) \in SUBSET Thread
  BY <1>2, <1>3 DEF Sleepers
<1>10. CASE x = NULL
  <2>1. /\ \A m \in Lock : active'[m] = IF m = l THEN s ELSE active[m]
        /\ active[l] = NULL /\ ts' = ts
    BY <1>0, <1>1, <1>2, <1>10 DEF Typ
  <2>2. \A y \in Thread : (Active(y)' <=> Active(y) \/ y = s) /\ (Freed(y)' <=> Freed(y))
    <3>1. \A y \in Thread : Freed(y)' <=> Freed(y)
      BY <2>1 DEF Freed
    <3>2. \A y \in Thread : Active(y)' => Active(y) \/ y = s
      BY <2>1 DEF Active
    <3>3. \A y \in Thread : Active(y) => Active(y)'
      <4> SUFFICES ASSUME NEW y \in Thread, Active(y) PROVE Active(y)'
        OBVIOUS
      <4>1. PICK m \in Lock : active[m] = y
        BY DEF Active
      <4>2. m # l
        BY <2>1, <4>1, Consts
      <4> QED
        BY <2>1, <4>1, <4>2 DEF Active
    <3>4. Active(s)'
      BY <1>2, <2>1 DEF Active
    <3> QED
      BY <3>1, <3>2, <3>3, <3>4
  <2>3. \A m, k \in Lock : active'[m] # NULL /\ active'[m] = active'[k] => m = k
    BY <1>5, <2>1 DEF PlaceOK, Active
  <2>4. PlaceOK'
    BY <1>5, <1>6, <1>7, <2>1, <2>2, <2>3 DEF PlaceOK
  <2>5. CountOK'
    <3> SUFFICES ASSUME NEW m \in Lock, active'[m] # NULL
                 PROVE  Cardinality(Sleepers(m)') = Cardinality(ts'[active'[m]].free) + 1
      BY DEF CountOK
    <3>1. CASE m # l
      BY <1>8, <2>1, <3>1 DEF CountOK
    <3>2. CASE m = l
      <4>1. Sleepers(l) = {}
        BY <1>1, <1>3, <2>1 DEF SleepOK, Sleepers
      <4>2. Sleepers(l)' = {t} /\ Cardinality({t}) = 1
        BY <1>9, <4>1, FS_Singleton
      <4>3. ts[s].free = {} /\ Cardinality({}) = 0
        BY <1>3, <1>5, FS_EmptySet DEF PlaceOK
      <4> QED
        BY <1>2, <2>1, <3>2, <4>2, <4>3
    <3> QED
      BY <3>1, <3>2
  <2> QED
    BY <2>4, <2>5
<1>11. CASE x # NULL
  <2>1. /\ active' = active /\ x \in Thread /\ ts'[x].free = ts[x].free \cup {s}
        /\ \A y \in Thread : y # x => ts'[y].free = ts[y].free
    BY <1>2, <1>11
  <2>2. \A y \in Thread : Active(y)' <=> Active(y)
    BY <2>1 DEF Active
  <2>3. \A y \in Thread : Freed(y)' <=> Freed(y) \/ y = s
    BY <2>1 DEF Freed
  <2>4. \A y, z, w \in Thread : y \in ts'[z].free /\ y \in ts'[w].free => z = w
    BY <1>5, <2>1 DEF PlaceOK
  <2>5. Active(x)
    BY <1>0, <1>2 DEF Active
  <2>6. \A y \in Thread : ts'[y].free # {} => Active(y)'
    BY <2>1, <2>2, <2>5 DEF PlaceOK
  <2>7. \A m, k \in Lock : active'[m] # NULL /\ active'[m] = active'[k] => m = k
    BY <2>1 DEF PlaceOK
  <2>8. \A y \in Thread : /\ Attached(y)' \/ Active(y)' \/ Freed(y)'
                          /\ ~(Attached(y)' /\ Active(y)')
                          /\ ~(Attached(y)' /\ Freed(y)')
                          /\ ~(Active(y)' /\ Freed(y)')
    BY <1>5, <1>6, <2>2, <2>3 DEF PlaceOK
  <2>9. PlaceOK'
    BY <1>7, <2>4, <2>6, <2>7, <2>8 DEF PlaceOK
  <2>10. CountOK'
    <3> SUFFICES ASSUME NEW m \in Lock, active'[m] # NULL
                 PROVE  Cardinality(Sleepers(m)') = Cardinality(ts'[active'[m]].free) + 1
      BY DEF CountOK
    <3>1. CASE m # l
      <4>1. active[m] \in Thread /\ active[m] # x
        BY <1>0, <1>1, <1>2, <2>1, <3>1 DEF Typ, PlaceOK
      <4> QED
        BY <1>8, <2>1, <3>1, <4>1 DEF CountOK
    <3>2. CASE m = l
      <4>1. active'[m] = x /\ Cardinality(Sleepers(l)) = Cardinality(ts[x].free) + 1
        BY <1>0, <1>2, <1>11, <2>1, <3>2 DEF CountOK
      <4>2. ts[x].free \in SUBSET Thread
        BY <1>1, <2>1 DEF Typ, Tsrec
      <4>3. Cardinality(Sleepers(l) \cup {t}) = Cardinality(Sleepers(l)) + 1
        BY <1>9, Finite, FS_AddElement
      <4>4. Cardinality(ts[x].free \cup {s}) = Cardinality(ts[x].free) + 1 /\ Cardinality(ts[x].free) \in Nat
        BY <1>5, <2>1, <4>2, Finite, FS_AddElement
      <4> QED
        BY <1>9, <2>1, <3>2, <4>1, <4>3, <4>4
    <3> QED
      BY <3>1, <3>2
  <2> QED
    BY <2>9, <2>10
<1> QED
  BY <1>10, <1>11

\* Threads that take different turnstiles, as many as there are, take them all.
LEMMA TakeAll ==
  ASSUME NEW W \in SUBSET Thread, NEW T \in SUBSET Thread, NEW f \in [W -> T],
         \A a, b \in W : a # b => f[a] # f[b], Cardinality(W) = Cardinality(T)
  PROVE  {f[y] : y \in W} = T
<1>1. f \in Injection(W, T)
  BY DEF Injection, IsInjective
<1>2. f \in Surjection(W, T)
  BY <1>1, Finite, FS_Injection
<1> QED
  BY <1>2 DEF Surjection

\* Whoever is woken takes a turnstile off the freelist, the last the active one.
LEMMA WokePlace ==
  ASSUME Ctl, PlaceOK, CountOK, NEW t \in Thread, NEW l, NEW W, NEW v, Woke(t, l, W, v)
  PROVE  PlaceOK' /\ CountOK'
<1>0. PICK x, F : x = active[l] /\ F = ts[x].free
  OBVIOUS
<1>1. Typ /\ SleepOK
  BY DEF Ctl
<1>2. /\ l \in Lock /\ l # NULL /\ W \in SUBSET Thread /\ x \in Thread /\ F \in SUBSET Thread
      /\ \A y \in W : wchan[y] = l /\ wchan'[y] = NULL
      /\ \A y \in Thread \ W : wchan'[y] = wchan[y] /\ t_ts'[y] = t_ts[y]
      /\ \A m \in Lock : m # l => active'[m] = active[m]
      /\ active'[l] = IF W = Sleepers(l) THEN NULL ELSE x
  <2>1. x \in Thread
    BY <1>0, WokeFacts
  <2>2. ts[x].free \in SUBSET Thread
    BY <1>1, <2>1 DEF Typ, Tsrec
  <2> QED
    BY <1>0, <2>1, <2>2, WokeFacts
<1>3. PICK f \in [W -> F \cup (IF W = Sleepers(l) THEN {x} ELSE {})] :
        /\ \A a, b \in W : a # b => f[a] # f[b]
        /\ t_ts' = [y \in Thread |-> IF y \in W THEN f[y] ELSE t_ts[y]]
        /\ ts'[x].free = F \ {f[y] : y \in W}
  BY <1>0 DEF Woke, Handed, TakeFree
<1>4. PICK G : G = {f[y] : y \in W}
  OBVIOUS
<1>5. \A y \in Thread : y # x => ts'[y] = ts[y]
  BY <1>0 DEF Woke
<1>6. /\ \A y \in W : t_ts'[y] = f[y] /\ f[y] \in G
      /\ G \in SUBSET (F \cup (IF W = Sleepers(l) THEN {x} ELSE {}))
      /\ ts'[x].free = F \ G
  BY <1>2, <1>3, <1>4
<1>7. G \in SUBSET Thread
  BY <1>2, <1>6
<1>8. /\ Active(x) /\ ~Freed(x) /\ ~Attached(x) /\ x \notin F
      /\ \A y \in F : Freed(y) /\ ~Active(y) /\ ~Attached(y)
      /\ \A y \in F : \A z \in Thread : y \in ts[z].free => z = x
  <2>1. Active(x)
    BY <1>0, <1>2 DEF Active
  <2>2. \A y \in F : Freed(y)
    BY <1>0, <1>2 DEF Freed
  <2> QED
    BY <1>0, <1>2, <2>1, <2>2 DEF PlaceOK
<1>9. W = Sleepers(l) => G = F \cup {x}
  <2> SUFFICES ASSUME W = Sleepers(l) PROVE G = F \cup {x}
    OBVIOUS
  <2>1. Cardinality(W) = Cardinality(F) + 1
    BY <1>0, <1>2, Consts DEF CountOK
  <2>2. Cardinality(F \cup {x}) = Cardinality(F) + 1
    BY <1>2, <1>8, Finite, FS_AddElement
  <2>3. f \in [W -> F \cup {x}] /\ F \cup {x} \in SUBSET Thread
    BY <1>2, <1>3
  <2>4. PICK T \in SUBSET Thread : T = F \cup {x}
    BY <2>3
  <2>5. {f[y] : y \in W} = T
    <3>1. f \in [W -> T] /\ Cardinality(W) = Cardinality(T)
      BY <2>1, <2>2, <2>3, <2>4
    <3>2. W \in SUBSET Thread /\ \A a, b \in W : a # b => f[a] # f[b]
      BY <1>2, <1>3
    <3>3. \A X \in SUBSET Thread, Y \in SUBSET Thread : \A g \in [X -> Y] :
            (\A a, b \in X : a # b => g[a] # g[b]) /\ Cardinality(X) = Cardinality(Y)
            => {g[y] : y \in X} = Y
      BY TakeAll
    <3> QED
      BY <2>4, <3>1, <3>2, <3>3
  <2> QED
    BY <1>4, <2>4, <2>5
<1>10. \A y \in Thread : Attached(y)' <=> Attached(y) \/ y \in G
  <2> SUFFICES ASSUME NEW y \in Thread PROVE Attached(y)' <=> Attached(y) \/ y \in G
    OBVIOUS
  <2>1. ASSUME Attached(y)' PROVE Attached(y) \/ y \in G
    <3>1. PICK u \in Thread : wchan'[u] = NULL /\ t_ts'[u] = y
      BY <2>1 DEF Attached
    <3>2. CASE u \in W
      BY <1>6, <3>1, <3>2
    <3>3. CASE u \notin W
      BY <1>2, <3>1, <3>3 DEF Attached
    <3> QED
      BY <3>2, <3>3
  <2>2. ASSUME y \in G PROVE Attached(y)'
    <3>1. PICK u \in W : f[u] = y
      BY <1>4, <2>2
    <3> QED
      BY <1>2, <1>6, <3>1 DEF Attached
  <2>3. ASSUME Attached(y) PROVE Attached(y)'
    <3>1. PICK u \in Thread : wchan[u] = NULL /\ t_ts[u] = y
      BY <2>3 DEF Attached
    <3>2. u \notin W
      BY <1>2, <3>1
    <3> QED
      BY <1>2, <3>1, <3>2 DEF Attached
  <2> QED
    BY <2>1, <2>2, <2>3
<1>11. \A y \in Thread : Freed(y)' <=> Freed(y) /\ y \notin G
  <2> SUFFICES ASSUME NEW y \in Thread PROVE Freed(y)' <=> Freed(y) /\ y \notin G
    OBVIOUS
  <2>1. ASSUME Freed(y)' PROVE Freed(y) /\ y \notin G
    <3>1. PICK z \in Thread : y \in ts'[z].free
      BY <2>1 DEF Freed
    <3>2. CASE z = x
      BY <1>0, <1>2, <1>6, <3>1, <3>2 DEF Freed
    <3>3. CASE z # x
      <4>1. y \in ts[z].free
        BY <1>5, <3>1, <3>3
      <4> QED
        BY <1>6, <1>8, <3>3, <4>1 DEF Freed
    <3> QED
      BY <3>2, <3>3
  <2>2. ASSUME Freed(y), y \notin G PROVE Freed(y)'
    <3>1. PICK z \in Thread : y \in ts[z].free
      BY <2>2 DEF Freed
    <3>2. CASE z = x
      BY <1>0, <1>2, <1>6, <2>2, <3>1, <3>2 DEF Freed
    <3>3. CASE z # x
      BY <1>5, <3>1, <3>3 DEF Freed
    <3> QED
      BY <3>2, <3>3
  <2> QED
    BY <2>1, <2>2
<1>12. \A y \in Thread : Active(y)' <=> Active(y) /\ y \notin G
  <2> SUFFICES ASSUME NEW y \in Thread PROVE Active(y)' <=> Active(y) /\ y \notin G
    OBVIOUS
  <2>1. ASSUME Active(y)' PROVE Active(y) /\ y \notin G
    <3>1. PICK m \in Lock : active'[m] = y
      BY <2>1 DEF Active
    <3>2. active[m] = y /\ (m = l => W # Sleepers(l))
      BY <1>0, <1>2, <3>1, Consts
    <3>3. Active(y) /\ y \notin F
      BY <1>8, <3>2 DEF Active
    <3>4. y = x => m = l
      BY <1>0, <1>2, <3>2, Consts DEF PlaceOK
    <3> QED
      BY <1>6, <3>2, <3>3, <3>4
  <2>2. ASSUME Active(y), y \notin G PROVE Active(y)'
    <3>1. PICK m \in Lock : active[m] = y
      BY <2>2 DEF Active
    <3>2. m = l => W # Sleepers(l)
      BY <1>0, <1>9, <2>2, <3>1
    <3>3. active'[m] = y
      BY <1>0, <1>2, <3>1, <3>2
    <3> QED
      BY <3>3 DEF Active
  <2> QED
    BY <2>1, <2>2
<1>13. \A a, b \in Thread : wchan'[a] = NULL /\ wchan'[b] = NULL /\ t_ts'[a] = t_ts'[b] => a = b
  <2>1. \A a \in Thread : wchan'[a] = NULL =>
           \/ a \in W /\ t_ts'[a] \in G
           \/ a \notin W /\ wchan[a] = NULL /\ t_ts'[a] = t_ts[a] /\ t_ts[a] \notin G
    <3>1. \A a \in Thread : wchan[a] = NULL => t_ts[a] \notin G
      BY <1>6, <1>8 DEF Attached
    <3> QED
      BY <1>2, <1>6, <3>1
  <2>2. \A a, b \in W : t_ts'[a] = t_ts'[b] => a = b
    BY <1>3, <1>6
  <2> QED
    BY <2>1, <2>2 DEF PlaceOK
<1>14. \A m, k \in Lock : active'[m] # NULL /\ active'[m] = active'[k] => m = k
  <2>1. \A m \in Lock : active'[m] # NULL => active'[m] = active[m]
    BY <1>0, <1>2
  <2> QED
    BY <2>1 DEF PlaceOK
<1>15. \A y, z, w \in Thread : y \in ts'[z].free /\ y \in ts'[w].free => z = w
  <2>1. \A z \in Thread : ts'[z].free \subseteq ts[z].free
    BY <1>0, <1>5, <1>6
  <2> QED
    BY <2>1 DEF PlaceOK
<1>16. \A y \in Thread : ts'[y].free # {} => Active(y)'
  <2> SUFFICES ASSUME NEW y \in Thread, ts'[y].free # {} PROVE Active(y)'
    OBVIOUS
  <2>1. CASE y = x
    <3>1. W # Sleepers(l)
      BY <1>6, <1>9, <2>1
    <3> QED
      BY <1>2, <2>1, <3>1 DEF Active
  <2>2. CASE y # x
    <3>1. Active(y)
      BY <1>5, <2>2 DEF PlaceOK
    <3>2. y \notin G
      BY <1>6, <1>8, <2>2, <3>1
    <3> QED
      BY <1>12, <3>1, <3>2
  <2> QED
    BY <2>1, <2>2
<1>17. PlaceOK'
  <2>1. \A y \in Thread : /\ Attached(y)' \/ Active(y)' \/ Freed(y)'
                          /\ ~(Attached(y)' /\ Active(y)')
                          /\ ~(Attached(y)' /\ Freed(y)')
                          /\ ~(Active(y)' /\ Freed(y)')
    BY <1>10, <1>11, <1>12 DEF PlaceOK
  <2> QED
    BY <1>13, <1>14, <1>15, <1>16, <2>1 DEF PlaceOK
<1>18. CountOK'
  <2> SUFFICES ASSUME NEW m \in Lock, active'[m] # NULL
               PROVE  Cardinality(Sleepers(m)') = Cardinality(ts'[active'[m]].free) + 1
    BY DEF CountOK
  <2>1. CASE m # l
    <3>1. active'[m] = active[m] /\ active[m] \in Thread /\ active[m] # x
      BY <1>0, <1>1, <1>2, <2>1 DEF Typ, PlaceOK
    <3>2. Sleepers(m)' = Sleepers(m)
      BY <1>2, <2>1, Consts DEF Sleepers
    <3> QED
      BY <1>5, <3>1, <3>2 DEF CountOK
  <2>2. CASE m = l
    <3>1. W # Sleepers(l) /\ active'[l] = x /\ active[l] # NULL
      BY <1>0, <1>2, <2>2, Consts
    <3>2. v \in Thread /\ W = {v} /\ v \in Sleepers(l)
      BY <3>1 DEF Woke
    <3>3. Sleepers(l)' = Sleepers(l) \ {v} /\ Sleepers(l) \in SUBSET Thread
      BY <1>2, <3>2 DEF Sleepers
    <3>4. G = {f[v]} /\ f[v] \in F
      BY <1>4, <1>6, <3>1, <3>2
    <3>5. Cardinality(Sleepers(l) \ {v}) = Cardinality(Sleepers(l)) - 1
      BY <3>2, <3>3, Finite, FS_RemoveElement
    <3>6. Cardinality(F \ {f[v]}) = Cardinality(F) - 1 /\ Cardinality(F) \in Nat
      BY <1>2, <3>4, Finite, FS_RemoveElement
    <3>7. Cardinality(Sleepers(l)) = Cardinality(F) + 1
      BY <1>0, <1>2, <3>1 DEF CountOK
    <3>8. ts'[active'[m]].free = F \ {f[v]}
      BY <1>6, <2>2, <3>1, <3>4
    <3> QED
      BY <2>2, <3>3, <3>5, <3>6, <3>7, <3>8
  <2> QED
    BY <2>1, <2>2
<1> QED
  BY <1>17, <1>18

\* The steps that change locks, sleepers or priorities.
LEMMA StepKinds ==
  ASSUME NEW t \in Thread, Step(t)
  PROVE  \/ Enter(t) \/ Block(t) \/ Inherit(t) \/ WakeAll(t) \/ HandOver(t)
         \/ \E l \in Lock : Exit(t, l)
         \/ UNCHANGED <<owner, sleep, pivars>>
<1>1. CASE Contend(t) \/ turnstile_lookup(t) \/ \E l \in Lock : ExitLookup(t, l)
  BY <1>1 DEF Contend, turnstile_lookup, ExitLookup
<1>2. CASE Follow(t) \/ ChainEnd(t) \/ Swtch(t) \/ Read(t)
  BY <1>2 DEF Follow, ChainEnd, Swtch, Read
<1>3. CASE Try(t) \/ Check(t) \/ Spin(t) \/ Lost(t) \/ Serialize(t) \/ Relock(t)
  BY <1>3 DEF Try, Check, Spin, Lost, Serialize, Relock
<1> QED
  BY <1>1, <1>2, <1>3 DEF Step, turnstile_block

\* Every step keeps turnstiles in one place each, and enough of them.
LEMMA NextPlace ==
  ASSUME Ctl, PlaceOK, CountOK, [Next]_vars
  PROVE  PlaceOK' /\ CountOK'
<1>1. Typ
  BY DEF Ctl
<1>2. CASE UNCHANGED <<sleep, pivars>>
  BY <1>1, <1>2, SamePlace DEF sleep, pivars
<1>3. CASE UNCHANGED vars
  BY <1>2, <1>3 DEF vars
<1>4. ASSUME NEW t \in Thread, Step(t) PROVE PlaceOK' /\ CountOK'
  <2>1. CASE Enter(t) \/ \E l \in Lock : Exit(t, l)
    BY <1>2, <2>1 DEF Enter, Exit
  <2>2. CASE Block(t)
    BY <2>2, BlockPlace
  <2>3. CASE Inherit(t)
    <3>1. UNCHANGED sleep
      BY <2>3 DEF Inherit
    <3>2. \A y \in Thread : ts'[y].free = ts[y].free
      <4>1. /\ ts' = InheritTs(ts, t_ts[cur[t]], own[t], DISP_PRIO(cur[t]))
            /\ ts \in [Thread -> Tsrec] /\ t_ts[cur[t]] \in Thread /\ own[t] \in Thread
            /\ DISP_PRIO(cur[t]) \in Nat
        BY <2>3, InheritFacts
      <4> QED
        BY <4>1, InheritTsIs DEF Inherits
    <3> QED
      BY <1>1, <3>1, <3>2, SamePlace DEF sleep
  <2>4. CASE WakeAll(t)
    BY <2>4, WakeAllFacts, WokePlace
  <2>5. CASE HandOver(t)
    BY <2>5, HandOverFacts, WokePlace
  <2>6. CASE UNCHANGED <<owner, sleep, pivars>>
    BY <1>2, <2>6
  <2> QED
    BY <1>4, <2>1, <2>2, <2>3, <2>4, <2>5, <2>6, StepKinds
<1> QED
  BY <1>3, <1>4 DEF Next

\* A set whose members are all the same has none or one.
LEMMA AtMostOne ==
  ASSUME NEW S, \A a, b \in S : a = b
  PROVE  Cardinality(S) = IF S = {} THEN 0 ELSE 1
<1>1. CASE S = {}
  BY <1>1, FS_EmptySet
<1>2. CASE S # {}
  <2>1. PICK a \in S : S = {a}
    BY <1>2
  <2> QED
    BY <1>2, <2>1, FS_Singleton
<1> QED
  BY <1>1, <1>2

\* The type invariant follows.
LEMMA InvType == Ctl /\ PlaceOK /\ CountOK => TypeOK
<1> SUFFICES ASSUME Ctl, PlaceOK, CountOK PROVE TypeOK
  OBVIOUS
<1>1. Typ /\ SleepOK
  BY DEF Ctl
<1>2. ASSUME NEW l \in Lock
      PROVE  IF active[l] = NULL THEN Sleepers(l) = {}
             ELSE /\ Cardinality(Sleepers(l)) = Cardinality(ts[active[l]].free) + 1
                  /\ \A t \in Sleepers(l) : t_ts[t] = active[l]
  <2>1. l # NULL
    BY Consts
  <2>2. \A t \in Sleepers(l) : active[l] # NULL /\ t_ts[t] = active[l]
    BY <1>1, <2>1 DEF SleepOK, Sleepers
  <2> QED
    BY <2>2 DEF CountOK
<1>3. ASSUME NEW x \in Thread
      PROVE  Cardinality({t \in Thread : wchan[t] = NULL /\ t_ts[t] = x})
             + Cardinality({l \in Lock : active[l] = x})
             + Cardinality({y \in Thread : x \in ts[y].free}) = 1
  <2> DEFINE A == {t \in Thread : wchan[t] = NULL /\ t_ts[t] = x}
             B == {l \in Lock : active[l] = x}
             C == {y \in Thread : x \in ts[y].free}
  <2>1. \A a, b \in A : a = b
    BY DEF PlaceOK
  <2>2. \A a, b \in B : a = b
    BY Consts DEF PlaceOK
  <2>3. \A a, b \in C : a = b
    BY DEF PlaceOK
  <2>4. (A # {} <=> Attached(x)) /\ (B # {} <=> Active(x)) /\ (C # {} <=> Freed(x))
    BY DEF Attached, Active, Freed
  <2> HIDE DEF A, B, C
  <2>5. /\ Cardinality(A) = IF A = {} THEN 0 ELSE 1
        /\ Cardinality(B) = IF B = {} THEN 0 ELSE 1
        /\ Cardinality(C) = IF C = {} THEN 0 ELSE 1
    BY <2>1, <2>2, <2>3, AtMostOne
  <2>6. /\ Attached(x) \/ Active(x) \/ Freed(x)
        /\ ~(Attached(x) /\ Active(x)) /\ ~(Attached(x) /\ Freed(x)) /\ ~(Active(x) /\ Freed(x))
    BY DEF PlaceOK
  <2>7. Cardinality(A) + Cardinality(B) + Cardinality(C) = 1
    BY <2>4, <2>5, <2>6
  <2> QED
    BY <2>7 DEF A, B, C
<1> QED
  BY <1>1, <1>2, <1>3 DEF TypeOK, Typ

----------------------------------------------------------------------------
(* What is inherited *)

\* A turnstile that is inherited from is that of a lock the heir owns.
LEMMA HeirOwns ==
  ASSUME Ctl, PlaceOK, BoostOK, NEW x \in Thread, NEW l \in Lock, active[l] = x,
         ts[x].inheritor # NULL
  PROVE  owner[l] = ts[x].inheritor
<1>1. ts[x].inheritor \in Thread
  BY DEF Ctl, Typ, Tsrec
<1>2. PICK m \in Lock : active[m] = x /\ owner[m] = ts[x].inheritor
  BY <1>1 DEF BoostOK, t_prioinv
<1>3. m = l
  BY <1>2, Consts DEF PlaceOK
<1> QED
  BY <1>2, <1>3

\* Nothing is inherited from the locks that t enters, exits or blocks on.
LEMMA QuietBoost ==
  ASSUME Ctl, BoostOK, NEW t \in Thread,
         Enter(t) \/ (\E l \in Lock : Exit(t, l)) \/ Block(t) \/ UNCHANGED <<owner, sleep, pivars>>
  PROVE  BoostOK'
<1>1. Typ
  BY DEF Ctl
<1>2. /\ epri' = epri
      /\ \A y \in Thread : ts'[y].inheritor = ts[y].inheritor /\ ts'[y].epri = ts[y].epri
  BY BlockFacts DEF Enter, Exit, Block, pivars
<1>3. \A l \in Lock : active[l] # NULL /\ owner[l] # NULL => active'[l] = active[l] /\ owner'[l] = owner[l]
  <2>1. CASE Enter(t)
    BY <1>1, <2>1 DEF Enter, Typ, sleep
  <2>2. CASE \E l \in Lock : Exit(t, l)
    BY <1>1, <2>2 DEF Exit, Typ, sleep, HasWaiters
  <2>3. CASE Block(t)
    <3>1. owner' = owner
      BY <2>3 DEF Block
    <3>2. /\ Wanted(t) \in Lock
          /\ \/ active' = active
             \/ active[Wanted(t)] = NULL /\ active' = [active EXCEPT ![Wanted(t)] = t_ts[t]]
      BY <2>3, BlockFacts
    <3> QED
      BY <1>1, <3>1, <3>2 DEF Typ
  <2>4. CASE UNCHANGED <<owner, sleep, pivars>>
    BY <2>4 DEF sleep
  <2> QED
    BY <2>1, <2>2, <2>3, <2>4
<1>4. \A u \in Thread : t_prioinv(u)' = t_prioinv(u) /\ t_prioinv(u) \in SUBSET Thread
  BY <1>2 DEF t_prioinv
<1> SUFFICES ASSUME NEW u \in Thread
             PROVE  /\ epri'[u] <= Pri[u] \/ \E x \in t_prioinv(u)' : ts'[x].epri = epri'[u]
                    /\ \A x \in t_prioinv(u)' : ts'[x].epri <= Pri[u] \/ ts'[x].epri <= epri'[u]
                    /\ \A x \in t_prioinv(u)' : \E l \in Lock : active'[l] = x /\ owner'[l] = u
  BY DEF BoostOK
<1>5. /\ epri[u] <= Pri[u] \/ \E x \in t_prioinv(u) : ts[x].epri = epri[u]
      /\ \A x \in t_prioinv(u) : ts[x].epri <= Pri[u] \/ ts[x].epri <= epri[u]
      /\ \A x \in t_prioinv(u) : \E l \in Lock : active[l] = x /\ owner[l] = u
  BY DEF BoostOK
<1>6. /\ epri'[u] <= Pri[u] \/ \E x \in t_prioinv(u)' : ts'[x].epri = epri'[u]
      /\ \A x \in t_prioinv(u)' : ts'[x].epri <= Pri[u] \/ ts'[x].epri <= epri'[u]
  BY <1>2, <1>4, <1>5
<1>7. \A x \in t_prioinv(u)' : \E l \in Lock : active'[l] = x /\ owner'[l] = u
  BY <1>3, <1>4, <1>5, Consts
<1> QED
  BY <1>6, <1>7

\* The owner inherits from one turnstile more, or more from it.
LEMMA InheritBoost ==
  ASSUME Ctl, PlaceOK, BoostOK, NEW t \in Thread, Inherit(t)
  PROVE  BoostOK'
<1>0. PICK c, o, x, p, l : /\ c = cur[t] /\ o = own[t] /\ x = t_ts[c] /\ p = DISP_PRIO(c) /\ l = wchan[c]
  OBVIOUS
<1>1. /\ c \in Thread /\ o \in Thread /\ x \in Thread /\ p \in Nat /\ l \in Lock
      /\ active[l] = x /\ owner[l] = o /\ Pri[o] \in Nat
      /\ ts' = InheritTs(ts, x, o, p) /\ epri' = InheritPri(epri, o, p)
      /\ ts \in [Thread -> Tsrec] /\ epri \in [Thread -> Nat]
  BY <1>0, InheritFacts
<1>2. owner' = owner /\ active' = active
  BY DEF Inherit, sleep
<1>3. Inherits(ts, ts', x, o, p)
  BY <1>1, InheritTsIs
<1>4. /\ \A y \in Thread : y # o => epri'[y] = epri[y]
      /\ epri'[o] = IF p > Pri[o] /\ p > epri[o] THEN p ELSE epri[o]
  <2> DEFINE V == InheritPri(epri, o, p)
  <2>0. epri \in [Thread -> Nat] /\ o \in Thread /\ p \in Nat
    BY <1>1
  <2>1. /\ V \in [Thread -> Nat]
        /\ \A y \in Thread : y # o => V[y] = epri[y]
        /\ V[o] = IF p > Pri[o] /\ p > epri[o] THEN p ELSE epri[o]
    BY <2>0, InheritPriIs
  <2>2. epri' = V
    BY <1>1
  <2> HIDE DEF V
  <2> QED
    BY <2>1, <2>2
<1>5. ts[x].inheritor = NULL \/ ts[x].inheritor = o
  BY <1>1, HeirOwns
<1>6. /\ \A y \in Thread : ts[y].epri \in Nat /\ epri[y] \in Nat /\ Pri[y] \in Nat
      /\ ts'[x].epri \in Nat
  BY <1>1, <1>3, Consts DEF Tsrec, Inherits
<1> SUFFICES ASSUME NEW u \in Thread
             PROVE  /\ epri'[u] <= Pri[u] \/ \E y \in t_prioinv(u)' : ts'[y].epri = epri'[u]
                    /\ \A y \in t_prioinv(u)' : ts'[y].epri <= Pri[u] \/ ts'[y].epri <= epri'[u]
                    /\ \A y \in t_prioinv(u)' : \E m \in Lock : active'[m] = y /\ owner'[m] = u
  BY DEF BoostOK
<1>7. /\ epri[u] <= Pri[u] \/ \E y \in t_prioinv(u) : ts[y].epri = epri[u]
      /\ \A y \in t_prioinv(u) : ts[y].epri <= Pri[u] \/ ts[y].epri <= epri[u]
      /\ \A y \in t_prioinv(u) : \E m \in Lock : active[m] = y /\ owner[m] = u
  BY DEF BoostOK
<1>8. CASE p <= Pri[o]
  <2>1. ts' = ts /\ epri'[u] = epri[u]
    BY <1>1, <1>3, <1>4, <1>8 DEF Inherits
  <2>2. t_prioinv(u)' = t_prioinv(u)
    BY <2>1 DEF t_prioinv
  <2> QED
    BY <1>2, <1>7, <2>1, <2>2
<1>9. CASE p > Pri[o]
  <2>1. /\ ts'[x].inheritor = o /\ \A y \in Thread : y # x => ts'[y] = ts[y]
        /\ ts'[x].epri = IF ts[x].inheritor # NULL /\ ts[x].epri >= p THEN ts[x].epri ELSE p
    BY <1>3, <1>9 DEF Inherits
  <2>2. CASE u # o
    <3>1. t_prioinv(u)' = t_prioinv(u) /\ x \notin t_prioinv(u) /\ t_prioinv(u) \in SUBSET Thread
      BY <1>5, <2>1, <2>2, Consts DEF t_prioinv
    <3>2. epri'[u] = epri[u] /\ \A y \in t_prioinv(u) : ts'[y] = ts[y]
      BY <1>4, <2>1, <2>2, <3>1
    <3> QED
      BY <1>2, <1>7, <3>1, <3>2
  <2>3. CASE u = o
    <3>1. /\ t_prioinv(u)' = t_prioinv(u) \cup {x} /\ t_prioinv(u) \in SUBSET Thread
          /\ ts[x].inheritor # NULL => x \in t_prioinv(u)
      BY <1>1, <1>5, <2>1, <2>3 DEF t_prioinv
    <3>2. x \in t_prioinv(u) => ts[x].inheritor # NULL
      BY Consts DEF t_prioinv
    <3>3. \A y \in t_prioinv(u)' : \E m \in Lock : active'[m] = y /\ owner'[m] = u
      BY <1>1, <1>2, <1>7, <2>3, <3>1
    <3>4. \A y \in t_prioinv(u)' : ts'[y].epri <= Pri[u] \/ ts'[y].epri <= epri'[u]
      <4> SUFFICES ASSUME NEW y \in t_prioinv(u) \cup {x}
                   PROVE  ts'[y].epri <= Pri[u] \/ ts'[y].epri <= epri'[u]
        BY <3>1
      <4>1. CASE y # x
        <5>1. ts'[y] = ts[y] /\ y \in Thread /\ (ts[y].epri <= Pri[u] \/ ts[y].epri <= epri[u])
          BY <1>7, <2>1, <3>1, <4>1
        <5> QED
          BY <1>1, <1>4, <1>6, <2>3, <5>1
      <4>2. CASE y = x
        BY <1>1, <1>4, <1>6, <1>7, <1>9, <2>1, <2>3, <3>1, <4>2
      <4> QED
        BY <4>1, <4>2
    <3>5. epri'[u] <= Pri[u] \/ \E y \in t_prioinv(u)' : ts'[y].epri = epri'[u]
      <4>1. CASE p > epri[o]
        <5>1. ts[x].inheritor # NULL => ts[x].epri < p
          BY <1>1, <1>6, <1>7, <1>9, <2>3, <3>1, <4>1
        <5>2. ts'[x].epri = p /\ epri'[o] = p
          BY <1>1, <1>4, <1>6, <1>9, <2>1, <4>1, <5>1
        <5> QED
          BY <2>3, <3>1, <5>2
      <4>2. CASE p <= epri[o]
        <5>1. epri'[o] = epri[o] /\ epri[o] > Pri[o]
          BY <1>1, <1>4, <1>6, <1>9, <4>2
        <5>2. PICK y \in t_prioinv(u) : ts[y].epri = epri[u]
          BY <1>1, <1>6, <1>7, <2>3, <5>1
        <5>3. ts'[y].epri = epri[u]
          BY <2>1, <2>3, <3>1, <3>2, <4>2, <5>2
        <5> QED
          BY <2>3, <3>1, <5>1, <5>2, <5>3
      <4> QED
        BY <1>1, <1>6, <4>1, <4>2
    <3> QED
      BY <3>3, <3>4, <3>5
  <2> QED
    BY <2>2, <2>3
<1> QED
  BY <1>1, <1>8, <1>9

\* Who releases the lock waives what came from it, and the new owner has what
\* it inherits.
LEMMA WokeBoost ==
  ASSUME Ctl, PlaceOK, BoostOK, NEW t \in Thread, NEW l, NEW W, NEW v, Woke(t, l, W, v),
         epri'[t] = Waived(t, active[l])[t], v # t,
         \/ ts'[active[l]].inheritor = NULL
         \/ /\ v \in Thread /\ ts'[active[l]].inheritor = v /\ W # Sleepers(l)
            /\ ts'[active[l]].epri <= DISP_PRIO(v)
  PROVE  BoostOK'
<1>0. PICK x : x = active[l]
  OBVIOUS
<1>1. /\ Typ /\ x \in Thread /\ l \in Lock /\ owner[l] = t /\ owner'[l] = v
      /\ \A m \in Lock : m # l => owner'[m] = owner[m] /\ active'[m] = active[m]
      /\ active'[l] = IF W = Sleepers(l) THEN NULL ELSE x
  BY <1>0, WokeFacts DEF Ctl
<1>2. /\ \A y \in Thread : y # x => ts'[y] = ts[y]
      /\ \A y \in Thread : y # t => epri'[y] = epri[y]
      /\ epri' \in [Thread -> Nat] /\ ts' \in [Thread -> Tsrec]
  BY <1>0 DEF Woke
<1>3. ts[x].inheritor = NULL \/ ts[x].inheritor = t
  BY <1>0, <1>1, HeirOwns
<1>4. /\ \A y \in Thread : ts[y].epri \in Nat /\ epri[y] \in Nat /\ Pri[y] \in Nat
      /\ ts'[x].epri \in Nat
  BY <1>1, <1>2, Consts DEF Tsrec, Typ
<1> SUFFICES ASSUME NEW u \in Thread
             PROVE  /\ epri'[u] <= Pri[u] \/ \E y \in t_prioinv(u)' : ts'[y].epri = epri'[u]
                    /\ \A y \in t_prioinv(u)' : ts'[y].epri <= Pri[u] \/ ts'[y].epri <= epri'[u]
                    /\ \A y \in t_prioinv(u)' : \E m \in Lock : active'[m] = y /\ owner'[m] = u
  BY DEF BoostOK
<1>5. /\ epri[u] <= Pri[u] \/ \E y \in t_prioinv(u) : ts[y].epri = epri[u]
      /\ \A y \in t_prioinv(u) : ts[y].epri <= Pri[u] \/ ts[y].epri <= epri[u]
      /\ \A y \in t_prioinv(u) : \E m \in Lock : active[m] = y /\ owner[m] = u
  BY DEF BoostOK
<1>6. t_prioinv(u) \in SUBSET Thread /\ t_prioinv(u)' \in SUBSET Thread
  BY DEF t_prioinv
<1>7. t_prioinv(u)' = (t_prioinv(u) \ {x}) \cup (IF ts'[x].inheritor = u THEN {x} ELSE {})
  BY <1>1, <1>2 DEF t_prioinv
<1>8. \A y \in t_prioinv(u) \ {x} : ts'[y] = ts[y]
  BY <1>2, <1>6
<1>9. \A y \in t_prioinv(u) \ {x} : \E m \in Lock : active'[m] = y /\ owner'[m] = u
  <2> SUFFICES ASSUME NEW y \in t_prioinv(u) \ {x} PROVE \E m \in Lock : active'[m] = y /\ owner'[m] = u
    OBVIOUS
  <2>1. PICK m \in Lock : active[m] = y /\ owner[m] = u
    BY <1>5
  <2>2. m # l
    BY <1>0, <2>1
  <2> QED
    BY <1>1, <2>1, <2>2
<1>10. CASE u # t
  <2>1. x \notin t_prioinv(u) /\ epri'[u] = epri[u]
    BY <1>2, <1>3, <1>10, Consts DEF t_prioinv
  <2>2. epri'[u] <= Pri[u] \/ \E y \in t_prioinv(u)' : ts'[y].epri = epri'[u]
    BY <1>5, <1>7, <1>8, <2>1
  <2>3. CASE ts'[x].inheritor # u
    <3>1. t_prioinv(u)' = t_prioinv(u) \ {x}
      BY <1>7, <2>3
    <3> QED
      BY <1>5, <1>8, <1>9, <2>1, <2>2, <3>1
  <2>4. CASE ts'[x].inheritor = u
    <3>1. v = u /\ W # Sleepers(l) /\ ts'[x].epri <= DISP_PRIO(u)
      BY <1>0, <2>4, Consts
    <3>2. active'[l] = x /\ owner'[l] = u
      BY <1>1, <3>1
    <3>3. ts'[x].epri <= Pri[u] \/ ts'[x].epri <= epri'[u]
      BY <1>1, <2>1, <3>1, DispPrio
    <3>4. t_prioinv(u)' = (t_prioinv(u) \ {x}) \cup {x}
      BY <1>7, <2>4
    <3>5. \A y \in t_prioinv(u) \ {x} : ts'[y].epri <= Pri[u] \/ ts'[y].epri <= epri'[u]
      BY <1>5, <1>8, <2>1
    <3> QED
      BY <1>1, <1>9, <2>2, <3>2, <3>3, <3>4, <3>5
  <2> QED
    BY <2>3, <2>4
<1>11. CASE u = t
  <2>1. ts'[x].inheritor # t
    BY <1>0, Consts
  <2>2. t_prioinv(u)' = t_prioinv(u) \ {x}
    BY <1>7, <1>11, <2>1
  <2>3. epri'[u] = IF ts[x].inheritor # NULL /\ Left(u, x) # DISP_PRIO(u) THEN Left(u, x) ELSE epri[u]
    BY <1>0, <1>1, <1>11, WaivedIs
  <2>4. /\ Left(u, x) \in Nat
        /\ Left(u, x) = 0 \/ \E y \in t_prioinv(u) \ {x} : ts[y].epri = Left(u, x)
        /\ \A y \in t_prioinv(u) \ {x} : ts[y].epri <= Left(u, x)
    BY <1>1, LeftIs
  <2>5. DISP_PRIO(u) = IF Pri[u] >= epri[u] THEN Pri[u] ELSE epri[u]
    BY <1>1, DispPrio
  <2>6. ts[x].inheritor = NULL => x \notin t_prioinv(u)
    BY Consts DEF t_prioinv
  <2>7. epri'[u] <= Pri[u] \/ \E y \in t_prioinv(u) \ {x} : ts[y].epri = epri'[u]
    <3>1. CASE ts[x].inheritor = NULL
      BY <1>5, <2>3, <2>6, <3>1
    <3>2. CASE ts[x].inheritor # NULL /\ Left(u, x) # DISP_PRIO(u)
      BY <1>4, <2>3, <2>4, <3>2
    <3>3. CASE ts[x].inheritor # NULL /\ Left(u, x) = DISP_PRIO(u)
      BY <1>4, <2>3, <2>4, <2>5, <3>3
    <3> QED
      BY <3>1, <3>2, <3>3
  <2>8. \A y \in t_prioinv(u) \ {x} : ts[y].epri <= Pri[u] \/ ts[y].epri <= epri'[u]
    BY <1>5, <2>3, <2>4
  <2> QED
    BY <1>8, <1>9, <2>2, <2>7, <2>8
<1> QED
  BY <1>10, <1>11

\* Every step keeps what is inherited justified.
LEMMA NextBoost ==
  ASSUME Ctl, PlaceOK, BoostOK, [Next]_vars
  PROVE  BoostOK'
<1>1. Typ
  BY DEF Ctl
<1>2. CASE UNCHANGED vars
  <2>1. \A u : t_prioinv(u)' = t_prioinv(u)
    BY <1>2 DEF t_prioinv, vars, pivars
  <2> QED
    BY <1>2, <2>1 DEF BoostOK, vars, sleep, pivars
<1>3. ASSUME NEW t \in Thread, Step(t) PROVE BoostOK'
  <2>1. CASE Enter(t) \/ (\E l \in Lock : Exit(t, l)) \/ Block(t) \/ UNCHANGED <<owner, sleep, pivars>>
    BY <2>1, QuietBoost
  <2>2. CASE Inherit(t)
    BY <2>2, InheritBoost
  <2>3. CASE WakeAll(t)
    <3>1. PICK l : l = olp[t]
      OBVIOUS
    <3>2. /\ Woke(t, l, Sleepers(l), NULL) /\ ts'[active[l]].inheritor = NULL
          /\ epri' = Waived(t, active[l])
      BY <2>3, <3>1, WakeAllFacts
    <3>3. NULL # t
      BY Consts
    <3> QED
      BY <3>2, <3>3, WokeBoost
  <2>4. CASE HandOver(t)
    <3>1. PICK l, x : l = olp[t] /\ x = active[l]
      OBVIOUS
    <3>2. PICK n \in Sleepers(l) :
            /\ Woke(t, l, {n}, n) /\ Rest(l, n) <= DISP_PRIO(n)
            /\ Rest(l, n) <= Pri[n] => ts'[x].inheritor = NULL
            /\ Rest(l, n) > Pri[n] => ts'[x].inheritor = n /\ ts'[x].epri = Rest(l, n)
            /\ epri' = InheritPri(Waived(t, x), n, Rest(l, n))
      BY <2>4, <3>1, HandOverFacts
    <3>3. l \in Lock /\ l # NULL /\ x \in Thread /\ n \in Thread /\ wchan[t] = NULL
      BY <3>1, <3>2, WokeFacts DEF Sleepers
    <3>4. n # t
      BY <3>2, <3>3 DEF Sleepers
    <3>5. /\ Rest(l, n) \in Nat /\ Pri[n] \in Nat
          /\ Sleepers(l) \ {n} = {} => Rest(l, n) = 0
      BY <1>1, <3>3, RestIs, Consts
    <3>6. epri'[t] = Waived(t, x)[t]
      <4> DEFINE V == Waived(t, x)
                 p == Rest(l, n)
      <4>1. V \in [Thread -> Nat] /\ p \in Nat
        BY <1>1, <3>3, <3>5, WaivedIs
      <4> HIDE DEF V, p
      <4>2. InheritPri(V, n, p)[t] = V[t]
        BY <3>3, <3>4, <4>1, InheritPriIs
      <4> QED
        BY <3>2, <4>2 DEF V, p
    <3>7. \/ ts'[x].inheritor = NULL
          \/ n \in Thread /\ ts'[x].inheritor = n /\ {n} # Sleepers(l) /\ ts'[x].epri <= DISP_PRIO(n)
      <4>1. CASE Rest(l, n) <= Pri[n]
        BY <3>2, <4>1
      <4>2. CASE Rest(l, n) > Pri[n]
        <5>1. {n} # Sleepers(l)
          BY <3>5, <4>2
        <5> QED
          BY <3>2, <3>3, <4>2, <5>1
      <4> QED
        BY <3>5, <4>1, <4>2
    <3> QED
      BY <3>1, <3>2, <3>4, <3>6, <3>7, WokeBoost
  <2> QED
    BY <1>3, <2>1, <2>2, <2>3, <2>4, StepKinds
<1> QED
  BY <1>2, <1>3 DEF Next

\* The highest inherited priority is the one that is used.
LEMMA InvBoost == Ctl /\ BoostOK => BoostJustified
<1> SUFFICES ASSUME Ctl, BoostOK, NEW t \in Thread
             PROVE  /\ DISP_PRIO(t) = Max({Pri[t]} \cup {ts[x].epri : x \in t_prioinv(t)})
                    /\ \A x \in t_prioinv(t) : \E l \in Lock : active[l] = x /\ owner[l] = t
  BY DEF BoostJustified
<1>1. Typ
  BY DEF Ctl
<1> DEFINE S == {Pri[t]} \cup {ts[x].epri : x \in t_prioinv(t)}
<1>2. /\ epri[t] <= Pri[t] \/ \E x \in t_prioinv(t) : ts[x].epri = epri[t]
      /\ \A x \in t_prioinv(t) : ts[x].epri <= Pri[t] \/ ts[x].epri <= epri[t]
      /\ \A x \in t_prioinv(t) : \E l \in Lock : active[l] = x /\ owner[l] = t
  BY DEF BoostOK
<1>3. /\ DISP_PRIO(t) \in Nat /\ Pri[t] \in Nat /\ epri[t] \in Nat
      /\ DISP_PRIO(t) = IF Pri[t] >= epri[t] THEN Pri[t] ELSE epri[t]
  BY <1>1, DispPrio
<1>4. \A x \in t_prioinv(t) : ts[x].epri \in Nat
  BY <1>1 DEF t_prioinv, Typ, Tsrec
<1>5. S \in SUBSET Nat
  BY <1>3, <1>4
<1>6. \A s \in S : s <= DISP_PRIO(t)
  BY <1>2, <1>3, <1>4
<1>7. DISP_PRIO(t) \in S
  BY <1>2, <1>3
<1> HIDE DEF S
<1>8. Max(S) = DISP_PRIO(t)
  BY <1>5, <1>6, <1>7, MaxIs
<1> QED
  BY <1>2, <1>8 DEF S

----------------------------------------------------------------------------
(* Walks reach everybody who is not satisfied *)

\* A chain begins with its first thread, can be followed from any of its
\* threads, and ends with one that does not sleep.
LEMMA ReachFacts ==
  ASSUME NEW a \in Thread
  PROVE  /\ Reach(a, a)
         /\ \A y, z : Reach(a, y) /\ Reach(y, z) => Reach(a, z)
         /\ \A y \in Thread : Reach(a, y) /\ wchan[y] # NULL => Reach(a, owner[wchan[y]])
         /\ \A y : Reach(a, y) /\ y # a /\ wchan[a] # NULL /\ owner[wchan[a]] \in Thread
                   => Reach(owner[wchan[a]], y)
         /\ \A y : Reach(a, y) /\ wchan[a] = NULL => y = a
<1>1. Reach(a, a) /\ \A y, z : Reach(a, y) /\ Reach(y, z) => Reach(a, z)
  BY DEF Reach
<1>2. \A y \in Thread : Reach(a, y) /\ wchan[y] # NULL => Reach(a, owner[wchan[y]])
  BY DEF Reach, Closed
<1>3. ASSUME NEW y, Reach(a, y), y # a, wchan[a] # NULL
      PROVE  Reach(owner[wchan[a]], y)
  <2> SUFFICES ASSUME NEW S \in SUBSET Thread, Closed(S), owner[wchan[a]] \in S PROVE y \in S
    BY DEF Reach
  <2>1. Closed(S \cup {a})
    BY DEF Closed
  <2>2. S \cup {a} \in SUBSET Thread
    OBVIOUS
  <2>3. y \in S \cup {a}
    BY <1>3, <2>1, <2>2 DEF Reach
  <2> QED
    BY <1>3, <2>3
<1>4. ASSUME NEW y, Reach(a, y), wchan[a] = NULL PROVE y = a
  <2>1. Closed({a}) /\ {a} \in SUBSET Thread
    BY <1>4 DEF Closed
  <2> QED
    BY <1>4, <2>1 DEF Reach
<1> QED
  BY <1>1, <1>2, <1>3, <1>4

\* Whoever sleeps on waits for the same thread.
SameEdges == \A z \in Thread : wchan[z] # NULL =>
               wchan'[z] # NULL /\ owner'[wchan'[z]] = owner[wchan[z]]

\* Chains that only grow.
LEMMA ReachMono ==
  ASSUME SameEdges, NEW a, NEW b, Reach(a, b)
  PROVE  Reach(a, b)'
<1> SUFFICES ASSUME NEW S \in SUBSET Thread, Closed(S)', a \in S PROVE b \in S
  BY DEF Reach
<1>1. Closed(S)
  BY DEF Closed, SameEdges
<1> QED
  BY <1>1 DEF Reach

\* Whoever is satisfied stays so while the owner, the turnstile and the
\* priorities are the same.
LEMMA SatSame ==
  ASSUME NEW y \in Thread, wchan'[y] = wchan[y], owner'[wchan[y]] = owner[wchan[y]],
         active'[wchan[y]] = active[wchan[y]], epri'[y] = epri[y],
         ts'[active[wchan[y]]].inheritor = ts[active[wchan[y]]].inheritor,
         ts'[active[wchan[y]]].epri = ts[active[wchan[y]]].epri
  PROVE  Satisfied(y)' <=> Satisfied(y)
<1>1. DISP_PRIO(y)' = DISP_PRIO(y)
  BY DEF DISP_PRIO
<1> QED
  BY <1>1 DEF Satisfied

\* Steps that leave the sleepers and what they wait for alone: those who were
\* ahead of t's walk stay ahead of it.
LEMMA WalkCover ==
  ASSUME Ctl, CoverOK, NEW t \in Thread, NEW q, q = Pos(t)', NEW r, r = cur'[t],
         SameEdges, \A y \in Thread : wchan'[y] = wchan[y],
         \A y \in Thread : wchan[y] # NULL => (Satisfied(y)' <=> Satisfied(y)),
         \A u \in Thread : u # t => pc'[u] = pc[u] /\ cur'[u] = cur[u],
         \A y \in Thread : pc[t] \in Walks \cup Losing /\ Reach(Pos(t), y) /\ wchan[y] # NULL =>
           pc'[t] \in Walks \cup Losing /\ Reach(q, y)',
         pc'[t] \in Walks /\ wchan'[r] # NULL => Reach(t, r)'
  PROVE  CoverOK'
<1>1. \A u \in Thread : u # t => Pos(u)' = Pos(u)
  BY DEF Pos
<1>2. ASSUME NEW y \in Thread, wchan'[y] # NULL, ~Satisfied(y)'
      PROVE  \E u \in Thread : pc'[u] \in Walks \cup Losing /\ Reach(Pos(u), y)'
  <2>1. wchan[y] # NULL /\ ~Satisfied(y)
    BY <1>2
  <2>2. PICK u \in Thread : pc[u] \in Walks \cup Losing /\ Reach(Pos(u), y)
    BY <2>1 DEF CoverOK
  <2>3. CASE u = t
    <3>1. pc'[t] \in Walks \cup Losing /\ Reach(q, y)'
      BY <2>1, <2>2, <2>3
    <3>2. Reach(Pos(t), y)'
      BY <3>1 DEF Reach
    <3> QED
      BY <3>1, <3>2
  <2>4. CASE u # t
    <3>1. PICK a : a = Pos(u)
      OBVIOUS
    <3>2. Reach(a, y)' /\ a = Pos(u)'
      BY <1>1, <2>2, <2>4, <3>1, ReachMono
    <3>3. Reach(Pos(u), y)'
      BY <3>2 DEF Reach
    <3> QED
      BY <2>2, <2>4, <3>3
  <2> QED
    BY <2>3, <2>4
<1>3. ASSUME NEW u \in Thread, pc'[u] \in Walks, wchan'[cur'[u]] # NULL
      PROVE  Reach(u, cur[u])'
  <2>1. CASE u = t
    BY <1>3, <2>1 DEF Reach
  <2>2. CASE u # t
    <3>1. pc[u] \in Walks /\ cur'[u] = cur[u]
      BY <1>3, <2>2
    <3>2. cur[u] \in Thread
      BY <3>1 DEF Ctl, Typ, PointOK, WalkAt, Walks
    <3>3. PICK a : a = cur[u] /\ a = cur'[u]
      BY <3>1
    <3>4. Reach(u, a)
      BY <1>3, <3>1, <3>2, <3>3 DEF CoverOK
    <3>5. Reach(u, a)'
      BY <3>4, ReachMono
    <3> QED
      BY <3>3, <3>5 DEF Reach
  <2> QED
    BY <2>1, <2>2
<1> QED
  BY <1>2, <1>3 DEF CoverOK

\* Steps that leave owners, sleepers and priorities alone.
LEMMA StillCover ==
  ASSUME Ctl, CoverOK, NEW t \in Thread, UNCHANGED <<owner, sleep, pivars>>,
         NEW q, q = Pos(t)', NEW r, r = cur'[t],
         \A u \in Thread : u # t => pc'[u] = pc[u] /\ cur'[u] = cur[u],
         \A y \in Thread : pc[t] \in Walks \cup Losing /\ Reach(Pos(t), y) /\ wchan[y] # NULL =>
           pc'[t] \in Walks \cup Losing /\ Reach(q, y),
         pc'[t] \in Walks /\ wchan[r] # NULL => Reach(t, r)
  PROVE  CoverOK'
<1>1. SameEdges /\ \A y : wchan'[y] = wchan[y]
  BY DEF SameEdges, sleep
<1>2. \A y \in Thread : Satisfied(y)' <=> Satisfied(y)
  BY DEF Satisfied, DISP_PRIO, sleep, pivars
<1>3. \A a, b : Reach(a, b) => Reach(a, b)'
  BY <1>1, ReachMono
<1> QED
  BY <1>1, <1>2, <1>3, WalkCover

\* Entering and exiting: nobody sleeps on the lock.
LEMMA LockCover ==
  ASSUME Ctl, CoverOK, NEW t \in Thread, Enter(t) \/ \E l \in Lock : Exit(t, l)
  PROVE  CoverOK'
<1>1. Typ /\ SleepOK
  BY DEF Ctl
<1>2. pc[t] = "run" /\ pc' = pc /\ UNCHANGED <<sleep, pivars, cur>>
  BY DEF Enter, Exit, walk
<1>3. \A l \in Lock : owner[l] # NULL /\ active[l] # NULL => owner'[l] = owner[l]
  <2>1. CASE Enter(t)
    BY <1>1, <2>1 DEF Enter, Typ
  <2>2. CASE \E l \in Lock : Exit(t, l)
    BY <1>1, <2>2 DEF Exit, Typ, HasWaiters
  <2> QED
    BY <2>1, <2>2
<1>4. \A y \in Thread : wchan[y] # NULL => wchan[y] \in Lock /\ owner'[wchan[y]] = owner[wchan[y]]
  BY <1>1, <1>3 DEF Typ, SleepOK
<1>5. SameEdges
  BY <1>2, <1>4 DEF SameEdges, sleep
<1>6. \A y \in Thread : wchan[y] # NULL => (Satisfied(y)' <=> Satisfied(y))
  BY <1>2, <1>4, SatSame DEF sleep, pivars
<1>7. PICK q, r : q = Pos(t)' /\ r = cur'[t]
  OBVIOUS
<1>8. pc[t] \notin Walks \cup Losing /\ pc'[t] \notin Walks
  BY <1>2 DEF Walks, Losing
<1> QED
  BY <1>2, <1>5, <1>6, <1>7, <1>8, WalkCover DEF sleep

\* Steps that begin or end outside turnstile_block.
LEMMA OutsideCover ==
  ASSUME Ctl, CoverOK, NEW t \in Thread,
         Contend(t) \/ turnstile_lookup(t) \/ (\E l \in Lock : ExitLookup(t, l)) \/ Swtch(t)
  PROVE  CoverOK'
<1>1. Typ
  BY DEF Ctl
<1>2. /\ pc[t] \notin Walks \cup Losing /\ UNCHANGED <<owner, sleep, pivars, cur>>
      /\ \E s \in {"run", "lookup", "block", "wakeup"} : pc' = [pc EXCEPT ![t] = s]
  BY DEF Contend, turnstile_lookup, ExitLookup, Swtch, Goto, Walks, Losing, walk
<1>3. pc'[t] \notin Walks /\ \A u \in Thread : u # t => pc'[u] = pc[u] /\ cur'[u] = cur[u]
  BY <1>1, <1>2 DEF Typ, Walks
<1>4. PICK q, r : q = Pos(t)' /\ r = cur'[t]
  OBVIOUS
<1> QED
  BY <1>2, <1>3, <1>4, StillCover

\* Following the chain, losing it and beginning again.
LEMMA StepCover ==
  ASSUME Ctl, CoverOK, NEW t \in Thread,
         \/ Follow(t) \/ Read(t) \/ Try(t) \/ Check(t) \/ Spin(t)
         \/ Lost(t) \/ Serialize(t) \/ Relock(t)
  PROVE  CoverOK'
<1>1. Typ /\ WalkAt(t)
  BY DEF Ctl, PointOK
<1>2. UNCHANGED <<owner, sleep, pivars>>
  BY DEF Follow, Read, Try, Check, Spin, Lost, Serialize, Relock
<1>3. PICK q, r, s : q = Pos(t)' /\ r = cur'[t] /\ s = pc'[t]
  OBVIOUS
<1>4. \A u \in Thread : u # t => pc'[u] = pc[u] /\ cur'[u] = cur[u]
  BY <1>1 DEF Follow, Read, Try, Check, Spin, Lost, Serialize, Relock, Goto, Typ, walk
<1>5. ASSUME pc[t] \in Walks
      PROVE  cur[t] \in Thread /\ (wchan[cur[t]] # NULL => Reach(t, cur[t]))
  BY <1>1, <1>5 DEF Typ, WalkAt, CoverOK
<1>6. CASE Follow(t) \/ Read(t) \/ Try(t) \/ Check(t) \/ Spin(t)
  <2>1. pc[t] \in Walks /\ cur' = cur /\ s \in Walks \cup {"lost", "panic"} /\ (s = "lost" => pc[t] = "try")
    BY <1>1, <1>3, <1>6 DEF Follow, Read, Try, Check, Spin, Goto, Typ, Walks, walk
  <2>2. s # "panic"
    <3>1. CASE Follow(t)
      BY <1>3, <3>1, NoCycle
    <3>2. CASE Read(t) \/ Try(t) \/ Check(t) \/ Spin(t)
      BY <1>1, <1>3, <3>2 DEF Read, Try, Check, Spin, Goto, Typ
    <3> QED
      BY <1>6, <3>1, <3>2
  <2>3. Pos(t) = cur[t]
    BY <2>1 DEF Pos, Walks, Losing
  <2>4. s = "lost" => wchan[cur[t]] # NULL
    BY <1>1, <2>1 DEF WalkAt, Walks
  <2>5. (s = "lost" => q = t) /\ (s \in Walks => q = cur[t])
    BY <1>3, <2>1 DEF Pos, Walks, Losing
  <2>6. \A y \in Thread : Reach(Pos(t), y) => Reach(q, y)
    BY <1>5, <2>1, <2>2, <2>3, <2>4, <2>5, ReachFacts
  <2>7. s \in Walks \cup Losing
    BY <2>1, <2>2 DEF Losing
  <2> QED
    BY <1>2, <1>3, <1>4, <1>5, <2>1, <2>6, <2>7, StillCover
<1>7. CASE Lost(t) \/ Serialize(t) \/ Relock(t)
  <2>1. pc[t] \in Losing /\ (s \in Losing \/ (s = "walk" /\ r = t))
    BY <1>1, <1>3, <1>7 DEF Lost, Serialize, Relock, Goto, Typ, Losing, walk
  <2>2. Pos(t) = t /\ q = t
    BY <1>3, <2>1 DEF Pos, Losing
  <2>3. s \in Walks \cup Losing /\ (s \in Walks => r = t)
    BY <2>1 DEF Walks, Losing
  <2>4. \A y \in Thread : Reach(Pos(t), y) => Reach(q, y)
    BY <2>2
  <2>5. s \in Walks => Reach(t, r)
    BY <2>3, ReachFacts
  <2> QED
    BY <1>2, <1>3, <1>4, <2>3, <2>4, <2>5, StillCover
<1> QED
  BY <1>6, <1>7

\* The end of a chain: nobody is ahead of it.
LEMMA EndCover ==
  ASSUME Ctl, CoverOK, NEW t \in Thread, ChainEnd(t)
  PROVE  CoverOK'
<1>1. Typ /\ SleepOK /\ WalkAt(t)
  BY DEF Ctl, PointOK
<1>2. /\ pc[t] = "walk" /\ OwnerOf(cur[t]) = NULL /\ UNCHANGED <<owner, sleep, pivars>>
      /\ cur' = [cur EXCEPT ![t] = NULL] /\ pc' = [pc EXCEPT ![t] = "swtch"]
  BY DEF ChainEnd, Goto
<1>3. cur[t] \in Thread /\ Pos(t) = cur[t]
  BY <1>1, <1>2 DEF Typ, WalkAt, Walks, Losing, Pos
<1>4. wchan[cur[t]] = NULL
  BY <1>1, <1>2, <1>3 DEF SleepOK, OwnerOf
<1>5. \A y \in Thread : Reach(Pos(t), y) => wchan[y] = NULL
  BY <1>3, <1>4, ReachFacts
<1>6. pc'[t] \notin Walks /\ \A u \in Thread : u # t => pc'[u] = pc[u] /\ cur'[u] = cur[u]
  BY <1>1, <1>2 DEF Typ, Walks
<1>7. PICK q, r : q = Pos(t)' /\ r = cur'[t]
  OBVIOUS
<1> QED
  BY <1>2, <1>5, <1>6, <1>7, StillCover

\* Who begins to sleep walks its chain.
LEMMA BlockCover ==
  ASSUME Ctl, CoverOK, NEW t \in Thread, Block(t)
  PROVE  CoverOK'
<1>1. Typ /\ LockpOK /\ SleepOK /\ PointOK
  BY DEF Ctl
<1>2. /\ Wanted(t) \in Lock /\ wchan[t] = NULL /\ wchan' = [wchan EXCEPT ![t] = Wanted(t)]
      /\ \A y \in Thread : ts'[y].inheritor = ts[y].inheritor /\ ts'[y].epri = ts[y].epri
      /\ \/ active' = active
         \/ active[Wanted(t)] = NULL /\ active' = [active EXCEPT ![Wanted(t)] = t_ts[t]]
  BY BlockFacts
<1>3. /\ spin[t] = NULL /\ cur' = [cur EXCEPT ![t] = t] /\ pc' = [pc EXCEPT ![t] = "walk"]
      /\ UNCHANGED <<owner, epri>>
  BY DEF Block, Goto
<1>4. /\ \A y \in Thread : y # t => wchan'[y] = wchan[y] /\ pc'[y] = pc[y] /\ cur'[y] = cur[y]
      /\ pc'[t] = "walk" /\ cur'[t] = t
  BY <1>1, <1>2, <1>3 DEF Typ
<1>5. \A y \in Thread : wchan[y] # NULL =>
        /\ y # t /\ wchan[y] \in Lock /\ active[wchan[y]] \in Thread
        /\ active'[wchan[y]] = active[wchan[y]]
  BY <1>1, <1>2 DEF Typ, SleepOK
<1>6. SameEdges
  BY <1>3, <1>4, <1>5 DEF SameEdges
<1>7. \A y \in Thread : wchan[y] # NULL => (Satisfied(y)' <=> Satisfied(y))
  BY <1>2, <1>3, <1>4, <1>5, SatSame
<1>8. \A u \in Thread : u # t /\ pc[u] \in Walks => cur[u] \in Thread /\ cur[u] # t
  <2>1. \A u \in Thread : pc[u] \in Walks => cur[u] \in Thread /\ spin[lockp[cur[u]]] = u
    BY <1>1 DEF Typ, PointOK, WalkAt
  <2>2. lockp[t] = t
    BY <1>1, <1>2 DEF LockpOK
  <2> QED
    BY <1>3, <2>1, <2>2, Consts
<1>9. ASSUME NEW y \in Thread, wchan'[y] # NULL, ~Satisfied(y)'
      PROVE  \E u \in Thread : pc'[u] \in Walks \cup Losing /\ Reach(Pos(u), y)'
  <2>1. CASE y = t
    <3>1. Pos(t)' = t /\ pc'[t] \in Walks \cup Losing
      BY <1>4 DEF Pos, Walks, Losing
    <3>2. Reach(Pos(t), t)'
      BY <3>1 DEF Reach
    <3> QED
      BY <2>1, <3>1, <3>2
  <2>2. CASE y # t
    <3>1. wchan[y] # NULL /\ ~Satisfied(y)
      BY <1>4, <1>7, <1>9, <2>2
    <3>2. PICK u \in Thread : pc[u] \in Walks \cup Losing /\ Reach(Pos(u), y)
      BY <3>1 DEF CoverOK
    <3>3. u # t
      BY <3>2 DEF Block, Walks, Losing
    <3>4. PICK a : a = Pos(u) /\ a = Pos(u)'
      BY <1>4, <3>3 DEF Pos
    <3>5. Reach(a, y)'
      BY <1>6, <3>2, <3>4, ReachMono
    <3>6. Reach(Pos(u), y)'
      BY <3>4, <3>5 DEF Reach
    <3> QED
      BY <1>4, <3>2, <3>3, <3>6
  <2> QED
    BY <2>1, <2>2
<1>10. ASSUME NEW u \in Thread, pc'[u] \in Walks, wchan'[cur'[u]] # NULL
       PROVE  Reach(u, cur[u])'
  <2>1. CASE u = t
    BY <1>4, <2>1 DEF Reach
  <2>2. CASE u # t
    <3>1. pc[u] \in Walks /\ cur'[u] = cur[u] /\ cur[u] \in Thread /\ wchan[cur[u]] # NULL
      BY <1>4, <1>8, <1>10, <2>2
    <3>2. PICK a : a = cur[u] /\ a = cur'[u]
      BY <3>1
    <3>3. Reach(u, a)'
      BY <1>6, <3>1, <3>2, ReachMono DEF CoverOK
    <3> QED
      BY <3>2, <3>3 DEF Reach
  <2> QED
    BY <2>1, <2>2
<1> QED
  BY <1>9, <1>10 DEF CoverOK

\* The thread whose priority is willed is satisfied, the owner's is willed next.
LEMMA InheritCover ==
  ASSUME Ctl, PlaceOK, BoostOK, CoverOK, NEW t \in Thread, Inherit(t)
  PROVE  CoverOK'
<1>0. PICK c, o, x, p, l : /\ c = cur[t] /\ o = own[t] /\ x = t_ts[c] /\ p = DISP_PRIO(c) /\ l = wchan[c]
  OBVIOUS
<1>1. /\ c \in Thread /\ o \in Thread /\ x \in Thread /\ p \in Nat /\ l \in Lock /\ l # NULL
      /\ active[l] = x /\ owner[l] = o /\ Pri[o] \in Nat /\ c # o /\ pc[t] \in Walks
      /\ ts' = InheritTs(ts, x, o, p) /\ epri' = InheritPri(epri, o, p)
      /\ ts \in [Thread -> Tsrec] /\ epri \in [Thread -> Nat]
  BY <1>0, InheritFacts, Consts
<1>2. Typ /\ SleepOK
  BY DEF Ctl
<1>3. /\ UNCHANGED <<owner, sleep>> /\ cur' = [cur EXCEPT ![t] = o] /\ pc' = [pc EXCEPT ![t] = "walk"]
  BY <1>0 DEF Inherit, Goto
<1>4. /\ \A u \in Thread : u # t => pc'[u] = pc[u] /\ cur'[u] = cur[u]
      /\ pc'[t] = "walk" /\ cur'[t] = o
  BY <1>2, <1>3 DEF Typ
<1>5. SameEdges
  BY <1>3 DEF SameEdges, sleep
<1>6. Inherits(ts, ts', x, o, p)
  BY <1>1, InheritTsIs
<1>7. \A y \in Thread : y # o => epri'[y] = epri[y]
  <2>0. epri \in [Thread -> Nat] /\ o \in Thread /\ p \in Nat
    BY <1>1
  <2>1. \A y \in Thread : y # o => InheritPri(epri, o, p)[y] = epri[y]
    BY <2>0, InheritPriIs
  <2> QED
    BY <1>1, <2>1
<1>8. \A y \in Thread : y # o => DISP_PRIO(y)' = DISP_PRIO(y) /\ DISP_PRIO(y) \in Nat
  BY <1>2, <1>7, DispPrio DEF DISP_PRIO
<1>9. /\ \A y \in Thread : ts[y].epri \in Nat
      /\ p <= Pri[o] \/ (ts'[x].inheritor = o /\ p <= ts'[x].epri)
      /\ ts[x].inheritor = o => ts'[x].inheritor = o /\ ts[x].epri <= ts'[x].epri
      /\ ts'[x].epri \in Nat
  <2>1. \A y \in Thread : ts[y].epri \in Nat
    BY <1>1 DEF Tsrec
  <2>2. ts'[x].epri \in Nat
    BY <1>1, <1>6 DEF Inherits, Tsrec
  <2>3. CASE p <= Pri[o]
    BY <1>6, <2>1, <2>2, <2>3, <1>1 DEF Inherits
  <2>4. CASE p > Pri[o]
    <3>1. /\ ts'[x].inheritor = o
          /\ ts'[x].epri = IF ts[x].inheritor # NULL /\ ts[x].epri >= p THEN ts[x].epri ELSE p
      BY <1>6, <2>4 DEF Inherits
    <3>2. ts[x].epri \in Nat /\ o # NULL
      BY <1>1, <2>1, Consts
    <3> QED
      BY <1>1, <2>1, <2>2, <3>1, <3>2
  <2> QED
    BY <1>1, <2>3, <2>4
<1>10. Satisfied(c)'
  <2>1. wchan'[c] = l /\ owner'[l] = o /\ active'[l] = x /\ DISP_PRIO(c)' = p
    BY <1>0, <1>1, <1>3, <1>8 DEF sleep
  <2> QED
    BY <1>9, <2>1 DEF Satisfied
<1>11. ASSUME NEW y \in Thread, wchan[y] # NULL, y # o, Satisfied(y) PROVE Satisfied(y)'
  <2>1. PICK m, z, k : m = wchan[y] /\ z = active[m] /\ k = owner[m]
    OBVIOUS
  <2>2. m \in Lock /\ z \in Thread /\ wchan'[y] = m /\ owner'[m] = k /\ active'[m] = z
    BY <1>2, <1>3, <1>11, <2>1 DEF Typ, SleepOK, sleep
  <2>3. DISP_PRIO(y)' = DISP_PRIO(y) /\ DISP_PRIO(y) \in Nat
    BY <1>8, <1>11
  <2>4. DISP_PRIO(y) <= Pri[k] \/ (ts[z].inheritor = k /\ DISP_PRIO(y) <= ts[z].epri)
    BY <1>11, <2>1 DEF Satisfied
  <2>5. DISP_PRIO(y) <= Pri[k] \/ (ts'[z].inheritor = k /\ DISP_PRIO(y) <= ts'[z].epri)
    <3>1. CASE z # x
      BY <1>6, <2>2, <2>4, <3>1 DEF Inherits
    <3>2. CASE z = x
      <4>1. m = l /\ k = o
        BY <1>1, <2>1, <2>2, <3>2, Consts DEF PlaceOK
      <4> QED
        BY <1>1, <1>9, <2>3, <2>4, <3>2, <4>1
    <3> QED
      BY <3>1, <3>2
  <2> QED
    BY <2>2, <2>3, <2>5 DEF Satisfied
<1>12. Pos(t) = c /\ Pos(t)' = o /\ pc'[t] \in Walks
  BY <1>0, <1>1, <1>4 DEF Pos, Walks, Losing
<1>13. ASSUME NEW y \in Thread, wchan'[y] # NULL, ~Satisfied(y)'
       PROVE  \E u \in Thread : pc'[u] \in Walks \cup Losing /\ Reach(Pos(u), y)'
  <2>1. CASE y = o
    <3>1. Reach(Pos(t), y)'
      BY <1>12, <2>1 DEF Reach
    <3> QED
      BY <1>12, <3>1
  <2>2. CASE y # o
    <3>1. wchan[y] # NULL /\ ~Satisfied(y) /\ y # c
      BY <1>3, <1>10, <1>11, <1>13, <2>2 DEF sleep
    <3>2. PICK u \in Thread : pc[u] \in Walks \cup Losing /\ Reach(Pos(u), y)
      BY <3>1 DEF CoverOK
    <3>3. CASE u = t
      <4>1. Reach(o, y)
        BY <1>0, <1>1, <1>12, <3>1, <3>2, <3>3, ReachFacts
      <4>2. Reach(o, y)'
        BY <1>5, <4>1, ReachMono
      <4>3. Reach(Pos(t), y)'
        BY <1>12, <4>2 DEF Reach
      <4> QED
        BY <1>12, <4>3
    <3>4. CASE u # t
      <4>1. PICK a : a = Pos(u) /\ a = Pos(u)'
        BY <1>4, <3>4 DEF Pos
      <4>2. Reach(a, y)'
        BY <1>5, <3>2, <4>1, ReachMono
      <4>3. Reach(Pos(u), y)'
        BY <4>1, <4>2 DEF Reach
      <4> QED
        BY <1>4, <3>2, <3>4, <4>3
    <3> QED
      BY <3>3, <3>4
  <2> QED
    BY <2>1, <2>2
<1>14. ASSUME NEW u \in Thread, pc'[u] \in Walks, wchan'[cur'[u]] # NULL
       PROVE  Reach(u, cur[u])'
  <2>1. CASE u = t
    <3>1. Reach(t, c)
      BY <1>0, <1>1 DEF CoverOK
    <3>2. Reach(t, o)
      BY <1>0, <1>1, <3>1, ReachFacts
    <3>3. Reach(t, o)'
      BY <1>5, <3>2, ReachMono
    <3> QED
      BY <1>4, <2>1, <3>3 DEF Reach
  <2>2. CASE u # t
    <3>1. pc[u] \in Walks /\ cur'[u] = cur[u] /\ wchan[cur[u]] # NULL
      BY <1>3, <1>4, <1>14, <2>2 DEF sleep
    <3>2. PICK a : a = cur[u] /\ a = cur'[u]
      BY <3>1
    <3>3. Reach(u, a)'
      BY <1>5, <3>1, <3>2, ReachMono DEF CoverOK
    <3> QED
      BY <3>2, <3>3 DEF Reach
  <2> QED
    BY <2>1, <2>2
<1> QED
  BY <1>13, <1>14 DEF CoverOK

\* Waking threads cuts chains only where they end, and whoever sleeps on is
\* satisfied with the new owner.
LEMMA WokeCover ==
  ASSUME Ctl, PlaceOK, CoverOK, NEW t \in Thread, NEW l, NEW W, NEW v, Woke(t, l, W, v),
         \A y \in Sleepers(l) \ W :
           \/ DISP_PRIO(y) <= Pri[v]
           \/ ts'[active[l]].inheritor = v /\ DISP_PRIO(y) <= ts'[active[l]].epri
  PROVE  CoverOK'
<1>0. PICK x : x = active[l]
  OBVIOUS
<1>1. Typ /\ SleepOK
  BY DEF Ctl
<1>2. /\ l \in Lock /\ l # NULL /\ x \in Thread /\ W \in SUBSET Thread
      /\ \A y \in W : wchan[y] = l /\ wchan'[y] = NULL
      /\ \A y \in Thread \ W : wchan'[y] = wchan[y]
      /\ \A y \in Thread : wchan[y] = l /\ y \notin W => W # Sleepers(l)
      /\ owner'[l] = v /\ \A m \in Lock : m # l => owner'[m] = owner[m] /\ active'[m] = active[m]
      /\ active'[l] = IF W = Sleepers(l) THEN NULL ELSE x
  BY <1>0, WokeFacts
<1>3. /\ pc'[t] = "run" /\ \A u \in Thread : u # t => pc'[u] = pc[u]
      /\ \A u \in Thread : cur'[u] = cur[u]
      /\ pc[t] = "wakeup" /\ wchan[t] = NULL /\ owner[l] = t
  BY WokeFacts
<1>4. /\ \A y \in Thread : y # x => ts'[y] = ts[y]
      /\ \A y \in Thread : y # t => epri'[y] = epri[y]
  BY <1>0 DEF Woke
<1>5. ASSUME NEW a, NEW y \in Thread, wchan'[y] # NULL, Reach(a, y) PROVE Reach(a, y)'
  <2> SUFFICES ASSUME NEW S \in SUBSET Thread, Closed(S)', a \in S PROVE y \in S
    BY DEF Reach
  <2>1. Closed(S \cup {t})
    <3> SUFFICES ASSUME NEW z \in S, wchan[z] # NULL PROVE owner[wchan[z]] \in S \cup {t}
      BY <1>3 DEF Closed
    <3>1. CASE wchan[z] = l
      BY <1>3, <3>1
    <3>2. CASE wchan[z] # l
      <4>1. wchan'[z] = wchan[z] /\ wchan[z] \in Lock
        BY <1>1, <1>2, <3>2 DEF Typ
      <4>2. owner'[wchan'[z]] \in S
        BY <4>1 DEF Closed
      <4> QED
        BY <1>2, <3>2, <4>1, <4>2
    <3> QED
      BY <3>1, <3>2
  <2>2. S \cup {t} \in SUBSET Thread
    OBVIOUS
  <2>3. y \in S \cup {t}
    BY <1>5, <2>1, <2>2 DEF Reach
  <2>4. y # t
    BY <1>2, <1>3, <1>5
  <2> QED
    BY <2>3, <2>4
<1>6. ASSUME NEW y \in Thread, wchan'[y] # NULL
      PROVE  y \notin W /\ y # t /\ wchan'[y] = wchan[y] /\ wchan[y] \in Lock
             /\ (wchan[y] = l => Satisfied(y)') /\ (wchan[y] # l => (Satisfied(y)' <=> Satisfied(y)))
  <2>1. y \notin W /\ wchan'[y] = wchan[y] /\ wchan[y] \in Lock /\ y # t
    BY <1>1, <1>2, <1>3, <1>6 DEF Typ
  <2>2. ASSUME wchan[y] = l PROVE Satisfied(y)'
    <3>1. W # Sleepers(l) /\ active'[l] = x /\ owner'[l] = v /\ wchan'[y] = l
      BY <1>2, <2>1, <2>2
    <3>2. DISP_PRIO(y)' = DISP_PRIO(y)
      BY <1>4, <2>1 DEF DISP_PRIO
    <3>3. y \in Sleepers(l) \ W
      BY <2>1, <2>2 DEF Sleepers
    <3>4. DISP_PRIO(y) <= Pri[v] \/ (ts'[x].inheritor = v /\ DISP_PRIO(y) <= ts'[x].epri)
      BY <1>0, <3>3
    <3> QED
      BY <3>1, <3>2, <3>4 DEF Satisfied
  <2>3. ASSUME wchan[y] # l PROVE Satisfied(y)' <=> Satisfied(y)
    <3>1. active[wchan[y]] \in Thread /\ active[wchan[y]] # x
      BY <1>0, <1>1, <1>2, <1>6, <2>1, <2>3 DEF Typ, SleepOK, PlaceOK
    <3>2. ts'[active[wchan[y]]] = ts[active[wchan[y]]] /\ epri'[y] = epri[y]
      BY <1>4, <2>1, <3>1
    <3>3. owner'[wchan[y]] = owner[wchan[y]] /\ active'[wchan[y]] = active[wchan[y]]
      BY <1>2, <2>1, <2>3
    <3> QED
      BY <2>1, <3>2, <3>3, SatSame
  <2> QED
    BY <2>1, <2>2, <2>3
<1>7. ASSUME NEW y \in Thread, wchan'[y] # NULL, ~Satisfied(y)'
      PROVE  \E u \in Thread : pc'[u] \in Walks \cup Losing /\ Reach(Pos(u), y)'
  <2>1. wchan[y] # NULL /\ ~Satisfied(y)
    BY <1>6, <1>7
  <2>2. PICK u \in Thread : pc[u] \in Walks \cup Losing /\ Reach(Pos(u), y)
    BY <2>1 DEF CoverOK
  <2>3. u # t
    BY <1>3, <2>2 DEF Walks, Losing
  <2>4. PICK a : a = Pos(u) /\ a = Pos(u)'
    BY <1>3, <2>3 DEF Pos
  <2>5. Reach(a, y)'
    BY <1>5, <1>7, <2>2, <2>4
  <2>6. Reach(Pos(u), y)'
    BY <2>4, <2>5 DEF Reach
  <2> QED
    BY <1>3, <2>2, <2>3, <2>6
<1>8. ASSUME NEW u \in Thread, pc'[u] \in Walks, wchan'[cur'[u]] # NULL
      PROVE  Reach(u, cur[u])'
  <2>1. u # t /\ pc[u] \in Walks /\ cur'[u] = cur[u]
    BY <1>3, <1>8 DEF Walks
  <2>2. cur[u] \in Thread
    BY <2>1 DEF Ctl, Typ, PointOK, WalkAt
  <2>3. PICK a \in Thread : a = cur[u] /\ a = cur'[u]
    BY <2>1, <2>2
  <2>4. wchan'[a] # NULL /\ wchan[a] # NULL
    BY <1>6, <1>8, <2>3
  <2>5. Reach(u, a)
    BY <2>1, <2>3, <2>4 DEF CoverOK
  <2>6. Reach(u, a)'
    BY <1>5, <2>4, <2>5
  <2> QED
    BY <2>3, <2>6 DEF Reach
<1> QED
  BY <1>7, <1>8 DEF CoverOK

\* Every step keeps those who are not satisfied ahead of a walk.
LEMMA NextCover ==
  ASSUME Ctl, PlaceOK, BoostOK, CoverOK, [Next]_vars
  PROVE  CoverOK'
<1>1. Typ
  BY DEF Ctl
<1>2. CASE UNCHANGED vars
  BY <1>2 DEF CoverOK, Satisfied, DISP_PRIO, Reach, Closed, Pos, vars, sleep, pivars, walk
<1>3. ASSUME NEW t \in Thread, Step(t) PROVE CoverOK'
  <2>1. CASE Enter(t) \/ \E l \in Lock : Exit(t, l)
    BY <2>1, LockCover
  <2>2. CASE Contend(t) \/ turnstile_lookup(t) \/ (\E l \in Lock : ExitLookup(t, l)) \/ Swtch(t)
    BY <2>2, OutsideCover
  <2>3. CASE Block(t)
    BY <2>3, BlockCover
  <2>4. CASE \/ Follow(t) \/ Read(t) \/ Try(t) \/ Check(t) \/ Spin(t)
             \/ Lost(t) \/ Serialize(t) \/ Relock(t)
    BY <2>4, StepCover
  <2>5. CASE ChainEnd(t)
    BY <2>5, EndCover
  <2>6. CASE Inherit(t)
    BY <2>6, InheritCover
  <2>7. CASE WakeAll(t)
    <3>1. PICK l : l = olp[t]
      OBVIOUS
    <3>2. Woke(t, l, Sleepers(l), NULL)
      BY <2>7, <3>1, WakeAllFacts
    <3>3. Sleepers(l) \ Sleepers(l) = {}
      OBVIOUS
    <3> QED
      BY <3>2, <3>3, WokeCover
  <2>8. CASE HandOver(t)
    <3>1. PICK l, x : l = olp[t] /\ x = active[l]
      OBVIOUS
    <3>2. PICK n \in Sleepers(l) :
            /\ Woke(t, l, {n}, n)
            /\ Rest(l, n) > Pri[n] => ts'[x].inheritor = n /\ ts'[x].epri = Rest(l, n)
      BY <2>8, <3>1, HandOverFacts
    <3>3. l \in Lock /\ n \in Thread
      BY <3>2, WokeFacts DEF Sleepers
    <3>4. /\ Rest(l, n) \in Nat /\ Pri[n] \in Nat
          /\ \A y \in Sleepers(l) \ {n} : DISP_PRIO(y) <= Rest(l, n)
      BY <1>1, <3>3, RestIs, Consts
    <3>5. \A y \in Sleepers(l) \ {n} : DISP_PRIO(y) \in Nat
      BY <1>1, DispPrio DEF Sleepers
    <3>6. \A y \in Sleepers(l) \ {n} :
            \/ DISP_PRIO(y) <= Pri[n]
            \/ ts'[x].inheritor = n /\ DISP_PRIO(y) <= ts'[x].epri
      <4>1. CASE Rest(l, n) <= Pri[n]
        BY <3>4, <3>5, <4>1
      <4>2. CASE Rest(l, n) > Pri[n]
        BY <3>2, <3>4, <4>2
      <4> QED
        BY <3>4, <4>1, <4>2
    <3> QED
      BY <3>1, <3>2, <3>6, WokeCover
  <2> QED
    BY <1>3, <2>1, <2>2, <2>3, <2>4, <2>5, <2>6, <2>7, <2>8 DEF Step, turnstile_block
<1> QED
  BY <1>2, <1>3 DEF Next

\* With no walk under way everybody is satisfied, with an owner that has the priority.
LEMMA InvInherited == Ctl /\ BoostOK /\ CoverOK => Inherited
<1> SUFFICES ASSUME Ctl, BoostOK, CoverOK, \A u \in Thread : ~Walking(u),
                    NEW t \in Thread, wchan[t] # NULL
             PROVE  DISP_PRIO(t) <= DISP_PRIO(owner[wchan[t]])
  BY DEF Inherited
<1>1. Typ /\ SleepOK /\ PointOK
  BY DEF Ctl
<1>2. \A u \in Thread : pc[u] \notin Walks \cup Losing
  BY <1>1 DEF PointOK, WalkAt, Walking
<1>3. Satisfied(t)
  BY <1>2 DEF CoverOK
<1>4. PICK o, x : o = owner[wchan[t]] /\ x = active[wchan[t]]
  OBVIOUS
<1>5. o \in Thread /\ x \in Thread
  BY <1>1, <1>4 DEF Typ, SleepOK
<1>6. DISP_PRIO(t) <= Pri[o] \/ (ts[x].inheritor = o /\ DISP_PRIO(t) <= ts[x].epri)
  BY <1>3, <1>4 DEF Satisfied
<1>7. ts[x].inheritor = o => ts[x].epri <= Pri[o] \/ ts[x].epri <= epri[o]
  BY <1>5 DEF BoostOK, t_prioinv
<1>8. /\ DISP_PRIO(o) \in Nat /\ Pri[o] \in Nat /\ epri[o] \in Nat /\ DISP_PRIO(t) \in Nat
      /\ DISP_PRIO(o) = IF Pri[o] >= epri[o] THEN Pri[o] ELSE epri[o]
  BY <1>1, <1>5, DispPrio
<1>9. ts[x].epri \in Nat
  BY <1>1, <1>5 DEF Typ, Tsrec
<1>10. DISP_PRIO(t) <= DISP_PRIO(o)
  BY <1>6, <1>7, <1>8, <1>9
<1> QED
  BY <1>4, <1>10

\* At the start nobody sleeps, inherits or walks.
LEMMA InitInv == Init => Inv
<1> SUFFICES ASSUME Init PROVE Inv
  OBVIOUS
<1>1. Ctl /\ PlaceOK /\ CountOK
  BY InitCtl, InitPlace
<1>2. \A x \in Thread : ts[x].inheritor = NULL /\ epri[x] = 0 /\ wchan[x] = NULL /\ pc[x] = "run"
  BY DEF Init
<1>3. \A u \in Thread : t_prioinv(u) = {} /\ Pri[u] \in Nat
  BY <1>2, Consts DEF t_prioinv
<1>4. BoostOK
  BY <1>2, <1>3 DEF BoostOK
<1>5. CoverOK
  BY <1>2 DEF CoverOK, Walks
<1> QED
  BY <1>1, <1>4, <1>5 DEF Inv

----------------------------------------------------------------------------
(* The theorems *)

\* The invariant holds of turnstile_block and turnstile_wakeup together.
THEOREM Invariance == Spec => []Inv
<1>1. Inv /\ [Next]_vars => Inv'
  BY NextCtl, NextPlace, NextBoost, NextCover DEF Inv
<1> QED
  BY InitInv, <1>1, PTL DEF Spec

\* No thread ever gets to the panic for a cycle of owners, and each turnstile is
\* in one place, with just enough of them on a lock for its sleepers.
THEOREM TypeCorrect == Spec => []TypeOK
<1>1. Inv => TypeOK
  BY InvType DEF Inv
<1> QED
  BY <1>1, Invariance, PTL

\* When no thread is in the middle of turnstile_block, the owner of every lock
\* has at least the priority of each thread that sleeps on it.
THEOREM PriorityInherited == Spec => []Inherited
<1>1. Inv => Inherited
  BY InvInherited DEF Inv
<1> QED
  BY <1>1, Invariance, PTL

\* A thread's priority is its own or the highest it still inherits, and what it
\* inherits comes from locks it owns: turnstile_pi_waive and a hand-over leave
\* nothing behind.
THEOREM BoostIsJustified == Spec => []BoostJustified
<1>1. Inv => BoostJustified
  BY InvBoost DEF Inv
<1> QED
  BY <1>1, Invariance, PTL

=============================================================================
