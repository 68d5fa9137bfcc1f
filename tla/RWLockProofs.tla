---------------------------- MODULE RWLockProofs ----------------------------
(***************************************************************************)
(* Proofs about RWLock for any finite set of threads and any priorities.   *)
(*                                                                         *)
(* The inductive invariant Inv says, on top of the properties themselves,  *)
(* what the two bits of the word mean while somebody holds tc_lock, that   *)
(* the granted threads are a prefix of their queue, and that a thread on   *)
(* its way to the handoff is the only holder, which is what allows         *)
(* rw_exit_wakeup to store the word without a compare-and-swap.            *)
(***************************************************************************)
EXTENDS RWLock, PriQueueProofs

Sleepers == ToSet(readerq) \cup ToSet(writerq)

Types ==
    /\ rw_wwwh \in [owner : Thread \cup {NULL}, count : Nat, want : BOOLEAN, wait : BOOLEAN]
    /\ tc_lock \in Thread \cup {NULL}
    /\ pri \in [Thread -> Nat] /\ kpri \in [Thread -> Nat]
    /\ pc \in [Thread -> PC \ {"panic"}] /\ mode \in [Thread -> Mode]
    /\ grant \in [Thread -> SUBSET Thread]

\* tc_lock is held by the thread that is between lookup and release.
Chain == \A t \in Thread : pc[t] \in TurnstilePC <=> tc_lock = t

\* The queues hold sleeping threads of their mode, once, in order.
QueuesOK ==
    /\ readerq \in Seq(Thread) /\ IsInjective(readerq) /\ Sorted(readerq, pri)
    /\ writerq \in Seq(Thread) /\ IsInjective(writerq) /\ Sorted(writerq, pri)
Queued ==
    /\ \A t \in ToSet(readerq) : pc[t] = "asleep" /\ mode[t] = "reader"
    /\ \A t \in ToSet(writerq) : pc[t] = "asleep" /\ mode[t] = "writer"

\* Threads that sleep and hold the lock already are about to be woken, and are
\* the first of their queue.
GrantOK == \A t \in Thread :
    /\ grant[t] # {} => pc[t] \in {"exit_wakeup", "downgrade_wakeup"}
    /\ grant[t] \subseteq Sleepers
    /\ \E n \in 0..Len(readerq) : grant[t] \cap ToSet(readerq) = First(readerq, n)
    /\ \E n \in 0..Len(writerq) : grant[t] \cap ToSet(writerq) = First(writerq, n)

\* Readers or one writer.
Exclusive == rw_wwwh.owner # NULL => rw_wwwh.count = 0

\* The bits of the word tell of the sleepers that have not been granted the
\* lock, and of the one thread that is about to join them.
Bits == /\ rw_wwwh.wait <=> Sleepers \ Granted # {} \/ \E t \in Thread : pc[t] = "block"
        /\ rw_wwwh.want <=> \/ ToSet(writerq) \ Granted # {}
                            \/ \E t \in Thread : pc[t] = "block" /\ mode[t] = "writer"

\* A lock with waiters is held.
WaitLocked == rw_wwwh.wait => Locked(rw_wwwh)

\* Readers wait for readers only until a downgrade has woken them.
ReadersWait == rw_wwwh.owner = NULL /\ rw_wwwh.wait /\ ~rw_wwwh.want =>
    \E t \in Thread : pc[t] \in {"downgrade_lookup", "downgrade_grant"}

\* A thread that is going to hand over the lock is the only holder.
Alone == \A t \in Thread :
    /\ pc[t] \in {"exit_lookup", "handoff"} =>
         /\ rw_wwwh.wait
         /\ mode[t] = "reader" => rw_wwwh.want /\ Holders("reader") = {t}
    /\ pc[t] \in {"downgrade_lookup", "downgrade_grant", "downgrade_wakeup"} => mode[t] = "reader"

Inv == /\ Types /\ Chain /\ QueuesOK /\ Queued /\ GrantOK
       /\ WordAgrees /\ Exclusive /\ Bits /\ WaitLocked /\ ReadersWait /\ Alone
       /\ KpriBalanced

----------------------------------------------------------------------------
\* The sleepers are threads that are asleep, and only they are granted the
\* lock, by the thread that holds tc_lock.
GrantFacts ==
    /\ ToSet(readerq) \subseteq Thread /\ ToSet(writerq) \subseteq Thread
    /\ ToSet(readerq) \cap ToSet(writerq) = {}
    /\ Granted \subseteq Sleepers
    /\ \A t \in Sleepers : t \in Thread /\ pc[t] = "asleep"
    /\ \A t \in Thread : grant[t] # {} => tc_lock = t
    /\ tc_lock \in Thread => Granted = grant[tc_lock]
    /\ tc_lock = NULL => Granted = {}
    /\ \A m \in Mode : /\ IsFiniteSet(Holders(m)) /\ Cardinality(Holders(m)) \in Nat
                       /\ Holders(m) \subseteq Thread

\* The invariant implies these facts.
LEMMA InvGrantFacts == Inv => GrantFacts
<1> SUFFICES ASSUME Inv PROVE GrantFacts
  OBVIOUS
<1>1. ToSet(readerq) \subseteq Thread /\ ToSet(writerq) \subseteq Thread
  BY LenProperties, ElementOfSeq DEF Inv, QueuesOK, ToSet
<1>2. ToSet(readerq) \cap ToSet(writerq) = {}
  BY DEF Inv, Queued
<1>3. Granted \subseteq Sleepers
  BY DEF Granted, Inv, GrantOK
<1>4. \A t \in Sleepers : t \in Thread /\ pc[t] = "asleep"
  BY <1>1 DEF Sleepers, Inv, Queued
<1>5. \A t \in Thread : grant[t] # {} => tc_lock = t
  BY DEF Inv, GrantOK, Chain, TurnstilePC
<1>6. tc_lock \in Thread => Granted = grant[tc_lock]
  BY <1>5 DEF Granted
<1>7. tc_lock = NULL => Granted = {}
  BY <1>5, RWAssumption DEF Granted
<1>8. ASSUME NEW m \in Mode
      PROVE  /\ IsFiniteSet(Holders(m)) /\ Cardinality(Holders(m)) \in Nat
             /\ Holders(m) \subseteq Thread
  <2>1. Holders(m) \in SUBSET Thread
    BY DEF Holders
  <2> QED
    BY <2>1, RWAssumption, FS_Subset, FS_CardinalityType
<1> QED
  BY <1>1, <1>2, <1>3, <1>4, <1>5, <1>6, <1>7, <1>8 DEF GrantFacts

\* One thread that is awake changes its place or its mode.
Moves(t) == /\ grant' = grant
            /\ \A u \in Thread \ {t} : pc'[u] = pc[u] /\ mode'[u] = mode[u]

\* Then nobody else joins or leaves the holders.
LEMMA MoveHolders ==
  ASSUME Inv, NEW t \in Thread, pc[t] # "asleep", Moves(t), NEW m \in Mode
  PROVE  /\ Granted' = Granted /\ t \notin Granted
         /\ Holders(m)' = (Holders(m) \ {t}) \cup
                          {u \in {t} : mode'[u] = m /\ pc'[u] \in HoldPC}
<1>1. Granted' = Granted
  BY DEF Granted, Moves
<1>2. t \notin Granted
  BY InvGrantFacts DEF GrantFacts
<1> QED
  BY <1>1, <1>2 DEF Holders, Moves

\* The bits stay true when no sleeper comes or goes.
LEMMA MoveBits ==
  ASSUME Inv, NEW t \in Thread, pc[t] # "asleep", Moves(t), UNCHANGED <<readerq, writerq>>,
         pc[t] # "block", pc'[t] # "block",
         rw_wwwh'.wait = rw_wwwh.wait, rw_wwwh'.want = rw_wwwh.want
  PROVE  Bits'
<1>1. Granted' = Granted /\ Sleepers' = Sleepers
  BY DEF Granted, Moves, Sleepers
<1>2. /\ (\E u \in Thread : pc'[u] = "block") <=> (\E u \in Thread : pc[u] = "block")
      /\ (\E u \in Thread : pc'[u] = "block" /\ mode'[u] = "writer")
           <=> (\E u \in Thread : pc[u] = "block" /\ mode[u] = "writer")
  BY DEF Moves
<1> QED
  BY <1>1, <1>2 DEF Bits, Inv

\* The queues and the grants stay in order when only an awake thread moves.
LEMMA MoveQueues ==
  ASSUME Inv, NEW t \in Thread, pc[t] # "asleep", Moves(t), UNCHANGED <<readerq, writerq, pri>>,
         pc[t] \notin {"exit_wakeup", "downgrade_wakeup"}
  PROVE  QueuesOK' /\ Queued' /\ GrantOK'
<1>1. QueuesOK'
  BY DEF Inv, QueuesOK
<1>2. Queued'
  BY InvGrantFacts DEF Inv, Queued, Moves, GrantFacts, Sleepers
<1>3. GrantOK'
  BY DEF Inv, GrantOK, Moves, Sleepers
<1> QED
  BY <1>1, <1>2, <1>3

----------------------------------------------------------------------------
\* rw_enter keeps the invariant.
LEMMA EnterInv == ASSUME Inv, NEW t \in Thread, NEW m \in Mode, rw_enter(t, m) PROVE Inv'
<1>1. pc[t] = "idle" /\ Moves(t) /\ pc' = [pc EXCEPT ![t] = "enter"] /\ UNCHANGED rw_wwwh
  BY DEF rw_enter, Moves, Goto, Inv, Types
<1>2. Types'
  BY DEF Inv, Types, rw_enter, Kpri, Goto, Mode, PC
<1>3. Chain'
  BY <1>1 DEF Inv, Types, Chain, rw_enter, TurnstilePC
<1>4. QueuesOK' /\ Queued' /\ GrantOK' /\ Bits'
  BY <1>1, MoveQueues, MoveBits DEF rw_enter
<1>5. Holders("reader")' = Holders("reader") /\ Holders("writer")' = Holders("writer")
  BY <1>1, MoveHolders DEF HoldPC, Holders, Mode, Inv, Types
<1>6. WordAgrees' /\ Exclusive' /\ WaitLocked'
  BY <1>1, <1>5 DEF Inv, WordAgrees, Exclusive, WaitLocked, Locked
<1>7. ReadersWait' /\ Alone'
  BY <1>1, <1>5 DEF Inv, Types, ReadersWait, Alone, Moves
<1>8. KpriBalanced'
  BY <1>1, MoveHolders DEF Inv, Types, KpriBalanced, rw_enter, Kpri, Moves, Mode
<1> QED
  BY <1>2, <1>3, <1>4, <1>6, <1>7, <1>8 DEF Inv

\* A thread that finds the lock not busy takes it.
LEMMA TakeWord ==
  ASSUME Inv, NEW t \in Thread, NEW m \in Mode, pc[t] \in {"idle", "enter"}, Moves(t),
         pc' = [pc EXCEPT ![t] = "held"], mode' = [mode EXCEPT ![t] = m],
         ~Busy(rw_wwwh, m), rw_wwwh' = Add(rw_wwwh, t, m),
         UNCHANGED <<tc_lock, readerq, writerq, pri>>
  PROVE  /\ Chain' /\ QueuesOK' /\ Queued' /\ GrantOK'
         /\ WordAgrees' /\ Exclusive' /\ Bits' /\ WaitLocked' /\ ReadersWait' /\ Alone'
<1>1. /\ rw_wwwh \in [owner : Thread \cup {NULL}, count : Nat, want : BOOLEAN, wait : BOOLEAN]
      /\ pc \in [Thread -> PC] /\ mode \in [Thread -> Mode]
  BY DEF Inv, Types
<1>2. Chain'
  BY <1>1 DEF Inv, Chain, TurnstilePC
<1>3. rw_wwwh'.wait = rw_wwwh.wait /\ rw_wwwh'.want = rw_wwwh.want
  BY <1>1 DEF Add
<1>4. QueuesOK' /\ Queued' /\ GrantOK' /\ Bits'
  BY <1>1, <1>3, MoveQueues, MoveBits
<1>5. t \notin Holders("reader") /\ t \notin Holders("writer")
  BY MoveHolders DEF Holders, HoldPC, Mode
<1>6. CASE m = "reader"
  <2>1. rw_wwwh.owner = NULL /\ ~rw_wwwh.want
    BY <1>6 DEF Busy, Claimed
  <2>2. rw_wwwh'.owner = NULL /\ rw_wwwh'.count = rw_wwwh.count + 1
    BY <1>1, <1>6, <2>1 DEF Add
  <2>3. Holders("reader")' = Holders("reader") \cup {t} /\ Holders("writer")' = Holders("writer")
    <3>1. mode'[t] = "reader" /\ pc'[t] = "held"
      BY <1>1, <1>6
    <3> QED
      BY <1>5, <3>1, MoveHolders DEF HoldPC, Mode
  <2>4. Cardinality(Holders("reader")') = Cardinality(Holders("reader")) + 1
    BY <1>5, <2>3, InvGrantFacts, FS_AddElement DEF GrantFacts, Mode
  <2>5. WordAgrees'
    BY <2>1, <2>2, <2>3, <2>4 DEF Inv, WordAgrees
  <2>6. Exclusive' /\ WaitLocked'
    BY <1>1, <2>2 DEF Exclusive, WaitLocked, Locked
  <2>7. ReadersWait'
    BY <1>1, <1>3, <2>1 DEF Inv, ReadersWait
  <2>8. Alone'
    BY <1>1, <1>3, <2>1 DEF Inv, Alone, Moves
  <2> QED
    BY <1>2, <1>4, <2>5, <2>6, <2>7, <2>8
<1>7. CASE m = "writer"
  <2>1. rw_wwwh.owner = NULL /\ rw_wwwh.count = 0
    BY <1>1, <1>7 DEF Busy, Locked
  <2>2. rw_wwwh'.owner = t /\ rw_wwwh'.count = 0
    BY <1>1, <1>7, <2>1 DEF Add
  <2>3. Holders("reader")' = Holders("reader") /\ Holders("writer")' = Holders("writer") \cup {t}
    <3>1. mode'[t] = "writer" /\ pc'[t] = "held"
      BY <1>1, <1>7
    <3> QED
      BY <1>5, <3>1, MoveHolders DEF HoldPC, Mode
  <2>4. WordAgrees'
    BY <2>1, <2>2, <2>3, RWAssumption DEF Inv, WordAgrees
  <2>5. Exclusive' /\ WaitLocked'
    BY <2>2, RWAssumption DEF Exclusive, WaitLocked, Locked
  <2>6. ReadersWait'
    BY <2>2, RWAssumption DEF ReadersWait
  <2>7. Alone'
    BY <1>1, <2>1 DEF Inv, Alone, Moves, WaitLocked, Locked
  <2> QED
    BY <1>2, <1>4, <2>4, <2>5, <2>6, <2>7
<1> QED
  BY <1>6, <1>7 DEF Mode

\* A step that leaves the word, the queues and the grants alone and moves a
\* thread that neither holds the lock nor comes to hold it.
LEMMA OutsideStep ==
  ASSUME Inv, NEW t \in Thread, pc[t] \notin HoldPC \cup {"asleep", "block", "exit_wakeup"},
         NEW l \in PC \ (HoldPC \cup {"panic", "block"}), pc' = [pc EXCEPT ![t] = l],
         UNCHANGED <<rw_wwwh, readerq, writerq, pri, mode, grant>>
  PROVE  /\ QueuesOK' /\ Queued' /\ GrantOK'
         /\ WordAgrees' /\ Exclusive' /\ Bits' /\ WaitLocked' /\ ReadersWait' /\ Alone'
<1>1. Moves(t) /\ pc'[t] = l
  BY DEF Moves, Inv, Types
<1>2. QueuesOK' /\ Queued' /\ GrantOK' /\ Bits'
  BY <1>1, MoveQueues, MoveBits DEF HoldPC
<1>3. Holders("reader")' = Holders("reader") /\ Holders("writer")' = Holders("writer")
  BY <1>1, MoveHolders DEF HoldPC, Holders, Mode
<1>4. WordAgrees' /\ Exclusive' /\ WaitLocked'
  BY <1>3 DEF Inv, WordAgrees, Exclusive, WaitLocked, Locked
<1>5. ReadersWait' /\ Alone'
  BY <1>1, <1>3 DEF Inv, Types, ReadersWait, Alone, Moves, HoldPC
<1> QED
  BY <1>2, <1>4, <1>5

\* A thread that moves without being asleep or idle keeps its kernel priority.
LEMMA MoveKpri ==
  ASSUME Inv, NEW t \in Thread, pc[t] \notin {"idle", "asleep"}, pc'[t] \notin {"idle", "asleep"},
         Moves(t), UNCHANGED <<kpri, mode>>
  PROVE  KpriBalanced'
<1>1. Granted' = Granted
  BY MoveHolders DEF Mode
<1> QED
  BY <1>1 DEF Inv, Types, KpriBalanced, Moves

\* The head of the loop of rw_enter_sleep keeps the invariant; the owner does
\* not get here, so there is no panic.
LEMMA EnterTryInv == ASSUME Inv, NEW t \in Thread, EnterTry(t) PROVE Inv'
<1>1. pc[t] = "enter" /\ mode[t] \in Mode /\ Moves(t) /\ mode' = [mode EXCEPT ![t] = mode[t]]
  BY DEF EnterTry, Goto, Moves, Inv, Types
<1>2. CASE Busy(rw_wwwh, mode[t])
  <2>1. rw_wwwh.owner # t
    <3>1. t \notin Holders("writer")
      BY <1>1, MoveHolders DEF Holders, HoldPC, Mode
    <3> QED
      BY <3>1, RWAssumption DEF Inv, WordAgrees
  <2>2. pc' = [pc EXCEPT ![t] = "lookup"] /\ UNCHANGED rw_wwwh
    BY <1>2, <2>1 DEF EnterTry, Goto
  <2>3. Types'
    BY <2>2 DEF Inv, Types, EnterTry, PC
  <2>4. Chain'
    BY <1>1, <2>2 DEF Inv, Types, Chain, EnterTry, TurnstilePC
  <2>5. /\ QueuesOK' /\ Queued' /\ GrantOK'
        /\ WordAgrees' /\ Exclusive' /\ Bits' /\ WaitLocked' /\ ReadersWait' /\ Alone'
    BY <1>1, <2>2, OutsideStep DEF EnterTry, HoldPC, PC
  <2>6. KpriBalanced'
    BY <1>1, <2>2, MoveKpri DEF EnterTry, Inv, Types
  <2> QED
    BY <2>3, <2>4, <2>5, <2>6 DEF Inv
<1>3. CASE ~Busy(rw_wwwh, mode[t])
  <2>1. pc' = [pc EXCEPT ![t] = "held"] /\ rw_wwwh' = Add(rw_wwwh, t, mode[t])
    BY <1>3 DEF EnterTry, Goto
  <2>2. Types'
    BY <2>1, RWAssumption DEF Inv, Types, EnterTry, PC, Add, Mode
  <2>3. /\ Chain' /\ QueuesOK' /\ Queued' /\ GrantOK'
        /\ WordAgrees' /\ Exclusive' /\ Bits' /\ WaitLocked' /\ ReadersWait' /\ Alone'
    BY <1>1, <1>3, <2>1, TakeWord DEF EnterTry
  <2>4. KpriBalanced'
    BY <1>1, <2>1, MoveKpri DEF EnterTry, Inv, Types
  <2> QED
    BY <2>2, <2>3, <2>4 DEF Inv
<1> QED
  BY <1>2, <1>3

\* rw_tryenter keeps the invariant.
LEMMA TryenterInv == ASSUME Inv, NEW t \in Thread, NEW m \in Mode, rw_tryenter(t, m) PROVE Inv'
<1>1. /\ pc[t] = "idle" /\ Moves(t) /\ pc' = [pc EXCEPT ![t] = "held"]
      /\ mode' = [mode EXCEPT ![t] = m] /\ rw_wwwh' = Add(rw_wwwh, t, m)
  BY DEF rw_tryenter, Goto, Moves, Inv, Types
<1>2. ~Busy(rw_wwwh, m)
  BY RWAssumption DEF rw_tryenter, Busy, Unheld, Locked, Mode
<1>3. Types'
  BY <1>1, RWAssumption DEF Inv, Types, rw_tryenter, Kpri, PC, Add, Mode
<1>4. /\ Chain' /\ QueuesOK' /\ Queued' /\ GrantOK'
      /\ WordAgrees' /\ Exclusive' /\ Bits' /\ WaitLocked' /\ ReadersWait' /\ Alone'
  BY <1>1, <1>2, TakeWord DEF rw_tryenter
<1>5. KpriBalanced'
  BY <1>1, MoveHolders DEF Inv, Types, KpriBalanced, rw_tryenter, Kpri, Moves, Mode
<1> QED
  BY <1>3, <1>4, <1>5 DEF Inv

\* turnstile_lookup keeps the invariant, on each of its three paths.
LEMMA LookupInv ==
  ASSUME Inv, NEW t \in Thread, EnterLookup(t) \/ ExitLookup(t) \/ DowngradeLookup(t)
  PROVE  Inv'
<1>1. /\ Moves(t) /\ tc_lock = NULL /\ tc_lock' = t
      /\ UNCHANGED <<rw_wwwh, readerq, writerq, pri, kpri, mode, grant>>
      /\ \/ pc[t] = "lookup" /\ pc' = [pc EXCEPT ![t] = "set_wait"]
         \/ pc[t] = "exit_lookup" /\ pc' = [pc EXCEPT ![t] = "handoff"]
         \/ pc[t] = "downgrade_lookup" /\ pc' = [pc EXCEPT ![t] = "downgrade_grant"]
  BY DEF EnterLookup, ExitLookup, DowngradeLookup, turnstile_lookup, Goto, Moves, Inv, Types
<1>2. Types'
  BY <1>1 DEF Inv, Types, PC
<1>3. Chain'
  BY <1>1, RWAssumption DEF Inv, Types, Chain, TurnstilePC
<1>4. QueuesOK' /\ Queued' /\ GrantOK' /\ Bits'
  BY <1>1, MoveQueues, MoveBits DEF Inv, Types
<1>5. Holders("reader")' = Holders("reader") /\ Holders("writer")' = Holders("writer")
  BY <1>1, MoveHolders DEF HoldPC, Holders, Mode, Inv, Types
<1>6. WordAgrees' /\ Exclusive' /\ WaitLocked'
  BY <1>1, <1>5 DEF Inv, WordAgrees, Exclusive, WaitLocked, Locked
<1>7. ReadersWait' /\ Alone'
  BY <1>1, <1>5 DEF Inv, Types, ReadersWait, Alone, Moves
<1>8. KpriBalanced'
  BY <1>1, MoveKpri DEF Inv, Types
<1> QED
  BY <1>2, <1>3, <1>4, <1>6, <1>7, <1>8 DEF Inv

\* Setting the bits under tc_lock keeps the invariant: the lock is still busy,
\* so it is held, or a writer waits for its holder.
LEMMA SetWaitInv == ASSUME Inv, NEW t \in Thread, SetWait(t) PROVE Inv'
<1>1. /\ pc[t] = "set_wait" /\ Moves(t) /\ tc_lock = t
      /\ UNCHANGED <<readerq, writerq, pri, kpri, mode, grant>>
  BY DEF SetWait, Goto, Moves, Inv, Types, Chain, TurnstilePC
<1>2. CASE ~Busy(rw_wwwh, mode[t])
  <2>1. pc' = [pc EXCEPT ![t] = "enter"] /\ tc_lock' = NULL /\ UNCHANGED rw_wwwh
    BY <1>2 DEF SetWait, Goto
  <2>2. Types'
    BY <1>1, <2>1 DEF Inv, Types, PC
  <2>3. Chain'
    BY <1>1, <2>1, RWAssumption DEF Inv, Types, Chain, TurnstilePC
  <2>4. /\ QueuesOK' /\ Queued' /\ GrantOK'
        /\ WordAgrees' /\ Exclusive' /\ Bits' /\ WaitLocked' /\ ReadersWait' /\ Alone'
    BY <1>1, <2>1, OutsideStep DEF HoldPC, PC
  <2>5. KpriBalanced'
    BY <1>1, <2>1, MoveKpri DEF Inv, Types
  <2> QED
    BY <2>2, <2>3, <2>4, <2>5 DEF Inv
<1>3. CASE Busy(rw_wwwh, mode[t])
  <2>1. /\ pc' = [pc EXCEPT ![t] = "block"] /\ tc_lock' = tc_lock
        /\ rw_wwwh' = [rw_wwwh EXCEPT !.wait = TRUE, !.want = @ \/ mode[t] = "writer"]
    BY <1>3 DEF SetWait, Goto
  <2>2. /\ rw_wwwh \in [owner : Thread \cup {NULL}, count : Nat, want : BOOLEAN, wait : BOOLEAN]
        /\ pc \in [Thread -> PC] /\ mode \in [Thread -> Mode]
    BY DEF Inv, Types
  <2>3. /\ rw_wwwh'.owner = rw_wwwh.owner /\ rw_wwwh'.count = rw_wwwh.count
        /\ rw_wwwh'.wait /\ (rw_wwwh'.want <=> rw_wwwh.want \/ mode[t] = "writer")
    BY <2>1, <2>2
  <2>4. Types'
    BY <1>1, <2>1 DEF Inv, Types, PC
  <2>5. Chain'
    BY <1>1, <2>1, <2>2 DEF Inv, Chain, TurnstilePC
  <2>6. QueuesOK' /\ Queued' /\ GrantOK'
    BY <1>1, MoveQueues
  <2>7. /\ Granted' = Granted
        /\ Holders("reader")' = Holders("reader") /\ Holders("writer")' = Holders("writer")
    BY <1>1, <2>1, <2>2, MoveHolders DEF HoldPC, Holders, Mode
  <2>8. WordAgrees' /\ Exclusive'
    BY <2>3, <2>7 DEF Inv, WordAgrees, Exclusive
  <2>9. \A u \in Thread : pc[u] # "block" /\ (pc'[u] = "block" <=> u = t)
    BY <1>1, <2>1, <2>2 DEF Inv, Chain, TurnstilePC
  <2>10. Bits'
    <3>1. Sleepers' = Sleepers
      BY <1>1 DEF Sleepers
    <3> QED
      BY <1>1, <2>3, <2>7, <2>9, <3>1 DEF Inv, Bits
  <2>11. rw_wwwh.want => rw_wwwh.wait
    BY DEF Inv, Bits, Sleepers
  <2>12. WaitLocked'
    BY <1>3, <2>2, <2>3, <2>11 DEF Inv, WaitLocked, Locked, Busy, Claimed, Mode
  <2>13. ReadersWait'
    BY <1>3, <2>2, <2>3 DEF ReadersWait, Busy, Claimed, Mode
  <2>14. Alone'
    BY <1>1, <2>1, <2>2, <2>3, <2>7 DEF Inv, Alone
  <2>15. KpriBalanced'
    BY <1>1, <2>1, <2>2, MoveKpri
  <2> QED
    BY <2>4, <2>5, <2>6, <2>8, <2>10, <2>12, <2>13, <2>14, <2>15 DEF Inv
<1> QED
  BY <1>2, <1>3

\* While tc_lock is free, or its holder is not waking anybody, nobody is
\* granted the lock in his sleep.
LEMMA NoGrants ==
  ASSUME Inv, tc_lock = NULL \/ \E t \in Thread : tc_lock = t /\ pc[t] \notin {"exit_wakeup", "downgrade_wakeup"}
  PROVE  Granted = {} /\ \A t \in Thread : grant[t] = {}
<1>1. \A t \in Thread : grant[t] = {}
  BY InvGrantFacts, RWAssumption DEF GrantFacts, Inv, GrantOK
<1> QED
  BY <1>1 DEF Granted

\* Grants to nobody say nothing about the queues.
LEMMA EmptyGrants ==
  ASSUME \A t \in Thread : grant[t] = {}, readerq \in Seq(Thread), writerq \in Seq(Thread)
  PROVE  GrantOK
<1>1. 0 \in 0..Len(readerq) /\ 0 \in 0..Len(writerq)
  BY LenProperties
<1>2. First(readerq, 0) = {} /\ First(writerq, 0) = {}
  BY DEF First
<1> QED
  BY <1>1, <1>2 DEF GrantOK

\* turnstile_block keeps the invariant.
LEMMA BlockInv == ASSUME Inv, NEW t \in Thread, turnstile_block(t) PROVE Inv'
<1>1. /\ pc[t] = "block" /\ tc_lock = t /\ tc_lock' = NULL /\ Moves(t)
      /\ pc' = [pc EXCEPT ![t] = "asleep"] /\ UNCHANGED <<rw_wwwh, pri, mode, grant>>
  BY DEF turnstile_block, Goto, Moves, Inv, Types, Chain, TurnstilePC
<1>2. /\ pc \in [Thread -> PC] /\ mode \in [Thread -> Mode] /\ pri \in [Thread -> Int]
  BY DEF Inv, Types
<1>3. t \notin ToSet(readerq) /\ t \notin ToSet(writerq)
  BY <1>1 DEF Inv, Queued
<1>4. Granted = {} /\ \A u \in Thread : grant[u] = {}
  BY <1>1, NoGrants
<1>5. QueuesOK' /\ ToSet(readerq') = ToSet(readerq) \cup {u \in {t} : mode[u] = "reader"}
               /\ ToSet(writerq') = ToSet(writerq) \cup {u \in {t} : mode[u] = "writer"}
  <2>1. CASE mode[t] = "reader"
    <3>1. readerq' = Insert(readerq, t, pri) /\ writerq' = writerq
      BY <2>1 DEF turnstile_block
    <3>2. readerq \in Seq(Thread) /\ IsInjective(readerq) /\ Sorted(readerq, pri)
      BY DEF Inv, QueuesOK
    <3>3. readerq' \in Seq(Thread) /\ Sorted(readerq', pri)
      BY <1>2, <3>1, <3>2, InsertContents, InsertSorted
    <3>4. IsInjective(readerq')
      BY <1>2, <1>3, <3>1, <3>2, InsertContents
    <3>5. ToSet(Insert(readerq, t, pri)) = ToSet(readerq) \cup {t}
      BY <1>2, <3>2, InsertContents
    <3> QED
      BY <1>1, <2>1, <3>1, <3>3, <3>4, <3>5 DEF Inv, QueuesOK
  <2>2. CASE mode[t] = "writer"
    <3>1. writerq' = Insert(writerq, t, pri) /\ readerq' = readerq
      BY <2>2 DEF turnstile_block
    <3>2. writerq \in Seq(Thread) /\ IsInjective(writerq) /\ Sorted(writerq, pri)
      BY DEF Inv, QueuesOK
    <3>3. writerq' \in Seq(Thread) /\ Sorted(writerq', pri)
      BY <1>2, <3>1, <3>2, InsertContents, InsertSorted
    <3>4. IsInjective(writerq')
      BY <1>2, <1>3, <3>1, <3>2, InsertContents
    <3>5. ToSet(Insert(writerq, t, pri)) = ToSet(writerq) \cup {t}
      BY <1>2, <3>2, InsertContents
    <3> QED
      BY <1>1, <2>2, <3>1, <3>3, <3>4, <3>5 DEF Inv, QueuesOK
  <2> QED
    BY <1>2, <2>1, <2>2 DEF Mode
<1>6. kpri[t] = IF mode[t] = "reader" THEN 1 ELSE 0
  BY <1>1 DEF Inv, KpriBalanced
<1>7. Types'
  BY <1>1, <1>6 DEF Inv, Types, PC, turnstile_block, KpriDrop
<1>8. Chain'
  BY <1>1, <1>2, RWAssumption DEF Inv, Chain, TurnstilePC
<1>9. Queued'
  BY <1>1, <1>2, <1>5, InvGrantFacts DEF Inv, Queued, GrantFacts
<1>10. GrantOK'
  <2>1. (\A u \in Thread : grant[u] = {})' /\ readerq' \in Seq(Thread) /\ writerq' \in Seq(Thread)
    BY <1>1, <1>4, <1>5 DEF QueuesOK
  <2>2. 0 \in 0..Len(readerq') /\ 0 \in 0..Len(writerq')
    BY <2>1, LenProperties
  <2>3. First(readerq', 0) = {} /\ First(writerq', 0) = {}
    BY DEF First
  <2> QED
    BY <2>1, <2>2, <2>3 DEF GrantOK
<1>11. /\ Granted' = {}
       /\ Holders("reader")' = Holders("reader") /\ Holders("writer")' = Holders("writer")
  BY <1>1, <1>2, <1>4, MoveHolders DEF HoldPC, Holders, Mode
<1>12. WordAgrees' /\ Exclusive' /\ WaitLocked'
  BY <1>1, <1>11 DEF Inv, WordAgrees, Exclusive, WaitLocked, Locked
<1>13. Bits'
  <2>1. \A u \in Thread : (pc[u] = "block" <=> u = t) /\ pc'[u] # "block"
    BY <1>1, <1>2 DEF Inv, Chain, TurnstilePC
  <2>2. Sleepers' = Sleepers \cup {t}
    BY <1>2, <1>5 DEF Sleepers, Mode
  <2> QED
    BY <1>1, <1>4, <1>5, <1>11, <2>1, <2>2 DEF Inv, Bits
<1>14. ReadersWait' /\ Alone'
  BY <1>1, <1>2, <1>11 DEF Inv, ReadersWait, Alone
<1>15. KpriBalanced'
  BY <1>1, <1>2, <1>4, <1>6, <1>11 DEF Inv, Types, KpriBalanced, turnstile_block, KpriDrop, Moves
<1> QED
  BY <1>5, <1>7, <1>8, <1>9, <1>10, <1>12, <1>13, <1>14, <1>15 DEF Inv

\* A thread with a hold is one of the holders, and the word shows it.
LEMMA HolderWord ==
  ASSUME Inv, NEW t \in Thread, pc[t] \in HoldPC
  PROVE  /\ t \in Holders(mode[t])
         /\ mode[t] = "reader" => rw_wwwh.owner = NULL /\ rw_wwwh.count >= 1 /\ Holders("writer") = {}
         /\ mode[t] = "writer" => /\ rw_wwwh.owner = t /\ rw_wwwh.count = 0
                                  /\ Holders("writer") = {t} /\ Holders("reader") = {}
<1>1. t \in Holders(mode[t])
  BY DEF Holders
<1>2. \A m \in Mode : IsFiniteSet(Holders(m)) /\ Cardinality(Holders(m)) \in Nat
  BY InvGrantFacts DEF GrantFacts
<1>3. ASSUME mode[t] = "reader" PROVE rw_wwwh.owner = NULL /\ rw_wwwh.count >= 1 /\ Holders("writer") = {}
  <2>1. Cardinality(Holders("reader")) # 0
    BY <1>1, <1>2, <1>3, FS_EmptySet DEF Mode
  <2>2. rw_wwwh.count # 0 /\ rw_wwwh.count \in Nat
    BY <2>1 DEF Inv, WordAgrees, Types
  <2> QED
    BY <2>2 DEF Inv, Exclusive, WordAgrees
<1>4. ASSUME mode[t] = "writer"
      PROVE  /\ rw_wwwh.owner = t /\ rw_wwwh.count = 0
             /\ Holders("writer") = {t} /\ Holders("reader") = {}
  <2>1. rw_wwwh.owner = t /\ Holders("writer") = {t}
    BY <1>1, <1>4 DEF Inv, WordAgrees
  <2>2. rw_wwwh.count = 0
    BY <2>1, RWAssumption DEF Inv, Exclusive
  <2>3. Holders("reader") = {}
    BY <1>2, <2>2, FS_EmptySet DEF Inv, WordAgrees, Mode
  <2> QED
    BY <2>1, <2>2, <2>3
<1> QED
  BY <1>1, <1>3, <1>4

\* rw_exit keeps the invariant and does not panic; the last reader of a lock
\* with waiters finds that a writer wants it.
LEMMA ExitInv == ASSUME Inv, NEW t \in Thread, rw_exit(t) PROVE Inv'
<1> DEFINE new == Drop(rw_wwwh, mode[t])
<1>1. /\ pc[t] = "held" /\ Moves(t) /\ UNCHANGED <<tc_lock, readerq, writerq, pri, mode, grant>>
  BY DEF rw_exit, Goto, Moves, Inv, Types
<1>2. /\ rw_wwwh \in [owner : Thread \cup {NULL}, count : Nat, want : BOOLEAN, wait : BOOLEAN]
      /\ pc \in [Thread -> PC \ {"panic"}] /\ mode \in [Thread -> Mode]
  BY DEF Inv, Types
<1>3. /\ t \in Holders(mode[t])
      /\ mode[t] = "reader" => rw_wwwh.owner = NULL /\ rw_wwwh.count >= 1 /\ Holders("writer") = {}
      /\ mode[t] = "writer" => /\ rw_wwwh.owner = t /\ rw_wwwh.count = 0
                               /\ Holders("writer") = {t} /\ Holders("reader") = {}
  BY <1>1, HolderWord DEF HoldPC
<1>5. /\ new.owner = NULL /\ new.wait = rw_wwwh.wait /\ new.want = rw_wwwh.want
      /\ new.count = IF mode[t] = "reader" THEN rw_wwwh.count - 1 ELSE 0
      /\ new \in [owner : Thread \cup {NULL}, count : Nat, want : BOOLEAN, wait : BOOLEAN]
  <2>1. CASE mode[t] = "reader"
    <3>1. new = [rw_wwwh EXCEPT !.count = rw_wwwh.count - 1] /\ rw_wwwh.count - 1 \in Nat
      BY <1>2, <1>3, <2>1 DEF Drop
    <3> HIDE DEF new
    <3> QED
      BY <1>2, <1>3, <2>1, <3>1
  <2>2. CASE mode[t] = "writer"
    <3>1. new = [rw_wwwh EXCEPT !.owner = NULL]
      BY <2>2 DEF Drop
    <3> HIDE DEF new
    <3> QED
      BY <1>2, <1>3, <2>2, <3>1
  <2> QED
    BY <1>2, <2>1, <2>2 DEF Mode
<1>6. Locked(rw_wwwh) /\ (mode[t] = "writer" => rw_wwwh.owner = t)
  BY <1>2, <1>3, RWAssumption DEF Locked, Mode
<1> HIDE DEF new
<1>7. CASE ~Locked(new) /\ new.wait
  <2>1. pc' = [pc EXCEPT ![t] = "exit_lookup"] /\ UNCHANGED <<rw_wwwh, kpri>>
    BY <1>6, <1>7 DEF rw_exit, Goto, new
  <2>2. Types'
    BY <1>1, <2>1 DEF Inv, Types, PC
  <2>3. Chain'
    BY <1>1, <1>2, <2>1 DEF Inv, Chain, TurnstilePC
  <2>4. QueuesOK' /\ Queued' /\ GrantOK' /\ Bits'
    BY <1>1, <1>2, <2>1, MoveQueues, MoveBits
  <2>5. Holders("reader")' = Holders("reader") /\ Holders("writer")' = Holders("writer")
    BY <1>1, <1>2, <2>1, MoveHolders DEF HoldPC, Holders, Mode
  <2>6. WordAgrees' /\ Exclusive' /\ WaitLocked'
    BY <2>1, <2>5 DEF Inv, WordAgrees, Exclusive, WaitLocked, Locked
  <2>7. ReadersWait'
    BY <1>1, <1>2, <2>1 DEF Inv, ReadersWait
  <2>8. ASSUME mode[t] = "reader" PROVE rw_wwwh.want /\ Holders("reader") = {t}
    <3>1. rw_wwwh.count = 1
      BY <1>2, <1>3, <1>5, <1>7, <2>8 DEF Locked
    <3>2. Holders("reader") = {t}
      BY <1>3, <2>8, <3>1, InvGrantFacts, FS_Singleton DEF Inv, WordAgrees, GrantFacts, Mode
    <3>3. \A u \in Thread : pc[u] \notin {"downgrade_lookup", "downgrade_grant"}
      BY <1>1, <3>2 DEF Inv, Alone, Holders, HoldPC
    <3> QED
      BY <1>2, <1>3, <1>5, <1>7, <2>8, <3>2, <3>3 DEF Inv, ReadersWait
  <2>9. Alone'
    BY <1>1, <1>2, <1>5, <1>7, <2>1, <2>5, <2>8 DEF Inv, Alone
  <2>10. KpriBalanced'
    BY <1>1, <1>2, <2>1, MoveKpri
  <2> QED
    BY <2>2, <2>3, <2>4, <2>6, <2>7, <2>9, <2>10 DEF Inv
<1>8. CASE ~(~Locked(new) /\ new.wait)
  <2>1. pc' = [pc EXCEPT ![t] = "idle"] /\ rw_wwwh' = new /\ KpriDrop(t, mode[t])
    BY <1>6, <1>8 DEF rw_exit, Goto, new
  <2>2. kpri[t] = IF mode[t] = "reader" THEN 1 ELSE 0
    BY <1>1, MoveHolders DEF Inv, KpriBalanced, Mode
  <2>3. Types'
    BY <1>1, <1>5, <2>1, <2>2 DEF Inv, Types, PC, KpriDrop
  <2>4. Chain'
    BY <1>1, <1>2, <2>1 DEF Inv, Chain, TurnstilePC
  <2>5. QueuesOK' /\ Queued' /\ GrantOK' /\ Bits'
    BY <1>1, <1>2, <1>5, <2>1, MoveQueues, MoveBits
  <2>6. \A m \in Mode : Holders(m)' = Holders(m) \ {t}
    BY <1>1, <1>2, <2>1, MoveHolders DEF HoldPC
  <2>7. WordAgrees'
    <3>1. CASE mode[t] = "reader"
      <4>1. Cardinality(Holders("reader") \ {t}) = Cardinality(Holders("reader")) - 1
        BY <1>3, <3>1, InvGrantFacts, FS_RemoveElement DEF GrantFacts, Mode
      <4> QED
        BY <1>3, <1>5, <2>1, <2>6, <3>1, <4>1 DEF Inv, WordAgrees, Mode
    <3>2. CASE mode[t] = "writer"
      BY <1>3, <1>5, <2>1, <2>6, <3>2, FS_EmptySet DEF WordAgrees, Mode
    <3> QED
      BY <1>2, <3>1, <3>2 DEF Mode
  <2>8. Exclusive' /\ WaitLocked'
    BY <1>5, <1>8, <2>1 DEF Exclusive, WaitLocked, Locked
  <2>9. ReadersWait'
    <3>1. CASE mode[t] = "reader"
      BY <1>1, <1>2, <1>3, <1>5, <2>1, <3>1 DEF Inv, ReadersWait
    <3>2. CASE mode[t] = "writer"
      BY <1>5, <1>8, <2>1, <3>2 DEF ReadersWait, Locked
    <3> QED
      BY <1>2, <3>1, <3>2 DEF Mode
  <2>10. Alone'
    <3>1. ASSUME NEW u \in Thread \ {t}, pc[u] \in {"exit_lookup", "handoff"}, mode[u] = "reader"
          PROVE  Holders("reader")' = {u}
      <4>1. Holders("reader") = {u} /\ t \notin Holders("reader")
        BY <3>1 DEF Inv, Alone
      <4> QED
        BY <2>6, <4>1 DEF Mode
    <3> QED
      BY <1>1, <1>2, <1>5, <2>1, <3>1 DEF Inv, Alone
  <2>11. KpriBalanced'
    BY <1>1, <1>2, <2>1, <2>2, MoveHolders DEF Inv, Types, KpriBalanced, KpriDrop, Moves, Mode
  <2> QED
    BY <2>3, <2>4, <2>5, <2>7, <2>8, <2>9, <2>10, <2>11 DEF Inv
<1> QED
  BY <1>7, <1>8

----------------------------------------------------------------------------
\* rw_readers_to_wake counts threads of the reader queue, all of them if no
\* writer waits.
LEMMA ToWake ==
  ASSUME Inv
  PROVE  /\ rw_readers_to_wake \in 0..Len(readerq) /\ Len(readerq) \in Nat /\ Len(writerq) \in Nat
         /\ writerq = <<>> => rw_readers_to_wake = Len(readerq)
<1>1. readerq \in Seq(Thread) /\ writerq \in Seq(Thread) /\ pri \in [Thread -> Int]
  BY DEF Inv, Types, QueuesOK
<1>2. Len(readerq) \in Nat /\ Len(writerq) \in Nat
  BY <1>1, LenProperties
<1>3. CASE writerq = <<>>
  BY <1>2, <1>3 DEF rw_readers_to_wake
<1>4. CASE writerq # <<>>
  <2>1. Head(writerq) \in Thread
    BY <1>1, <1>4, FirstThread, InvGrantFacts DEF GrantFacts
  <2>2. pri[Head(writerq)] \in Int
    BY <1>1, <2>1
  <2> QED
    BY <1>1, <1>2, <1>4, <2>2, AtLeastSplits DEF rw_readers_to_wake
<1> QED
  BY <1>3, <1>4

\* The numbers of sleepers that rw_exit_wakeup compares tell whether the queues
\* hold more than the granted threads: here n readers,
LEMMA MoreThanReaders ==
  ASSUME Inv, NEW n \in 0..Len(readerq)
  PROVE  /\ Sleepers \ First(readerq, n) # {} <=> ts_waiters > n
         /\ ts_waiters # n <=> ts_waiters > n
         /\ ToSet(writerq) \ First(readerq, n) # {} <=> writerq # <<>>
         /\ First(readerq, n) \cap ToSet(writerq) = {}
         /\ First(readerq, n) \cap ToSet(readerq) = First(readerq, n)
         /\ First(readerq, n) \subseteq Sleepers
<1>1. readerq \in Seq(Thread) /\ writerq \in Seq(Thread) /\ IsInjective(readerq)
  BY DEF Inv, QueuesOK
<1>2. /\ First(readerq, n) \subseteq ToSet(readerq)
      /\ ToSet(readerq) \subseteq First(readerq, n) <=> Len(readerq) = n
  BY <1>1, FirstThreads
<1>3. /\ writerq = <<>> <=> ToSet(writerq) = {}
      /\ writerq = <<>> <=> Len(writerq) = 0
  BY <1>1, FirstThread
<1>4. ToSet(readerq) \cap ToSet(writerq) = {}
  BY InvGrantFacts DEF GrantFacts
<1>5. Len(readerq) \in Nat /\ Len(writerq) \in Nat
  BY <1>1, LenProperties
<1>6. ts_waiters > n <=> ~(Len(readerq) = n /\ Len(writerq) = 0)
  BY <1>5 DEF ts_waiters
<1>7. ts_waiters # n <=> ts_waiters > n
  BY <1>5 DEF ts_waiters
<1>8. Sleepers \ First(readerq, n) # {} <=> ~(ToSet(readerq) \subseteq First(readerq, n) /\ ToSet(writerq) = {})
  BY <1>2, <1>4 DEF Sleepers
<1> QED
  BY <1>2, <1>3, <1>4, <1>6, <1>7, <1>8 DEF Sleepers

\* Comparing two lengths, the second of them positive, with one.
LEMMA MoreThanOne ==
  ASSUME NEW a \in Nat, NEW b \in Nat, b >= 1
  PROVE  (a + b > 1 <=> ~(a = 0 /\ b = 1)) /\ (b > 1 <=> b # 1)
OBVIOUS

\* and here the first writer.
LEMMA MoreThanWriter ==
  ASSUME Inv, writerq # <<>>
  PROVE  /\ Head(writerq) \in ToSet(writerq)
         /\ Sleepers \ {Head(writerq)} # {} <=> ts_waiters > 1
         /\ ToSet(writerq) \ {Head(writerq)} # {} <=> Len(writerq) > 1
         /\ {Head(writerq)} \cap ToSet(readerq) = {}
         /\ {Head(writerq)} \cap ToSet(writerq) = First(writerq, 1) /\ 1 \in 0..Len(writerq)
<1>1. readerq \in Seq(Thread) /\ writerq \in Seq(Thread) /\ IsInjective(writerq)
  BY DEF Inv, QueuesOK
<1>2. Len(readerq) \in Nat /\ Len(writerq) \in Nat
  BY <1>1, LenProperties
<1>3. First(writerq, 1) = {Head(writerq)} /\ Head(writerq) \in ToSet(writerq)
  BY <1>1, FirstThread
<1>4. Len(writerq) >= 1
  BY <1>1, FirstThread
<1>5. 1 \in 0..Len(writerq)
  BY <1>2, <1>4
<1>6. ToSet(writerq) \subseteq {Head(writerq)} <=> Len(writerq) = 1
  BY <1>1, <1>3, <1>5, FirstThreads
<1>7. ToSet(readerq) = {} <=> Len(readerq) = 0
  BY <1>1, FirstThread
<1>8. ToSet(readerq) \cap ToSet(writerq) = {}
  BY InvGrantFacts DEF GrantFacts
<1>9. ts_waiters > 1 <=> ~(Len(readerq) = 0 /\ Len(writerq) = 1)
  BY <1>2, <1>4, MoreThanOne DEF ts_waiters
<1>10. Len(writerq) > 1 <=> Len(writerq) # 1
  BY <1>2, <1>4, MoreThanOne
<1>11. Sleepers \ {Head(writerq)} # {} <=> ~(ToSet(readerq) = {} /\ ToSet(writerq) \subseteq {Head(writerq)})
  BY <1>3, <1>8 DEF Sleepers
<1> QED
  BY <1>3, <1>5, <1>6, <1>7, <1>8, <1>9, <1>10, <1>11

\* A thread that hands over without waking readers finds a waiting writer.
LEMMA HandoffWriter ==
  ASSUME Inv, NEW t \in Thread, pc[t] = "handoff", mode[t] = "reader" \/ rw_readers_to_wake = 0
  PROVE  writerq # <<>> /\ rw_wwwh.want
<1>1. tc_lock = t /\ rw_wwwh.wait /\ (mode[t] = "reader" => rw_wwwh.want)
  BY DEF Inv, Chain, TurnstilePC, Alone
<1>2. Granted = {} /\ \A u \in Thread : pc[u] # "block"
  BY <1>1, NoGrants DEF Inv, Chain, TurnstilePC
<1>3. Sleepers # {} /\ (rw_wwwh.want <=> ToSet(writerq) # {})
  BY <1>1, <1>2 DEF Inv, Bits
<1>4. readerq \in Seq(Thread) /\ writerq \in Seq(Thread)
  BY DEF Inv, QueuesOK
<1>5. writerq = <<>> <=> ToSet(writerq) = {}
  BY <1>4, FirstThread
<1>6. readerq = <<>> => ToSet(readerq) = {}
  BY <1>4, FirstThread
<1>7. readerq = <<>> <=> Len(readerq) = 0
  BY <1>4, FirstThread
<1>8. writerq = <<>> => rw_readers_to_wake = Len(readerq)
  BY ToWake
<1> QED
  BY <1>1, <1>3, <1>5, <1>6, <1>7, <1>8 DEF Sleepers

\* The holder of tc_lock grants the lock to the threads of G.
LEMMA GrantSome ==
  ASSUME Inv, NEW t \in Thread, \A u \in Thread : grant[u] = {},
         NEW G \in SUBSET Sleepers, grant' = [grant EXCEPT ![t] = G],
         pc'[t] \in {"exit_wakeup", "downgrade_wakeup"}, UNCHANGED <<readerq, writerq>>,
         \E n \in 0..Len(readerq) : G \cap ToSet(readerq) = First(readerq, n),
         \E n \in 0..Len(writerq) : G \cap ToSet(writerq) = First(writerq, n)
  PROVE  GrantOK' /\ Granted' = G /\ grant' \in [Thread -> SUBSET Thread]
<1>1. grant' \in [Thread -> SUBSET Thread]
  BY InvGrantFacts DEF Inv, Types, GrantFacts
<1>2. grant'[t] = G /\ \A u \in Thread \ {t} : grant'[u] = {}
  BY DEF Inv, Types
<1>3. Granted' = G
  BY <1>2 DEF Granted
<1>4. Sleepers' = Sleepers
  BY DEF Sleepers
<1>5. 0 \in 0..Len(readerq) /\ 0 \in 0..Len(writerq)
  BY LenProperties DEF Inv, QueuesOK
<1>6. First(readerq, 0) = {} /\ First(writerq, 0) = {}
  BY DEF First
<1>7. GrantOK'
  BY <1>2, <1>4, <1>5, <1>6 DEF GrantOK
<1> QED
  BY <1>1, <1>3, <1>7

\* Who holds the lock after the handoff: the granted threads and nobody else,
\* since the thread that hands over was the only holder.
LEMMA HandoffHolders ==
  ASSUME Inv, NEW t \in Thread, pc[t] = "handoff", NEW G \in SUBSET Sleepers, Granted' = G,
         pc' = [pc EXCEPT ![t] = "exit_wakeup"], mode' = mode
  PROVE  /\ \A m \in Mode : Holders(m)' = {u \in G : mode[u] = m}
         /\ \A u \in Thread \ {t} : pc[u] \notin HoldPC
         /\ tc_lock = t /\ t \notin Sleepers
         /\ \A u \in Thread : pc[u] # "block" /\ pc'[u] # "block"
<1>1. pc \in [Thread -> PC] /\ mode \in [Thread -> Mode]
  BY DEF Inv, Types
<1>2. tc_lock = t /\ t \notin Sleepers
  BY InvGrantFacts DEF Inv, Chain, TurnstilePC, GrantFacts
<1>3. \A u \in Thread : pc[u] # "block" /\ pc'[u] # "block"
  BY <1>1, <1>2 DEF Inv, Chain, TurnstilePC
<1>4. Holders("reader") \subseteq {t} /\ Holders("writer") \subseteq {t}
  BY <1>1, HolderWord DEF Inv, Alone, HoldPC, Mode
<1>5. \A u \in Thread \ {t} : pc[u] \notin HoldPC
  BY <1>1, <1>4 DEF Holders, Mode
<1>6. G \subseteq Thread
  BY InvGrantFacts DEF GrantFacts
<1>7. \A m \in Mode : Holders(m)' = {u \in G : mode[u] = m}
  BY <1>1, <1>2, <1>5, <1>6 DEF Holders, HoldPC
<1> QED
  BY <1>2, <1>3, <1>5, <1>7

\* The final exit keeps the invariant.
LEMMA HandoffInv == ASSUME Inv, NEW t \in Thread, Handoff(t) PROVE Inv'
<1> DEFINE n == rw_readers_to_wake
           G == IF mode[t] = "writer" /\ n > 0 THEN First(readerq, n) ELSE {Head(writerq)}
<1>1. /\ pc[t] = "handoff" /\ tc_lock = t /\ pc' = [pc EXCEPT ![t] = "exit_wakeup"]
      /\ UNCHANGED <<tc_lock, readerq, writerq, pri, mode>>
  BY DEF Handoff, Goto, Inv, Chain, TurnstilePC
<1>2. /\ pc \in [Thread -> PC \ {"panic"}] /\ mode \in [Thread -> Mode] /\ kpri \in [Thread -> Nat]
      /\ pri \in [Thread -> Nat]
  BY DEF Inv, Types
<1>3. Granted = {} /\ \A u \in Thread : grant[u] = {}
  BY <1>1, NoGrants
<1>4. n \in 0..Len(readerq) /\ n \in Nat /\ Len(readerq) \in Nat
  BY ToWake
<1>5. ~(mode[t] = "writer" /\ n > 0) => writerq # <<>>
  BY <1>1, <1>2, <1>4, HandoffWriter DEF Mode
<1>6. /\ G \subseteq Sleepers
      /\ \E k \in 0..Len(readerq) : G \cap ToSet(readerq) = First(readerq, k)
      /\ \E k \in 0..Len(writerq) : G \cap ToSet(writerq) = First(writerq, k)
  <2>1. 0 \in 0..Len(readerq) /\ 0 \in 0..Len(writerq)
    BY LenProperties DEF Inv, QueuesOK
  <2>2. First(readerq, 0) = {} /\ First(writerq, 0) = {}
    BY DEF First
  <2>3. CASE mode[t] = "writer" /\ n > 0
    <3>1. G = First(readerq, n)
      BY <2>3
    <3> HIDE DEF G, n
    <3> QED
      BY <1>4, <2>1, <2>2, <3>1, MoreThanReaders
  <2>4. CASE ~(mode[t] = "writer" /\ n > 0)
    <3>1. G = {Head(writerq)}
      BY <2>4
    <3> HIDE DEF G, n
    <3> QED
      BY <1>5, <2>1, <2>2, <2>4, <3>1, MoreThanWriter DEF Sleepers
  <2> QED
    BY <2>3, <2>4
<1>7. grant' = [grant EXCEPT ![t] = G]
  BY DEF Handoff, GrantReaders, GrantWriter, FirstReaders, First
<1> HIDE DEF G
<1>8. pc'[t] = "exit_wakeup"
  BY <1>1, <1>2
<1>9. GrantOK' /\ Granted' = G /\ grant' \in [Thread -> SUBSET Thread]
  BY <1>1, <1>3, <1>6, <1>7, <1>8, GrantSome
<1>10. /\ \A m \in Mode : Holders(m)' = {u \in G : mode[u] = m}
       /\ \A u \in Thread \ {t} : pc[u] \notin HoldPC
       /\ t \notin Sleepers
       /\ \A u \in Thread : pc[u] # "block" /\ pc'[u] # "block"
  BY <1>1, <1>6, <1>9, HandoffHolders
<1>11. Chain'
  BY <1>1, <1>2 DEF Inv, Chain, TurnstilePC
<1>12. QueuesOK'
  BY <1>1 DEF Inv, QueuesOK
<1>13. Queued'
  BY <1>1, <1>2, <1>10 DEF Inv, Queued, Sleepers
<1>14. Alone'
  BY <1>1, <1>2, <1>10 DEF Alone, HoldPC
<1>15. G \subseteq Thread /\ Sleepers' = Sleepers
  BY <1>1, <1>6, InvGrantFacts DEF GrantFacts, Sleepers
<1>16. CASE mode[t] = "writer" /\ n > 0
  <2>1. G = First(readerq, n) /\ GrantReaders(t, n)
    BY <1>16 DEF Handoff, G
  <2>2. rw_wwwh' = [owner |-> NULL, count |-> n, want |-> writerq # <<>>, wait |-> ts_waiters > n]
    BY <2>1 DEF GrantReaders
  <2>3. kpri' = [r \in Thread |-> IF r \in G THEN kpri[r] + 1 ELSE kpri[r]]
    BY <2>1 DEF GrantReaders, FirstReaders, First
  <2> HIDE DEF n
  <2>4. \A u \in G : mode[u] = "reader"
    BY <1>4, <2>1, FirstThreads DEF Inv, QueuesOK, Queued
  <2>5. Holders("reader")' = G /\ Holders("writer")' = {}
    BY <1>10, <2>4 DEF Mode
  <2>6. Cardinality(G) = n
    BY <1>4, <2>1, FirstThreads DEF Inv, QueuesOK
  <2>7. rw_wwwh'.owner = NULL /\ rw_wwwh'.count = n
    BY <2>2
  <2>8. WordAgrees'
    BY <2>5, <2>6, <2>7 DEF WordAgrees
  <2>9. Exclusive' /\ WaitLocked'
    BY <1>16, <2>7 DEF Exclusive, WaitLocked, Locked
  <2>10. /\ rw_wwwh'.want <=> ToSet(writerq) \ G # {}
         /\ rw_wwwh'.wait <=> Sleepers \ G # {}
    BY <1>4, <2>1, <2>2, MoreThanReaders
  <2>11. Bits'
    BY <1>1, <1>9, <1>10, <1>15, <2>10 DEF Bits
  <2>12. ReadersWait'
    <3>1. ASSUME ~rw_wwwh'.want PROVE ~rw_wwwh'.wait
      <4>1. writerq = <<>>
        BY <2>2, <3>1
      <4>2. n = Len(readerq)
        BY <4>1, ToWake DEF n
      <4>3. ToSet(readerq) \subseteq G
        BY <1>4, <2>1, <4>2, FirstThreads DEF Inv, QueuesOK
      <4> QED
        BY <2>10, <3>1, <4>3 DEF Sleepers
    <3> QED
      BY <3>1 DEF ReadersWait
  <2>13. Types'
    BY <1>1, <1>2, <1>4, <1>9, <2>2, <2>3 DEF Inv, Types, PC
  <2>14. KpriBalanced'
    <3>1. \A u \in G : pc[u] = "asleep" /\ u # t
      BY <1>6, <1>10, InvGrantFacts DEF GrantFacts
    <3> QED
      BY <1>1, <1>2, <1>3, <1>9, <2>3, <2>4, <3>1 DEF Inv, KpriBalanced
  <2> QED
    BY <1>9, <1>11, <1>12, <1>13, <1>14, <2>8, <2>9, <2>11, <2>12, <2>13, <2>14 DEF Inv
<1>17. CASE ~(mode[t] = "writer" /\ n > 0)
  <2>1. G = {Head(writerq)} /\ GrantWriter(t) /\ writerq # <<>>
    BY <1>5, <1>17 DEF Handoff, G
  <2> HIDE DEF n
  <2>2. /\ rw_wwwh' = [owner |-> Head(writerq), count |-> 0,
                       want |-> Len(writerq) > 1, wait |-> ts_waiters > 1]
        /\ kpri' = kpri
    BY <2>1 DEF GrantWriter
  <2>3. Head(writerq) \in ToSet(writerq) /\ Head(writerq) \in Thread
    BY <2>1, MoreThanWriter, InvGrantFacts DEF GrantFacts
  <2>4. mode[Head(writerq)] = "writer" /\ pc[Head(writerq)] = "asleep"
    BY <2>3 DEF Inv, Queued
  <2>5. Holders("reader")' = {} /\ Holders("writer")' = {Head(writerq)}
    BY <1>10, <2>1, <2>4 DEF Mode
  <2>6. rw_wwwh'.owner = Head(writerq) /\ rw_wwwh'.count = 0 /\ Head(writerq) # NULL
    BY <2>2, <2>3, RWAssumption
  <2>7. WordAgrees'
    BY <2>5, <2>6, FS_EmptySet DEF WordAgrees
  <2>8. Exclusive' /\ WaitLocked' /\ ReadersWait'
    BY <2>6 DEF Exclusive, WaitLocked, Locked, ReadersWait
  <2>9. /\ rw_wwwh'.want <=> ToSet(writerq) \ G # {}
        /\ rw_wwwh'.wait <=> Sleepers \ G # {}
    BY <2>1, <2>2, MoreThanWriter
  <2>10. Bits'
    BY <1>1, <1>9, <1>10, <1>15, <2>9 DEF Bits
  <2>11. Types'
    BY <1>1, <1>2, <1>9, <2>2, <2>3 DEF Inv, Types, PC
  <2>12. KpriBalanced'
    BY <1>1, <1>2, <1>3, <1>9, <2>1, <2>2, <2>4 DEF Inv, KpriBalanced
  <2> QED
    BY <1>9, <1>11, <1>12, <1>13, <1>14, <2>7, <2>8, <2>10, <2>11, <2>12 DEF Inv
<1> QED
  BY <1>16, <1>17

\* turnstile_wakeup keeps the holders: the woken threads held the lock already.
\* What remains in the queues has not been granted the lock.
LEMMA WakeupStep ==
  ASSUME Inv, NEW t \in Thread, NEW next \in {"idle", "held"}, turnstile_wakeup(t, next),
         \/ pc[t] = "exit_wakeup" /\ next = "idle"
         \/ pc[t] = "downgrade_wakeup" /\ next = "held",
         UNCHANGED <<rw_wwwh, pri, mode>>
  PROVE  /\ tc_lock' = NULL /\ Granted' = {} /\ t \notin Granted
         /\ grant' \in [Thread -> SUBSET Thread] /\ pc' \in [Thread -> PC \ {"panic"}]
         /\ pc'[t] = next
         /\ \A u \in Granted : pc[u] = "asleep" /\ pc'[u] = "held"
         /\ \A u \in Thread \ {t} : u \notin Granted => pc'[u] = pc[u]
         /\ \A m \in Mode : Holders(m)' = Holders(m)
         /\ Chain' /\ QueuesOK' /\ Queued' /\ GrantOK'
         /\ WordAgrees' /\ Exclusive' /\ Bits' /\ WaitLocked' /\ ReadersWait' /\ Alone'
<1>1. /\ pc \in [Thread -> PC \ {"panic"}] /\ mode \in [Thread -> Mode]
      /\ grant \in [Thread -> SUBSET Thread]
  BY DEF Inv, Types
<1>2. tc_lock = t
  BY DEF Inv, Chain, TurnstilePC
<1>3. Granted = grant[t] /\ Granted \subseteq Sleepers /\ t \notin Granted
  BY <1>2, InvGrantFacts DEF GrantFacts
<1>4. /\ pc' = [s \in Thread |-> IF s = t THEN next ELSE IF s \in Granted THEN "held" ELSE pc[s]]
      /\ tc_lock' = NULL /\ grant' = [grant EXCEPT ![t] = {}]
      /\ readerq' = DequeueFirst(readerq, Granted) /\ writerq' = DequeueFirst(writerq, Granted)
  BY <1>3 DEF turnstile_wakeup
<1>5. \A u \in Thread : grant'[u] = {}
  BY <1>1, <1>2, <1>4, InvGrantFacts DEF GrantFacts
<1>6. Granted' = {} /\ grant' \in [Thread -> SUBSET Thread]
  BY <1>1, <1>4, <1>5 DEF Granted
<1>7. pc' \in [Thread -> PC \ {"panic"}]
  BY <1>1, <1>4 DEF PC
<1>8. Granted \subseteq Thread /\ \A u \in Granted : pc[u] = "asleep"
  BY <1>3, InvGrantFacts DEF GrantFacts
<1>9. /\ pc'[t] = next
      /\ \A u \in Granted : pc'[u] = "held"
      /\ \A u \in Thread \ {t} : u \notin Granted => pc'[u] = pc[u]
  BY <1>3, <1>4, <1>8
<1>10. \A m \in Mode : Holders(m)' = Holders(m)
  BY <1>1, <1>3, <1>6, <1>9 DEF Holders, HoldPC
<1>11. Chain'
  BY <1>2, <1>4, <1>8, <1>9, RWAssumption DEF Inv, Chain, TurnstilePC
<1>12. /\ readerq' \in Seq(Thread) /\ IsInjective(readerq') /\ Sorted(readerq', pri)
       /\ ToSet(readerq') = ToSet(readerq) \ Granted
  <2>1. PICK k \in 0..Len(readerq) : Granted \cap ToSet(readerq) = First(readerq, k)
    BY <1>3 DEF Inv, GrantOK
  <2>2. readerq \in Seq(Thread) /\ IsInjective(readerq) /\ Sorted(readerq, pri)
    BY DEF Inv, QueuesOK
  <2>3. Granted \cap ToSet(readerq) = {readerq[i] : i \in 1..k}
    BY <2>1 DEF First
  <2> QED
    BY <1>4, <2>2, <2>3, DequeueFirstContents
<1>13. /\ writerq' \in Seq(Thread) /\ IsInjective(writerq') /\ Sorted(writerq', pri)
       /\ ToSet(writerq') = ToSet(writerq) \ Granted
  <2>1. PICK k \in 0..Len(writerq) : Granted \cap ToSet(writerq) = First(writerq, k)
    BY <1>3 DEF Inv, GrantOK
  <2>2. writerq \in Seq(Thread) /\ IsInjective(writerq) /\ Sorted(writerq, pri)
    BY DEF Inv, QueuesOK
  <2>3. Granted \cap ToSet(writerq) = {writerq[i] : i \in 1..k}
    BY <2>1 DEF First
  <2> QED
    BY <1>4, <2>2, <2>3, DequeueFirstContents
<1>14. QueuesOK'
  BY <1>12, <1>13 DEF QueuesOK
<1>15. Queued'
  <2>1. \A u \in (ToSet(readerq) \cup ToSet(writerq)) \ Granted : pc'[u] = pc[u]
    BY <1>9, InvGrantFacts DEF GrantFacts, Sleepers
  <2> QED
    BY <1>12, <1>13, <2>1 DEF Inv, Queued
<1>16. GrantOK'
  <2>1. 0 \in 0..Len(readerq') /\ 0 \in 0..Len(writerq')
    BY <1>12, <1>13, LenProperties
  <2>2. First(readerq', 0) = {} /\ First(writerq', 0) = {}
    BY DEF First
  <2> QED
    BY <1>5, <2>1, <2>2 DEF GrantOK
<1>17. WordAgrees' /\ Exclusive' /\ WaitLocked'
  BY <1>10 DEF Inv, WordAgrees, Exclusive, WaitLocked, Locked, Mode
<1>18. Bits'
  <2>1. \A u \in Thread : pc[u] # "block" /\ pc'[u] # "block"
    BY <1>2, <1>9 DEF Inv, Chain, TurnstilePC
  <2>2. Sleepers' = Sleepers \ Granted
    BY <1>12, <1>13 DEF Sleepers
  <2> QED
    BY <1>6, <1>13, <2>1, <2>2 DEF Inv, Bits
<1>19. ReadersWait'
  BY <1>8, <1>9 DEF Inv, ReadersWait
<1>20. Alone'
  BY <1>8, <1>9, <1>10 DEF Inv, Alone, Mode
<1> QED
  BY <1>3, <1>4, <1>6, <1>7, <1>8, <1>9, <1>10, <1>11, <1>14, <1>15, <1>16, <1>17, <1>18, <1>19, <1>20

\* The wakeup at the end of rw_exit_wakeup and that of rw_downgrade keep the
\* invariant.
LEMMA WakeupInv == ASSUME Inv, NEW t \in Thread, ExitWakeup(t) \/ DowngradeWakeup(t) PROVE Inv'
<1>1. \E next \in {"idle", "held"} :
        /\ turnstile_wakeup(t, next)
        /\ \/ pc[t] = "exit_wakeup" /\ next = "idle" /\ KpriDrop(t, mode[t])
           \/ pc[t] = "downgrade_wakeup" /\ next = "held" /\ kpri' = kpri
        /\ UNCHANGED <<rw_wwwh, pri, mode>>
  BY DEF ExitWakeup, DowngradeWakeup
<1>2. PICK next \in {"idle", "held"} :
        /\ turnstile_wakeup(t, next)
        /\ \/ pc[t] = "exit_wakeup" /\ next = "idle" /\ KpriDrop(t, mode[t])
           \/ pc[t] = "downgrade_wakeup" /\ next = "held" /\ kpri' = kpri
        /\ UNCHANGED <<rw_wwwh, pri, mode>>
  BY <1>1
<1>3. /\ tc_lock' = NULL /\ Granted' = {} /\ t \notin Granted
      /\ grant' \in [Thread -> SUBSET Thread] /\ pc' \in [Thread -> PC \ {"panic"}]
      /\ pc'[t] = next
      /\ \A u \in Granted : pc[u] = "asleep" /\ pc'[u] = "held"
      /\ \A u \in Thread \ {t} : u \notin Granted => pc'[u] = pc[u]
      /\ Chain' /\ QueuesOK' /\ Queued' /\ GrantOK'
      /\ WordAgrees' /\ Exclusive' /\ Bits' /\ WaitLocked' /\ ReadersWait' /\ Alone'
  BY <1>2, WakeupStep
<1>4. kpri[t] = IF mode[t] = "reader" THEN 1 ELSE 0
  BY <1>2 DEF Inv, KpriBalanced
<1>5. /\ \A u \in Thread \ {t} : kpri'[u] = kpri[u]
      /\ kpri'[t] = IF mode[t] = "reader" /\ next # "idle" THEN 1 ELSE 0
      /\ kpri' \in [Thread -> Nat]
  BY <1>2, <1>4 DEF KpriDrop, Inv, Types
<1>6. Types'
  BY <1>2, <1>3, <1>5 DEF Inv, Types
<1>7. KpriBalanced'
  BY <1>2, <1>3, <1>5 DEF Inv, KpriBalanced
<1> QED
  BY <1>3, <1>6, <1>7 DEF Inv

\* rw_downgrade keeps the invariant and does not panic.
LEMMA DowngradeInv == ASSUME Inv, NEW t \in Thread, rw_downgrade(t) PROVE Inv'
<1>1. pc[t] = "held" /\ mode[t] = "writer"
  BY DEF rw_downgrade
<1>2. /\ rw_wwwh \in [owner : Thread \cup {NULL}, count : Nat, want : BOOLEAN, wait : BOOLEAN]
      /\ pc \in [Thread -> PC \ {"panic"}] /\ mode \in [Thread -> Mode]
  BY DEF Inv, Types
<1>3. /\ rw_wwwh.owner = t /\ rw_wwwh.count = 0
      /\ Holders("writer") = {t} /\ Holders("reader") = {}
  BY <1>1, HolderWord DEF HoldPC
<1>4. /\ rw_wwwh' = [rw_wwwh EXCEPT !.owner = NULL, !.count = 1]
      /\ mode' = [mode EXCEPT ![t] = "reader"]
      /\ pc' = [pc EXCEPT ![t] = IF rw_wwwh.wait THEN "downgrade_lookup" ELSE "held"]
      /\ kpri' = [kpri EXCEPT ![t] = @ + 1]
      /\ UNCHANGED <<tc_lock, readerq, writerq, pri, grant>>
  BY <1>3 DEF rw_downgrade, Goto, Kpri
<1>5. /\ rw_wwwh'.owner = NULL /\ rw_wwwh'.count = 1
      /\ rw_wwwh'.want = rw_wwwh.want /\ rw_wwwh'.wait = rw_wwwh.wait
  BY <1>2, <1>4
<1>6. Moves(t) /\ mode'[t] = "reader" /\ pc'[t] \in {"downgrade_lookup", "held"}
  BY <1>2, <1>4 DEF Moves
<1>7. Types'
  <2>1. rw_wwwh' \in [owner : Thread \cup {NULL}, count : Nat, want : BOOLEAN, wait : BOOLEAN]
    BY <1>2, <1>4
  <2>2. pc' \in [Thread -> PC \ {"panic"}] /\ mode' \in [Thread -> Mode]
    BY <1>2, <1>4 DEF PC, Mode
  <2>3. kpri' \in [Thread -> Nat]
    BY <1>4 DEF Inv, Types
  <2> QED
    BY <1>4, <2>1, <2>2, <2>3 DEF Inv, Types
<1>8. Chain'
  BY <1>1, <1>4, <1>6 DEF Inv, Chain, TurnstilePC, Moves
<1>9. QueuesOK' /\ Queued' /\ GrantOK' /\ Bits'
  BY <1>1, <1>4, <1>5, <1>6, MoveQueues, MoveBits
<1>10. Holders("reader")' = {t} /\ Holders("writer")' = {}
  BY <1>1, <1>3, <1>6, MoveHolders DEF HoldPC, Mode
<1>11. WordAgrees'
  BY <1>5, <1>10, FS_Singleton DEF WordAgrees
<1>12. Exclusive' /\ WaitLocked'
  BY <1>5 DEF Exclusive, WaitLocked, Locked
<1>13. ReadersWait'
  BY <1>2, <1>4, <1>5 DEF ReadersWait
<1>14. Alone'
  <2>1. \A u \in Thread \ {t} : pc[u] \notin HoldPC
    BY <1>2, <1>3 DEF Holders, Mode
  <2> QED
    BY <1>6, <2>1 DEF Alone, Moves, HoldPC
<1>15. KpriBalanced'
  BY <1>1, <1>2, <1>4, <1>6, MoveHolders DEF Inv, Types, KpriBalanced, Moves, Mode
<1> QED
  BY <1>7, <1>8, <1>9, <1>11, <1>12, <1>13, <1>14, <1>15 DEF Inv

\* rw_tryupgrade keeps the invariant.
LEMMA TryupgradeInv == ASSUME Inv, NEW t \in Thread, rw_tryupgrade(t) PROVE Inv'
<1>1. /\ pc[t] = "held" /\ mode[t] = "reader"
      /\ rw_wwwh' = [rw_wwwh EXCEPT !.owner = t, !.count = 0]
      /\ mode' = [mode EXCEPT ![t] = "writer"]
      /\ kpri' = [kpri EXCEPT ![t] = @ + -1]
      /\ UNCHANGED <<tc_lock, readerq, writerq, pri, pc, grant>>
  BY DEF rw_tryupgrade, Kpri
<1>2. /\ rw_wwwh \in [owner : Thread \cup {NULL}, count : Nat, want : BOOLEAN, wait : BOOLEAN]
      /\ pc \in [Thread -> PC \ {"panic"}] /\ mode \in [Thread -> Mode]
  BY DEF Inv, Types
<1>3. rw_wwwh.count = 1
  <2>1. [rw_wwwh EXCEPT !.wait = FALSE] = [Unheld EXCEPT !.count = @ + 1]
    BY DEF rw_tryupgrade, Add
  <2>2. [rw_wwwh EXCEPT !.wait = FALSE].count = rw_wwwh.count
    BY <1>2
  <2>3. [Unheld EXCEPT !.count = @ + 1].count = 1
    BY DEF Unheld
  <2> QED
    BY <2>1, <2>2, <2>3
<1>4. Holders("writer") = {} /\ t \in Holders("reader")
  BY <1>1, HolderWord DEF HoldPC
<1>5. Holders("reader") = {t}
  BY <1>3, <1>4, InvGrantFacts, FS_Singleton DEF Inv, WordAgrees, GrantFacts, Mode
<1>6. /\ rw_wwwh'.owner = t /\ rw_wwwh'.count = 0 /\ t # NULL
      /\ rw_wwwh'.want = rw_wwwh.want /\ rw_wwwh'.wait = rw_wwwh.wait
  BY <1>1, <1>2, RWAssumption
<1>7. Moves(t) /\ mode'[t] = "writer" /\ pc'[t] = "held"
  BY <1>1, <1>2 DEF Moves
<1>8. kpri[t] = 1
  BY <1>1 DEF Inv, KpriBalanced
<1>9. Types'
  <2>1. rw_wwwh' \in [owner : Thread \cup {NULL}, count : Nat, want : BOOLEAN, wait : BOOLEAN]
    BY <1>1, <1>2
  <2>2. mode' \in [Thread -> Mode]
    BY <1>1, <1>2 DEF Mode
  <2>3. kpri' \in [Thread -> Nat]
    BY <1>1, <1>8 DEF Inv, Types
  <2> QED
    BY <1>1, <2>1, <2>2, <2>3 DEF Inv, Types
<1>10. Chain'
  BY <1>1 DEF Inv, Chain
<1>11. QueuesOK' /\ Queued' /\ GrantOK' /\ Bits'
  BY <1>1, <1>6, <1>7, MoveQueues, MoveBits
<1>12. Holders("reader")' = {} /\ Holders("writer")' = {t}
  BY <1>1, <1>4, <1>5, <1>7, MoveHolders DEF HoldPC, Mode
<1>13. WordAgrees'
  BY <1>6, <1>12, FS_EmptySet DEF WordAgrees
<1>14. Exclusive' /\ WaitLocked' /\ ReadersWait'
  BY <1>6 DEF Exclusive, WaitLocked, Locked, ReadersWait
<1>15. Alone'
  <2>1. \A u \in Thread \ {t} : pc[u] \notin HoldPC
    BY <1>2, <1>4, <1>5 DEF Holders, Mode
  <2> QED
    BY <1>1, <1>7, <2>1 DEF Alone, Moves, HoldPC
<1>16. KpriBalanced'
  BY <1>1, <1>2, <1>7, <1>8, MoveHolders DEF Inv, Types, KpriBalanced, Moves, Mode
<1> QED
  BY <1>9, <1>10, <1>11, <1>13, <1>14, <1>15, <1>16 DEF Inv

\* The second add of rw_downgrade keeps the invariant.
LEMMA DowngradeGrantInv == ASSUME Inv, NEW t \in Thread, DowngradeGrant(t) PROVE Inv'
<1> DEFINE n == rw_readers_to_wake
           G == First(readerq, n)
<1>1. /\ pc[t] = "downgrade_grant" /\ tc_lock = t /\ pc' = [pc EXCEPT ![t] = "downgrade_wakeup"]
      /\ rw_wwwh' = [rw_wwwh EXCEPT !.count = @ + n, !.wait = @ /\ (n = 0 \/ ts_waiters # n)]
      /\ grant' = [grant EXCEPT ![t] = G]
      /\ kpri' = [r \in Thread |-> IF r \in G THEN kpri[r] + 1 ELSE kpri[r]]
      /\ UNCHANGED <<tc_lock, readerq, writerq, pri, mode>>
  BY DEF DowngradeGrant, Goto, Inv, Chain, TurnstilePC, FirstReaders, First
<1>2. /\ rw_wwwh \in [owner : Thread \cup {NULL}, count : Nat, want : BOOLEAN, wait : BOOLEAN]
      /\ pc \in [Thread -> PC \ {"panic"}] /\ mode \in [Thread -> Mode] /\ kpri \in [Thread -> Nat]
  BY DEF Inv, Types
<1>3. Granted = {} /\ \A u \in Thread : grant[u] = {}
  BY <1>1, NoGrants
<1>4. n \in 0..Len(readerq) /\ n \in Nat /\ Len(readerq) \in Nat
  BY ToWake
<1>5. writerq = <<>> => n = Len(readerq)
  BY ToWake
<1> HIDE DEF n
<1>6. /\ Sleepers \ G # {} <=> ts_waiters > n
      /\ ts_waiters # n <=> ts_waiters > n
      /\ ToSet(writerq) \ G # {} <=> writerq # <<>>
      /\ G \cap ToSet(writerq) = {} /\ G \cap ToSet(readerq) = G /\ G \subseteq Sleepers
  BY <1>4, MoreThanReaders
<1>7. IsFiniteSet(G) /\ Cardinality(G) = n
  BY <1>4, FirstThreads DEF Inv, QueuesOK
<1>8. n = 0 => G = {}
  BY DEF First
<1> HIDE DEF G
<1>9. GrantOK' /\ Granted' = G /\ grant' \in [Thread -> SUBSET Thread]
  <2>1. \E k \in 0..Len(readerq) : G \cap ToSet(readerq) = First(readerq, k)
    BY <1>4, <1>6 DEF G
  <2>2. 0 \in 0..Len(writerq) /\ First(writerq, 0) = {}
    BY LenProperties DEF Inv, QueuesOK, First
  <2>3. \E k \in 0..Len(writerq) : G \cap ToSet(writerq) = First(writerq, k)
    BY <1>6, <2>2
  <2>4. pc'[t] = "downgrade_wakeup"
    BY <1>1, <1>2
  <2> QED
    BY <1>1, <1>3, <1>6, <2>1, <2>3, <2>4, GrantSome
<1>10. G \subseteq Thread /\ \A u \in G : pc[u] = "asleep" /\ mode[u] = "reader"
  BY <1>6, InvGrantFacts DEF GrantFacts, Inv, Queued
<1>11. /\ mode[t] = "reader" /\ t \in Holders("reader") /\ Holders("writer") = {}
       /\ rw_wwwh.owner = NULL /\ rw_wwwh.count >= 1
  BY <1>1, HolderWord DEF Inv, Alone, HoldPC
<1>12. Holders("reader")' = Holders("reader") \cup G /\ Holders("writer")' = Holders("writer")
  BY <1>1, <1>2, <1>3, <1>9, <1>10 DEF Holders, HoldPC, Mode
<1>13. Holders("reader") \cap G = {}
  BY <1>3, <1>10 DEF Holders, HoldPC
<1>14. Cardinality(Holders("reader") \cup G) = Cardinality(Holders("reader")) + n
  <2>1. IsFiniteSet(Holders("reader")) /\ Cardinality(Holders("reader")) \in Nat
    BY InvGrantFacts DEF GrantFacts, Mode
  <2>2. Cardinality(Holders("reader") \cup G)
          = Cardinality(Holders("reader")) + n - Cardinality(Holders("reader") \cap G)
    BY <1>7, <2>1, FS_Union
  <2>3. Cardinality(Holders("reader") \cap G) = 0
    BY <1>13, FS_EmptySet
  <2> QED
    BY <1>4, <2>1, <2>2, <2>3
<1>15. /\ rw_wwwh'.owner = NULL /\ rw_wwwh'.count = rw_wwwh.count + n /\ rw_wwwh'.want = rw_wwwh.want
       /\ rw_wwwh'.wait <=> rw_wwwh.wait /\ (n = 0 \/ ts_waiters # n)
  BY <1>1, <1>2, <1>11
<1>16. WordAgrees'
  BY <1>11, <1>12, <1>14, <1>15 DEF Inv, WordAgrees
<1>17. Exclusive' /\ WaitLocked'
  BY <1>2, <1>4, <1>11, <1>15 DEF Exclusive, WaitLocked, Locked
<1>18. \A u \in Thread : pc[u] # "block" /\ pc'[u] # "block"
  BY <1>1, <1>2 DEF Inv, Chain, TurnstilePC
<1>19. (rw_wwwh.wait <=> Sleepers # {}) /\ (rw_wwwh.want <=> ToSet(writerq) # {})
  BY <1>3, <1>18 DEF Inv, Bits
<1>20. Bits'
  <2>1. Sleepers' = Sleepers /\ ToSet(writerq') = ToSet(writerq)
    BY <1>1 DEF Sleepers
  <2>2. rw_wwwh'.wait <=> Sleepers \ G # {}
    BY <1>6, <1>8, <1>15, <1>19
  <2>3. rw_wwwh'.want <=> ToSet(writerq) \ G # {}
    BY <1>6, <1>15, <1>19
  <2> QED
    BY <1>9, <1>18, <2>1, <2>2, <2>3 DEF Bits
<1>21. ReadersWait'
  <2>1. ASSUME ~rw_wwwh.want PROVE ~rw_wwwh'.wait
    <3>1. ToSet(writerq) = {} /\ writerq = <<>>
      BY <1>19, <2>1, FirstThread DEF Inv, QueuesOK
    <3>2. n = Len(readerq)
      BY <1>5, <3>1
    <3>3. ToSet(readerq) \subseteq G
      BY <1>4, <3>2, FirstThreads DEF Inv, QueuesOK, G
    <3>4. Sleepers \ G = {}
      BY <3>1, <3>3 DEF Sleepers
    <3> QED
      BY <1>6, <1>8, <1>15, <1>19, <3>4
  <2> QED
    BY <1>15, <2>1 DEF ReadersWait
<1>22. Alone'
  <2>1. \A u \in Thread \ {t} : pc[u] \notin {"exit_lookup", "handoff"}
    BY <1>2, <1>11 DEF Inv, Alone, Holders, HoldPC, Mode
  <2> QED
    BY <1>1, <1>2, <1>11, <2>1 DEF Inv, Alone
<1>23. Types'
  <2>1. rw_wwwh' \in [owner : Thread \cup {NULL}, count : Nat, want : BOOLEAN, wait : BOOLEAN]
    <3> DEFINE c == rw_wwwh.count + n
               w == rw_wwwh.wait /\ (n = 0 \/ ts_waiters # n)
    <3>1. c \in Nat /\ w \in BOOLEAN
      BY <1>2, <1>4
    <3>2. rw_wwwh' = [rw_wwwh EXCEPT !.count = c, !.wait = w]
      BY <1>1
    <3> HIDE DEF c, w
    <3> QED
      BY <1>2, <3>1, <3>2
  <2>2. pc' \in [Thread -> PC \ {"panic"}]
    BY <1>1, <1>2 DEF PC
  <2>3. kpri' \in [Thread -> Nat]
    BY <1>1, <1>2
  <2> QED
    BY <1>1, <1>2, <1>9, <2>1, <2>2, <2>3 DEF Inv, Types
<1>24. Chain'
  BY <1>1, <1>2 DEF Inv, Chain, TurnstilePC
<1>25. QueuesOK' /\ Queued'
  BY <1>1, <1>2 DEF Inv, QueuesOK, Queued
<1>26. KpriBalanced'
  BY <1>1, <1>2, <1>3, <1>9, <1>10 DEF Inv, KpriBalanced
<1> QED
  BY <1>9, <1>16, <1>17, <1>20, <1>21, <1>22, <1>23, <1>24, <1>25, <1>26 DEF Inv

\* A change of priority keeps the invariant: a thread that sleeps is requeued
\* while nobody is being granted the lock, another one is in no queue.
LEMMA ChangePriInv == ASSUME Inv, NEW t \in Thread, NEW p \in NewPri, change_pri(t, p) PROVE Inv'
<1>1. /\ pri' = [pri EXCEPT ![t] = p] /\ (pc[t] = "asleep" => tc_lock = NULL)
      /\ readerq' = Requeue(readerq, t, pri') /\ writerq' = Requeue(writerq, t, pri')
      /\ UNCHANGED <<rw_wwwh, tc_lock, kpri, pc, mode, grant>>
  BY DEF change_pri
<1>2. /\ pri \in [Thread -> Int] /\ pri' \in [Thread -> Nat] /\ pri' \in [Thread -> Int]
      /\ \A u \in Thread \ {t} : pri'[u] = pri[u]
  BY <1>1, RWAssumption DEF Inv, Types
<1>3. /\ readerq \in Seq(Thread) /\ IsInjective(readerq) /\ Sorted(readerq, pri)
      /\ writerq \in Seq(Thread) /\ IsInjective(writerq) /\ Sorted(writerq, pri)
  BY DEF Inv, QueuesOK
<1>4. /\ readerq' \in Seq(Thread) /\ IsInjective(readerq')
      /\ writerq' \in Seq(Thread) /\ IsInjective(writerq')
  BY <1>1, <1>2, <1>3, RequeueContents
<1>5. Sorted(readerq', pri') /\ Sorted(writerq', pri')
  <2>1. Sorted(Requeue(readerq, t, pri'), pri')
    BY <1>2, <1>3, RequeueSorted
  <2>2. Sorted(Requeue(writerq, t, pri'), pri')
    BY <1>2, <1>3, RequeueSorted
  <2> QED
    BY <1>1, <2>1, <2>2
<1>6. ToSet(readerq') = ToSet(readerq) /\ ToSet(writerq') = ToSet(writerq)
  <2>1. ToSet(Requeue(readerq, t, pri')) = ToSet(readerq)
    BY <1>2, <1>3, RequeueContents
  <2>2. ToSet(Requeue(writerq, t, pri')) = ToSet(writerq)
    BY <1>2, <1>3, RequeueContents
  <2> QED
    BY <1>1, <2>1, <2>2
<1>7. QueuesOK'
  BY <1>4, <1>5 DEF QueuesOK
<1>8. Types'
  BY <1>1, <1>2 DEF Inv, Types
<1>9. Chain' /\ Queued'
  BY <1>1, <1>6 DEF Inv, Chain, Queued
<1>10. Sleepers' = Sleepers /\ Granted' = Granted
  BY <1>1, <1>6 DEF Sleepers, Granted
<1>11. GrantOK'
  <2>1. CASE tc_lock = NULL
    <3>1. \A u \in Thread : grant'[u] = {}
      BY <1>1, <2>1, NoGrants
    <3>2. 0 \in 0..Len(readerq') /\ 0 \in 0..Len(writerq')
      BY <1>4, LenProperties
    <3>3. First(readerq', 0) = {} /\ First(writerq', 0) = {}
      BY DEF First
    <3> QED
      BY <3>1, <3>2, <3>3 DEF GrantOK
  <2>2. CASE tc_lock # NULL
    <3>1. t \notin ToSet(readerq) /\ t \notin ToSet(writerq)
      BY <1>1, <2>2 DEF Inv, Queued
    <3>2. readerq' = readerq /\ writerq' = writerq
      BY <1>1, <3>1 DEF Requeue
    <3> QED
      BY <1>1, <1>10, <3>2 DEF Inv, GrantOK
  <2> QED
    BY <2>1, <2>2
<1>12. Holders("reader")' = Holders("reader") /\ Holders("writer")' = Holders("writer")
  BY <1>1, <1>10 DEF Holders
<1>13. WordAgrees' /\ Exclusive' /\ WaitLocked' /\ ReadersWait' /\ Alone'
  BY <1>1, <1>12 DEF Inv, WordAgrees, Exclusive, WaitLocked, ReadersWait, Alone, Locked
<1>14. Bits'
  BY <1>1, <1>6, <1>10 DEF Inv, Bits
<1>15. KpriBalanced'
  BY <1>1, <1>10 DEF Inv, KpriBalanced
<1> QED
  BY <1>7, <1>8, <1>9, <1>11, <1>13, <1>14, <1>15 DEF Inv

----------------------------------------------------------------------------
\* The invariant holds at the start,
LEMMA InitInv == Init => Inv
<1> SUFFICES ASSUME Init PROVE Inv
  OBVIOUS
<1>1. /\ rw_wwwh = Unheld /\ tc_lock = NULL /\ readerq = <<>> /\ writerq = <<>>
      /\ pri = InitPri /\ kpri = [t \in Thread |-> 0] /\ pc = [t \in Thread |-> "idle"]
      /\ mode = [t \in Thread |-> "reader"] /\ grant = [t \in Thread |-> {}]
  BY DEF Init
<1>2. /\ rw_wwwh.owner = NULL /\ rw_wwwh.count = 0 /\ ~rw_wwwh.want /\ ~rw_wwwh.wait
  BY <1>1 DEF Unheld
<1>3. Types
  BY <1>1, RWAssumption DEF Types, Unheld, PC, Mode
<1>4. Chain
  BY <1>1, RWAssumption DEF Chain, TurnstilePC
<1>5. /\ readerq \in Seq(Thread) /\ writerq \in Seq(Thread) /\ Len(readerq) = 0 /\ Len(writerq) = 0
      /\ ToSet(readerq) = {} /\ ToSet(writerq) = {}
  <2>1. readerq \in Seq(Thread) /\ writerq \in Seq(Thread)
    BY <1>1
  <2> QED
    BY <1>1, <2>1, FirstThread
<1>6. QueuesOK
  BY <1>1, <1>5 DEF QueuesOK, IsInjective, Sorted
<1>7. Queued
  BY <1>5 DEF Queued
<1>8. GrantOK
  BY <1>1, <1>5, EmptyGrants
<1>9. Granted = {} /\ Sleepers = {}
  BY <1>1, <1>5 DEF Granted, Sleepers
<1>10. Holders("reader") = {} /\ Holders("writer") = {}
  BY <1>1, <1>9 DEF Holders, HoldPC
<1>11. WordAgrees
  BY <1>2, <1>10, FS_EmptySet DEF WordAgrees
<1>12. Exclusive /\ Bits /\ WaitLocked /\ ReadersWait
  BY <1>1, <1>2, <1>5, <1>9 DEF Exclusive, Bits, WaitLocked, ReadersWait
<1>13. Alone /\ KpriBalanced
  BY <1>1, <1>9 DEF Alone, KpriBalanced
<1> QED
  BY <1>3, <1>4, <1>6, <1>7, <1>8, <1>11, <1>12, <1>13 DEF Inv

\* and every step keeps it.
LEMMA NextInv == Inv /\ [Next]_vars => Inv'
<1> SUFFICES ASSUME Inv, [Next]_vars PROVE Inv'
  OBVIOUS
<1>1. ASSUME NEW t \in Thread, Enter(t) PROVE Inv'
  BY <1>1, EnterInv, TryenterInv, RWAssumption DEF Enter, Mode
<1>2. ASSUME NEW t \in Thread, Step(t) PROVE Inv'
  BY <1>2, EnterTryInv, LookupInv, SetWaitInv, BlockInv, ExitInv, HandoffInv, WakeupInv,
     DowngradeGrantInv DEF Step
<1>3. ASSUME NEW t \in Thread, Convert(t) PROVE Inv'
  BY <1>3, DowngradeInv, TryupgradeInv DEF Convert
<1>4. ASSUME NEW t \in Thread, NEW p \in NewPri, change_pri(t, p) PROVE Inv'
  BY <1>4, ChangePriInv
<1>5. CASE UNCHANGED vars
  <2>1. /\ rw_wwwh' = rw_wwwh /\ tc_lock' = tc_lock /\ readerq' = readerq /\ writerq' = writerq
        /\ pri' = pri /\ kpri' = kpri /\ pc' = pc /\ mode' = mode /\ grant' = grant
    BY <1>5 DEF vars
  <2>2. Sleepers' = Sleepers /\ Granted' = Granted
    BY <2>1 DEF Sleepers, Granted
  <2>3. Holders("reader")' = Holders("reader") /\ Holders("writer")' = Holders("writer")
    BY <2>1, <2>2 DEF Holders
  <2>4. Types' /\ Chain' /\ QueuesOK' /\ Queued'
    BY <2>1 DEF Inv, Types, Chain, QueuesOK, Queued
  <2>5. GrantOK'
    BY <2>1, <2>2 DEF Inv, GrantOK
  <2>6. WordAgrees' /\ Exclusive' /\ WaitLocked' /\ ReadersWait' /\ Alone'
    BY <2>1, <2>3 DEF Inv, WordAgrees, Exclusive, WaitLocked, ReadersWait, Alone, Locked
  <2>7. Bits' /\ KpriBalanced'
    BY <2>1, <2>2 DEF Inv, Bits, KpriBalanced
  <2> QED
    BY <2>4, <2>5, <2>6, <2>7 DEF Inv
<1> QED
  BY <1>1, <1>2, <1>3, <1>4, <1>5 DEF Next

\* So it is an invariant.
LEMMA SpecInv == Spec => []Inv
<1> QED
  BY InitInv, NextInv, PTL DEF Spec

----------------------------------------------------------------------------
\* The invariant implies the run's invariants: the ranges of the variables,
LEMMA InvTypeOK == Inv => TypeOK
<1> SUFFICES ASSUME Inv PROVE TypeOK
  OBVIOUS
<1>1. rw_wwwh.count \in 0..Cardinality(Thread)
  <2>1. Holders("reader") \in SUBSET Thread /\ rw_wwwh.count = Cardinality(Holders("reader"))
    BY DEF Inv, WordAgrees, Holders
  <2>2. Cardinality(Holders("reader")) <= Cardinality(Thread)
    BY <2>1, RWAssumption, FS_Subset
  <2>3. Cardinality(Thread) \in Nat /\ rw_wwwh.count \in Nat
    BY RWAssumption, FS_CardinalityType DEF Inv, Types
  <2> QED
    BY <2>1, <2>2, <2>3
<1>2. rw_wwwh \in [owner : Thread \cup {NULL}, count : 0..Cardinality(Thread),
                   want : BOOLEAN, wait : BOOLEAN]
  BY <1>1 DEF Inv, Types
<1> QED
  BY <1>2 DEF Inv, Types, QueuesOK, Chain, TypeOK

\* the agreement of the word with the threads,
LEMMA InvStateAgrees == Inv => StateAgrees
<1> SUFFICES ASSUME Inv PROVE StateAgrees
  OBVIOUS
<1>1. readerq \in Seq(Thread) /\ writerq \in Seq(Thread)
  BY DEF Inv, QueuesOK
<1>2. /\ readerq = <<>> <=> ToSet(readerq) = {}
      /\ readerq = <<>> <=> Len(readerq) = 0
      /\ writerq = <<>> <=> ToSet(writerq) = {}
      /\ writerq = <<>> <=> Len(writerq) = 0
  BY <1>1, FirstThread
<1>3. Len(readerq) \in Nat /\ Len(writerq) \in Nat
  BY <1>1, LenProperties
<1>4. ts_waiters > 0 <=> ~(Len(readerq) = 0 /\ Len(writerq) = 0)
  BY <1>3 DEF ts_waiters
<1>5. ts_waiters > 0 <=> Sleepers # {}
  BY <1>2, <1>4 DEF Sleepers
<1>6. ASSUME tc_lock = NULL PROVE Granted = {} /\ \A t \in Thread : pc[t] # "block"
  BY <1>6, NoGrants, RWAssumption DEF Inv, Chain, TurnstilePC
<1>7. TurnstileAgrees
  BY <1>2, <1>5, <1>6 DEF Inv, Bits, TurnstileAgrees
<1> QED
  BY <1>7 DEF Inv, StateAgrees

\* and that whoever sleeps waits for a holder.
LEMMA InvSleepersHaveHolder == Inv => SleepersHaveHolder
<1> SUFFICES ASSUME Inv PROVE SleepersHaveHolder
  OBVIOUS
<1>1. readerq \in Seq(Thread) /\ writerq \in Seq(Thread)
  BY DEF Inv, QueuesOK
<1>2. /\ ToSet(readerq) = {} <=> Len(readerq) = 0
      /\ ToSet(writerq) = {} <=> Len(writerq) = 0
  BY <1>1, FirstThread
<1>3. Len(readerq) \in Nat /\ Len(writerq) \in Nat
  BY <1>1, LenProperties
<1>4. ts_waiters > 0 <=> ~(Len(readerq) = 0 /\ Len(writerq) = 0)
  BY <1>3 DEF ts_waiters
<1>5. ASSUME ts_waiters > 0 PROVE Locked(rw_wwwh)
  <2>1. PICK u \in Sleepers : TRUE
    BY <1>2, <1>4, <1>5 DEF Sleepers
  <2>2. CASE u \in Granted
    <3>1. u \in Thread /\ mode[u] \in Mode
      BY <2>1, InvGrantFacts DEF GrantFacts, Inv, Types
    <3>2. u \in Holders("reader") \/ u \in Holders("writer")
      BY <2>2, <3>1 DEF Holders, Mode
    <3>3. CASE u \in Holders("writer")
      BY <3>3 DEF Inv, WordAgrees, Locked
    <3>4. CASE u \in Holders("reader")
      <4>1. Cardinality(Holders("reader")) # 0 /\ Cardinality(Holders("reader")) \in Nat
        BY <3>4, InvGrantFacts, FS_EmptySet DEF GrantFacts, Mode
      <4> QED
        BY <4>1 DEF Inv, WordAgrees, Locked
    <3> QED
      BY <3>2, <3>3, <3>4
  <2>3. CASE u \notin Granted
    BY <2>1, <2>3 DEF Inv, Bits, WaitLocked
  <2> QED
    BY <2>2, <2>3
<1>6. ASSUME NEW t \in Thread, pc[t] = "handoff", mode[t] = "reader" \/ rw_readers_to_wake = 0
      PROVE  writerq # <<>> /\ rw_wwwh.want
  BY <1>6, HandoffWriter
<1> QED
  BY <1>5, <1>6 DEF SleepersHaveHolder

\* For any finite set of threads the variables keep their ranges, tc_lock is
\* held exactly between turnstile_lookup and its release, and no thread reaches
\* one of the panics of rw_enter, rw_exit and rw_downgrade.
THEOREM TypeCorrect == Spec => []TypeOK
<1> QED
  BY SpecInv, InvTypeOK, PTL

\* The lock word, its bits and the kernel priority requests always agree with
\* who holds the lock and who sleeps on it, although rw_exit_wakeup stores the
\* word blindly and rw_downgrade changes it in two steps.
THEOREM StateAgreesThm == Spec => []StateAgrees
<1> QED
  BY SpecInv, InvStateAgrees, PTL

\* No wakeup is lost: whoever sleeps, some thread holds the lock that will find
\* the waiters bit, and rw_exit_wakeup never looks for a writer that is not there.
THEOREM SleepersHaveHolderThm == Spec => []SleepersHaveHolder
<1> QED
  BY SpecInv, InvSleepersHaveHolder, PTL

----------------------------------------------------------------------------
\* rw_readers_to_wake counts the entitled readers, which are the first of the
\* queue.
LEMMA WakesEntitled ==
  ASSUME Inv
  PROVE  /\ First(readerq, rw_readers_to_wake) = Entitled
         /\ rw_readers_to_wake > 0 <=> Entitled # {}
<1> DEFINE n == rw_readers_to_wake
<1>1. /\ readerq \in Seq(Thread) /\ IsInjective(readerq) /\ Sorted(readerq, pri)
      /\ writerq \in Seq(Thread) /\ Sorted(writerq, pri) /\ pri \in [Thread -> Int]
  BY DEF Inv, Types, QueuesOK
<1>2. n \in 0..Len(readerq) /\ n \in Nat /\ (writerq = <<>> => n = Len(readerq))
  BY ToWake
<1>3. ToSet(readerq) \subseteq Thread /\ ToSet(writerq) \subseteq Thread
  BY InvGrantFacts DEF GrantFacts
<1>4. /\ First(readerq, n) \subseteq ToSet(readerq)
      /\ ToSet(readerq) \subseteq First(readerq, n) <=> Len(readerq) = n
      /\ Cardinality(First(readerq, n)) = n
  BY <1>1, <1>2, FirstThreads
<1>5. ASSUME writerq = <<>> PROVE First(readerq, n) = Entitled
  <2>1. ToSet(writerq) = {}
    BY <1>1, <1>5, FirstThread
  <2> HIDE DEF n
  <2> QED
    BY <1>2, <1>4, <1>5, <2>1 DEF Entitled
<1>6. ASSUME writerq # <<>> PROVE First(readerq, n) = Entitled
  <2>1. Head(writerq) \in ToSet(writerq) /\ Head(writerq) \in Thread
    BY <1>1, <1>3, <1>6, FirstThread
  <2>2. \A w \in ToSet(writerq) : pri[Head(writerq)] >= pri[w]
    BY <1>1, <1>6, HeadHighest
  <2>3. pri[Head(writerq)] \in Int /\ n = AtLeast(readerq, pri, pri[Head(writerq)])
    BY <1>1, <1>6, <2>1 DEF rw_readers_to_wake
  <2> HIDE DEF n
  <2>4. First(readerq, n) = {r \in ToSet(readerq) : pri[r] >= pri[Head(writerq)]}
    BY <1>1, <2>3, AtLeastAll
  <2>5. \A u \in Thread : pri[u] \in Int
    BY <1>1
  <2>6. \A r \in ToSet(readerq) : pri[r] >= pri[Head(writerq)]
                                     <=> \A w \in ToSet(writerq) : pri[r] >= pri[w]
    BY <1>3, <2>1, <2>2, <2>5
  <2> QED
    BY <2>4, <2>6 DEF Entitled
<1>7. First(readerq, n) = Entitled
  BY <1>5, <1>6
<1> HIDE DEF n
<1>8. n = 0 => First(readerq, n) = {}
  BY DEF First
<1>9. First(readerq, n) = {} => n = 0
  BY <1>4, FS_EmptySet
<1>10. n > 0 <=> n # 0
  BY <1>2
<1> QED
  BY <1>7, <1>8, <1>9, <1>10 DEF n

\* A handoff follows the policy.
LEMMA HandoffPolicy ==
  ASSUME Inv, NEW t \in Thread, Handoff(t)
  PROVE  IF mode[t] = "writer" /\ Entitled # {} THEN grant'[t] = Entitled
         ELSE \E w \in TopWriters : grant'[t] = {w}
<1>1. grant \in [Thread -> SUBSET Thread] /\ mode[t] \in Mode
  BY DEF Inv, Types
<1>2. CASE mode[t] = "writer" /\ rw_readers_to_wake > 0
  <2>1. grant'[t] = First(readerq, rw_readers_to_wake)
    BY <1>1, <1>2 DEF Handoff, GrantReaders, FirstReaders, First
  <2> QED
    BY <1>2, <2>1, WakesEntitled
<1>3. CASE ~(mode[t] = "writer" /\ rw_readers_to_wake > 0)
  <2>1. grant'[t] = {Head(writerq)}
    BY <1>1, <1>3 DEF Handoff, GrantWriter
  <2>2. rw_readers_to_wake \in Nat
    BY ToWake
  <2>3. writerq # <<>>
    BY <1>1, <1>3, <2>2, HandoffWriter DEF Handoff, Mode
  <2>4. Head(writerq) \in ToSet(writerq)
    BY <2>3, MoreThanWriter
  <2>5. writerq \in Seq(Thread) /\ Sorted(writerq, pri) /\ pri \in [Thread -> Int]
    BY DEF Inv, Types, QueuesOK
  <2>6. Head(writerq) \in TopWriters
    BY <2>3, <2>4, <2>5, HeadHighest DEF TopWriters
  <2> QED
    BY <1>3, <2>1, <2>6, WakesEntitled
<1> QED
  BY <1>2, <1>3

\* Every handoff of the lock follows the writer priority policy of the Big
\* Theory Statement, for any threads whose priorities change while they sleep.
THEOREM WriterPriorityPolicyThm == Spec => WriterPriorityPolicy
<1>1. Inv /\ [Next]_vars =>
        [\A t \in Thread : Handoff(t) =>
            IF mode[t] = "writer" /\ Entitled # {} THEN grant'[t] = Entitled
            ELSE \E w \in TopWriters : grant'[t] = {w}]_vars
  BY HandoffPolicy
<1> QED
  BY <1>1, SpecInv, PTL DEF Spec, WriterPriorityPolicy

----------------------------------------------------------------------------
\* A thread that takes a lock which is not busy joins the holders as the
\* abstract lock allows.
LEMMA TakeRW ==
  ASSUME Inv, NEW t \in Thread, NEW m \in Mode, pc[t] \in {"idle", "enter"}, Moves(t),
         pc' = [pc EXCEPT ![t] = "held"], mode' = [mode EXCEPT ![t] = m], ~Busy(rw_wwwh, m)
  PROVE  RW!Next
<1>1. pc'[t] = "held" /\ mode'[t] = m
  BY DEF Inv, Types
<1>2. t \notin Holders("reader") /\ t \notin Holders("writer")
  BY MoveHolders DEF Holders, HoldPC, Mode
<1>3. CASE m = "reader"
  <2>1. Holders("writer") = {}
    BY <1>3 DEF Inv, WordAgrees, Busy, Claimed
  <2>2. Holders("reader")' = Holders("reader") \cup {t} /\ Holders("writer")' = Holders("writer")
    BY <1>1, <1>2, <1>3, MoveHolders DEF HoldPC, Mode
  <2>3. RW!AcquireRead({t})
    BY <2>1, <2>2 DEF RW!AcquireRead
  <2> QED
    BY <2>3 DEF RW!Next
<1>4. CASE m = "writer"
  <2>1. rw_wwwh.owner = NULL /\ rw_wwwh.count = 0
    BY <1>4 DEF Inv, Types, Busy, Locked
  <2>2. Holders("writer") = {} /\ Holders("reader") = {}
    BY <2>1, InvGrantFacts, FS_EmptySet DEF Inv, WordAgrees, GrantFacts, Mode
  <2>3. Holders("reader")' = Holders("reader") /\ Holders("writer")' = {t}
    BY <1>1, <1>2, <1>4, <2>2, MoveHolders DEF HoldPC, Mode
  <2>4. RW!AcquireWrite(t)
    BY <2>2, <2>3 DEF RW!AcquireWrite
  <2> QED
    BY <2>4 DEF RW!Next
<1> QED
  BY <1>3, <1>4 DEF Mode

\* A handoff is one step of the abstract lock: the holder leaves and the threads
\* it wakes hold the lock.
LEMMA HandoffRW == ASSUME Inv, NEW t \in Thread, Handoff(t) PROVE RW!Next
<1>1. pc[t] = "handoff" /\ mode[t] \in Mode
  BY DEF Handoff, Inv, Types
<1>2. Inv'
  BY HandoffInv
<1>3. /\ Holders("writer")' = {rw_wwwh'.owner} \ {NULL}
      /\ rw_wwwh'.count = Cardinality(Holders("reader")')
  BY <1>2 DEF Inv, WordAgrees
<1>4. IsFiniteSet(Holders("reader")') /\ Holders("reader")' \subseteq Thread
  <2>1. Inv' => GrantFacts'
    BY InvGrantFacts, PTL
  <2> QED
    BY <1>2, <2>1 DEF GrantFacts, Mode
<1>5. /\ mode[t] = "reader" => Holders("writer") = {} /\ Holders("reader") = {t}
      /\ mode[t] = "writer" => Holders("writer") = {t} /\ Holders("reader") = {}
  BY <1>1, HolderWord DEF HoldPC, Inv, Alone
<1>6. CASE mode[t] = "writer" /\ rw_readers_to_wake > 0
  <2>1. rw_wwwh'.owner = NULL
    BY <1>6 DEF Handoff, GrantReaders
  <2>2. RW!ReleaseWrite(t)
    BY <1>3, <1>4, <1>5, <1>6, <2>1 DEF RW!ReleaseWrite
  <2> QED
    BY <2>2 DEF RW!Next
<1>7. CASE ~(mode[t] = "writer" /\ rw_readers_to_wake > 0)
  <2>1. rw_wwwh'.owner = Head(writerq) /\ rw_wwwh'.count = 0
    BY <1>7 DEF Handoff, GrantWriter
  <2>2. rw_readers_to_wake \in Nat
    BY ToWake
  <2>3. writerq # <<>>
    BY <1>1, <1>7, <2>2, HandoffWriter DEF Mode
  <2>4. Head(writerq) \in Thread
    BY <2>3, MoreThanWriter, InvGrantFacts DEF GrantFacts
  <2>5. Holders("writer")' = {Head(writerq)} /\ Holders("reader")' = {}
    BY <1>3, <1>4, <2>1, <2>4, FS_EmptySet, RWAssumption
  <2>6. RW!ReleaseWrite(t) \/ RW!ReleaseRead(t)
    BY <1>1, <1>5, <2>4, <2>5 DEF RW!ReleaseWrite, RW!ReleaseRead, Mode
  <2> QED
    BY <2>6 DEF RW!Next
<1> QED
  BY <1>6, <1>7

\* Every step of a thread is one of the abstract lock, or leaves the holders alone.
LEMMA StepRW ==
  ASSUME Inv, NEW t \in Thread, Enter(t) \/ Step(t) \/ Convert(t)
  PROVE  RW!Next \/ UNCHANGED <<Holders("reader"), Holders("writer")>>
<1>1. pc \in [Thread -> PC] /\ mode \in [Thread -> Mode]
  BY DEF Inv, Types
<1>2. ASSUME NEW m \in Mode, rw_enter(t, m) PROVE UNCHANGED <<Holders("reader"), Holders("writer")>>
  <2>1. pc[t] = "idle" /\ pc'[t] = "enter" /\ Moves(t)
    BY <1>1, <1>2 DEF rw_enter, Goto, Moves
  <2> QED
    BY <2>1, MoveHolders DEF HoldPC, Holders, Mode
<1>3. ASSUME NEW m \in Mode, rw_tryenter(t, m) PROVE RW!Next
  <2>1. /\ pc[t] = "idle" /\ Moves(t) /\ pc' = [pc EXCEPT ![t] = "held"]
        /\ mode' = [mode EXCEPT ![t] = m] /\ ~Busy(rw_wwwh, m)
    BY <1>1, <1>3, RWAssumption DEF rw_tryenter, Goto, Moves, Busy, Unheld, Locked, Mode
  <2> QED
    BY <2>1, TakeRW
<1>4. ASSUME EnterTry(t) PROVE RW!Next \/ UNCHANGED <<Holders("reader"), Holders("writer")>>
  <2>1. pc[t] = "enter" /\ Moves(t) /\ mode' = mode
    BY <1>1, <1>4 DEF EnterTry, Goto, Moves
  <2>2. CASE Busy(rw_wwwh, mode[t])
    <3>1. pc'[t] \in {"panic", "lookup"}
      BY <1>1, <1>4, <2>2 DEF EnterTry, Goto
    <3> QED
      BY <2>1, <3>1, MoveHolders DEF HoldPC, Holders, Mode
  <2>3. CASE ~Busy(rw_wwwh, mode[t])
    <3>1. pc' = [pc EXCEPT ![t] = "held"] /\ mode' = [mode EXCEPT ![t] = mode[t]] /\ mode[t] \in Mode
      BY <1>1, <1>4, <2>1, <2>3 DEF EnterTry, Goto
    <3> QED
      BY <2>1, <2>3, <3>1, TakeRW
  <2> QED
    BY <2>2, <2>3
<1>5. ASSUME EnterLookup(t) \/ ExitLookup(t) \/ DowngradeLookup(t) \/ SetWait(t)
      PROVE  UNCHANGED <<Holders("reader"), Holders("writer")>>
  <2>1. /\ Moves(t) /\ mode' = mode /\ pc[t] # "asleep"
        /\ pc[t] \in HoldPC <=> pc'[t] \in HoldPC
    BY <1>1, <1>5 DEF EnterLookup, ExitLookup, DowngradeLookup, turnstile_lookup, SetWait, Goto,
       Moves, HoldPC
  <2> QED
    BY <2>1, MoveHolders DEF Holders, Mode
<1>6. ASSUME turnstile_block(t) PROVE UNCHANGED <<Holders("reader"), Holders("writer")>>
  <2>1. Moves(t) /\ mode' = mode /\ pc[t] = "block" /\ pc'[t] = "asleep"
    BY <1>1, <1>6 DEF turnstile_block, Goto, Moves
  <2> QED
    BY <2>1, MoveHolders DEF Holders, HoldPC, Mode
<1>7. ASSUME rw_exit(t) PROVE RW!Next \/ UNCHANGED <<Holders("reader"), Holders("writer")>>
  <2>1. /\ Moves(t) /\ mode' = mode /\ pc[t] = "held" /\ pc'[t] \in {"panic", "exit_lookup", "idle"}
    BY <1>1, <1>7 DEF rw_exit, Goto, Moves
  <2>2. /\ t \in Holders(mode[t])
        /\ mode[t] = "reader" => Holders("writer") = {}
        /\ mode[t] = "writer" => Holders("writer") = {t} /\ Holders("reader") = {}
    BY <2>1, HolderWord DEF HoldPC
  <2>3. CASE pc'[t] = "exit_lookup"
    BY <2>1, <2>3, MoveHolders DEF Holders, HoldPC, Mode
  <2>4. CASE pc'[t] \in {"panic", "idle"}
    <3>1. \A m \in Mode : Holders(m)' = Holders(m) \ {t}
      BY <2>1, <2>4, MoveHolders DEF HoldPC
    <3>2. CASE mode[t] = "reader"
      <4>1. RW!ReleaseRead(t)
        BY <2>2, <3>1, <3>2 DEF RW!ReleaseRead, Mode
      <4> QED
        BY <4>1 DEF RW!Next
    <3>3. CASE mode[t] = "writer"
      <4>1. RW!ReleaseWrite(t)
        BY <2>2, <3>1, <3>3 DEF RW!ReleaseWrite, Mode
      <4> QED
        BY <4>1 DEF RW!Next
    <3> QED
      BY <1>1, <3>2, <3>3 DEF Mode
  <2> QED
    BY <2>1, <2>3, <2>4
<1>8. ASSUME ExitWakeup(t) \/ DowngradeWakeup(t)
      PROVE  UNCHANGED <<Holders("reader"), Holders("writer")>>
  <2>1. CASE ExitWakeup(t)
    BY <2>1, WakeupStep DEF ExitWakeup, Mode
  <2>2. CASE DowngradeWakeup(t)
    BY <2>2, WakeupStep DEF DowngradeWakeup, Mode
  <2> QED
    BY <1>8, <2>1, <2>2
<1>9. ASSUME DowngradeGrant(t) PROVE RW!Next
  <2>1. /\ pc[t] = "downgrade_grant" /\ pc' = [pc EXCEPT ![t] = "downgrade_wakeup"] /\ mode' = mode
        /\ rw_wwwh'.owner = rw_wwwh.owner
    BY <1>9 DEF DowngradeGrant, Goto, Inv, Types
  <2>2. Holders("writer") = {} /\ rw_wwwh.owner = NULL
    BY <2>1, HolderWord DEF HoldPC, Inv, Alone
  <2>3. tc_lock = t
    BY <2>1 DEF Inv, Chain, TurnstilePC
  <2>4. Granted = {}
    BY <2>1, <2>3, NoGrants
  <2>5. Holders("reader") \subseteq Holders("reader")' /\ Holders("reader")' \subseteq Thread
    BY <1>1, <2>1, <2>4 DEF Holders, HoldPC
  <2>6. Holders("writer")' = {}
    BY <1>9, <2>1, <2>2, DowngradeGrantInv DEF Inv, WordAgrees
  <2>7. RW!AcquireRead(Holders("reader")')
    BY <2>2, <2>5, <2>6 DEF RW!AcquireRead
  <2> QED
    BY <2>5, <2>7 DEF RW!Next
<1>10. ASSUME rw_downgrade(t) PROVE RW!Next
  <2>1. pc[t] = "held" /\ mode[t] = "writer"
    BY <1>10 DEF rw_downgrade
  <2>2. rw_wwwh.owner = t /\ Holders("writer") = {t} /\ Holders("reader") = {}
    BY <2>1, HolderWord DEF HoldPC
  <2>3. Moves(t) /\ mode'[t] = "reader" /\ pc'[t] \in {"downgrade_lookup", "held"}
    BY <1>1, <1>10, <2>2 DEF rw_downgrade, Goto, Moves
  <2>4. Holders("reader")' = {t} /\ Holders("writer")' = {}
    BY <2>1, <2>2, <2>3, MoveHolders DEF HoldPC, Mode
  <2>5. RW!ReleaseWrite(t)
    BY <2>2, <2>4 DEF RW!ReleaseWrite
  <2> QED
    BY <2>5 DEF RW!Next
<1>11. ASSUME rw_tryupgrade(t) PROVE RW!Next
  <2>1. pc[t] = "held" /\ mode[t] = "reader" /\ Moves(t) /\ mode'[t] = "writer" /\ pc'[t] = "held"
    BY <1>1, <1>11 DEF rw_tryupgrade, Moves
  <2>2. rw_wwwh'.owner = t /\ rw_wwwh'.count = 0
    BY <1>11 DEF rw_tryupgrade, Inv, Types
  <2>3. t \in Holders("reader") /\ Holders("writer") = {}
    BY <2>1, HolderWord DEF HoldPC
  <2>4. Holders("writer")' = {t} /\ Holders("reader")' = Holders("reader") \ {t}
    BY <2>1, <2>3, MoveHolders DEF HoldPC, Mode
  <2>5. Inv'
    BY <1>11, TryupgradeInv
  <2>6. Holders("reader")' = {}
    <3>1. Inv' => GrantFacts'
      BY InvGrantFacts, PTL
    <3> QED
      BY <2>2, <2>5, <3>1, FS_EmptySet DEF Inv, WordAgrees, GrantFacts, Mode
  <2>7. RW!Upgrade(t)
    BY <2>3, <2>4, <2>6 DEF RW!Upgrade
  <2> QED
    BY <2>7 DEF RW!Next
<1>12. Enter(t) => RW!Next \/ UNCHANGED <<Holders("reader"), Holders("writer")>>
  BY <1>2, <1>3, RWAssumption DEF Enter, Mode
<1>13. Step(t) => RW!Next \/ UNCHANGED <<Holders("reader"), Holders("writer")>>
  BY <1>4, <1>5, <1>6, <1>7, <1>8, <1>9, HandoffRW DEF Step
<1>14. Convert(t) => RW!Next \/ UNCHANGED <<Holders("reader"), Holders("writer")>>
  BY <1>10, <1>11 DEF Convert
<1> QED
  BY <1>12, <1>13, <1>14

\* The lock implements the abstract readers/writer lock, for any threads: there
\* is one writer or there are only readers, handed-off holds included.
THEOREM Refinement == Spec => ImplementsRW
<1>1. Init => RW!Init
  BY DEF Init, RW!Init, Holders, HoldPC, Granted
<1>2. Inv /\ [Next]_vars => [RW!Next]_<<Holders("reader"), Holders("writer")>>
  <2> SUFFICES ASSUME Inv, [Next]_vars
               PROVE  RW!Next \/ UNCHANGED <<Holders("reader"), Holders("writer")>>
    OBVIOUS
  <2>1. ASSUME NEW t \in Thread, NEW p \in NewPri, change_pri(t, p)
        PROVE  UNCHANGED <<Holders("reader"), Holders("writer")>>
    BY <2>1 DEF change_pri, Holders, Granted
  <2>2. CASE UNCHANGED vars
    BY <2>2 DEF vars, Holders, Granted
  <2> QED
    BY <2>1, <2>2, StepRW DEF Next
<1> QED
  BY <1>1, <1>2, SpecInv, PTL DEF Spec, ImplementsRW, RW!Spec
=============================================================================
