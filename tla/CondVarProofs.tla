---------------------------- MODULE CondVarProofs ----------------------------
(***************************************************************************)
(* Proofs about CondVar for any finite set of threads and any             *)
(* CV_MAX_WAITERS.                                                         *)
(*                                                                         *)
(* Ctl ties the control points to the mutex, the callouts and the sleep    *)
(* queue; CountAgrees is inductive relative to it; Account, which says     *)
(* whose wakeups are under way, is inductive relative to both.             *)
(***************************************************************************)
EXTENDS CondVar, FiniteSetTheorems, TLAPS

\* The types of everything but cv_waiters and the Boolean functions.
Types == /\ tokens \in 0..MaxTokens
         /\ mp \in Thread \cup {NULL}
         /\ timer \in [Thread -> Timer] /\ pc \in [Thread -> PC]
         /\ kind \in [Thread -> Kind] /\ rval \in [Thread -> {1, 0, -1}]

\* Only a thread between cv_block and the return of swtch() is queued.
Queued == slpq \subseteq {t \in Thread : pc[t] \in {"exit", "look", "swtch"}}

\* The mutex is held where the code holds it: the two orders in which the
\* timed waits take it and call untimeout() are told apart by the routine.
Holds == \A t \in Thread :
    /\ pc[t] \in {"test", "block", "exit", "out", "resignal"} => mp = t
    /\ pc[t] = "untimeout" /\ kind[t] \in Sig => mp = t

\* The callout is set until untimeout() has returned, and then it is not.
CalloutSet == \A t \in Thread :
    /\ kind[t] \in Timed /\ pc[t] \in {"block", "exit", "look", "swtch"} => timer[t] # "off"
    /\ pc[t] = "untimeout" => kind[t] \in Timed
    /\ timer[t] # "off" /\ pc[t] = "reenter" => kind[t] \in Sig

Ctl == Types /\ Queued /\ Holds /\ CalloutSet /\ NoStaleTimer /\ NoOversleep

\* The control invariant holds initially.
LEMMA InitCtl == Init => Ctl
BY CVAssumption DEF Init, Ctl, Types, Queued, Holds, CalloutSet, NoStaleTimer, NoOversleep,
    Timer, PC, Kind, Timed, Sig

\* Every step of every routine keeps the control invariant.
LEMMA NextCtl == Ctl /\ [Next]_vars => Ctl'
<1> SUFFICES ASSUME Ctl, [Next]_vars PROVE Ctl'
  OBVIOUS
<1> USE CVAssumption, RoutineAssumption DEF Ctl, Types, Queued, Holds, CalloutSet, NoStaleTimer, NoOversleep,
    Timer, PC, Kind, Timed, Sig
<1>1. ASSUME NEW t \in Thread, Caller(t) \/ Wait(t) \/ Wakeup(t) \/ Callout(t) \/ post_signal(t)
      PROVE  Ctl'
  <2>1. CASE Enter(t)
    BY <2>1 DEF Enter, Lock, Goto
  <2>2. CASE Take(t)
    BY <2>2 DEF Take, Goto
  <2>3. CASE Done(t)
    BY <2>3 DEF Done, Goto
  <2>4. CASE \E w \in {"cv_signal", "cv_broadcast"} : Add(t, w)
    BY <2>4 DEF Add, Goto
  <2>5. CASE \E k \in Routine : WaitBegin(t, k)
    BY <2>5 DEF WaitBegin, Goto
  <2>6. CASE \E k \in Routine : WaitPassed(t, k)
    BY <2>6 DEF WaitPassed, Goto
  <2>7. CASE cv_block(t)
    BY <2>7 DEF cv_block, Goto
  <2>8. CASE WaitExit(t)
    BY <2>8 DEF WaitExit, Goto
  <2>9. CASE Look(t)
    BY <2>9 DEF Look, setrun, Goto
  <2>10. CASE Woken(t)
    BY <2>10 DEF Woken, Goto
  <2>11. CASE Reenter(t)
    BY <2>11 DEF Reenter, Lock, Goto
  <2>12. CASE untimeout(t)
    BY <2>12 DEF untimeout, Goto
  <2>13. CASE Pending(t)
    BY <2>13 DEF Pending, Goto
  <2>14. CASE issig(t)
    BY <2>14 DEF issig, Goto
  <2>15. CASE Sigenter(t)
    BY <2>15 DEF Sigenter, Lock, Goto
  <2>16. CASE NotPending(t)
    BY <2>16 DEF NotPending, Goto
  <2>17. CASE Resignal(t)
    BY <2>17 DEF Resignal, Goto
  <2>18. CASE Peek(t, "cv_signal", "wakeone")
    BY <2>18 DEF Peek, Goto
  <2>19. CASE cv_signal(t)
    BY <2>19 DEF cv_signal, Goto
  <2>20. CASE Peek(t, "cv_broadcast", "wakeall")
    BY <2>20 DEF Peek, Goto
  <2>21. CASE cv_broadcast(t)
    BY <2>21 DEF cv_broadcast, Goto
  <2>22. CASE Tick(t)
    BY <2>22 DEF Tick
  <2>23. CASE CalloutStart(t)
    BY <2>23 DEF CalloutStart
  <2>24. CASE CalloutRun(t)
    BY <2>24 DEF CalloutRun, setrun
  <2>25. CASE post_signal(t)
    BY <2>25 DEF post_signal, setrun
  <2> QED
    BY <1>1, <2>1, <2>2, <2>3, <2>4, <2>5, <2>6, <2>7, <2>8, <2>9, <2>10, <2>11, <2>12, <2>13, <2>14, <2>15, <2>16, <2>17, <2>18, <2>19, <2>20, <2>21, <2>22, <2>23, <2>24, <2>25 DEF Caller, Wait, Wakeup, Callout
<1>2. CASE UNCHANGED vars
  BY <1>2 DEF vars
<1> QED
  BY <1>1, <1>2 DEF Next

----------------------------------------------------------------------------
\* cv_waiters is in its range and exact below CV_MAX_WAITERS.
Count == cv_waiters \in 0..CV_MAX_WAITERS /\ CountAgrees

\* The mask test of cv_signal tells a count that can be trusted from 0 and
\* from the saturated one.
LEMMA MaskTest ==
  ASSUME NEW n \in 0..CV_MAX_WAITERS
  PROVE  n % CV_MAX_WAITERS = 0 <=> n = 0 \/ n = CV_MAX_WAITERS
BY CVAssumption

\* The sleep queue is finite.
LEMMA QueueFinite == Ctl => IsFiniteSet(slpq) /\ Cardinality(slpq) \in Nat
<1> SUFFICES ASSUME Ctl PROVE IsFiniteSet(slpq) /\ Cardinality(slpq) \in Nat
  OBVIOUS
<1>1. slpq \in SUBSET Thread
  BY DEF Ctl, Queued
<1> QED
  BY <1>1, CVAssumption, FS_Subset, FS_CardinalityType

\* setrun() takes a sleeper off the count exactly when it takes it off the queue.
LEMMA SetrunCount == ASSUME Ctl, Count, NEW t \in Thread, setrun(t) PROVE Count'
<1>1. IsFiniteSet(slpq) /\ Cardinality(slpq) \in Nat
  BY QueueFinite
<1>2. Cardinality(slpq \ {t}) = IF t \in slpq THEN Cardinality(slpq) - 1 ELSE Cardinality(slpq)
  BY <1>1, FS_RemoveElement
<1>3. t \in slpq => Cardinality(slpq) # 0
  BY <1>1, FS_EmptySet
<1> QED
  BY <1>1, <1>2, <1>3, CVAssumption DEF setrun, Count, CountAgrees

\* cv_signal keeps the count, and finds a sleeper when the count says so.
LEMMA SignalCount == ASSUME Ctl, Count, NEW t \in Thread, cv_signal(t) PROVE Count'
<1>1. IsFiniteSet(slpq) /\ Cardinality(slpq) \in Nat
  BY QueueFinite
<1>2. Cardinality({}) = 0 /\ (Cardinality(slpq) = 0 <=> slpq = {})
  BY <1>1, FS_EmptySet
<1>3. \A u \in slpq : Cardinality(slpq \ {u}) = Cardinality(slpq) - 1
  BY <1>1, FS_RemoveElement
<1>4. cv_waiters % CV_MAX_WAITERS = 0 <=> cv_waiters = 0 \/ cv_waiters = CV_MAX_WAITERS
  BY MaskTest DEF Count
<1>5. CASE slpq = {}
  <2>1. cv_waiters % CV_MAX_WAITERS = 0
    BY <1>2, <1>4, <1>5 DEF Count, CountAgrees
  <2>2. cv_waiters' = 0 /\ slpq' = {}
    BY <2>1, <1>5 DEF cv_signal
  <2> QED
    BY <2>2, <1>2, CVAssumption DEF Count, CountAgrees
<1>6. CASE slpq # {}
  <2>1. PICK u \in slpq : slpq' = slpq \ {u}
    BY <1>6 DEF cv_signal
  <2>2. Cardinality(slpq') = Cardinality(slpq) - 1
    BY <2>1, <1>3
  <2>3. CASE cv_waiters % CV_MAX_WAITERS # 0
    BY <2>2, <2>3, <1>1, <1>2, <1>4, CVAssumption DEF cv_signal, Count, CountAgrees
  <2>4. CASE cv_waiters % CV_MAX_WAITERS = 0
    <3>1. cv_waiters' = cv_waiters
      BY <2>4, <1>6 DEF cv_signal
    <3> QED
      BY <2>4, <3>1, <1>2, <1>4, <1>6, CVAssumption DEF Count, CountAgrees
  <2> QED
    BY <2>3, <2>4
<1> QED
  BY <1>5, <1>6

\* Every step keeps the count.
LEMMA NextCount == Ctl /\ Count /\ [Next]_vars => Count'
<1> SUFFICES ASSUME Ctl, Count, [Next]_vars PROVE Count'
  OBVIOUS
<1>1. ASSUME UNCHANGED <<cv_waiters, slpq>> PROVE Count'
  BY <1>1 DEF Count, CountAgrees
<1>2. ASSUME NEW t \in Thread, cv_block(t) PROVE Count'
  <2>1. IsFiniteSet(slpq) /\ Cardinality(slpq) \in Nat
    BY QueueFinite
  <2>2. t \notin slpq
    BY <1>2 DEF cv_block, Ctl, Queued
  <2>3. Cardinality(slpq') = Cardinality(slpq) + 1
    BY <2>1, <2>2, <1>2, FS_AddElement DEF cv_block
  <2> QED
    BY <1>2, <2>1, <2>3, CVAssumption DEF cv_block, Count, CountAgrees
<1>3. ASSUME NEW t \in Thread, cv_broadcast(t) PROVE Count'
  BY <1>3, FS_EmptySet, CVAssumption DEF cv_broadcast, Count, CountAgrees
<1>4. ASSUME NEW t \in Thread, Caller(t) PROVE UNCHANGED <<cv_waiters, slpq>>
  BY <1>4 DEF Caller, Enter, Lock, Take, Done, Add, WaitBegin, WaitPassed
<1>5. ASSUME NEW t \in Thread, Wait(t) PROVE Count'
  <2>1. CASE Look(t)
    BY <2>1, <1>1, SetrunCount DEF Look
  <2> QED
    BY <1>1, <1>2, <1>5, <2>1 DEF Wait, WaitExit, Woken, Reenter, Lock, untimeout, Pending, issig,
        Sigenter, NotPending, Resignal
<1>6. ASSUME NEW t \in Thread, Wakeup(t) PROVE Count'
  BY <1>1, <1>3, <1>6, SignalCount DEF Wakeup, Peek
<1>7. ASSUME NEW t \in Thread, Callout(t) \/ post_signal(t) PROVE Count'
  BY <1>1, <1>7, SetrunCount DEF Callout, Tick, CalloutStart, CalloutRun, post_signal
<1>8. CASE UNCHANGED vars
  BY <1>1, <1>8 DEF vars
<1> QED
  BY <1>1, <1>4, <1>5, <1>6, <1>7, <1>8 DEF Next

----------------------------------------------------------------------------
\* Whose wakeups are under way: a sleeper has not been signalled since it went to
\* sleep, a thread is about to sleep only when there is no token, and as long as
\* threads sleep there are enough wakeups for the tokens.
Fresh   == \A t \in slpq : ~signalled[t]
NoToken == \A t \in Thread : pc[t] = "block" => tokens = 0
Flags   == signalled \in [Thread -> BOOLEAN] /\ sig \in [Thread -> BOOLEAN]

Account == Flags /\ Fresh /\ NoToken /\ NoLostSignal

\* The threads in InFlight can be counted.
LEMMA InFlightFinite == IsFiniteSet(InFlight) /\ Cardinality(InFlight) \in Nat
<1>1. InFlight \in SUBSET Thread
  BY DEF InFlight
<1> QED
  BY <1>1, CVAssumption, FS_Subset, FS_CardinalityType

\* When no thread leaves InFlight but t, and only if it takes a token along,
\* the account stays balanced.
LEMMA Balance ==
  ASSUME NEW t \in Thread, Types, IsFiniteSet(InFlight'), slpq' \subseteq slpq, NoLostSignal,
         \/ tokens' \in Nat /\ tokens' <= tokens /\ InFlight \subseteq InFlight'
         \/ tokens' = tokens + 1 /\ t \notin InFlight /\ InFlight \cup {t} \subseteq InFlight'
         \/ tokens' = tokens - 1 /\ t \in InFlight /\ InFlight \ {t} \subseteq InFlight'
  PROVE  NoLostSignal'
<1>1. IsFiniteSet(InFlight) /\ Cardinality(InFlight) \in Nat
  BY InFlightFinite
<1>2. \A S : S \subseteq InFlight' => Cardinality(S) <= Cardinality(InFlight')
  BY FS_Subset
<1>3. Cardinality(InFlight') \in Nat
  BY FS_CardinalityType
<1>4. t \notin InFlight => Cardinality(InFlight \cup {t}) = Cardinality(InFlight) + 1
  BY <1>1, FS_AddElement
<1>5. t \in InFlight => Cardinality(InFlight \ {t}) = Cardinality(InFlight) - 1
  BY <1>1, FS_RemoveElement
<1>6. tokens \in Nat
  BY CVAssumption DEF Types
<1> HIDE DEF InFlight
<1> QED
  BY <1>1, <1>2, <1>3, <1>4, <1>5, <1>6 DEF NoLostSignal

\* The flags stay Boolean.
LEMMA NextFlags == Flags /\ [Next]_vars => Flags'
BY ZenonT(40) DEF Flags, Next, Caller, Wait, Wakeup, Callout, Enter, Lock, Take, Done, Add, WaitBegin, WaitPassed, cv_block,
    WaitExit, Look, setrun, Woken, Reenter, untimeout, Pending, issig, Sigenter, NotPending, Resignal,
    Peek, cv_signal, cv_broadcast, Tick, CalloutStart, CalloutRun, post_signal, Goto, vars

\* Every step keeps the account.
LEMMA NextAccount == Ctl /\ Count /\ Account /\ [Next]_vars => Account'
<1> SUFFICES ASSUME Ctl, Count, Account, [Next]_vars PROVE Account'
  OBVIOUS
<1> USE CVAssumption, RoutineAssumption DEF Ctl, Types, Queued, Holds, Flags, Fresh, NoToken
<1>0. Flags'
  BY NextFlags DEF Account
<1>1. ASSUME NEW t \in Thread, Caller(t) \/ Wait(t) \/ Wakeup(t) \/ Callout(t) \/ post_signal(t)
      PROVE  (Fresh /\ NoToken)'
  <2>1. CASE Enter(t)
    BY <2>1 DEF Account, Enter, Lock, Goto, PC, Kind
  <2>2. CASE Take(t)
    BY <2>2 DEF Account, Take, Goto, PC, Kind
  <2>3. CASE Done(t)
    BY <2>3 DEF Account, Done, Goto, PC, Kind
  <2>4. CASE \E w \in {"cv_signal", "cv_broadcast"} : Add(t, w)
    BY <2>4 DEF Account, Add, Goto, PC, Kind
  <2>5. CASE \E k \in Routine : WaitBegin(t, k)
    BY <2>5 DEF Account, WaitBegin, Goto, PC, Kind
  <2>6. CASE \E k \in Routine : WaitPassed(t, k)
    BY <2>6 DEF Account, WaitPassed, Goto, PC, Kind
  <2>7. CASE cv_block(t)
    BY <2>7 DEF Account, cv_block, Goto, PC, Kind
  <2>8. CASE WaitExit(t)
    BY <2>8 DEF Account, WaitExit, Goto, PC, Kind
  <2>9. CASE Look(t)
    BY <2>9 DEF Account, Look, setrun, Goto, PC, Kind
  <2>10. CASE Woken(t)
    BY <2>10 DEF Account, Woken, Goto, PC, Kind
  <2>11. CASE Reenter(t)
    BY <2>11 DEF Account, Reenter, Lock, Goto, PC, Kind, Timed, Sig
  <2>12. CASE untimeout(t)
    BY <2>12 DEF Account, untimeout, Goto, PC, Kind
  <2>13. CASE Pending(t)
    BY <2>13 DEF Account, Pending, Goto, PC, Kind
  <2>14. CASE issig(t)
    BY <2>14 DEF Account, issig, Goto, PC, Kind
  <2>15. CASE Sigenter(t)
    BY <2>15 DEF Account, Sigenter, Lock, Goto, PC, Kind
  <2>16. CASE NotPending(t)
    BY <2>16 DEF Account, NotPending, Goto, PC, Kind
  <2>17. CASE Resignal(t)
    BY <2>17 DEF Account, Resignal, Goto, PC, Kind
  <2>18. CASE Peek(t, "cv_signal", "wakeone")
    BY <2>18 DEF Account, Peek, Goto, PC, Kind
  <2>19. CASE cv_signal(t)
    BY <2>19 DEF Account, cv_signal, Goto, PC, Kind
  <2>20. CASE Peek(t, "cv_broadcast", "wakeall")
    BY <2>20 DEF Account, Peek, Goto, PC, Kind
  <2>21. CASE cv_broadcast(t)
    BY <2>21 DEF Account, cv_broadcast, Goto, PC, Kind
  <2>22. CASE Tick(t)
    BY <2>22 DEF Account, Tick, PC, Kind
  <2>23. CASE CalloutStart(t)
    BY <2>23 DEF Account, CalloutStart, PC, Kind
  <2>24. CASE CalloutRun(t)
    BY <2>24 DEF Account, CalloutRun, setrun, PC, Kind
  <2>25. CASE post_signal(t)
    BY <2>25 DEF Account, post_signal, setrun, PC, Kind
  <2> QED
    BY <1>1, <2>1, <2>2, <2>3, <2>4, <2>5, <2>6, <2>7, <2>8, <2>9, <2>10, <2>11, <2>12, <2>13, <2>14, <2>15, <2>16, <2>17, <2>18, <2>19, <2>20, <2>21, <2>22, <2>23, <2>24, <2>25 DEF Caller, Wait, Wakeup, Callout
<1>2. ASSUME NEW t \in Thread, Caller(t) \/ Wait(t) \/ Wakeup(t) \/ Callout(t) \/ post_signal(t)
      PROVE  NoLostSignal'
  <2>0. IsFiniteSet(InFlight')
    <3>1. InFlight' \in SUBSET Thread
      BY DEF InFlight
    <3> QED
      BY <3>1, FS_Subset
  <2>a. Cardinality(InFlight') \in Nat
    BY <2>0, FS_CardinalityType
  <2>b. cv_waiters = 0 => slpq = {}
    BY QueueFinite, FS_EmptySet DEF Count, CountAgrees
  <2> USE <2>0 DEF Account
  <2>1. CASE Enter(t)
    BY <2>1, Balance DEF Enter, Lock, Goto, InFlight, Chosen, PC, Kind
  <2>2. CASE Take(t)
    BY <2>2, Balance DEF Take, Goto, InFlight, Chosen, PC, Kind
  <2>3. CASE Done(t)
    BY <2>3, Balance DEF Done, Goto, InFlight, Chosen, PC, Kind
  <2>4. CASE \E w \in {"cv_signal", "cv_broadcast"} : Add(t, w)
    BY <2>4, Balance DEF Add, Goto, InFlight, Chosen, PC, Kind
  <2>5. CASE \E k \in Routine : WaitBegin(t, k)
    BY <2>5, <2>a DEF WaitBegin, NoLostSignal
  <2>6. CASE \E k \in Routine : WaitPassed(t, k)
    BY <2>6, <2>a DEF WaitPassed, NoLostSignal
  <2>7. CASE cv_block(t)
    BY <2>7, <2>a DEF cv_block, NoLostSignal
  <2>8. CASE WaitExit(t)
    BY <2>8, Balance DEF WaitExit, Goto, InFlight, Chosen, PC, Kind
  <2>9. CASE Look(t)
    BY <2>9, Balance DEF Look, setrun, Goto, InFlight, Chosen, PC, Kind
  <2>10. CASE Woken(t)
    BY <2>10, Balance DEF Woken, Goto, InFlight, Chosen, PC, Kind
  <2>11. CASE Reenter(t)
    BY <2>11, Balance DEF Reenter, Lock, Goto, InFlight, Chosen, PC, Kind, Timed, Sig
  <2>12. CASE untimeout(t)
    BY <2>12, Balance DEF untimeout, Goto, InFlight, Chosen, PC, Kind
  <2>13. CASE Pending(t)
    BY <2>13, Balance DEF Pending, Goto, InFlight, Chosen, PC, Kind
  <2>14. CASE issig(t)
    BY <2>14, Balance DEF issig, Goto, InFlight, Chosen, PC, Kind
  <2>15. CASE Sigenter(t)
    BY <2>15, Balance DEF Sigenter, Lock, Goto, InFlight, Chosen, PC, Kind
  <2>16. CASE NotPending(t)
    BY <2>16, Balance DEF NotPending, Goto, InFlight, Chosen, PC, Kind
  <2>17. CASE Resignal(t)
    BY <2>17, Balance DEF Resignal, Goto, InFlight, Chosen, PC, Kind
  <2>18. CASE Peek(t, "cv_signal", "wakeone")
    <3>1. CASE cv_waiters > 0
      BY <2>18, <3>1, Balance DEF Peek, Goto, InFlight, Chosen, PC, Kind
    <3>2. CASE cv_waiters = 0
      BY <2>18, <3>2, <2>b DEF Peek, NoLostSignal
    <3> QED
      BY <3>1, <3>2 DEF Count
  <2>19. CASE cv_signal(t)
    <3>1. CASE slpq = {}
      BY <2>19, <3>1 DEF cv_signal, NoLostSignal
    <3>2. CASE slpq # {}
      <4>1. PICK u \in slpq : slpq' = slpq \ {u} /\ signalled' = [signalled EXCEPT ![u] = TRUE]
        BY <2>19, <3>2 DEF cv_signal
      <4>2. t \in InFlight /\ u \in Thread /\ u # t /\ u \notin InFlight
        BY <2>19, <4>1 DEF cv_signal, InFlight, Chosen
      <4>3. (InFlight \ {t}) \cup {u} \subseteq InFlight'
        BY <2>19, <4>1, <4>2 DEF cv_signal, Goto, InFlight, Chosen, PC
      <4>4. IsFiniteSet(InFlight) /\ Cardinality(InFlight) \in Nat
        BY InFlightFinite
      <4>5. IsFiniteSet(InFlight \ {t}) /\ Cardinality(InFlight \ {t}) = Cardinality(InFlight) - 1
        BY <4>2, <4>4, FS_RemoveElement
      <4>6. u \notin InFlight \ {t}
        BY <4>2
      <4>7. Cardinality((InFlight \ {t}) \cup {u}) = Cardinality(InFlight)
        <5>1. Cardinality((InFlight \ {t}) \cup {u}) = Cardinality(InFlight \ {t}) + 1
          BY <4>5, <4>6, FS_AddElement, Zenon
        <5> QED
          BY <4>4, <4>5, <5>1
      <4>8. Cardinality(InFlight) <= Cardinality(InFlight')
        BY <4>3, <4>7, FS_Subset
      <4>9. tokens' = tokens /\ tokens <= Cardinality(InFlight)
        BY <2>19, <3>2 DEF cv_signal, NoLostSignal
      <4> QED
        BY <2>a, <4>4, <4>8, <4>9 DEF NoLostSignal
    <3> QED
      BY <3>1, <3>2
  <2>20. CASE Peek(t, "cv_broadcast", "wakeall")
    <3>1. CASE cv_waiters > 0
      BY <2>20, <3>1, Balance DEF Peek, Goto, InFlight, Chosen, PC, Kind
    <3>2. CASE cv_waiters = 0
      BY <2>20, <3>2, <2>b DEF Peek, NoLostSignal
    <3> QED
      BY <3>1, <3>2 DEF Count
  <2>21. CASE cv_broadcast(t)
    BY <2>21 DEF cv_broadcast, NoLostSignal
  <2>22. CASE Tick(t)
    BY <2>22, Balance DEF Tick, InFlight, Chosen, PC, Kind
  <2>23. CASE CalloutStart(t)
    BY <2>23, Balance DEF CalloutStart, InFlight, Chosen, PC, Kind
  <2>24. CASE CalloutRun(t)
    BY <2>24, Balance DEF CalloutRun, setrun, InFlight, Chosen, PC, Kind
  <2>25. CASE post_signal(t)
    BY <2>25, Balance DEF post_signal, setrun, InFlight, Chosen, PC, Kind
  <2> QED
    BY <1>2, <2>1, <2>2, <2>3, <2>4, <2>5, <2>6, <2>7, <2>8, <2>9, <2>10, <2>11, <2>12, <2>13, <2>14, <2>15, <2>16, <2>17, <2>18, <2>19, <2>20, <2>21, <2>22, <2>23, <2>24, <2>25 DEF Caller, Wait, Wakeup, Callout
<1>3. CASE UNCHANGED vars
  BY <1>3 DEF vars, Account, NoLostSignal, InFlight, Chosen
<1> QED
  BY <1>0, <1>1, <1>2, <1>3 DEF Next, Account

----------------------------------------------------------------------------
\* The three invariants hold of every behaviour.
THEOREM Invariants == Spec => [](Ctl /\ Count /\ Account)
<1>1. Init => Ctl /\ Count /\ Account
  <2> SUFFICES ASSUME Init PROVE Ctl /\ Count /\ Account
    OBVIOUS
  <2>1. Ctl
    BY InitCtl
  <2>2. Count
    BY FS_EmptySet, CVAssumption DEF Init, Count, CountAgrees
  <2>3. Flags
    BY Zenon DEF Init, Flags
  <2>4. Fresh /\ NoToken /\ NoLostSignal
    BY DEF Init, Fresh, NoToken, NoLostSignal
  <2> QED
    BY <2>1, <2>2, <2>3, <2>4 DEF Account
<1>2. Ctl /\ Count /\ Account /\ [Next]_vars => (Ctl /\ Count /\ Account)'
  BY NextCtl, NextCount, NextAccount
<1> QED
  BY <1>1, <1>2, PTL DEF Spec

\* condvar.c keeps every variable in its range and holds the mutex where its
\* callers rely on it.
THEOREM TypeCorrect == Spec => []TypeOK
<1>1. Ctl /\ Count /\ Account => TypeOK
  BY DEF Ctl, Types, Queued, Holds, Count, Account, Flags, TypeOK
<1> QED
  BY <1>1, Invariants, PTL

\* cv_waiters is exact below CV_MAX_WAITERS, for any number of threads above or
\* below it: the shortcut and the assertion of cv_signal are right.
THEOREM CountExact == Spec => []CountAgrees
<1>1. Ctl /\ Count /\ Account => CountAgrees
  BY DEF Count
<1> QED
  BY <1>1, Invariants, PTL

\* No cv_signal is lost to a waiter that times out or takes a signal.
THEOREM SignalsNotLost == Spec => []NoLostSignal
<1>1. Ctl /\ Count /\ Account => NoLostSignal
  BY DEF Account
<1> QED
  BY <1>1, Invariants, PTL

\* No waiter sleeps through its callout or its signal.
THEOREM NotOverslept == Spec => []NoOversleep
<1>1. Ctl /\ Count /\ Account => NoOversleep
  BY DEF Ctl
<1> QED
  BY <1>1, Invariants, PTL

\* No callout of a timed wait is left behind when the wait returns.
THEOREM TimersCancelled == Spec => []NoStaleTimer
<1>1. Ctl /\ Count /\ Account => NoStaleTimer
  BY DEF Ctl
<1> QED
  BY <1>1, Invariants, PTL
=============================================================================
