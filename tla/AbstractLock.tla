---------------------------- MODULE AbstractLock ----------------------------
(***************************************************************************)
(* What a mutual exclusion lock promises its clients, without a word about *)
(* spinning, blocking or memory: a thread may wait for the lock, acquire   *)
(* it, at once or after waiting, only while nobody holds it, and release   *)
(* what it holds.                                                          *)
(***************************************************************************)
CONSTANT Thread

VARIABLES holders,  \* the threads that hold the lock
          waiting   \* the threads inside an enter routine

Init == holders = {} /\ waiting = {}

Wait(t) == /\ t \notin holders \cup waiting
           /\ waiting' = waiting \cup {t}
           /\ UNCHANGED holders

Acquire(t) == /\ holders = {}
              /\ holders' = {t}
              /\ waiting' = waiting \ {t}

Release(t) == /\ t \in holders
              /\ holders' = holders \ {t}
              /\ UNCHANGED waiting

Next == \E t \in Thread : Wait(t) \/ Acquire(t) \/ Release(t)

Spec == Init /\ [][Next]_<<holders, waiting>>
=============================================================================
