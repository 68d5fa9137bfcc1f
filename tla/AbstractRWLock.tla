--------------------------- MODULE AbstractRWLock ---------------------------
(***************************************************************************)
(* What a readers/writer lock promises: one writer or any number of        *)
(* readers.  Direct handoff shows as the one step in which a holder leaves *)
(* and the threads it wakes become holders.                                *)
(***************************************************************************)
CONSTANT Thread

VARIABLES readers, writers

Init == readers = {} /\ writers = {}

\* New readers join a lock without a writer; a writer takes a free lock.
AcquireRead(S) == writers = {} /\ readers' = readers \cup S /\ UNCHANGED writers
AcquireWrite(t) == readers = {} /\ writers = {} /\ writers' = {t} /\ UNCHANGED readers

\* A reader leaves; the last one may pass the lock to a writer.
ReleaseRead(t) == /\ t \in readers
                  /\ readers' = readers \ {t}
                  /\ \/ UNCHANGED writers
                     \/ readers' = {} /\ \E w \in Thread : writers' = {w}

\* The writer leaves, possibly passing the lock on, or becomes a reader.
ReleaseWrite(t) == /\ writers = {t}
                   /\ \/ writers' = {} /\ readers' \in SUBSET Thread
                      \/ UNCHANGED readers /\ \E w \in Thread : writers' = {w}

\* The only reader becomes the writer.
Upgrade(t) == readers = {t} /\ readers' = {} /\ writers' = {t}

Next == \/ \E S \in SUBSET Thread : AcquireRead(S)
        \/ \E t \in Thread : \/ AcquireWrite(t) \/ ReleaseRead(t)
                             \/ ReleaseWrite(t) \/ Upgrade(t)

Spec == Init /\ [][Next]_<<readers, writers>>
=============================================================================
