------------------------------ MODULE PriQueue ------------------------------
(***************************************************************************)
(* Priority ordered queues of sleeping threads, as sequences: the sleepq_t *)
(* lists of turnstiles (sleepq.c) and the s_slpq lists of semaphores.      *)
(* Threads of equal priority stay in the order of their arrival.           *)
(***************************************************************************)
EXTENDS Integers, FiniteSets, SequencesExt

\* The length of the longest prefix of q whose priorities under p are at least n.
AtLeast(q, p, n) == Cardinality({i \in DOMAIN q : \A j \in 1..i : p[q[j]] >= n})

\* t joins q before the first thread of a lower priority.
Insert(q, t, p) == InsertAt(q, AtLeast(q, p, p[t]) + 1, t)

\* t leaves q, wherever it stands.
Dequeue(q, t) == IF t \in ToSet(q) THEN RemoveAt(q, CHOOSE i \in DOMAIN q : q[i] = t) ELSE q

\* The first threads of q, as many as there are in S, leave it.
DequeueFirst(q, S) == SubSeq(q, 1 + Cardinality({i \in DOMAIN q : q[i] \in S}), Len(q))

\* The priority of t, asleep in q, changed to what p says.
Requeue(q, t, p) == IF t \in ToSet(q) THEN Insert(Dequeue(q, t), t, p) ELSE q
=============================================================================
