------------------------------ MODULE MCRWLock ------------------------------
(* A small instance of the readers/writer lock. *)
EXTENDS RWLock

CONSTANTS t1, t2, t3

\* Any thread reads and writes; priorities move between two levels.
AnyRole   == [t \in Thread |-> {"reader", "writer"}]
LowPri    == [t \in Thread |-> 0]
TwoLevels == {0, 1}
=============================================================================
