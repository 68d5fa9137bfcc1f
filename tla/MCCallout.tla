----------------------------- MODULE MCCallout -----------------------------
(* A small instance of Callout. *)
EXTENDS Callout

CONSTANTS t1, t2, e1, e2, i1, i2, c1, c2

Delays == {0, 2}

\* Two states whose times differ by the same shift are one to TLC: the model
\* only compares times with each other, so that every step of one is a step of
\* the other, and every property has the same value in both.  The times of
\* callouts on the freelist and of idle executors are not looked at.
Since(a) == Minus(a, lbolt)
Shifted == <<Since(ct_curtime), Since(ct_runtime),
             [c \in CP |-> IF c_xid[c] = NULL THEN 0 ELSE Since(c_runtime[c])],
             [e \in Executor |-> IF epc[e] = "idle" THEN 0 ELSE Since(runtime[e])],
             cpr_stop_callout, clock, ct_lock, queued, lbhash, c_xid, executing,
             c_executor, c_done, epc, cp, rest, u_vars>>
=============================================================================
