----------------------------- MODULE MCTaskq -----------------------------
(* Small instances of the task queue. *)
EXTENDS Taskq, TLC

CONSTANTS c1, c2, c3, w1, w2, e1, e2, k1, k2

Static   == {}
Full     == {"DYNAMIC", "PREPOPULATE"}
DynamicOnly == {{"DYNAMIC"}}
TwoKinds == {Static, Full}
Sleep    == {{}}
MixedFlags == {{}, {"NOALLOC"}, {"NOSLEEP", "NOQUEUE"}}
Symmetry == Permutations(Client) \cup Permutations(Worker) \cup Permutations(Ent)
            \cup Permutations(Task)
=============================================================================
