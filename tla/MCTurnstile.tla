---------------------------- MODULE MCTurnstile ----------------------------
(* Small instances of Turnstile. *)
EXTENDS Turnstile, TLC

CONSTANTS t1, t2, t3, t4, a, b, c

Threads == {t1, t2, t3, t4}
\* t1 -> a -> t2 -> b -> t3 -> c -> t4 is the longest chain; t1 and t4 compete
\* with the others for both of its ends.
Chains  == a :> 1 @@ b :> 2 @@ c :> 1
Scripts == t1 :> <<a, c>> @@ t2 :> <<a, b>> @@ t3 :> <<b, c>> @@ t4 :> <<a, c>>
Pris    == t1 :> 3 @@ t2 :> 2 @@ t3 :> 1 @@ t4 :> 0
=============================================================================
