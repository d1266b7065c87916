------------------------------ MODULE MCFuture ------------------------------
(* Three calls, one of them made with spawn; main and the calls all launch    *)
(* calls, and await the futures they hold and those that are shared.  The two  *)
(* futures are of different values.                                           *)
EXTENDS Future, TLC

CONSTANTS k1, k2, k3, v1, v2

Results == (k1 :> {v1}) @@ (k2 :> {v2}) @@ (k3 :> {Null})

==============================================================================
