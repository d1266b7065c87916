------------------------------- MODULE MCRules -------------------------------
(* One static rule and one source, registered and run by two threads that     *)
(* call different methods from run to run.                                    *)
EXTENDS Rules, TLC

CONSTANTS u1, u2

OneStatic == <<"static">>

\* One thread runs the ruleset; the other adds to it, stops it and clears it.
TwoThreads == (u1 :> {"start", "restart"}) @@ (u2 :> {"source", "stop", "reset"})
OneThread == u1 :> {"start", "restart"}

=============================================================================
