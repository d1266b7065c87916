------------------------------- MODULE MCSync -------------------------------
(* Three threads that share one Once and one WaitGroup.                       *)
EXTENDS Sync

CONSTANTS t1, t2, t3

MCDeltas == {-1, 1, 2}

=============================================================================
