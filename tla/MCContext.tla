----------------------------- MODULE MCContext -----------------------------
(* A root and two more contexts, two user threads, and the worker threads.     *)
EXTENDS Context

CONSTANTS u, v, r, x, y

MCThreads == Users \cup Workers
MCSelects == {<<Receive(c)>> : c \in Ctxs} \cup {<<Receive(c), Receive(d)>> : c, d \in Ctxs}

=============================================================================
