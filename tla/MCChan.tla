------------------------------- MODULE MCChan -------------------------------
(* Finite instances of Chan: one channel with a one-case select, and two      *)
(* channels with selects that mix a receive with a receive or with a send.    *)
EXTENDS Chan

CONSTANTS t1, t2, t3, a, b, v1, v2

RecvCase(c) == [ch |-> c, send |-> FALSE, val |-> Null]
SendCase(c, v) == [ch |-> c, send |-> TRUE, val |-> v]

OneCase     == {<<RecvCase(a)>>}
TwoReceives == {<<RecvCase(a), RecvCase(b)>>}
TwoCases    == TwoReceives \cup {<<RecvCase(a), SendCase(b, v1)>>}

=============================================================================
