------------------------------- MODULE Channel -------------------------------
(***************************************************************************)
(* What the channel runtime (compiler/runtime/conc_rt.c) promises to the    *)
(* generated code, with no locks, condition variables or polling: each      *)
(* channel is an unbounded FIFO queue that can be closed once and for all.  *)
(* A receiver gets the oldest value, or Null once the queue is empty and    *)
(* closed.  Module Chan is shown to implement this specification.           *)
(***************************************************************************)
EXTENDS Sequences

CONSTANTS Threads,  \* the program's threads
          Chans,    \* its channels
          Values,   \* what it sends
          Null      \* the NULL a receiver gets from a drained, closed channel

VARIABLES queue,    \* queue[c]: values accepted and not yet received
          closed,   \* closed[c]: close(c) was called
          got       \* got[t]: what the last receive of thread t returned

vars == <<queue, closed, got>>

Init == /\ queue = [c \in Chans |-> << >>]
        /\ closed = [c \in Chans |-> FALSE]
        /\ got = [t \in Threads |-> Null]

\* An open channel accepts the value; a send on a closed one is a stuttering step.
Put(c, v) == /\ ~closed[c]
             /\ queue' = [queue EXCEPT ![c] = Append(@, v)]
             /\ UNCHANGED <<closed, got>>

Get(t, c) == /\ queue[c] # << >>
             /\ got' = [got EXCEPT ![t] = Head(queue[c])]
             /\ queue' = [queue EXCEPT ![c] = Tail(@)]
             /\ UNCHANGED closed

GetNull(t, c) == /\ queue[c] = << >>
                 /\ closed[c]
                 /\ got' = [got EXCEPT ![t] = Null]
                 /\ UNCHANGED <<queue, closed>>

Close(c) == /\ closed' = [closed EXCEPT ![c] = TRUE]
            /\ UNCHANGED <<queue, got>>

Next == \E c \in Chans : \/ \E v \in Values : Put(c, v)
                         \/ \E t \in Threads : Get(t, c) \/ GetNull(t, c)
                         \/ Close(c)

Spec == Init /\ [][Next]_vars

==============================================================================
