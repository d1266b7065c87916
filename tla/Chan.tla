-------------------------------- MODULE Chan --------------------------------
(***************************************************************************)
(* The channel runtime of compiler/runtime/conc_rt.c: send, recv, close and *)
(* select, called by any number of pthreads in any order.                   *)
(*                                                                          *)
(* Every access to a Chan is made holding its mutex, so one critical        *)
(* section is one action; pthread_cond_wait ends a critical section and a   *)
(* later action (Resume) retakes the mutex and tests the loop's condition   *)
(* again.  Select polls in one critical section per case and calls send or  *)
(* recv in another, so other threads run in between.                        *)
(*                                                                          *)
(* The list is the one of the code: nodes linked by next, with a pointer to *)
(* the first and one to the last, moved by send and recv.  An address is a  *)
(* number, the n-th malloc of a channel gives n, and Nil is NULL.           *)
(*                                                                          *)
(* Abstracted: a freed address is not given again; the capacity given to    *)
(* make() is stored and never read, and nobody waits on send_cv, so neither *)
(* is a variable.                                                           *)
(*                                                                          *)
(* A definition whose name starts with Mut is a broken version of the one   *)
(* after it, used to test that a property notices; no specification uses it.*)
(***************************************************************************)
EXTENDS Integers, Sequences, FiniteSets

CONSTANTS Threads, Chans, Values, Null,
          Selects,    \* the select statements of the program: lists of cases
          MaxPolls,   \* rounds of polling before select gives up (10000 in C)
          MaxSends    \* bound: no call that may send starts once a channel
                      \* has accepted this many values

Case == [ch : Chans, send : BOOLEAN, val : Values \cup {Null}]

ASSUME ChanAssumption ==
    /\ IsFiniteSet(Threads)
    /\ Null \notin Values
    /\ MaxPolls \in Nat \ {0}
    /\ MaxSends \in Nat
    /\ Selects \subseteq Seq(Case) \ {<< >>}
    /\ \A cs \in Selects : \A i \in DOMAIN cs : cs[i].send => cs[i].val \in Values

VARIABLES
    head,     \* head[c], tail[c]: the addresses of the first and the last node
    tail,
    cells,    \* cells[c]: the nodes of c by address
    count,    \* count[c]: the count field
    closed,   \* closed[c]: the closed field
    pc,       \* pc[t]: where thread t is in the runtime
    on,       \* on[t]: the channel the recv of t works on, while it waits
    sel,      \* sel[t]: the cases of the select t is in, or << >>
    idx,      \* idx[t]: the loop index i, then ready_idx; 0 outside select
    loops,    \* loops[t]: the rounds of polling done
    out,      \* out[t]: the pointer the last recv of t returned
    which,    \* which[t]: the index the last select of t returned
    sent,     \* history: sent[c], the values c accepted, in order
    taken     \* history: taken[c], the values received from c, in order

chanVars == <<head, tail, cells, count, closed, sent, taken>>
selVars  == <<sel, idx, loops, which>>
vars     == <<chanVars, pc, on, selVars, out>>

Labels == {"idle", "parked", "woken", "poll", "chosen"}

Nil   == 0
Freed == [data |-> Null, next |-> Nil]

Init == /\ head   = [c \in Chans |-> Nil]
        /\ tail   = [c \in Chans |-> Nil]
        /\ cells  = [c \in Chans |-> << >>]
        /\ count  = [c \in Chans |-> 0]
        /\ closed = [c \in Chans |-> FALSE]
        /\ pc     = [t \in Threads |-> "idle"]
        /\ on     = [t \in Threads |-> Null]
        /\ sel    = [t \in Threads |-> << >>]
        /\ idx    = [t \in Threads |-> 0]
        /\ loops  = [t \in Threads |-> 0]
        /\ out    = [t \in Threads |-> Null]
        /\ which  = [t \in Threads |-> 0]
        /\ sent   = [c \in Chans |-> << >>]
        /\ taken  = [c \in Chans |-> << >>]

-----------------------------------------------------------------------------
(* recv_cv: the threads inside pthread_cond_wait, and those that left it     *)
(* and have not retaken the mutex.                                           *)

Parked(c) == {t \in Threads : pc[t] = "parked" /\ on[t] = c}
Woken(c)  == {t \in Threads : pc[t] = "woken" /\ on[t] = c}

MutSignalled(c) == {{}}

\* pthread_cond_signal unblocks one waiter, if there is one.
Signalled(c) == IF Parked(c) = {} THEN {{}} ELSE {{u} : u \in Parked(c)}

Wake(labels, W) == [u \in Threads |-> IF u \in W THEN "woken" ELSE labels[u]]

\* If t is in a select, it returns from it with index i.
LeaveSelect(t, i) == /\ sel'   = [sel EXCEPT ![t] = << >>]
                     /\ idx'   = [idx EXCEPT ![t] = 0]
                     /\ loops' = [loops EXCEPT ![t] = 0]
                     /\ which' = [which EXCEPT ![t] = IF sel[t] = << >> THEN @ ELSE i]

-----------------------------------------------------------------------------
(* Skink_chan_send                                                           *)

\* The nodes cs with a new one, linked behind the last one, l, if there is one.
Linked(l, cs, v) ==
    Append(IF l = Nil THEN cs ELSE [cs EXCEPT ![l].next = Len(cs) + 1],
           [data |-> v, next |-> Nil])

Enqueue(c, v) ==
    /\ cells' = [cells EXCEPT ![c] = Linked(tail[c], @, v)]
    /\ head'  = [head EXCEPT ![c] = IF tail[c] = Nil THEN Len(cells[c]) + 1 ELSE @]
    /\ tail'  = [tail EXCEPT ![c] = Len(cells[c]) + 1]
    /\ count' = [count EXCEPT ![c] = @ + 1]
    /\ sent'  = [sent EXCEPT ![c] = Append(@, v)]
    /\ UNCHANGED <<closed, taken>>

MutSendOpen(t, c, v) == /\ Enqueue(c, v)
                        /\ \E W \in Signalled(c) :
                              pc' = Wake([pc EXCEPT ![t] = "idle"], W)
                        /\ UNCHANGED <<on, out>>

MutSendSignals(t, c, v) ==
    /\ ~closed[c]
    /\ Enqueue(c, v)
    /\ \E W \in IF head[c] = Nil THEN Signalled(c) ELSE {{}} :
          pc' = Wake([pc EXCEPT ![t] = "idle"], W)
    /\ UNCHANGED <<on, out>>

\* t ends outside the runtime; a receiver is signalled.
SendOpen(t, c, v) ==
    /\ ~closed[c]
    /\ Enqueue(c, v)
    /\ \E W \in Signalled(c) : pc' = Wake([pc EXCEPT ![t] = "idle"], W)
    /\ UNCHANGED <<on, out>>

\* The early return: the value is dropped and the caller is not told.
SendClosed(t, c) == /\ closed[c]
                    /\ pc' = [pc EXCEPT ![t] = "idle"]
                    /\ UNCHANGED <<chanVars, on, out>>

SendBody(t, c, v) == SendOpen(t, c, v) \/ SendClosed(t, c)

Send(t, c, v) == /\ pc[t] = "idle"
                 /\ SendBody(t, c, v)
                 /\ UNCHANGED selVars

-----------------------------------------------------------------------------
(* Skink_chan_recv                                                           *)

First(c) == cells[c][head[c]]

MutDequeue(t, c) ==
    /\ head[c] # Nil
    /\ head'  = [head EXCEPT ![c] = First(c).next]
    /\ cells' = [cells EXCEPT ![c] = [@ EXCEPT ![head[c]] = Freed]]
    /\ count' = [count EXCEPT ![c] = @ - 1]
    /\ taken' = [taken EXCEPT ![c] = Append(@, First(c).data)]
    /\ out'   = [out EXCEPT ![t] = First(c).data]
    /\ UNCHANGED <<tail, closed, sent>>

\* The first node is unlinked and freed; with the last one the tail is reset.
Dequeue(t, c) ==
    /\ head[c] # Nil
    /\ head'  = [head EXCEPT ![c] = First(c).next]
    /\ tail'  = [tail EXCEPT ![c] = IF First(c).next = Nil THEN Nil ELSE @]
    /\ cells' = [cells EXCEPT ![c] = [@ EXCEPT ![head[c]] = Freed]]
    /\ count' = [count EXCEPT ![c] = @ - 1]
    /\ taken' = [taken EXCEPT ![c] = Append(@, First(c).data)]
    /\ out'   = [out EXCEPT ![t] = First(c).data]
    /\ UNCHANGED <<closed, sent>>

MutRecvNull(t, c) == /\ head[c] = Nil
                     /\ pc[t] = "woken"
                     /\ out' = [out EXCEPT ![t] = Null]
                     /\ UNCHANGED chanVars

RecvNull(t, c) == /\ head[c] = Nil
                  /\ closed[c]
                  /\ out' = [out EXCEPT ![t] = Null]
                  /\ UNCHANGED chanVars

\* The body returns ...
RecvReturn(t, c) == /\ Dequeue(t, c) \/ RecvNull(t, c)
                    /\ pc' = [pc EXCEPT ![t] = "idle"]
                    /\ on' = [on EXCEPT ![t] = Null]
                    /\ LeaveSelect(t, idx[t])

\* ... or the loop's condition holds and the thread waits on recv_cv.
RecvWait(t, c) == /\ head[c] = Nil
                  /\ ~closed[c]
                  /\ pc' = [pc EXCEPT ![t] = "parked"]
                  /\ on' = [on EXCEPT ![t] = c]
                  /\ UNCHANGED <<chanVars, selVars, out>>

RecvBody(t, c) == RecvReturn(t, c) \/ RecvWait(t, c)

Recv(t, c) == pc[t] = "idle" /\ RecvBody(t, c)

\* A woken thread retakes the mutex and goes round the while loop.
Resume(t) == pc[t] = "woken" /\ RecvBody(t, on[t])

\* pthread_cond_wait may return unsignalled.
Spurious(t) == /\ pc[t] = "parked"
               /\ pc' = [pc EXCEPT ![t] = "woken"]
               /\ UNCHANGED <<chanVars, on, selVars, out>>

-----------------------------------------------------------------------------
(* Skink_chan_close                                                          *)

MutClose(t, c) == /\ pc[t] = "idle"
                  /\ closed' = [closed EXCEPT ![c] = TRUE]
                  /\ \E W \in Signalled(c) : pc' = Wake(pc, W)
                  /\ UNCHANGED <<head, tail, cells, count, sent, taken, on, selVars, out>>

Close(t, c) == /\ pc[t] = "idle"
               /\ closed' = [closed EXCEPT ![c] = TRUE]
               /\ pc' = Wake(pc, Parked(c))
               /\ UNCHANGED <<head, tail, cells, count, sent, taken, on, selVars, out>>

-----------------------------------------------------------------------------
(* Skink_chan_select                                                         *)

SelectStart(t, cs) == /\ pc[t] = "idle"
                      /\ pc'    = [pc EXCEPT ![t] = "poll"]
                      /\ sel'   = [sel EXCEPT ![t] = cs]
                      /\ idx'   = [idx EXCEPT ![t] = 1]
                      /\ loops' = [loops EXCEPT ![t] = 0]
                      /\ UNCHANGED <<chanVars, on, which, out>>

TheCase(t) == sel[t][idx[t]]

MutReady(k) == k.send \/ head[k.ch] # Nil

\* A send case is taken untested; a receive case is tested under the mutex.
Ready(k) == k.send \/ head[k.ch] # Nil \/ closed[k.ch]

PollReady(t) == /\ pc[t] = "poll"
                /\ Ready(TheCase(t))
                /\ pc' = [pc EXCEPT ![t] = "chosen"]
                /\ UNCHANGED <<chanVars, on, selVars, out>>

MutPollNextCase(t) == /\ pc[t] = "poll"
                      /\ ~Ready(TheCase(t))
                      /\ idx' = [idx EXCEPT ![t] = @ + 1]
                      /\ UNCHANGED <<chanVars, pc, on, sel, loops, which, out>>

PollNextCase(t) == /\ pc[t] = "poll"
                   /\ ~Ready(TheCase(t))
                   /\ idx[t] < Len(sel[t])
                   /\ idx' = [idx EXCEPT ![t] = @ + 1]
                   /\ UNCHANGED <<chanVars, pc, on, sel, loops, which, out>>

\* No case was ready in this round: sleep 1ms and poll again ...
PollNextRound(t) == /\ pc[t] = "poll"
                    /\ ~Ready(TheCase(t))
                    /\ idx[t] = Len(sel[t])
                    /\ loops[t] + 1 < MaxPolls
                    /\ loops' = [loops EXCEPT ![t] = @ + 1]
                    /\ idx'   = [idx EXCEPT ![t] = 1]
                    /\ UNCHANGED <<chanVars, pc, on, sel, which, out>>

\* ... or, after the last round, return -1: the default case, or none.
GiveUp(t) == /\ pc[t] = "poll"
             /\ ~Ready(TheCase(t))
             /\ idx[t] = Len(sel[t])
             /\ loops[t] + 1 = MaxPolls
             /\ pc' = [pc EXCEPT ![t] = "idle"]
             /\ LeaveSelect(t, -1)
             /\ UNCHANGED <<chanVars, on, out>>

ChosenSend(t) == /\ pc[t] = "chosen"
                 /\ TheCase(t).send
                 /\ SendBody(t, TheCase(t).ch, TheCase(t).val)
                 /\ LeaveSelect(t, idx[t])

\* The mutex was released since the poll: recv starts over, and may wait.
ChosenRecv(t) == /\ pc[t] = "chosen"
                 /\ ~TheCase(t).send
                 /\ RecvBody(t, TheCase(t).ch)

Poll(t) == PollReady(t) \/ PollNextCase(t) \/ PollNextRound(t) \/ GiveUp(t)

-----------------------------------------------------------------------------

MaySend(c) == Len(sent[c]) < MaxSends

\* A new call into the runtime, and a step of the call a thread is in.
Call(t) == \/ \E c \in Chans : \/ MaySend(c) /\ \E v \in Values : Send(t, c, v)
                               \/ Recv(t, c)
                               \/ Close(t, c)
           \/ \E cs \in Selects :
                 /\ \A i \in DOMAIN cs : cs[i].send => MaySend(cs[i].ch)
                 /\ SelectStart(t, cs)

Progress(t) == Resume(t) \/ Poll(t) \/ ChosenSend(t) \/ ChosenRecv(t)

Next == \E t \in Threads : Call(t) \/ Progress(t) \/ Spurious(t)

Spec == Init /\ [][Next]_vars

\* The operating system schedules every runnable thread.
FairSpec == Spec /\ \A t \in Threads : WF_vars(Progress(t))

-----------------------------------------------------------------------------
(* Properties                                                                *)

\* What a list holds: the data of the nodes on the way from its head h, by next, to
\* the end; cs is the nodes by address.
IsWay(h, cs, p) == /\ Append(p, Nil)[1] = h
                   /\ \A i \in DOMAIN p : Append(p, Nil)[i + 1] = cs[p[i]].next

WayFrom(h, cs) ==
    CHOOSE p \in UNION {[1 .. n -> DOMAIN cs] : n \in 0 .. Len(cs)} : IsWay(h, cs, p)

ListFrom(h, cs) == [i \in DOMAIN WayFrom(h, cs) |-> cs[WayFrom(h, cs)[i]].data]

nodes == [c \in Chans |-> ListFrom(head[c], cells[c])]

Node == [data : Values \cup {Null}, next : Nat]

TypeOK == /\ head   \in [Chans -> Nat]
          /\ tail   \in [Chans -> Nat]
          /\ cells  \in [Chans -> Seq(Node)]
          /\ count  \in [Chans -> Int]
          /\ closed \in [Chans -> BOOLEAN]
          /\ pc     \in [Threads -> Labels]
          /\ on     \in [Threads -> Chans \cup {Null}]
          /\ sel    \in [Threads -> Selects \cup {<< >>}]
          /\ idx    \in [Threads -> Nat]
          /\ loops  \in [Threads -> 0 .. MaxPolls - 1]
          /\ out    \in [Threads -> Values \cup {Null}]
          /\ which  \in [Threads -> Int]
          /\ sent   \in [Chans -> Seq(Values)]
          /\ taken  \in [Chans -> Seq(Values)]
          /\ \A t \in Threads : pc[t] \in {"poll", "chosen"} => idx[t] \in DOMAIN sel[t]

\* The count field is the length of the list, whatever order sends, receives
\* and selects took the mutex in.
CountMatches == \A c \in Chans : count[c] = Len(nodes[c])

\* No accepted value is lost, duplicated or reordered by the pointers that send
\* and recv move: what was received, then what is reached from head, is what was
\* sent.
Fifo == \A c \in Chans : sent[c] = taken[c] \o nodes[c]

\* send signals recv_cv once per value and recv re-tests its condition in a
\* loop, so nobody sleeps beside a value that no woken thread is coming for,
\* nor on a closed channel.
WakeupComing(c) == Parked(c) # {} => /\ ~closed[c]
                                     /\ Len(nodes[c]) <= Cardinality(Woken(c))

NoLostWakeup == \A c \in Chans : WakeupComing(c)

\* A value is refused for good once close has returned, also by a select that
\* chose its send case before the close.
NothingAcceptedAfterClose ==
    [][\A c \in Chans : closed[c] => closed'[c] /\ sent'[c] = sent[c]]_vars

\* The runtime implements unbounded FIFO channels: parking, waking, spurious
\* wakeups and polling are invisible.
Promise == INSTANCE Channel WITH queue <- nodes, got <- out
Implements == Promise!Spec

Waiting(c) == Parked(c) \cup Woken(c)

\* A value sent to a channel that threads wait on is received.
ValueReachesWaiter ==
    \A c \in Chans : \A n \in 0 .. MaxSends :
        (Len(taken[c]) = n /\ nodes[c] # << >> /\ Waiting(c) # {}) ~> Len(taken[c]) > n

\* close releases every thread waiting in recv on the channel.
CloseReleases ==
    \A c \in Chans, t \in Threads : (closed[c] /\ t \in Waiting(c)) ~> pc[t] = "idle"

\* A select that starts a round of polling when one of its channels is already
\* closed does not give up: it chooses that case or another.
SelectSeesClosed ==
    \A t \in Threads, c \in Chans :
        (/\ pc[t] = "poll" /\ idx[t] = 1
         /\ closed[c]
         /\ \E i \in DOMAIN sel[t] : sel[t][i].ch = c) ~> pc[t] = "chosen"

=============================================================================
