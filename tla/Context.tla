------------------------------ MODULE Context ------------------------------
(***************************************************************************)
(* std/context.skink: trees of contexts, cancelled by a flag that Done()    *)
(* reads and by a channel that is closed, with a thread per context that    *)
(* propagates the close and a thread per deadline.  The threads select over *)
(* the channels of Chan, which this module extends: a channel is named by   *)
(* the context it was made for, and only ever closed.                       *)
(*                                                                          *)
(* A definition whose name starts with Mut is a broken version of the one   *)
(* after it, used to test that a property notices; no specification uses it.*)
(***************************************************************************)
EXTENDS Chan

CONSTANTS Users,        \* the program's threads
          Ctxs,         \* the contexts, Root included
          Root,         \* the result of Background()
          CancelKinds,  \* the kinds of context the program calls Cancel on
          MaxTime       \* bound on the clock; deadlines are in 1 .. MaxTime

Propagator(x) == <<"propagate", x>>
Timer(x)      == <<"timeout_worker", x>>
Workers       == {"propagate", "timeout_worker"} \X Ctxs

Receive(c) == [ch |-> c, send |-> FALSE, val |-> Null]

ASSUME ContextAssumption ==
    /\ Root \in Ctxs
    /\ Null \notin Ctxs
    /\ Chans = Ctxs
    /\ Threads = Users \cup Workers
    /\ Selects = {<<Receive(c)>> : c \in Ctxs} \cup {<<Receive(c), Receive(d)>> : c, d \in Ctxs}
    /\ "none" \notin CancelKinds
    /\ MaxTime \in Nat

VARIABLES
    kind,        \* kind[x]: how context x was made, or "none"
    parent,      \* parent[x]: its parent pointer, or Null
    done,        \* done[x]: its done flag
    doneCh,      \* doneCh[x]: its done channel
    deadline,    \* deadline[x]: of a DeadlineContext; 0 otherwise
    work,        \* work[w]: where worker thread w is in its function
    testing,     \* testing[u]: the context whose flag u, in Cancel, found unset, or Null
    cancelling,  \* cancelling[u]: the context whose flag u has set and whose channel it
                 \* has yet to close, or Null
    now          \* the clock

ctxVars  == <<kind, parent, done, doneCh, deadline>>
treeVars == <<ctxVars, work, testing, cancelling, now>>
allVars  == <<vars, treeVars>>

Kinds  == {"none", "background", "cancel", "value", "deadline"}
Points == {"off", "created", "select", "check", "over"}

CtxInit == /\ Init
           /\ kind       = [x \in Ctxs |-> IF x = Root THEN "background" ELSE "none"]
           /\ parent     = [x \in Ctxs |-> Null]
           /\ done       = [x \in Ctxs |-> FALSE]
           /\ doneCh     = [x \in Ctxs |-> x]
           /\ deadline   = [x \in Ctxs |-> 0]
           /\ work       = [w \in Workers |-> "off"]
           /\ testing    = [u \in Users |-> Null]
           /\ cancelling = [u \in Users |-> Null]
           /\ now        = 0

-----------------------------------------------------------------------------
(* The constructors.                                                          *)

\* A fresh context x below p, with the given channel, deadline and workers.
NewChild(p, x, k, ch, dl, W) ==
    /\ kind[p] # "none" /\ kind[x] = "none"
    /\ kind'     = [kind EXCEPT ![x] = k]
    /\ parent'   = [parent EXCEPT ![x] = p]
    /\ doneCh'   = [doneCh EXCEPT ![x] = ch]
    /\ deadline' = [deadline EXCEPT ![x] = dl]
    /\ work'     = [w \in Workers |-> IF w \in W THEN "created" ELSE work[w]]
    /\ UNCHANGED <<vars, done, testing, cancelling, now>>

WithCancel(p, x) == NewChild(p, x, "cancel", x, 0, {Propagator(x)})

WithValue(p, x) == NewChild(p, x, "value", doneCh[p], 0, {})

WithDeadline(p, x, dl) == NewChild(p, x, "deadline", x, dl, {Propagator(x), Timer(x)})

-----------------------------------------------------------------------------
(* Cancel tests the flag, sets it and closes the channel; no lock covers the  *)
(* three, so other threads, also in Cancel of the same context, run between.  *)

CancelTest(u, x) == /\ pc[u] = "idle" /\ testing[u] = Null /\ cancelling[u] = Null
                    /\ kind[x] \in CancelKinds
                    /\ ~done[x]
                    /\ testing' = [testing EXCEPT ![u] = x]
                    /\ UNCHANGED <<vars, ctxVars, work, cancelling, now>>

CancelFlag(u) == /\ testing[u] # Null
                 /\ done' = [done EXCEPT ![testing[u]] = TRUE]
                 /\ cancelling' = [cancelling EXCEPT ![u] = testing[u]]
                 /\ testing' = [testing EXCEPT ![u] = Null]
                 /\ UNCHANGED <<vars, kind, parent, doneCh, deadline, work, now>>

MutCancelClose(u) == /\ cancelling[u] # Null
                     /\ cancelling' = [cancelling EXCEPT ![u] = Null]
                     /\ UNCHANGED <<vars, ctxVars, work, testing, now>>

CancelClose(u) == /\ cancelling[u] # Null
                  /\ Close(u, doneCh[cancelling[u]])
                  /\ cancelling' = [cancelling EXCEPT ![u] = Null]
                  /\ UNCHANGED <<ctxVars, work, testing, now>>

-----------------------------------------------------------------------------
(* The worker threads.                                                        *)

Goto(w, p) == work' = [work EXCEPT ![w] = p] /\ UNCHANGED <<ctxVars, testing, cancelling, now>>

\* A step of the select that worker w is in.
InSelect(w) == /\ work[w] = "select"
               /\ Progress(w)
               /\ UNCHANGED treeVars

\* propagate(p, c) waits for the channel of the parent or its own ...
PropagateSelect(x) ==
    /\ work[Propagator(x)] = "created"
    /\ SelectStart(Propagator(x), <<Receive(doneCh[parent[x]]), Receive(doneCh[x])>>)
    /\ Goto(Propagator(x), "select")

MutPropagateCase(x) == LET w == Propagator(x) IN
    /\ work[w] = "select" /\ pc[w] = "idle"
    /\ IF which[w] = 2 THEN Close(w, doneCh[parent[x]]) ELSE UNCHANGED vars
    /\ Goto(w, "over")

MutPropagateAgain(x) == LET w == Propagator(x) IN
    /\ work[w] = "select" /\ pc[w] = "idle"
    /\ IF which[w] = 1 THEN Close(w, doneCh[x]) ELSE UNCHANGED vars
    /\ Goto(w, IF which[w] = -1 THEN "created" ELSE "over")

MutPropagateQuits(x) == LET w == Propagator(x) IN
    /\ work[w] = "select" /\ pc[w] = "idle"
    /\ UNCHANGED vars
    /\ Goto(w, "over")

\* ... and ends when its select does: by case 1, by case 2, or by giving up.
PropagateCase(x) == LET w == Propagator(x) IN
    /\ work[w] = "select" /\ pc[w] = "idle"
    /\ IF which[w] = 1 THEN Close(w, doneCh[x]) ELSE UNCHANGED vars
    /\ Goto(w, "over")

\* timeout_worker(c, deadline): one round of its loop.
TimerSelect(x) == /\ work[Timer(x)] = "created"
                  /\ SelectStart(Timer(x), <<Receive(doneCh[x])>>)
                  /\ Goto(Timer(x), "select")

TimerCase(x) == LET w == Timer(x) IN
    /\ work[w] = "select" /\ pc[w] = "idle"
    /\ UNCHANGED vars
    /\ Goto(w, IF which[w] = 1 THEN "over" ELSE "check")

MutTimerOnce(x) == LET w == Timer(x) IN
    /\ work[w] = "check"
    /\ IF now >= deadline[x] THEN Close(w, doneCh[x]) ELSE UNCHANGED vars
    /\ Goto(w, "over")

\* The deadline has passed, or the worker sleeps 10ms and loops.
TimerCheck(x) == LET w == Timer(x) IN
    /\ work[w] = "check"
    /\ IF now >= deadline[x] THEN Close(w, doneCh[x]) /\ Goto(w, "over")
                             ELSE UNCHANGED vars /\ Goto(w, "created")

Tick == /\ now < MaxTime
        /\ now' = now + 1
        /\ UNCHANGED <<vars, ctxVars, work, testing, cancelling>>

-----------------------------------------------------------------------------

Construct == \E p, x \in Ctxs : \/ WithCancel(p, x)
                                \/ WithValue(p, x)
                                \/ \E dl \in 1 .. MaxTime : WithDeadline(p, x, dl)

Work(x) == \/ PropagateSelect(x) \/ InSelect(Propagator(x)) \/ PropagateCase(x)
           \/ TimerSelect(x) \/ InSelect(Timer(x)) \/ TimerCase(x) \/ TimerCheck(x)

CtxNext == \/ Construct
           \/ \E u \in Users : \/ \E x \in Ctxs : CancelTest(u, x)
                              \/ CancelFlag(u)
                              \/ CancelClose(u)
           \/ \E x \in Ctxs : Work(x)
           \/ Tick

CtxSpec == CtxInit /\ [][CtxNext]_allVars

\* Spawned threads run, Cancel returns, and time passes.
CtxFairSpec ==
    /\ CtxSpec
    /\ \A x \in Ctxs : /\ WF_allVars(PropagateSelect(x) \/ InSelect(Propagator(x)) \/ PropagateCase(x))
                       /\ WF_allVars(TimerSelect(x) \/ InSelect(Timer(x)) \/ TimerCase(x) \/ TimerCheck(x))
    /\ \A u \in Users : WF_allVars(CancelFlag(u) \/ CancelClose(u))
    /\ WF_allVars(Tick)

-----------------------------------------------------------------------------
(* Properties                                                                 *)

\* x and its ancestors.
Lineage(x) == {y \in Ctxs : \A S \in SUBSET Ctxs :
                  (x \in S /\ \A z \in S : parent[z] \in Ctxs => parent[z] \in S) => y \in S}

\* Context.Done walks the parent pointers.
Done(x) == \E y \in Lineage(x) : done[y]

\* The second test of DeadlineContext.Done.
Expired(x) == kind[x] = "deadline" /\ now >= deadline[x]

\* A context that uses the channel of x, or of an ancestor, was cancelled or expired.
HasCause(x) == \E y \in Lineage(x), z \in Ctxs :
                  doneCh[z] = doneCh[y] /\ (done[z] \/ Expired(z))

\* Cancellation flows down only: the channel of a context is closed only when a
\* context that uses it, or the channel of an ancestor, was cancelled or expired.
ClosedHasCause == \A x \in Ctxs : closed[doneCh[x]] => HasCause(x)

\* A parent that is closed while propagate is at the start of a round of its
\* select closes the child.
WatchedParentCloses ==
    \A x \in Ctxs :
        (/\ pc[Propagator(x)] = "poll" /\ idx[Propagator(x)] = 1
         /\ closed[doneCh[parent[x]]]) ~> closed[doneCh[x]]

\* Cancel closes the context's own channel.
CancelClosesOwn == \A x \in Ctxs : done[x] ~> closed[doneCh[x]]

\* A deadline closes the channel, whoever polls and gives up in between.
DeadlineCloses == \A x \in Ctxs : (kind[x] = "deadline") ~> closed[doneCh[x]]

\* No worker thread outlives its context's use: each one ends.
WorkersEnd == \A w \in Workers : (work[w] # "off") ~> (work[w] = "over")

\* DoneChan: "returns a channel that is closed when the context is cancelled",
\* also when the context is cancelled through its parent.
AncestorCancelReaches == \A x \in Ctxs : Done(x) ~> closed[doneCh[x]]

=============================================================================
