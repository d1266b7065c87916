---------------------------- MODULE FutureProofs ----------------------------
(***************************************************************************)
(* Proofs about Future for any calls, values and threads: awaits return     *)
(* results, nobody sleeps on a set future, and awaits form no cycle but     *)
(* through a future that was stored where any thread can read it.           *)
(*                                                                          *)
(* That other awaits form no cycle rests on Acyclic, which speaks of what   *)
(* threads hold and not of what they await: in every set of calls one holds *)
(* no future of the set.  A launch gives the new call futures its maker holds, *)
(* and gives the maker the new future; the new call is the witness for the  *)
(* sets whose witness was the maker.                                        *)
(***************************************************************************)
EXTENDS Future, TLAPS

\* A future that is set carries the result of a call that is over, and what
\* was got from it was got after it was set.
Settled == /\ \A k \in Async : task[k] \in {"returned", "over"} => result[k] \in Values
           /\ \A k \in Calls : ready[k] => task[k] = "over" /\ value[k] = result[k]
           /\ \A t \in Threads : \A r \in got[t] : ready[r[1]] /\ r[2] = result[r[1]]

\* Only futures of launched calls are held or shared, held only by launched calls,
\* and a launched thread awaits one it holds or one that is shared.
Held == /\ \A k \in Calls : task[k] = "unborn" => holds[k] = {} /\ waits[k] = "no"
        /\ \A t \in Threads : \A k \in holds[t] : task[k] # "unborn"
        /\ \A k \in shared : task[k] # "unborn"
        /\ \A t \in Threads : waits[t] # "no" => on[t] \in holds[t] \cup shared

Acyclic == \A S \in SUBSET Calls : S # {} => \E t \in S : holds[t] \cap S = {}

IInv == TypeOK /\ Settled /\ Held /\ Acyclic /\ NoSleeperOnReady

LEMMA InitIInv == Init => IInv
<1> SUFFICES ASSUME Init PROVE IInv
  OBVIOUS
<1>1. TypeOK
  BY DEF Init, TypeOK, Stages
<1>2. Settled /\ Held /\ NoSleeperOnReady
  BY FutureAssumption DEF Init, Settled, Held, NoSleeperOnReady, Threads
<1>3. Acyclic
  <2> SUFFICES ASSUME NEW S \in SUBSET Calls, S # {} PROVE \E t \in S : holds[t] \cap S = {}
    BY DEF Acyclic
  <2>1. PICK t \in S : TRUE
    OBVIOUS
  <2>2. holds[t] = {}
    BY <2>1 DEF Init, Threads
  <2> QED
    BY <2>1, <2>2
<1> QED
  BY <1>1, <1>2, <1>3 DEF IInv

\* The launch of k by t, as the proofs use it: k is new, t runs, and only the
\* maker and the new call hold anything more.
LEMMA LaunchHolds ==
  ASSUME TypeOK, NEW t \in Threads, NEW k \in Calls, NEW H \in SUBSET holds[t], Launch(t, k, H)
  PROVE  /\ task[k] = "unborn" /\ t # k /\ k \in Threads
         /\ t # Main => task[t] = "running"
         /\ task' \in [Calls -> Stages]
         /\ task'[k] # "unborn"
         /\ \A c \in Calls \ {k} : task'[c] = task[c]
         /\ holds' \in [Threads -> SUBSET Async]
         /\ holds'[k] = H
         /\ holds'[t] \in {holds[t], holds[t] \cup {k}}
         /\ \A u \in Threads \ {t, k} : holds'[u] = holds[u]
         /\ UNCHANGED <<value, ready, shared, result, waits, on, got>>
<1> USE FutureAssumption
<1>1. SkinkSpawn(t, k, H)
  BY DEF Launch, SpawnStmt, AsyncExpr
<1>2. task[k] = "unborn" /\ t # k /\ k \in Threads /\ (t # Main => task[t] = "running")
  BY <1>1 DEF SkinkSpawn, Runs, Threads
<1>3. /\ task' \in [Calls -> Stages] /\ task'[k] # "unborn"
      /\ \A c \in Calls \ {k} : task'[c] = task[c]
  BY <1>1 DEF SkinkSpawn, TypeOK, Stages
<1>4. CASE SpawnStmt(t, k, H)
  BY <1>1, <1>2, <1>3, <1>4 DEF SpawnStmt, SkinkSpawn, TypeOK
<1>5. CASE AsyncExpr(t, k, H)
  BY <1>1, <1>2, <1>3, <1>5 DEF AsyncExpr, SkinkSpawn, TypeOK
<1> QED
  BY <1>4, <1>5 DEF Launch

\* Every step keeps the types.
LEMMA TypeStep == TypeOK /\ Settled /\ Held /\ [Next]_vars => TypeOK'
<1> SUFFICES ASSUME TypeOK, Settled, Held, [Next]_vars PROVE TypeOK'
  OBVIOUS
<1>1. ASSUME NEW t \in Threads, NEW k \in Calls, NEW H \in SUBSET holds[t], Launch(t, k, H) PROVE TypeOK'
  BY <1>1, LaunchHolds DEF TypeOK
<1>2. ASSUME NEW t \in Threads, NEW k \in Async, GetBody(t, k) PROVE TypeOK'
  <2>1. CASE ready[k]
    <3>1. value[k] \in Values
      BY <2>1, FutureAssumption DEF Settled
    <3> QED
      BY <1>2, <2>1, <3>1 DEF TypeOK, GetBody
  <2>2. CASE ~ready[k]
    BY <1>2, <2>2 DEF TypeOK, GetBody
  <2> QED
    BY <2>1, <2>2
<1>3. ASSUME NEW t \in Threads, Spurious(t) PROVE TypeOK'
  BY <1>3 DEF Spurious, TypeOK
<1>4. ASSUME NEW k \in Calls, Start(k) PROVE TypeOK'
  BY <1>4 DEF Start, TypeOK, Stages
<1>5. ASSUME NEW k \in Calls, NEW v \in Values \cup {Null}, Return(k, v) PROVE TypeOK'
  BY <1>5 DEF Return, TypeOK, Stages
<1>6. ASSUME NEW k \in Calls, Publish(k) PROVE TypeOK'
  BY <1>6 DEF Publish, TypeOK, Stages
<1>7. ASSUME NEW t \in Threads, NEW k \in Calls, Share(t, k) PROVE TypeOK'
  BY <1>7 DEF Share, TypeOK
<1>8. CASE UNCHANGED vars
  BY <1>8 DEF vars, TypeOK
<1> QED
  BY <1>1, <1>2, <1>3, <1>4, <1>5, <1>6, <1>7, <1>8 DEF Next, Work, Await, Resume, TypeOK, Held

\* A future is set once, after its function has returned, and read after that.
LEMMA SettledStep == TypeOK /\ Settled /\ Held /\ [Next]_vars => Settled'
<1> SUFFICES ASSUME TypeOK, Settled, Held, [Next]_vars PROVE Settled'
  OBVIOUS
<1>1. ASSUME NEW t \in Threads, NEW k \in Calls, NEW H \in SUBSET holds[t], Launch(t, k, H) PROVE Settled'
  <2>1. ~ready[k]
    BY <1>1, LaunchHolds DEF Settled
  <2>2. task'[k] \in {"created", "lost"}
    BY <1>1 DEF Launch, SpawnStmt, AsyncExpr, SkinkSpawn, TypeOK
  <2> QED
    BY <1>1, <2>1, <2>2, LaunchHolds, FutureAssumption DEF Settled
<1>2. ASSUME NEW t \in Threads, NEW k \in Async, GetBody(t, k) PROVE Settled'
  <2>1. CASE ready[k]
    <3>1. \A u \in Threads : \A r \in got'[u] : r \in got[u] \/ r = <<k, value[k]>>
      BY <1>2, <2>1 DEF GetBody, TypeOK
    <3>2. value[k] = result[k]
      BY <2>1, FutureAssumption DEF Settled
    <3> QED
      BY <1>2, <2>1, <3>1, <3>2 DEF GetBody, Settled
  <2>2. CASE ~ready[k]
    BY <1>2, <2>2 DEF GetBody, Settled
  <2> QED
    BY <2>1, <2>2
<1>3. ASSUME NEW t \in Threads, Spurious(t) PROVE Settled'
  BY <1>3 DEF Spurious, Settled
<1>4. ASSUME NEW k \in Calls, Start(k) PROVE Settled'
  BY <1>4 DEF Start, Settled, TypeOK
<1>5. ASSUME NEW k \in Calls, NEW v \in Values \cup {Null}, Return(k, v) PROVE Settled'
  <2>1. ~ready[k]
    BY <1>5 DEF Return, Settled
  <2>2. \A t \in Threads : \A r \in got[t] : r[1] # k /\ r[1] \in Calls
    BY <2>1, FutureAssumption DEF Settled, TypeOK
  <2>3. \A c \in Calls \ {k} : task'[c] = task[c] /\ result'[c] = result[c]
    BY <1>5 DEF Return, TypeOK
  <2>4. result'[k] = v
    BY <1>5 DEF Return, TypeOK
  <2>5. UNCHANGED <<ready, value, got>>
    BY <1>5 DEF Return
  <2>6. k \in Async => v \in Values
    BY <1>5, FutureAssumption DEF Return
  <2> QED
    BY <2>1, <2>2, <2>3, <2>4, <2>5, <2>6, FutureAssumption DEF Settled
<1>6. ASSUME NEW k \in Calls, Publish(k) PROVE Settled'
  BY <1>6, FutureAssumption DEF Publish, Settled, TypeOK
<1>7. ASSUME NEW t \in Threads, NEW k \in Calls, Share(t, k) PROVE Settled'
  BY <1>7 DEF Share, Settled
<1>8. CASE UNCHANGED vars
  BY <1>8 DEF vars, Settled
<1> QED
  BY <1>1, <1>2, <1>3, <1>4, <1>5, <1>6, <1>7, <1>8 DEF Next, Work, Await, Resume, TypeOK, Held

\* A launch passes on futures that were held, and the one it has just made.
LEMMA HeldStep == TypeOK /\ Held /\ [Next]_vars => Held'
<1> SUFFICES ASSUME TypeOK, Held, [Next]_vars PROVE Held'
  OBVIOUS
<1>1. ASSUME NEW t \in Threads, NEW k \in Calls, NEW H \in SUBSET holds[t], Launch(t, k, H) PROVE Held'
  <2>1. \A u \in Threads : holds'[u] \subseteq holds[u] \cup H \cup {k}
    BY <1>1, LaunchHolds
  <2>2. \A u \in Threads \ {k} : holds[u] \subseteq holds'[u]
    BY <1>1, LaunchHolds
  <2>3. \A c \in Calls : task[c] # "unborn" => task'[c] # "unborn"
    BY <1>1, LaunchHolds
  <2>4. waits[k] = "no"
    BY <1>1, LaunchHolds DEF Held, TypeOK
  <2>5. \A c \in Calls : task'[c] = "unborn" => holds'[c] = {} /\ waits'[c] = "no"
    BY <1>1, LaunchHolds, FutureAssumption DEF Held, Threads
  <2>8. \A c \in shared' : task'[c] # "unborn"
    BY <1>1, <2>3, LaunchHolds, FutureAssumption DEF Held, TypeOK
  <2>6. \A u \in Threads : \A c \in holds'[u] : task'[c] # "unborn"
    BY <1>1, <2>1, <2>3, LaunchHolds, FutureAssumption DEF Held, TypeOK
  <2>7. \A u \in Threads : waits'[u] # "no" => on'[u] \in holds'[u] \cup shared'
    BY <1>1, <2>2, <2>4, LaunchHolds DEF Held
  <2> QED
    BY <2>5, <2>6, <2>7, <2>8 DEF Held
<1>2. ASSUME NEW t \in Threads, NEW k \in holds[t] \cup shared, GetBody(t, k),
             t \in Calls => task[t] # "unborn"
      PROVE  Held'
  <2>1. \A u \in Threads \ {t} : waits'[u] = waits[u] /\ on'[u] = on[u]
    BY <1>2 DEF GetBody, TypeOK
  <2>2. waits'[t] # "no" => on'[t] = k
    BY <1>2 DEF GetBody, TypeOK
  <2>3. UNCHANGED <<task, holds, shared>>
    BY <1>2 DEF GetBody
  <2>4. Calls \subseteq Threads
    BY DEF Threads
  <2> QED
    BY <1>2, <2>1, <2>2, <2>3, <2>4 DEF Held
<1>3. ASSUME NEW t \in Threads, Spurious(t) PROVE Held'
  BY <1>3 DEF Spurious, Held, TypeOK
<1>4. ASSUME NEW k \in Calls, Work(k) PROVE Held'
  <2>1. /\ task[k] # "unborn" /\ task'[k] # "unborn"
        /\ \A c \in Calls \ {k} : task'[c] = task[c]
    BY <1>4 DEF Work, Start, Return, Publish, TypeOK
  <2>2. \A t \in Threads : waits'[t] = "no" <=> waits[t] = "no"
    BY <1>4 DEF Work, Start, Return, Publish, Parked
  <2>3. UNCHANGED <<holds, shared, on>>
    BY <1>4 DEF Work, Start, Return, Publish
  <2>4. Calls \subseteq Threads /\ Async \subseteq Calls
    BY FutureAssumption DEF Threads
  <2>5. holds \in [Threads -> SUBSET Async] /\ shared \subseteq Async
    BY DEF TypeOK
  <2> QED
    BY <2>1, <2>2, <2>3, <2>4, <2>5 DEF Held
<1>5. ASSUME NEW t \in Threads, NEW k \in Calls, Share(t, k) PROVE Held'
  BY <1>5 DEF Share, Held, TypeOK
<1>6. CASE UNCHANGED vars
  BY <1>6 DEF vars, Held
<1>7. ASSUME NEW t \in Threads, Runs(t) \/ waits[t] = "woken" PROVE t \in Calls => task[t] # "unborn"
  BY <1>7, FutureAssumption DEF Runs, Held
<1> QED
  BY <1>7, <1>1, <1>2, <1>3, <1>4, <1>5, <1>6 DEF Next, Await, Resume, Held

\* In a set that holds the new call k, the witness is that of the set without k,
\* or k itself when that witness is the maker, which holds all that k does.
LEMMA AcyclicStep == TypeOK /\ Held /\ Acyclic /\ [Next]_vars => Acyclic'
<1> SUFFICES ASSUME TypeOK, Held, Acyclic, [Next]_vars PROVE Acyclic'
  OBVIOUS
<1>1. ASSUME NEW t \in Threads, NEW k \in Calls, NEW H \in SUBSET holds[t], Launch(t, k, H) PROVE Acyclic'
  <2> SUFFICES ASSUME NEW S \in SUBSET Calls, S # {} PROVE \E u \in S : holds'[u] \cap S = {}
    BY DEF Acyclic
  <2>1. \A u \in Threads : k \notin holds[u]
    BY <1>1, LaunchHolds DEF Held
  <2>2. CASE k \notin S
    <3>1. PICK u \in S : holds[u] \cap S = {}
      BY DEF Acyclic
    <3>2. holds'[u] \subseteq holds[u] \cup {k}
      BY <1>1, <2>2, <3>1, LaunchHolds DEF Threads
    <3> QED
      BY <2>2, <3>1, <3>2
  <2>3. CASE S = {k}
    BY <1>1, <2>1, <2>3, LaunchHolds
  <2>4. CASE k \in S /\ S # {k}
    <3>1. PICK u \in S \ {k} : holds[u] \cap (S \ {k}) = {}
      <4>1. S \ {k} \in SUBSET Calls /\ S \ {k} # {}
        BY <2>4
      <4> QED
        BY <4>1 DEF Acyclic
    <3>2. k \notin holds[u] /\ u \in Threads
      BY <2>1, <3>1 DEF Threads
    <3>3. CASE u = t
      <4>1. holds'[k] \cap S = {}
        BY <1>1, <2>1, <3>1, <3>3, LaunchHolds
      <4> QED
        BY <2>4, <4>1
    <3>4. CASE u # t
      BY <1>1, <3>1, <3>2, <3>4, LaunchHolds
    <3> QED
      BY <3>3, <3>4
  <2> QED
    BY <2>2, <2>3, <2>4
<1>2. ASSUME UNCHANGED holds PROVE Acyclic'
  BY <1>2 DEF Acyclic
<1> QED
  BY <1>1, <1>2 DEF Next, Work, Await, Resume, GetBody, Spurious, Start, Return, Publish, Share, vars

\* future_set wakes everybody who sleeps on the future, and get tests before it
\* sleeps.
LEMMA SleeperStep == TypeOK /\ Held /\ NoSleeperOnReady /\ [Next]_vars => NoSleeperOnReady'
<1> SUFFICES ASSUME TypeOK, Held, NoSleeperOnReady, [Next]_vars PROVE NoSleeperOnReady'
  OBVIOUS
<1>1. ASSUME NEW t \in Threads, NEW k \in Calls, NEW H \in SUBSET holds[t], Launch(t, k, H) PROVE NoSleeperOnReady'
  BY <1>1, LaunchHolds DEF NoSleeperOnReady
<1>2. ASSUME NEW t \in Threads, NEW k \in Async, GetBody(t, k) PROVE NoSleeperOnReady'
  BY <1>2 DEF GetBody, NoSleeperOnReady, TypeOK
<1>3. ASSUME NEW t \in Threads, Spurious(t) PROVE NoSleeperOnReady'
  BY <1>3 DEF Spurious, NoSleeperOnReady, TypeOK
<1>4. ASSUME NEW k \in Calls, Publish(k) PROVE NoSleeperOnReady'
  <2>1. CASE k \in Async
    <3> SUFFICES ASSUME NEW t \in Threads, waits'[t] = "parked" PROVE ~ready'[on'[t]]
      BY DEF NoSleeperOnReady
    <3>1. waits[t] = "parked" /\ on[t] # k /\ on'[t] = on[t]
      BY <1>4, <2>1 DEF Publish, Parked, TypeOK
    <3>2. on[t] \in Calls
      BY <3>1, FutureAssumption DEF Held, TypeOK
    <3> QED
      BY <1>4, <2>1, <3>1, <3>2 DEF Publish, NoSleeperOnReady, TypeOK
  <2>2. CASE k \notin Async
    BY <1>4, <2>2 DEF Publish, NoSleeperOnReady
  <2> QED
    BY <2>1, <2>2
<1>5. ASSUME UNCHANGED <<ready, waits, on>> PROVE NoSleeperOnReady'
  BY <1>5 DEF NoSleeperOnReady
<1> QED
  BY <1>1, <1>2, <1>3, <1>4, <1>5 DEF Next, Work, Await, Resume, Start, Return, Share, vars, Held, TypeOK

LEMMA Inductive == Spec => []IInv
<1>1. IInv /\ [Next]_vars => IInv'
  BY TypeStep, SettledStep, HeldStep, AcyclicStep, SleeperStep DEF IInv
<1> QED
  BY InitIInv, <1>1, PTL DEF Spec

-----------------------------------------------------------------------------

\* Every variable of Future keeps its type.
THEOREM TypeCorrect == Spec => []TypeOK
  BY Inductive, PTL DEF IInv

\* Every await returns what the awaited function returned.
THEOREM AwaitCorrect == Spec => []AwaitReturnsResult
<1>1. IInv => AwaitReturnsResult
  BY DEF IInv, Settled, AwaitReturnsResult
<1> QED
  BY Inductive, <1>1, PTL

\* No thread sleeps on a future that is set.
THEOREM SleeperCorrect == Spec => []NoSleeperOnReady
  BY Inductive, PTL DEF IInv

\* In every set of calls that await one another some await is of a shared future,
\* whatever futures are passed on or stored and whoever launches what.
THEOREM NoDeadlock == Spec => []NoAwaitCycle
<1>1. IInv => NoAwaitCycle
  <2> SUFFICES ASSUME IInv, NEW S \in SUBSET Calls, S # {}
               PROVE  \E t \in S : \A u \in S \ shared : ~Blocks(t, u)
    BY DEF NoAwaitCycle
  <2>1. PICK t \in S : holds[t] \cap S = {}
    BY DEF IInv, Acyclic
  <2> QED
    BY <2>1 DEF IInv, Held, Blocks, Threads
<1> QED
  BY Inductive, <1>1, PTL

=============================================================================
