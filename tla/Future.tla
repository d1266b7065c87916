------------------------------- MODULE Future -------------------------------
(***************************************************************************)
(* spawn, async and await: emitSpawnStmt, emitAsyncExpr and emitAwaitExpr   *)
(* of codegen.go over Skink_spawn and Skink_future_* of conc_rt.c.          *)
(*                                                                          *)
(* Every call k made with async or spawn runs on a detached thread of its   *)
(* own, named k; Main runs main().  A thread can await the futures it holds *)
(* (those of its own async calls, and those passed to it as arguments when  *)
(* its call was made) and those that are shared: async f() has the type of  *)
(* f's result, so a program can put it in a channel, a global or a field,   *)
(* from where any thread takes it.  The function a call runs computes any   *)
(* value; a value here is what travels through the future, after the        *)
(* thunk's cast to i8* and before the cast back.                            *)
(*                                                                          *)
(* A definition whose name starts with Mut is a broken version of the one   *)
(* after it, used to test that a property notices; no specification uses it.*)
(***************************************************************************)
EXTENDS Naturals, FiniteSets

CONSTANTS Main,           \* the thread of main()
          Calls,          \* the calls made with async or spawn
          Async,          \* those made with async: they have a future
          Values,         \* the results of the functions, as i8*
          Null,           \* a null i8*
          Returns,        \* Returns[k]: what the thunk of call k may return
          CreateMayFail   \* can pthread_create fail?

ASSUME FutureAssumption == /\ Async \subseteq Calls
                           /\ Main \notin Calls
                           /\ Null \notin Values
                           /\ Returns \in [Calls -> SUBSET (Values \cup {Null})]
                           /\ \A k \in Calls : Null \in Returns[k] => k \notin Async
                           /\ CreateMayFail \in BOOLEAN

Threads == Calls \cup {Main}

VARIABLES
    task,     \* task[k]: how far the thread of call k has come
    value,    \* value[k]: the value field of the future of k
    ready,    \* ready[k]: its ready field
    holds,    \* holds[t]: the calls whose futures t made or was called with
    shared,   \* the calls whose futures a thread has stored for all to read
    result,   \* result[k]: what the thunk of k returned
    waits,    \* waits[t]: "no", "parked" in pthread_cond_wait, or "woken"
    on,       \* on[t]: the future t awaits, while it waits
    got       \* got[t]: the futures t has awaited, with what await returned

vars == <<task, value, ready, holds, shared, result, waits, on, got>>

\* "lost": pthread_create failed, and nobody looked at its return value.
Stages == {"unborn", "lost", "created", "running", "returned", "over"}

Init == /\ task   = [k \in Calls |-> "unborn"]
        /\ value  = [k \in Calls |-> Null]
        /\ ready  = [k \in Calls |-> FALSE]
        /\ holds  = [t \in Threads |-> {}]
        /\ shared = {}
        /\ result = [k \in Calls |-> Null]
        /\ waits  = [t \in Threads |-> "no"]
        /\ on     = [t \in Threads |-> Null]
        /\ got    = [t \in Threads |-> {}]

\* t executes program code: it is not inside the runtime.
Runs(t) == /\ t # Main => task[t] = "running"
           /\ waits[t] = "no"

-----------------------------------------------------------------------------
(* spawn k(...) and async k(...) make an argument struct, which holds the     *)
(* futures H that t passes on (a shared one need not be), and call            *)
(* Skink_spawn; async makes the future first and hands it to t when the       *)
(* thread has been created.                                                   *)

SkinkSpawn(t, k, H) ==
    /\ Runs(t)
    /\ task[k] = "unborn"
    /\ H \subseteq holds[t]
    /\ \/ task' = [task EXCEPT ![k] = "created"]
       \/ CreateMayFail /\ task' = [task EXCEPT ![k] = "lost"]
    /\ UNCHANGED <<value, ready, shared, result, waits, on, got>>

SpawnStmt(t, k, H) == /\ k \notin Async
                      /\ SkinkSpawn(t, k, H)
                      /\ holds' = [holds EXCEPT ![k] = H]

MutAsyncExpr(t, k, H) == /\ k \in Async
                         /\ SkinkSpawn(t, k, H)
                         /\ holds' = [holds EXCEPT ![k] = H \cup {k}, ![t] = @ \cup {k}]

AsyncExpr(t, k, H) == /\ k \in Async
                      /\ SkinkSpawn(t, k, H)
                      /\ holds' = [holds EXCEPT ![k] = H, ![t] = @ \cup {k}]

Launch(t, k, H) == SpawnStmt(t, k, H) \/ AsyncExpr(t, k, H)

\* t stores the future of k where other threads read it.
Share(t, k) == /\ Runs(t)
               /\ k \in holds[t]
               /\ shared' = shared \cup {k}
               /\ UNCHANGED <<task, value, ready, holds, result, waits, on, got>>

\* The trampoline calls the thunk, which unpacks the struct.
Start(k) == /\ task[k] = "created"
            /\ task' = [task EXCEPT ![k] = "running"]
            /\ UNCHANGED <<value, ready, holds, shared, result, waits, on, got>>

\* The function returns and the thunk frees the struct.  A thunk of async returns
\* the result v, cast to i8*; one of spawn drops it and returns null.
Return(k, v) == /\ task[k] = "running"
                /\ Runs(k)
                /\ v \in Returns[k]
                /\ result' = [result EXCEPT ![k] = v]
                /\ task'   = [task EXCEPT ![k] = "returned"]
                /\ UNCHANGED <<value, ready, holds, shared, waits, on, got>>

Parked(k) == {t \in Threads : waits[t] = "parked" /\ on[t] = k}

MutPublish(k) ==
    /\ task[k] = "returned"
    /\ task' = [task EXCEPT ![k] = "over"]
    /\ IF k \in Async
       THEN /\ value' = [value EXCEPT ![k] = result[k]]
            /\ ready' = [ready EXCEPT ![k] = TRUE]
            /\ \E W \in IF Parked(k) = {} THEN {{}} ELSE {{u} : u \in Parked(k)} :
                  waits' = [t \in Threads |-> IF t \in W THEN "woken" ELSE waits[t]]
       ELSE UNCHANGED <<value, ready, waits>>
    /\ UNCHANGED <<holds, shared, result, on, got>>

\* Back in the trampoline: future_set, if the call has a future, broadcasts.
Publish(k) ==
    /\ task[k] = "returned"
    /\ task' = [task EXCEPT ![k] = "over"]
    /\ IF k \in Async
       THEN /\ value' = [value EXCEPT ![k] = result[k]]
            /\ ready' = [ready EXCEPT ![k] = TRUE]
            /\ waits' = [t \in Threads |-> IF t \in Parked(k) THEN "woken" ELSE waits[t]]
       ELSE UNCHANGED <<value, ready, waits>>
    /\ UNCHANGED <<holds, shared, result, on, got>>

-----------------------------------------------------------------------------
(* await: Skink_future_get.                                                   *)

MutGetBody(t, k) ==
    /\ IF ready[k] \/ waits[t] = "woken"
       THEN /\ got'   = [got EXCEPT ![t] = @ \cup {<<k, value[k]>>}]
            /\ waits' = [waits EXCEPT ![t] = "no"]
            /\ on'    = [on EXCEPT ![t] = Null]
       ELSE /\ waits' = [waits EXCEPT ![t] = "parked"]
            /\ on'    = [on EXCEPT ![t] = k]
            /\ UNCHANGED got
    /\ UNCHANGED <<task, value, ready, holds, shared, result>>

\* One critical section: return the value, or wait once more.
GetBody(t, k) ==
    /\ IF ready[k]
       THEN /\ got'   = [got EXCEPT ![t] = @ \cup {<<k, value[k]>>}]
            /\ waits' = [waits EXCEPT ![t] = "no"]
            /\ on'    = [on EXCEPT ![t] = Null]
       ELSE /\ waits' = [waits EXCEPT ![t] = "parked"]
            /\ on'    = [on EXCEPT ![t] = k]
            /\ UNCHANGED got
    /\ UNCHANGED <<task, value, ready, holds, shared, result>>

Await(t, k) == Runs(t) /\ k \in holds[t] \cup shared /\ GetBody(t, k)

Resume(t) == waits[t] = "woken" /\ GetBody(t, on[t])

Spurious(t) == /\ waits[t] = "parked"
               /\ waits' = [waits EXCEPT ![t] = "woken"]
               /\ UNCHANGED <<task, value, ready, holds, shared, result, on, got>>

-----------------------------------------------------------------------------

Work(k) == Start(k) \/ (\E v \in Values \cup {Null} : Return(k, v)) \/ Publish(k)

Next == \/ \E t \in Threads : \/ \E k \in Calls : \/ \E H \in SUBSET holds[t] : Launch(t, k, H)
                                                  \/ Share(t, k)
                                                  \/ Await(t, k)
                              \/ Resume(t)
                              \/ Spurious(t)
        \/ \E k \in Calls : Work(k)

Spec == Init /\ [][Next]_vars

\* Threads are scheduled, and the functions that are called return unless an
\* await of theirs never does.
FairSpec == Spec /\ WF_vars(Resume(Main)) /\ \A k \in Calls : WF_vars(Resume(k) \/ Work(k))

-----------------------------------------------------------------------------
(* Properties                                                                 *)

TypeOK == /\ task   \in [Calls -> Stages]
          /\ value  \in [Calls -> Values \cup {Null}]
          /\ ready  \in [Calls -> BOOLEAN]
          /\ holds  \in [Threads -> SUBSET Async]
          /\ shared \in SUBSET Async
          /\ result \in [Calls -> Values \cup {Null}]
          /\ waits  \in [Threads -> {"no", "parked", "woken"}]
          /\ on     \in [Threads -> Async \cup {Null}]
          /\ got    \in [Threads -> SUBSET (Async \X Values)]

\* Every await of a future, by whichever thread and however often it was woken
\* for nothing, returns what the function of that call returned.
AwaitReturnsResult == \A t \in Threads : \A r \in got[t] : r[2] = result[r[1]]

\* Nobody sleeps on a future that is set, however many threads await it.
NoSleeperOnReady == \A t \in Threads : waits[t] = "parked" => ~ready[on[t]]

\* Nothing stops a program from closing a cycle of awaits through a future it has
\* stored, but nothing else closes one: a thunk has its arguments before its maker
\* has the future, so in every set of calls that await one another some await is
\* of a shared future.
Blocks(t, u) == waits[t] # "no" /\ on[t] = u
NoAwaitCycle ==
    \A S \in SUBSET Calls : S # {} => \E t \in S : \A u \in S \ shared : ~Blocks(t, u)

\* The calls of S await one another.
Circular(S) == S # {} /\ \A t \in S : \E u \in S : Blocks(t, u)

\* Nobody tells an awaiter that pthread_create failed, nor that it has closed a
\* cycle; but where neither happens every await returns.
AwaitReturns ==
    \A t \in Threads :
        waits[t] # "no" ~> \/ waits[t] = "no"
                          \/ \E k \in Calls : task[k] = "lost"
                          \/ \E S \in SUBSET Calls : Circular(S)

=============================================================================
