-------------------------------- MODULE Sync --------------------------------
(***************************************************************************)
(* std/sync's Once over its Mutex, and std/waitgroup, as one program's      *)
(* threads use one of each.  The pthread mutex and condition variable are   *)
(* external: a mutex has at most one owner, pthread_cond_wait gives it up   *)
(* while it sleeps and may return unsignalled.                              *)
(*                                                                          *)
(* Once holds its mutex while it runs f, which is program code: its steps   *)
(* are apart.  The methods of WaitGroup hold theirs from end to end, so     *)
(* each is one action, and Wait one per turn of its loop.                   *)
(*                                                                          *)
(* A definition whose name starts with Mut is a broken version of the one   *)
(* after it, used to test that a property notices; no specification uses it.*)
(***************************************************************************)
EXTENDS Integers

CONSTANTS Threads, None,
          Deltas,     \* the arguments of Add: any int
          MaxCount,   \* bound: Add does not raise the count above this
          MaxDebt     \* bound: nor lower it below minus this

ASSUME SyncAssumption == /\ None \notin Threads
                         /\ Deltas \subseteq Int
                         /\ MaxCount \in Nat
                         /\ MaxDebt  \in Nat

VARIABLES
    mu,        \* the owner of the Once's mutex, or None
    done,      \* its done field
    pc,        \* pc[t]: where t is in Do or Wait
    begun,     \* history: the number of times f was called
    returned,  \* history: the threads a call of Do has returned to
    count,     \* the WaitGroup's count field
    lowered    \* history: an Add has left the count at zero or below since the
               \* count was last positive

onceVars == <<mu, done, begun, returned>>
wgVars   == <<count, lowered>>
vars     == <<onceVars, pc, wgVars>>

\* In Do: locking the mutex, holding it, running f, leaving.  In Wait: asleep,
\* or awake and about to take the mutex again.
InDo   == {"lock", "locked", "f", "leave"}
Labels == {"idle", "parked", "woken"} \cup InDo

Init == /\ mu       = None
        /\ done     = FALSE
        /\ pc       = [t \in Threads |-> "idle"]
        /\ begun    = 0
        /\ returned = {}
        /\ count    = 0
        /\ lowered  = FALSE

Goto(t, p) == pc' = [pc EXCEPT ![t] = p]

-----------------------------------------------------------------------------
(* Once.Do                                                                    *)

Do(t) == /\ pc[t] = "idle"
         /\ Goto(t, "lock")
         /\ UNCHANGED <<onceVars, wgVars>>

Lock(t) == /\ pc[t] = "lock"
           /\ mu = None
           /\ mu' = t
           /\ Goto(t, "locked")
           /\ UNCHANGED <<done, begun, returned, wgVars>>

MutTest(t) == /\ pc[t] = "locked"
              /\ IF done THEN Goto(t, "leave") /\ UNCHANGED <<begun, mu, done>>
                         ELSE Goto(t, "f") /\ begun' = begun + 1 /\ mu' = None /\ done' = TRUE
              /\ UNCHANGED <<returned, wgVars>>

\* if self.done return; else f()
Test(t) == /\ pc[t] = "locked"
           /\ IF done THEN Goto(t, "leave") /\ UNCHANGED begun
                      ELSE Goto(t, "f") /\ begun' = begun + 1
           /\ UNCHANGED <<mu, done, returned, wgVars>>

FReturns(t) == /\ pc[t] = "f"
               /\ done' = TRUE
               /\ Goto(t, "leave")
               /\ UNCHANGED <<mu, begun, returned, wgVars>>

\* The deferred Unlock, on both returns.
Leave(t) == /\ pc[t] = "leave"
            /\ mu' = None
            /\ returned' = returned \cup {t}
            /\ Goto(t, "idle")
            /\ UNCHANGED <<done, begun, wgVars>>

-----------------------------------------------------------------------------
(* WaitGroup; f may call Add and Done too.                                    *)

Runs(t) == pc[t] \in {"idle", "f"}

\* Whatever v is, Add wakes nobody.
Add(t, v) == /\ Runs(t)
             /\ count + v \in (-MaxDebt) .. MaxCount
             /\ count' = count + v
             /\ lowered' = (count + v <= 0 /\ (lowered \/ v < 0))
             /\ UNCHANGED <<onceVars, pc>>

Parked == {t \in Threads : pc[t] = "parked"}

Wake(W) == pc' = [t \in Threads |-> IF t \in W THEN "woken" ELSE pc[t]]

MutDoneNegative(t) == /\ Runs(t)
                      /\ count' = count - 1
                      /\ IF count' = 0 THEN Wake(Parked) ELSE UNCHANGED pc
                      /\ UNCHANGED <<onceVars, lowered>>

MutDoneSignals(t) == /\ Runs(t)
                     /\ count' = IF count <= 0 THEN count ELSE count - 1
                     /\ IF count > 0 /\ count' = 0 /\ Parked # {}
                        THEN \E u \in Parked : Wake({u})
                        ELSE UNCHANGED pc
                     /\ UNCHANGED <<onceVars, lowered>>

\* Done on a count that is not positive returns early.
Done(t) == /\ Runs(t)
           /\ count' = IF count <= 0 THEN count ELSE count - 1
           /\ IF count > 0 /\ count' = 0 THEN Wake(Parked) ELSE UNCHANGED pc
           /\ UNCHANGED <<onceVars, lowered>>

MutWaitBody(t) == /\ Goto(t, IF count > 0 \/ pc[t] = "idle" THEN "parked" ELSE "idle")
                  /\ UNCHANGED <<onceVars, wgVars>>

\* One turn of the loop of Wait.
WaitBody(t) == /\ Goto(t, IF count > 0 THEN "parked" ELSE "idle")
               /\ UNCHANGED <<onceVars, wgVars>>

Wait(t)   == pc[t] = "idle" /\ WaitBody(t)
Resume(t) == pc[t] = "woken" /\ WaitBody(t)

Spurious(t) == /\ pc[t] = "parked"
               /\ Goto(t, "woken")
               /\ UNCHANGED <<onceVars, wgVars>>

-----------------------------------------------------------------------------

Progress(t) == Test(t) \/ FReturns(t) \/ Leave(t) \/ Resume(t)

Next == \E t \in Threads :
            \/ Do(t) \/ Lock(t) \/ Progress(t)
            \/ (\E v \in Deltas : Add(t, v)) \/ Done(t) \/ Wait(t) \/ Spurious(t)

Spec == Init /\ [][Next]_vars

\* Threads are scheduled and f returns.  A pthread mutex promises no more than
\* that somebody gets it: each Lock is weakly fair.
FairSpec == Spec /\ \A t \in Threads : WF_vars(Progress(t)) /\ WF_vars(Lock(t))

-----------------------------------------------------------------------------
(* Properties                                                                 *)

\* The types; and only an Add takes the count below zero, Done never does.
TypeOK == /\ mu       \in Threads \cup {None}
          /\ done     \in BOOLEAN
          /\ pc       \in [Threads -> Labels]
          /\ begun    \in Nat
          /\ returned \in SUBSET Threads
          /\ count    \in Int
          /\ lowered  \in BOOLEAN
          /\ lowered => count <= 0
          /\ count < 0 => lowered

\* Once.Do: whichever threads call it at once, f is called at most once, and no
\* call of Do returns to anybody before that one call of f has returned.
OnceExactly == /\ begun <= 1
               /\ returned # {} => done /\ \A t \in Threads : pc[t] # "f"

\* A waiter sleeps only while there is something to wait for: the Done that
\* brings the count to zero wakes every one, and Wait tests before it sleeps.
\* Only an Add of a negative number leaves a waiter asleep on a count of zero or
\* less: it wakes nobody.
NoStrandedWaiter == \A t \in Threads : pc[t] = "parked" => count > 0 \/ lowered

\* If the count comes to rest at zero, and no Add of a negative number brought it
\* there, every Wait returns.
WaitersReturn ==
    <>[](count = 0 /\ ~lowered) =>
        \A t \in Threads : pc[t] \in {"parked", "woken"} ~> pc[t] = "idle"

=============================================================================
