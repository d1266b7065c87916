----------------------------- MODULE SyncProofs -----------------------------
(***************************************************************************)
(* Proofs about Sync for any set of threads: Do calls f at most once and    *)
(* returns to nobody before f has, and no waiter sleeps on a zero count but *)
(* where an Add of a negative number brought it there.  Add takes any int.  *)
(*                                                                          *)
(* OnceExactly is not inductive: that f runs once follows from the mutex    *)
(* (a thread past Lock owns it, so there is one) and from where the one     *)
(* call of f stands (begun, in f, done).                                    *)
(***************************************************************************)
EXTENDS Sync, TLAPS

\* A thread between Lock and Leave owns the mutex.
Owner == \A t \in Threads : pc[t] \in {"locked", "f", "leave"} => mu = t

\* Where the one call of f stands.
Stands == /\ begun = 0 => ~done
          /\ begun = 0 => \A t \in Threads : pc[t] \notin {"f", "leave"}
          /\ begun = 1 => done \/ \E t \in Threads : pc[t] = "f"
          /\ begun \in {0, 1}
          /\ \A t \in Threads : pc[t] = "leave" => done
          /\ \A t \in Threads : pc[t] = "f" => ~done
          /\ returned # {} => done

IInv == TypeOK /\ Owner /\ Stands /\ NoStrandedWaiter

LEMMA InitIInv == Init => IInv
<1> SUFFICES ASSUME Init PROVE IInv
  OBVIOUS
<1>1. TypeOK
  <2>1. lowered = FALSE /\ lowered \in BOOLEAN /\ ~lowered
    BY Zenon DEF Init
  <2>2. count = 0 /\ count \in Int /\ ~(count < 0)
    BY DEF Init
  <2>3. mu \in Threads \cup {None} /\ done \in BOOLEAN /\ returned \in SUBSET Threads
    BY Zenon DEF Init
  <2>4. pc \in [Threads -> Labels] /\ begun \in Nat
    BY DEF Init, Labels
  <2> QED
    BY <2>1, <2>2, <2>3, <2>4, Zenon DEF TypeOK
<1>2. Owner /\ Stands /\ NoStrandedWaiter
  BY DEF Init, Owner, Stands, NoStrandedWaiter
<1> QED
  BY <1>1, <1>2 DEF IInv

\* Every step keeps the types; Done never takes the count below zero, and an Add
\* that does is remembered in lowered.
LEMMA TypeStep == TypeOK /\ [Next]_vars => TypeOK'
<1> SUFFICES ASSUME TypeOK, [Next]_vars PROVE TypeOK'
  OBVIOUS
<1> USE SyncAssumption DEF TypeOK, Labels, InDo, onceVars, wgVars, Goto
<1>1. ASSUME NEW t \in Threads, Do(t) PROVE TypeOK'
  BY <1>1 DEF Do
<1>2. ASSUME NEW t \in Threads, Lock(t) PROVE TypeOK'
  BY <1>2 DEF Lock
<1>3. ASSUME NEW t \in Threads, Test(t) PROVE TypeOK'
  BY <1>3 DEF Test
<1>4. ASSUME NEW t \in Threads, FReturns(t) PROVE TypeOK'
  BY <1>4 DEF FReturns
<1>5. ASSUME NEW t \in Threads, Leave(t) PROVE TypeOK'
  BY <1>5 DEF Leave
<1>6. ASSUME NEW t \in Threads, Wait(t) \/ Resume(t) PROVE TypeOK'
  BY <1>6 DEF Wait, Resume, WaitBody
<1>7. ASSUME NEW t \in Threads, NEW v \in Deltas, Add(t, v) PROVE TypeOK'
  <2>1. lowered' \in BOOLEAN /\ (lowered' <=> count + v <= 0 /\ (lowered \/ v < 0))
    <3>1. lowered' = (count + v <= 0 /\ (lowered \/ v < 0))
      BY <1>7 DEF Add
    <3> QED
      BY <3>1, Zenon
  <2>2. v \in Int /\ count' = count + v /\ UNCHANGED <<mu, done, begun, returned, pc>>
    BY <1>7 DEF Add
  <2> QED
    BY <2>1, <2>2
<1>8. ASSUME NEW t \in Threads, Done(t) PROVE TypeOK'
  BY <1>8 DEF Done, Wake
<1>9. ASSUME NEW t \in Threads, Spurious(t) PROVE TypeOK'
  BY <1>9 DEF Spurious
<1>10. CASE UNCHANGED vars
  BY <1>10 DEF vars
<1> QED
  BY <1>1, <1>2, <1>3, <1>4, <1>5, <1>6, <1>7, <1>8, <1>9, <1>10 DEF Next, Progress

\* Lock is the only way past the mutex, and it finds the mutex free.
LEMMA OwnerStep == TypeOK /\ Owner /\ [Next]_vars => Owner'
<1> SUFFICES ASSUME TypeOK, Owner, [Next]_vars PROVE Owner'
  OBVIOUS
<1> USE SyncAssumption DEF TypeOK, Labels, InDo, onceVars, wgVars, Goto, Owner
<1>1. ASSUME NEW t \in Threads, Do(t) PROVE Owner'
  BY <1>1 DEF Do
<1>2. ASSUME NEW t \in Threads, Lock(t) PROVE Owner'
  BY <1>2 DEF Lock
<1>3. ASSUME NEW t \in Threads, Test(t) PROVE Owner'
  BY <1>3 DEF Test
<1>4. ASSUME NEW t \in Threads, FReturns(t) PROVE Owner'
  BY <1>4 DEF FReturns
<1>5. ASSUME NEW t \in Threads, Leave(t) PROVE Owner'
  BY <1>5 DEF Leave
<1>6. ASSUME NEW t \in Threads, Wait(t) \/ Resume(t) PROVE Owner'
  BY <1>6 DEF Wait, Resume, WaitBody
<1>7. ASSUME NEW t \in Threads, NEW v \in Deltas, Add(t, v) PROVE Owner'
  BY <1>7 DEF Add
<1>8. ASSUME NEW t \in Threads, Done(t) PROVE Owner'
  BY <1>8 DEF Done, Wake, Parked
<1>9. ASSUME NEW t \in Threads, Spurious(t) PROVE Owner'
  BY <1>9 DEF Spurious
<1>10. CASE UNCHANGED vars
  BY <1>10 DEF vars
<1> QED
  BY <1>1, <1>2, <1>3, <1>4, <1>5, <1>6, <1>7, <1>8, <1>9, <1>10 DEF Next, Progress

\* The call of f moves from begun to running to done, under the mutex.
LEMMA StandsStep == TypeOK /\ Owner /\ Stands /\ [Next]_vars => Stands'
<1> SUFFICES ASSUME TypeOK, Owner, Stands, [Next]_vars PROVE Stands'
  OBVIOUS
<1> USE SyncAssumption DEF TypeOK, Labels, InDo, onceVars, wgVars, Goto, Stands
<1>1. ASSUME NEW t \in Threads, Do(t) PROVE Stands'
  BY <1>1 DEF Do
<1>2. ASSUME NEW t \in Threads, Lock(t) PROVE Stands'
  BY <1>2 DEF Lock
<1>3. ASSUME NEW t \in Threads, Test(t) PROVE Stands'
  <2>1. \A u \in Threads \ {t} : pc[u] # "f"
    BY <1>3 DEF Test, Owner
  <2>2. CASE done
    BY <1>3, <2>2 DEF Test
  <2>3. CASE ~done
    BY <1>3, <2>1, <2>3 DEF Test
  <2> QED
    BY <2>2, <2>3
<1>4. ASSUME NEW t \in Threads, FReturns(t) PROVE Stands'
  BY <1>4 DEF FReturns, Owner
<1>5. ASSUME NEW t \in Threads, Leave(t) PROVE Stands'
  BY <1>5 DEF Leave
<1>6. ASSUME NEW t \in Threads, Wait(t) \/ Resume(t) PROVE Stands'
  BY <1>6 DEF Wait, Resume, WaitBody
<1>7. ASSUME NEW t \in Threads, NEW v \in Deltas, Add(t, v) PROVE Stands'
  BY <1>7 DEF Add
<1>8. ASSUME NEW t \in Threads, Done(t) PROVE Stands'
  BY <1>8 DEF Done, Wake, Parked
<1>9. ASSUME NEW t \in Threads, Spurious(t) PROVE Stands'
  BY <1>9 DEF Spurious
<1>10. CASE UNCHANGED vars
  BY <1>10 DEF vars
<1> QED
  BY <1>1, <1>2, <1>3, <1>4, <1>5, <1>6, <1>7, <1>8, <1>9, <1>10 DEF Next, Progress

\* Done wakes every sleeper at zero; an Add that lowers the count so far leaves
\* them asleep, and says so in lowered.
LEMMA StrandedStep == TypeOK /\ NoStrandedWaiter /\ [Next]_vars => NoStrandedWaiter'
<1> SUFFICES ASSUME TypeOK, NoStrandedWaiter, [Next]_vars PROVE NoStrandedWaiter'
  OBVIOUS
<1> USE SyncAssumption DEF TypeOK, Labels, InDo, onceVars, wgVars, Goto, NoStrandedWaiter
<1>1. ASSUME NEW t \in Threads, Do(t) \/ Lock(t) \/ Progress(t) PROVE NoStrandedWaiter'
  BY <1>1 DEF Do, Lock, Progress, Test, FReturns, Leave, Resume, WaitBody
<1>2. ASSUME NEW t \in Threads, NEW v \in Deltas, Add(t, v) PROVE NoStrandedWaiter'
  <2>1. lowered' <=> count + v <= 0 /\ (lowered \/ v < 0)
    <3>1. lowered' = (count + v <= 0 /\ (lowered \/ v < 0))
      BY <1>2 DEF Add
    <3> QED
      BY <3>1, Zenon
  <2>2. v \in Int /\ count' = count + v /\ pc' = pc
    BY <1>2 DEF Add
  <2> QED
    BY <2>1, <2>2
<1>3. ASSUME NEW t \in Threads, Done(t) PROVE NoStrandedWaiter'
  <2>1. CASE count > 0 /\ count' = 0
    BY <1>3, <2>1 DEF Done, Wake, Parked
  <2>2. CASE ~(count > 0 /\ count' = 0)
    BY <1>3, <2>2 DEF Done
  <2> QED
    BY <2>1, <2>2
<1>4. ASSUME NEW t \in Threads, Wait(t) \/ Spurious(t) PROVE NoStrandedWaiter'
  BY <1>4 DEF Wait, WaitBody, Spurious
<1>5. CASE UNCHANGED vars
  BY <1>5 DEF vars
<1> QED
  BY <1>1, <1>2, <1>3, <1>4, <1>5 DEF Next

LEMMA Inductive == Spec => []IInv
<1>1. IInv /\ [Next]_vars => IInv'
  BY TypeStep, OwnerStep, StandsStep, StrandedStep DEF IInv
<1> QED
  BY InitIInv, <1>1, PTL DEF Spec

-----------------------------------------------------------------------------

\* Every variable of Sync keeps its type, and Done, by whichever threads and however
\* often it is called, never takes the count below zero: only an Add does.
THEOREM TypeCorrect == Spec => []TypeOK
  BY Inductive, PTL DEF IInv

\* Once.Do calls f at most once and returns to nobody before f has returned.
THEOREM OnceCorrect == Spec => []OnceExactly
<1>1. IInv => OnceExactly
  BY DEF IInv, Stands, OnceExactly
<1> QED
  BY Inductive, <1>1, PTL

\* No thread sleeps in Wait while the count is zero or less, unless an Add of a
\* negative number brought it there: no interleaving of Done, Wait and spurious
\* wake-ups strands a waiter.
THEOREM WaitGroupCorrect == Spec => []NoStrandedWaiter
  BY Inductive, PTL DEF IInv

=============================================================================
