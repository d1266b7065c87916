-------------------------------- MODULE Rules --------------------------------
(***************************************************************************)
(* Rulesets: the methods emitRulesetDecl and emitRulesetRegisterRule of     *)
(* codegen.go generate for one ruleset, over compiler/runtime/rules_rt.c.   *)
(*                                                                          *)
(* The generated code keeps the ruleset behind a global pointer that start  *)
(* and registerRule test and set without a lock.  Each Skink_ruleset call   *)
(* is a critical section of the ruleset's mutex, except the evaluation of   *)
(* the rules, which a loop thread does without it: the test i < count, the  *)
(* load of rs->rules and the read of the entry are separate steps, and so   *)
(* are those of add_rule that such a loop can see: realloc frees the old    *)
(* block, the new one is assigned, the fields of the entry are stored, and  *)
(* count is raised.  The stores of a thread are seen in its program order;  *)
(* freed blocks are told from new ones.  The start and stop callbacks run   *)
(* inside the critical sections.                                            *)
(*                                                                          *)
(* Abstracted: what a rule's condition and action compute; the priority,    *)
(* which is stored and never read; the 1ms sleep.  stop() and reset() are   *)
(* called only once the pointer is set: before that they pass null to the   *)
(* runtime, which dereferences it.                                          *)
(*                                                                          *)
(* A definition whose name starts with Mut is a broken version of the one   *)
(* after it, used to test that a property notices; no specification uses it.*)
(***************************************************************************)
EXTENDS Naturals, Sequences, FiniteSets

CONSTANTS Users,      \* the threads that call the ruleset's methods
          Statics,    \* the rules of the declaration, a sequence
          Dynamics,   \* the RuleSource objects the program registers
          Capacity,   \* of a new ruleset's array (8 in C)
          Calls,      \* Calls[u]: the methods the program calls on thread u
          MaxRules,   \* bound: no source is registered once a ruleset has so many rules
          MaxStarts   \* bound on the calls of start and restart

\* Where a call may be; the second line is inside add_rule.
Labels == {"idle", "test", "create", "load", "register", "static", "spawn",
           "grow", "swap", "self", "rest", "count",
           "stop", "restart", "reset"}

None    == "none"
Garbage == "garbage"

ASSUME RulesAssumption == /\ IsFiniteSet(Users)
                          /\ None \notin Users
                          /\ Statics \in Seq(STRING)
                          /\ Garbage \notin {Statics[n] : n \in DOMAIN Statics} \cup Dynamics
                          /\ Dynamics \cap ({Statics[n] : n \in DOMAIN Statics} \cup Labels \cup {None, "start"}) = {}
                          /\ Capacity \in Nat \ {0}
                          /\ Calls \in [Users -> SUBSET ({"start", "stop", "restart", "reset"} \cup Dynamics)]
                          /\ MaxRules \in Nat /\ MaxStarts \in Nat

\* One ruleset per thread that finds the pointer null; 0 is the null pointer.
Sets  == 1 .. Cardinality(Users)
Loops == 1 .. MaxStarts

VARIABLES
    ptr,       \* the global pointer
    made,      \* the number of rulesets allocated
    mu,        \* mu[s]: the thread in add_rule, which holds the mutex, or None
    running,   \* running[s]
    rules,     \* rules[s]: the entries of the newest block
    block,     \* block[s]: the newest block realloc returned; older ones are freed
    array,     \* array[s]: the block rs->rules points to
    count,     \* count[s]
    capacity,  \* capacity[s]
    live,      \* history: live[s], the sources whose last callback was start
    left,      \* history: left[s], the sources that were live at a reset, until
               \* they are stopped
    pc,        \* pc[u]: where the call of u is
    op,        \* op[u]: the method u calls: a name, or the source to register
    reg,       \* reg[u]: the pointer in the register of u
    nextRule,  \* nextRule[u]: the static rule start() registers next
    starts,    \* the number of calls of start and restart
    at,        \* at[l]: where loop thread l is
    of,        \* of[l]: the ruleset it evaluates
    seen,      \* seen[l]: the block it has loaded from rs->rules
    i          \* i[l]: its loop index, from 1

setVars  == <<mu, running, rules, block, array, count, capacity, live, left>>
userVars == <<pc, op, reg, nextRule, starts>>
loopVars == <<at, of, seen, i>>
vars     == <<ptr, made, setVars, userVars, loopVars>>

\* What malloc returns is not initialized.
Unwritten == [self |-> Garbage, eval |-> Garbage]

Methods == {"start", "stop", "restart", "reset"} \cup Dynamics
Init == /\ ptr      = 0
        /\ made     = 0
        /\ mu       = [s \in Sets |-> None]
        /\ running  = [s \in Sets |-> FALSE]
        /\ rules    = [s \in Sets |-> [n \in 1 .. Capacity |-> Unwritten]]
        /\ block    = [s \in Sets |-> 0]
        /\ array    = [s \in Sets |-> 0]
        /\ count    = [s \in Sets |-> 0]
        /\ capacity = [s \in Sets |-> Capacity]
        /\ live     = [s \in Sets |-> {}]
        /\ left     = [s \in Sets |-> {}]
        /\ pc       = [u \in Users |-> "idle"]
        /\ op       = [u \in Users |-> None]
        /\ reg      = [u \in Users |-> 0]
        /\ nextRule = [u \in Users |-> 1]
        /\ starts   = 0
        /\ at       = [l \in Loops |-> "none"]
        /\ of       = [l \in Loops |-> 0]
        /\ seen     = [l \in Loops |-> 0]
        /\ i        = [l \in Loops |-> 1]

-----------------------------------------------------------------------------
(* The runtime's critical sections that the loops cannot look into.           *)

Indices(s) == 1 .. count[s]

\* The registered sources: only dynamic rules have callbacks.
Sources(s) == {rules[s][n].self : n \in Indices(s)} \cap Dynamics

RulesetStart(s) == /\ mu[s] = None
                   /\ running' = [running EXCEPT ![s] = TRUE]
                   /\ live'    = [live EXCEPT ![s] = @ \cup Sources(s)]
                   /\ UNCHANGED <<mu, rules, block, array, count, capacity, left>>

RulesetStop(s) == /\ mu[s] = None
                  /\ running' = [running EXCEPT ![s] = FALSE]
                  /\ live'    = [live EXCEPT ![s] = @ \ Sources(s)]
                  /\ left'    = [left EXCEPT ![s] = @ \ Sources(s)]
                  /\ UNCHANGED <<mu, rules, block, array, count, capacity>>

\* The entries stay in the array; their sources are forgotten and left running.
RulesetReset(s) == /\ mu[s] = None
                   /\ running' = [running EXCEPT ![s] = FALSE]
                   /\ count'   = [count EXCEPT ![s] = 0]
                   /\ left'    = [left EXCEPT ![s] = live[s]]
                   /\ UNCHANGED <<mu, rules, block, array, capacity, live>>

-----------------------------------------------------------------------------
(* The generated methods.                                                     *)

Goto(u, p) == pc' = [pc EXCEPT ![u] = p] /\ UNCHANGED <<op, reg, nextRule>>

\* The method returns; its registers are dead.
Return(u) == /\ pc'       = [pc EXCEPT ![u] = "idle"]
             /\ op'       = [op EXCEPT ![u] = None]
             /\ reg'      = [reg EXCEPT ![u] = 0]
             /\ nextRule' = [nextRule EXCEPT ![u] = 1]

Call(u, m) ==
    /\ pc[u] = "idle" /\ m \in Calls[u]
    /\ m \in {"stop", "restart", "reset"} => ptr # 0
    /\ m \in {"start", "restart"} => starts < MaxStarts
    /\ m \in Dynamics => \A s \in Sets : count[s] < MaxRules
    /\ op'     = [op EXCEPT ![u] = m]
    /\ pc'     = [pc EXCEPT ![u] = IF m \in {"stop", "restart", "reset"} THEN "load" ELSE "test"]
    /\ starts' = IF m \in {"start", "restart"} THEN starts + 1 ELSE starts
    /\ UNCHANGED <<ptr, made, setVars, reg, nextRule, loopVars>>

\* The pointer is tested ...
Test(u) == /\ pc[u] = "test"
           /\ Goto(u, IF ptr = 0 THEN "create" ELSE "load")
           /\ UNCHANGED <<ptr, made, setVars, starts, loopVars>>

\* ... a ruleset is created if it was null, by whoever saw it so ...
Create(u) == /\ pc[u] = "create"
             /\ made' = made + 1
             /\ ptr'  = made'
             /\ Goto(u, "load")
             /\ UNCHANGED <<setVars, starts, loopVars>>

\* ... and loaded again.
Load(u) == /\ pc[u] = "load"
           /\ reg' = [reg EXCEPT ![u] = ptr]
           /\ pc'  = [pc EXCEPT ![u] = IF op[u] = "start" THEN "static"
                                       ELSE IF op[u] \in Dynamics THEN "register" ELSE op[u]]
           /\ UNCHANGED <<ptr, made, setVars, op, nextRule, starts, loopVars>>

\* registerRule adds its argument; start() the rules of the declaration, on every
\* call.
Rule(u) == IF op[u] \in Dynamics THEN op[u] ELSE Statics[nextRule[u]]

\* The object a rule is called with: null for a static one.
Self(r) == IF r \in Dynamics THEN r ELSE None

\* add_rule locks the mutex and tests the capacity.
AddRule(u) ==
    LET s == reg[u] IN
    /\ mu[s] = None
    /\ mu' = [mu EXCEPT ![s] = u]
    /\ Goto(u, IF count[s] >= capacity[s] THEN "grow" ELSE "self")
    /\ UNCHANGED <<ptr, made, running, rules, block, array, count, capacity, live, left, starts, loopVars>>

Register(u) == /\ pc[u] = "register"
               /\ AddRule(u)

AddStatic(u) == /\ pc[u] = "static"
                /\ nextRule[u] <= Len(Statics)
                /\ AddRule(u)

MutGrow(u) ==
    LET s == reg[u] IN
    /\ pc[u] = "grow"
    /\ capacity' = [capacity EXCEPT ![s] = 2 * @]
    /\ rules'    = [rules EXCEPT ![s] = [n \in 1 .. 2 * capacity[s] |-> Unwritten]]
    /\ block'    = [block EXCEPT ![s] = @ + 1]
    /\ Goto(u, "swap")
    /\ UNCHANGED <<ptr, made, mu, running, array, count, live, left, starts, loopVars>>

\* realloc copies the entries into a block twice as long, the old one where it
\* can grow, or frees the old one ...
Grow(u) ==
    LET s == reg[u] IN
    /\ pc[u] = "grow"
    /\ capacity' = [capacity EXCEPT ![s] = 2 * @]
    /\ rules'    = [rules EXCEPT ![s] = [n \in 1 .. 2 * capacity[s] |->
                                          IF n \in DOMAIN @ THEN @[n] ELSE Unwritten]]
    /\ \E moved \in {0, 1} : block' = [block EXCEPT ![s] = @ + moved]
    /\ Goto(u, "swap")
    /\ UNCHANGED <<ptr, made, mu, running, array, count, live, left, starts, loopVars>>

\* ... and its result is assigned to rs->rules.
Swap(u) ==
    LET s == reg[u] IN
    /\ pc[u] = "swap"
    /\ array' = [array EXCEPT ![s] = block[s]]
    /\ Goto(u, "self")
    /\ UNCHANGED <<ptr, made, mu, running, rules, block, count, capacity, live, left, starts, loopVars>>

\* The fields of the entry at index count are stored, the object first ...
StoreSelf(u) ==
    LET s == reg[u] IN
    /\ pc[u] = "self"
    /\ rules' = [rules EXCEPT ![s][count[s] + 1].self = Self(Rule(u))]
    /\ Goto(u, "rest")
    /\ UNCHANGED <<ptr, made, mu, running, block, array, count, capacity, live, left, starts, loopVars>>

StoreRest(u) ==
    LET s == reg[u] IN
    /\ pc[u] = "rest"
    /\ rules' = [rules EXCEPT ![s][count[s] + 1].eval = Rule(u)]
    /\ Goto(u, "count")
    /\ UNCHANGED <<ptr, made, mu, running, block, array, count, capacity, live, left, starts, loopVars>>

MutCountUp(u) ==
    LET s == reg[u] IN
    /\ pc[u] = "count"
    /\ count' = [count EXCEPT ![s] = @ + 1]
    /\ mu'    = [mu EXCEPT ![s] = None]
    /\ IF op[u] \in Dynamics
       THEN Return(u)
       ELSE /\ pc'       = [pc EXCEPT ![u] = "static"]
            /\ nextRule' = [nextRule EXCEPT ![u] = @ + 1]
            /\ UNCHANGED <<op, reg>>
    /\ UNCHANGED <<ptr, made, running, rules, block, array, capacity, live, left, starts, loopVars>>

\* ... and then count is raised, and the source started if the ruleset runs.
CountUp(u) ==
    LET s == reg[u] IN
    /\ pc[u] = "count"
    /\ count' = [count EXCEPT ![s] = @ + 1]
    /\ live'  = [live EXCEPT ![s] = IF running[s] THEN @ \cup ({Rule(u)} \cap Dynamics) ELSE @]
    /\ mu'    = [mu EXCEPT ![s] = None]
    /\ IF op[u] \in Dynamics
       THEN Return(u)
       ELSE /\ pc'       = [pc EXCEPT ![u] = "static"]
            /\ nextRule' = [nextRule EXCEPT ![u] = @ + 1]
            /\ UNCHANGED <<op, reg>>
    /\ UNCHANGED <<ptr, made, running, rules, block, array, capacity, left, starts, loopVars>>

Adding(u) == Grow(u) \/ Swap(u) \/ StoreSelf(u) \/ StoreRest(u) \/ CountUp(u)

\* start() then starts the ruleset ...
StartSet(u) == /\ pc[u] = "static"
               /\ nextRule[u] > Len(Statics)
               /\ RulesetStart(reg[u])
               /\ Goto(u, "spawn")
               /\ UNCHANGED <<ptr, made, starts, loopVars>>

MutSpawn(u) == /\ pc[u] = "spawn"
               /\ IF \E l \in Loops : at[l] # "none"
                  THEN UNCHANGED loopVars
                  ELSE /\ at' = [at EXCEPT ![1] = "check"]
                       /\ of' = [of EXCEPT ![1] = reg[u]]
                       /\ UNCHANGED <<seen, i>>
               /\ Return(u)
               /\ UNCHANGED <<ptr, made, setVars, starts>>

\* ... and spawns one more loop.
Spawn(u) == /\ pc[u] = "spawn"
            /\ \E l \in Loops :
                  /\ at[l] = "none" /\ \A m \in 1 .. l - 1 : at[m] # "none"
                  /\ at' = [at EXCEPT ![l] = "check"]
                  /\ of' = [of EXCEPT ![l] = reg[u]]
                  /\ UNCHANGED <<seen, i>>
            /\ Return(u)
            /\ UNCHANGED <<ptr, made, setVars, starts>>

\* stop(), which restart() follows with start().
Stop(u) == /\ pc[u] \in {"stop", "restart"}
           /\ RulesetStop(reg[u])
           /\ IF op[u] = "stop"
              THEN Return(u)
              ELSE /\ op' = [op EXCEPT ![u] = "start"]
                   /\ pc' = [pc EXCEPT ![u] = "test"]
                   /\ UNCHANGED <<reg, nextRule>>
           /\ UNCHANGED <<ptr, made, starts, loopVars>>

Reset(u) == /\ pc[u] = "reset"
            /\ RulesetReset(reg[u])
            /\ Return(u)
            /\ UNCHANGED <<ptr, made, starts, loopVars>>

-----------------------------------------------------------------------------
(* Skink_ruleset_loop                                                         *)

MutCheck(l) ==
    /\ at[l] = "check"
    /\ mu[of[l]] = None
    /\ at' = [at EXCEPT ![l] = IF running[of[l]] \/ count[of[l]] > 0 THEN "pass" ELSE "done"]
    /\ UNCHANGED <<ptr, made, setVars, userVars, of, seen, i>>

\* is_running, under the mutex.
Check(l) == /\ at[l] = "check"
            /\ mu[of[l]] = None
            /\ at' = [at EXCEPT ![l] = IF running[of[l]] THEN "pass" ELSE "done"]
            /\ UNCHANGED <<ptr, made, setVars, userVars, of, seen, i>>

\* evaluate, without it: the test of its for loop ...
Pass(l) == /\ at[l] = "pass"
           /\ IF i[l] <= count[of[l]]
              THEN at' = [at EXCEPT ![l] = "fetch"] /\ i' = i
              ELSE at' = [at EXCEPT ![l] = "check"] /\ i' = [i EXCEPT ![l] = 1]
           /\ UNCHANGED <<ptr, made, setVars, userVars, of, seen>>

\* ... the load of rs->rules ...
Fetch(l) == /\ at[l] = "fetch"
            /\ at'   = [at EXCEPT ![l] = "read"]
            /\ seen' = [seen EXCEPT ![l] = array[of[l]]]
            /\ UNCHANGED <<ptr, made, setVars, userVars, of, i>>

\* ... and the read of entry i[l] of that block, whose rule is run.
Eval(l) == /\ at[l] = "read"
           /\ at'   = [at EXCEPT ![l] = "pass"]
           /\ i'    = [i EXCEPT ![l] = @ + 1]
           /\ seen' = [seen EXCEPT ![l] = 0]
           /\ UNCHANGED <<ptr, made, setVars, userVars, of>>

-----------------------------------------------------------------------------

Method(u) == \/ Test(u) \/ Create(u) \/ Load(u) \/ Register(u) \/ AddStatic(u) \/ Adding(u)
             \/ StartSet(u) \/ Spawn(u) \/ Stop(u) \/ Reset(u)

Loop(l) == Check(l) \/ Pass(l) \/ Fetch(l) \/ Eval(l)

Next == \/ \E u \in Users : Method(u) \/ \E m \in Methods : Call(u, m)
        \/ \E l \in Loops : Loop(l)

Spec == Init /\ [][Next]_vars

\* Threads are scheduled; who waits for the mutex gets it if it stays free.
FairSpec == /\ Spec
            /\ \A u \in Users : WF_vars(Method(u))
            /\ \A l \in Loops : WF_vars(Loop(l))

-----------------------------------------------------------------------------
(* Properties                                                                 *)

\* Whatever add_rule, reset and start do between the test of a loop, its load of
\* rs->rules and its read: unless the block has been freed meanwhile, the entry
\* read lies inside it and each of its fields was stored by an add_rule.
ReadsWritten ==
    \A l \in Loops :
        at[l] = "read" /\ seen[l] = block[of[l]] =>
            /\ i[l] \in DOMAIN rules[of[l]]
            /\ rules[of[l]][i[l]].self # Garbage /\ rules[of[l]][i[l]].eval # Garbage

\* In every order of registrations, starts, stops and resets by several threads:
\* while a ruleset runs each of its sources has been started, and a source is
\* left started otherwise only if a reset forgot it, which stops nothing.
SourcesFollow ==
    \A s \in Sets : /\ running[s] => Sources(s) \subseteq live[s]
                    /\ live[s] \subseteq (IF running[s] THEN Sources(s) ELSE {}) \cup left[s]

\* A ruleset that stays stopped is evaluated by no loop in the end, however many
\* starts had spawned one, if the program leaves its mutex free for the loop.  It
\* says nothing of a ruleset that another thread's first call replaced: that one
\* nobody can stop.
StoppedForGood ==
    \A s \in Sets : <>[](~running[s] /\ mu[s] = None)
                        => <>[](\A l \in Loops : of[l] = s => at[l] \in {"none", "done"})

\* While a ruleset runs, and no registration keeps its mutex from the loop, each
\* of its rules is evaluated again and again: a stop that raced the start cannot
\* leave it running without a loop.
RunningEvaluates ==
    \A s \in Sets : \A n \in 1 .. MaxRules + MaxStarts :
        <>[](running[s] /\ n \in Indices(s) /\ mu[s] = None)
            => []<><<\E l \in Loops : Eval(l) /\ of[l] = s /\ i[l] = n>>_vars

\* language_manual.md: "stop() - stop the background loop", and "restart() - stop
\* and then start".  A loop that runs when its ruleset is stopped ends.
StopEndsLoop ==
    \A l \in Loops, u \in Users :
        (/\ at[l] \in {"check", "pass", "fetch", "read"}
         /\ pc[u] \in {"stop", "restart"} /\ reg[u] = of[l]) ~> at[l] = "done"

=============================================================================
