----------------------------- MODULE RulesProofs -----------------------------
(***************************************************************************)
(* Proofs about Rules for any number of threads, any declaration, any       *)
(* sources and any initial capacity: what the loops read without the mutex   *)
(* from a block that has not been freed was written, and the sources follow  *)
(* the ruleset's state.                                                      *)
(*                                                                           *)
(* The inductive invariant follows a registration through add_rule (AdderAt):*)
(* it owns the mutex, so nobody else moves count or the entries, and the     *)
(* entry it fills lies in the array.  Entries once written stay so, whatever *)
(* reset and the next registrations do, which is what the loops need.        *)
(***************************************************************************)
EXTENDS Rules, FiniteSetTheorems, SequenceTheorems, TLAPS

Field == {Statics[n] : n \in DOMAIN Statics} \cup Dynamics \cup {None, Garbage}
Entry == [self : Field, eval : Field]

Whole(e) == e.self # Garbage /\ e.eval # Garbage

(* The types of the variables that the steps below read.                     *)
SetTypes ==
    /\ mu       \in [Sets -> Users \cup {None}]
    /\ running  \in [Sets -> BOOLEAN]
    /\ rules    = [s \in Sets |-> rules[s]]
    /\ count    \in [Sets -> Nat]
    /\ capacity \in [Sets -> Nat \ {0}]
    /\ live     \in [Sets -> SUBSET Dynamics]
    /\ left     \in [Sets -> SUBSET Dynamics]

UserTypes ==
    /\ pc       \in [Users -> Labels]
    /\ op       \in [Users -> Methods \cup {None}]
    /\ reg      \in [Users -> Sets \cup {0}]
    /\ nextRule \in [Users -> Nat \ {0}]

LoopTypes ==
    /\ at \in [Loops -> {"none", "check", "pass", "fetch", "read", "done"}]
    /\ of \in [Loops -> Sets \cup {0}]
    /\ i  \in [Loops -> Nat \ {0}]

Creating == {u \in Users : pc[u] = "create"}

(* Every thread that has seen the pointer null may still create a ruleset,    *)
(* and there are enough rulesets for all of them.                            *)
PointerOK ==
    /\ made \in Nat /\ ptr \in 0 .. made
    /\ ptr = 0 => made = 0
    /\ made + Cardinality(Creating) <= Cardinality(Users)

(* A thread inside a method of the ruleset has loaded the pointer.            *)
InAdd == {"grow", "swap", "self", "rest", "count"}

PlaceOK ==
    \A u \in Users :
        /\ pc[u] \in {"test", "create", "load"} => op[u] \in Methods
        /\ pc[u] = "load" => ptr # 0
        /\ pc[u] \in {"static", "spawn", "stop", "restart", "reset"} => reg[u] \in Sets
        /\ pc[u] = "register" => reg[u] \in Sets /\ op[u] \in Dynamics
        /\ pc[u] \in InAdd => reg[u] \in Sets

(* Where a thread in add_rule stands: it owns the mutex, there is room for    *)
(* its entry once the array has grown, and what it has stored is there.       *)
AdderAt(u) ==
    pc[u] \in InAdd =>
        /\ mu[reg[u]] = u
        /\ op[u] \notin Dynamics => nextRule[u] <= Len(Statics)
        /\ pc[u] # "grow" => count[reg[u]] < capacity[reg[u]]
        /\ pc[u] \in {"rest", "count"} => rules[reg[u]][count[reg[u]] + 1].self = Self(Rule(u))
        /\ pc[u] = "count" => rules[reg[u]][count[reg[u]] + 1].eval = Rule(u)

(* The registered entries are in the array and written, and the sources       *)
(* follow (Good, for every ruleset, is SourcesFollow and more).               *)
Good(s) == /\ rules[s] \in [1 .. capacity[s] -> Entry]
           /\ count[s] <= capacity[s]
           /\ \A n \in Indices(s) : Whole(rules[s][n])
           /\ running[s] => Sources(s) \subseteq live[s]
           /\ live[s] \subseteq (IF running[s] THEN Sources(s) ELSE {}) \cup left[s]

SetsOK == /\ SetTypes
          /\ \A s \in Sets : Good(s)
          /\ \A u \in Users : AdderAt(u)

(* A loop that has passed the test of its for loop is at a written entry.     *)
LoopOK == \A l \in Loops : /\ at[l] # "none" => of[l] \in Sets
                           /\ at[l] \in {"fetch", "read"} => /\ i[l] <= capacity[of[l]]
                                                            /\ Whole(rules[of[l]][i[l]])

UsersOK == UserTypes /\ PointerOK /\ PlaceOK

RulesInv == SetsOK /\ UsersOK /\ LoopTypes /\ LoopOK

-----------------------------------------------------------------------------
(* One thread acts on one ruleset, whose mutex is free or its own.            *)

(* Nothing shrinks, and a written entry stays written.                        *)
Keeps == \A s \in Sets :
             /\ capacity[s] <= capacity'[s]
             /\ \A n \in 1 .. capacity[s] : Whole(rules[s][n]) => Whole(rules'[s][n])

SameSet(t) == /\ mu'[t] = mu[t] /\ running'[t] = running[t] /\ rules'[t] = rules[t]
              /\ count'[t] = count[t] /\ capacity'[t] = capacity[t]
              /\ live'[t] = live[t] /\ left'[t] = left[t]

SameUser(v) == pc'[v] = pc[v] /\ op'[v] = op[v] /\ reg'[v] = reg[v] /\ nextRule'[v] = nextRule[v]

(* The other rulesets keep what they had, and so do the other threads, none   *)
(* of which is in add_rule of this one.                                      *)
LEMMA OneSet ==
    ASSUME SetsOK, UserTypes, PlaceOK, SetTypes',
           NEW u \in Users, NEW s \in Sets, mu[s] \in {None, u},
           \A t \in Sets : t # s => SameSet(t),
           \A v \in Users : v # u => SameUser(v),
           Good(s)', AdderAt(u)',
           capacity[s] <= capacity'[s],
           \A n \in 1 .. capacity[s] : Whole(rules[s][n]) => Whole(rules'[s][n])
    PROVE  SetsOK' /\ Keeps
  <1>1. ASSUME NEW t \in Sets, t # s PROVE Good(t)'
    <2>1. SameSet(t) /\ Good(t)
      BY <1>1 DEF SetsOK
    <2>2. Indices(t)' = Indices(t) /\ Sources(t)' = Sources(t)
      BY <2>1 DEF SameSet, Indices, Sources
    <2>3. QED
      BY <2>1, <2>2 DEF SameSet, Good
  <1>2. ASSUME NEW v \in Users, v # u PROVE AdderAt(v)'
    <2>1. SUFFICES ASSUME pc[v] \in InAdd PROVE AdderAt(v)'
      BY <1>2 DEF AdderAt, SameUser
    <2>2. AdderAt(v) /\ SameUser(v) /\ reg[v] \in Sets /\ mu[reg[v]] = v
      BY <1>2, <2>1 DEF SetsOK, AdderAt, PlaceOK
    <2>3. reg[v] # s
      BY <1>2, <2>2, RulesAssumption
    <2>4. SameSet(reg[v])
      BY <2>2, <2>3
    <2>5. Rule(v)' = Rule(v)
      BY <2>2 DEF Rule, SameUser
    <2>6. QED
      BY <2>2, <2>4, <2>5 DEF AdderAt, SameUser, SameSet
  <1>3. Keeps
    <2>1. \A t \in Sets : capacity[t] \in Nat
      BY DEF SetsOK, SetTypes
    <2>2. QED
      BY <2>1 DEF Keeps, SameSet
  <1>4. QED
    BY <1>1, <1>2, <1>3 DEF SetsOK

(* What a thread in add_rule adds is a rule or a source.                      *)
LEMMA RuleType ==
    ASSUME UserTypes, NEW u \in Users, op[u] \notin Dynamics => nextRule[u] <= Len(Statics)
    PROVE  /\ Rule(u) \in Field /\ Rule(u) # Garbage
           /\ Self(Rule(u)) \in Field /\ Self(Rule(u)) # Garbage
           /\ {Self(Rule(u))} \cap Dynamics = {Rule(u)} \cap Dynamics
  <1>1. None \in Field /\ None # Garbage
    BY DEF None, Garbage, Field
  <1>2. None \notin Dynamics /\ Garbage \notin Dynamics
    BY RulesAssumption
  <1>3. Rule(u) \in Field /\ Rule(u) # Garbage
    <2>1. CASE op[u] \in Dynamics
      BY <1>2, <2>1 DEF Rule, Field
    <2>2. CASE op[u] \notin Dynamics
      <3>1. nextRule[u] \in 1 .. Len(Statics)
        BY <2>2, RulesAssumption DEF UserTypes
      <3>2. nextRule[u] \in DOMAIN Statics
        BY <3>1, RulesAssumption, LenProperties
      <3>3. Statics[nextRule[u]] # Garbage
        BY <3>2, RulesAssumption
      <3>4. QED
        BY <2>2, <3>2, <3>3 DEF Rule, Field
    <2>3. QED
      BY <2>1, <2>2
  <1>4. QED
    BY <1>1, <1>2, <1>3 DEF Self, Field

-----------------------------------------------------------------------------
(* The steps of add_rule.                                                     *)

(* Where u is, and what it moves: s is the ruleset in its register.           *)
LEMMA AddRuleStep ==
    ASSUME SetsOK, UserTypes, UserTypes', PlaceOK, NEW u \in Users, NEW s, s = reg[u], Register(u) \/ AddStatic(u)
    PROVE  SetsOK' /\ Keeps
  <1> DEFINE p == IF count[s] >= capacity[s] THEN "grow" ELSE "self"
  <1>1. /\ s \in Sets /\ mu[s] = None
        /\ mu' = [mu EXCEPT ![s] = u] /\ pc' = [pc EXCEPT ![u] = p]
        /\ UNCHANGED <<running, rules, block, array, count, capacity, live, left, op, reg, nextRule>>
        /\ op[u] \notin Dynamics => nextRule[u] <= Len(Statics)
    BY DEF Register, AddStatic, AddRule, Goto, PlaceOK
  <1>2. SetTypes'
    BY <1>1 DEF SetsOK, SetTypes
  <1>3. \A t \in Sets : t # s => SameSet(t)
    BY <1>1 DEF SameSet, SetsOK, SetTypes
  <1>4. \A v \in Users : v # u => SameUser(v)
    BY <1>1 DEF SameUser, UserTypes
  <1>5. Good(s)
    BY <1>1 DEF SetsOK
  <1>6. Good(s)'
    <2>1. Indices(s)' = Indices(s) /\ Sources(s)' = Sources(s)
      BY <1>1 DEF Indices, Sources
    <2>2. QED
      BY <1>1, <1>5, <2>1 DEF Good
  <1>7. AdderAt(u)'
    <2>1. pc'[u] = p /\ mu'[s] = u
      BY <1>1 DEF UserTypes, SetsOK, SetTypes
    <2>2. count[s] \in Nat /\ capacity[s] \in Nat
      BY <1>1 DEF SetsOK, SetTypes
    <2>3. p = "self" => count[s] < capacity[s]
      BY <2>2
    <2>4. QED
      BY <1>1, <2>1, <2>3 DEF AdderAt
  <1>8. QED
    <2>1. capacity[s] <= capacity'[s] /\ rules' = rules
      BY <1>1 DEF SetsOK, SetTypes
    <2>2. QED
      BY <1>1, <1>2, <1>3, <1>4, <1>6, <1>7, <2>1, OneSet

(* A thread in add_rule.                                                      *)
LEMMA AddingFacts ==
    ASSUME SetsOK, UserTypes, PlaceOK, NEW u \in Users, pc[u] \in InAdd
    PROVE  /\ reg[u] \in Sets /\ mu[reg[u]] = u /\ Good(reg[u]) /\ AdderAt(u)
           /\ count[reg[u]] \in Nat /\ capacity[reg[u]] \in Nat /\ capacity[reg[u]] >= 1
           /\ op[u] \notin Dynamics => nextRule[u] <= Len(Statics)
  <1>1. reg[u] \in Sets
    BY DEF PlaceOK
  <1>2. Good(reg[u]) /\ AdderAt(u)
    BY <1>1 DEF SetsOK
  <1>3. count[reg[u]] \in Nat /\ capacity[reg[u]] \in Nat /\ capacity[reg[u]] >= 1
    BY <1>1 DEF SetsOK, SetTypes
  <1>4. QED
    BY <1>1, <1>2, <1>3 DEF AdderAt

LEMMA GrowStep ==
    ASSUME SetsOK, UserTypes, PlaceOK, NEW u \in Users, NEW s, s = reg[u], Grow(u) PROVE SetsOK' /\ Keeps
  <1> DEFINE cap == 2 * capacity[s]
             rs == [n \in 1 .. cap |-> IF n \in DOMAIN rules[s] THEN rules[s][n] ELSE Unwritten]
  <1>0. pc[u] \in InAdd
    BY DEF Grow, InAdd
  <1>1. /\ capacity' = [capacity EXCEPT ![s] = cap] /\ rules' = [rules EXCEPT ![s] = rs]
        /\ pc' = [pc EXCEPT ![u] = "swap"]
        /\ UNCHANGED <<mu, running, count, live, left, op, reg, nextRule>>
    BY DEF Grow, Goto
  <1>2. /\ s \in Sets /\ mu[s] = u /\ Good(s) /\ AdderAt(u)
        /\ count[s] \in Nat /\ capacity[s] \in Nat /\ capacity[s] >= 1
        /\ op[u] \notin Dynamics => nextRule[u] <= Len(Statics)
    BY <1>0, AddingFacts
  <1>3. rs \in [1 .. cap -> Entry] /\ \A n \in 1 .. capacity[s] : n \in 1 .. cap /\ rs[n] = rules[s][n]
    <2>1. Unwritten \in Entry
      BY DEF Unwritten, Entry, Field, Garbage
    <2>2. rules[s] \in [1 .. capacity[s] -> Entry]
      BY <1>2 DEF Good
    <2>3. \A n \in 1 .. capacity[s] : n \in 1 .. cap
      BY <1>2
    <2>4. QED
      BY <2>1, <2>2, <2>3
  <1> HIDE DEF rs
  <1>4. /\ capacity'[s] = cap /\ rules'[s] = rs
        /\ \A t \in Sets : t # s => SameSet(t)
    BY <1>1, <1>2 DEF SameSet, SetsOK, SetTypes
  <1>5. SetTypes'
    <2>1. capacity' \in [Sets -> Nat \ {0}]
      BY <1>1, <1>2 DEF SetsOK, SetTypes
    <2>2. rules' = [t \in Sets |-> rules'[t]]
      BY <1>1 DEF SetsOK, SetTypes
    <2>3. QED
      BY <1>1, <2>1, <2>2 DEF SetsOK, SetTypes
  <1>6. \A v \in Users : v # u => SameUser(v)
    BY <1>1 DEF SameUser, UserTypes
  <1>7. Good(s)'
    <2>1. Indices(s)' = Indices(s) /\ \A n \in Indices(s) : n \in 1 .. capacity[s]
      BY <1>1, <1>2 DEF Indices, Good
    <2>2. \A n \in Indices(s) : rules'[s][n] = rules[s][n]
      BY <1>3, <1>4, <2>1
    <2>3. Sources(s)' = Sources(s)
      BY <2>1, <2>2 DEF Sources
    <2>4. count'[s] <= capacity'[s]
      BY <1>1, <1>2, <1>4 DEF Good
    <2>5. QED
      BY <1>1, <1>2, <1>3, <1>4, <2>1, <2>2, <2>3, <2>4 DEF Good
  <1>8. AdderAt(u)'
    <2>1. pc'[u] = "swap" /\ count[s] < cap
      BY <1>1, <1>2 DEF UserTypes, Good
    <2>2. QED
      BY <1>1, <1>2, <1>4, <2>1 DEF AdderAt
  <1>9. /\ capacity[s] <= capacity'[s]
        /\ \A n \in 1 .. capacity[s] : Whole(rules[s][n]) => Whole(rules'[s][n])
    BY <1>2, <1>3, <1>4
  <1>10. QED
    BY <1>2, <1>4, <1>5, <1>6, <1>7, <1>8, <1>9, OneSet

LEMMA SwapStep ==
    ASSUME SetsOK, UserTypes, PlaceOK, NEW u \in Users, NEW s, s = reg[u], Swap(u) PROVE SetsOK' /\ Keeps
  <1>0. pc[u] \in InAdd /\ pc[u] = "swap"
    BY DEF Swap, InAdd
  <1>1. /\ pc' = [pc EXCEPT ![u] = "self"]
        /\ UNCHANGED <<mu, running, rules, count, capacity, live, left, op, reg, nextRule>>
    BY DEF Swap, Goto
  <1>2. s \in Sets /\ mu[s] = u /\ Good(s) /\ AdderAt(u) /\ capacity[s] \in Nat
    BY <1>0, AddingFacts
  <1>3. SetTypes' /\ \A t \in Sets : t # s => SameSet(t)
    BY <1>1 DEF SameSet, SetsOK, SetTypes
  <1>4. \A v \in Users : v # u => SameUser(v)
    BY <1>1 DEF SameUser, UserTypes
  <1>5. Good(s)'
    <2>1. Indices(s)' = Indices(s) /\ Sources(s)' = Sources(s)
      BY <1>1 DEF Indices, Sources
    <2>2. QED
      BY <1>1, <1>2, <2>1 DEF Good
  <1>6. AdderAt(u)'
    <2>1. pc'[u] = "self"
      BY <1>1 DEF UserTypes
    <2>2. QED
      BY <1>0, <1>1, <1>2, <2>1 DEF AdderAt
  <1>7. capacity[s] <= capacity'[s] /\ rules' = rules
    BY <1>1, <1>2
  <1>8. QED
    BY <1>2, <1>3, <1>4, <1>5, <1>6, <1>7, OneSet

(* The two stores write the entry above count, which is in the array.         *)
LEMMA StoreStep ==
    ASSUME SetsOK, UserTypes, PlaceOK, NEW u \in Users, NEW s, s = reg[u], StoreSelf(u) \/ StoreRest(u)
    PROVE  SetsOK' /\ Keeps
  <1> DEFINE m == count[s] + 1
             e == IF pc[u] = "self" THEN [rules[s][m] EXCEPT !.self = Self(Rule(u))]
                                    ELSE [rules[s][m] EXCEPT !.eval = Rule(u)]
             p == IF pc[u] = "self" THEN "rest" ELSE "count"
  <1>0. pc[u] \in InAdd /\ pc[u] \in {"self", "rest"}
    BY DEF StoreSelf, StoreRest, InAdd
  <1>1. /\ pc' = [pc EXCEPT ![u] = p]
        /\ UNCHANGED <<mu, running, count, capacity, live, left, op, reg, nextRule>>
    BY DEF StoreSelf, StoreRest, Goto
  <1>2. /\ s \in Sets /\ mu[s] = u /\ Good(s) /\ AdderAt(u)
        /\ count[s] \in Nat /\ capacity[s] \in Nat
        /\ op[u] \notin Dynamics => nextRule[u] <= Len(Statics)
    BY <1>0, AddingFacts
  <1>3. m \in 1 .. capacity[s] /\ m \notin Indices(s) /\ Indices(s) \subseteq 1 .. capacity[s]
    BY <1>0, <1>2 DEF AdderAt, Good, Indices
  <1>4. rules[s] \in [1 .. capacity[s] -> Entry] /\ rules[s][m] \in Entry
    BY <1>2, <1>3 DEF Good
  <1>5. /\ Rule(u) \in Field /\ Rule(u) # Garbage
        /\ Self(Rule(u)) \in Field /\ Self(Rule(u)) # Garbage
    BY <1>2, RuleType
  <1>6. /\ e \in Entry /\ (Whole(rules[s][m]) => Whole(e))
        /\ pc[u] = "self" => e.self = Self(Rule(u))
        /\ pc[u] = "rest" => e.self = rules[s][m].self /\ e.eval = Rule(u)
    BY <1>0, <1>4, <1>5 DEF Entry, Whole
  <1>7. rules' = [rules EXCEPT ![s] = [rules[s] EXCEPT ![m] = e]]
    <2>1. CASE pc[u] = "self"
      BY <2>1 DEF StoreSelf, StoreRest
    <2>2. CASE pc[u] = "rest"
      BY <2>2 DEF StoreSelf, StoreRest
    <2>3. QED
      BY <1>0, <2>1, <2>2
  <1> HIDE DEF e
  <1>8. /\ rules'[s] = [rules[s] EXCEPT ![m] = e]
        /\ \A t \in Sets : t # s => SameSet(t)
        /\ SetTypes'
    BY <1>1, <1>2, <1>7 DEF SameSet, SetsOK, SetTypes
  <1>9. /\ rules'[s] \in [1 .. capacity[s] -> Entry] /\ rules'[s][m] = e
        /\ \A n \in 1 .. capacity[s] : n # m => rules'[s][n] = rules[s][n]
    BY <1>3, <1>4, <1>6, <1>8
  <1>10. \A v \in Users : v # u => SameUser(v)
    BY <1>1 DEF SameUser, UserTypes
  <1>11. Good(s)'
    <2>1. Indices(s)' = Indices(s) /\ \A n \in Indices(s) : rules'[s][n] = rules[s][n]
      BY <1>1, <1>3, <1>9 DEF Indices
    <2>2. Sources(s)' = Sources(s)
      BY <2>1 DEF Sources
    <2>3. QED
      BY <1>1, <1>2, <1>9, <2>1, <2>2 DEF Good
  <1>12. AdderAt(u)'
    <2>1. pc'[u] = p /\ Rule(u)' = Rule(u)
      BY <1>1 DEF UserTypes, Rule
    <2>2. count[s] < capacity[s] /\ (pc[u] = "rest" => rules[s][m].self = Self(Rule(u)))
      BY <1>0, <1>2 DEF AdderAt
    <2>3. rules'[s][count'[s] + 1] = e
      BY <1>1, <1>9
    <2>4. QED
      BY <1>0, <1>1, <1>2, <1>6, <2>1, <2>2, <2>3 DEF AdderAt
  <1>13. /\ capacity[s] <= capacity'[s]
         /\ \A n \in 1 .. capacity[s] : Whole(rules[s][n]) => Whole(rules'[s][n])
    BY <1>1, <1>2, <1>6, <1>9
  <1>14. QED
    BY <1>2, <1>8, <1>10, <1>11, <1>12, <1>13, OneSet

LEMMA CountUpStep ==
    ASSUME SetsOK, UserTypes, PlaceOK, NEW u \in Users, NEW s, s = reg[u], CountUp(u) PROVE SetsOK' /\ Keeps
  <1> DEFINE m == count[s] + 1
             new == {Rule(u)} \cap Dynamics
             lv == IF running[s] THEN live[s] \cup new ELSE live[s]
  <1>0. pc[u] \in InAdd /\ pc[u] = "count"
    BY DEF CountUp, InAdd
  <1>1. /\ count' = [count EXCEPT ![s] = m] /\ mu' = [mu EXCEPT ![s] = None]
        /\ live' = [live EXCEPT ![s] = lv]
        /\ UNCHANGED <<running, rules, capacity, left>>
        /\ \E p \in {"idle", "static"} : pc' = [pc EXCEPT ![u] = p]
        /\ \A v \in Users : v # u => SameUser(v)
    BY DEF CountUp, Return, SameUser, UserTypes
  <1>2. /\ s \in Sets /\ mu[s] = u /\ Good(s) /\ AdderAt(u)
        /\ count[s] \in Nat /\ capacity[s] \in Nat
        /\ op[u] \notin Dynamics => nextRule[u] <= Len(Statics)
    BY <1>0, AddingFacts
  <1>3. /\ count[s] < capacity[s] /\ rules[s][m].self = Self(Rule(u)) /\ rules[s][m].eval = Rule(u)
    BY <1>0, <1>2 DEF AdderAt
  <1>4. /\ Rule(u) # Garbage /\ Self(Rule(u)) # Garbage
        /\ {Self(Rule(u))} \cap Dynamics = new
    BY <1>2, RuleType
  <1>5. new \subseteq Dynamics /\ live[s] \subseteq Dynamics
    BY <1>2 DEF SetsOK, SetTypes
  <1> HIDE DEF new
  <1>6. SetTypes'
    <2>1. live' \in [Sets -> SUBSET Dynamics]
      BY <1>1, <1>5 DEF SetsOK, SetTypes
    <2>2. count' \in [Sets -> Nat] /\ mu' \in [Sets -> Users \cup {None}]
      BY <1>1, <1>2 DEF SetsOK, SetTypes
    <2>3. QED
      BY <1>1, <2>1, <2>2 DEF SetsOK, SetTypes
  <1>7. /\ count'[s] = m /\ live'[s] = lv
        /\ \A t \in Sets : t # s => SameSet(t)
    BY <1>1, <1>2 DEF SameSet, SetsOK, SetTypes
  <1>8. Good(s)'
    <2>1. Indices(s)' = Indices(s) \cup {m}
      <3>1. \A k \in Nat : 1 .. (k + 1) = (1 .. k) \cup {k + 1}
        OBVIOUS
      <3>2. QED
        BY <1>2, <1>7, <3>1 DEF Indices
    <2>2. \A n \in Indices(s)' : Whole(rules[s][n])
      BY <1>2, <1>3, <1>4, <2>1 DEF Good, Whole
    <2>3. Sources(s)' = Sources(s) \cup new
      <3>1. Sources(s)' = {rules[s][n].self : n \in Indices(s) \cup {m}} \cap Dynamics
        BY <1>1, <2>1 DEF Sources
      <3>2. {rules[s][n].self : n \in Indices(s) \cup {m}} =
                {rules[s][n].self : n \in Indices(s)} \cup {rules[s][m].self}
        OBVIOUS
      <3>3. QED
        BY <1>3, <1>4, <3>1, <3>2 DEF Sources
    <2>4. m <= capacity[s]
      BY <1>2, <1>3
    <2>5. /\ running[s] => Sources(s) \cup new \subseteq lv
          /\ lv \subseteq (IF running[s] THEN Sources(s) \cup new ELSE {}) \cup left[s]
      BY <1>2 DEF Good
    <2>6. QED
      BY <1>1, <1>2, <1>7, <2>2, <2>3, <2>4, <2>5 DEF Good
  <1>9. AdderAt(u)'
    <2>1. pc'[u] \in {"idle", "static"}
      BY <1>1 DEF UserTypes
    <2>2. QED
      BY <2>1 DEF AdderAt, InAdd
  <1>10. capacity[s] <= capacity'[s] /\ rules' = rules
    BY <1>1, <1>2
  <1>11. QED
    BY <1>1, <1>2, <1>6, <1>7, <1>8, <1>9, <1>10, OneSet

(* start, stop and reset, which wait until nobody is in add_rule.             *)
LEMMA StartStopStep ==
    ASSUME SetsOK, UserTypes, PlaceOK, NEW u \in Users, NEW s \in Sets, pc'[u] \notin InAdd,
           \A v \in Users : v # u => SameUser(v),
           RulesetStart(s) \/ RulesetStop(s) \/ RulesetReset(s)
    PROVE  SetsOK' /\ Keeps
  <1>1. /\ mu[s] = None /\ UNCHANGED <<mu, rules, capacity>>
        /\ count' = count \/ count' = [count EXCEPT ![s] = 0]
        /\ running' \in {[running EXCEPT ![s] = TRUE], [running EXCEPT ![s] = FALSE]}
    BY DEF RulesetStart, RulesetStop, RulesetReset
  <1>2. /\ Good(s) /\ live[s] \subseteq Dynamics /\ left[s] \subseteq Dynamics
        /\ Sources(s) \subseteq Dynamics /\ count[s] \in Nat /\ capacity[s] \in Nat
    BY DEF SetsOK, SetTypes, Sources
  <1>3. \E lv, lf \in SUBSET Dynamics : live' = [live EXCEPT ![s] = lv] /\ left' = [left EXCEPT ![s] = lf]
    <2>1. live = [live EXCEPT ![s] = live[s]] /\ left = [left EXCEPT ![s] = left[s]]
      BY DEF SetsOK, SetTypes
    <2>2. CASE RulesetStart(s)
      BY <1>2, <2>1, <2>2 DEF RulesetStart
    <2>3. CASE RulesetStop(s)
      BY <1>2, <2>1, <2>3 DEF RulesetStop
    <2>4. CASE RulesetReset(s)
      BY <1>2, <2>1, <2>4 DEF RulesetReset
    <2>5. QED
      BY <2>2, <2>3, <2>4
  <1>4. SetTypes' /\ \A t \in Sets : t # s => SameSet(t)
    <2>1. count' \in [Sets -> Nat] /\ \A t \in Sets : t # s => count'[t] = count[t]
      BY <1>1 DEF SetsOK, SetTypes
    <2>2. running' \in [Sets -> BOOLEAN] /\ \A t \in Sets : t # s => running'[t] = running[t]
      BY <1>1 DEF SetsOK, SetTypes
    <2>3. /\ live' \in [Sets -> SUBSET Dynamics] /\ left' \in [Sets -> SUBSET Dynamics]
          /\ \A t \in Sets : t # s => live'[t] = live[t] /\ left'[t] = left[t]
      BY <1>3 DEF SetsOK, SetTypes
    <2>4. QED
      BY <1>1, <2>1, <2>2, <2>3 DEF SameSet, SetsOK, SetTypes
  <1>5. Good(s)'
    <2>1. CASE RulesetReset(s)
      <3>1. count'[s] = 0 /\ running'[s] = FALSE /\ left'[s] = live[s] /\ live' = live
        BY <2>1 DEF RulesetReset, SetsOK, SetTypes
      <3>2. Indices(s)' = {}
        BY <3>1 DEF Indices
      <3>3. QED
        BY <1>1, <1>2, <3>1, <3>2 DEF Good
    <2>2. CASE RulesetStart(s) \/ RulesetStop(s)
      <3>1. count' = count
        BY <2>2 DEF RulesetStart, RulesetStop
      <3>2. Indices(s)' = Indices(s) /\ Sources(s)' = Sources(s)
        BY <1>1, <3>1 DEF Indices, Sources
      <3>3. \/ running'[s] = TRUE /\ live'[s] = live[s] \cup Sources(s) /\ left'[s] = left[s]
            \/ /\ running'[s] = FALSE /\ live'[s] = live[s] \ Sources(s)
               /\ left'[s] = left[s] \ Sources(s)
        BY <2>2 DEF RulesetStart, RulesetStop, SetsOK, SetTypes
      <3>4. /\ running'[s] => Sources(s) \subseteq live'[s]
            /\ live'[s] \subseteq (IF running'[s] THEN Sources(s) ELSE {}) \cup left'[s]
        BY <1>2, <3>3 DEF Good
      <3>5. QED
        BY <1>1, <1>2, <3>1, <3>2, <3>4 DEF Good
    <2>3. QED
      BY <2>1, <2>2
  <1>6. AdderAt(u)'
    BY DEF AdderAt
  <1>7. capacity[s] <= capacity'[s] /\ rules' = rules
    BY <1>1, <1>2
  <1>8. QED
    BY <1>1, <1>4, <1>5, <1>6, <1>7, OneSet
-----------------------------------------------------------------------------
(* The threads of the program.                                                *)

Placed(u) ==
    /\ pc[u] \in {"test", "create", "load"} => op[u] \in Methods
    /\ pc[u] = "load" => ptr # 0
    /\ pc[u] \in {"static", "spawn", "stop", "restart", "reset"} => reg[u] \in Sets
    /\ pc[u] = "register" => reg[u] \in Sets /\ op[u] \in Dynamics
    /\ pc[u] \in InAdd => reg[u] \in Sets

LEMMA CreatingFinite ==
    /\ IsFiniteSet(Creating) /\ Cardinality(Creating) \in Nat
    /\ Cardinality(Creating) <= Cardinality(Users)
    /\ Cardinality(Users) \in Nat
  <1>1. Creating \subseteq Users
    BY DEF Creating
  <1>2. QED
    BY <1>1, RulesAssumption, FS_Subset, FS_CardinalityType

(* A thread that moves without touching the pointer.                          *)
LEMMA ThreadMoves ==
    ASSUME UserTypes, PointerOK, PlaceOK, NEW u \in Users, UserTypes',
           UNCHANGED <<ptr, made>>, pc'[u] # "create", Placed(u)',
           \A v \in Users : v # u => pc'[v] = pc[v] /\ op'[v] = op[v] /\ reg'[v] = reg[v]
    PROVE  PointerOK' /\ PlaceOK'
  <1>1. Creating' \subseteq Creating
    <2>1. SUFFICES ASSUME NEW v \in Users, pc'[v] = "create" PROVE pc[v] = "create"
      BY DEF Creating
    <2>2. v # u
      BY <2>1
    <2>3. QED
      BY <2>1, <2>2
  <1>2. Cardinality(Creating') <= Cardinality(Creating) /\ Cardinality(Creating') \in Nat
    BY <1>1, CreatingFinite, FS_Subset, FS_CardinalityType
  <1>3. PointerOK'
    BY <1>2, CreatingFinite DEF PointerOK
  <1>4. PlaceOK'
    BY DEF PlaceOK, Placed
  <1>5. QED
    BY <1>3, <1>4

(* Return and Goto are such moves.                                            *)
LEMMA ReturnStep ==
    ASSUME UserTypes, PointerOK, PlaceOK, NEW u \in Users, Return(u), UNCHANGED <<ptr, made>>
    PROVE  UserTypes' /\ PointerOK' /\ PlaceOK'
  <1>1. UserTypes'
    BY DEF UserTypes, Return, Labels
  <1>2. pc'[u] = "idle"
    BY DEF UserTypes, Return
  <1>4. Placed(u)'
    BY <1>2 DEF Placed, InAdd
  <1>5. \A v \in Users : v # u => pc'[v] = pc[v] /\ op'[v] = op[v] /\ reg'[v] = reg[v]
    BY DEF UserTypes, Return
  <1>6. QED
    BY <1>1, <1>2, <1>4, <1>5, ThreadMoves

LEMMA CallStep ==
    ASSUME UserTypes, PointerOK, PlaceOK, NEW u \in Users, NEW m \in Methods, Call(u, m)
    PROVE  UserTypes' /\ PointerOK' /\ PlaceOK'
  <1> DEFINE p == IF m \in {"stop", "restart", "reset"} THEN "load" ELSE "test"
  <1>1. /\ op' = [op EXCEPT ![u] = m] /\ pc' = [pc EXCEPT ![u] = p]
        /\ UNCHANGED <<ptr, made, reg, nextRule>>
        /\ p = "load" => ptr # 0
        /\ p \in Labels /\ p \in {"load", "test"}
    BY DEF Call, Labels
  <1>2. UserTypes'
    BY <1>1 DEF UserTypes
  <1>3. pc'[u] = p /\ op'[u] = m
    BY <1>1 DEF UserTypes
  <1>5. Placed(u)' /\ pc'[u] # "create"
    BY <1>1, <1>3 DEF Placed, InAdd
  <1>6. \A v \in Users : v # u => pc'[v] = pc[v] /\ op'[v] = op[v] /\ reg'[v] = reg[v]
    BY <1>1 DEF UserTypes
  <1>7. QED
    BY <1>1, <1>2, <1>5, <1>6, ThreadMoves

LEMMA TestStep ==
    ASSUME UserTypes, PointerOK, PlaceOK, NEW u \in Users, Test(u)
    PROVE  UserTypes' /\ PointerOK' /\ PlaceOK'
  <1> DEFINE p == IF ptr = 0 THEN "create" ELSE "load"
  <1>1. /\ pc[u] = "test" /\ pc' = [pc EXCEPT ![u] = p] /\ p \in {"create", "load"} /\ p \in Labels
        /\ UNCHANGED <<ptr, made, op, reg, nextRule>>
    BY DEF Test, Goto, Labels
  <1>2. UserTypes'
    BY <1>1 DEF UserTypes
  <1>3. /\ pc'[u] = p
        /\ \A v \in Users : v # u => pc'[v] = pc[v] /\ op'[v] = op[v] /\ reg'[v] = reg[v]
    BY <1>1 DEF UserTypes
  <1>5. PlaceOK'
    BY <1>1, <1>3 DEF PlaceOK, InAdd
  <1>6. PointerOK'
    <2>1. CASE ptr = 0
      <3>1. Creating' \subseteq Users
        BY DEF Creating
      <3>2. Cardinality(Creating') <= Cardinality(Users) /\ Cardinality(Creating') \in Nat
        BY <3>1, RulesAssumption, FS_Subset, FS_CardinalityType
      <3>3. made = 0
        BY <2>1 DEF PointerOK
      <3>4. QED
        BY <1>1, <2>1, <3>2, <3>3 DEF PointerOK
    <2>2. CASE ptr # 0
      <3>1. Placed(u)'
        BY <1>1, <1>3, <1>5 DEF PlaceOK, Placed
      <3>2. QED
        BY <1>1, <1>2, <1>3, <2>2, <3>1, ThreadMoves
    <2>3. QED
      BY <2>1, <2>2
  <1>7. QED
    BY <1>2, <1>5, <1>6

LEMMA CreateStep ==
    ASSUME UserTypes, PointerOK, PlaceOK, NEW u \in Users, Create(u)
    PROVE  UserTypes' /\ PointerOK' /\ PlaceOK'
  <1>1. /\ pc[u] = "create" /\ pc' = [pc EXCEPT ![u] = "load"]
        /\ made' = made + 1 /\ ptr' = made + 1
        /\ UNCHANGED <<op, reg, nextRule>>
    BY DEF Create, Goto
  <1>2. UserTypes'
    BY <1>1 DEF UserTypes, Labels
  <1>3. \A v \in Users : pc'[v] = IF v = u THEN "load" ELSE pc[v]
    BY <1>1 DEF UserTypes
  <1>4. made \in Nat
    BY DEF PointerOK
  <1>6. PlaceOK'
    BY <1>1, <1>3, <1>4 DEF PlaceOK, InAdd
  <1>7. Creating' = Creating \ {u} /\ u \in Creating
    BY <1>1, <1>3 DEF Creating
  <1>8. Cardinality(Creating') = Cardinality(Creating) - 1
    BY <1>7, CreatingFinite, FS_RemoveElement
  <1>9. PointerOK'
    BY <1>1, <1>4, <1>8, CreatingFinite DEF PointerOK
  <1>10. QED
    BY <1>2, <1>6, <1>9

LEMMA LoadStep ==
    ASSUME UserTypes, PointerOK, PlaceOK, NEW u \in Users, Load(u)
    PROVE  UserTypes' /\ PointerOK' /\ PlaceOK'
  <1> DEFINE p == IF op[u] = "start" THEN "static"
                  ELSE IF op[u] \in Dynamics THEN "register" ELSE op[u]
  <1>1. /\ pc[u] = "load" /\ reg' = [reg EXCEPT ![u] = ptr] /\ pc' = [pc EXCEPT ![u] = p]
        /\ UNCHANGED <<ptr, made, op, nextRule>>
    BY DEF Load
  <1>2. ptr \in Sets
    BY <1>1, CreatingFinite DEF PlaceOK, PointerOK, Sets
  <1>3. p \in {"static", "register", "stop", "restart", "reset"} /\ (p = "register" => op[u] \in Dynamics)
    <2>1. op[u] \in Methods
      BY <1>1 DEF PlaceOK
    <2>2. "register" \notin Dynamics
      BY RulesAssumption DEF Labels
    <2>3. QED
      BY <2>1, <2>2 DEF Methods
  <1>4. UserTypes'
    BY <1>1, <1>2, <1>3 DEF UserTypes, Labels
  <1>5. /\ pc'[u] = p /\ reg'[u] \in Sets /\ op'[u] = op[u]
        /\ \A v \in Users : v # u => pc'[v] = pc[v] /\ op'[v] = op[v] /\ reg'[v] = reg[v]
    BY <1>1, <1>2 DEF UserTypes
  <1>6. p \notin {"test", "create", "load"} \cup InAdd
    BY <1>3 DEF InAdd
  <1>7. Placed(u)' /\ pc'[u] # "create"
    BY <1>3, <1>5, <1>6 DEF Placed
  <1>8. QED
    BY <1>1, <1>4, <1>5, <1>7, ThreadMoves

-----------------------------------------------------------------------------
(* The loops, when a ruleset changes and when they move.                      *)

LEMMA LoopsKept ==
    ASSUME SetsOK, SetsOK', LoopTypes, LoopOK, Keeps, UNCHANGED loopVars
    PROVE  LoopTypes' /\ LoopOK'
  <1>1. UNCHANGED <<at, of, seen, i>>
    BY DEF loopVars
  <1>2. LoopTypes'
    BY <1>1 DEF LoopTypes
  <1>3. ASSUME NEW l \in Loops, at[l] \in {"fetch", "read"}
        PROVE  i[l] <= capacity'[of[l]] /\ Whole(rules'[of[l]][i[l]])
    <2>1. of[l] \in Sets /\ i[l] <= capacity[of[l]] /\ Whole(rules[of[l]][i[l]])
      BY <1>3 DEF LoopOK
    <2>2. i[l] \in 1 .. capacity[of[l]] /\ capacity[of[l]] \in Nat /\ capacity'[of[l]] \in Nat
      BY <2>1 DEF SetsOK, SetTypes, LoopTypes
    <2>3. QED
      BY <2>1, <2>2 DEF Keeps
  <1>4. QED
    BY <1>1, <1>2, <1>3 DEF LoopOK

LEMMA SpawnLoops ==
    ASSUME UserTypes, LoopTypes, LoopOK, PlaceOK, UNCHANGED setVars, NEW u \in Users, Spawn(u)
    PROVE  LoopTypes' /\ LoopOK'
  <1>1. reg[u] \in Sets
    BY DEF Spawn, PlaceOK
  <1>2. PICK l \in Loops : /\ at' = [at EXCEPT ![l] = "check"]
                           /\ of' = [of EXCEPT ![l] = reg[u]]
                           /\ UNCHANGED <<seen, i>>
    BY DEF Spawn
  <1>3. LoopTypes'
    BY <1>1, <1>2 DEF LoopTypes
  <1>4. rules' = rules /\ capacity' = capacity
    BY DEF setVars
  <1>5. QED
    BY <1>1, <1>2, <1>3, <1>4 DEF LoopOK, LoopTypes

LEMMA LoopMoves ==
    ASSUME SetsOK, LoopTypes, LoopOK, NEW l \in Loops, Loop(l)
    PROVE  LoopTypes' /\ LoopOK' /\ UNCHANGED <<ptr, made, setVars, userVars>>
  <1>0. /\ UNCHANGED <<ptr, made, setVars, userVars, of>>
        /\ rules' = rules /\ capacity' = capacity /\ at[l] \in {"check", "pass", "fetch", "read"}
    BY DEF Loop, Check, Pass, Fetch, Eval, setVars
  <1>1. of[l] \in Sets /\ i[l] \in Nat \ {0}
    BY <1>0 DEF LoopOK, LoopTypes
  <1>2. CASE Check(l)
    <2>1. i' = i /\ \E p \in {"pass", "done"} : at' = [at EXCEPT ![l] = p]
      BY <1>2 DEF Check
    <2>2. QED
      BY <1>0, <1>1, <2>1 DEF LoopTypes, LoopOK
  <1>3. CASE Pass(l)
    <2>1. CASE i[l] <= count[of[l]]
      <3>1. i' = i /\ at' = [at EXCEPT ![l] = "fetch"]
        BY <1>3, <2>1 DEF Pass
      <3>2. i[l] <= capacity[of[l]] /\ Whole(rules[of[l]][i[l]])
        <4>1. Good(of[l]) /\ count[of[l]] \in Nat /\ capacity[of[l]] \in Nat
          BY <1>1 DEF SetsOK, SetTypes
        <4>2. i[l] \in Indices(of[l])
          BY <1>1, <2>1, <4>1 DEF Indices
        <4>3. QED
          BY <1>1, <2>1, <4>1, <4>2 DEF Good
      <3>3. QED
        BY <1>0, <1>1, <3>1, <3>2 DEF LoopTypes, LoopOK
    <2>2. CASE ~(i[l] <= count[of[l]])
      <3>1. i' = [i EXCEPT ![l] = 1] /\ at' = [at EXCEPT ![l] = "check"]
        BY <1>3, <2>2 DEF Pass
      <3>2. QED
        BY <1>0, <1>1, <3>1 DEF LoopTypes, LoopOK
    <2>3. QED
      BY <2>1, <2>2
  <1>4. CASE Fetch(l)
    <2>1. i' = i /\ at[l] = "fetch" /\ at' = [at EXCEPT ![l] = "read"]
      BY <1>4 DEF Fetch
    <2>2. i[l] <= capacity[of[l]] /\ Whole(rules[of[l]][i[l]])
      BY <2>1 DEF LoopOK
    <2>3. QED
      BY <1>0, <1>1, <2>1, <2>2 DEF LoopTypes, LoopOK
  <1>5. CASE Eval(l)
    <2>1. i' = [i EXCEPT ![l] = @ + 1] /\ at' = [at EXCEPT ![l] = "pass"]
      BY <1>5 DEF Eval
    <2>2. QED
      BY <1>0, <1>1, <2>1 DEF LoopTypes, LoopOK
  <1>6. QED
    BY <1>0, <1>2, <1>3, <1>4, <1>5 DEF Loop

-----------------------------------------------------------------------------
(* Steps of a method that change no ruleset, and those that do.               *)

LEMMA QuietSets ==
    ASSUME SetsOK, UNCHANGED setVars,
           \A v \in Users : AdderAt(v)'
    PROVE  SetsOK' /\ Keeps
  <1>1. UNCHANGED <<mu, running, rules, block, array, count, capacity, live, left>>
    BY DEF setVars
  <1>2. SetTypes'
    BY <1>1 DEF SetsOK, SetTypes
  <1>3. ASSUME NEW s \in Sets PROVE Good(s)'
    <2>1. Indices(s)' = Indices(s) /\ Sources(s)' = Sources(s) /\ Good(s)
      BY <1>1 DEF SetsOK, Indices, Sources
    <2>2. QED
      BY <1>1, <2>1 DEF Good
  <1>4. Keeps
    BY <1>1 DEF SetsOK, SetTypes, Keeps
  <1>5. QED
    BY <1>2, <1>3, <1>4 DEF SetsOK

(* A step of a thread outside add_rule.                                       *)
LEMMA QuietStep ==
    ASSUME SetsOK, UNCHANGED setVars, NEW u \in Users, pc'[u] \notin InAdd,
           \A v \in Users : v # u => SameUser(v)
    PROVE  SetsOK' /\ Keeps
  <1>1. UNCHANGED <<mu, rules, count, capacity>>
    BY DEF setVars
  <1>2. ASSUME NEW v \in Users PROVE AdderAt(v)'
    <2>1. CASE v = u
      BY <2>1 DEF AdderAt
    <2>2. CASE v # u
      <3>1. SameUser(v) /\ AdderAt(v)
        BY <2>2 DEF SetsOK
      <3>2. Rule(v)' = Rule(v)
        BY <3>1 DEF Rule, SameUser
      <3>3. QED
        BY <1>1, <3>1, <3>2 DEF AdderAt, SameUser
    <2>3. QED
      BY <2>1, <2>2
  <1>3. QED
    BY <1>2, QuietSets

LEMMA MethodUsers ==
    ASSUME UsersOK, NEW u \in Users, Method(u) PROVE UsersOK'
  <1> USE DEF UsersOK
  <1>1. CASE Test(u)
    BY <1>1, TestStep
  <1>2. CASE Create(u)
    BY <1>2, CreateStep
  <1>3. CASE Load(u)
    BY <1>3, LoadStep
  <1>4. ASSUME reg[u] \in Sets, NEW p \in InAdd, pc' = [pc EXCEPT ![u] = p],
               UNCHANGED <<ptr, made, op, reg, nextRule>>
        PROVE  UsersOK'
    <2>1. p \in Labels /\ p \notin {"test", "create", "load", "static", "spawn", "stop", "restart", "reset", "register"}
      BY DEF InAdd, Labels
    <2>2. UserTypes'
      BY <1>4, <2>1 DEF UserTypes
    <2>3. pc'[u] = p /\ \A v \in Users : v # u => pc'[v] = pc[v]
      BY <1>4 DEF UserTypes
    <2>4. Placed(u)'
      BY <1>4, <2>1, <2>3 DEF Placed
    <2>5. QED
      BY <1>4, <2>1, <2>2, <2>3, <2>4, ThreadMoves
  <1>10. CASE Register(u) \/ AddStatic(u)
    <2>1. reg[u] \in Sets
      BY <1>10 DEF Register, AddStatic, PlaceOK
    <2>2. /\ UNCHANGED <<ptr, made, op, reg, nextRule>>
          /\ \E p \in InAdd : pc' = [pc EXCEPT ![u] = p]
      BY <1>10 DEF Register, AddStatic, AddRule, Goto, InAdd
    <2>3. QED
      BY <1>4, <2>1, <2>2
  <1>11. CASE Grow(u) \/ Swap(u) \/ StoreSelf(u) \/ StoreRest(u)
    <2>1. reg[u] \in Sets
      BY <1>11 DEF Grow, Swap, StoreSelf, StoreRest, InAdd, PlaceOK
    <2>2. /\ UNCHANGED <<ptr, made, op, reg, nextRule>>
          /\ \E p \in InAdd : pc' = [pc EXCEPT ![u] = p]
      BY <1>11 DEF Grow, Swap, StoreSelf, StoreRest, Goto, InAdd
    <2>3. QED
      BY <1>4, <2>1, <2>2
  <1>12. CASE CountUp(u) /\ op[u] \notin Dynamics
    <2>1. /\ pc' = [pc EXCEPT ![u] = "static"] /\ nextRule' = [nextRule EXCEPT ![u] = @ + 1]
          /\ UNCHANGED <<ptr, made, op, reg>> /\ reg[u] \in Sets
      BY <1>12 DEF CountUp, InAdd, PlaceOK
    <2>2. UserTypes'
      BY <2>1 DEF UserTypes, Labels
    <2>3. pc'[u] = "static" /\ \A v \in Users : v # u => pc'[v] = pc[v]
      BY <2>1 DEF UserTypes
    <2>4. Placed(u)'
      BY <2>1, <2>3 DEF Placed, InAdd
    <2>5. QED
      BY <2>1, <2>2, <2>3, <2>4, ThreadMoves
  <1>5. CASE StartSet(u)
    <2>1. pc[u] = "static" /\ pc' = [pc EXCEPT ![u] = "spawn"]
          /\ UNCHANGED <<ptr, made, op, reg, nextRule>>
      BY <1>5 DEF StartSet, Goto
    <2>2. UserTypes'
      BY <2>1 DEF UserTypes, Labels
    <2>3. /\ pc'[u] = "spawn" /\ reg[u] \in Sets
          /\ \A v \in Users : v # u => pc'[v] = pc[v]
      BY <2>1 DEF UserTypes, PlaceOK
    <2>5. Placed(u)'
      BY <2>1, <2>3 DEF Placed, InAdd
    <2>6. QED
      BY <2>1, <2>2, <2>3, <2>5, ThreadMoves
  <1>6. ASSUME Return(u), UNCHANGED <<ptr, made>> PROVE UsersOK'
    BY <1>6, ReturnStep
  <1>7. CASE Stop(u) /\ op[u] # "stop"
    <2>1. pc' = [pc EXCEPT ![u] = "test"] /\ op' = [op EXCEPT ![u] = "start"]
          /\ UNCHANGED <<ptr, made, reg, nextRule>>
      BY <1>7 DEF Stop
    <2>2. UserTypes'
      BY <2>1 DEF UserTypes, Labels, Methods
    <2>3. /\ pc'[u] = "test" /\ op'[u] = "start"
          /\ \A v \in Users : v # u => pc'[v] = pc[v] /\ op'[v] = op[v] /\ reg'[v] = reg[v]
      BY <2>1 DEF UserTypes
    <2>5. Placed(u)'
      BY <2>3 DEF Placed, Methods, InAdd
    <2>6. QED
      BY <2>1, <2>2, <2>3, <2>5, ThreadMoves
  <1>8. CASE Spawn(u) \/ (Stop(u) /\ op[u] = "stop") \/ Reset(u) \/ (CountUp(u) /\ op[u] \in Dynamics)
    BY <1>6, <1>8 DEF Spawn, Stop, Reset, CountUp
  <1>9. QED
    BY <1>1, <1>2, <1>3, <1>5, <1>7, <1>8, <1>10, <1>11, <1>12 DEF Method, Adding

LEMMA MethodSets ==
    ASSUME SetsOK, UsersOK, UsersOK', NEW u \in Users, Method(u) PROVE SetsOK' /\ Keeps
  <1> USE DEF UsersOK
  <1>1. CASE Register(u) \/ AddStatic(u)
    BY <1>1, AddRuleStep
  <1>2. CASE Adding(u)
    BY <1>2, GrowStep, SwapStep, StoreStep, CountUpStep DEF Adding
  <1>3. CASE Test(u) \/ Create(u) \/ Spawn(u)
    <2>1. UNCHANGED setVars /\ pc'[u] \notin InAdd /\ \A v \in Users : v # u => SameUser(v)
      BY <1>3 DEF Test, Create, Spawn, Goto, Return, UserTypes, SameUser, InAdd
    <2>2. QED
      BY <2>1, QuietStep
  <1>4. CASE Load(u)
    <2>1. UNCHANGED setVars /\ \A v \in Users : v # u => SameUser(v)
      BY <1>4 DEF Load, UserTypes, SameUser
    <2>2. pc'[u] \notin InAdd
      <3>1. op[u] \in Methods
        BY <1>4 DEF Load, PlaceOK
      <3>2. pc'[u] \in {"static", "register", "stop", "restart", "reset"}
        BY <1>4, <3>1 DEF Load, UserTypes, Methods
      <3>3. QED
        BY <3>2 DEF InAdd
    <2>3. QED
      BY <2>1, <2>2, QuietStep
  <1>5. CASE StartSet(u) \/ Stop(u) \/ Reset(u)
    <2>1. reg[u] \in Sets
      BY <1>5 DEF StartSet, Stop, Reset, PlaceOK
    <2>2. pc'[u] \notin InAdd /\ \A v \in Users : v # u => SameUser(v)
      BY <1>5 DEF StartSet, Stop, Reset, Goto, Return, UserTypes, SameUser, InAdd
    <2>3. QED
      BY <1>5, <2>1, <2>2, StartStopStep DEF StartSet, Stop, Reset
  <1>6. QED
    BY <1>1, <1>2, <1>3, <1>4, <1>5 DEF Method

-----------------------------------------------------------------------------
(* The invariant and its theorems.                                            *)

LEMMA RulesInit == Init => RulesInv
  <1> SUFFICES ASSUME Init PROVE RulesInv
    OBVIOUS
  <1>1. SetTypes
    BY RulesAssumption DEF Init, SetTypes
  <1>2. UserTypes /\ LoopTypes
    BY DEF Init, UserTypes, LoopTypes, Labels
  <1>3. PointerOK
    <2>1. Creating = {}
      BY DEF Init, Creating
    <2>2. QED
      BY <2>1, FS_EmptySet, CreatingFinite DEF Init, PointerOK
  <1>4. PlaceOK /\ LoopOK /\ \A u \in Users : AdderAt(u)
    BY DEF Init, PlaceOK, LoopOK, AdderAt, InAdd
  <1>5. ASSUME NEW s \in Sets PROVE Good(s)
    <2>1. Indices(s) = {} /\ Sources(s) = {}
      BY DEF Init, Indices, Sources
    <2>2. Unwritten \in Entry
      BY DEF Unwritten, Entry, Field, Garbage
    <2>3. QED
      BY <2>1, <2>2, RulesAssumption DEF Init, Good
  <1>6. QED
    BY <1>1, <1>2, <1>3, <1>4, <1>5 DEF RulesInv, SetsOK, UsersOK

LEMMA RulesStep == RulesInv /\ [Next]_vars => RulesInv'
  <1> SUFFICES ASSUME RulesInv, [Next]_vars PROVE RulesInv'
    OBVIOUS
  <1>0. SetsOK /\ UsersOK /\ LoopTypes /\ LoopOK
    BY DEF RulesInv
  <1>1. SUFFICES SetsOK' /\ UsersOK' /\ LoopTypes' /\ LoopOK'
    BY DEF RulesInv
  <1>2. ASSUME NEW u \in Users, Method(u) PROVE SetsOK' /\ UsersOK' /\ LoopTypes' /\ LoopOK'
    <2>1. SetsOK' /\ UsersOK' /\ Keeps
      BY <1>0, <1>2, MethodSets, MethodUsers
    <2>2. CASE Spawn(u)
      BY <1>0, <2>1, <2>2, SpawnLoops DEF Spawn, UsersOK
    <2>3. CASE ~Spawn(u)
      <3>1. UNCHANGED loopVars
        BY <1>2, <2>3 DEF Method, Test, Create, Load, Register, AddStatic, AddRule, Adding, Grow, Swap,
                          StoreSelf, StoreRest, CountUp, StartSet, Stop, Reset
      <3>2. QED
        BY <1>0, <2>1, <3>1, LoopsKept
    <2>4. QED
      BY <2>1, <2>2, <2>3
  <1>3. ASSUME NEW u \in Users, NEW m \in Methods, Call(u, m)
        PROVE  SetsOK' /\ UsersOK' /\ LoopTypes' /\ LoopOK'
    <2>1. UsersOK'
      BY <1>0, <1>3, CallStep DEF UsersOK
    <2>2. pc'[u] \notin InAdd /\ \A v \in Users : v # u => SameUser(v)
      BY <1>0, <1>3 DEF Call, UsersOK, UserTypes, SameUser, InAdd
    <2>3. SetsOK' /\ Keeps /\ UNCHANGED loopVars
      BY <1>0, <1>3, <2>2, QuietStep DEF Call
    <2>4. QED
      BY <1>0, <2>1, <2>3, LoopsKept
  <1>4. ASSUME UNCHANGED <<ptr, made, setVars, userVars>> PROVE SetsOK' /\ UsersOK' /\ Keeps
    <2>1. UNCHANGED <<pc, op, reg, nextRule>> /\ UNCHANGED <<mu, rules, count, capacity>>
      BY <1>4 DEF userVars, setVars
    <2>2. UsersOK'
      BY <1>0, <1>4, <2>1 DEF UsersOK, UserTypes, PointerOK, PlaceOK, Creating
    <2>3. ASSUME NEW v \in Users PROVE AdderAt(v)'
      <3>1. Rule(v)' = Rule(v) /\ AdderAt(v)
        BY <1>0, <2>1 DEF Rule, SetsOK
      <3>2. QED
        BY <2>1, <3>1 DEF AdderAt
    <2>4. QED
      BY <1>0, <1>4, <2>2, <2>3, QuietSets
  <1>5. ASSUME NEW l \in Loops, Loop(l) PROVE SetsOK' /\ UsersOK' /\ LoopTypes' /\ LoopOK'
    <2>1. LoopTypes' /\ LoopOK' /\ UNCHANGED <<ptr, made, setVars, userVars>>
      BY <1>0, <1>5, LoopMoves
    <2>2. QED
      BY <1>4, <2>1
  <1>6. CASE UNCHANGED vars
    <2>1. UNCHANGED <<ptr, made, setVars, userVars>> /\ UNCHANGED loopVars
      BY <1>6 DEF vars
    <2>2. QED
      BY <1>0, <1>4, <2>1, LoopsKept
  <1>7. QED
    BY <1>2, <1>3, <1>5, <1>6 DEF Next

LEMMA RulesInvariance == Spec => []RulesInv
  BY RulesInit, RulesStep, PTL DEF Spec

LEMMA InvReads == RulesInv => ReadsWritten
  <1> SUFFICES ASSUME RulesInv, NEW l \in Loops, at[l] = "read"
               PROVE  i[l] \in DOMAIN rules[of[l]] /\ Whole(rules[of[l]][i[l]])
    BY DEF ReadsWritten, Whole
  <1>1. of[l] \in Sets /\ i[l] <= capacity[of[l]] /\ Whole(rules[of[l]][i[l]])
    BY DEF RulesInv, LoopOK
  <1>2. i[l] \in Nat \ {0} /\ capacity[of[l]] \in Nat
    BY <1>1 DEF RulesInv, SetsOK, SetTypes, LoopTypes
  <1>3. rules[of[l]] \in [1 .. capacity[of[l]] -> Entry]
    BY <1>1 DEF RulesInv, SetsOK, Good
  <1>4. QED
    BY <1>1, <1>2, <1>3

(* However many threads register, start, stop, restart and reset: what the    *)
(* loops read without the mutex, from a block no realloc has freed meanwhile, *)
(* lies inside it and was stored by an add_rule.                              *)
THEOREM EvaluationSafe == Spec => []ReadsWritten
  BY RulesInvariance, InvReads, PTL

(* In every order of these calls the sources of a running ruleset have been   *)
(* started, and what is started otherwise was left so by a reset.             *)
THEOREM SourcesCorrect == Spec => []SourcesFollow
<1>1. RulesInv => SourcesFollow
  BY DEF RulesInv, SetsOK, Good, SourcesFollow
<1> QED
  BY RulesInvariance, <1>1, PTL

=============================================================================
