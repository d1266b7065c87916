----------------------------- MODULE EmitProofs -----------------------------
(***************************************************************************)
(* Proofs about Emit for every body: any names, parameters and menus of     *)
(* statements, any number of statements and any nesting.                    *)
(*                                                                          *)
(* IInv, the invariant of the emitter, says that the code written so far    *)
(* satisfies the judgements of EmitRules, and that the constructs whose     *)
(* emitXStmt has not returned will place the labels that the code jumps to, *)
(* where the paths that jump hold what they are expected to hold.  It is    *)
(* inductive: one lemma for each action.  It says that the code is well     *)
(* formed.  RInv, the invariant of the run, adds that the registers the     *)
(* judgement gives the next instruction hold the references that the counts *)
(* of the objects count; it says that nothing is used after it was freed    *)
(* and that nothing leaks.                                                  *)
(***************************************************************************)
EXTENDS EmitRules

-----------------------------------------------------------------------------
(* The constructs being emitted.                                              *)

(* The constructs break and continue leave.                                   *)
LoopKinds == {"while", "for", "range"}

(* The frames of open.                                                         *)
Frames ==
    [kind : {"fn", "then", "else", "block"} \cup LoopKinds, label : Nat, ends : BOOLEAN]

(* The labels of a construct are the Width(f) labels after f.label.            *)
Width(f) ==
    IF f.kind \in {"then", "else", "while"} THEN 3
    ELSE IF f.kind \in {"for", "range"} THEN 4 ELSE 0

(* The labels it has not placed yet.                                           *)
Owed(f) ==
    IF f.kind = "then" THEN {f.label + 2, f.label + 3}
    ELSE IF f.kind \in {"else", "while"} THEN {f.label + 3}
    ELSE IF f.kind \in {"for", "range"} THEN {f.label + 3, f.label + 4}
    ELSE {}

(* Those of them it will place whatever its block holds.                      *)
Due(f) ==
    IF f.kind = "then" THEN {f.label + 2}
    ELSE IF f.kind = "else" /\ f.ends THEN {}
    ELSE Owed(f)

(* The label of a loop's condition, which it has placed and may branch back to.*)
Cond(f) == IF f.kind \in LoopKinds THEN {f.label + 1} ELSE {}

(* What a loop pushes on cg.loopLabels.                                       *)
LoopOf(f) ==
    [continue |-> IF f.kind = "while" THEN f.label + 1 ELSE f.label + 3,
     end |-> f.label + Width(f)]

(* The scopes it has pushed.                                                   *)
Pushes(f) == IF f.kind \in {"fn", "else"} THEN 2 ELSE 1

(* The labels of a construct are its own, and those still due are owed.       *)
LEMMA FrameLabels ==
    ASSUME NEW f \in Frames
    PROVE  /\ f.label \in Nat /\ Width(f) \in Nat /\ Pushes(f) \in {1, 2}
           /\ Owed(f) \cup Cond(f) \subseteq (f.label + 1)..(f.label + Width(f))
           /\ Due(f) \subseteq Owed(f)
           /\ f.kind \in LoopKinds =>
                /\ LoopOf(f) \in [continue : Nat, end : Nat]
                /\ f.label < LoopOf(f).end /\ LoopOf(f).end <= f.label + Width(f)
                /\ LoopOf(f).end \in Due(f)
                /\ LoopOf(f).continue \in Due(f) \cup Cond(f)
<1>1. f.label \in Nat /\ f.kind \in {"fn", "then", "else", "block"} \cup LoopKinds
  BY DEF Frames
<1>2. Width(f) \in Nat /\ Pushes(f) \in {1, 2}
  BY DEF Width, Pushes
<1>3. Owed(f) \cup Cond(f) \subseteq (f.label + 1)..(f.label + Width(f))
  BY <1>1 DEF Owed, Cond, Width, LoopKinds
<1>4. Due(f) \subseteq Owed(f)
  BY DEF Due, Owed
<1>5. ASSUME f.kind \in LoopKinds
      PROVE  /\ LoopOf(f) \in [continue : Nat, end : Nat]
             /\ f.label < LoopOf(f).end /\ LoopOf(f).end <= f.label + Width(f)
             /\ LoopOf(f).end \in Due(f)
             /\ LoopOf(f).continue \in Due(f) \cup Cond(f)
  <2>1. LoopOf(f).end = f.label + Width(f) /\ Width(f) > 0
    BY <1>5 DEF LoopOf, Width, LoopKinds
  <2>2. LoopOf(f).continue = IF f.kind = "while" THEN f.label + 1 ELSE f.label + 3
    BY DEF LoopOf
  <2>3. LoopOf(f) \in [continue : Nat, end : Nat]
    BY <1>1, <1>2 DEF LoopOf
  <2>4. LoopOf(f).end \in Due(f) /\ LoopOf(f).continue \in Due(f) \cup Cond(f)
    BY <1>1, <1>5, <2>1, <2>2 DEF Due, Owed, Cond, Width, LoopKinds
  <2> QED
    BY <1>1, <1>2, <2>1, <2>3, <2>4
<1> QED
  BY <1>1, <1>2, <1>3, <1>4, <1>5

(* They nest: base[k] scopes were open when the k-th was pushed, its labels     *)
(* follow those of the constructs around it, and only the first is the body.    *)
Chain(op, base, lb, n) ==
    /\ op \in Seq(Frames) /\ base \in Seq(Nat) /\ Len(base) = Len(op)
    /\ \A k \in 1..Len(op) : op[k].kind = "fn" <=> k = 1
    /\ \A k \in 1..Len(op) : op[k].label + Width(op[k]) <= lb
    /\ \A k \in 1..Len(op) : base[k] + Pushes(op[k]) <= n
    /\ \A j, k \in 1..Len(op) : j < k =>
          /\ op[j].label + Width(op[j]) <= op[k].label
          /\ base[j] + Pushes(op[j]) <= base[k]
    /\ \A k \in 2..Len(op) : base[k] = base[k - 1] + Pushes(op[k - 1])
    /\ op # <<>> => n = base[Len(op)] + Pushes(op[Len(op)])

(* The labels and the scopes of a construct being emitted exist.              *)
LEMMA ChainAt ==
    ASSUME NEW op, NEW base, NEW lb, NEW n, Chain(op, base, lb, n), NEW k \in 1..Len(op)
    PROVE  /\ op[k] \in Frames /\ base[k] \in Nat /\ Len(op) \in Nat
           /\ op[k].label \in Nat /\ Width(op[k]) \in Nat /\ Pushes(op[k]) \in {1, 2}
           /\ op[k].label + Width(op[k]) <= lb
           /\ base[k] + Pushes(op[k]) <= n
<1>1. op \in Seq(Frames) /\ base \in Seq(Nat) /\ Len(base) = Len(op)
  BY DEF Chain
<1>2. op[k] \in Frames /\ base[k] \in Nat /\ Len(op) \in Nat
  BY <1>1
<1> QED
  BY <1>2, FrameLabels DEF Chain

(* An inner construct has later labels and scopes than an outer one.          *)
LEMMA ChainOrder ==
    ASSUME NEW op, NEW base, NEW lb, NEW n, Chain(op, base, lb, n),
           NEW j \in 1..Len(op), NEW k \in 1..Len(op), j < k
    PROVE  /\ op[j].label + Width(op[j]) <= op[k].label
           /\ base[j] + Pushes(op[j]) <= base[k]
BY DEF Chain

(* All but the last of a sequence.                                            *)
LEMMA FrontOf ==
    ASSUME NEW S, NEW s \in Seq(S), s # <<>>
    PROVE  /\ Front(s) \in Seq(S) /\ Len(Front(s)) = Len(s) - 1
           /\ \A k \in 1..(Len(s) - 1) : Front(s)[k] = s[k]
<1>1. Len(s) \in Nat \ {0}
  BY EmptySeq
<1>2. \A i \in 1..(Len(s) - 1) : s[i] \in S
  BY <1>1, ElementOfSeq
<1> DEFINE n == Len(s) - 1
           u == SubSeq(s, 1, n)
<1>3. n \in Nat /\ 1 \in Int /\ n \in Int /\ n = Len(s) - 1
  BY <1>1
<1>4. Front(s) = u
  BY DEF Front
<1> HIDE DEF n
<1>5. /\ u \in Seq(S)
      /\ Len(u) = IF 1 <= n THEN n - 1 + 1 ELSE 0
      /\ \A k \in 1..(n - 1 + 1) : u[k] = s[1 + k - 1]
  <2>1. \A i \in 1..n : s[i] \in S
    BY <1>2, <1>3
  <2> QED
    BY <1>3, <2>1, SubSeqProperties
<1> HIDE DEF u
<1>6. Len(u) = n /\ \A k \in 1..n : u[k] = s[k]
  BY <1>3, <1>5
<1> QED
  BY <1>3, <1>4, <1>5, <1>6

(* A construct is opened inside the others.                                   *)
LEMMA ChainPush ==
    ASSUME NEW op, NEW base, NEW lb \in Nat, NEW n \in Nat, Chain(op, base, lb, n), op # <<>>,
           NEW f \in Frames, f.kind # "fn",
           NEW lb2 \in Nat, lb <= lb2, f.label + Width(f) <= lb2,
           \A j \in 1..Len(op) : op[j].label + Width(op[j]) <= f.label
    PROVE  Chain(Append(op, f), Append(base, n), lb2, n + Pushes(f))
<1> DEFINE op2 == Append(op, f)
           base2 == Append(base, n)
           m == Len(op)
<1>1. op \in Seq(Frames) /\ base \in Seq(Nat) /\ Len(base) = m /\ m \in Nat /\ m > 0
  BY DEF Chain
<1>2. /\ op2 \in Seq(Frames) /\ Len(op2) = m + 1
      /\ \A k \in 1..m : op2[k] = op[k]
      /\ op2[m + 1] = f
  BY <1>1
<1>3. /\ base2 \in Seq(Nat) /\ Len(base2) = m + 1
      /\ \A k \in 1..m : base2[k] = base[k]
      /\ base2[m + 1] = n
  BY <1>1
<1>4. /\ m = Len(op)
      /\ \A k \in 1..m : op[k] \in Frames /\ base[k] \in Nat
  BY <1>1
<1> HIDE DEF op2, base2, m
<1>5. \A k \in 1..(m + 1) : k \in 1..m \/ k = m + 1
  BY <1>1
<1>6. \A k \in 1..m : /\ Width(op[k]) \in Nat /\ Pushes(op[k]) \in {1, 2} /\ op[k].label \in Nat
                      /\ op[k].label + Width(op[k]) <= lb
                      /\ base[k] + Pushes(op[k]) <= n
                      /\ op[k].kind = "fn" <=> k = 1
  BY <1>4, FrameLabels DEF Chain
<1>7. Width(f) \in Nat /\ Pushes(f) \in {1, 2} /\ f.label \in Nat
  BY FrameLabels
<1>8. \A k \in 1..(m + 1) : op2[k].kind = "fn" <=> k = 1
  <2>1. op2[m + 1].kind # "fn" /\ m + 1 # 1
    BY <1>1, <1>2
  <2>2. \A k \in 1..m : op2[k].kind = "fn" <=> k = 1
    BY <1>2, <1>6
  <2> QED
    BY <1>5, <2>1, <2>2
<1>9. \A k \in 1..(m + 1) : op2[k].label + Width(op2[k]) <= lb2
  <2>1. \A k \in 1..m : op[k].label + Width(op[k]) <= lb2
    BY <1>6
  <2> QED
    BY <1>2, <1>5, <2>1
<1>10. \A k \in 1..(m + 1) : base2[k] + Pushes(op2[k]) <= n + Pushes(f)
  <2>1. \A k \in 1..m : base[k] + Pushes(op[k]) <= n + Pushes(f)
    BY <1>4, <1>6, <1>7
  <2> QED
    BY <1>2, <1>3, <1>5, <1>7, <2>1
<1>11. ASSUME NEW j \in 1..(m + 1), NEW k \in 1..(m + 1), j < k
       PROVE  op2[j].label + Width(op2[j]) <= op2[k].label /\ base2[j] + Pushes(op2[j]) <= base2[k]
  <2>1. j \in 1..m
    BY <1>1, <1>11
  <2>2. CASE k \in 1..m
    BY <1>2, <1>3, <1>4, <1>11, <2>1, <2>2 DEF Chain
  <2>3. CASE k = m + 1
    BY <1>2, <1>3, <1>4, <1>6, <2>1, <2>3
  <2> QED
    BY <1>5, <2>2, <2>3
<1>12. ASSUME NEW k \in 2..(m + 1) PROVE base2[k] = base2[k - 1] + Pushes(op2[k - 1])
  <2>1. k - 1 \in 1..m
    BY <1>1
  <2>2. CASE k \in 2..m
    <3>1. k \in 1..m /\ base[k] = base[k - 1] + Pushes(op[k - 1])
      BY <1>4, <2>2 DEF Chain
    <3> QED
      BY <1>2, <1>3, <2>1, <3>1
  <2>3. CASE k = m + 1
    <3>1. k - 1 = m /\ n = base[m] + Pushes(op[m])
      BY <1>1, <1>4, <2>3 DEF Chain
    <3> QED
      BY <1>2, <1>3, <2>1, <2>3, <3>1
  <2> QED
    BY <1>1, <2>2, <2>3
<1>13. Chain(op2, base2, lb2, n + Pushes(f))
  BY <1>2, <1>3, <1>8, <1>9, <1>10, <1>11, <1>12 DEF Chain
<1> QED
  BY <1>13 DEF op2, base2

(* The innermost construct is closed.                                         *)
LEMMA ChainPop ==
    ASSUME NEW op, NEW base, NEW lb \in Nat, NEW n \in Nat, Chain(op, base, lb, n), op # <<>>,
           NEW m, m = Len(op)
    PROVE  /\ m \in Nat \ {0} /\ op[m] \in Frames /\ base[m] \in Nat
           /\ n = base[m] + Pushes(op[m])
           /\ Chain(Front(op), Front(base), lb, base[m])
           /\ Len(Front(op)) = m - 1
           /\ op[m].kind = "fn" <=> Front(op) = <<>>
<1> DEFINE op2 == Front(op)
           base2 == Front(base)
<1>1. op \in Seq(Frames) /\ base \in Seq(Nat) /\ Len(base) = m /\ m \in Nat /\ m > 0
  BY DEF Chain
<1>2. op2 \in Seq(Frames) /\ Len(op2) = m - 1 /\ \A k \in 1..(m - 1) : op2[k] = op[k]
  BY <1>1, FrontOf, Zenon
<1>3. base2 \in Seq(Nat) /\ Len(base2) = m - 1 /\ \A k \in 1..(m - 1) : base2[k] = base[k]
  <2>1. base # <<>>
    BY <1>1
  <2> QED
    BY <1>1, <2>1, FrontOf, Zenon
<1>4. /\ m = Len(op) /\ m \in 1..m
      /\ \A k \in 1..m : op[k] \in Frames /\ base[k] \in Nat
  BY <1>1
<1> HIDE DEF op2, base2
<1>5. \A k \in 1..(m - 1) : k \in 1..m /\ k < m
  BY <1>1
<1>6. op[m].kind = "fn" <=> op2 = <<>>
  <2>1. op[m].kind = "fn" <=> m = 1
    BY <1>4 DEF Chain
  <2>2. op2 = <<>> <=> Len(op2) = 0
    BY <1>2, EmptySeq
  <2>3. m = 1 <=> Len(op2) = 0
    BY <1>1, <1>2
  <2> QED
    BY <2>1, <2>2, <2>3
<1>7. n = base[m] + Pushes(op[m])
  BY <1>4 DEF Chain
<1>8. \A k \in 1..(m - 1) : base2[k] + Pushes(op2[k]) <= base[m]
  BY <1>2, <1>3, <1>4, <1>5 DEF Chain
<1>9. \A k \in 1..(m - 1) : /\ op2[k].kind = "fn" <=> k = 1
                            /\ op2[k].label + Width(op2[k]) <= lb
  BY <1>2, <1>4, <1>5 DEF Chain
<1>10. \A j, k \in 1..(m - 1) : j < k =>
          /\ op2[j].label + Width(op2[j]) <= op2[k].label
          /\ base2[j] + Pushes(op2[j]) <= base2[k]
  BY <1>2, <1>3, <1>4, <1>5 DEF Chain
<1>11. ASSUME NEW k \in 2..(m - 1) PROVE base2[k] = base2[k - 1] + Pushes(op2[k - 1])
  <2>1. k \in 2..m /\ k - 1 \in 1..(m - 1) /\ k \in 1..(m - 1)
    BY <1>1
  <2>2. base[k] = base[k - 1] + Pushes(op[k - 1])
    BY <1>4, <2>1 DEF Chain
  <2> QED
    BY <1>2, <1>3, <2>1, <2>2
<1>12. op2 # <<>> => base[m] = base2[m - 1] + Pushes(op2[m - 1])
  <2> SUFFICES ASSUME op2 # <<>> PROVE base[m] = base2[m - 1] + Pushes(op2[m - 1])
    OBVIOUS
  <2>1. m # 1
    BY <1>2
  <2>2. m \in 2..m /\ m - 1 \in 1..(m - 1)
    BY <1>1, <2>1
  <2>3. base[m] = base[m - 1] + Pushes(op[m - 1])
    BY <1>4, <2>2 DEF Chain
  <2> QED
    BY <1>2, <1>3, <2>2, <2>3
<1>13. Chain(op2, base2, lb, base[m])
  BY <1>2, <1>3, <1>8, <1>9, <1>10, <1>11, <1>12 DEF Chain
<1> QED
  BY <1>1, <1>2, <1>3, <1>4, <1>6, <1>7, <1>13 DEF op2, base2

(* What holds of one construct: the scope emitIfStmt pushes around an alternative *)
(* is empty, the labels owed are not placed, and at each label a branch of the     *)
(* construct may go to exactly the scopes that surround it are open.               *)
Kept(f, b, sc, rng, G, P) ==
    /\ f.kind = "else" => sc[b + 1] = {}
    /\ f.kind = "range" => rng
    /\ Owed(f) \cap P = {}
    /\ Cond(f) \subseteq P
    /\ \A l \in Owed(f) \cup Cond(f) : G[l] = RegsTo(sc, b)

(* The same for every construct that is open.                                 *)
Promised(op, base, sc, rng, G, P) ==
    \A k \in 1..Len(op) : Kept(op[k], base[k], sc, rng, G, P)

(* The labels of a construct.                                                 *)
Labels(f) == (f.label + 1)..(f.label + Width(f))

(* What a construct expects is kept by code that places none of its labels.   *)
LEMMA KeptStep ==
    ASSUME NEW f \in Frames, NEW b \in Nat, NEW sc, NEW rng, NEW G, NEW P,
           Kept(f, b, sc, rng, G, P),
           NEW sc2, Agree(sc2, sc, 1..b), f.kind = "else" => sc2[b + 1] = sc[b + 1],
           NEW rng2, rng => rng2,
           NEW G2, Agree(G2, G, Labels(f)),
           NEW P2, P \subseteq P2, P2 \cap Labels(f) \subseteq P
    PROVE  Kept(f, b, sc2, rng2, G2, P2)
<1>1. Owed(f) \cup Cond(f) \subseteq Labels(f)
  BY FrameLabels DEF Labels
<1>2. RegsTo(sc2, b) = RegsTo(sc, b)
  BY RegsToAgree DEF Agree
<1> QED
  BY <1>1, <1>2 DEF Kept, Agree

(* The same for every construct that is open.                                 *)
LEMMA PromisedKeep ==
    ASSUME NEW op, NEW base, NEW lb \in Nat, NEW n \in Nat, Chain(op, base, lb, n),
           NEW sc, NEW rng, NEW G, NEW P, Promised(op, base, sc, rng, G, P),
           NEW sc2, Agree(sc2, sc, 1..(n - 1)),
           NEW rng2, rng => rng2,
           NEW G2, Agree(G2, G, 0..lb),
           NEW P2, P \subseteq P2, P2 \cap (0..lb) \subseteq P
    PROVE  Promised(op, base, sc2, rng2, G2, P2)
<1> SUFFICES ASSUME NEW k \in 1..Len(op) PROVE Kept(op[k], base[k], sc2, rng2, G2, P2)
  BY DEF Promised
<1>1. /\ op[k] \in Frames /\ base[k] \in Nat /\ Len(op) \in Nat
      /\ op[k].label \in Nat /\ Width(op[k]) \in Nat /\ Pushes(op[k]) \in {1, 2}
      /\ op[k].label + Width(op[k]) <= lb
      /\ base[k] + Pushes(op[k]) <= n
  BY ChainAt
<1>3. Kept(op[k], base[k], sc, rng, G, P)
  BY DEF Promised
<1>5. Labels(op[k]) \subseteq 0..lb
  BY <1>1 DEF Labels
<1>6. Agree(sc2, sc, 1..base[k])
  <2>1. 1..base[k] \subseteq 1..(n - 1)
    BY <1>1
  <2> QED
    BY <2>1 DEF Agree
<1>7. ASSUME op[k].kind = "else" PROVE sc2[base[k] + 1] = sc[base[k] + 1]
  <2>1. Pushes(op[k]) = 2
    BY <1>7 DEF Pushes
  <2>2. base[k] + 1 \in 1..(n - 1)
    BY <1>1, <2>1
  <2> QED
    BY <2>2 DEF Agree
<1>8. Agree(G2, G, Labels(op[k])) /\ P2 \cap Labels(op[k]) \subseteq P
  BY <1>5 DEF Agree
<1> QED
  BY <1>1, <1>3, <1>6, <1>7, <1>8, KeptStep

(* A construct that expects what it finds may be opened.                      *)
LEMMA PromisedPush ==
    ASSUME NEW op \in Seq(Frames), NEW base \in Seq(Nat), Len(base) = Len(op),
           NEW f \in Frames, NEW b \in Nat, NEW sc, NEW rng, NEW G, NEW P,
           Promised(op, base, sc, rng, G, P), Kept(f, b, sc, rng, G, P)
    PROVE  Promised(Append(op, f), Append(base, b), sc, rng, G, P)
<1> DEFINE op2 == Append(op, f)
           base2 == Append(base, b)
           m == Len(op)
<1>1. /\ m \in Nat /\ Len(op2) = m + 1
      /\ \A k \in 1..m : op2[k] = op[k] /\ base2[k] = base[k]
      /\ op2[m + 1] = f /\ base2[m + 1] = b
  OBVIOUS
<1>2. \A k \in 1..m : Kept(op[k], base[k], sc, rng, G, P)
  BY DEF Promised
<1> HIDE DEF op2, base2, m
<1>3. \A k \in 1..(m + 1) : k \in 1..m \/ k = m + 1
  BY <1>1
<1>4. \A k \in 1..Len(op2) : Kept(op2[k], base2[k], sc, rng, G, P)
  BY <1>1, <1>2, <1>3
<1>5. Promised(op2, base2, sc, rng, G, P)
  BY <1>4 DEF Promised
<1> QED
  BY <1>5 DEF op2, base2

(* The end of a construct, which placed some of its own labels.                 *)
LEMMA PromisedPop ==
    ASSUME NEW op, NEW base, NEW lb \in Nat, NEW n \in Nat, Chain(op, base, lb, n), op # <<>>,
           NEW sc, NEW rng, NEW G, NEW P, Promised(op, base, sc, rng, G, P),
           NEW m, m = Len(op),
           NEW sc2, Agree(sc2, sc, 1..base[m]),
           NEW P2, P \subseteq P2, P2 \subseteq P \cup Labels(op[m])
    PROVE  Promised(Front(op), Front(base), sc2, rng, G, P2)
<1> DEFINE base2 == Front(base)
<1>0. /\ m \in Nat \ {0} /\ Len(Front(op)) = m - 1 /\ base[m] \in Nat
      /\ \A k \in 1..(m - 1) : Front(op)[k] = op[k] /\ base2[k] = base[k]
  <2>1. m \in Nat \ {0} /\ Len(Front(op)) = m - 1 /\ base[m] \in Nat
    BY ChainPop
  <2>0. op \in Seq(Frames) /\ base \in Seq(Nat) /\ Len(base) = m /\ base # <<>>
    BY DEF Chain
  <2>2. \A k \in 1..(m - 1) : Front(op)[k] = op[k]
    BY <2>0, FrontOf, Zenon
  <2>3. \A k \in 1..(m - 1) : Front(base)[k] = base[k]
    BY <2>0, FrontOf, Zenon
  <2> QED
    BY <2>1, <2>2, <2>3
<1> HIDE DEF base2
<1> SUFFICES ASSUME NEW k \in 1..(m - 1) PROVE Kept(op[k], base[k], sc2, rng, G, P2)
  <2>1. ASSUME NEW k \in 1..Len(Front(op)) PROVE Kept(Front(op)[k], base2[k], sc2, rng, G, P2)
    BY <1>0
  <2>2. Promised(Front(op), base2, sc2, rng, G, P2)
    BY <2>1 DEF Promised
  <2> QED
    BY <2>2 DEF base2
<1>2. k \in 1..Len(op) /\ m \in 1..Len(op) /\ k < m
  BY <1>0
<1>3. /\ op[k] \in Frames /\ base[k] \in Nat
      /\ op[k].label \in Nat /\ Width(op[k]) \in Nat /\ Pushes(op[k]) \in {1, 2}
  BY <1>2, ChainAt
<1>4. op[m].label \in Nat /\ Width(op[m]) \in Nat
  BY <1>2, ChainAt
<1>5. op[k].label + Width(op[k]) <= op[m].label /\ base[k] + Pushes(op[k]) <= base[m]
  BY <1>2, ChainOrder
<1>6. Kept(op[k], base[k], sc, rng, G, P)
  BY <1>2 DEF Promised
<1>7. P2 \cap Labels(op[k]) \subseteq P
  <2>1. Labels(op[k]) \cap Labels(op[m]) = {}
    BY <1>3, <1>4, <1>5 DEF Labels
  <2> QED
    BY <2>1
<1>8. Agree(sc2, sc, 1..base[k])
  <2>1. 1..base[k] \subseteq 1..base[m]
    BY <1>0, <1>3, <1>5
  <2> QED
    BY <2>1 DEF Agree
<1>9. sc2[base[k] + 1] = sc[base[k] + 1]
  <2>1. base[k] + 1 \in 1..base[m]
    BY <1>0, <1>3, <1>5
  <2> QED
    BY <2>1 DEF Agree
<1>10. Agree(G, G, Labels(op[k]))
  BY DEF Agree
<1> QED
  BY <1>3, <1>6, <1>7, <1>8, <1>9, <1>10, KeptStep

(* A branch goes to a label that is placed, or that a construct is due to place. *)
Routed(op, P, T) ==
    \A l \in T : l \in P \/ \E k \in 1..Len(op) : l \in Due(op[k])

(* cg.loopLabels holds labels of the loops being emitted, the outer ones first.  *)
Looped(op, lp) ==
    /\ lp \in Seq([continue : Nat, end : Nat])
    /\ \A n \in 1..Len(lp) :
          \E k \in 1..Len(op) : op[k].kind \in LoopKinds /\ lp[n] = LoopOf(op[k])
    /\ \A n, m \in 1..Len(lp) : n < m => lp[n].end < lp[m].end

(* The innermost construct is replaced, or another is started within it.         *)
LEMMA LoopedKeep ==
    ASSUME NEW op, NEW lp, Looped(op, lp), NEW op2,
           \A k \in 1..Len(op) : op[k].kind \in LoopKinds =>
               \E j \in 1..Len(op2) : op2[j] = op[k]
    PROVE  Looped(op2, lp)
<1>1. ASSUME NEW n \in 1..Len(lp)
      PROVE  \E k \in 1..Len(op2) : op2[k].kind \in LoopKinds /\ lp[n] = LoopOf(op2[k])
  <2>1. PICK k \in 1..Len(op) : op[k].kind \in LoopKinds /\ lp[n] = LoopOf(op[k])
    BY DEF Looped
  <2>2. PICK j \in 1..Len(op2) : op2[j] = op[k]
    BY <2>1
  <2> QED
    BY <2>1, <2>2
<1> QED
  BY <1>1 DEF Looped

(* A loop starts.                                                               *)
LEMMA LoopedPush ==
    ASSUME NEW op, NEW base, NEW lb \in Nat, NEW b \in Nat, Chain(op, base, lb, b),
           NEW lp, Looped(op, lp),
           NEW f \in Frames, f.kind \in LoopKinds, lb <= f.label
    PROVE  Looped(Append(op, f), Append(lp, LoopOf(f)))
<1> DEFINE op2 == Append(op, f)
           lp2 == Append(lp, LoopOf(f))
           m == Len(op)
           n == Len(lp)
<1>1. op \in Seq(Frames) /\ m \in Nat /\ lp \in Seq([continue : Nat, end : Nat]) /\ n \in Nat
  BY DEF Chain, Looped
<1>2. LoopOf(f) \in [continue : Nat, end : Nat] /\ f.label < LoopOf(f).end /\ f.label \in Nat
  BY FrameLabels
<1>3. Len(op2) = m + 1 /\ op2[m + 1] = f /\ \A k \in 1..m : op2[k] = op[k]
  BY <1>1
<1>4. /\ lp2 \in Seq([continue : Nat, end : Nat]) /\ Len(lp2) = n + 1
      /\ lp2[n + 1] = LoopOf(f) /\ \A k \in 1..n : lp2[k] = lp[k]
  <2> HIDE DEF n
  <2>1. n = Len(lp)
    BY DEF n
  <2> QED
    BY <1>1, <1>2, <2>1
<1>5. m = Len(op) /\ n = Len(lp) /\ LoopOf(f).end \in Nat
  BY <1>2
<1> HIDE DEF op2, lp2, m, n
<1>6. ASSUME NEW i \in 1..n
      PROVE  /\ \E k \in 1..Len(op2) : op2[k].kind \in LoopKinds /\ lp2[i] = LoopOf(op2[k])
             /\ lp[i].end \in Nat /\ lp[i].end < LoopOf(f).end
  <2>1. PICK k \in 1..m : op[k].kind \in LoopKinds /\ lp[i] = LoopOf(op[k])
    BY <1>5 DEF Looped
  <2>2. op[k] \in Frames /\ op[k].label + Width(op[k]) <= lb
    BY <1>5 DEF Chain
  <2>3. /\ LoopOf(op[k]).end <= op[k].label + Width(op[k])
        /\ LoopOf(op[k]) \in [continue : Nat, end : Nat] /\ op[k].label \in Nat /\ Width(op[k]) \in Nat
    BY <2>1, <2>2, FrameLabels
  <2>4. LoopOf(op[k]).end \in Nat
    BY <2>3
  <2>5. k \in 1..Len(op2) /\ op2[k] = op[k]
    BY <1>1, <1>3
  <2>6. lp2[i] = LoopOf(op2[k]) /\ op2[k].kind \in LoopKinds /\ lp[i].end = LoopOf(op[k]).end
    BY <1>4, <2>1, <2>5
  <2>7. LoopOf(op[k]).end < LoopOf(f).end
    BY <1>2, <1>5, <2>2, <2>3, <2>4
  <2> QED
    BY <2>4, <2>5, <2>6, <2>7
<1>7. ASSUME NEW i \in 1..(n + 1)
      PROVE  \E k \in 1..Len(op2) : op2[k].kind \in LoopKinds /\ lp2[i] = LoopOf(op2[k])
  <2>1. CASE i = n + 1
    <3>1. m + 1 \in 1..Len(op2)
      BY <1>1, <1>3
    <3> QED
      BY <1>3, <1>4, <2>1, <3>1
  <2>2. CASE i # n + 1
    <3>1. i \in 1..n
      BY <1>1, <2>2
    <3> QED
      BY <1>6, <3>1
  <2> QED
    BY <2>1, <2>2
<1>8. ASSUME NEW i \in 1..(n + 1), NEW j \in 1..(n + 1), i < j
      PROVE  lp2[i].end < lp2[j].end
  <2>1. i \in 1..n
    BY <1>1, <1>8
  <2>2. CASE j = n + 1
    BY <1>4, <1>6, <2>1, <2>2
  <2>3. CASE j # n + 1
    <3>1. j \in 1..n
      BY <1>1, <2>3
    <3> QED
      BY <1>4, <1>5, <1>8, <2>1, <3>1 DEF Looped
  <2> QED
    BY <2>2, <2>3
<1>9. Looped(op2, lp2)
  BY <1>4, <1>7, <1>8 DEF Looped
<1> QED
  BY <1>9 DEF op2, lp2

(* A loop ends.                                                                 *)
LEMMA LoopedPop ==
    ASSUME NEW op, NEW base, NEW lb \in Nat, NEW b \in Nat, Chain(op, base, lb, b), op # <<>>,
           NEW lp, Looped(op, lp), op[Len(op)].kind \in LoopKinds
    PROVE  Looped(Front(op), Front(lp))
<1> DEFINE lp2 == Front(lp)
           m == Len(op)
           n == Len(lp)
<1>1. /\ m \in Nat \ {0} /\ op[m] \in Frames /\ Len(Front(op)) = m - 1
      /\ \A k \in 1..(m - 1) : Front(op)[k] = op[k]
  <2>1. op \in Seq(Frames)
    BY DEF Chain
  <2>2. m \in Nat \ {0} /\ op[m] \in Frames
    BY <2>1
  <2> QED
    BY <2>1, <2>2, FrontOf, Zenon
<1>2. lp \in Seq([continue : Nat, end : Nat]) /\ n \in Nat
  BY DEF Looped
<1>3. CASE n = 0
  <2>1. lp2 \in Seq([continue : Nat, end : Nat]) /\ Len(lp2) = 0
    BY <1>2, <1>3 DEF Front
  <2> QED
    BY <2>1 DEF Looped
<1>4. CASE n # 0
  <2>1. lp2 \in Seq([continue : Nat, end : Nat]) /\ Len(lp2) = n - 1 /\ \A k \in 1..(n - 1) : lp2[k] = lp[k]
    <3>1. lp # <<>>
      BY <1>4
    <3> QED
      BY <1>2, <3>1, FrontOf, Zenon
  <2>2. m = Len(op) /\ n = Len(lp) /\ m \in 1..m
    BY <1>1
  <2> HIDE DEF lp2, m, n
  <2>3. ASSUME NEW k \in 1..n PROVE lp[k].end \in Nat
    <3>1. lp[k] \in [continue : Nat, end : Nat]
      BY <1>2, <2>2, ElementOfSeq
    <3> QED
      BY <3>1
  <2>4. ASSUME NEW i \in 1..(n - 1)
        PROVE  \E k \in 1..(m - 1) : op[k].kind \in LoopKinds /\ lp[i] = LoopOf(op[k])
    <3>1. i \in 1..n /\ n \in 1..n /\ i < n
      BY <1>2, <1>4
    <3>2. PICK k \in 1..m : op[k].kind \in LoopKinds /\ lp[i] = LoopOf(op[k])
      BY <2>2, <3>1 DEF Looped
    <3>3. PICK j \in 1..m : op[j].kind \in LoopKinds /\ lp[n] = LoopOf(op[j])
      BY <2>2, <3>1 DEF Looped
    <3>4. lp[i].end < lp[n].end
      BY <2>2, <3>1 DEF Looped
    <3>5. ASSUME k = m PROVE FALSE
      <4>1. j # m
        BY <2>3, <3>1, <3>2, <3>3, <3>4, <3>5
      <4>2. j < m
        BY <1>1, <4>1
      <4>3. op[j] \in Frames /\ op[j].label + Width(op[j]) <= op[m].label
        BY <1>1, <2>2, <4>2, ChainAt, ChainOrder
      <4>4. LoopOf(op[j]).end <= op[j].label + Width(op[j]) /\ op[j].label \in Nat /\ Width(op[j]) \in Nat
        BY <3>3, <4>3, FrameLabels
      <4>5. op[m].label < LoopOf(op[m]).end /\ op[m].label \in Nat
        BY <1>1, <3>2, <3>5, FrameLabels
      <4>6. LoopOf(op[j]).end \in Nat /\ LoopOf(op[m]).end \in Nat
        BY <2>3, <3>1, <3>2, <3>3, <3>5
      <4>7. LoopOf(op[m]).end < LoopOf(op[j]).end
        BY <3>2, <3>3, <3>4, <3>5
      <4> QED
        BY <4>3, <4>4, <4>5, <4>6, <4>7
    <3>6. k \in 1..(m - 1)
      BY <1>1, <3>5
    <3> QED
      BY <3>2, <3>6
  <2>5. \A i, j \in 1..(n - 1) : i < j => lp2[i].end < lp2[j].end
    <3>1. \A i \in 1..(n - 1) : i \in 1..n
      BY <1>2
    <3> QED
      BY <2>1, <2>2, <3>1 DEF Looped
  <2>6. \A i \in 1..(n - 1) :
            \E k \in 1..Len(Front(op)) : Front(op)[k].kind \in LoopKinds /\ lp2[i] = LoopOf(Front(op)[k])
    BY <1>1, <2>1, <2>4
  <2>7. Looped(Front(op), lp2)
    BY <2>1, <2>5, <2>6 DEF Looped
  <2> QED
    BY <2>7 DEF lp2
<1> QED
  BY <1>3, <1>4

(* The constructs being emitted, innermost last: their labels and scopes are in*)
(* order, what each expects holds, and every branch goes to a label that is placed*)
(* or due.                                                                    *)
Nested(op, sc, lp, lb, rng, G, base, P, T) ==
    /\ Chain(op, base, lb, Len(sc))
    /\ Promised(op, base, sc, rng, G, P)
    /\ Routed(op, P, T)
    /\ Looped(op, lp)
    /\ P \subseteq 0..lb

(* Every label a branch names has been handed out.                              *)
LEMMA TargetsKnown ==
    ASSUME NEW op, NEW sc, NEW lp, NEW lb \in Nat, NEW rng, NEW G, NEW base, NEW P, NEW T,
           Nested(op, sc, lp, lb, rng, G, base, P, T)
    PROVE  P \cup T \subseteq 0..lb
<1> SUFFICES ASSUME NEW l \in T, l \notin P PROVE l \in 0..lb
  BY DEF Nested
<1>1. PICK k \in 1..Len(op) : l \in Due(op[k])
  BY DEF Nested, Routed
<1>2. /\ op[k] \in Frames /\ op[k].label \in Nat /\ Width(op[k]) \in Nat
      /\ op[k].label + Width(op[k]) <= lb
  BY ChainAt DEF Nested
<1>3. l \in (op[k].label + 1)..(op[k].label + Width(op[k]))
  BY <1>1, <1>2, FrameLabels
<1> QED
  BY <1>2, <1>3

(* Only the innermost scope differs.                                            *)
SameBelow(sc2, sc) == Len(sc2) = Len(sc) /\ Agree(sc2, sc, 1..(Len(sc) - 1))

(* A statement that starts and ends no construct.                               *)
LEMMA NestedStep ==
    ASSUME NEW op, NEW sc, NEW lp, NEW lb \in Nat, NEW rng, NEW G, NEW base, NEW P, NEW T,
           Len(sc) \in Nat, Nested(op, sc, lp, lb, rng, G, base, P, T),
           NEW sc2, SameBelow(sc2, sc),
           NEW lb2 \in Nat, lb <= lb2, NEW rng2, rng => rng2,
           NEW G2, Agree(G2, G, 0..lb),
           NEW P2, P \subseteq P2, P2 \subseteq P \cup (lb + 1)..lb2,
           NEW T2, Routed(op, P2, T2)
    PROVE  Nested(op, sc2, lp, lb2, rng2, G2, base, P2, T2)
<1>1. Chain(op, base, lb2, Len(sc2))
  <2>1. \A k \in 1..Len(op) : op[k].label + Width(op[k]) <= lb2
    <3>1. ASSUME NEW k \in 1..Len(op) PROVE op[k].label + Width(op[k]) <= lb2
      <4>1. op[k].label \in Nat /\ Width(op[k]) \in Nat /\ op[k].label + Width(op[k]) <= lb
        BY ChainAt DEF Nested
      <4> QED
        BY <4>1
    <3> QED
      BY <3>1
  <2> QED
    BY <2>1 DEF Nested, Chain, SameBelow
<1>2. Promised(op, base, sc2, rng2, G2, P2)
  <2>1. P2 \cap (0..lb) \subseteq P
    <3>1. (0..lb) \cap ((lb + 1)..lb2) = {}
      OBVIOUS
    <3> QED
      BY <3>1
  <2>2. PICK n \in Nat : n = Len(sc)
    OBVIOUS
  <2>3. Chain(op, base, lb, n) /\ Promised(op, base, sc, rng, G, P) /\ Agree(sc2, sc, 1..(n - 1))
    BY <2>2 DEF Nested, SameBelow
  <2> QED
    BY <2>1, <2>3, PromisedKeep
<1>4. P2 \subseteq 0..lb2
  <2>1. 0..lb \subseteq 0..lb2 /\ (lb + 1)..lb2 \subseteq 0..lb2
    OBVIOUS
  <2> QED
    BY <2>1 DEF Nested
<1> QED
  BY <1>1, <1>2, <1>4 DEF Nested

(* A construct starts: it takes the next labels and pushes a scope.              *)
LEMMA NestedPush ==
    ASSUME NEW op, NEW sc, NEW lp, NEW lb \in Nat, NEW rng, NEW G, NEW base, NEW P, NEW T,
           Len(sc) \in Nat, op # <<>>, Nested(op, sc, lp, lb, rng, G, base, P, T),
           NEW f \in Frames, f.kind \notin {"fn", "else"}, f.label = lb,
           f.kind = "range" => rng,
           \A l \in Labels(f) : G[l] = RegsTo(sc, Len(sc)),
           NEW sc2, Len(sc2) = Len(sc) + 1, Agree(sc2, sc, 1..Len(sc)),
           NEW lp2, lp2 = IF f.kind \in LoopKinds THEN Append(lp, LoopOf(f)) ELSE lp,
           NEW P2, P \subseteq P2, P2 \subseteq P \cup Labels(f),
           Owed(f) \cap P2 = {}, Cond(f) \subseteq P2,
           NEW T2, T2 \subseteq T \cup P2 \cup Due(f)
    PROVE  Nested(Append(op, f), sc2, lp2, lb + Width(f), rng, G, Append(base, Len(sc)), P2, T2)
<1> DEFINE op2 == Append(op, f)
           m == Len(op)
           lb2 == lb + Width(f)
<1>1. op \in Seq(Frames) /\ m \in Nat /\ base \in Seq(Nat) /\ Len(base) = Len(op)
  BY DEF Nested, Chain
<1>2. Len(op2) = m + 1 /\ op2[m + 1] = f /\ \A k \in 1..m : op2[k] = op[k] /\ k \in 1..Len(op2)
  BY <1>1
<1>3. /\ f.label \in Nat /\ Width(f) \in Nat /\ Pushes(f) = 1
      /\ Owed(f) \cup Cond(f) \subseteq Labels(f)
  BY FrameLabels DEF Labels, Pushes
<1>4. /\ lb2 \in Nat /\ lb <= lb2 /\ f.label + Width(f) <= lb2
      /\ Labels(f) = (lb + 1)..lb2
  BY <1>3 DEF Labels
<1>5. Chain(op2, Append(base, Len(sc)), lb2, Len(sc2))
  <2>1. \A j \in 1..Len(op) : op[j].label + Width(op[j]) <= f.label
    BY DEF Nested, Chain
  <2> HIDE DEF lb2
  <2>2. Chain(op2, Append(base, Len(sc)), lb2, Len(sc) + Pushes(f))
    BY <1>4, <2>1, ChainPush DEF Nested
  <2> QED
    BY <1>3, <2>2
<1>6. Promised(op2, Append(base, Len(sc)), sc2, rng, G, P2)
  <2>1. P2 \cap (0..lb) \subseteq P
    <3>1. (0..lb) \cap ((lb + 1)..lb2) = {}
      OBVIOUS
    <3> QED
      BY <1>4, <3>1
  <2>2. Agree(sc2, sc, 1..(Len(sc) - 1)) /\ Agree(G, G, 0..lb)
    <3>1. 1..(Len(sc) - 1) \subseteq 1..Len(sc)
      OBVIOUS
    <3> QED
      BY <3>1 DEF Agree
  <2>3. Promised(op, base, sc2, rng, G, P2)
    <3>1. PICK n \in Nat : n = Len(sc)
      OBVIOUS
    <3>2. Chain(op, base, lb, n) /\ Promised(op, base, sc, rng, G, P) /\ Agree(sc2, sc, 1..(n - 1))
      BY <2>2, <3>1 DEF Nested
    <3> QED
      BY <2>1, <2>2, <3>2, PromisedKeep
  <2>4. RegsTo(sc2, Len(sc)) = RegsTo(sc, Len(sc))
    BY RegsToAgree DEF Agree
  <2>5. Kept(f, Len(sc), sc2, rng, G, P2)
    BY <1>3, <2>4 DEF Kept
  <2> QED
    BY <1>1, <2>3, <2>5, PromisedPush
<1>7. Routed(op2, P2, T2)
  <2> SUFFICES ASSUME NEW l \in T2, l \notin P2
               PROVE  \E k \in 1..Len(op2) : l \in Due(op2[k])
    BY DEF Routed
  <2>1. CASE l \in Due(f)
    <3>1. m + 1 \in 1..Len(op2)
      BY <1>1, <1>2
    <3> QED
      BY <1>2, <2>1, <3>1
  <2>2. CASE l \in T
    <3>1. PICK k \in 1..m : l \in Due(op[k])
      BY <2>2 DEF Nested, Routed
    <3> QED
      BY <1>2, <3>1
  <2> QED
    BY <2>1, <2>2
<1>8. Looped(op2, lp2)
  <2>1. CASE f.kind \in LoopKinds
    BY <2>1, LoopedPush DEF Nested
  <2>2. CASE f.kind \notin LoopKinds
    <3>1. \A k \in 1..Len(op) : op[k].kind \in LoopKinds => \E j \in 1..Len(op2) : op2[j] = op[k]
      BY <1>2
    <3> HIDE DEF op2
    <3> QED
      BY <2>2, <3>1, LoopedKeep DEF Nested
  <2> QED
    BY <2>1, <2>2
<1>9. P2 \subseteq 0..lb2
  <2>1. 0..lb \subseteq 0..lb2 /\ (lb + 1)..lb2 \subseteq 0..lb2
    BY <1>3
  <2> QED
    BY <1>4, <2>1 DEF Nested
<1> HIDE DEF lb2, op2
<1>10. Nested(op2, sc2, lp2, lb2, rng, G, Append(base, Len(sc)), P2, T2)
  BY <1>5, <1>6, <1>7, <1>8, <1>9 DEF Nested
<1> QED
  BY <1>10 DEF op2, lb2

(* What is known of the innermost construct.                                    *)
LEMMA Innermost ==
    ASSUME NEW op, NEW sc, NEW lp, NEW lb \in Nat, NEW rng, NEW G, NEW base, NEW P, NEW T,
           Len(sc) \in Nat, op # <<>>, Nested(op, sc, lp, lb, rng, G, base, P, T),
           NEW m, m = Len(op)
    PROVE  /\ m \in 1..Len(op) /\ op[m] \in Frames /\ base[m] \in Nat
           /\ Len(sc) = base[m] + Pushes(op[m])
           /\ op[m].label \in Nat /\ Labels(op[m]) \subseteq 0..lb
           /\ Kept(op[m], base[m], sc, rng, G, P)
<1>1. m \in 1..Len(op)
  BY DEF Nested, Chain
<1>2. /\ op[m] \in Frames /\ base[m] \in Nat /\ op[m].label \in Nat /\ Width(op[m]) \in Nat
      /\ op[m].label + Width(op[m]) <= lb
  BY <1>1, ChainAt DEF Nested
<1>3. Labels(op[m]) \subseteq 0..lb
  BY <1>2 DEF Labels
<1>4. Kept(op[m], base[m], sc, rng, G, P)
  BY <1>1 DEF Nested, Promised
<1>5. Len(sc) = base[m] + Pushes(op[m])
  BY DEF Nested, Chain
<1> QED
  BY <1>1, <1>2, <1>3, <1>4, <1>5

(* A construct ends: its scopes are popped, the labels it was due are placed.     *)
LEMMA NestedPop ==
    ASSUME NEW op, NEW sc, NEW lp, NEW lb \in Nat, NEW rng, NEW G, NEW base, NEW P, NEW T,
           Len(sc) \in Nat, op # <<>>, Nested(op, sc, lp, lb, rng, G, base, P, T),
           NEW m, m = Len(op),
           NEW sc2, Len(sc2) = base[m], Agree(sc2, sc, 1..base[m]),
           NEW lp2, lp2 = IF op[m].kind \in LoopKinds THEN Front(lp) ELSE lp,
           NEW P2, P \subseteq P2, P2 \subseteq P \cup Labels(op[m]), Due(op[m]) \subseteq P2,
           NEW T2, T2 \subseteq T \cup P2
    PROVE  /\ Nested(Front(op), sc2, lp2, lb, rng, G, Front(base), P2, T2)
           /\ op[m].kind = "fn" <=> Front(op) = <<>>
<1>1. Chain(op, base, lb, Len(sc)) /\ op \in Seq(Frames)
  BY DEF Nested, Chain
<1>2. /\ m \in Nat \ {0} /\ Chain(Front(op), Front(base), lb, base[m])
      /\ op[m].kind = "fn" <=> Front(op) = <<>>
  BY <1>1, ChainPop
<1>3. Len(Front(op)) = m - 1 /\ \A k \in 1..(m - 1) : Front(op)[k] = op[k]
  BY <1>1, FrontOf, Zenon
<1>4. Promised(Front(op), Front(base), sc2, rng, G, P2)
  BY <1>1, PromisedPop DEF Nested
<1>5. \A k \in 1..Len(op) : k = m \/ k \in 1..(m - 1)
  BY <1>2
<1>6. Routed(Front(op), P2, T2)
  <2> SUFFICES ASSUME NEW l \in T, l \notin P2
               PROVE  \E k \in 1..(m - 1) : l \in Due(Front(op)[k])
    BY <1>3 DEF Routed
  <2>1. PICK k \in 1..Len(op) : l \in Due(op[k])
    BY DEF Nested, Routed
  <2> QED
    BY <1>3, <1>5, <2>1
<1>7. Looped(Front(op), lp2)
  <2>1. CASE op[m].kind \in LoopKinds
    BY <1>1, <2>1, LoopedPop DEF Nested
  <2>2. CASE op[m].kind \notin LoopKinds
    <3>1. \A k \in 1..Len(op) : op[k].kind \in LoopKinds => k \in 1..Len(Front(op)) /\ Front(op)[k] = op[k]
      BY <1>3, <1>5, <2>2
    <3>2. \A k \in 1..Len(op) : op[k].kind \in LoopKinds => \E j \in 1..Len(Front(op)) : Front(op)[j] = op[k]
      BY <3>1
    <3> QED
      BY <2>2, <3>2, LoopedKeep DEF Nested
  <2> QED
    BY <2>1, <2>2
<1>8. P2 \subseteq 0..lb
  BY Innermost DEF Nested
<1> QED
  BY <1>2, <1>4, <1>6, <1>7, <1>8 DEF Nested

(* The consequence of an if ends and its alternative starts.                      *)
LEMMA NestedElse ==
    ASSUME NEW op, NEW sc, NEW lp, NEW lb \in Nat, NEW rng, NEW G, NEW base, NEW P, NEW T,
           Len(sc) \in Nat, op # <<>>, Nested(op, sc, lp, lb, rng, G, base, P, T),
           NEW m, m = Len(op), op[m].kind = "then",
           NEW f \in Frames, f.kind = "else", f.label = op[m].label,
           NEW sc2, Len(sc2) = base[m] + 2, Agree(sc2, sc, 1..base[m]), sc2[base[m] + 1] = {},
           NEW P2, P2 = P \cup {f.label + 2},
           NEW T2, T2 \subseteq T \cup Due(f)
    PROVE  Nested(Append(Front(op), f), sc2, lp, lb, rng, G, Append(Front(base), base[m]), P2, T2)
<1> DEFINE fr == Front(op)
           op2 == Append(fr, f)
           base2 == Append(Front(base), base[m])
<1>1. Chain(op, base, lb, Len(sc)) /\ op \in Seq(Frames) /\ base \in Seq(Nat) /\ Len(base) = Len(op)
  BY DEF Nested, Chain
<1>2. /\ m \in Nat \ {0} /\ Chain(fr, Front(base), lb, base[m])
      /\ fr # <<>>
  BY <1>1, ChainPop
<1>3. fr \in Seq(Frames) /\ Len(fr) = m - 1 /\ \A k \in 1..(m - 1) : fr[k] = op[k]
  BY <1>1, FrontOf, Zenon
<1>0. Front(base) \in Seq(Nat) /\ Len(Front(base)) = Len(fr)
  BY <1>2 DEF Chain
<1>4. /\ m \in 1..Len(op) /\ op[m] \in Frames /\ base[m] \in Nat
      /\ op[m].label \in Nat /\ Labels(op[m]) \subseteq 0..lb
      /\ Kept(op[m], base[m], sc, rng, G, P)
  BY Innermost
<1>5. \A k \in 1..Len(op) : k = m \/ k \in 1..(m - 1)
  BY <1>2
<1>6. /\ Width(f) = 3 /\ Width(op[m]) = 3 /\ Pushes(f) = 2
      /\ Owed(f) = {f.label + 3} /\ Owed(op[m]) = {f.label + 2, f.label + 3} /\ Cond(f) = {}
      /\ Due(op[m]) = {f.label + 2}
      /\ Labels(f) = Labels(op[m]) /\ f.label + 2 \in Labels(f)
  BY <1>4 DEF Width, Pushes, Owed, Cond, Due, Labels, LoopKinds
<1> HIDE DEF fr
<1>7. Len(op2) = m /\ op2[m] = f /\ m \in 1..Len(op2) /\ \A k \in 1..(m - 1) : op2[k] = op[k] /\ k \in 1..Len(op2)
  BY <1>2, <1>3
<1>8. Chain(op2, base2, lb, Len(sc2))
  <2>1. ASSUME NEW j \in 1..Len(fr) PROVE fr[j].label + Width(fr[j]) <= f.label
    <3>1. j \in 1..Len(op) /\ j < m /\ fr[j] = op[j]
      BY <1>2, <1>3
    <3> QED
      BY <1>1, <1>4, <3>1, ChainOrder
  <2>2. f.label + Width(f) <= lb /\ lb <= lb
    <3>1. f.label + 3 \in Labels(op[m])
      BY <1>4, <1>6 DEF Labels
    <3> QED
      BY <1>4, <1>6, <3>1
  <2>3. Chain(op2, base2, lb, base[m] + Pushes(f))
    BY <1>2, <1>4, <2>1, <2>2, ChainPush
  <2> QED
    BY <1>6, <2>3
<1>9. Promised(op2, base2, sc2, rng, G, P2)
  <2>1. Promised(fr, Front(base), sc2, rng, G, P2)
    <3>1. P \subseteq P2 /\ P2 \subseteq P \cup Labels(op[m])
      BY <1>6
    <3> QED
      BY <1>1, <3>1, PromisedPop DEF Nested, fr
  <2>2. RegsTo(sc2, base[m]) = RegsTo(sc, base[m])
    BY <1>4, RegsToAgree DEF Agree
  <2>3. Kept(f, base[m], sc2, rng, G, P2)
    <3>1. f.label + 3 # f.label + 2
      BY <1>4
    <3> QED
      BY <1>4, <1>6, <2>2, <3>1 DEF Kept
  <2> QED
    BY <1>0, <1>3, <1>4, <2>1, <2>3, PromisedPush
<1>10. Routed(op2, P2, T2)
  <2> SUFFICES ASSUME NEW l \in T2, l \notin P2 PROVE \E k \in 1..Len(op2) : l \in Due(op2[k])
    BY DEF Routed
  <2>1. CASE l \in Due(f)
    BY <1>7, <2>1
  <2>2. CASE l \in T
    <3>1. PICK k \in 1..Len(op) : l \in Due(op[k])
      BY <2>2 DEF Nested, Routed
    <3> QED
      BY <1>5, <1>6, <1>7, <3>1
  <2> QED
    BY <2>1, <2>2
<1>11. Looped(op2, lp)
  <2>1. \A k \in 1..Len(op) : op[k].kind \in LoopKinds => \E j \in 1..Len(op2) : op2[j] = op[k]
    BY <1>5, <1>7 DEF LoopKinds
  <2> HIDE DEF op2
  <2> QED
    BY <2>1, LoopedKeep DEF Nested
<1>12. P2 \subseteq 0..lb
  BY <1>4, <1>6 DEF Nested
<1> HIDE DEF op2, base2
<1>13. Nested(op2, sc2, lp, lb, rng, G, base2, P2, T2)
  BY <1>8, <1>9, <1>10, <1>11, <1>12 DEF Nested
<1> QED
  BY <1>13 DEF op2, base2, fr

(* The labels a break or a continue may go to.                                   *)
LEMMA LoopTarget ==
    ASSUME NEW op, NEW sc, NEW lp, NEW lb \in Nat, NEW rng, NEW G, NEW base, NEW P, NEW T,
           Len(sc) \in Nat, Nested(op, sc, lp, lb, rng, G, base, P, T), lp # <<>>,
           NEW l \in {Top(lp).end, Top(lp).continue}
    PROVE  /\ l \in Nat
           /\ l \in P \/ \E k \in 1..Len(op) : l \in Due(op[k])
           /\ G[l] \subseteq RegsTo(sc, Len(sc))
<1>1. lp \in Seq([continue : Nat, end : Nat]) /\ Len(lp) \in 1..Len(lp)
  <2>1. lp \in Seq([continue : Nat, end : Nat])
    BY DEF Nested, Looped
  <2> QED
    BY <2>1
<1>2. PICK k \in 1..Len(op) : op[k].kind \in LoopKinds /\ lp[Len(lp)] = LoopOf(op[k])
  BY <1>1 DEF Nested, Looped
<1>3. /\ op[k] \in Frames /\ base[k] \in Nat /\ Pushes(op[k]) \in {1, 2}
      /\ base[k] + Pushes(op[k]) <= Len(sc)
  BY ChainAt DEF Nested
<1>4. Kept(op[k], base[k], sc, rng, G, P)
  BY DEF Nested, Promised
<1>5. /\ LoopOf(op[k]) \in [continue : Nat, end : Nat]
      /\ LoopOf(op[k]).end \in Due(op[k])
      /\ LoopOf(op[k]).continue \in Due(op[k]) \cup Cond(op[k])
      /\ Due(op[k]) \subseteq Owed(op[k])
  BY <1>2, <1>3, FrameLabels
<1>6. l \in Nat /\ l \in Due(op[k]) \cup Cond(op[k])
  BY <1>2, <1>5 DEF Top
<1>7. G[l] = RegsTo(sc, base[k])
  BY <1>4, <1>5, <1>6 DEF Kept
<1>8. RegsTo(sc, base[k]) \subseteq RegsTo(sc, Len(sc))
  BY <1>3, RegsToMono
<1>9. Cond(op[k]) \subseteq P
  BY <1>4 DEF Kept
<1> QED
  BY <1>6, <1>7, <1>8, <1>9

-----------------------------------------------------------------------------
(* The invariant.                                                             *)

(* The bodies whose references must balance exactly, and those in which a range *)
(* loop may leave releases outside every block.                                 *)
Exact  == escaped = {} /\ \A k \in 1..Len(src) : src[k] \notin Leaky
Ranged == \E k \in 1..Len(src) : src[k] = "range"

(* The counters of the emitter, and the bound on registers they keep.         *)
Counters ==
    /\ src \in Seq(Kinds) /\ Len(src) <= MaxStmts
    /\ Recorded
    /\ labels \in Nat /\ regs \in Nat /\ regs <= Len(Params) + Len(src)

(* The code written satisfies the judgements for some register sets of the labels,*)
(* and the constructs that are open agree with them.                          *)
Placed(rng, e, c, ends, sc, op, lp, lb) ==
    \E G, base, P, T :
        /\ Emitted(rng, e, G, c, ends, P, T, RegsTo(sc, Len(sc)))
        /\ Nested(op, sc, lp, lb, rng, G, base, P, T)

(* The invariant of the emitter.                                              *)
IInv ==
    /\ Counters
    /\ Scoped(scopes, regs)
    /\ Emitting \/ terminated
    /\ Placed(Ranged, Exact, out, terminated, scopes, open, loops, labels)

(* What a statement finds when the emitter reaches it.                          *)
LEMMA StmtFacts ==
    ASSUME IInv, NEW kind, NextStmt(kind)
    PROVE  /\ terminated = FALSE /\ open # <<>> /\ escaped' = escaped
           /\ src' \in Seq(Kinds) /\ Len(src') <= MaxStmts /\ Len(src') = Len(src) + 1
           /\ Exact \in BOOLEAN /\ Ranged \in BOOLEAN /\ Exact' \in BOOLEAN /\ Ranged' \in BOOLEAN
           /\ Exact' => Exact
           /\ Ranged => Ranged'
           /\ Exact' => escaped = {} /\ kind \notin Leaky
           /\ kind = "range" => Ranged'
<1>1. /\ src \in Seq(Kinds) /\ Len(src) \in Nat /\ Len(src) < MaxStmts /\ MaxStmts \in Nat
      /\ kind \in Kinds /\ src' = Append(src, kind) /\ escaped' = escaped
  BY EmitAssumption DEF IInv, Counters, NextStmt, Allowed, Kinds
<1>2. terminated = FALSE /\ open # <<>>
  BY DEF IInv, Placed, Emitted, Shape, NextStmt, Emitting
<1>3. /\ src' \in Seq(Kinds) /\ Len(src') = Len(src) + 1 /\ src'[Len(src) + 1] = kind
      /\ \A k \in 1..Len(src) : src'[k] = src[k] /\ k \in 1..Len(src')
      /\ Len(src) + 1 \in 1..Len(src')
  BY <1>1
<1>4. Exact' => Exact
  BY <1>1, <1>3 DEF Exact
<1>5. Ranged => Ranged'
  BY <1>3 DEF Ranged
<1>6. Exact' => escaped = {} /\ kind \notin Leaky
  BY <1>1, <1>3 DEF Exact
<1>7. kind = "range" => Ranged'
  BY <1>3 DEF Ranged
<1>8. Exact \in BOOLEAN /\ Ranged \in BOOLEAN /\ Exact' \in BOOLEAN /\ Ranged' \in BOOLEAN
  BY DEF Exact, Ranged
<1> QED
  BY <1>1, <1>2, <1>3, <1>4, <1>5, <1>6, <1>7, <1>8

(* The next register is free, and the parameters are owned.                      *)
LEMMA FreeRegister ==
    ASSUME IInv, NEW kind, NextStmt(kind)
    PROVE  LET A == RegsTo(scopes, Len(scopes))
           IN  /\ A \in SUBSET Registers /\ ParamRegs \subseteq A
               /\ regs \in Nat /\ regs + 1 <= MaxRegs
               /\ regs + 1 \in Registers \ (A \cup ParamRegs)
<1> DEFINE A == RegsTo(scopes, Len(scopes))
<1>1. Len(src) + 1 <= MaxStmts /\ Len(src) \in Nat /\ MaxStmts \in Nat
  <2>1. Len(src') <= MaxStmts /\ Len(src') = Len(src) + 1
    BY StmtFacts
  <2>2. Len(src) \in Nat /\ MaxStmts \in Nat
    BY EmitAssumption DEF IInv, Counters
  <2> QED
    BY <2>1, <2>2
<1>2. regs \in Nat /\ regs <= Len(Params) + Len(src) /\ Len(Params) \in Nat
  BY EmitAssumption DEF IInv, Counters
<1>3. regs + 1 <= MaxRegs /\ MaxRegs \in Nat
  BY <1>1, <1>2 DEF MaxRegs
<1>4. Len(scopes) \in 1..Len(scopes)
  BY DEF IInv, Scoped, Scopes
<1>5. A \subseteq 1..regs /\ ParamRegs \subseteq A
  BY <1>2, <1>4, RegsToBound DEF IInv
<1> HIDE DEF A
<1>6. A \in SUBSET Registers /\ regs + 1 \in Registers \ (A \cup ParamRegs)
  <2>1. 1..regs \subseteq Registers /\ regs + 1 \in Registers /\ regs + 1 \notin 1..regs
    BY <1>2, <1>3 DEF Registers
  <2> QED
    BY <1>5, <2>1
<1> QED
  BY <1>2, <1>3, <1>5, <1>6 DEF A

(* From there on the judgements are those of a body with one more statement, and *)
(* what is owned here is what will be owned at any label not handed out yet.      *)
LEMMA StmtStart ==
    ASSUME IInv, NEW kind, NextStmt(kind)
    PROVE  \E G, base, P, T :
              /\ Emitted(Ranged', Exact', G, out, FALSE, P, T, RegsTo(scopes, Len(scopes)))
              /\ Nested(open, scopes, loops, labels, Ranged', G, base, P, T)
              /\ \A l \in Nat : l > labels => G[l] = RegsTo(scopes, Len(scopes))
<1> DEFINE A == RegsTo(scopes, Len(scopes))
<1>0. labels \in Nat /\ Len(scopes) \in Nat
  BY DEF IInv, Counters, Scoped, Scopes
<1> HIDE DEF A
<1>1. PICK G, base, P, T :
          /\ Emitted(Ranged, Exact, G, out, terminated, P, T, A)
          /\ Nested(open, scopes, loops, labels, Ranged, G, base, P, T)
  BY DEF IInv, Placed, A
<1> DEFINE G2 == [l \in Nat |-> IF l > labels THEN A ELSE G[l]]
<1>2. Agree(G2, G, 0..labels) /\ \A l \in Nat : l > labels => G2[l] = A
  BY <1>0 DEF Agree
<1>3. Agree(G2, G, P \cup T)
  <2>1. P \cup T \subseteq 0..labels
    BY <1>0, <1>1, TargetsKnown
  <2> QED
    BY <1>2, <2>1 DEF Agree
<1> HIDE DEF G2
<1>4. Emitted(Ranged', Exact', G2, out, FALSE, P, T, A)
  <2>1. /\ terminated = FALSE
        /\ Exact \in BOOLEAN /\ Ranged \in BOOLEAN /\ Exact' \in BOOLEAN /\ Ranged' \in BOOLEAN
        /\ Exact' => Exact
        /\ Ranged => Ranged'
    BY StmtFacts
  <2>2. ASSUME NEW r \in BOOLEAN, NEW x \in BOOLEAN, NEW r2 \in BOOLEAN, NEW x2 \in BOOLEAN,
               x2 => x, r => r2, Emitted(r, x, G, out, terminated, P, T, A)
        PROVE  Emitted(r2, x2, G2, out, terminated, P, T, A)
    BY <1>3, <2>2, RuleContext
  <2>3. Emitted(Ranged', Exact', G2, out, terminated, P, T, A)
    BY <1>1, <2>1, <2>2
  <2> QED
    BY <2>1, <2>3
<1>5. Nested(open, scopes, loops, labels, Ranged', G2, base, P, T)
  <2>1. SameBelow(scopes, scopes)
    BY DEF SameBelow, Agree
  <2>2. Routed(open, P, T)
    BY <1>1 DEF Nested
  <2>3. P \subseteq P \cup (labels + 1)..labels /\ labels <= labels
    BY <1>0
  <2>4. Ranged => Ranged'
    BY StmtFacts
  <2> QED
    BY <1>0, <1>1, <1>2, <2>1, <2>2, <2>3, <2>4, NestedStep
<1> QED
  BY <1>2, <1>4, <1>5 DEF A

(* While a function is emitted there is a scope besides that of the           *)
(* parameters.                                                                *)
LEMMA Deep ==
    ASSUME NEW op, NEW sc, NEW lp, NEW lb \in Nat, NEW rng, NEW G, NEW base, NEW P, NEW T,
           Len(sc) \in Nat, op # <<>>, Nested(op, sc, lp, lb, rng, G, base, P, T)
    PROVE  Len(sc) > 1
<1> DEFINE m == Len(op)
<1>0. m = Len(op) /\ m \in Nat
  BY DEF Nested, Chain
<1>1. /\ m \in 1..Len(op) /\ op[m] \in Frames /\ base[m] \in Nat
      /\ Len(sc) = base[m] + Pushes(op[m])
  BY Innermost
<1> HIDE DEF m
<1>2. 1 \in 1..Len(op) /\ op[1].kind = "fn" /\ Pushes(op[1]) = 2 /\ base[1] \in Nat
  <2>1. 1 \in 1..Len(op)
    BY <1>0, <1>1
  <2>2. op[1].kind = "fn"
    BY <2>1 DEF Nested, Chain
  <2> QED
    BY <2>1, <2>2, ChainAt DEF Nested, Pushes
<1>3. Pushes(op[m]) \in {1, 2}
  BY DEF Pushes
<1>4. CASE m = 1
  BY <1>1, <1>2, <1>4
<1>5. CASE m # 1
  <2>1. 1 < m
    BY <1>0, <1>1, <1>5
  <2>2. base[1] + Pushes(op[1]) <= base[m]
    BY <1>1, <1>2, <2>1, ChainOrder DEF Nested
  <2> QED
    BY <1>1, <1>2, <1>3, <2>2
<1> QED
  BY <1>4, <1>5

(* The invariant again, from what a statement did.                               *)
LEMMA StmtEnd ==
    ASSUME IInv, NEW kind, NextStmt(kind),
           Recorded', labels' \in Nat, regs' \in {regs, regs + 1},
           Scoped(scopes', regs'), open' # <<>>,
           Placed(Ranged', Exact', out', terminated', scopes', open', loops', labels')
    PROVE  IInv'
<1>1. Counters'
  <2>1. src' \in Seq(Kinds) /\ Len(src') <= MaxStmts /\ Len(src') = Len(src) + 1
    BY StmtFacts
  <2>2. regs \in Nat /\ regs <= Len(Params) + Len(src) /\ Len(src) \in Nat /\ Len(Params) \in Nat
    BY EmitAssumption DEF IInv, Counters
  <2> QED
    BY <2>1, <2>2 DEF Counters
<1>2. (Emitting \/ terminated)'
  BY DEF Emitting
<1> QED
  BY <1>1, <1>2 DEF IInv

(* The code of a statement of that kind, written after c where A is owned, leaves  *)
(* A2, whatever is emitted around it.                                             *)
Writes(kind, c, A, code, ends, A2) ==
    \A rng, e \in BOOLEAN : \A G, P, T :
        (e => escaped = {} /\ kind \notin Leaky) /\ Emitted(rng, e, G, c, FALSE, P, T, A)
            => Emitted(rng, e, G, c \o code, ends, P, T, A2)

(* A statement that starts no construct, names no label and writes one piece of    *)
(* code, whatever is emitted around it.                                           *)
LEMMA PlainStmt ==
    ASSUME IInv, NEW kind, NextStmt(kind), NEW code, NEW ends, Write(code, ends),
           UNCHANGED <<open, loops, labels>>, Recorded',
           Scoped(scopes', regs'), regs' \in {regs, regs + 1},
           SameBelow(scopes', scopes), NEW A2, RegsTo(scopes', Len(scopes')) = A2,
           Writes(kind, out, RegsTo(scopes, Len(scopes)), code, ends, A2)
    PROVE  IInv'
<1>0. labels \in Nat /\ Len(scopes) \in Nat
  BY DEF IInv, Counters, Scoped, Scopes
<1>1. PICK G, base, P, T :
         /\ Emitted(Ranged', Exact', G, out, FALSE, P, T, RegsTo(scopes, Len(scopes)))
         /\ Nested(open, scopes, loops, labels, Ranged', G, base, P, T)
  BY StmtStart
<1>2. Emitted(Ranged', Exact', G, out \o code, ends, P, T, RegsTo(scopes', Len(scopes')))
  <2>1. Exact' \in BOOLEAN /\ Ranged' \in BOOLEAN /\ (Exact' => escaped = {} /\ kind \notin Leaky)
    BY StmtFacts
  <2> QED
    BY <1>1, <2>1 DEF Writes
<1>3. Nested(open, scopes', loops, labels, Ranged', G, base, P, T)
  <2>1. Agree(G, G, 0..labels)
    BY DEF Agree
  <2>2. Routed(open, P, T)
    BY <1>1 DEF Nested
  <2>3. P \subseteq P \cup (labels + 1)..labels /\ labels <= labels
    BY <1>0
  <2> QED
    BY <1>0, <1>1, <2>1, <2>2, <2>3, NestedStep
<1>4. out' = out \o code /\ terminated' = ends /\ open' = open /\ loops' = loops /\ labels' = labels
  BY DEF Write
<1>5. Placed(Ranged', Exact', out', terminated', scopes', open', loops', labels')
  BY <1>2, <1>3, <1>4 DEF Placed
<1>6. open' # <<>>
  BY <1>4, StmtFacts
<1> QED
  BY <1>0, <1>4, <1>5, <1>6, StmtEnd

(* Facts every lemma about a step uses.                                          *)
LEMMA Basics ==
    ASSUME IInv
    PROVE  /\ labels \in Nat /\ regs \in Nat /\ regs <= MaxRegs /\ Recorded
           /\ Len(scopes) \in Nat \ {0} /\ Scoped(scopes, regs)
<1>1. /\ labels \in Nat /\ regs \in Nat /\ regs <= Len(Params) + Len(src)
      /\ Len(src) \in Nat /\ Len(src) <= MaxStmts /\ Recorded
  BY DEF IInv, Counters
<1>2. MaxStmts \in Nat /\ Len(Params) \in Nat
  BY EmitAssumption
<1>3. regs <= MaxRegs
  BY <1>1, <1>2 DEF MaxRegs
<1>4. Scoped(scopes, regs)
  BY DEF IInv
<1>5. Len(scopes) \in Nat \ {0}
  BY <1>4, EmptySeq DEF Scoped, Scopes
<1> QED
  BY <1>1, <1>3, <1>4, <1>5

(* What a declaration does to the scopes.                                        *)
LEMMA Declared ==
    ASSUME IInv, NEW kind, NextStmt(kind), NEW x \in Vars, DeclareVar(x)
    PROVE  /\ Scoped(scopes', regs') /\ regs' = regs + 1
           /\ SameBelow(scopes', scopes)
           /\ RegsTo(scopes', Len(scopes')) = RegsTo(scopes, Len(scopes)) \cup {regs + 1}
<1>1. regs \in Nat /\ Scoped(scopes, regs) /\ Len(scopes) \in Nat /\ labels \in Nat
  BY Basics
<1>2. Len(scopes) > 1
  <2>1. PICK G, base, P, T : Nested(open, scopes, loops, labels, Ranged', G, base, P, T)
    BY StmtStart
  <2> QED
    BY <1>1, <2>1, StmtFacts, Deep
<1>3. scopes' = [scopes EXCEPT ![Len(scopes)] = @ \cup {<<x, regs + 1>>}] /\ regs' = regs + 1
  BY DEF DeclareVar
<1>4. /\ Scoped(scopes', regs + 1) /\ Len(scopes') = Len(scopes)
      /\ Agree(scopes', scopes, 1..(Len(scopes) - 1))
      /\ RegsTo(scopes', Len(scopes')) = RegsTo(scopes, Len(scopes)) \cup {regs + 1}
  <2>1. ASSUME NEW sc2, sc2 = [scopes EXCEPT ![Len(scopes)] = @ \cup {<<x, regs + 1>>}]
        PROVE  Scoped(sc2, regs + 1)
    BY <1>1, <1>2, <2>1, ScopedDeclare
  <2>2. ASSUME NEW sc2, sc2 = [scopes EXCEPT ![Len(scopes)] = @ \cup {<<x, regs + 1>>}]
        PROVE  \A i \in 1..(Len(scopes) - 1) : sc2[i] = scopes[i]
    BY <1>1, <1>2, <2>2, ScopedDeclare
  <2>3. ASSUME NEW sc2, sc2 = [scopes EXCEPT ![Len(scopes)] = @ \cup {<<x, regs + 1>>}]
        PROVE  RegsTo(sc2, Len(sc2)) = RegsTo(scopes, Len(scopes)) \cup {regs + 1}
    BY <1>1, <1>2, <2>3, ScopedDeclare
  <2>4. ASSUME NEW sc2, sc2 = [scopes EXCEPT ![Len(scopes)] = @ \cup {<<x, regs + 1>>}]
        PROVE  Len(sc2) = Len(scopes)
    BY <1>1, <1>2, <2>4, ScopedDeclare
  <2> QED
    BY <1>3, <2>1, <2>2, <2>3, <2>4 DEF Agree
<1> QED
  BY <1>3, <1>4 DEF SameBelow

(* x := "a" + "b" keeps the invariant.                                        *)
LEMMA VarNewKeeps == ASSUME IInv, NEW x \in Vars, VarNew(x) PROVE IInv'
<1> DEFINE A == RegsTo(scopes, Len(scopes))
           r == regs + 1
<1>1. /\ NextStmt("var") /\ DeclareVar(x) /\ Write(<<New(r)>>, FALSE)
      /\ UNCHANGED <<open, loops, labels>> /\ Recorded'
  BY StmtFacts, Basics DEF VarNew, AppendCode, Write, Recorded
<1>2. /\ Scoped(scopes', regs') /\ regs' \in {regs, regs + 1}
      /\ SameBelow(scopes', scopes)
      /\ RegsTo(scopes', Len(scopes')) = A \cup {r}
  BY <1>1, Declared
<1>3. A \in SUBSET Registers /\ r \in Registers \ (A \cup ParamRegs)
  BY <1>1, FreeRegister
<1> HIDE DEF r
<1>4. Writes("var", out, A, <<New(r)>>, FALSE, A \cup {r})
  BY <1>3, RuleNew DEF Writes
<1> QED
  BY <1>1, <1>2, <1>4, PlainStmt

(* What a return writes is code.                                              *)
LEMMA ExitCode ==
    ASSUME NEW r \in Nat, NEW sc, Scoped(sc, r), r <= MaxRegs, Recorded, NEW q \in Nat
    PROVE  Exit(sc, q) \in Seq(Code)
<1> DEFINE n == Len(sc)
           rs == UNION {Owned(sc[i]) : i \in 2..n}
           u == Deferred(sc)
<1>1. n \in Nat /\ n \in 1..n
  BY DEF Scoped, Scopes
<1>2. RegsTo(sc, n) \subseteq 1..r
  BY <1>1, RegsToBound
<1>3. 1..r \subseteq Registers
  BY EmitAssumption DEF MaxRegs, Registers
<1>4. \A i \in 2..n : i \in 1..n
  BY <1>1
<1>5. rs \in SUBSET Registers
  BY <1>2, <1>3, <1>4, OwnedRegs DEF RegsTo
<1>6. u \in Seq(Code)
  BY DeferredUses
<1> HIDE DEF rs, u
<1>7. Release(rs) \in Seq(Code) /\ <<Ret(q)>> \in Seq(Code)
  BY <1>5, ReleaseCode, CodeTypes
<1>8. Release(rs) \o u \in Seq(Code)
  BY <1>6, <1>7, Join
<1>9. (Release(rs) \o u) \o <<Ret(q)>> \in Seq(Code)
  BY <1>7, <1>8, Join
<1> QED
  BY <1>9 DEF Exit, AllDeallocations, rs, u

(* Registers handed out do not disturb the scopes.                               *)
LEMMA ScopedMore ==
    ASSUME NEW r \in Nat, NEW sc, Scoped(sc, r)
    PROVE  Scoped(sc, r + 1)
<1>1. SUBSET (Vars \X (1..r)) \subseteq SUBSET (Vars \X (1..(r + 1)))
  <2>1. 1..r \subseteq 1..(r + 1)
    OBVIOUS
  <2> QED
    BY <2>1
<1>2. sc \in Scopes(r + 1)
  BY <1>1 DEF Scoped, Scopes
<1> QED
  BY <1>2 DEF Scoped

(* What a statement may read and write here.                                     *)
LEMMA InScope ==
    ASSUME IInv, NEW kind, NextStmt(kind), NEW A, A = RegsTo(scopes, Len(scopes))
    PROVE  /\ A \in SUBSET Registers /\ ParamRegs \subseteq A
           /\ regs + 1 \in Registers \ (A \cup ParamRegs)
           /\ \A x : Resolve(scopes, x) # 0 => Resolve(scopes, x) \in A
<1>1. /\ A \in SUBSET Registers /\ ParamRegs \subseteq A
      /\ regs + 1 \in Registers \ (A \cup ParamRegs)
  BY FreeRegister
<1>2. \A x : Resolve(scopes, x) # 0 => Resolve(scopes, x) \in A
  BY Basics, Resolved
<1> QED
  BY <1>1, <1>2

(* A statement that leaves the scopes as they are.                                *)
LEMMA SameScopes ==
    ASSUME IInv, NEW kind, NextStmt(kind), NEW code, NEW ends, Write(code, ends),
           UNCHANGED <<open, scopes, loops, labels>>, Recorded', regs' \in {regs, regs + 1},
           NEW A, A = RegsTo(scopes, Len(scopes)), Writes(kind, out, A, code, ends, A)
    PROVE  IInv'
<1>1. Scoped(scopes', regs')
  BY Basics, ScopedMore
<1>2. SameBelow(scopes', scopes) /\ RegsTo(scopes', Len(scopes')) = A
  BY DEF SameBelow, Agree
<1>3. UNCHANGED <<open, loops, labels>>
  OBVIOUS
<1> QED
  BY <1>1, <1>2, <1>3, PlainStmt

(* x := y keeps the invariant: the retain comes before the store.             *)
LEMMA VarCopyKeeps ==
    ASSUME IInv, NEW x \in Vars, NEW y \in Vars, VarCopy(x, y) PROVE IInv'
<1> DEFINE A == RegsTo(scopes, Len(scopes))
           r == regs + 1
           s == Resolve(scopes, y)
           code == <<Retain(s), Store(r, s)>>
<1>1. /\ NextStmt("var") /\ DeclareVar(x) /\ Write(code, FALSE) /\ s # 0
      /\ UNCHANGED <<open, loops, labels>> /\ Recorded'
  BY StmtFacts, Basics DEF VarCopy, AppendCode, Write, Recorded
<1>2. /\ Scoped(scopes', regs') /\ regs' \in {regs, regs + 1}
      /\ SameBelow(scopes', scopes)
      /\ RegsTo(scopes', Len(scopes')) = A \cup {r}
  BY <1>1, Declared
<1>3. A \in SUBSET Registers /\ r \in Registers \ A /\ s \in A /\ s \in Registers
  BY <1>1, InScope
<1> HIDE DEF r, s, A
<1>4. Writes("var", out, A, code, FALSE, A \cup {r})
  BY <1>3, RuleCopy DEF Writes
<1> HIDE DEF code
<1> QED
  BY <1>1, <1>2, <1>4, PlainStmt DEF A

(* x = "a" + "b" keeps the invariant: the new object's register is moved.     *)
LEMMA AssignNewKeeps == ASSUME IInv, NEW x \in Vars, AssignNew(x) PROVE IInv'
<1> DEFINE A == RegsTo(scopes, Len(scopes))
           t == regs + 1
           r == Resolve(scopes, x)
           code == <<New(t)>> \o Release({r}) \o <<Store(r, t)>>
<1>1. /\ NextStmt("assign") /\ Write(code, FALSE) /\ r # 0 /\ regs' \in {regs, regs + 1}
      /\ UNCHANGED <<open, scopes, loops, labels>> /\ Recorded'
  BY StmtFacts, Basics DEF AssignNew, AppendCode, Write, Recorded
<1>2. A \in SUBSET Registers /\ t \in Registers \ (A \cup ParamRegs) /\ r \in A
  BY <1>1, InScope
<1> HIDE DEF r, t, A
<1>3. Writes("assign", out, A, code, FALSE, A)
  BY <1>2, RuleAssignNew DEF Writes
<1> HIDE DEF code
<1> QED
  BY <1>1, <1>3, SameScopes DEF A

(* x = y keeps the invariant: the old reference goes, the new one is          *)
(* counted.                                                                   *)
LEMMA AssignCopyKeeps ==
    ASSUME IInv, NEW x \in Vars, NEW y \in Vars, AssignCopy(x, y) PROVE IInv'
<1> DEFINE A == RegsTo(scopes, Len(scopes))
           r == Resolve(scopes, x)
           s == Resolve(scopes, y)
           code == Release({r}) \o <<Retain(s), Store(r, s)>>
<1>1. /\ NextStmt("assign") /\ Write(code, FALSE) /\ r # 0 /\ s # 0 /\ regs' \in {regs, regs + 1}
      /\ UNCHANGED <<open, scopes, loops, labels>> /\ Recorded'
  BY StmtFacts, Basics DEF AssignCopy, AppendCode, Write, Recorded
<1>2. A \in SUBSET Registers /\ r \in A /\ s \in A
  BY <1>1, InScope
<1> HIDE DEF r, s, A
<1>3. Writes("assign", out, A, code, FALSE, A)
  BY <1>2, RuleAssignCopy DEF Writes
<1> HIDE DEF code
<1> QED
  BY <1>1, <1>3, SameScopes DEF A

(* A use keeps the invariant.                                                 *)
LEMMA ExprStmtKeeps == ASSUME IInv, NEW x \in Vars, ExprStmt(x) PROVE IInv'
<1> DEFINE A == RegsTo(scopes, Len(scopes))
           r == Resolve(scopes, x)
           code == <<Use(r, 0)>>
<1>1. /\ NextStmt("use") /\ Write(code, FALSE) /\ r # 0 /\ regs' \in {regs, regs + 1}
      /\ UNCHANGED <<open, scopes, loops, labels>> /\ Recorded'
  BY StmtFacts, Basics DEF ExprStmt, AppendCode, Write, Recorded
<1>2. A \in SUBSET Registers /\ r \in A
  BY <1>1, InScope
<1>3. r \in Nat
  BY <1>2, EmitAssumption DEF Registers
<1> HIDE DEF r, A
<1>4. Writes("use", out, A, code, FALSE, A)
  BY <1>2, <1>3, RuleUse DEF Writes
<1> HIDE DEF code
<1> QED
  BY <1>1, <1>4, SameScopes DEF A

(* A panic keeps the invariant.                                               *)
LEMMA PanicCallKeeps == ASSUME IInv, PanicCall PROVE IInv'
<1> DEFINE A == RegsTo(scopes, Len(scopes))
           code == <<Unreachable>>
<1>1. /\ NextStmt("panic") /\ Write(code, TRUE) /\ regs' \in {regs, regs + 1}
      /\ UNCHANGED <<open, scopes, loops, labels>> /\ Recorded'
  BY StmtFacts, Basics DEF PanicCall, Recorded
<1>2. A \in SUBSET Registers /\ ParamRegs \subseteq A
  BY <1>1, InScope
<1> HIDE DEF A
<1>3. Writes("panic", out, A, code, TRUE, A)
  <2> SUFFICES ASSUME NEW rng \in BOOLEAN, NEW e \in BOOLEAN, NEW G, NEW P, NEW T, ~e,
                      Emitted(rng, e, G, out, FALSE, P, T, A)
               PROVE  Emitted(rng, e, G, out \o code, TRUE, P, T, A)
    BY DEF Writes, Leaky
  <2>1. Fits(e, ParamRegs, A)
    BY <1>2 DEF Fits
  <2> QED
    BY <1>2, <2>1, RuleEnd
<1> HIDE DEF code
<1> QED
  BY <1>1, <1>3, SameScopes DEF A

(* return keeps the invariant: all scopes but the parameters' are released.   *)
LEMMA ReturnVoidKeeps == ASSUME IInv, ReturnVoid PROVE IInv'
<1> DEFINE A == RegsTo(scopes, Len(scopes))
           code == Exit(scopes, 0)
<1>1. /\ NextStmt("return") /\ Write(code, TRUE) /\ regs' \in {regs, regs + 1}
      /\ UNCHANGED <<open, scopes, loops, labels>> /\ Recorded'
  BY StmtFacts, Basics DEF ReturnVoid, Recorded
<1>2. Writes("return", out, A, code, TRUE, A)
  BY Basics, RuleExit DEF Writes
<1> HIDE DEF code
<1> QED
  BY <1>1, <1>2, SameScopes DEF A

(* What a return of a value finds: the scopes, and a register to read it into.    *)
LEMMA ValueStart ==
    ASSUME IInv, NEW kind, NextStmt(kind), NEW A, A = RegsTo(scopes, Len(scopes)), NEW t, t = regs + 1
    PROVE  /\ A \in SUBSET Registers /\ t \in Registers \ (A \cup ParamRegs)
           /\ {t} \in SUBSET Registers /\ {t} \cap A = {}
           /\ t \in Nat /\ t # 0 /\ t \notin Released(scopes)
<1>1. A \in SUBSET Registers /\ t \in Registers \ (A \cup ParamRegs)
  BY InScope
<1>2. t \in Nat /\ t # 0
  BY Basics
<1>3. Released(scopes) \subseteq A
  <2>1. \A i \in 2..Len(scopes) : i \in 1..Len(scopes)
    BY Basics
  <2> QED
    BY <2>1, OwnedRegs DEF Released, RegsTo
<1> QED
  BY <1>1, <1>2, <1>3

(* A value read into the register t, and returned.                                 *)
LEMMA RuleValue ==
    ASSUME IInv, NEW kind \in {"value"}, NextStmt(kind), NEW A, A = RegsTo(scopes, Len(scopes)),
           NEW t, t = regs + 1, NEW a \in Seq(Code),
           Writes(kind, out, A, a, FALSE, A \cup {t})
    PROVE  Writes(kind, out, A, a \o Exit(scopes, t), TRUE, A)
<1>1. /\ A \in SUBSET Registers /\ {t} \in SUBSET Registers /\ {t} \cap A = {}
      /\ t \in Nat /\ t # 0 /\ t \notin Released(scopes)
  BY ValueStart
<1>2. Exit(scopes, t) \in Seq(Code)
  BY <1>1, Basics, ExitCode
<1> SUFFICES ASSUME NEW rng \in BOOLEAN, NEW e \in BOOLEAN, NEW G, NEW P, NEW T, ~e,
                    Emitted(rng, e, G, out, FALSE, P, T, A)
             PROVE  Emitted(rng, e, G, out \o (a \o Exit(scopes, t)), TRUE, P, T, A)
  BY DEF Writes, Leaky
<1>3. Emitted(rng, e, G, out \o a, FALSE, P, T, A \cup {t})
  BY DEF Writes
<1>4. PICK c : c = out \o a
  OBVIOUS
<1>5. Emitted(rng, e, G, c \o Exit(scopes, t), TRUE, P, T, A)
  <2>1. Emitted(rng, e, G, c, FALSE, P, T, RegsTo(scopes, Len(scopes)) \cup {t})
    BY <1>3, <1>4
  <2>2. {t} \cap RegsTo(scopes, Len(scopes)) = {}
    BY <1>1
  <2>3. t \in (RegsTo(scopes, Len(scopes)) \cup {t}) \ Released(scopes)
    BY <1>1
  <2> QED
    BY <1>1, <2>1, <2>2, <2>3, Basics, RuleReturn
<1>6. out \in Seq(Code)
  BY DEF Emitted, Listing
<1>7. c \o Exit(scopes, t) = out \o (a \o Exit(scopes, t))
  BY <1>2, <1>4, <1>6, Assoc
<1> QED
  BY <1>5, <1>7

(* return x keeps the invariant: the reference retained for the caller is that of  *)
(* a register no scope releases.                                                  *)
LEMMA ReturnVarKeeps == ASSUME IInv, NEW x \in Vars, ReturnVar(x) PROVE IInv'
<1> DEFINE A == RegsTo(scopes, Len(scopes))
           s == Resolve(scopes, x)
           t == regs + 1
           a == <<Retain(s), Store(t, s)>>
           code == a \o Exit(scopes, t)
<1>1. /\ NextStmt("value") /\ Write(code, TRUE) /\ s # 0 /\ regs' \in {regs, regs + 1}
      /\ UNCHANGED <<open, scopes, loops, labels>> /\ Recorded'
  BY StmtFacts, Basics DEF ReturnVar, Recorded
<1>2. A \in SUBSET Registers /\ s \in A /\ s \in Registers /\ t \in Registers \ A
  BY <1>1, InScope
<1>3. t = regs + 1 /\ A = RegsTo(scopes, Len(scopes))
  OBVIOUS
<1> HIDE DEF s, t, A
<1>4. a \in Seq(Code)
  BY <1>2, CodeTypes
<1>5. Writes("value", out, A, a, FALSE, A \cup {t})
  BY <1>2, RuleCopy DEF Writes
<1> HIDE DEF a
<1>6. Writes("value", out, A, code, TRUE, A)
  BY <1>1, <1>3, <1>4, <1>5, RuleValue
<1> HIDE DEF code
<1> QED
  BY <1>1, <1>3, <1>6, SameScopes

(* return "a" + "b" keeps the invariant.                                         *)
LEMMA ReturnNewKeeps == ASSUME IInv, ReturnNew PROVE IInv'
<1> DEFINE A == RegsTo(scopes, Len(scopes))
           t == regs + 1
           a == <<New(t), Retain(t)>>
           code == a \o Exit(scopes, t)
<1>1. /\ NextStmt("value") /\ Write(code, TRUE) /\ regs' \in {regs, regs + 1}
      /\ UNCHANGED <<open, scopes, loops, labels>> /\ Recorded'
  BY StmtFacts, Basics DEF ReturnNew, Recorded
<1>2. A \in SUBSET Registers /\ t \in Registers \ (A \cup ParamRegs)
  BY <1>1, InScope
<1>3. t = regs + 1 /\ A = RegsTo(scopes, Len(scopes))
  OBVIOUS
<1> HIDE DEF t, A
<1>4. a \in Seq(Code) /\ <<New(t)>> \in Seq(Code) /\ <<Retain(t)>> \in Seq(Code)
  BY <1>2, CodeTypes
<1>5. Writes("value", out, A, a, FALSE, A \cup {t})
  <2> SUFFICES ASSUME NEW rng \in BOOLEAN, NEW e \in BOOLEAN, NEW G, NEW P, NEW T, ~e,
                      Emitted(rng, e, G, out, FALSE, P, T, A)
               PROVE  Emitted(rng, e, G, out \o a, FALSE, P, T, A \cup {t})
    BY DEF Writes, Leaky
  <2>1. Emitted(rng, e, G, out \o <<New(t)>>, FALSE, P, T, A \cup {t})
    BY <1>2, RuleNew
  <2>2. Emitted(rng, e, G, (out \o <<New(t)>>) \o <<Retain(t)>>, FALSE, P, T, A \cup {t})
    <3>1. t \in A \cup {t} /\ A \cup {t} \in SUBSET Registers
      BY <1>2
    <3> QED
      BY <2>1, <3>1, RuleRetain
  <2>3. out \in Seq(Code)
    BY DEF Emitted, Listing
  <2>4. (out \o <<New(t)>>) \o <<Retain(t)>> = out \o a
    BY <1>4, <2>3, Assoc, JoinTwo
  <2> QED
    BY <2>2, <2>4
<1> HIDE DEF a
<1>6. Writes("value", out, A, code, TRUE, A)
  BY <1>1, <1>3, <1>4, <1>5, RuleValue
<1> HIDE DEF code
<1> QED
  BY <1>1, <1>3, <1>6, SameScopes

(* A return of several values keeps the invariant: the one that escapes is not     *)
(* released.                                                                     *)
LEMMA ReturnManyKeeps == ASSUME IInv, NEW x \in Vars, ReturnMany(x) PROVE IInv'
<1> DEFINE A == RegsTo(scopes, Len(scopes))
           q == Resolve(scopes, x)
           code == Exit(scopes, q)
<1>1. /\ NextStmt("values") /\ Write(code, TRUE) /\ q # 0 /\ regs' \in {regs, regs + 1}
      /\ UNCHANGED <<open, scopes, loops, labels>> /\ Recorded' /\ escaped # {} /\ Escapes(x)
  BY StmtFacts, Basics DEF ReturnMany, Recorded, Escapes
<1>2. A \in SUBSET Registers /\ q \in A /\ q \in Nat
  BY <1>1, InScope, EmitAssumption DEF Registers
<1>3. q \notin Released(scopes)
  BY <1>1, Basics, NotReleased
<1>4. A = RegsTo(scopes, Len(scopes))
  OBVIOUS
<1> HIDE DEF q, A
<1>5. Writes("values", out, A, code, TRUE, A)
  <2> SUFFICES ASSUME NEW rng \in BOOLEAN, NEW e \in BOOLEAN, NEW G, NEW P, NEW T, ~e,
                      Emitted(rng, e, G, out, FALSE, P, T, A)
               PROVE  Emitted(rng, e, G, out \o code, TRUE, P, T, A)
    BY <1>1 DEF Writes
  <2>1. PICK X : X = {}
    OBVIOUS
  <2>2. Emitted(rng, e, G, out, FALSE, P, T, RegsTo(scopes, Len(scopes)) \cup X)
    BY <1>4, <2>1
  <2>3. q \in (RegsTo(scopes, Len(scopes)) \cup X) \ Released(scopes)
    BY <1>2, <1>3, <1>4
  <2> QED
    BY <1>2, <2>1, <2>2, <2>3, Basics, RuleReturn
<1> HIDE DEF code
<1> QED
  BY <1>1, <1>4, <1>5, SameScopes

(* A defer keeps the invariant.                                               *)
LEMMA DeferStmtKeeps == ASSUME IInv, NEW x \in Vars, DeferStmt(x) PROVE IInv'
<1> DEFINE A == RegsTo(scopes, Len(scopes))
           id == Len(deferred) + 1
           code == <<Sched(id)>>
<1>1. /\ NextStmt("defer") /\ Write(code, FALSE) /\ regs' \in {regs, regs + 1}
      /\ UNCHANGED <<open, scopes, loops, labels>>
      /\ deferred' = Append(deferred, [name |-> x, id |-> id])
  BY StmtFacts, Basics DEF DeferStmt, AppendCode, Write
<1>2. A \in SUBSET Registers
  BY <1>1, InScope
<1>3. id \in Nat /\ Recorded'
  BY <1>1, Basics DEF Recorded
<1> HIDE DEF id, A
<1>4. Writes("defer", out, A, code, FALSE, A)
  BY <1>2, <1>3, RuleSched DEF Writes
<1> HIDE DEF code
<1> QED
  BY <1>1, <1>3, <1>4, SameScopes DEF A

-----------------------------------------------------------------------------
(* Statements that name labels.                                               *)

(* What a statement finds, with names for the two tests of the body.             *)
Around(kind, A, rng, e, G, base, P, T) ==
    /\ rng = Ranged' /\ e = Exact'
    /\ e => escaped = {} /\ kind \notin Leaky
    /\ kind = "range" => rng
    /\ Emitted(rng, e, G, out, FALSE, P, T, A)
    /\ Nested(open, scopes, loops, labels, rng, G, base, P, T)
    /\ \A l \in Nat : l > labels => G[l] = A

(* What is known of the code before a statement.                              *)
LEMMA StmtBegin ==
    ASSUME IInv, NEW kind, NextStmt(kind), NEW A, A = RegsTo(scopes, Len(scopes))
    PROVE  \E rng, e \in BOOLEAN : \E G, base, P, T : Around(kind, A, rng, e, G, base, P, T)
<1>1. PICK G, base, P, T :
         /\ Emitted(Ranged', Exact', G, out, FALSE, P, T, A)
         /\ Nested(open, scopes, loops, labels, Ranged', G, base, P, T)
         /\ \A l \in Nat : l > labels => G[l] = A
  BY StmtStart
<1>2. /\ Exact' \in BOOLEAN /\ Ranged' \in BOOLEAN
      /\ Exact' => escaped = {} /\ kind \notin Leaky
      /\ kind = "range" => Ranged'
  BY StmtFacts
<1> QED
  BY <1>1, <1>2 DEF Around

(* A statement keeps the invariant when its code is placed.                   *)
LEMMA StmtPlaced ==
    ASSUME IInv, NEW kind, NextStmt(kind),
           Recorded', labels' \in Nat, regs' \in {regs, regs + 1},
           Scoped(scopes', regs'), open' # <<>>,
           NEW rng \in BOOLEAN, NEW e \in BOOLEAN, rng = Ranged', e = Exact',
           Placed(rng, e, out', terminated', scopes', open', loops', labels')
    PROVE  IInv'
<1>1. Placed(Ranged', Exact', out', terminated', scopes', open', loops', labels')
  OBVIOUS
<1> QED
  BY <1>1, StmtEnd

(* A branch out of the body of a loop, from wherever in it.                       *)
LEMMA LeaveLoop ==
    ASSUME IInv, NEW kind \in {"break", "continue"}, NextStmt(kind), loops # <<>>,
           NEW l \in {Top(loops).end, Top(loops).continue}, Write(<<Br({l})>>, TRUE),
           UNCHANGED <<open, scopes, deferred, loops, labels, regs>>
    PROVE  IInv'
<1> DEFINE A == RegsTo(scopes, Len(scopes))
           code == <<Br({l})>>
<1>b. PICK rng \in BOOLEAN, e \in BOOLEAN :
         \E G, base, P, T : Around(kind, A, rng, e, G, base, P, T)
  BY StmtBegin
<1>0. PICK G, base, P, T : Around(kind, A, rng, e, G, base, P, T)
  BY <1>b
<1>1. /\ rng = Ranged' /\ e = Exact' /\ ~e
      /\ Emitted(rng, e, G, out, FALSE, P, T, A)
      /\ Nested(open, scopes, loops, labels, rng, G, base, P, T)
  BY <1>0 DEF Around, Leaky
<1>3. /\ l \in Nat /\ G[l] \subseteq A
      /\ l \in P \/ \E k \in 1..Len(open) : l \in Due(open[k])
  <2>1. labels \in Nat /\ Len(scopes) \in Nat
    BY Basics
  <2>2. l \in Nat
    BY <1>1, <2>1, LoopTarget
  <2>3. G[l] \subseteq A
    BY <1>1, <2>1, LoopTarget
  <2>4. l \in P \/ \E k \in 1..Len(open) : l \in Due(open[k])
    BY <1>1, <2>1, LoopTarget
  <2> QED
    BY <2>2, <2>3, <2>4
<1>4. A \in SUBSET Registers
  BY InScope
<1> HIDE DEF A
<1>5. Emitted(rng, e, G, out \o code, TRUE, P, T \cup {l}, A)
  <2>1. \A k \in {l} : Fits(e, G[k], A)
    BY <1>1, <1>3 DEF Fits
  <2> QED
    BY <1>1, <1>3, <1>4, <2>1, RuleBranch
<1>6. Nested(open, scopes, loops, labels, rng, G, base, P, T \cup {l})
  <2>1. Agree(G, G, 0..labels) /\ SameBelow(scopes, scopes)
    BY DEF Agree, SameBelow
  <2>2. Routed(open, P, T \cup {l})
    BY <1>1, <1>3 DEF Nested, Routed
  <2>3. P \subseteq P \cup (labels + 1)..labels /\ labels \in Nat /\ labels <= labels /\ Len(scopes) \in Nat
    BY Basics
  <2> QED
    BY <1>1, <2>1, <2>2, <2>3, NestedStep
<1>7. Placed(rng, e, out', terminated', scopes', open', loops', labels')
  <2>1. /\ out' = out \o code /\ terminated' = TRUE /\ scopes' = scopes /\ open' = open
        /\ loops' = loops /\ labels' = labels
    BY DEF Write
  <2> HIDE DEF code
  <2>2. Placed(rng, e, out \o code, TRUE, scopes, open, loops, labels)
    BY <1>5, <1>6 DEF Placed, A
  <2> QED
    BY <2>1, <2>2
<1>8. Recorded' /\ labels' \in Nat /\ regs' \in {regs, regs + 1} /\ Scoped(scopes', regs') /\ open' # <<>>
  BY Basics, StmtFacts DEF Recorded
<1> QED
  BY <1>1, <1>7, <1>8, StmtPlaced

(* break and continue keep the invariant: the loop's labels expect no more    *)
(* than is held.                                                              *)
LEMMA BreakKeeps == ASSUME IInv, BreakStmt \/ ContinueStmt PROVE IInv'
<1>1. CASE BreakStmt
  BY <1>1, LeaveLoop DEF BreakStmt
<1>2. CASE ContinueStmt
  BY <1>2, LeaveLoop DEF ContinueStmt
<1> QED
  BY <1>1, <1>2

(* A branch to labels, and the label of the block that follows it.                *)
LEMMA RuleFork ==
    ASSUME NEW rng \in BOOLEAN, NEW e \in BOOLEAN, NEW G, NEW c, NEW P, NEW T,
           NEW A \in SUBSET Registers, NEW ls \in SUBSET Nat, NEW l \in Nat, l \notin P, G[l] = A,
           \A k \in ls : G[k] = A,
           Emitted(rng, e, G, c, FALSE, P, T, A)
    PROVE  Emitted(rng, e, G, c \o <<Br(ls), Label(l)>>, FALSE, P \cup {l}, T \cup ls, A)
<1>1. \A k \in ls : Fits(e, G[k], A)
  BY DEF Fits
<1>2. Emitted(rng, e, G, c \o <<Br(ls)>>, TRUE, P, T \cup ls, A)
  BY <1>1, RuleBranch
<1>3. Emitted(rng, e, G, (c \o <<Br(ls)>>) \o <<Label(l)>>, FALSE, P \cup {l}, T \cup ls, A)
  BY <1>2, RuleLabel
<1>4. c \in Seq(Code) /\ <<Br(ls)>> \in Seq(Code) /\ <<Label(l)>> \in Seq(Code)
  BY CodeTypes DEF Emitted, Listing
<1>5. (c \o <<Br(ls)>>) \o <<Label(l)>> = c \o (<<Br(ls)>> \o <<Label(l)>>)
  BY <1>4, Join
<1>6. (c \o <<Br(ls)>>) \o <<Label(l)>> = c \o <<Br(ls), Label(l)>>
  BY <1>5, JoinTwo
<1> QED
  BY <1>3, <1>6

(* The condition of a loop: it is entered, then it stays or leaves.               *)
LEMMA RuleLoop ==
    ASSUME NEW rng \in BOOLEAN, NEW e \in BOOLEAN, NEW G, NEW c, NEW P, NEW T,
           NEW A \in SUBSET Registers, NEW l1 \in Nat, NEW l2 \in Nat, NEW l3 \in Nat,
           l1 \notin P, l2 \notin P, l1 # l2, G[l1] = A, G[l2] = A, G[l3] = A,
           Emitted(rng, e, G, c, FALSE, P, T, A)
    PROVE  Emitted(rng, e, G, c \o <<Br({l1}), Label(l1), Br({l2, l3}), Label(l2)>>, FALSE,
                   P \cup {l1, l2}, T \cup {l1, l2, l3}, A)
<1> DEFINE a == <<Br({l1}), Label(l1)>>
           b == <<Br({l2, l3}), Label(l2)>>
<1>1. Emitted(rng, e, G, c \o a, FALSE, P \cup {l1}, T \cup {l1}, A)
  BY RuleFork
<1>2. Emitted(rng, e, G, (c \o a) \o b, FALSE, (P \cup {l1}) \cup {l2}, (T \cup {l1}) \cup {l2, l3}, A)
  <2>1. l2 \notin P \cup {l1} /\ {l2, l3} \in SUBSET Nat /\ \A k \in {l2, l3} : G[k] = A
    OBVIOUS
  <2> HIDE DEF a
  <2> QED
    BY <1>1, <2>1, RuleFork
<1>3. (P \cup {l1}) \cup {l2} = P \cup {l1, l2} /\ (T \cup {l1}) \cup {l2, l3} = T \cup {l1, l2, l3}
  OBVIOUS
<1>4. c \in Seq(Code) /\ a \in Seq(Code) /\ b \in Seq(Code)
  BY CodeTypes DEF Emitted, Listing
<1>5. a \o b = <<Br({l1}), Label(l1), Br({l2, l3}), Label(l2)>>
  BY JoinFour
<1>6. (c \o a) \o b = c \o (a \o b)
  <2> HIDE DEF a, b
  <2> QED
    BY <1>4, Join
<1>7. Emitted(rng, e, G, c \o (a \o b), FALSE, P \cup {l1, l2}, T \cup {l1, l2, l3}, A)
  BY <1>2, <1>3, <1>6
<1> QED
  BY <1>5, <1>7

(* What a statement writes before the block of the construct f that it starts:     *)
(* labels of S are placed, branches go to those of U.                             *)
Opens(f, c, S, U, A) ==
    \A rng, e \in BOOLEAN : \A G, P, T :
        /\ P \subseteq 0..labels /\ \A l \in Labels(f) : G[l] = A
        /\ Emitted(rng, e, G, out, FALSE, P, T, A)
        => Emitted(rng, e, G, c, FALSE, P \cup S, T \cup U, A)

(* A statement that opens a block keeps the invariant when its code opens     *)
(* the frame it pushes.                                                       *)
LEMMA OpenStmt ==
    ASSUME IInv, NEW kind, NextStmt(kind),
           NEW f \in Frames, f.kind \notin {"fn", "else"}, f.label = labels,
           f.kind = "range" => kind = "range",
           Recorded', regs' = regs, scopes' = Append(scopes, {}), open' = Append(open, f),
           labels' = labels + Width(f),
           loops' = IF f.kind \in LoopKinds THEN Append(loops, LoopOf(f)) ELSE loops,
           NEW c, out' = c, terminated' = FALSE,
           NEW S, S \subseteq Labels(f), Owed(f) \cap S = {}, Cond(f) \subseteq S,
           NEW U, U \subseteq S \cup Due(f),
           NEW A, A = RegsTo(scopes, Len(scopes)), Opens(f, c, S, U, A)
    PROVE  IInv'
<1>0. /\ labels \in Nat /\ Len(scopes) \in Nat /\ Scoped(scopes, regs) /\ regs \in Nat
      /\ open # <<>> /\ Width(f) \in Nat
  BY Basics, StmtFacts, FrameLabels
<1>b. PICK rng \in BOOLEAN, e \in BOOLEAN :
         \E G, base, P, T : Around(kind, A, rng, e, G, base, P, T)
  BY StmtBegin
<1>1. PICK G, base, P, T : Around(kind, A, rng, e, G, base, P, T)
  BY <1>b
<1>2. /\ rng = Ranged' /\ e = Exact' /\ (f.kind = "range" => rng)
      /\ Emitted(rng, e, G, out, FALSE, P, T, A)
      /\ Nested(open, scopes, loops, labels, rng, G, base, P, T)
      /\ \A l \in Nat : l > labels => G[l] = A
  BY <1>1 DEF Around
<1>3. /\ P \subseteq 0..labels
      /\ \A l \in Labels(f) : l \in Nat /\ l > labels /\ G[l] = A
  BY <1>0, <1>2 DEF Nested, Labels
<1>4. Emitted(rng, e, G, c, FALSE, P \cup S, T \cup U, A)
  BY <1>2, <1>3 DEF Opens
<1>5. /\ Scoped(scopes', regs') /\ Len(scopes') = Len(scopes) + 1
      /\ Agree(scopes', scopes, 1..Len(scopes))
      /\ RegsTo(scopes', Len(scopes')) = A
  <2>1. /\ Scoped(Append(scopes, {}), regs) /\ Len(Append(scopes, {})) = Len(scopes) + 1
        /\ RegsTo(Append(scopes, {}), Len(scopes) + 1) = A
    BY <1>0, ScopedOpen
  <2>2. \A i \in 1..Len(scopes) : Append(scopes, {})[i] = scopes[i]
    BY <1>0, ScopedOpen
  <2> QED
    BY <2>1, <2>2 DEF Agree
<1>6. Nested(open', scopes', loops', labels', rng, G, Append(base, Len(scopes)), P \cup S, T \cup U)
  <2>1. Owed(f) \cap (P \cup S) = {} /\ Cond(f) \subseteq P \cup S
    <3>1. Owed(f) \subseteq Labels(f)
      BY FrameLabels DEF Labels
    <3>2. \A l \in P : ~(l > labels)
      BY <1>0, <1>3
    <3> QED
      BY <1>3, <3>1, <3>2
  <2>2. /\ P \subseteq P \cup S /\ P \cup S \subseteq P \cup Labels(f)
        /\ T \cup U \subseteq T \cup (P \cup S) \cup Due(f)
    OBVIOUS
  <2>3. ASSUME NEW sc2, sc2 = scopes', NEW lp2, lp2 = loops'
        PROVE  Nested(Append(open, f), sc2, lp2, labels + Width(f), rng, G,
                      Append(base, Len(scopes)), P \cup S, T \cup U)
    BY <1>0, <1>2, <1>3, <1>5, <2>1, <2>2, <2>3, NestedPush
  <2> QED
    BY <2>3
<1>7. Placed(rng, e, out', terminated', scopes', open', loops', labels')
  <2>1. Emitted(rng, e, G, out', terminated', P \cup S, T \cup U, RegsTo(scopes', Len(scopes')))
    BY <1>4, <1>5
  <2> QED
    BY <1>6, <2>1 DEF Placed
<1>8. labels' \in Nat /\ regs' \in {regs, regs + 1} /\ open' # <<>>
  <2>1. Len(Append(open, f)) # 0
    BY <1>2 DEF Nested, Chain
  <2> QED
    BY <1>0, <2>1
<1> QED
  BY <1>2, <1>5, <1>7, <1>8, StmtPlaced

(* The frame a statement pushes.                                              *)
LEMMA FrameOf ==
    ASSUME NEW kind \in {"then", "block"} \cup LoopKinds, NEW l \in Nat,
           NEW f, f = Frame(kind, l, FALSE)
    PROVE  f \in Frames /\ f.kind = kind /\ f.label = l
BY DEF Frame, Frames

(* The start of an if keeps the invariant.                                    *)
LEMMA IfStmtKeeps == ASSUME IInv, IfStmt PROVE IInv'
<1> DEFINE A == RegsTo(scopes, Len(scopes))
           f == Frame("then", labels, FALSE)
           l1 == labels + 1
           l2 == labels + 2
           code == <<Br({l1, l2}), Label(l1)>>
<1>0. labels \in Nat
  BY Basics
<1>1. f \in Frames /\ f.kind = "then" /\ f.label = labels
  BY <1>0, FrameOf
<1>2. /\ NextStmt("if") /\ out' = out \o code /\ terminated' = FALSE /\ loops' = loops
      /\ labels' = labels + 3 /\ scopes' = Append(scopes, {}) /\ open' = Append(open, f)
      /\ regs' = regs /\ Recorded'
  BY Basics DEF IfStmt, Write, Push, Recorded
<1> HIDE DEF f
<1>3. /\ Width(f) = 3 /\ Owed(f) = {labels + 2, labels + 3} /\ Cond(f) = {} /\ Due(f) = {l2}
      /\ l1 \in Labels(f) /\ l2 \in Labels(f) /\ f.kind \notin LoopKinds
  BY <1>0, <1>1 DEF Width, Owed, Cond, Due, Labels, LoopKinds
<1>4. A \in SUBSET Registers
  BY <1>2, InScope
<1>5. l1 \in Nat /\ {l1, l2} \in SUBSET Nat /\ l1 \notin 0..labels /\ l1 \notin {labels + 2, labels + 3}
  BY <1>0
<1> HIDE DEF l1, l2, A
<1>6. Opens(f, out \o code, {l1}, {l1, l2}, A)
  <2> SUFFICES ASSUME NEW rng \in BOOLEAN, NEW e \in BOOLEAN, NEW G, NEW P, NEW T,
                      P \subseteq 0..labels, \A l \in Labels(f) : G[l] = A,
                      Emitted(rng, e, G, out, FALSE, P, T, A)
               PROVE  Emitted(rng, e, G, out \o code, FALSE, P \cup {l1}, T \cup {l1, l2}, A)
    BY DEF Opens
  <2>1. l1 \notin P /\ G[l1] = A /\ \A k \in {l1, l2} : G[k] = A
    BY <1>3, <1>5
  <2> QED
    BY <1>4, <1>5, <2>1, RuleFork
<1>7. /\ {l1} \subseteq Labels(f) /\ Owed(f) \cap {l1} = {} /\ Cond(f) \subseteq {l1}
      /\ {l1, l2} \subseteq {l1} \cup Due(f)
  BY <1>3, <1>5
<1> HIDE DEF code
<1> QED
  BY <1>1, <1>2, <1>3, <1>6, <1>7, OpenStmt DEF A

(* The labels of a loop.                                                      *)
LEMMA LoopLabels ==
    ASSUME NEW f \in Frames, f.kind \in LoopKinds, NEW lb \in Nat, f.label = lb
    PROVE  /\ lb + 1 \in Labels(f) /\ lb + 2 \in Labels(f)
           /\ LoopOf(f).end \in Labels(f) /\ LoopOf(f).end \in Nat
<1>1. PICK d \in {3, 4} : Width(f) = d
  BY DEF Width, LoopKinds
<1>2. Labels(f) = (lb + 1)..(lb + d) /\ LoopOf(f).end = lb + d
  BY <1>1 DEF Labels, LoopOf
<1>3. lb + 1 \in (lb + 1)..(lb + d) /\ lb + 2 \in (lb + 1)..(lb + d)
  OBVIOUS
<1>4. lb + d \in (lb + 1)..(lb + d) /\ lb + d \in Nat
  OBVIOUS
<1> QED
  BY <1>2, <1>3, <1>4

(* The three kinds of loop differ in the number of their labels.                  *)
LEMMA LoopStmt ==
    ASSUME IInv, NEW kind \in LoopKinds, NextStmt(kind),
           NEW f, f = Frame(kind, labels, FALSE), NEW l3, l3 = LoopOf(f).end,
           Write(<<Br({labels + 1}), Label(labels + 1),
                   Br({labels + 2, l3}), Label(labels + 2)>>, FALSE),
           loops' = Append(loops, LoopOf(f)), labels' = labels + Width(f),
           scopes' = Append(scopes, {}), open' = Append(open, f), UNCHANGED <<deferred, regs>>
    PROVE  IInv'
<1> DEFINE A == RegsTo(scopes, Len(scopes))
           l1 == labels + 1
           l2 == labels + 2
           code == <<Br({l1}), Label(l1), Br({l2, l3}), Label(l2)>>
<1>0. labels \in Nat
  BY Basics
<1>1. f \in Frames /\ f.kind = kind /\ f.label = labels
  BY <1>0, FrameOf
<1>2. out' = out \o code /\ terminated' = FALSE /\ regs' = regs /\ Recorded'
  BY Basics DEF Write, Recorded
<1>3. /\ Owed(f) \subseteq {labels + 3, labels + 4} /\ Cond(f) = {l1} /\ l3 \in Due(f)
      /\ l1 \in Labels(f) /\ l2 \in Labels(f) /\ l3 \in Labels(f) /\ l3 \in Nat
  <2>1. Owed(f) \subseteq {labels + 3, labels + 4} /\ Cond(f) = {l1}
    BY <1>1 DEF Owed, Cond, LoopKinds
  <2>3. l1 \in Labels(f) /\ l2 \in Labels(f) /\ l3 \in Labels(f) /\ l3 \in Nat
    BY <1>0, <1>1, LoopLabels
  <2>4. l3 \in Due(f)
    BY <1>1, FrameLabels
  <2> QED
    BY <2>1, <2>3, <2>4
<1>4. A \in SUBSET Registers
  BY InScope
<1>5. /\ l1 \in Nat /\ l2 \in Nat /\ l1 # l2 /\ l1 \notin 0..labels /\ l2 \notin 0..labels
      /\ l1 \notin {labels + 3, labels + 4} /\ l2 \notin {labels + 3, labels + 4}
  BY <1>0
<1> HIDE DEF l1, l2, A
<1>6. Opens(f, out \o code, {l1, l2}, {l1, l2, l3}, A)
  <2> SUFFICES ASSUME NEW rng \in BOOLEAN, NEW e \in BOOLEAN, NEW G, NEW P, NEW T,
                      P \subseteq 0..labels, \A l \in Labels(f) : G[l] = A,
                      Emitted(rng, e, G, out, FALSE, P, T, A)
               PROVE  Emitted(rng, e, G, out \o code, FALSE, P \cup {l1, l2}, T \cup {l1, l2, l3}, A)
    BY DEF Opens
  <2>1. l1 \notin P /\ l2 \notin P /\ G[l1] = A /\ G[l2] = A /\ G[l3] = A
    BY <1>3, <1>5
  <2> QED
    BY <1>3, <1>4, <1>5, <2>1, RuleLoop
<1>7. /\ {l1, l2} \subseteq Labels(f) /\ Owed(f) \cap {l1, l2} = {} /\ Cond(f) \subseteq {l1, l2}
      /\ {l1, l2, l3} \subseteq {l1, l2} \cup Due(f)
  BY <1>3, <1>5
<1>8. f.kind \notin {"fn", "else"} /\ f.kind \in LoopKinds /\ (f.kind = "range" => kind = "range")
  BY <1>1 DEF LoopKinds
<1>9. loops' = IF f.kind \in LoopKinds THEN Append(loops, LoopOf(f)) ELSE loops
  BY <1>8
<1> HIDE DEF code
<1> QED
  BY <1>1, <1>2, <1>6, <1>7, <1>8, <1>9, OpenStmt DEF A

(* The start of a loop keeps the invariant.                                   *)
LEMMA LoopStmtKeeps ==
    ASSUME IInv, WhileStmt \/ ForStmt("for") \/ ForStmt("range") PROVE IInv'
<1>1. CASE WhileStmt
  <2> DEFINE f == Frame("while", labels, FALSE)
  <2>1. f \in Frames /\ f.kind = "while" /\ f.label = labels
    BY Basics, FrameOf DEF LoopKinds
  <2>2. LoopOf(f) = [continue |-> labels + 1, end |-> labels + 3] /\ Width(f) = 3
        /\ LoopOf(f).end = labels + 3
    BY <2>1 DEF LoopOf, Width
  <2>3. "while" \in LoopKinds
    BY DEF LoopKinds
  <2> QED
    BY <1>1, <2>2, <2>3, LoopStmt DEF WhileStmt, Push
<1>2. ASSUME NEW kind \in {"for", "range"}, ForStmt(kind) PROVE IInv'
  <2> DEFINE f == Frame(kind, labels, FALSE)
  <2>1. f \in Frames /\ f.kind = kind /\ f.label = labels /\ kind \in LoopKinds
    BY Basics, FrameOf DEF LoopKinds
  <2>2. LoopOf(f) = [continue |-> labels + 3, end |-> labels + 4] /\ Width(f) = 4
        /\ LoopOf(f).end = labels + 4
    BY <2>1 DEF LoopOf, Width
  <2> QED
    BY <1>2, <2>1, <2>2, LoopStmt DEF ForStmt, Push
<1> QED
  BY <1>1, <1>2

(* The start of a block keeps the invariant.                                  *)
LEMMA BlockStmtKeeps == ASSUME IInv, BlockStmt PROVE IInv'
<1> DEFINE A == RegsTo(scopes, Len(scopes))
           f == Frame("block", labels, FALSE)
<1>0. labels \in Nat
  BY Basics
<1>1. f \in Frames /\ f.kind = "block" /\ f.label = labels
  BY <1>0, FrameOf
<1>2. /\ NextStmt("block") /\ out' = out /\ terminated' = FALSE /\ loops' = loops
      /\ labels' = labels /\ scopes' = Append(scopes, {}) /\ open' = Append(open, f)
      /\ regs' = regs /\ Recorded'
  BY Basics, StmtFacts DEF BlockStmt, Push, Recorded
<1> HIDE DEF f
<1>3. Width(f) = 0 /\ Owed(f) = {} /\ Cond(f) = {} /\ Due(f) = {} /\ f.kind \notin LoopKinds
  BY <1>0, <1>1 DEF Width, Owed, Cond, Due, LoopKinds
<1>4. Opens(f, out, {}, {}, A)
  <2>1. ASSUME NEW X PROVE X \cup {} = X
    OBVIOUS
  <2> QED
    BY <2>1 DEF Opens
<1>5. labels' = labels + Width(f)
  BY <1>0, <1>2, <1>3
<1> QED
  BY <1>1, <1>2, <1>3, <1>4, <1>5, OpenStmt

(* An error propagated: its block returns with what is owned, the other goes on.   *)
LEMMA RuleTry ==
    ASSUME NEW rng \in BOOLEAN, NEW e \in BOOLEAN, NEW G, NEW c, NEW P, NEW T, ~e,
           NEW A \in SUBSET Registers, ParamRegs \subseteq A,
           NEW r \in Registers \ (A \cup ParamRegs),
           NEW ok \in Nat, NEW err \in Nat, ok \notin P, err \notin P, ok # err,
           G[ok] = A, G[err] = A,
           NEW u \in Seq(Code), \A k \in 1..Len(u) : u[k].op = "use" /\ u[k].id # 0,
           Emitted(rng, e, G, c, FALSE, P, T, A)
    PROVE  Emitted(rng, e, G, c \o (<<Br({ok, err}), Label(err)>> \o u \o <<Ret(0), Label(ok), New(r)>>),
                   FALSE, P \cup {ok, err}, T \cup {ok, err}, A \cup {r})
<1> DEFINE a == <<Br({ok, err}), Label(err)>>
           b == <<Ret(0), Label(ok), New(r)>>
<1>1. Emitted(rng, e, G, c \o a, FALSE, P \cup {err}, T \cup {ok, err}, A)
  <2>1. {ok, err} \in SUBSET Nat /\ \A k \in {ok, err} : G[k] = A
    OBVIOUS
  <2> QED
    BY <2>1, RuleFork
<1>2. c \in Seq(Code) /\ a \in Seq(Code)
  BY CodeTypes DEF Emitted, Listing
<1>3. <<Ret(0)>> \in Seq(Code) /\ <<Label(ok)>> \in Seq(Code) /\ <<New(r)>> \in Seq(Code)
  BY CodeTypes
<1>4. b = (<<Ret(0)>> \o <<Label(ok)>>) \o <<New(r)>>
  BY JoinThree
<1>5. ok \notin P \cup {err} /\ P \cup {ok, err} = (P \cup {err}) \cup {ok}
  OBVIOUS
<1> HIDE DEF a, b
<1>6. Emitted(rng, e, G, (c \o a) \o u, FALSE, P \cup {err}, T \cup {ok, err}, A)
  BY <1>1, RuleUses
<1> DEFINE d == (c \o a) \o u
<1>7. d \in Seq(Code) /\ d = c \o (a \o u) /\ a \o u \in Seq(Code)
  <2>1. c \o a \in Seq(Code)
    BY <1>2, Join
  <2> QED
    BY <1>2, <2>1, Join
<1> HIDE DEF d
<1>8. Emitted(rng, e, G, d \o <<Ret(0)>>, TRUE, P \cup {err}, T \cup {ok, err}, A)
  <2>1. Fits(e, ParamRegs, A)
    BY DEF Fits
  <2>2. Emitted(rng, e, G, d, FALSE, P \cup {err}, T \cup {ok, err}, A)
    BY <1>6 DEF d
  <2> QED
    BY <2>1, <2>2, RuleEnd
<1>9. Emitted(rng, e, G, (d \o <<Ret(0)>>) \o <<Label(ok)>>, FALSE, P \cup {ok, err}, T \cup {ok, err}, A)
  <2>1. G[ok] \in SUBSET Registers
    OBVIOUS
  <2>2. Emitted(rng, e, G, (d \o <<Ret(0)>>) \o <<Label(ok)>>, FALSE,
                (P \cup {err}) \cup {ok}, T \cup {ok, err}, G[ok])
    BY <1>5, <1>8, <2>1, RuleLabel
  <2> QED
    BY <1>5, <2>2
<1>10. Emitted(rng, e, G, ((d \o <<Ret(0)>>) \o <<Label(ok)>>) \o <<New(r)>>, FALSE,
               P \cup {ok, err}, T \cup {ok, err}, A \cup {r})
  BY <1>9, RuleNew
<1>11. ((d \o <<Ret(0)>>) \o <<Label(ok)>>) \o <<New(r)>> = d \o b
  <2>1. (d \o <<Ret(0)>>) \o <<Label(ok)>> = d \o (<<Ret(0)>> \o <<Label(ok)>>)
    BY <1>3, <1>7, Join
  <2>2. <<Ret(0)>> \o <<Label(ok)>> \in Seq(Code)
    BY <1>3, Join
  <2>3. (d \o (<<Ret(0)>> \o <<Label(ok)>>)) \o <<New(r)>> = d \o ((<<Ret(0)>> \o <<Label(ok)>>) \o <<New(r)>>)
    BY <1>3, <1>7, <2>2, Join
  <2> QED
    BY <1>4, <2>1, <2>3
<1>12. d \o b = c \o ((a \o u) \o b)
  <2>1. b \in Seq(Code)
    <3>1. <<Ret(0)>> \o <<Label(ok)>> \in Seq(Code)
      BY <1>3, Join
    <3> QED
      BY <1>3, <1>4, <3>1, Join
  <2>2. ASSUME NEW v \in Seq(Code) PROVE c \o (v \o b) = (c \o v) \o b
    BY <1>2, <2>1, Join
  <2> QED
    BY <1>7, <2>2
<1>13. Emitted(rng, e, G, c \o ((a \o u) \o b), FALSE, P \cup {ok, err}, T \cup {ok, err}, A \cup {r})
  BY <1>10, <1>11, <1>12
<1> QED
  BY <1>13 DEF a, b

(* x := f()? keeps the invariant: its error block returns.                    *)
LEMMA TryVarKeeps == ASSUME IInv, NEW x \in Vars, TryVar(x) PROVE IInv'
<1> DEFINE A == RegsTo(scopes, Len(scopes))
           r == regs + 1
           ok == labels + 1
           err == labels + 2
           u == Deferred(scopes)
           code == <<Br({ok, err}), Label(err)>> \o u \o <<Ret(0), Label(ok), New(r)>>
<1>0. labels \in Nat /\ Len(scopes) \in Nat
  BY Basics
<1>1. /\ NextStmt("try") /\ DeclareVar(x) /\ out' = out \o code /\ terminated' = FALSE
      /\ labels' = labels + 2 /\ open' = open /\ loops' = loops /\ Recorded'
  BY Basics DEF TryVar, Write, Recorded
<1>2. /\ Scoped(scopes', regs') /\ regs' \in {regs, regs + 1}
      /\ SameBelow(scopes', scopes)
      /\ RegsTo(scopes', Len(scopes')) = A \cup {r}
  BY <1>1, Declared
<1>3. A \in SUBSET Registers /\ ParamRegs \subseteq A /\ r \in Registers \ (A \cup ParamRegs)
  BY <1>1, InScope
<1>4. u \in Seq(Code) /\ \A k \in 1..Len(u) : u[k].op = "use" /\ u[k].id # 0
  BY Basics, DeferredUses
<1> HIDE DEF u, r, A
<1>b. PICK rng \in BOOLEAN, e \in BOOLEAN :
         \E G, base, P, T : Around("try", A, rng, e, G, base, P, T)
  BY <1>1, StmtBegin DEF A
<1>5. PICK G, base, P, T : Around("try", A, rng, e, G, base, P, T)
  BY <1>b
<1>6. /\ rng = Ranged' /\ e = Exact' /\ ~e
      /\ Emitted(rng, e, G, out, FALSE, P, T, A)
      /\ Nested(open, scopes, loops, labels, rng, G, base, P, T)
      /\ \A l \in Nat : l > labels => G[l] = A
  BY <1>5 DEF Around, Leaky
<1>7. /\ ok \in Nat /\ err \in Nat /\ ok # err /\ ok > labels /\ err > labels
      /\ {ok, err} \subseteq (labels + 1)..(labels + 2)
      /\ ok \notin 0..labels /\ err \notin 0..labels
  BY <1>0
<1>8. P \subseteq 0..labels /\ Routed(open, P, T)
  BY <1>6 DEF Nested
<1>9. Emitted(rng, e, G, out \o code, FALSE, P \cup {ok, err}, T \cup {ok, err}, A \cup {r})
  <2>1. ok \notin P /\ err \notin P /\ G[ok] = A /\ G[err] = A
    BY <1>6, <1>7, <1>8
  <2> HIDE DEF ok, err
  <2> QED
    BY <1>3, <1>4, <1>6, <1>7, <2>1, RuleTry
<1>10. ASSUME NEW sc2, SameBelow(sc2, scopes)
       PROVE  Nested(open, sc2, loops, labels + 2, rng, G, base, P \cup {ok, err}, T \cup {ok, err})
  <2>1. /\ Agree(G, G, 0..labels) /\ labels + 2 \in Nat /\ labels <= labels + 2
        /\ P \subseteq P \cup {ok, err}
        /\ P \cup {ok, err} \subseteq P \cup (labels + 1)..(labels + 2)
    BY <1>0, <1>7 DEF Agree
  <2>2. Routed(open, P \cup {ok, err}, T \cup {ok, err})
    BY <1>8 DEF Routed
  <2> QED
    BY <1>0, <1>6, <1>10, <2>1, <2>2, NestedStep
<1> HIDE DEF code
<1>11. Placed(rng, e, out', terminated', scopes', open', loops', labels')
  <2>1. Emitted(rng, e, G, out \o code, FALSE, P \cup {ok, err}, T \cup {ok, err},
                RegsTo(scopes', Len(scopes')))
    BY <1>2, <1>9
  <2>2. Nested(open, scopes', loops, labels + 2, rng, G, base, P \cup {ok, err}, T \cup {ok, err})
    BY <1>2, <1>10
  <2>3. Placed(rng, e, out \o code, FALSE, scopes', open, loops, labels + 2)
    BY <2>1, <2>2 DEF Placed
  <2> QED
    BY <1>1, <2>3
<1>12. labels' \in Nat /\ open' # <<>>
  <2>1. open # <<>>
    BY <1>1, StmtFacts
  <2>2. labels + 2 \in Nat
    BY <1>0
  <2> QED
    BY <1>1, <2>1, <2>2
<1> QED
  BY <1>1, <1>2, <1>6, <1>11, <1>12, StmtPlaced

-----------------------------------------------------------------------------
(* The ends of blocks.                                                        *)

(* The branch at the end of a block that falls through.                          *)
LEMMA RuleJump ==
    ASSUME NEW rng \in BOOLEAN, NEW e \in BOOLEAN, NEW G, NEW c, NEW ends \in BOOLEAN, NEW P, NEW T,
           NEW A \in SUBSET Registers, NEW A2, NEW l \in Nat, Fits(e, G[l], A),
           Emitted(rng, e, G, c, ends, P, T, A)
    PROVE  Emitted(rng, e, G, c \o BackEdge(ends, l), TRUE, P, T \cup {l}, A2)
<1>1. CASE ends = FALSE
  <2>1. \A k \in {l} : Fits(e, G[k], A)
    OBVIOUS
  <2>2. Emitted(rng, e, G, c \o <<Br({l})>>, TRUE, P, T \cup {l}, A2)
    BY <1>1, <2>1, RuleBranch
  <2> QED
    BY <1>1, <2>2 DEF BackEdge
<1>2. CASE ends = TRUE
  <2>1. Emitted(rng, e, G, c, TRUE, P, T, A)
    BY <1>2
  <2>2. Emitted(rng, e, G, c, TRUE, P, T, A2)
    BY <2>1, RuleWeaken
  <2>3. Land(c, P, T \cup {l}) /\ c \in Seq(Code)
    BY <2>2 DEF Emitted, Land, Listing
  <2>4. Emitted(rng, e, G, c, TRUE, P, T \cup {l}, A2)
    BY <2>2, <2>3 DEF Emitted
  <2>5. c \o BackEdge(ends, l) = c
    BY <1>2, <2>3, Join DEF BackEdge
  <2> QED
    BY <2>4, <2>5
<1> QED
  BY <1>1, <1>2

(* The releases of a scope are code.                                          *)
LEMMA PopCode ==
    ASSUME NEW r \in Nat, r <= MaxRegs, NEW sc, Scoped(sc, r), NEW ends
    PROVE  PopReleases(sc, ends) \in Seq(Code)
<1>1. Len(sc) \in 1..Len(sc)
  BY DEF Scoped, Scopes
<1>2. RegsTo(sc, Len(sc)) \subseteq 1..r /\ 1..r \subseteq Registers
  <2>1. 1..r \subseteq Registers
    BY EmitAssumption DEF MaxRegs, Registers
  <2> QED
    BY <1>1, <2>1, RegsToBound
<1>3. Owned(sc[Len(sc)]) \in SUBSET Registers
  BY <1>1, <1>2, OwnedRegs DEF RegsTo
<1>4. Release(Owned(sc[Len(sc)])) \in Seq(Code) /\ <<>> \in Seq(Code)
  BY <1>3, ReleaseCode
<1> QED
  BY <1>4 DEF PopReleases

(* The end of a scope, a branch to j unless the block has ended, and a label.      *)
LEMMA RuleClose ==
    ASSUME NEW rng \in BOOLEAN, NEW e \in BOOLEAN, NEW G, NEW c, NEW ends \in BOOLEAN, NEW P, NEW T,
           NEW r \in Nat, NEW sc, Scoped(sc, r), r <= MaxRegs, e => escaped = {},
           NEW B \in SUBSET Registers, B = RegsTo(sc, Len(sc) - 1),
           NEW j \in Nat, G[j] = B, NEW l \in Nat, l \notin P, G[l] = B,
           Emitted(rng, e, G, c, ends, P, T, RegsTo(sc, Len(sc)))
    PROVE  Emitted(rng, e, G, c \o (PopReleases(sc, ends) \o BackEdge(ends, j) \o <<Label(l)>>),
                   FALSE, P \cup {l}, T \cup {j}, B)
<1> DEFINE p == PopReleases(sc, ends)
           b == BackEdge(ends, j)
<1>1. Emitted(rng, e, G, c \o p, ends, P, T, B)
  BY RulePop
<1>2. p \in Seq(Code) /\ b \in Seq(Code) /\ <<Label(l)>> \in Seq(Code) /\ c \in Seq(Code)
  <2>1. p \in Seq(Code)
    BY PopCode
  <2>2. b \in Seq(Code)
    BY CodeTypes DEF BackEdge
  <2> QED
    BY <2>1, <2>2, CodeTypes DEF Emitted, Listing
<1> HIDE DEF p
<1>3. Emitted(rng, e, G, (c \o p) \o b, TRUE, P, T \cup {j}, B)
  <2>1. Fits(e, G[j], B)
    BY DEF Fits
  <2> QED
    BY <1>1, <2>1, RuleJump
<1> HIDE DEF b
<1>4. Emitted(rng, e, G, ((c \o p) \o b) \o <<Label(l)>>, FALSE, P \cup {l}, T \cup {j}, B)
  <2>1. G[l] \in SUBSET Registers
    OBVIOUS
  <2>2. Emitted(rng, e, G, ((c \o p) \o b) \o <<Label(l)>>, FALSE, P \cup {l}, T \cup {j}, G[l])
    BY <1>3, <2>1, RuleLabel
  <2> QED
    BY <2>2
<1>5. c \o ((p \o b) \o <<Label(l)>>) = ((c \o p) \o b) \o <<Label(l)>>
  <2>1. c \o (p \o b) = (c \o p) \o b
    BY <1>2, Assoc
  <2>4. p \o b \in Seq(Code)
    BY <1>2, Join
  <2>2. ASSUME NEW v \in Seq(Code) PROVE c \o (v \o <<Label(l)>>) = (c \o v) \o <<Label(l)>>
    BY <1>2, Join
  <2>3. c \o ((p \o b) \o <<Label(l)>>) = (c \o (p \o b)) \o <<Label(l)>>
    BY <2>2, <2>4
  <2> QED
    BY <2>1, <2>3
<1>6. Emitted(rng, e, G, c \o ((p \o b) \o <<Label(l)>>), FALSE, P \cup {l}, T \cup {j}, B)
  BY <1>4, <1>5
<1> QED
  BY <1>6 DEF p, b

(* The innermost construct is not the body: there are scopes around it.           *)
LEMMA DeepBase ==
    ASSUME NEW op, NEW sc, NEW lp, NEW lb \in Nat, NEW rng, NEW G, NEW base, NEW P, NEW T,
           Len(sc) \in Nat, op # <<>>, Nested(op, sc, lp, lb, rng, G, base, P, T),
           NEW m, m = Len(op), op[m].kind # "fn"
    PROVE  base[m] > 1
<1>1. m \in 1..Len(op) /\ op[m] \in Frames /\ base[m] \in Nat
  BY Innermost
<1>2. 1 \in 1..Len(op) /\ op[1].kind = "fn" /\ m # 1 /\ m \in Nat
  BY <1>1 DEF Nested, Chain
<1>3. Pushes(op[1]) = 2 /\ base[1] \in Nat
  BY <1>2, ChainAt DEF Nested, Pushes
<1>4. 1 < m
  BY <1>1, <1>2
<1>5. base[1] + Pushes(op[1]) <= base[m]
  BY <1>1, <1>2, <1>4, ChainOrder DEF Nested
<1> QED
  BY <1>1, <1>3, <1>5

(* What the end of a block finds.                                               *)
Closing(rng, e, G, base, P, T) ==
    /\ rng \in BOOLEAN /\ e \in BOOLEAN /\ rng = Ranged' /\ e = Exact'
    /\ (e => escaped = {}) /\ (rng => ~e)
    /\ Emitted(rng, e, G, out, terminated, P, T, RegsTo(scopes, Len(scopes)))
    /\ Nested(open, scopes, loops, labels, rng, G, base, P, T)

(* What is known of the code before a block is closed.                        *)
LEMMA CloseStart ==
    ASSUME IInv, NEW kind, CloseFrame(kind)
    PROVE  \E rng, e, G, base, P, T : Closing(rng, e, G, base, P, T)
<1>1. PICK G, base, P, T :
         /\ Emitted(Ranged, Exact, G, out, terminated, P, T, RegsTo(scopes, Len(scopes)))
         /\ Nested(open, scopes, loops, labels, Ranged, G, base, P, T)
  BY DEF IInv, Placed
<1>2. Ranged' = Ranged /\ Exact' = Exact
  BY DEF CloseFrame, Ranged, Exact
<1>3. Ranged \in BOOLEAN /\ Exact \in BOOLEAN /\ (Exact => escaped = {}) /\ (Ranged => ~Exact)
  BY DEF Ranged, Exact, Leaky
<1> QED
  BY <1>1, <1>2, <1>3 DEF Closing

(* What is known of the construct that is closed.                             *)
LEMMA ClosingTop ==
    ASSUME IInv, NEW rng, NEW e, NEW G, NEW base, NEW P, NEW T,
           Closing(rng, e, G, base, P, T), open # <<>>, NEW m, m = Len(open)
    PROVE  /\ m \in 1..Len(open) /\ open[m] \in Frames /\ base[m] \in Nat
           /\ Len(scopes) = base[m] + Pushes(open[m])
           /\ open[m].label \in Nat
           /\ Kept(open[m], base[m], scopes, rng, G, P)
<1>1. Nested(open, scopes, loops, labels, rng, G, base, P, T) /\ labels \in Nat /\ Len(scopes) \in Nat
  BY Basics DEF Closing
<1>2. m \in 1..Len(open)
  BY <1>1, Innermost
<1>3. open[m] \in Frames
  BY <1>1, Innermost
<1>4. base[m] \in Nat /\ open[m].label \in Nat
  BY <1>1, Innermost
<1>5. Len(scopes) = base[m] + Pushes(open[m])
  BY <1>1 DEF Nested, Chain
<1>6. Kept(open[m], base[m], scopes, rng, G, P)
  BY <1>1, Innermost
<1> QED
  BY <1>2, <1>3, <1>4, <1>5, <1>6

(* The constructs around the one that is closed.                              *)
LEMMA ClosingPop ==
    ASSUME IInv, NEW rng, NEW e, NEW G, NEW base, NEW P, NEW T,
           Closing(rng, e, G, base, P, T), open # <<>>, NEW m, m = Len(open),
           NEW sc2, Len(sc2) = base[m], Agree(sc2, scopes, 1..base[m]),
           NEW lp2, lp2 = IF open[m].kind \in LoopKinds THEN Front(loops) ELSE loops,
           NEW P2, P \subseteq P2, P2 \subseteq P \cup Labels(open[m]), Due(open[m]) \subseteq P2,
           NEW T2, T2 \subseteq T \cup P2
    PROVE  /\ Nested(Front(open), sc2, lp2, labels, rng, G, Front(base), P2, T2)
           /\ open[m].kind = "fn" <=> Front(open) = <<>>
<1>1. Nested(open, scopes, loops, labels, rng, G, base, P, T) /\ labels \in Nat /\ Len(scopes) \in Nat
  BY Basics DEF Closing
<1>2. Nested(Front(open), sc2, lp2, labels, rng, G, Front(base), P2, T2)
  BY <1>1, NestedPop
<1>3. open[m].kind = "fn" <=> Front(open) = <<>>
  BY <1>1, ChainPop DEF Nested
<1> QED
  BY <1>2, <1>3

(* The frame, the scopes and the flag a close starts from.                    *)
LEMMA CloseFacts ==
    ASSUME IInv, NEW kind, CloseFrame(kind), NEW f, f = Top(open), NEW n, n = Len(scopes) - Pushes(f)
    PROVE  /\ f \in Frames /\ f.kind = kind /\ f.label \in Nat
           /\ n \in Nat /\ Len(scopes) = n + Pushes(f) /\ open # <<>> /\ f = open[Len(open)]
           /\ kind # "fn" => n > 1
           /\ terminated \in BOOLEAN
<1>1. PICK rng, e, G, base, P, T : Closing(rng, e, G, base, P, T)
  BY CloseStart
<1>2. /\ Nested(open, scopes, loops, labels, rng, G, base, P, T)
      /\ labels \in Nat /\ Len(scopes) \in Nat /\ open # <<>>
  BY <1>1, Basics DEF Closing, CloseFrame, Emitting
<1>3. PICK m : m = Len(open)
  OBVIOUS
<1>4. f = open[m] /\ f.kind = kind
  BY <1>3 DEF Top, CloseFrame
<1>11. /\ m \in 1..Len(open) /\ open[m] \in Frames /\ base[m] \in Nat
       /\ Len(scopes) = base[m] + Pushes(open[m])
       /\ open[m].label \in Nat
       /\ Kept(open[m], base[m], scopes, rng, G, P)
  BY <1>1, <1>2, <1>3, ClosingTop
<1>5. m \in 1..Len(open) /\ f \in Frames /\ base[m] \in Nat /\ f.label \in Nat
  BY <1>4, <1>11
<1>6. Len(scopes) = base[m] + Pushes(f)
  BY <1>4, <1>11
<1>7. kind # "fn" => base[m] > 1
  BY <1>2, <1>3, <1>4, DeepBase
<1>8. Pushes(f) \in {1, 2}
  BY DEF Pushes
<1>9. n = base[m]
  BY <1>5, <1>6, <1>8
<1>10. terminated \in BOOLEAN
  BY <1>1 DEF Closing, Emitted, Shape
<1> QED
  BY <1>2, <1>3, <1>4, <1>5, <1>6, <1>7, <1>9, <1>10

(* What is written at the end of the construct f, after whose block n scopes are   *)
(* open: the labels of S are placed, branches go to those of U.                    *)
Closes(f, n, c, ends, S, U) ==
    \A rng, e \in BOOLEAN : \A G, P, T :
        /\ e => escaped = {}
        /\ f.kind = "range" => rng /\ ~e
        /\ f.kind = "else" => scopes[n + 1] = {}
        /\ Owed(f) \cap P = {} /\ \A l \in Owed(f) \cup Cond(f) : G[l] = RegsTo(scopes, n)
        /\ Emitted(rng, e, G, out, terminated, P, T, RegsTo(scopes, Len(scopes)))
        => Emitted(rng, e, G, c, ends, P \cup S, T \cup U, RegsTo(scopes, n))

(* The end of a construct keeps the invariant when its code closes the        *)
(* frame.                                                                     *)
LEMMA CloseStmt ==
    ASSUME IInv, NEW kind, kind # "fn", CloseFrame(kind), NEW f, f = Top(open),
           NEW n, n = Len(scopes) - Pushes(f), scopes' = SubSeq(scopes, 1, n),
           open' = Front(open), labels' = labels,
           loops' = IF kind \in LoopKinds THEN Front(loops) ELSE loops,
           NEW c, out' = c, NEW ends, terminated' = ends,
           NEW S, S \subseteq Owed(f), Due(f) \subseteq S,
           NEW U, U \subseteq S \cup Cond(f), Closes(f, n, c, ends, S, U)
    PROVE  IInv'
<1>0. /\ f \in Frames /\ f.kind = kind /\ f.label \in Nat
      /\ n \in Nat /\ Len(scopes) = n + Pushes(f) /\ open # <<>> /\ f = open[Len(open)]
      /\ n > 1 /\ Pushes(f) \in {1, 2}
  BY CloseFacts DEF Pushes
<1>1. labels \in Nat /\ Len(scopes) \in Nat /\ Scoped(scopes, regs) /\ regs \in Nat
  BY Basics
<1>2. PICK rng, e, G, base, P, T : Closing(rng, e, G, base, P, T)
  BY CloseStart
<1>3. /\ rng \in BOOLEAN /\ e \in BOOLEAN /\ rng = Ranged' /\ e = Exact'
      /\ (e => escaped = {}) /\ (rng => ~e)
      /\ Emitted(rng, e, G, out, terminated, P, T, RegsTo(scopes, Len(scopes)))
      /\ Nested(open, scopes, loops, labels, rng, G, base, P, T)
  BY <1>2 DEF Closing
<1>4. PICK m : m = Len(open)
  OBVIOUS
<1>16. /\ m \in 1..Len(open) /\ open[m] \in Frames /\ base[m] \in Nat
       /\ Len(scopes) = base[m] + Pushes(open[m])
       /\ open[m].label \in Nat
       /\ Kept(open[m], base[m], scopes, rng, G, P)
  BY <1>0, <1>2, <1>4, ClosingTop
<1>5. f = open[m] /\ base[m] \in Nat /\ Len(scopes) = base[m] + Pushes(f)
  BY <1>0, <1>4, <1>16
<1>6. base[m] = n
  BY <1>0, <1>5
<1>7. Kept(f, n, scopes, rng, G, P)
  BY <1>5, <1>6, <1>16
<1>8. Emitted(rng, e, G, c, ends, P \cup S, T \cup U, RegsTo(scopes, n))
  BY <1>0, <1>3, <1>7 DEF Closes, Kept
<1>9. n \in 1..Len(scopes)
  BY <1>0
<1>10. /\ Scoped(scopes', regs) /\ Len(scopes') = n
       /\ Agree(scopes', scopes, 1..n)
       /\ RegsTo(scopes', n) = RegsTo(scopes, n)
  <2>1. \A i \in 1..n : SubSeq(scopes, 1, n)[i] = scopes[i]
    BY <1>1, <1>9, ScopedClose
  <2>2. Scoped(SubSeq(scopes, 1, n), regs)
    BY <1>1, <1>9, ScopedClose
  <2>3. Len(SubSeq(scopes, 1, n)) = n /\ RegsTo(SubSeq(scopes, 1, n), n) = RegsTo(scopes, n)
    BY <1>1, <1>9, ScopedClose
  <2> QED
    BY <2>1, <2>2, <2>3 DEF Agree
<1>11. /\ Nested(open', scopes', loops', labels, rng, G, Front(base), P \cup S, T \cup U)
       /\ f.kind = "fn" <=> open' = <<>>
  <2>1. /\ P \subseteq P \cup S /\ P \cup S \subseteq P \cup Labels(f)
        /\ Due(f) \subseteq P \cup S
        /\ T \cup U \subseteq T \cup (P \cup S)
    <3>1. Owed(f) \subseteq Labels(f)
      BY <1>0, FrameLabels DEF Labels
    <3>2. Cond(f) \subseteq P
      BY <1>7 DEF Kept
    <3> QED
      BY <3>1, <3>2
  <2>2. ASSUME NEW sc2, Len(sc2) = base[m], Agree(sc2, scopes, 1..base[m]), NEW lp2, lp2 = loops'
        PROVE  /\ Nested(Front(open), sc2, lp2, labels, rng, G, Front(base), P \cup S, T \cup U)
               /\ open[m].kind = "fn" <=> Front(open) = <<>>
    <3>1. lp2 = IF open[m].kind \in LoopKinds THEN Front(loops) ELSE loops
      BY <1>0, <1>5, <2>2
    <3>2. Due(open[m]) \subseteq P \cup S /\ P \cup S \subseteq P \cup Labels(open[m])
      BY <1>5, <2>1
    <3>3. ASSUME NEW P2, P2 = P \cup S, NEW T2, T2 = T \cup U
          PROVE  Nested(Front(open), sc2, lp2, labels, rng, G, Front(base), P2, T2)
      <4>1. P \subseteq P2 /\ P2 \subseteq P \cup Labels(open[m]) /\ Due(open[m]) \subseteq P2
        BY <2>1, <3>2, <3>3
      <4>2. T2 \subseteq T \cup P2
        BY <2>1, <3>3
      <4>3. open # <<>>
        BY <1>0
      <4> QED
        BY <1>2, <1>4, <2>2, <3>1, <4>1, <4>2, <4>3, ClosingPop
    <3>4. open[m].kind = "fn" <=> Front(open) = <<>>
      BY <1>3, <1>4, ChainPop, <1>0, <1>1 DEF Nested
    <3> QED
      BY <3>3, <3>4
  <2> QED
    BY <1>5, <1>6, <1>10, <2>2
<1>12. open' # <<>>
  BY <1>0, <1>11
<1>13. Placed(rng, e, out', terminated', scopes', open', loops', labels')
  <2>1. Emitted(rng, e, G, c, ends, P \cup S, T \cup U, RegsTo(scopes', Len(scopes')))
    BY <1>8, <1>10
  <2>2. Placed(rng, e, c, ends, scopes', open', loops', labels)
    BY <1>11, <2>1 DEF Placed
  <2> QED
    BY <2>2
<1>14. Placed(Ranged', Exact', out', terminated', scopes', open', loops', labels')
  BY <1>3, <1>13
<1>15. Counters' /\ Scoped(scopes', regs')
  BY <1>1, <1>10 DEF CloseFrame, IInv, Counters, Recorded
<1> QED
  BY <1>12, <1>14, <1>15 DEF IInv, Emitting

(* The end of a consequence and an empty alternative, whose jump may go       *)
(* anywhere.                                                                  *)
LEMMA RuleCloseFork ==
    ASSUME NEW rng \in BOOLEAN, NEW e \in BOOLEAN, NEW G, NEW c, NEW ends \in BOOLEAN, NEW P, NEW T,
           NEW r \in Nat, NEW sc, Scoped(sc, r), r <= MaxRegs, e => escaped = {},
           NEW B \in SUBSET Registers, B = RegsTo(sc, Len(sc) - 1),
           NEW j \in Nat, G[j] = B, NEW l \in Nat, l \notin P, G[l] = B,
           NEW b \in Nat, G[b] = B, NEW d \in Nat, d \notin P, G[d] = B, d # l,
           Emitted(rng, e, G, c, ends, P, T, RegsTo(sc, Len(sc)))
    PROVE  Emitted(rng, e, G, c \o ((PopReleases(sc, ends) \o BackEdge(ends, j) \o <<Label(l)>>)
                                      \o <<Br({b}), Label(d)>>),
                   FALSE, P \cup {l, d}, T \cup {j, b}, B)
<1> DEFINE p == PopReleases(sc, ends)
           h == BackEdge(ends, j)
           q == (p \o h) \o <<Label(l)>>
           k == <<Br({b}), Label(d)>>
<1>1. Emitted(rng, e, G, c \o q, FALSE, P \cup {l}, T \cup {j}, B)
  BY RuleClose
<1>2. q \in Seq(Code) /\ k \in Seq(Code) /\ c \in Seq(Code)
  <2>1. p \in Seq(Code)
    BY PopCode
  <2>2. h \in Seq(Code) /\ <<Label(l)>> \in Seq(Code)
    BY CodeTypes DEF BackEdge
  <2> HIDE DEF p, h
  <2>3. p \o h \in Seq(Code)
    BY <2>1, <2>2, Join
  <2>4. q \in Seq(Code)
    BY <2>2, <2>3, Join
  <2>5. k \in Seq(Code)
    BY CodeTypes
  <2> QED
    BY <2>4, <2>5 DEF Emitted, Listing
<1> HIDE DEF q
<1>3. Emitted(rng, e, G, (c \o q) \o k, FALSE, (P \cup {l}) \cup {d}, (T \cup {j}) \cup {b}, B)
  <2>1. d \notin P \cup {l} /\ {b} \in SUBSET Nat /\ \A i \in {b} : G[i] = B
    OBVIOUS
  <2> QED
    BY <1>1, <2>1, RuleFork
<1>4. (P \cup {l}) \cup {d} = P \cup {l, d} /\ (T \cup {j}) \cup {b} = T \cup {j, b}
  OBVIOUS
<1> HIDE DEF k
<1>5. c \o (q \o k) = (c \o q) \o k
  BY <1>2, Assoc
<1>6. Emitted(rng, e, G, c \o (q \o k), FALSE, P \cup {l, d}, T \cup {j, b}, B)
  BY <1>3, <1>4, <1>5
<1> QED
  BY <1>6 DEF q, k, p, h

(* What the end of a block that opened one scope leaves owned.                    *)
LEMMA Outer ==
    ASSUME IInv, NEW kind, kind # "fn", CloseFrame(kind), NEW f, f = Top(open),
           NEW n, n = Len(scopes) - Pushes(f), NEW B, B = RegsTo(scopes, n)
    PROVE  B \in SUBSET Registers
<1>1. n \in 1..Len(scopes)
  BY CloseFacts DEF Pushes
<1>2. regs \in Nat /\ Scoped(scopes, regs) /\ regs <= MaxRegs
  BY Basics
<1>3. B \subseteq 1..regs
  BY <1>1, <1>2, RegsToBound
<1>4. 1..regs \subseteq Registers
  BY <1>2, EmitAssumption DEF MaxRegs, Registers
<1> QED
  BY <1>3, <1>4

(* The end of a consequence, and the jump of an empty alternative to the      *)
(* merge block.                                                               *)
LEMMA RuleCloseIf ==
    ASSUME NEW rng \in BOOLEAN, NEW e \in BOOLEAN, NEW G, NEW c, NEW ends \in BOOLEAN, NEW P, NEW T,
           NEW r \in Nat, NEW sc, Scoped(sc, r), r <= MaxRegs, e => escaped = {},
           NEW B \in SUBSET Registers, B = RegsTo(sc, Len(sc) - 1),
           NEW l \in Nat, l \notin P, G[l] = B, NEW d \in Nat, d \notin P, G[d] = B, l # d,
           Emitted(rng, e, G, c, ends, P, T, RegsTo(sc, Len(sc)))
    PROVE  Emitted(rng, e, G, c \o ((PopReleases(sc, ends) \o BackEdge(ends, d) \o <<Label(l)>>)
                                      \o <<Br({d}), Label(d)>>),
                   FALSE, P \cup {l, d}, T \cup {d}, B)
<1>1. Emitted(rng, e, G, c \o ((PopReleases(sc, ends) \o BackEdge(ends, d) \o <<Label(l)>>)
                                      \o <<Br({d}), Label(d)>>),
                   FALSE, P \cup {l, d}, T \cup {d, d}, B)
  BY RuleCloseFork
<1>2. {d, d} = {d}
  OBVIOUS
<1> QED
  BY <1>1, <1>2

(* The end of an if without alternative closes its frame.                     *)
LEMMA IfCloses ==
    ASSUME NEW f, NEW n, NEW l2 \in Nat, NEW l3 \in Nat, l2 # l3, Owed(f) = {l2, l3},
           n = Len(scopes) - 1, RegsTo(scopes, n) \in SUBSET Registers, terminated \in BOOLEAN,
           regs \in Nat, Scoped(scopes, regs), regs <= MaxRegs, NEW ends, ends = FALSE,
           NEW c, c = out \o ((PopReleases(scopes, terminated) \o BackEdge(terminated, l3) \o <<Label(l2)>>)
                                \o <<Br({l3}), Label(l3)>>)
    PROVE  Closes(f, n, c, ends, {l2, l3}, {l3})
<1> DEFINE B == RegsTo(scopes, n)
<1> SUFFICES ASSUME NEW rng \in BOOLEAN, NEW e \in BOOLEAN, NEW G, NEW P, NEW T,
                    e => escaped = {}, Owed(f) \cap P = {}, \A k \in Owed(f) \cup Cond(f) : G[k] = B,
                    Emitted(rng, e, G, out, terminated, P, T, RegsTo(scopes, Len(scopes)))
             PROVE  Emitted(rng, e, G, c, FALSE, P \cup {l2, l3}, T \cup {l3}, B)
  BY DEF Closes
<1>1. G[l2] = B /\ G[l3] = B /\ l2 \notin P /\ l3 \notin P
  OBVIOUS
<1>2. B \in SUBSET Registers /\ B = RegsTo(scopes, Len(scopes) - 1)
  OBVIOUS
<1> HIDE DEF B
<1>3. PICK r, sc, b : r = regs /\ sc = scopes /\ b = terminated
  OBVIOUS
<1>4. /\ r \in Nat /\ Scoped(sc, r) /\ r <= MaxRegs /\ b \in BOOLEAN /\ B = RegsTo(sc, Len(sc) - 1)
      /\ Emitted(rng, e, G, out, b, P, T, RegsTo(sc, Len(sc)))
  BY <1>2, <1>3
<1>5. Emitted(rng, e, G, out \o ((PopReleases(sc, b) \o BackEdge(b, l3) \o <<Label(l2)>>)
                                           \o <<Br({l3}), Label(l3)>>),
                     FALSE, P \cup {l2, l3}, T \cup {l3}, B)
  BY <1>1, <1>2, <1>4, RuleCloseIf
<1> QED
  BY <1>3, <1>5

(* The end of an if without alternative keeps the invariant.                  *)
LEMMA CloseIfKeeps == ASSUME IInv, CloseIf PROVE IInv'
<1> DEFINE f == Top(open)
           l2 == f.label + 2
           l3 == f.label + 3
           n == Len(scopes) - Pushes(f)
           c == out \o ((PopReleases(scopes, terminated) \o BackEdge(terminated, l3) \o <<Label(l2)>>)
                          \o <<Br({l3}), Label(l3)>>)
<1>1. /\ CloseFrame("then") /\ out' = c /\ terminated' = FALSE /\ open' = Front(open)
      /\ scopes' = Front(scopes) /\ loops' = loops /\ labels' = labels
  BY DEF CloseIf, Write, ThenEnd, BackEdge
<1>2. PICK kind, ends : kind = "then" /\ ends = FALSE
  OBVIOUS
<1>3. f \in Frames /\ f.kind = "then" /\ f.label \in Nat /\ n \in Nat /\ terminated \in BOOLEAN
  BY <1>1, CloseFacts
<1>4. /\ Pushes(f) = 1 /\ Owed(f) = {l2, l3} /\ Due(f) = {l2} /\ l2 \in Nat /\ l3 \in Nat /\ l2 # l3
  BY <1>3 DEF Pushes, Owed, Due
<1>5. scopes' = SubSeq(scopes, 1, n) /\ n = Len(scopes) - 1
  BY <1>1, <1>4 DEF Front
<1>6. RegsTo(scopes, n) \in SUBSET Registers
  BY <1>1, Outer
<1>7. regs \in Nat /\ Scoped(scopes, regs) /\ regs <= MaxRegs
  BY Basics
<1> HIDE DEF l2, l3
<1>8. Closes(f, n, c, ends, {l2, l3}, {l3})
  <2> HIDE DEF f, n, c
  <2>1. c = out \o ((PopReleases(scopes, terminated) \o BackEdge(terminated, l3) \o <<Label(l2)>>)
                          \o <<Br({l3}), Label(l3)>>)
    BY DEF c
  <2> QED
    BY <1>2, <1>3, <1>4, <1>5, <1>6, <1>7, <2>1, IfCloses
<1> HIDE DEF c
<1>9. kind # "fn" /\ CloseFrame(kind) /\ open' = Front(open) /\ labels' = labels
      /\ loops' = (IF kind \in LoopKinds THEN Front(loops) ELSE loops)
      /\ out' = c /\ terminated' = ends
  BY <1>1, <1>2 DEF LoopKinds
<1>10. {l2, l3} \subseteq Owed(f) /\ Due(f) \subseteq {l2, l3} /\ {l3} \subseteq {l2, l3} \cup Cond(f)
  BY <1>4
<1>11. scopes' = SubSeq(scopes, 1, n) /\ f = Top(open) /\ n = Len(scopes) - Pushes(f)
  BY <1>5
<1> HIDE DEF f, n
<1> QED
  BY <1>8, <1>9, <1>10, <1>11, CloseStmt

(* The end of a while closes its frame.                                       *)
LEMMA WhileCloses ==
    ASSUME NEW f, NEW n, NEW l1 \in Nat, NEW l3 \in Nat, Owed(f) = {l3}, Cond(f) = {l1},
           n = Len(scopes) - 1, RegsTo(scopes, n) \in SUBSET Registers, terminated \in BOOLEAN,
           regs \in Nat, Scoped(scopes, regs), regs <= MaxRegs, NEW ends, ends = FALSE,
           NEW c, c = out \o (PopReleases(scopes, terminated) \o BackEdge(terminated, l1) \o <<Label(l3)>>)
    PROVE  Closes(f, n, c, ends, {l3}, {l1})
<1> DEFINE B == RegsTo(scopes, n)
<1> SUFFICES ASSUME NEW rng \in BOOLEAN, NEW e \in BOOLEAN, NEW G, NEW P, NEW T,
                    e => escaped = {}, Owed(f) \cap P = {}, \A k \in Owed(f) \cup Cond(f) : G[k] = B,
                    Emitted(rng, e, G, out, terminated, P, T, RegsTo(scopes, Len(scopes)))
             PROVE  Emitted(rng, e, G, c, FALSE, P \cup {l3}, T \cup {l1}, B)
  BY DEF Closes
<1>1. G[l1] = B /\ G[l3] = B /\ l3 \notin P
  OBVIOUS
<1>2. B \in SUBSET Registers /\ B = RegsTo(scopes, Len(scopes) - 1)
  OBVIOUS
<1> HIDE DEF B
<1>3. PICK r, sc, b : r = regs /\ sc = scopes /\ b = terminated
  OBVIOUS
<1>4. /\ r \in Nat /\ Scoped(sc, r) /\ r <= MaxRegs /\ b \in BOOLEAN /\ B = RegsTo(sc, Len(sc) - 1)
      /\ Emitted(rng, e, G, out, b, P, T, RegsTo(sc, Len(sc)))
  BY <1>2, <1>3
<1>5. Emitted(rng, e, G, out \o (PopReleases(sc, b) \o BackEdge(b, l1) \o <<Label(l3)>>),
              FALSE, P \cup {l3}, T \cup {l1}, B)
  BY <1>1, <1>2, <1>4, RuleClose
<1> QED
  BY <1>3, <1>5

(* The end of a while keeps the invariant.                                    *)
LEMMA CloseWhileKeeps == ASSUME IInv, CloseWhile PROVE IInv'
<1> DEFINE f == Top(open)
           l1 == f.label + 1
           l3 == f.label + 3
           n == Len(scopes) - Pushes(f)
           c == out \o (PopReleases(scopes, terminated) \o BackEdge(terminated, l1) \o <<Label(l3)>>)
<1>1. /\ CloseFrame("while") /\ out' = c /\ terminated' = FALSE /\ open' = Front(open)
      /\ scopes' = Front(scopes) /\ loops' = Front(loops) /\ labels' = labels
  BY DEF CloseWhile, Write
<1>2. PICK kind, ends : kind = "while" /\ ends = FALSE
  OBVIOUS
<1>3. f \in Frames /\ f.kind = "while" /\ f.label \in Nat /\ n \in Nat /\ terminated \in BOOLEAN
  BY <1>1, CloseFacts
<1>4. /\ Pushes(f) = 1 /\ Owed(f) = {l3} /\ Due(f) = {l3} /\ Cond(f) = {l1}
      /\ l1 \in Nat /\ l3 \in Nat
  BY <1>3 DEF Pushes, Owed, Due, Cond, LoopKinds
<1>5. scopes' = SubSeq(scopes, 1, n) /\ n = Len(scopes) - 1
  BY <1>1, <1>4 DEF Front
<1>6. RegsTo(scopes, n) \in SUBSET Registers
  BY <1>1, Outer
<1>7. regs \in Nat /\ Scoped(scopes, regs) /\ regs <= MaxRegs
  BY Basics
<1> HIDE DEF l1, l3
<1>8. Closes(f, n, c, ends, {l3}, {l1})
  <2> HIDE DEF f, n, c
  <2>1. c = out \o (PopReleases(scopes, terminated) \o BackEdge(terminated, l1) \o <<Label(l3)>>)
    BY DEF c
  <2> QED
    BY <1>2, <1>3, <1>4, <1>5, <1>6, <1>7, <2>1, WhileCloses
<1> HIDE DEF c
<1>9. kind # "fn" /\ CloseFrame(kind) /\ open' = Front(open) /\ labels' = labels
      /\ loops' = (IF kind \in LoopKinds THEN Front(loops) ELSE loops)
      /\ out' = c /\ terminated' = ends
  BY <1>1, <1>2 DEF LoopKinds
<1>10. {l3} \subseteq Owed(f) /\ Due(f) \subseteq {l3} /\ {l1} \subseteq {l3} \cup Cond(f)
  BY <1>4
<1>11. scopes' = SubSeq(scopes, 1, n) /\ f = Top(open) /\ n = Len(scopes) - Pushes(f)
  BY <1>5
<1> HIDE DEF f, n
<1> QED
  BY <1>8, <1>9, <1>10, <1>11, CloseStmt

(* One instruction, then two.                                                 *)
LEMMA JoinLast ==
    ASSUME NEW q \in Seq(Code), NEW a \in Code, NEW b \in Code, NEW d \in Code
    PROVE  (q \o <<a>>) \o <<b, d>> = q \o <<a, b, d>>
<1>1. <<a>> \in Seq(Code) /\ <<b, d>> \in Seq(Code)
  OBVIOUS
<1>2. <<a>> \o <<b, d>> = <<a, b, d>>
  <2> DEFINE p == <<a>> \o <<b, d>>
             t == <<a, b, d>>
  <2>1. Len(p) = 3 /\ p[1] = a /\ p[2] = b /\ p[3] = d
    OBVIOUS
  <2>2. Len(t) = 3 /\ t[1] = a /\ t[2] = b /\ t[3] = d
    OBVIOUS
  <2>3. p \in Seq({a, b, d}) /\ t \in Seq({a, b, d})
    OBVIOUS
  <2> HIDE DEF p, t
  <2>4. \A i \in 1..3 : p[i] = t[i]
    BY <2>1, <2>2
  <2>5. p = t
    BY <2>1, <2>2, <2>3, <2>4
  <2> QED
    BY <2>5 DEF p, t
<1>3. q \o (<<a>> \o <<b, d>>) = (q \o <<a>>) \o <<b, d>>
  BY <1>1, Assoc
<1> QED
  BY <1>2, <1>3

(* What the end of a C-style loop writes.                                          *)
ForEnd(sc, ends, cond, post, end) ==
    (PopReleases(sc, ends) \o BackEdge(ends, post)) \o <<Label(post), Br({cond}), Label(end)>>

(* The end of a C-style loop: releases, back edge, post block, end label.     *)
LEMMA RuleCloseFor ==
    ASSUME NEW rng \in BOOLEAN, NEW e \in BOOLEAN, NEW G, NEW c, NEW ends \in BOOLEAN, NEW P, NEW T,
           NEW r \in Nat, NEW sc, Scoped(sc, r), r <= MaxRegs, e => escaped = {},
           NEW B \in SUBSET Registers, B = RegsTo(sc, Len(sc) - 1),
           NEW l \in Nat, l \notin P, G[l] = B, NEW d \in Nat, d \notin P, G[d] = B, d # l,
           NEW b \in Nat, G[b] = B,
           Emitted(rng, e, G, c, ends, P, T, RegsTo(sc, Len(sc)))
    PROVE  Emitted(rng, e, G, c \o ForEnd(sc, ends, b, l, d), FALSE, P \cup {l, d}, T \cup {l, b}, B)
<1>1. Emitted(rng, e, G, c \o ((PopReleases(sc, ends) \o BackEdge(ends, l) \o <<Label(l)>>)
                                      \o <<Br({b}), Label(d)>>),
                   FALSE, P \cup {l, d}, T \cup {l, b}, B)
  BY RuleCloseFork
<1>2. PICK q, p, h : /\ p = PopReleases(sc, ends) /\ h = BackEdge(ends, l) /\ q = p \o h
  OBVIOUS
<1>3. p \in Seq(Code) /\ h \in Seq(Code)
  BY <1>2, PopCode, CodeTypes DEF BackEdge
<1>4. q \in Seq(Code)
  BY <1>2, <1>3, Join
<1>5. Label(l) \in Code /\ Br({b}) \in Code /\ Label(d) \in Code
  BY CodeTypes
<1>6. (q \o <<Label(l)>>) \o <<Br({b}), Label(d)>> = q \o <<Label(l), Br({b}), Label(d)>>
  BY <1>4, <1>5, JoinLast
<1> QED
  BY <1>1, <1>2, <1>6 DEF ForEnd

(* What the end of a block finds, and a label that it owes.                          *)
Ended(rng, e, G, c, ends, P, T, r, sc, B) ==
    /\ rng \in BOOLEAN /\ e \in BOOLEAN /\ ends \in BOOLEAN
    /\ r \in Nat /\ Scoped(sc, r) /\ r <= MaxRegs /\ (e => escaped = {})
    /\ B \in SUBSET Registers /\ B = RegsTo(sc, Len(sc) - 1)
    /\ Emitted(rng, e, G, c, ends, P, T, RegsTo(sc, Len(sc)))

(* A label not placed yet, expected to be entered with B.                     *)
Owes(G, B, P, l) == l \in Nat /\ l \notin P /\ G[l] = B

(* The same, from what is known at the end of a block.                        *)
LEMMA ForEnded ==
    ASSUME NEW rng, NEW e, NEW G, NEW c, NEW ends, NEW P, NEW T, NEW r, NEW sc, NEW B,
           Ended(rng, e, G, c, ends, P, T, r, sc, B),
           NEW l, Owes(G, B, P, l), NEW d, Owes(G, B, P, d), l # d, NEW b \in Nat, G[b] = B
    PROVE  Emitted(rng, e, G, c \o ForEnd(sc, ends, b, l, d), FALSE, P \cup {l, d}, T \cup {l, b}, B)
BY RuleCloseFor DEF Ended, Owes

(* The end of a C-style loop closes its frame.                                *)
LEMMA ForCloses ==
    ASSUME NEW f, NEW n, NEW l1 \in Nat, NEW l3 \in Nat, NEW l4 \in Nat, l3 # l4,
           Owed(f) = {l3, l4}, Cond(f) = {l1},
           n = Len(scopes) - 1, RegsTo(scopes, n) \in SUBSET Registers, terminated \in BOOLEAN,
           regs \in Nat, Scoped(scopes, regs), regs <= MaxRegs, NEW ends, ends = FALSE,
           NEW c, c = out \o ((PopReleases(scopes, terminated) \o BackEdge(terminated, l3))
                                \o <<Label(l3), Br({l1}), Label(l4)>>)
    PROVE  Closes(f, n, c, ends, {l3, l4}, {l3, l1})
<1> DEFINE B == RegsTo(scopes, n)
<1>0. SUFFICES ASSUME NEW rng \in BOOLEAN, NEW e \in BOOLEAN, NEW G, NEW P, NEW T,
                    e => escaped = {}, Owed(f) \cap P = {}, \A k \in Owed(f) \cup Cond(f) : G[k] = B,
                    Emitted(rng, e, G, out, terminated, P, T, RegsTo(scopes, Len(scopes)))
             PROVE  Emitted(rng, e, G, c, FALSE, P \cup {l3, l4}, T \cup {l3, l1}, B)
  BY DEF Closes
<1>1. (e => escaped = {}) /\ G[l1] = B /\ G[l3] = B /\ G[l4] = B /\ l3 \notin P /\ l4 \notin P
  BY <1>0
<1>2. B \in SUBSET Registers /\ B = RegsTo(scopes, Len(scopes) - 1)
  OBVIOUS
<1> HIDE DEF B
<1>3. PICK r, sc, b : r = regs /\ sc = scopes /\ b = terminated
  OBVIOUS
<1>4. /\ r \in Nat /\ Scoped(sc, r) /\ r <= MaxRegs /\ b \in BOOLEAN /\ B = RegsTo(sc, Len(sc) - 1)
      /\ Emitted(rng, e, G, out, b, P, T, RegsTo(sc, Len(sc)))
  BY <1>0, <1>2, <1>3
<1>5. Ended(rng, e, G, out, b, P, T, r, sc, B)
  BY <1>1, <1>2, <1>4 DEF Ended
<1>6. Owes(G, B, P, l3) /\ Owes(G, B, P, l4)
  BY <1>1 DEF Owes
<1>7. Emitted(rng, e, G, out \o ForEnd(sc, b, l1, l3, l4), FALSE, P \cup {l3, l4}, T \cup {l3, l1}, B)
  BY <1>1, <1>5, <1>6, ForEnded
<1> QED
  BY <1>3, <1>7 DEF ForEnd

(* The end of a C-style loop keeps the invariant.                             *)
LEMMA CloseForKeeps == ASSUME IInv, CloseFor PROVE IInv'
<1> DEFINE f == Top(open)
           l1 == f.label + 1
           l3 == f.label + 3
           l4 == f.label + 4
           n == Len(scopes) - Pushes(f)
           c == out \o ((PopReleases(scopes, terminated) \o BackEdge(terminated, l3))
                          \o <<Label(l3), Br({l1}), Label(l4)>>)
<1>1. /\ CloseFrame("for") /\ out' = c /\ terminated' = FALSE /\ open' = Front(open)
      /\ scopes' = Front(scopes) /\ loops' = Front(loops) /\ labels' = labels
  BY DEF CloseFor, Write
<1>2. PICK kind, ends : kind = "for" /\ ends = FALSE
  OBVIOUS
<1>3. f \in Frames /\ f.kind = "for" /\ f.label \in Nat /\ n \in Nat /\ terminated \in BOOLEAN
  BY <1>1, CloseFacts
<1>4. /\ Pushes(f) = 1 /\ Owed(f) = {l3, l4} /\ Due(f) = {l3, l4} /\ Cond(f) = {l1}
      /\ l1 \in Nat /\ l3 \in Nat /\ l4 \in Nat /\ l3 # l4
  BY <1>3 DEF Pushes, Owed, Due, Cond, LoopKinds
<1>5. scopes' = SubSeq(scopes, 1, n) /\ n = Len(scopes) - 1
  BY <1>1, <1>4 DEF Front
<1>6. RegsTo(scopes, n) \in SUBSET Registers
  BY <1>1, Outer
<1>7. regs \in Nat /\ Scoped(scopes, regs) /\ regs <= MaxRegs
  BY Basics
<1> HIDE DEF l1, l3, l4
<1>8. Closes(f, n, c, ends, {l3, l4}, {l3, l1})
  <2> HIDE DEF f, n, c
  <2>1. c = out \o ((PopReleases(scopes, terminated) \o BackEdge(terminated, l3))
                          \o <<Label(l3), Br({l1}), Label(l4)>>)
    BY DEF c
  <2> QED
    BY <1>2, <1>3, <1>4, <1>5, <1>6, <1>7, <2>1, ForCloses
<1> HIDE DEF c
<1>9. kind # "fn" /\ CloseFrame(kind) /\ open' = Front(open) /\ labels' = labels
      /\ loops' = (IF kind \in LoopKinds THEN Front(loops) ELSE loops)
      /\ out' = c /\ terminated' = ends
  BY <1>1, <1>2 DEF LoopKinds
<1>10. {l3, l4} \subseteq Owed(f) /\ Due(f) \subseteq {l3, l4} /\ {l3, l1} \subseteq {l3, l4} \cup Cond(f)
  BY <1>4
<1>11. scopes' = SubSeq(scopes, 1, n) /\ f = Top(open) /\ n = Len(scopes) - Pushes(f)
  BY <1>5
<1> HIDE DEF f, n
<1> QED
  BY <1>8, <1>9, <1>10, <1>11, CloseStmt

(* What a range loop writes: the releases of its scope follow the back edge.           *)
RangeEnd(sc, ends, cond, post, end) ==
    ((BackEdge(ends, post) \o <<Label(post), Br({cond})>>) \o PopReleases(sc, FALSE)) \o <<Label(end)>>

(* The two ways the pieces are joined: as written, and one rule at a time.    *)
Rejoined(c, h, x, y, p, z) ==
    c \o (((h \o (x \o y)) \o p) \o z) = ((((c \o h) \o x) \o y) \o p) \o z

(* The pieces of the end of a range loop, joined in either order.             *)
LEMMA JoinRange ==
    \A c, h, x, y, p, z : {c, h, x, y, p, z} \subseteq Seq(Code) => Rejoined(c, h, x, y, p, z)
<1>0. SUFFICES ASSUME NEW c, NEW h, NEW x, NEW y, NEW p, NEW z,
                      {c, h, x, y, p, z} \subseteq Seq(Code)
               PROVE  Rejoined(c, h, x, y, p, z)
  OBVIOUS
<1>1. c \in Seq(Code)
  BY <1>0
<1>2. h \in Seq(Code)
  BY <1>0
<1>3. x \in Seq(Code) /\ y \in Seq(Code)
  BY <1>0
<1>4. p \in Seq(Code)
  BY <1>0
<1>5. z \in Seq(Code)
  BY <1>0
<1>6. PICK t, u, v, w : t = x \o y /\ u = h \o t /\ v = u \o p /\ w = c \o h
  OBVIOUS
<1>7. t \in Seq(Code)
  BY <1>3, <1>6
<1>8. u \in Seq(Code)
  BY <1>2, <1>6, <1>7
<1>9. v \in Seq(Code)
  BY <1>4, <1>6, <1>8
<1>10. w \in Seq(Code)
  BY <1>1, <1>2, <1>6
<1>11. c \o (v \o z) = (c \o v) \o z
  BY <1>1, <1>5, <1>9, Assoc
<1>12. c \o (u \o p) = (c \o u) \o p
  BY <1>1, <1>4, <1>8, Assoc
<1>13. c \o (h \o t) = (c \o h) \o t
  BY <1>1, <1>2, <1>7, Assoc
<1>14. w \o (x \o y) = (w \o x) \o y
  BY <1>3, <1>10, Assoc
<1> QED
  BY <1>6, <1>11, <1>12, <1>13, <1>14 DEF Rejoined

(* The end of a range loop: the releases come after the back edge, where      *)
(* nothing runs.                                                              *)
LEMMA RangeEnded ==
    ASSUME NEW rng, NEW e, NEW G, NEW c, NEW ends, NEW P, NEW T, NEW r, NEW sc, NEW B,
           Ended(rng, e, G, c, ends, P, T, r, sc, B), rng, ~e,
           NEW l, Owes(G, B, P, l), NEW d, Owes(G, B, P, d), l # d, NEW b \in Nat, G[b] = B
    PROVE  Emitted(rng, e, G, c \o RangeEnd(sc, ends, b, l, d), FALSE, P \cup {l, d}, T \cup {l, b}, B)
<1> DEFINE A == RegsTo(sc, Len(sc))
           h == BackEdge(ends, l)
           rs == Owned(sc[Len(sc)])
<1>1. /\ rng \in BOOLEAN /\ e \in BOOLEAN /\ ends \in BOOLEAN
      /\ r \in Nat /\ Scoped(sc, r) /\ r <= MaxRegs
      /\ B \in SUBSET Registers /\ B = RegsTo(sc, Len(sc) - 1)
      /\ Emitted(rng, e, G, c, ends, P, T, A)
      /\ l \in Nat /\ l \notin P /\ G[l] = B /\ d \in Nat /\ d \notin P /\ G[d] = B
  BY DEF Ended, Owes
<1>2. Len(sc) \in Nat \ {0} /\ Len(sc) \in 1..Len(sc)
  BY <1>1 DEF Scoped, Scopes
<1>3. A \in SUBSET Registers
  <2>1. A \subseteq 1..r
    BY <1>1, <1>2, RegsToBound
  <2>2. 1..r \subseteq Registers
    BY <1>1, EmitAssumption DEF MaxRegs, Registers
  <2> QED
    BY <2>1, <2>2
<1>4. A = B \cup RegsOf(sc[Len(sc)]) /\ B \cap RegsOf(sc[Len(sc)]) = {}
  <2>1. B \cap RegsOf(sc[Len(sc)]) = {}
    BY <1>1, <1>2, RegsToApart
  <2>2. ASSUME NEW n \in Nat, Len(sc) = n + 1 PROVE A = B \cup RegsOf(sc[Len(sc)])
    <3>1. RegsTo(sc, n + 1) = RegsTo(sc, n) \cup RegsOf(sc[n + 1])
      BY RegsToNext
    <3>2. n = Len(sc) - 1
      BY <2>2
    <3> QED
      BY <1>1, <2>2, <3>1, <3>2
  <2>3. \E n \in Nat : Len(sc) = n + 1
    <3>1. Len(sc) - 1 \in Nat /\ Len(sc) = (Len(sc) - 1) + 1
      BY <1>2
    <3> QED
      BY <3>1
  <2> QED
    BY <2>1, <2>2, <2>3
<1>5. rs \subseteq RegsOf(sc[Len(sc)])
  BY OwnedRegs
<1>6. rs \in SUBSET Registers /\ B \cap rs = {} /\ B \subseteq A
  BY <1>3, <1>4, <1>5
<1>7. /\ c \in Seq(Code) /\ h \in Seq(Code) /\ Release(rs) \in Seq(Code)
      /\ Label(l) \in Code /\ Br({b}) \in Code /\ Label(d) \in Code
  <2>1. c \in Seq(Code)
    BY <1>1 DEF Emitted, Listing
  <2>2. h \in Seq(Code)
    BY <1>1, CodeTypes DEF BackEdge
  <2>3. Release(rs) \in Seq(Code)
    BY <1>6, ReleaseCode
  <2> QED
    BY <1>1, <2>1, <2>2, <2>3, CodeTypes
<1> HIDE DEF A, h, rs
<1>8. Emitted(rng, e, G, c \o h, TRUE, P, T \cup {l}, B)
  <2>1. Fits(e, G[l], A)
    BY <1>1, <1>6 DEF Fits
  <2> QED
    BY <1>1, <1>3, <2>1, RuleJump DEF h
<1>9. Emitted(rng, e, G, (c \o h) \o <<Label(l)>>, FALSE, P \cup {l}, T \cup {l}, B)
  <2>1. Emitted(rng, e, G, (c \o h) \o <<Label(l)>>, FALSE, P \cup {l}, T \cup {l}, G[l])
    BY <1>1, <1>8, RuleLabel
  <2> QED
    BY <1>1, <2>1
<1>10. Emitted(rng, e, G, ((c \o h) \o <<Label(l)>>) \o <<Br({b})>>, TRUE, P \cup {l}, (T \cup {l}) \cup {b}, B)
  <2>1. {b} \in SUBSET Nat /\ \A k \in {b} : Fits(e, G[k], B)
    BY DEF Fits
  <2> QED
    BY <1>1, <1>9, <2>1, RuleBranch
<1>11. Emitted(rng, e, G, ((((c \o h) \o <<Label(l)>>) \o <<Br({b})>>) \o Release(rs)) \o <<Label(d)>>,
               FALSE, (P \cup {l}) \cup {d}, (T \cup {l}) \cup {b}, B)
  <2>1. d \notin P \cup {l} /\ G[d] \in SUBSET Registers /\ G[d] \cap rs = {}
    BY <1>1, <1>6
  <2>2. Emitted(rng, e, G, ((((c \o h) \o <<Label(l)>>) \o <<Br({b})>>) \o Release(rs)) \o <<Label(d)>>,
               FALSE, (P \cup {l}) \cup {d}, (T \cup {l}) \cup {b}, G[d])
    BY <1>1, <1>6, <1>10, <2>1, RuleCleanup
  <2> QED
    BY <1>1, <2>2
<1>12. c \o (((h \o <<Label(l), Br({b})>>) \o Release(rs)) \o <<Label(d)>>)
        = ((((c \o h) \o <<Label(l)>>) \o <<Br({b})>>) \o Release(rs)) \o <<Label(d)>>
  <2>1. PICK x, y, z, p, v : /\ x = <<Label(l)>> /\ y = <<Br({b})>> /\ z = <<Label(d)>>
                             /\ p = Release(rs) /\ v = h
    OBVIOUS
  <2>2. {c, v, x, y, p, z} \subseteq Seq(Code)
    BY <1>7, <2>1
  <2>3. Rejoined(c, v, x, y, p, z)
    BY <2>2, JoinRange
  <2>4. x \o y = <<Label(l), Br({b})>>
    BY <2>1, JoinTwo
  <2> QED
    BY <2>1, <2>3, <2>4 DEF Rejoined
<1>13. (P \cup {l}) \cup {d} = P \cup {l, d} /\ (T \cup {l}) \cup {b} = T \cup {l, b}
  OBVIOUS
<1>14. RangeEnd(sc, ends, b, l, d) = ((h \o <<Label(l), Br({b})>>) \o Release(rs)) \o <<Label(d)>>
  BY DEF RangeEnd, PopReleases, h, rs
<1> QED
  BY <1>11, <1>12, <1>13, <1>14

(* The end of a range loop closes its frame.                                  *)
LEMMA RangeCloses ==
    ASSUME NEW f, NEW n, NEW l1 \in Nat, NEW l3 \in Nat, NEW l4 \in Nat, l3 # l4,
           Owed(f) = {l3, l4}, Cond(f) = {l1}, f.kind = "range",
           n = Len(scopes) - 1, RegsTo(scopes, n) \in SUBSET Registers, terminated \in BOOLEAN,
           regs \in Nat, Scoped(scopes, regs), regs <= MaxRegs, NEW ends, ends = FALSE,
           NEW c, c = out \o RangeEnd(scopes, terminated, l1, l3, l4)
    PROVE  Closes(f, n, c, ends, {l3, l4}, {l3, l1})
<1> DEFINE B == RegsTo(scopes, n)
<1>0. SUFFICES ASSUME NEW rng \in BOOLEAN, NEW e \in BOOLEAN, NEW G, NEW P, NEW T,
                    e => escaped = {}, rng, ~e,
                    Owed(f) \cap P = {}, \A k \in Owed(f) \cup Cond(f) : G[k] = B,
                    Emitted(rng, e, G, out, terminated, P, T, RegsTo(scopes, Len(scopes)))
             PROVE  Emitted(rng, e, G, c, FALSE, P \cup {l3, l4}, T \cup {l3, l1}, B)
  BY DEF Closes
<1>1. (e => escaped = {}) /\ G[l1] = B /\ G[l3] = B /\ G[l4] = B /\ l3 \notin P /\ l4 \notin P
  BY <1>0
<1>2. B \in SUBSET Registers /\ B = RegsTo(scopes, Len(scopes) - 1)
  OBVIOUS
<1> HIDE DEF B
<1>3. PICK r, sc, b : r = regs /\ sc = scopes /\ b = terminated
  OBVIOUS
<1>4. /\ r \in Nat /\ Scoped(sc, r) /\ r <= MaxRegs /\ b \in BOOLEAN /\ B = RegsTo(sc, Len(sc) - 1)
      /\ Emitted(rng, e, G, out, b, P, T, RegsTo(sc, Len(sc)))
  BY <1>0, <1>2, <1>3
<1>5. Ended(rng, e, G, out, b, P, T, r, sc, B)
  BY <1>1, <1>2, <1>4 DEF Ended
<1>6. Owes(G, B, P, l3) /\ Owes(G, B, P, l4)
  BY <1>1 DEF Owes
<1>7. Emitted(rng, e, G, out \o RangeEnd(sc, b, l1, l3, l4), FALSE, P \cup {l3, l4}, T \cup {l3, l1}, B)
  BY <1>0, <1>1, <1>5, <1>6, RangeEnded
<1> QED
  BY <1>3, <1>7

(* The end of a range loop keeps the invariant.                               *)
LEMMA CloseRangeKeeps == ASSUME IInv, CloseRange PROVE IInv'
<1> DEFINE f == Top(open)
           l1 == f.label + 1
           l3 == f.label + 3
           l4 == f.label + 4
           n == Len(scopes) - Pushes(f)
           c == out \o RangeEnd(scopes, terminated, l1, l3, l4)
<1>1. /\ CloseFrame("range") /\ out' = c /\ terminated' = FALSE /\ open' = Front(open)
      /\ scopes' = Front(scopes) /\ loops' = Front(loops) /\ labels' = labels
  BY DEF CloseRange, Write, RangeEnd
<1>2. PICK kind, ends : kind = "range" /\ ends = FALSE
  OBVIOUS
<1>3. f \in Frames /\ f.kind = "range" /\ f.label \in Nat /\ n \in Nat /\ terminated \in BOOLEAN
  BY <1>1, CloseFacts
<1>4. /\ Pushes(f) = 1 /\ Owed(f) = {l3, l4} /\ Due(f) = {l3, l4} /\ Cond(f) = {l1}
      /\ l1 \in Nat /\ l3 \in Nat /\ l4 \in Nat /\ l3 # l4
  BY <1>3 DEF Pushes, Owed, Due, Cond, LoopKinds
<1>5. scopes' = SubSeq(scopes, 1, n) /\ n = Len(scopes) - 1
  BY <1>1, <1>4 DEF Front
<1>6. RegsTo(scopes, n) \in SUBSET Registers
  BY <1>1, Outer
<1>7. regs \in Nat /\ Scoped(scopes, regs) /\ regs <= MaxRegs
  BY Basics
<1> HIDE DEF l1, l3, l4
<1>8. Closes(f, n, c, ends, {l3, l4}, {l3, l1})
  <2> HIDE DEF f, n, c
  <2>1. c = out \o RangeEnd(scopes, terminated, l1, l3, l4)
    BY DEF c
  <2> QED
    BY <1>2, <1>3, <1>4, <1>5, <1>6, <1>7, <2>1, RangeCloses
<1> HIDE DEF c
<1>9. kind # "fn" /\ CloseFrame(kind) /\ open' = Front(open) /\ labels' = labels
      /\ loops' = (IF kind \in LoopKinds THEN Front(loops) ELSE loops)
      /\ out' = c /\ terminated' = ends
  BY <1>1, <1>2 DEF LoopKinds
<1>10. {l3, l4} \subseteq Owed(f) /\ Due(f) \subseteq {l3, l4} /\ {l3, l1} \subseteq {l3, l4} \cup Cond(f)
  BY <1>4
<1>11. scopes' = SubSeq(scopes, 1, n) /\ f = Top(open) /\ n = Len(scopes) - Pushes(f)
  BY <1>5
<1> HIDE DEF f, n
<1> QED
  BY <1>8, <1>9, <1>10, <1>11, CloseStmt

(* The end of a block closes its frame.                                       *)
LEMMA BlockCloses ==
    ASSUME NEW f, NEW n, n = Len(scopes) - 1, terminated \in BOOLEAN,
           regs \in Nat, Scoped(scopes, regs), regs <= MaxRegs, NEW ends, ends = terminated,
           NEW c, c = out \o PopReleases(scopes, terminated)
    PROVE  Closes(f, n, c, ends, {}, {})
<1> DEFINE B == RegsTo(scopes, n)
<1>0. SUFFICES ASSUME NEW rng \in BOOLEAN, NEW e \in BOOLEAN, NEW G, NEW P, NEW T, e => escaped = {},
                    Emitted(rng, e, G, out, terminated, P, T, RegsTo(scopes, Len(scopes)))
             PROVE  Emitted(rng, e, G, c, ends, P \cup {}, T \cup {}, B)
  BY DEF Closes
<1>1. PICK r, sc, b : r = regs /\ sc = scopes /\ b = terminated
  OBVIOUS
<1>2. Emitted(rng, e, G, out \o PopReleases(sc, b), b, P, T, RegsTo(sc, Len(sc) - 1))
  BY <1>0, <1>1, RulePop
<1>3. P \cup {} = P /\ T \cup {} = T
  OBVIOUS
<1> QED
  BY <1>1, <1>2, <1>3

(* The end of a block keeps the invariant.                                    *)
LEMMA CloseBlockKeeps == ASSUME IInv, CloseBlock PROVE IInv'
<1> DEFINE f == Top(open)
           n == Len(scopes) - Pushes(f)
           c == out \o PopReleases(scopes, terminated)
<1>1. /\ CloseFrame("block") /\ out' = c /\ terminated' = terminated /\ open' = Front(open)
      /\ scopes' = Front(scopes) /\ loops' = loops /\ labels' = labels
  BY DEF CloseBlock, Write
<1>2. PICK kind, ends : kind = "block" /\ ends = terminated
  OBVIOUS
<1>3. f \in Frames /\ f.kind = "block" /\ terminated \in BOOLEAN
  BY <1>1, CloseFacts
<1>4. Pushes(f) = 1 /\ Due(f) = {}
  BY <1>3 DEF Pushes, Due, Owed
<1>5. scopes' = SubSeq(scopes, 1, n) /\ n = Len(scopes) - 1
  BY <1>1, <1>4 DEF Front
<1>6. regs \in Nat /\ Scoped(scopes, regs) /\ regs <= MaxRegs
  BY Basics
<1>7. Closes(f, n, c, ends, {}, {})
  <2> HIDE DEF f, n, c
  <2>1. c = out \o PopReleases(scopes, terminated)
    BY DEF c
  <2> QED
    BY <1>2, <1>3, <1>5, <1>6, <2>1, BlockCloses
<1> HIDE DEF c
<1>8. kind # "fn" /\ CloseFrame(kind) /\ open' = Front(open) /\ labels' = labels
      /\ loops' = (IF kind \in LoopKinds THEN Front(loops) ELSE loops)
      /\ out' = c /\ terminated' = ends
  BY <1>1, <1>2 DEF LoopKinds
<1>9. {} \subseteq Owed(f) /\ Due(f) \subseteq {} /\ {} \subseteq {} \cup Cond(f)
  BY <1>4
<1>10. scopes' = SubSeq(scopes, 1, n) /\ f = Top(open) /\ n = Len(scopes) - Pushes(f)
  BY <1>5
<1> HIDE DEF f, n
<1> QED
  BY <1>7, <1>8, <1>9, <1>10, CloseStmt

(* The alternative of an if that ends its block while the consequence ended its own:    *)
(* nothing is written, and what follows is not reached.                                 *)
LEMMA ElseEnds ==
    ASSUME NEW f, NEW n, terminated, terminated \in BOOLEAN,
           NEW ends, ends = TRUE, NEW c, c = out
    PROVE  Closes(f, n, c, ends, {}, {})
<1> DEFINE B == RegsTo(scopes, n)
<1>0. SUFFICES ASSUME NEW rng \in BOOLEAN, NEW e \in BOOLEAN, NEW G, NEW P, NEW T,
                    Emitted(rng, e, G, out, terminated, P, T, RegsTo(scopes, Len(scopes)))
             PROVE  Emitted(rng, e, G, c, ends, P \cup {}, T \cup {}, B)
  BY DEF Closes
<1>1. PICK b, A : b = terminated /\ A = RegsTo(scopes, Len(scopes))
  OBVIOUS
<1> HIDE DEF B
<1>2. Emitted(rng, e, G, out, b, P, T, A) /\ b
  BY <1>0, <1>1
<1>3. Emitted(rng, e, G, out, b, P, T, B)
  BY <1>2, RuleWeaken
<1>4. P \cup {} = P /\ T \cup {} = T
  OBVIOUS
<1>5. ends = b
  BY <1>1
<1> QED
  BY <1>3, <1>4, <1>5

(* The end of a block that falls through to one label.                        *)
LEMMA OneEnded ==
    ASSUME NEW rng, NEW e, NEW G, NEW c, NEW ends, NEW P, NEW T, NEW r, NEW sc, NEW B,
           Ended(rng, e, G, c, ends, P, T, r, sc, B), NEW l, Owes(G, B, P, l)
    PROVE  Emitted(rng, e, G, c \o (PopReleases(sc, ends) \o BackEdge(ends, l) \o <<Label(l)>>),
                   FALSE, P \cup {l}, T \cup {l}, B)
BY RuleClose DEF Ended, Owes

(* The end of an alternative, when a branch of the if falls through.          *)
LEMMA ElseMerges ==
    ASSUME NEW f, NEW n \in Nat, NEW l3 \in Nat, Owed(f) = {l3}, f.kind = "else",
           Len(scopes) = n + 2, RegsTo(scopes, n) \in SUBSET Registers, terminated \in BOOLEAN,
           regs \in Nat, Scoped(scopes, regs), regs <= MaxRegs, NEW ends, ends = FALSE,
           NEW c, c = out \o (PopReleases(scopes, terminated) \o BackEdge(terminated, l3) \o <<Label(l3)>>)
    PROVE  Closes(f, n, c, ends, {l3}, {l3})
<1> DEFINE B == RegsTo(scopes, n)
<1>0. SUFFICES ASSUME NEW rng \in BOOLEAN, NEW e \in BOOLEAN, NEW G, NEW P, NEW T,
                    e => escaped = {}, scopes[n + 1] = {},
                    Owed(f) \cap P = {}, \A k \in Owed(f) \cup Cond(f) : G[k] = B,
                    Emitted(rng, e, G, out, terminated, P, T, RegsTo(scopes, Len(scopes)))
             PROVE  Emitted(rng, e, G, c, FALSE, P \cup {l3}, T \cup {l3}, B)
  BY DEF Closes
<1>1. (e => escaped = {}) /\ G[l3] = B /\ l3 \notin P
  BY <1>0
<1>2. B \in SUBSET Registers /\ B = RegsTo(scopes, Len(scopes) - 1)
  <2>1. RegsTo(scopes, n + 1) = RegsTo(scopes, n) \cup RegsOf(scopes[n + 1])
    BY RegsToNext
  <2>2. RegsOf(scopes[n + 1]) = {}
    BY <1>0 DEF RegsOf
  <2>3. Len(scopes) - 1 = n + 1
    OBVIOUS
  <2> QED
    BY <2>1, <2>2, <2>3
<1> HIDE DEF B
<1>3. PICK r, sc, b : r = regs /\ sc = scopes /\ b = terminated
  OBVIOUS
<1>4. /\ r \in Nat /\ Scoped(sc, r) /\ r <= MaxRegs /\ b \in BOOLEAN /\ B = RegsTo(sc, Len(sc) - 1)
      /\ Emitted(rng, e, G, out, b, P, T, RegsTo(sc, Len(sc)))
  BY <1>0, <1>2, <1>3
<1>5. Ended(rng, e, G, out, b, P, T, r, sc, B)
  BY <1>1, <1>2, <1>4 DEF Ended
<1>6. Owes(G, B, P, l3)
  BY <1>1 DEF Owes
<1>7. Emitted(rng, e, G, out \o (PopReleases(sc, b) \o BackEdge(b, l3) \o <<Label(l3)>>),
              FALSE, P \cup {l3}, T \cup {l3}, B)
  BY <1>5, <1>6, OneEnded
<1> QED
  BY <1>3, <1>7

(* The end of an if with an alternative keeps the invariant.                  *)
LEMMA CloseElseKeeps == ASSUME IInv, CloseElse PROVE IInv'
<1> DEFINE f == Top(open)
           l3 == f.label + 3
           n == Len(scopes) - Pushes(f)
           jump == IF terminated THEN <<>> ELSE <<Br({l3})>>
           merge == IF f.ends /\ terminated THEN <<>> ELSE <<Label(l3)>>
           c == out \o (PopReleases(scopes, terminated) \o jump \o merge)
<1>1. /\ CloseFrame("else") /\ out' = c /\ terminated' = (f.ends /\ terminated) /\ open' = Front(open)
      /\ scopes' = SubSeq(scopes, 1, Len(scopes) - 2) /\ loops' = loops /\ labels' = labels
  BY DEF CloseElse, Write, Merged
<1>2. PICK kind : kind = "else"
  OBVIOUS
<1>3. f \in Frames /\ f.kind = "else" /\ f.label \in Nat /\ n \in Nat /\ terminated \in BOOLEAN
      /\ Len(scopes) = n + Pushes(f)
  BY <1>1, CloseFacts
<1>4. /\ Pushes(f) = 2 /\ Owed(f) = {l3} /\ Due(f) = (IF f.ends THEN {} ELSE {l3}) /\ l3 \in Nat
      /\ f.ends \in BOOLEAN
  BY <1>3 DEF Pushes, Owed, Due, Frames
<1>5. n = Len(scopes) - 2 /\ scopes' = SubSeq(scopes, 1, n) /\ Len(scopes) = n + 2
  BY <1>1, <1>3, <1>4
<1>6. RegsTo(scopes, n) \in SUBSET Registers
  BY <1>1, Outer
<1>7. regs \in Nat /\ Scoped(scopes, regs) /\ regs <= MaxRegs
  BY Basics
<1>8. kind # "fn" /\ CloseFrame(kind) /\ open' = Front(open) /\ labels' = labels
      /\ loops' = (IF kind \in LoopKinds THEN Front(loops) ELSE loops)
  BY <1>1, <1>2 DEF LoopKinds
<1>9. scopes' = SubSeq(scopes, 1, n) /\ f = Top(open) /\ n = Len(scopes) - Pushes(f)
  BY <1>5
<1>10. CASE f.ends /\ terminated
  <2>1. PICK ends : ends = TRUE
    OBVIOUS
  <2>2. c = out
    <3>1. out \in Seq(Code)
      <4>1. PICK rng, e, G, base, P, T : Closing(rng, e, G, base, P, T)
        BY <1>1, CloseStart
      <4> QED
        BY <4>1 DEF Closing, Emitted, Listing
    <3>2. c = out \o (<<>> \o <<>> \o <<>>)
      BY <1>10 DEF PopReleases
    <3>3. <<>> \o <<>> \o <<>> = <<>>
      OBVIOUS
    <3> HIDE DEF c
    <3>4. out \o <<>> = out
      BY <3>1, Join
    <3> QED
      BY <3>2, <3>3, <3>4
  <2> HIDE DEF c
  <2>3. out' = c /\ terminated' = ends
    BY <1>1, <1>10, <2>1
  <2>4. {} \subseteq Owed(f) /\ Due(f) \subseteq {} /\ {} \subseteq {} \cup Cond(f)
    BY <1>4, <1>10
  <2> HIDE DEF f, n, l3
  <2>5. Closes(f, n, c, ends, {}, {})
    BY <1>3, <1>10, <2>1, <2>2, ElseEnds
  <2> QED
    BY <1>8, <1>9, <2>3, <2>4, <2>5, CloseStmt
<1>11. CASE ~(f.ends /\ terminated)
  <2>1. PICK ends : ends = FALSE
    OBVIOUS
  <2>2. c = out \o (PopReleases(scopes, terminated) \o BackEdge(terminated, l3) \o <<Label(l3)>>)
    BY <1>11 DEF BackEdge
  <2> HIDE DEF c
  <2>3. out' = c /\ terminated' = ends
    BY <1>1, <1>11, <2>1
  <2> HIDE DEF l3
  <2>4. {l3} \subseteq Owed(f) /\ Due(f) \subseteq {l3} /\ {l3} \subseteq {l3} \cup Cond(f)
    BY <1>4
  <2> HIDE DEF f, n
  <2>5. Closes(f, n, c, ends, {l3}, {l3})
    BY <1>3, <1>4, <1>5, <1>6, <1>7, <2>1, <2>2, ElseMerges
  <2> QED
    BY <1>8, <1>9, <2>3, <2>4, <2>5, CloseStmt
<1> QED
  BY <1>10, <1>11

(* The end of a consequence that is followed by an alternative.                         *)
LEMMA ElseOpened ==
    ASSUME NEW rng, NEW e, NEW G, NEW c, NEW ends, NEW P, NEW T, NEW r, NEW sc, NEW B,
           Ended(rng, e, G, c, ends, P, T, r, sc, B), NEW l, Owes(G, B, P, l),
           NEW j \in Nat, G[j] = B, NEW T2, T2 = IF ends THEN T ELSE T \cup {j}
    PROVE  Emitted(rng, e, G, c \o (PopReleases(sc, ends) \o BackEdge(ends, j) \o <<Label(l)>>),
                   FALSE, P \cup {l}, T2, B)
<1>1. /\ rng \in BOOLEAN /\ e \in BOOLEAN /\ ends \in BOOLEAN
      /\ B \in SUBSET Registers /\ l \in Nat /\ l \notin P /\ G[l] = B
      /\ Emitted(rng, e, G, c, ends, P, T, RegsTo(sc, Len(sc)))
  BY DEF Ended, Owes
<1>2. CASE ends = FALSE
  <2>1. Emitted(rng, e, G, c \o (PopReleases(sc, ends) \o BackEdge(ends, j) \o <<Label(l)>>),
                FALSE, P \cup {l}, T \cup {j}, B)
    BY RuleClose DEF Ended, Owes
  <2> QED
    BY <1>2, <2>1
<1>3. CASE ends = TRUE
  <2>1. PICK A : A = RegsTo(sc, Len(sc))
    OBVIOUS
  <2>2. Emitted(rng, e, G, c, TRUE, P, T, A)
    BY <1>1, <1>3, <2>1
  <2>3. Emitted(rng, e, G, c \o <<Label(l)>>, FALSE, P \cup {l}, T, G[l])
    BY <1>1, <2>2, RuleLabel
  <2>4. PopReleases(sc, ends) = <<>> /\ BackEdge(ends, j) = <<>>
    BY <1>3 DEF PopReleases, BackEdge
  <2>5. <<>> \o <<>> \o <<Label(l)>> = <<Label(l)>>
    <3>1. <<>> \o <<>> = <<>>
      OBVIOUS
    <3>2. <<Label(l)>> \in Seq(Code) /\ <<>> \in Seq(Code)
      BY <1>1, CodeTypes
    <3>3. <<>> \o <<Label(l)>> = <<Label(l)>>
      BY <3>2, Join
    <3> QED
      BY <3>1, <3>3
  <2>6. T2 = T
    BY <1>3
  <2> QED
    BY <1>1, <2>3, <2>4, <2>5, <2>6
<1> QED
  BY <1>1, <1>2, <1>3

(* Two elements are appended.                                                 *)
LEMMA AppendTwo ==
    ASSUME NEW S, NEW a \in Seq(S), NEW x \in S, NEW y \in S
    PROVE  Append(Append(a, x), y) = a \o <<x, y>>
OBVIOUS

(* Two empty scopes in place of those above the n-th.                                    *)
Reopened(sc2, sc, n, r) ==
    /\ Scoped(sc2, r) /\ Len(sc2) = n + 2 /\ Agree(sc2, sc, 1..n)
    /\ sc2[n + 1] = {} /\ RegsTo(sc2, Len(sc2)) = RegsTo(sc, n)

(* The scope of the consequence is popped, and two are pushed for the         *)
(* alternative.                                                               *)
LEMMA ScopedElse ==
    ASSUME NEW r \in Nat, NEW sc, Scoped(sc, r), NEW n \in 1..Len(sc),
           NEW sc2, sc2 = SubSeq(sc, 1, n) \o <<{}, {}>>
    PROVE  Reopened(sc2, sc, n, r)
<1>1. PICK a, b : a = SubSeq(sc, 1, n) /\ b = Append(a, {})
  OBVIOUS
<1>2. /\ Scoped(a, r) /\ Len(a) = n /\ RegsTo(a, n) = RegsTo(sc, n)
      /\ \A i \in 1..n : a[i] = sc[i]
  BY <1>1, ScopedClose
<1>3. /\ Scoped(b, r) /\ Len(b) = n + 1 /\ b[n + 1] = {} /\ RegsTo(b, n + 1) = RegsTo(a, n)
      /\ \A i \in 1..n : b[i] = a[i]
  BY <1>1, <1>2, ScopedOpen
<1>4. Append(b, {}) = sc2
  <2>1. a \in Seq(SUBSET (Vars \X (1..r)))
    BY <1>2 DEF Scoped, Scopes
  <2>2. {} \in SUBSET (Vars \X (1..r))
    OBVIOUS
  <2> QED
    BY <1>1, <2>1, <2>2, AppendTwo
<1>5. /\ Scoped(sc2, r) /\ Len(sc2) = n + 2 /\ RegsTo(sc2, n + 2) = RegsTo(b, n + 1)
      /\ \A i \in 1..(n + 1) : sc2[i] = b[i]
  <2>1. /\ Scoped(Append(b, {}), r) /\ Len(Append(b, {})) = Len(b) + 1
        /\ \A i \in 1..Len(b) : Append(b, {})[i] = b[i]
        /\ RegsTo(Append(b, {}), Len(b) + 1) = RegsTo(b, Len(b))
    BY <1>3, ScopedOpen
  <2>2. Len(b) + 1 = n + 2
    BY <1>3
  <2> QED
    BY <1>3, <1>4, <2>1, <2>2
<1>6. Agree(sc2, sc, 1..n) /\ sc2[n + 1] = {}
  BY <1>2, <1>3, <1>5 DEF Agree
<1> QED
  BY <1>2, <1>3, <1>5, <1>6 DEF Reopened

(* The start of an alternative keeps the invariant.                           *)
LEMMA OpenElseKeeps == ASSUME IInv, OpenElse PROVE IInv'
<1> DEFINE f == Top(open)
           l == f.label
           l2 == l + 2
           l3 == l + 3
           n == Len(scopes) - Pushes(f)
           g == Frame("else", l, terminated)
           c == out \o (PopReleases(scopes, terminated) \o BackEdge(terminated, l3) \o <<Label(l2)>>)
<1>1. /\ CloseFrame("then") /\ out' = c /\ terminated' = FALSE /\ open' = Append(Front(open), g)
      /\ scopes' = Front(scopes) \o <<{}, {}>> /\ loops' = loops /\ labels' = labels
  BY DEF OpenElse, Write, ThenEnd, BackEdge
<1>2. /\ f \in Frames /\ f.kind = "then" /\ l \in Nat /\ n \in Nat /\ terminated \in BOOLEAN
      /\ open # <<>> /\ f = open[Len(open)] /\ n > 1 /\ Len(scopes) = n + Pushes(f)
  BY <1>1, CloseFacts
<1>3. /\ Pushes(f) = 1 /\ Owed(f) = {l2, l3} /\ l2 \in Nat /\ l3 \in Nat
  BY <1>2 DEF Pushes, Owed
<1>4. /\ g \in Frames /\ g.kind = "else" /\ g.label = l
      /\ Due(g) = IF terminated THEN {} ELSE {l3}
  <2>1. g \in Frames
    BY <1>2 DEF Frame, Frames
  <2>2. g.kind = "else" /\ g.label = l /\ g.ends = terminated
    BY DEF Frame
  <2> HIDE DEF g
  <2> QED
    BY <2>1, <2>2 DEF Due, Owed
<1>5. n \in 1..Len(scopes) /\ n = Len(scopes) - 1 /\ scopes' = SubSeq(scopes, 1, n) \o <<{}, {}>>
  BY <1>1, <1>2, <1>3 DEF Front
<1>6. RegsTo(scopes, n) \in SUBSET Registers
  BY <1>1, Outer
<1>7. regs \in Nat /\ Scoped(scopes, regs) /\ regs <= MaxRegs /\ labels \in Nat /\ Len(scopes) \in Nat
  BY Basics
<1>8. PICK rng, e, G, base, P, T : Closing(rng, e, G, base, P, T)
  BY <1>1, CloseStart
<1>9. PICK m : m = Len(open)
  OBVIOUS
<1>10. /\ base[m] \in Nat /\ Len(scopes) = base[m] + Pushes(open[m])
       /\ Kept(open[m], base[m], scopes, rng, G, P)
  BY <1>2, <1>8, <1>9, ClosingTop
<1>11. base[m] = n /\ Kept(f, n, scopes, rng, G, P) /\ open[m].kind = "then" /\ g.label = open[m].label
  BY <1>2, <1>3, <1>4, <1>9, <1>10
<1>12. PICK B : B = RegsTo(scopes, n)
  OBVIOUS
<1> HIDE DEF l2, l3
<1>13. Owes(G, B, P, l2) /\ G[l3] = B
  BY <1>3, <1>11, <1>12 DEF Owes, Kept
<1>14. Ended(rng, e, G, out, terminated, P, T, regs, scopes, B)
  BY <1>2, <1>5, <1>6, <1>7, <1>8, <1>12 DEF Ended, Closing
<1>15. PICK T2 : T2 = IF terminated THEN T ELSE T \cup {l3}
  OBVIOUS
<1>16. PICK sc, b, r : sc = scopes /\ b = terminated /\ r = regs
  OBVIOUS
<1>17. Emitted(rng, e, G, c, FALSE, P \cup {l2}, T2, B)
  <2>1. Ended(rng, e, G, out, b, P, T, r, sc, B) /\ T2 = IF b THEN T ELSE T \cup {l3}
    BY <1>14, <1>15, <1>16
  <2>2. Emitted(rng, e, G, out \o (PopReleases(sc, b) \o BackEdge(b, l3) \o <<Label(l2)>>),
                FALSE, P \cup {l2}, T2, B)
    BY <1>3, <1>13, <2>1, ElseOpened
  <2> QED
    BY <1>16, <2>2
<1> HIDE DEF c, f, n
<1>18. /\ Scoped(scopes', regs) /\ Len(scopes') = n + 2 /\ Agree(scopes', scopes, 1..n)
       /\ scopes'[n + 1] = {} /\ RegsTo(scopes', Len(scopes')) = RegsTo(scopes, n)
  <2>1. Reopened(scopes', scopes, n, regs)
    BY <1>5, <1>7, ScopedElse
  <2> QED
    BY <2>1 DEF Reopened
<1>19. Nested(Append(Front(open), g), scopes', loops, labels, rng, G, Append(Front(base), base[m]),
              P \cup {l2}, T2)
  <2>1. ASSUME NEW sc2, Len(sc2) = base[m] + 2, Agree(sc2, scopes, 1..base[m]), sc2[base[m] + 1] = {},
               NEW P2, P2 = P \cup {g.label + 2}
        PROVE  Nested(Append(Front(open), g), sc2, loops, labels, rng, G, Append(Front(base), base[m]),
                      P2, T2)
    <3>1. Nested(open, scopes, loops, labels, rng, G, base, P, T)
      BY <1>8 DEF Closing
    <3>2. T2 \subseteq T \cup Due(g)
      BY <1>4, <1>15
    <3> HIDE DEF g
    <3> QED
      BY <1>2, <1>4, <1>7, <1>9, <1>11, <2>1, <3>1, <3>2, NestedElse
  <2>2. g.label + 2 = l2
    BY <1>4 DEF l2
  <2> QED
    BY <1>11, <1>18, <2>1, <2>2
<1> HIDE DEF g
<1>20. Placed(rng, e, out', terminated', scopes', open', loops', labels')
  <2>1. Emitted(rng, e, G, c, FALSE, P \cup {l2}, T2, RegsTo(scopes', Len(scopes')))
    BY <1>12, <1>17, <1>18
  <2>2. Placed(rng, e, c, FALSE, scopes', Append(Front(open), g), loops, labels)
    BY <1>19, <2>1 DEF Placed
  <2> QED
    BY <1>1, <2>2
<1>21. Placed(Ranged', Exact', out', terminated', scopes', open', loops', labels')
  BY <1>8, <1>20 DEF Closing
<1>22. open' # <<>>
  <2>1. Front(open) \in Seq(Frames)
    <3>1. open \in Seq(Frames)
      BY <1>8 DEF Closing, Nested, Chain
    <3> QED
      BY <1>2, <3>1, FrontOf, Zenon
  <2> QED
    BY <1>1, <2>1
<1>23. Counters' /\ Scoped(scopes', regs')
  BY <1>1, <1>18 DEF CloseFrame, IInv, Counters, Recorded
<1> QED
  BY <1>21, <1>22, <1>23 DEF IInv, Emitting

(* The end of the body: the parameters' scope goes, and the function exits.               *)
FnEnd(sc, ends) == PopReleases(sc, ends) \o (IF ends THEN <<>> ELSE Exit(Front(sc), 0))

(* What the end of a function finds.                                          *)
FnFound(rng, e, G, c, ends, P, T, r, sc) ==
    /\ rng \in BOOLEAN /\ e \in BOOLEAN /\ ends \in BOOLEAN
    /\ r \in Nat /\ Scoped(sc, r) /\ r <= MaxRegs /\ Len(sc) > 1
    /\ (e => escaped = {}) /\ Recorded
    /\ Emitted(rng, e, G, c, ends, P, T, RegsTo(sc, Len(sc)))

(* The end of a function: its last block returns.                             *)
LEMMA FnEnded ==
    ASSUME NEW rng, NEW e, NEW G, NEW c, NEW ends, NEW P, NEW T, NEW r, NEW sc, NEW A,
           FnFound(rng, e, G, c, ends, P, T, r, sc)
    PROVE  Emitted(rng, e, G, c \o FnEnd(sc, ends), TRUE, P, T, A)
<1> DEFINE p == PopReleases(sc, ends)
<1>0. /\ rng \in BOOLEAN /\ e \in BOOLEAN /\ ends \in BOOLEAN
      /\ r \in Nat /\ Scoped(sc, r) /\ r <= MaxRegs /\ Len(sc) > 1
      /\ (e => escaped = {}) /\ Recorded
      /\ Emitted(rng, e, G, c, ends, P, T, RegsTo(sc, Len(sc)))
  BY DEF FnFound
<1>1. PICK B : B = RegsTo(sc, Len(sc) - 1)
  OBVIOUS
<1>2. Emitted(rng, e, G, c \o p, ends, P, T, B)
  BY <1>0, <1>1, RulePop
<1>3. p \in Seq(Code) /\ c \in Seq(Code)
  <2>1. p \in Seq(Code)
    BY <1>0, PopCode
  <2> QED
    BY <1>0, <2>1 DEF Emitted, Listing
<1>4. PICK fs, n : fs = Front(sc) /\ n = Len(sc) - 1
  OBVIOUS
<1>5. Scoped(fs, r) /\ RegsTo(fs, Len(fs)) = B
  <2>1. Len(sc) \in Nat
    BY <1>0 DEF Scoped, Scopes
  <2>2. n \in 1..Len(sc) /\ fs = SubSeq(sc, 1, n)
    BY <1>0, <1>4, <2>1 DEF Front
  <2>3. Scoped(SubSeq(sc, 1, n), r) /\ Len(SubSeq(sc, 1, n)) = n
        /\ RegsTo(SubSeq(sc, 1, n), n) = RegsTo(sc, n)
    BY <1>0, <2>2, ScopedClose
  <2> QED
    BY <1>1, <1>4, <2>2, <2>3
<1> HIDE DEF p
<1>6. CASE ends = FALSE
  <2>1. PICK q : q = c \o p
    OBVIOUS
  <2>2. Emitted(rng, e, G, q, FALSE, P, T, RegsTo(fs, Len(fs)))
    BY <1>2, <1>5, <1>6, <2>1
  <2>3. Emitted(rng, e, G, q \o Exit(fs, 0), TRUE, P, T, A)
    BY <1>0, <1>5, <2>2, RuleExit
  <2>4. Exit(fs, 0) \in Seq(Code)
    BY <1>0, <1>5, ExitCode
  <2>5. c \o (p \o Exit(fs, 0)) = q \o Exit(fs, 0)
    BY <1>3, <2>1, <2>4, Assoc
  <2>6. FnEnd(sc, ends) = p \o Exit(fs, 0)
    BY <1>4, <1>6 DEF FnEnd, p
  <2> QED
    BY <2>3, <2>5, <2>6
<1>7. CASE ends = TRUE
  <2>1. Emitted(rng, e, G, c \o p, TRUE, P, T, B)
    BY <1>2, <1>7
  <2>2. Emitted(rng, e, G, c \o p, TRUE, P, T, A)
    BY <1>0, <2>1, RuleWeaken
  <2>3. FnEnd(sc, ends) = p \o <<>>
    BY <1>7 DEF FnEnd, p
  <2>4. p \o <<>> = p
    BY <1>3, Join
  <2> QED
    BY <2>2, <2>3, <2>4
<1> QED
  BY <1>0, <1>6, <1>7

(* A finished function has nothing open, whatever its scopes were.            *)
LEMMA NestedNone ==
    ASSUME NEW sc, NEW sc2, NEW lp, NEW lb, NEW rng, NEW G, NEW base, NEW P, NEW T,
           Nested(<<>>, sc, lp, lb, rng, G, base, P, T)
    PROVE  Nested(<<>>, sc2, lp, lb, rng, G, base, P, T)
<1>1. Chain(<<>>, base, lb, Len(sc2))
  BY DEF Nested, Chain
<1>2. Promised(<<>>, base, sc2, rng, G, P)
  BY DEF Promised
<1> QED
  BY <1>1, <1>2 DEF Nested

(* The end of a function keeps the invariant.                                 *)
LEMMA CloseFnKeeps == ASSUME IInv, CloseFn PROVE IInv'
<1> DEFINE c == out \o FnEnd(scopes, terminated)
<1>1. /\ CloseFrame("fn") /\ out' = c /\ terminated' = TRUE /\ open' = Front(open)
      /\ scopes' = Front(scopes) /\ loops' = loops /\ labels' = labels
  BY DEF CloseFn, Write, FnEnd
<1>2. PICK f, n : f = Top(open) /\ n = Len(scopes) - Pushes(f)
  OBVIOUS
<1>3. /\ f \in Frames /\ f.kind = "fn" /\ n \in Nat /\ terminated \in BOOLEAN
      /\ open # <<>> /\ f = open[Len(open)] /\ Len(scopes) = n + Pushes(f)
  BY <1>1, <1>2, CloseFacts
<1>4. Len(scopes) > 1
  BY <1>3 DEF Pushes
<1>5. regs \in Nat /\ Scoped(scopes, regs) /\ regs <= MaxRegs /\ labels \in Nat /\ Len(scopes) \in Nat
  BY Basics
<1>6. PICK rng, e, G, base, P, T : Closing(rng, e, G, base, P, T)
  BY <1>1, CloseStart
<1>7. PICK m : m = Len(open)
  OBVIOUS
<1>8. base[m] \in Nat /\ Len(scopes) = base[m] + Pushes(open[m])
  BY <1>3, <1>6, <1>7, ClosingTop
<1>9. PICK A : A = RegsTo(scopes', Len(scopes'))
  OBVIOUS
<1>10. Emitted(rng, e, G, c, TRUE, P, T, A)
  <2>1. /\ rng \in BOOLEAN /\ e \in BOOLEAN /\ (e => escaped = {}) /\ Recorded
        /\ Emitted(rng, e, G, out, terminated, P, T, RegsTo(scopes, Len(scopes)))
    BY <1>6 DEF Closing, IInv, Counters
  <2>2. PICK sc, b, r : sc = scopes /\ b = terminated /\ r = regs
    OBVIOUS
  <2>3. FnFound(rng, e, G, out, b, P, T, r, sc)
    BY <1>3, <1>4, <1>5, <2>1, <2>2 DEF FnFound
  <2>4. Emitted(rng, e, G, out \o FnEnd(sc, b), TRUE, P, T, A)
    BY <2>3, FnEnded
  <2> QED
    BY <2>2, <2>4
<1> HIDE DEF c
<1>11. PICK sc2 : sc2 = SubSeq(scopes, 1, base[m])
  OBVIOUS
<1>12. /\ Nested(Front(open), sc2, loops, labels, rng, G, Front(base), P, T)
       /\ open[m].kind = "fn" <=> Front(open) = <<>>
  <2>1. Len(sc2) = base[m] /\ Agree(sc2, scopes, 1..base[m])
    <3>1. base[m] <= Len(scopes)
      BY <1>3, <1>7, <1>8 DEF Pushes
    <3>2. scopes \in Seq(SUBSET (Vars \X (1..regs)))
      BY <1>5 DEF Scoped, Scopes
    <3> QED
      BY <1>5, <1>8, <1>11, <3>1, <3>2 DEF Agree
  <2>2. open[m].kind = "fn" /\ Due(open[m]) = {}
    BY <1>3, <1>7 DEF Due, Owed
  <2>3. loops = IF open[m].kind \in LoopKinds THEN Front(loops) ELSE loops
    BY <2>2 DEF LoopKinds
  <2>4. P \subseteq P \cup Labels(open[m]) /\ T \subseteq T \cup P /\ Due(open[m]) \subseteq P /\ P \subseteq P
    BY <2>2
  <2>5. ASSUME NEW lp2, lp2 = loops PROVE lp2 = IF open[m].kind \in LoopKinds THEN Front(loops) ELSE loops
    BY <2>3, <2>5
  <2>6. Nested(Front(open), sc2, loops, labels, rng, G, Front(base), P, T)
    BY <1>3, <1>6, <1>7, <2>1, <2>3, <2>4, ClosingPop
  <2>7. open[m].kind = "fn" <=> Front(open) = <<>>
    BY <1>5, <1>6, <1>3, <1>7, ChainPop DEF Closing, Nested
  <2> QED
    BY <2>6, <2>7
<1>13. Front(open) = <<>>
  BY <1>3, <1>7, <1>12
<1>14. Nested(<<>>, scopes', loops, labels, rng, G, Front(base), P, T)
  BY <1>12, <1>13, NestedNone
<1>15. Placed(rng, e, out', terminated', scopes', open', loops', labels')
  <2>1. Emitted(rng, e, G, c, TRUE, P, T, RegsTo(scopes', Len(scopes')))
    BY <1>9, <1>10
  <2>2. Placed(rng, e, c, TRUE, scopes', <<>>, loops, labels)
    BY <1>14, <2>1 DEF Placed
  <2> QED
    BY <1>1, <1>13, <2>2
<1>16. Placed(Ranged', Exact', out', terminated', scopes', open', loops', labels')
  BY <1>6, <1>15 DEF Closing
<1>17. Scoped(scopes', regs)
  <2>1. PICK k : k = Len(scopes) - 1
    OBVIOUS
  <2>2. k \in 1..Len(scopes) /\ scopes' = SubSeq(scopes, 1, k)
    BY <1>1, <1>4, <1>5, <2>1 DEF Front
  <2>3. Scoped(SubSeq(scopes, 1, k), regs)
    BY <1>5, <2>2, ScopedClose
  <2> QED
    BY <2>2, <2>3
<1>18. Counters' /\ Scoped(scopes', regs')
  BY <1>1, <1>17 DEF CloseFrame, IInv, Counters, Recorded
<1> QED
  BY <1>1, <1>16, <1>18 DEF IInv, Emitting

(* A step that leaves the emitter's state alone keeps the invariant.          *)
LEMMA RunKeeps == ASSUME IInv, UNCHANGED emitVars PROVE IInv'
BY DEF IInv, Counters, Recorded, Placed, Ranged, Exact, Emitting, emitVars

-----------------------------------------------------------------------------
(* The invariant holds.                                                       *)

(* The first block, entered with the parameters.                               *)
LEMMA FirstBlock ==
    ASSUME NEW rng \in BOOLEAN, NEW e \in BOOLEAN, NEW G, G[0] = ParamRegs
    PROVE  Emitted(rng, e, G, <<Label(0)>>, FALSE, {0}, {}, ParamRegs)
<1> DEFINE c == <<Label(0)>>
           w == <<ParamRegs>>
<1>1. Len(Params) \in Nat /\ MaxStmts \in Nat
  BY EmitAssumption
<1>2. ParamRegs \in SUBSET Registers
  BY <1>1 DEF ParamRegs, Registers, MaxRegs
<1>3. Label(0) \in Code /\ Label(0).op = "label" /\ Label(0).to = {0}
  BY CodeTypes, Ops
<1>4. c \in Listing /\ Len(c) = 1 /\ c[1] = Label(0)
  BY <1>3 DEF Listing
<1>5. w \in Seq(SUBSET Registers) /\ Len(w) = 1 /\ w[1] = ParamRegs
  BY <1>2
<1>6. ~EndsBlock(Label(0))
  BY <1>3, Ending
<1> HIDE DEF c, w
<1>7. Shape(rng, c, FALSE)
  BY <1>4, <1>6 DEF Shape
<1>8. Land(c, {0}, {})
  BY <1>3, <1>4 DEF Land
<1>9. Checked(e, G, w[1], c[1])
  BY <1>3, <1>4, <1>5 DEF Checked
<1>10. Owns(e, G, w, c)
  BY <1>4, <1>5, <1>9 DEF Owns
<1>11. Leaves(e, w[1], c[1], ParamRegs)
  BY <1>3, <1>4, <1>5 DEF Leaves, After, Fits
<1>12. Own(e, G, c, ParamRegs)
  BY <1>4, <1>10, <1>11 DEF Own
<1>13. Emitted(rng, e, G, c, FALSE, {0}, {}, ParamRegs)
  BY <1>4, <1>7, <1>8, <1>12 DEF Emitted
<1> QED
  BY <1>13 DEF c

(* The scopes of a body: the parameters', and an empty one.                     *)
LEMMA FirstScopes ==
    ASSUME NEW r, r = Len(Params),
           NEW sc, sc = <<{<<Params[i], i>> : i \in 1..Len(Params)}, {}>>
    PROVE  Scoped(sc, r) /\ Len(sc) = 2 /\ RegsTo(sc, 2) = ParamRegs
<1>1. r \in Nat /\ \A i \in 1..r : Params[i] \in Vars
  BY EmitAssumption
<1>2. PICK s : s = {<<Params[i], i>> : i \in 1..Len(Params)}
  OBVIOUS
<1>3. s \in SUBSET (Vars \X (1..r))
  BY <1>1, <1>2
<1>4. sc = <<s, {}>>
  BY <1>2
<1>5. sc \in Seq(SUBSET (Vars \X (1..r))) /\ Len(sc) = 2 /\ sc[1] = s /\ sc[2] = {}
  BY <1>3, <1>4
<1>6. RegsOf(s) = ParamRegs
  <2>1. ASSUME NEW d \in s PROVE d[2] \in 1..r
    BY <1>2, <2>1
  <2>2. ASSUME NEW i \in 1..r PROVE \E d \in s : d[2] = i
    <3>1. <<Params[i], i>> \in s /\ <<Params[i], i>>[2] = i
      BY <1>2
    <3> QED
      BY <3>1
  <2> QED
    BY <2>1, <2>2 DEF RegsOf, ParamRegs
<1>7. RegsOf({}) = {}
  BY DEF RegsOf
<1>8. Scoped(sc, r)
  <2>1. sc # <<>>
    BY <1>5
  <2>2. \A i, j \in 1..Len(sc) : i # j => RegsOf(sc[i]) \cap RegsOf(sc[j]) = {}
    <3> SUFFICES ASSUME NEW i \in 1..2, NEW j \in 1..2, i # j
                 PROVE  RegsOf(sc[i]) \cap RegsOf(sc[j]) = {}
      BY <1>5
    <3>1. i = 2 \/ j = 2
      OBVIOUS
    <3>2. RegsOf(sc[2]) = {}
      BY <1>5, <1>7
    <3> QED
      BY <3>1, <3>2
  <2>3. Unique(sc)
    <3>1. ASSUME NEW d \in s, NEW f \in s, d[2] = f[2] PROVE d = f
      <4>1. PICK i \in 1..Len(Params), j \in 1..Len(Params) : d = <<Params[i], i>> /\ f = <<Params[j], j>>
        BY <1>2
      <4>2. d[2] = i /\ f[2] = j
        BY <4>1
      <4> QED
        BY <3>1, <4>1, <4>2
    <3>2. \A i \in 1..Len(sc) : i = 1 \/ i = 2
      BY <1>5
    <3> QED
      BY <1>5, <3>1, <3>2 DEF Unique
  <2> QED
    BY <1>5, <1>6, <2>1, <2>2, <2>3 DEF Scoped, Scopes
<1>9. RegsTo(sc, 2) = ParamRegs
  <2>1. 1..2 = {1, 2}
    OBVIOUS
  <2>2. {RegsOf(sc[i]) : i \in {1, 2}} = {ParamRegs, {}}
    BY <1>5, <1>6, <1>7
  <2> QED
    BY <2>1, <2>2 DEF RegsTo
<1> QED
  BY <1>5, <1>8, <1>9

(* The frame of the function itself.                                          *)
LEMMA FirstFrame ==
    ASSUME NEW rng, NEW G, NEW sc, Len(sc) = 2
    PROVE  Nested(<<Frame("fn", 0, FALSE)>>, sc, <<>>, 0, rng, G, <<0>>, {0}, {})
<1> DEFINE f == Frame("fn", 0, FALSE)
           op == <<f>>
           base == <<0>>
<1>1. f \in Frames /\ f.kind = "fn" /\ f.label = 0
  BY DEF Frame, Frames
<1> HIDE DEF f
<1>2. Width(f) = 0 /\ Pushes(f) = 2 /\ Owed(f) = {} /\ Cond(f) = {}
  BY <1>1 DEF Width, Pushes, Owed, Cond, LoopKinds
<1>3. op \in Seq(Frames) /\ Len(op) = 1 /\ op[1] = f
  BY <1>1
<1>4. base \in Seq(Nat) /\ Len(base) = 1 /\ base[1] = 0
  OBVIOUS
<1> HIDE DEF op, base
<1>5. Chain(op, base, 0, Len(sc))
  BY <1>1, <1>2, <1>3, <1>4 DEF Chain
<1>6. Promised(op, base, sc, rng, G, {0})
  <2>1. Kept(f, 0, sc, rng, G, {0})
    BY <1>1, <1>2 DEF Kept
  <2> QED
    BY <1>3, <1>4, <2>1 DEF Promised
<1>7. Routed(op, {0}, {})
  BY DEF Routed
<1>8. Looped(op, <<>>)
  BY DEF Looped
<1>9. Nested(op, sc, <<>>, 0, rng, G, base, {0}, {})
  BY <1>5, <1>6, <1>7, <1>8 DEF Nested
<1> QED
  BY <1>9 DEF op, base, f

(* The invariant holds at the start.                                          *)
LEMMA InitHolds == Init => IInv
<1> SUFFICES ASSUME Init PROVE IInv
  OBVIOUS
<1>1. PICK G : G = [l \in Nat |-> ParamRegs]
  OBVIOUS
<1>2. PICK rng, e : rng = Ranged /\ e = Exact
  OBVIOUS
<1>3. rng \in BOOLEAN /\ e \in BOOLEAN /\ G[0] = ParamRegs
  BY <1>1, <1>2 DEF Ranged, Exact
<1>4. Scoped(scopes, regs) /\ Len(scopes) = 2 /\ RegsTo(scopes, 2) = ParamRegs
  BY FirstScopes DEF Init
<1>5. Emitted(rng, e, G, <<Label(0)>>, FALSE, {0}, {}, RegsTo(scopes, Len(scopes)))
  BY <1>3, <1>4, FirstBlock
<1>6. Nested(<<Frame("fn", 0, FALSE)>>, scopes, <<>>, 0, rng, G, <<0>>, {0}, {})
  BY <1>4, FirstFrame
<1>7. Placed(rng, e, <<Label(0)>>, FALSE, scopes, <<Frame("fn", 0, FALSE)>>, <<>>, 0)
  BY <1>5, <1>6 DEF Placed
<1>8. Placed(Ranged, Exact, out, terminated, scopes, open, loops, labels)
  BY <1>2, <1>7 DEF Init
<1>9. Counters
  <2>1. src \in Seq(Kinds) /\ Len(src) = 0 /\ deferred \in Seq([name : Vars, id : Nat \ {0}])
    BY DEF Init
  <2>2. MaxStmts \in Nat /\ Len(Params) \in Nat
    BY EmitAssumption
  <2> QED
    BY <2>1, <2>2 DEF Init, Counters, Recorded
<1>10. Emitting
  BY DEF Init, Emitting
<1> QED
  BY <1>4, <1>8, <1>9, <1>10 DEF IInv

(* Every statement keeps the invariant.                                       *)
LEMMA StatementKeeps == ASSUME IInv, Statement PROVE IInv'
<1>1. ASSUME NEW x \in Vars, VarNew(x) \/ AssignNew(x) \/ ExprStmt(x) \/ ReturnVar(x)
                               \/ ReturnMany(x) \/ TryVar(x) \/ DeferStmt(x)
      PROVE  IInv'
  BY <1>1, VarNewKeeps, AssignNewKeeps, ExprStmtKeeps, ReturnVarKeeps, ReturnManyKeeps,
     TryVarKeeps, DeferStmtKeeps
<1>2. ASSUME NEW x \in Vars, NEW y \in Vars, VarCopy(x, y) \/ AssignCopy(x, y) PROVE IInv'
  BY <1>2, VarCopyKeeps, AssignCopyKeeps
<1>3. ASSUME PanicCall \/ ReturnVoid \/ ReturnNew \/ BreakStmt \/ ContinueStmt PROVE IInv'
  BY <1>3, PanicCallKeeps, ReturnVoidKeeps, ReturnNewKeeps, BreakKeeps
<1>4. ASSUME IfStmt \/ WhileStmt \/ ForStmt("for") \/ ForStmt("range") \/ BlockStmt PROVE IInv'
  BY <1>4, IfStmtKeeps, LoopStmtKeeps, BlockStmtKeeps
<1> QED
  BY <1>1, <1>2, <1>3, <1>4 DEF Statement

(* The end of every construct keeps the invariant.                            *)
LEMMA CloseKeeps == ASSUME IInv, Close PROVE IInv'
BY CloseIfKeeps, OpenElseKeeps, CloseElseKeeps, CloseWhileKeeps, CloseForKeeps,
   CloseRangeKeeps, CloseBlockKeeps, CloseFnKeeps DEF Close

(* The run writes no code.                                                    *)
LEMMA RunIsApart == ASSUME Run PROVE UNCHANGED emitVars
BY DEF Run, RunBranch, RunLabel, RunNew, RunStore, RunRetain, RunRelease, RunUse, RunDefer, Step

(* Every step keeps the invariant.                                            *)
LEMMA NextKeeps == IInv /\ [Next]_vars => IInv'
<1> SUFFICES ASSUME IInv, [Next]_vars PROVE IInv'
  OBVIOUS
<1>1. CASE Statement
  BY <1>1, StatementKeeps
<1>2. CASE Close
  BY <1>2, CloseKeeps
<1>3. CASE Run
  BY <1>3, RunIsApart, RunKeeps
<1>4. CASE UNCHANGED vars
  BY <1>4, RunKeeps DEF vars
<1> QED
  BY <1>1, <1>2, <1>3, <1>4 DEF Next

(* The code written so far, whatever the body, satisfies the three            *)
(* judgements: its blocks are closed, its labels are placed once, and every   *)
(* path holds the references its place is entered with.                       *)
THEOREM Invariance == Spec => []IInv
BY InitHolds, NextKeeps, PTL DEF Spec

-----------------------------------------------------------------------------
(* What the invariant says of the emitted code.                               *)

(* The judgements hold of the code written so far.                            *)
LEMMA Found ==
    ASSUME IInv
    PROVE  \E G, base, P, T :
              /\ Emitted(Ranged, Exact, G, out, terminated, P, T, RegsTo(scopes, Len(scopes)))
              /\ Nested(open, scopes, loops, labels, Ranged, G, base, P, T)
BY DEF IInv, Placed

(* The flag tells what the last instruction is.                               *)
LEMMA FlagHolds == ASSUME IInv PROVE FlagTruthful
<1>1. PICK G, base, P, T : Emitted(Ranged, Exact, G, out, terminated, P, T, RegsTo(scopes, Len(scopes)))
  BY Found
<1> QED
  BY <1>1 DEF Emitted, Shape, FlagTruthful, Top

(* cg.terminated is TRUE exactly when the last instruction written ends its block,  *)
(* wherever a statement may follow.                                                *)
THEOREM FlagCorrect == Spec => []FlagTruthful
BY Invariance, FlagHolds, PTL

(* The blocks of a finished function are closed.                              *)
LEMMA BlocksHold == ASSUME IInv PROVE BlocksClosed
<1> SUFFICES ASSUME ~Emitting PROVE BlocksClosed
  BY DEF BlocksClosed
<1>1. PICK G, base, P, T : Emitted(Ranged, Exact, G, out, terminated, P, T, RegsTo(scopes, Len(scopes)))
  BY Found
<1>2. terminated
  BY DEF IInv
<1>3. EndsBlock(Top(out))
  BY <1>1, <1>2 DEF Emitted, Shape, Top
<1>4. ASSUME NEW i \in 2..Len(out)
      PROVE  \/ EndsBlock(out[i - 1]) <=> out[i].op = "label"
             \/ (RangeCleanup(i) \/ RangeCleanup(i - 1)) /\ \E k \in 1..Len(src) : src[k] = "range"
  <2>1. Joined(Ranged, out, i)
    BY <1>1 DEF Emitted, Shape
  <2> QED
    BY <2>1 DEF Joined, Cleanup, RangeCleanup, Ranged
<1> QED
  BY <1>3, <1>4 DEF BlocksClosed

(* The branches of a finished function have one place to go.                  *)
LEMMA JumpsHold == ASSUME IInv PROVE JumpsLand
<1> SUFFICES ASSUME ~Emitting, NEW i \in 1..Len(out), out[i].op = "br", NEW l \in out[i].to
             PROVE  Cardinality({j \in 1..Len(out) : out[j] = Label(l)}) = 1
  BY DEF JumpsLand
<1>1. PICK G, base, P, T :
              /\ Emitted(Ranged, Exact, G, out, terminated, P, T, RegsTo(scopes, Len(scopes)))
              /\ Nested(open, scopes, loops, labels, Ranged, G, base, P, T)
  BY Found
<1>2. Land(out, P, T)
  BY <1>1 DEF Emitted
<1>3. l \in T
  BY <1>2 DEF Land
<1>4. l \in P
  BY <1>1, <1>3 DEF Nested, Routed, Emitting
<1>5. PICK k \in 1..Len(out) :
         out[k] = Label(l) /\ \A j \in 1..Len(out) : out[j] = Label(l) => j = k
  BY <1>2, <1>4 DEF Land
<1>6. {j \in 1..Len(out) : out[j] = Label(l)} = {k}
  BY <1>5
<1> QED
  BY <1>6, FS_Singleton

(* Every finished function is well formed, whatever it is made of: each block ends   *)
(* in one terminator and each branch has exactly one label to go to.                *)
THEOREM CodeWellFormed == Spec => []WellFormed
<1>1. IInv => WellFormed
  BY BlocksHold, JumpsHold DEF WellFormed
<1> QED
  BY <1>1, Invariance, PTL

-----------------------------------------------------------------------------
(* The run: who holds references to what.                                     *)

(* A reference of register r is that of the slot r, or of the slot that the store  *)
(* about to be executed copies into r.                                             *)
Via(i, r) == IF i.op = "store" /\ i.reg = r THEN i.from ELSE r
Refs(A, i, s, o) == {r \in A : s[Via(i, r)] = o}

(* Before instruction i, entered with the registers A: each of them holds an object,  *)
(* and no object has fewer references than registers that hold it.                   *)
Accounts(e, A, i, s, n) ==
    /\ s \in [Registers -> 0..Len(n)] /\ n \in Seq(Nat)
    /\ \A r \in A : s[Via(i, r)] # 0
    /\ \A o \in 1..Len(n) : Cardinality(Refs(A, i, s, o)) <= n[o]
    /\ e => \A o \in 1..Len(n) : Cardinality(Refs(A, i, s, o)) = n[o]

(* References are counted in natural numbers.                                 *)
LEMMA RefsFinite ==
    ASSUME NEW A \in SUBSET Registers, NEW i, NEW s, NEW o
    PROVE  IsFiniteSet(A) /\ IsFiniteSet(Refs(A, i, s, o)) /\ Cardinality(Refs(A, i, s, o)) \in Nat
<1>1. MaxRegs \in Nat
  BY EmitAssumption DEF MaxRegs
<1>2. IsFiniteSet(Registers)
  BY <1>1, FS_Interval DEF Registers
<1>3. IsFiniteSet(A)
  BY <1>2, FS_Subset
<1>4. IsFiniteSet(Refs(A, i, s, o))
  <2>1. Refs(A, i, s, o) \in SUBSET A
    BY DEF Refs
  <2> QED
    BY <1>3, <2>1, FS_Subset
<1> QED
  BY <1>3, <1>4, FS_CardinalityType

(* The same references, or fewer.                                                   *)
LEMMA AccountsSame ==
    ASSUME NEW e \in BOOLEAN, NEW A \in SUBSET Registers, NEW i, NEW s, NEW n, Accounts(e, A, i, s, n),
           NEW B, B \subseteq A, e => A = B, NEW j,
           NEW s2, s2 \in [Registers -> 0..Len(n)], \A r \in B : s2[Via(j, r)] = s[Via(i, r)]
    PROVE  Accounts(e, B, j, s2, n)
<1>1. ASSUME NEW o \in 1..Len(n)
      PROVE  /\ Cardinality(Refs(B, j, s2, o)) <= n[o]
             /\ e => Cardinality(Refs(B, j, s2, o)) = n[o]
  <2>1. Refs(B, j, s2, o) \subseteq Refs(A, i, s, o) /\ (e => Refs(B, j, s2, o) = Refs(A, i, s, o))
    BY DEF Refs
  <2>2. IsFiniteSet(Refs(A, i, s, o)) /\ Cardinality(Refs(A, i, s, o)) \in Nat
        /\ Cardinality(Refs(B, j, s2, o)) \in Nat
    <3>1. B \in SUBSET Registers
      OBVIOUS
    <3> QED
      BY <3>1, RefsFinite
  <2>3. Cardinality(Refs(B, j, s2, o)) <= Cardinality(Refs(A, i, s, o))
    BY <2>1, <2>2, FS_Subset
  <2>4. n[o] \in Nat /\ Cardinality(Refs(A, i, s, o)) <= n[o] /\ (e => Cardinality(Refs(A, i, s, o)) = n[o])
    BY DEF Accounts
  <2> QED
    BY <2>1, <2>2, <2>3, <2>4
<1>2. \A r \in B : s2[Via(j, r)] # 0
  BY DEF Accounts
<1>3. n \in Seq(Nat)
  BY DEF Accounts
<1> QED
  BY <1>1, <1>2, <1>3 DEF Accounts

(* A new object, held by the register it is allocated for.                            *)
LEMMA AccountsNew ==
    ASSUME NEW e \in BOOLEAN, NEW A \in SUBSET Registers, NEW i, NEW s, NEW n, Accounts(e, A, i, s, n),
           i.op = "new", i.reg \in Registers, i.reg \notin A,
           NEW B, B \subseteq A \cup {i.reg}, e => B = A \cup {i.reg}, NEW j, j.op # "store",
           NEW n2, n2 = Append(n, 1), NEW s2, s2 = [s EXCEPT ![i.reg] = Len(n) + 1]
    PROVE  Accounts(e, B, j, s2, n2)
<1>1. /\ s \in [Registers -> 0..Len(n)] /\ n \in Seq(Nat) /\ Len(n) \in Nat
      /\ \A r \in A : s[r] # 0
      /\ \A o \in 1..Len(n) : Cardinality(Refs(A, i, s, o)) <= n[o] /\ n[o] \in Nat
      /\ e => \A o \in 1..Len(n) : Cardinality(Refs(A, i, s, o)) = n[o]
  BY DEF Accounts, Via
<1>2. /\ n2 \in Seq(Nat) /\ Len(n2) = Len(n) + 1 /\ n2[Len(n) + 1] = 1
      /\ \A o \in 1..Len(n) : n2[o] = n[o]
  BY <1>1
<1>3. /\ s2 \in [Registers -> 0..Len(n2)] /\ s2[i.reg] = Len(n) + 1
      /\ \A r \in Registers : r # i.reg => s2[r] = s[r]
  BY <1>1, <1>2
<1>4. B \in SUBSET Registers /\ \A r : Via(i, r) = r /\ Via(j, r) = r
  BY DEF Via
<1>5. \A r \in B : s2[Via(j, r)] # 0
  BY <1>1, <1>3, <1>4
<1>6. ASSUME NEW o \in 1..Len(n)
      PROVE  /\ Cardinality(Refs(B, j, s2, o)) <= n2[o]
             /\ e => Cardinality(Refs(B, j, s2, o)) = n2[o]
  <2>1. Refs(B, j, s2, o) \subseteq Refs(A, i, s, o) /\ (e => Refs(B, j, s2, o) = Refs(A, i, s, o))
    <3>1. Len(n) + 1 # o
      BY <1>1
    <3>2. ASSUME NEW r \in B, s2[r] = o PROVE r \in A /\ s[r] = o
      BY <1>3, <1>4, <3>1, <3>2
    <3>3. ASSUME NEW r \in A, s[r] = o, e PROVE r \in B /\ s2[r] = o
      BY <1>3, <3>1, <3>3
    <3> QED
      BY <1>4, <3>2, <3>3 DEF Refs
  <2>2. IsFiniteSet(Refs(A, i, s, o)) /\ Cardinality(Refs(A, i, s, o)) \in Nat
        /\ Cardinality(Refs(B, j, s2, o)) \in Nat
    BY <1>4, RefsFinite
  <2>3. Cardinality(Refs(B, j, s2, o)) <= Cardinality(Refs(A, i, s, o))
    BY <2>1, <2>2, FS_Subset
  <2> QED
    BY <1>1, <1>2, <2>1, <2>2, <2>3
<1>7. /\ Cardinality(Refs(B, j, s2, Len(n) + 1)) <= 1
      /\ e => Cardinality(Refs(B, j, s2, Len(n) + 1)) = 1
  <2>1. ASSUME NEW r \in B, s2[r] = Len(n) + 1 PROVE r = i.reg
    BY <1>1, <1>3, <1>4, <2>1
  <2>2. Refs(B, j, s2, Len(n) + 1) \subseteq {i.reg} /\ (e => Refs(B, j, s2, Len(n) + 1) = {i.reg})
    BY <1>3, <1>4, <2>1 DEF Refs
  <2>3. IsFiniteSet({i.reg}) /\ Cardinality({i.reg}) = 1
    BY FS_Singleton
  <2>4. Cardinality(Refs(B, j, s2, Len(n) + 1)) <= Cardinality({i.reg})
    BY <2>2, <2>3, FS_Subset
  <2> QED
    BY <2>2, <2>3, <2>4
<1>8. \A o \in 1..Len(n2) : o \in 1..Len(n) \/ o = Len(n) + 1
  BY <1>1, <1>2
<1> QED
  BY <1>2, <1>3, <1>5, <1>6, <1>7, <1>8 DEF Accounts

(* One more reference than before.                                                     *)
Counted(n2, n, o) == n2 = [n EXCEPT ![o] = @ + 1]

(* One count goes up, the others stay.                                        *)
LEMMA CountedUp ==
    ASSUME NEW n \in Seq(Nat), NEW p \in 1..Len(n), NEW n2, Counted(n2, n, p)
    PROVE  /\ n2 \in Seq(Nat) /\ Len(n2) = Len(n) /\ n2[p] = n[p] + 1
           /\ \A o \in 1..Len(n) : o # p => n2[o] = n[o]
BY DEF Counted

(* A reference is counted that no register is given.                          *)
LEMMA AccountsRetain ==
    ASSUME NEW A \in SUBSET Registers, NEW i, NEW s, NEW n, Accounts(FALSE, A, i, s, n),
           i.op = "retain", NEW B, B \subseteq A, NEW j, j.op # "store",
           NEW p \in 1..Len(n), NEW n2, Counted(n2, n, p)
    PROVE  Accounts(FALSE, B, j, s, n2)
<1>1. /\ n2 \in Seq(Nat) /\ Len(n2) = Len(n) /\ n2[p] = n[p] + 1
      /\ \A o \in 1..Len(n) : o # p => n2[o] = n[o]
  BY CountedUp DEF Accounts
<1>2. /\ s \in [Registers -> 0..Len(n)] /\ n \in Seq(Nat)
      /\ \A r \in A : s[r] # 0
      /\ \A o \in 1..Len(n) : Cardinality(Refs(A, i, s, o)) <= n[o] /\ n[o] \in Nat
  BY DEF Accounts, Via
<1>3. \A r \in B : s[Via(j, r)] # 0
  BY <1>2 DEF Via
<1>4. ASSUME NEW o \in 1..Len(n) PROVE Cardinality(Refs(B, j, s, o)) <= n2[o]
  <2>1. Refs(B, j, s, o) \subseteq Refs(A, i, s, o)
    BY DEF Refs, Via
  <2>2. IsFiniteSet(Refs(A, i, s, o)) /\ Cardinality(Refs(A, i, s, o)) \in Nat
        /\ Cardinality(Refs(B, j, s, o)) \in Nat
    <3>1. B \in SUBSET Registers
      OBVIOUS
    <3> QED
      BY <3>1, RefsFinite
  <2>3. Cardinality(Refs(B, j, s, o)) <= Cardinality(Refs(A, i, s, o))
    BY <2>1, <2>2, FS_Subset
  <2>4. n[o] <= n2[o] /\ n[o] \in Nat /\ n2[o] \in Nat
    BY <1>1, <1>2
  <2> QED
    BY <1>2, <2>2, <2>3, <2>4
<1> QED
  BY <1>1, <1>2, <1>3, <1>4 DEF Accounts

(* The reference that is retained is that of the register stored next.                  *)
LEMMA AccountsCopy ==
    ASSUME NEW e \in BOOLEAN, NEW A \in SUBSET Registers, NEW i, NEW s, NEW n, Accounts(e, A, i, s, n),
           i.op = "retain", NEW j, j.op = "store", j.from = i.reg, j.reg \in Registers, j.reg \notin A,
           NEW B, B \subseteq A \cup {j.reg}, e => B = A \cup {j.reg},
           NEW p, p = s[i.reg], p \in 1..Len(n), NEW n2, Counted(n2, n, p)
    PROVE  Accounts(e, B, j, s, n2)
<1>1. /\ n2 \in Seq(Nat) /\ Len(n2) = Len(n) /\ n2[p] = n[p] + 1
      /\ \A o \in 1..Len(n) : o # p => n2[o] = n[o]
  BY CountedUp DEF Accounts
<1>2. /\ s \in [Registers -> 0..Len(n)] /\ n \in Seq(Nat)
      /\ \A r \in A : s[r] # 0
      /\ \A o \in 1..Len(n) : Cardinality(Refs(A, i, s, o)) <= n[o] /\ n[o] \in Nat
      /\ e => \A o \in 1..Len(n) : Cardinality(Refs(A, i, s, o)) = n[o]
  BY DEF Accounts, Via
<1>3. /\ \A r \in A : Via(j, r) = r
      /\ Via(j, j.reg) = i.reg
      /\ \A r : Via(i, r) = r
  BY DEF Via
<1>4. \A r \in B : s[Via(j, r)] # 0
  BY <1>2, <1>3
<1>5. ASSUME NEW o \in 1..Len(n)
      PROVE  /\ Cardinality(Refs(B, j, s, o)) <= n2[o]
             /\ e => Cardinality(Refs(B, j, s, o)) = n2[o]
  <2>1. PICK R : R = Refs(A, i, s, o)
    OBVIOUS
  <2>2. IsFiniteSet(R) /\ Cardinality(R) \in Nat /\ Cardinality(Refs(B, j, s, o)) \in Nat
    <3>1. B \in SUBSET Registers
      OBVIOUS
    <3> QED
      BY <2>1, <3>1, RefsFinite
  <2>3. j.reg \notin R
    BY <2>1 DEF Refs
  <2>4. CASE o = p
    <3>1. Refs(B, j, s, o) \subseteq R \cup {j.reg} /\ (e => Refs(B, j, s, o) = R \cup {j.reg})
      BY <1>3, <2>1, <2>4 DEF Refs
    <3>2. IsFiniteSet(R \cup {j.reg}) /\ Cardinality(R \cup {j.reg}) = Cardinality(R) + 1
      BY <2>2, <2>3, FS_AddElement
    <3>3. Cardinality(Refs(B, j, s, o)) <= Cardinality(R \cup {j.reg})
      BY <3>1, <3>2, FS_Subset
    <3>4. n[o] \in Nat /\ Cardinality(R) <= n[o] /\ (e => Cardinality(R) = n[o])
      BY <1>2, <2>1
    <3>5. n2[o] = n[o] + 1
      BY <1>1, <2>4
    <3> QED
      <4>1. Cardinality(Refs(B, j, s, o)) <= Cardinality(R) + 1
        BY <3>2, <3>3
      <4>2. e => Cardinality(Refs(B, j, s, o)) = Cardinality(R) + 1
        BY <3>1, <3>2
      <4> QED
        BY <2>2, <3>4, <3>5, <4>1, <4>2
  <2>5. CASE o # p
    <3>1. Refs(B, j, s, o) \subseteq R /\ (e => Refs(B, j, s, o) = R)
      BY <1>3, <2>1, <2>5 DEF Refs
    <3>2. Cardinality(Refs(B, j, s, o)) <= Cardinality(R)
      BY <2>2, <3>1, FS_Subset
    <3> QED
      BY <1>1, <1>2, <2>1, <2>2, <2>5, <3>1, <3>2
  <2> QED
    BY <2>4, <2>5
<1> QED
  BY <1>1, <1>2, <1>4, <1>5 DEF Accounts

(* The references that the registers rs lose.                                           *)
Dropped(n2, n, s, rs) == n2 = [o \in 1..Len(n) |-> n[o] - Cardinality({r \in rs : s[r] = o})]

(* The counts after a release: those of the registers C that keep their references.*)
Settled(e, C, s, n, n2) ==
    /\ n2 \in Seq(Nat) /\ Len(n2) = Len(n)
    /\ \A o \in 1..Len(n) :
          /\ Cardinality({r \in C : s[r] = o}) \in Nat
          /\ Cardinality({r \in C : s[r] = o}) <= n2[o]
          /\ e => Cardinality({r \in C : s[r] = o}) = n2[o]

(* Each object loses as many references as registers that are released held   *)
(* it.                                                                        *)
LEMMA AccountsRelease ==
    ASSUME NEW e \in BOOLEAN, NEW A \in SUBSET Registers, NEW i, NEW s, NEW n, Accounts(e, A, i, s, n),
           i.op = "release", NEW rs, rs = i.regs, rs \subseteq A, NEW n2, Dropped(n2, n, s, rs),
           NEW C, C = A \ rs
    PROVE  Settled(e, C, s, n, n2)
<1>1. /\ s \in [Registers -> 0..Len(n)] /\ n \in Seq(Nat) /\ Len(n) \in Nat
      /\ \A o \in 1..Len(n) : Cardinality(Refs(A, i, s, o)) <= n[o] /\ n[o] \in Nat
      /\ e => \A o \in 1..Len(n) : Cardinality(Refs(A, i, s, o)) = n[o]
  BY DEF Accounts
<1>2. \A r : Via(i, r) = r
  BY DEF Via
<1>3. ASSUME NEW o \in 1..Len(n)
      PROVE  /\ n[o] - Cardinality({r \in rs : s[r] = o}) \in Nat
             /\ Cardinality({r \in C : s[r] = o}) \in Nat
             /\ Cardinality({r \in C : s[r] = o}) <= n[o] - Cardinality({r \in rs : s[r] = o})
             /\ e => Cardinality({r \in C : s[r] = o}) = n[o] - Cardinality({r \in rs : s[r] = o})
  <2>1. PICK X, Y, Z : /\ X = Refs(A, i, s, o) /\ Y = {r \in rs : s[r] = o}
                       /\ Z = {r \in C : s[r] = o}
    OBVIOUS
  <2>2. Y \subseteq X /\ Z = X \ Y /\ X \cap Y = Y
    BY <1>2, <2>1 DEF Refs
  <2>3. IsFiniteSet(X) /\ Cardinality(X) \in Nat
    BY <2>1, RefsFinite
  <2>4. IsFiniteSet(Y) /\ Cardinality(Y) \in Nat /\ Cardinality(Y) <= Cardinality(X)
    <3>1. IsFiniteSet(Y) /\ Cardinality(Y) <= Cardinality(X)
      BY <2>2, <2>3, FS_Subset
    <3> QED
      BY <3>1, FS_CardinalityType
  <2>5. Cardinality(Z) = Cardinality(X) - Cardinality(Y)
    <3>1. Cardinality(X \ Y) = Cardinality(X) - Cardinality(X \cap Y)
      BY <2>3, FS_Difference
    <3> QED
      BY <2>2, <3>1
  <2>6. Cardinality(X) <= n[o] /\ n[o] \in Nat /\ (e => Cardinality(X) = n[o])
    BY <1>1, <2>1
  <2> QED
    BY <2>1, <2>3, <2>4, <2>5, <2>6
<1>4. n2 \in Seq(Nat) /\ Len(n2) = Len(n) /\ \A o \in 1..Len(n) : n2[o] = n[o] - Cardinality({r \in rs : s[r] = o})
  <2>1. n2 = [o \in 1..Len(n) |-> n[o] - Cardinality({r \in rs : s[r] = o})]
    BY DEF Dropped
  <2>2. n2 \in [1..Len(n) -> Nat]
    BY <1>3, <2>1
  <2>3. n2 \in Seq(Nat) /\ Len(n2) = Len(n)
    BY <1>1, <2>2, SeqDef
  <2> QED
    BY <2>1, <2>3
<1> QED
  BY <1>3, <1>4 DEF Settled

(* The registers rs are released, and hold nothing from then on.              *)
LEMMA AccountsDrop ==
    ASSUME NEW e \in BOOLEAN, NEW A \in SUBSET Registers, NEW i, NEW s, NEW n, Accounts(e, A, i, s, n),
           i.op = "release", NEW rs, rs = i.regs, rs \subseteq A, NEW n2, Dropped(n2, n, s, rs),
           NEW B, B \subseteq A \ rs, e => B = A \ rs, NEW j, j.op # "store"
    PROVE  Accounts(e, B, j, s, n2)
<1>1. /\ n2 \in Seq(Nat) /\ Len(n2) = Len(n)
      /\ \A o \in 1..Len(n) :
            /\ Cardinality({r \in A \ rs : s[r] = o}) \in Nat
            /\ Cardinality({r \in A \ rs : s[r] = o}) <= n2[o]
            /\ e => Cardinality({r \in A \ rs : s[r] = o}) = n2[o]
  <2>1. PICK C : C = A \ rs
    OBVIOUS
  <2>2. Settled(e, C, s, n, n2)
    BY <2>1, AccountsRelease
  <2> QED
    BY <2>1, <2>2 DEF Settled
<1>2. s \in [Registers -> 0..Len(n)] /\ n \in Seq(Nat) /\ \A r \in A : s[r] # 0
  BY DEF Accounts, Via
<1>3. \A r : Via(j, r) = r
  BY DEF Via
<1>4. ASSUME NEW o \in 1..Len(n)
      PROVE  /\ Cardinality(Refs(B, j, s, o)) <= n2[o]
             /\ e => Cardinality(Refs(B, j, s, o)) = n2[o]
  <2>1. PICK Z : Z = {r \in A \ rs : s[r] = o}
    OBVIOUS
  <2>2. Refs(B, j, s, o) \subseteq Z /\ (e => Refs(B, j, s, o) = Z)
    BY <1>3, <2>1 DEF Refs
  <2>3. IsFiniteSet(Z)
    <3>1. Z \in SUBSET A /\ IsFiniteSet(A)
      BY <2>1, RefsFinite
    <3> QED
      BY <3>1, FS_Subset
  <2>4. Cardinality(Refs(B, j, s, o)) <= Cardinality(Z)
    BY <2>2, <2>3, FS_Subset
  <2>5. Cardinality(Z) \in Nat /\ Cardinality(Z) <= n2[o] /\ (e => Cardinality(Z) = n2[o]) /\ n2[o] \in Nat
    BY <1>1, <2>1
  <2>6. Cardinality(Refs(B, j, s, o)) \in Nat
    <3>1. B \in SUBSET Registers
      OBVIOUS
    <3> QED
      BY <3>1, RefsFinite
  <2> QED
    BY <2>2, <2>4, <2>5, <2>6
<1>5. \A r \in B : s[Via(j, r)] # 0
  BY <1>2, <1>3
<1> QED
  BY <1>1, <1>2, <1>4, <1>5 DEF Accounts

(* The old reference of the register stored next is released; it takes over the       *)
(* reference of the register it is stored from.                                        *)
LEMMA AccountsMove ==
    ASSUME NEW e \in BOOLEAN, NEW A \in SUBSET Registers, NEW i, NEW s, NEW n, Accounts(e, A, i, s, n),
           i.op = "release", NEW j, j.op = "store", i.regs = {j.reg},
           j.reg \in A, j.from \in A, j.from # j.reg, NEW n2, Dropped(n2, n, s, {j.reg}),
           NEW B, B \subseteq A \ {j.from}, e => B = A \ {j.from}, j.reg \in B
    PROVE  Accounts(e, B, j, s, n2)
<1>1. /\ n2 \in Seq(Nat) /\ Len(n2) = Len(n)
      /\ \A o \in 1..Len(n) :
            /\ Cardinality({r \in A \ {j.reg} : s[r] = o}) \in Nat
            /\ Cardinality({r \in A \ {j.reg} : s[r] = o}) <= n2[o]
            /\ e => Cardinality({r \in A \ {j.reg} : s[r] = o}) = n2[o]
  <2>1. PICK rs, C : rs = {j.reg} /\ C = A \ rs
    OBVIOUS
  <2>2. rs = i.regs /\ rs \subseteq A /\ Dropped(n2, n, s, rs)
    BY <2>1
  <2>3. Settled(e, C, s, n, n2)
    BY <2>1, <2>2, AccountsRelease
  <2> QED
    BY <2>1, <2>3 DEF Settled
<1>2. s \in [Registers -> 0..Len(n)] /\ n \in Seq(Nat) /\ \A r \in A : s[r] # 0
  BY DEF Accounts, Via
<1>3. Via(j, j.reg) = j.from /\ \A r : r # j.reg => Via(j, r) = r
  BY DEF Via
<1>4. ASSUME NEW o \in 1..Len(n)
      PROVE  /\ Cardinality(Refs(B, j, s, o)) <= n2[o]
             /\ e => Cardinality(Refs(B, j, s, o)) = n2[o]
  <2>1. PICK Z : Z = {r \in A \ {j.reg} : s[r] = o}
    OBVIOUS
  <2>2. IsFiniteSet(Z) /\ Cardinality(Z) \in Nat /\ Cardinality(Z) <= n2[o]
        /\ (e => Cardinality(Z) = n2[o]) /\ n2[o] \in Nat
    <3>1. Z \in SUBSET A /\ IsFiniteSet(A)
      BY <2>1, RefsFinite
    <3> QED
      BY <1>1, <2>1, <3>1, FS_Subset
  <2>3. PICK Q : Q = Refs(B, j, s, o)
    OBVIOUS
  <2>4. IsFiniteSet(Q) /\ Cardinality(Q) \in Nat
    <3>1. B \in SUBSET Registers
      OBVIOUS
    <3> QED
      BY <2>3, <3>1, RefsFinite
  <2>5. CASE s[j.from] = o
    <3>1. PICK V, W : V = Q \ {j.reg} /\ W = Z \ {j.from}
      OBVIOUS
    <3>2. j.reg \in Q /\ j.from \in Z
      BY <1>3, <2>1, <2>3, <2>5 DEF Refs
    <3>3. V \subseteq W /\ (e => V = W)
      BY <1>3, <2>1, <2>3, <3>1 DEF Refs
    <3>4. Cardinality(V) = Cardinality(Q) - 1
      BY <2>4, <3>1, <3>2, FS_RemoveElement
    <3>5. IsFiniteSet(W) /\ Cardinality(W) = Cardinality(Z) - 1
      BY <2>2, <3>1, <3>2, FS_RemoveElement
    <3>6. Cardinality(V) <= Cardinality(W)
      BY <3>3, <3>5, FS_Subset
    <3> QED
      BY <2>2, <2>3, <2>4, <3>3, <3>4, <3>5, <3>6
  <2>6. CASE s[j.from] # o
    <3>1. Q \subseteq Z /\ (e => Q = Z)
      BY <1>3, <2>1, <2>3, <2>6 DEF Refs
    <3>2. Cardinality(Q) <= Cardinality(Z)
      BY <2>2, <3>1, FS_Subset
    <3> QED
      BY <2>2, <2>3, <2>4, <3>1, <3>2
  <2> QED
    BY <2>5, <2>6
<1>5. \A r \in B : s[Via(j, r)] # 0
  BY <1>2, <1>3
<1> QED
  BY <1>1, <1>2, <1>4, <1>5 DEF Accounts

-----------------------------------------------------------------------------
(* The invariant of the run.                                                  *)

(* A parameter nothing is assigned to still holds the caller's object.          *)
Keeps == \A r \in ParamRegs : Stored(r) \/ slot[r] = r

(* The run has not started.                                                     *)
Fresh ==
    /\ pc = 1
    /\ slot = [r \in Registers |-> IF r <= Len(Params) THEN r ELSE 0]
    /\ count = [o \in 1..Len(Params) |-> 1]

(* The references a path holds are those the judgement of the code gives its place. *)
Accounted ==
    /\ pc \in 1..Len(out) /\ ParamRegs \subseteq 1..Len(count) /\ Keeps
    /\ \E G, w : Owns(Exact, G, w, out) /\ Accounts(Exact, w[pc], out[pc], slot, count)

(* The invariant of the run.                                                  *)
RInv == IInv /\ (Emitting => Fresh) /\ (~Emitting => Accounted)

(* A function starts with one reference to each argument, in its parameters.      *)
LEMMA AccountsFirst ==
    ASSUME NEW e \in BOOLEAN, Fresh
    PROVE  Accounts(e, ParamRegs, Label(0), slot, count)
<1>1. Len(Params) \in Nat /\ MaxRegs \in Nat /\ Len(Params) <= MaxRegs
  BY EmitAssumption DEF MaxRegs
<1>2. count \in Seq(Nat) /\ Len(count) = Len(Params) /\ \A o \in 1..Len(Params) : count[o] = 1
  <2>1. PICK m : m = Len(Params)
    OBVIOUS
  <2>2. count \in [1..m -> Nat] /\ m \in Nat /\ \A o \in 1..m : count[o] = 1
    BY <1>1, <2>1 DEF Fresh
  <2>3. count \in Seq(Nat) /\ Len(count) = m
    BY <2>2, SeqDef
  <2> QED
    BY <2>1, <2>2, <2>3
<1>3. /\ slot \in [Registers -> 0..Len(Params)]
      /\ \A r \in ParamRegs : slot[r] = r /\ r # 0
  BY <1>1 DEF Fresh, Registers, ParamRegs
<1>4. \A r : Via(Label(0), r) = r
  BY DEF Via, Label
<1>5. ASSUME NEW o \in 1..Len(Params) PROVE Cardinality(Refs(ParamRegs, Label(0), slot, o)) = 1
  <2>1. Refs(ParamRegs, Label(0), slot, o) = {o}
    BY <1>3, <1>4 DEF Refs, ParamRegs
  <2> QED
    BY <2>1, FS_Singleton
<1> QED
  BY <1>2, <1>3, <1>4, <1>5 DEF Accounts

(* A function starts with the caller's objects in its parameters.             *)
LEMMA FreshKeeps == ASSUME Fresh PROVE Keeps /\ ParamRegs \subseteq 1..Len(count)
<1>1. Len(Params) \in Nat /\ MaxRegs \in Nat /\ Len(Params) <= MaxRegs
  BY EmitAssumption DEF MaxRegs
<1>2. \A r \in ParamRegs : slot[r] = r
  BY <1>1 DEF Fresh, Registers, ParamRegs
<1>3. Len(count) = Len(Params)
  <2>1. PICK m : m = Len(Params)
    OBVIOUS
  <2>2. count \in [1..m -> Nat] /\ m \in Nat
    BY <1>1, <2>1 DEF Fresh
  <2>3. count \in Seq(Nat) /\ Len(count) = m
    BY <2>2, SeqDef
  <2> QED
    BY <2>1, <2>3
<1> QED
  BY <1>2, <1>3 DEF Keeps, ParamRegs

(* A run starts with the references its first instruction is entered with.    *)
LEMMA FreshAccounted == IInv /\ Fresh => Accounted
<1> SUFFICES ASSUME IInv, Fresh PROVE Accounted
  OBVIOUS
<1>1. PICK G, base, P, T : Emitted(Ranged, Exact, G, out, terminated, P, T, RegsTo(scopes, Len(scopes)))
  BY Found
<1>2. PICK w : Owns(Exact, G, w, out)
  BY <1>1 DEF Emitted, Own
<1>3. w[1] = ParamRegs /\ out[1] = Label(0)
  BY <1>2 DEF Owns
<1>4. 1 \in 1..Len(out)
  <2>1. out \in Listing
    BY <1>1 DEF Emitted
  <2> QED
    BY <2>1 DEF Listing
<1>5. Accounts(Exact, ParamRegs, Label(0), slot, count)
  <2>1. PICK e : e = Exact
    OBVIOUS
  <2>2. e \in BOOLEAN
    BY <2>1 DEF Exact
  <2> QED
    BY <2>1, <2>2, AccountsFirst
<1>6. pc = 1
  BY DEF Fresh
<1> QED
  BY <1>2, <1>3, <1>4, <1>5, <1>6, FreshKeeps DEF Accounted

(* Nothing runs while code is written.                                        *)
LEMMA EmitterIsApart == ASSUME Statement \/ Close PROVE Emitting /\ UNCHANGED runVars
<1>1. ASSUME NEW x \in Vars, VarNew(x) \/ AssignNew(x) \/ ExprStmt(x) \/ ReturnVar(x)
                               \/ ReturnMany(x) \/ TryVar(x) \/ DeferStmt(x)
      PROVE  Emitting /\ UNCHANGED runVars
  BY <1>1 DEF VarNew, AssignNew, ExprStmt, ReturnVar, ReturnMany, TryVar, DeferStmt, NextStmt
<1>2. ASSUME NEW x \in Vars, NEW y \in Vars, VarCopy(x, y) \/ AssignCopy(x, y)
      PROVE  Emitting /\ UNCHANGED runVars
  BY <1>2 DEF VarCopy, AssignCopy, NextStmt
<1>3. ASSUME PanicCall \/ ReturnVoid \/ ReturnNew \/ BreakStmt \/ ContinueStmt
      PROVE  Emitting /\ UNCHANGED runVars
  BY <1>3 DEF PanicCall, ReturnVoid, ReturnNew, BreakStmt, ContinueStmt, NextStmt
<1>4. ASSUME IfStmt \/ WhileStmt \/ ForStmt("for") \/ ForStmt("range") \/ BlockStmt
      PROVE  Emitting /\ UNCHANGED runVars
  BY <1>4 DEF IfStmt, WhileStmt, ForStmt, BlockStmt, NextStmt
<1>5. ASSUME Close PROVE Emitting /\ UNCHANGED runVars
  BY <1>5 DEF Close, CloseIf, OpenElse, CloseElse, CloseWhile, CloseFor, CloseRange, CloseBlock,
              CloseFn, CloseFrame
<1> QED
  BY <1>1, <1>2, <1>3, <1>4, <1>5 DEF Statement

(* The emitter has written the body before the run starts.                          *)
LEMMA EmittingKeeps == ASSUME RInv, Statement \/ Close PROVE RInv'
<1>1. Emitting /\ UNCHANGED runVars
  BY EmitterIsApart
<1>2. IInv'
  BY StatementKeeps, CloseKeeps DEF RInv
<1>3. Fresh'
  BY <1>1 DEF RInv, Fresh, runVars
<1>4. (IInv /\ Fresh => Accounted)'
  BY FreshAccounted, PTL
<1> QED
  BY <1>2, <1>3, <1>4 DEF RInv

(* The invariant of the run holds at the start.                               *)
LEMMA FirstRun == ASSUME Init PROVE RInv
<1>1. IInv
  BY InitHolds
<1>2. Fresh
  BY DEF Init, Fresh, Registers
<1> QED
  BY <1>1, <1>2, FreshAccounted DEF RInv

-----------------------------------------------------------------------------
(* The steps of the run.                                                      *)

(* What is known of the next instruction i and the registers A it is entered with.   *)
At(G, w, e, i, A) ==
    /\ Owns(e, G, w, out) /\ e = Exact /\ i = out[pc] /\ A = w[pc]
    /\ pc \in 1..Len(out) /\ e \in BOOLEAN /\ A \in SUBSET Registers
    /\ i \in Code /\ Checked(e, G, A, i) /\ Accounts(e, A, i, slot, count)

(* What is written is code.                                                   *)
LEMMA OutIsCode == ASSUME IInv PROVE out \in Listing
<1>1. PICK G, base, P, T : Emitted(Ranged, Exact, G, out, terminated, P, T, RegsTo(scopes, Len(scopes)))
  BY Found
<1> QED
  BY <1>1 DEF Emitted

(* What is known at the next instruction.                                     *)
LEMMA Ready ==
    ASSUME RInv, Running
    PROVE  \E G, w, e, i, A : At(G, w, e, i, A)
<1>1. /\ pc \in 1..Len(out)
      /\ \E G, w : Owns(Exact, G, w, out) /\ Accounts(Exact, w[pc], out[pc], slot, count)
  BY DEF RInv, Running, Accounted
<1>2. PICK G, w : Owns(Exact, G, w, out) /\ Accounts(Exact, w[pc], out[pc], slot, count)
  BY <1>1
<1>3. PICK e, i, A : e = Exact /\ i = out[pc] /\ A = w[pc]
  OBVIOUS
<1>4. out \in Seq(Code)
  BY OutIsCode DEF RInv, Listing
<1>5. i \in Code
  BY <1>1, <1>3, <1>4, ElementOfSeq
<1>6. A \in SUBSET Registers /\ Checked(e, G, A, i)
  BY <1>1, <1>2, <1>3 DEF Owns
<1>7. At(G, w, e, i, A)
  BY <1>1, <1>2, <1>3, <1>5, <1>6 DEF At, Exact
<1> QED
  BY <1>7

(* An instruction that ends no block is followed by one, in the next line.             *)
Follow(w, e, i, A, j, B) ==
    /\ pc + 1 \in 1..Len(out) /\ j = out[pc + 1] /\ B = w[pc + 1]
    /\ j \in Code /\ B \in SUBSET Registers /\ Flows(e, A, i, B, j)

(* An instruction that ends no block has a successor, entered with what it    *)
(* leaves.                                                                    *)
LEMMA Follows ==
    ASSUME RInv, Running, NEW G, NEW w, NEW e, NEW i, NEW A, At(G, w, e, i, A), ~EndsBlock(i)
    PROVE  \E j, B : Follow(w, e, i, A, j, B)
<1>1. PICK H, base, P, T : Emitted(Ranged, Exact, H, out, terminated, P, T, RegsTo(scopes, Len(scopes)))
  BY Found DEF RInv
<1>2. EndsBlock(out[Len(out)])
  BY <1>1 DEF Emitted, Shape, RInv, IInv, Running
<1>3. out \in Seq(Code) /\ Len(out) \in Nat
  BY OutIsCode DEF RInv, Listing
<1>4. pc \in 1..Len(out) /\ i = out[pc] /\ A = w[pc] /\ Owns(e, G, w, out)
  BY DEF At
<1>5. pc # Len(out)
  BY <1>2, <1>4
<1>6. pc + 1 \in 2..Len(out) /\ pc + 1 \in 1..Len(out) /\ (pc + 1) - 1 = pc
  BY <1>3, <1>4, <1>5
<1>7. PICK j, B : j = out[pc + 1] /\ B = w[pc + 1]
  OBVIOUS
<1>8. j \in Code
  BY <1>3, <1>6, <1>7, ElementOfSeq
<1>9. Linked(e, A, i, B, j) /\ B \in SUBSET Registers
  BY <1>4, <1>6, <1>7 DEF Owns
<1>10. Follow(w, e, i, A, j, B)
  BY <1>6, <1>7, <1>8, <1>9 DEF Linked, Follow
<1> QED
  BY <1>10

(* A step of the run lands where the references still add up.                          *)
LEMMA Lands ==
    ASSUME RInv, Running, UNCHANGED emitVars, NEW G, NEW w, NEW e, NEW i, NEW A, At(G, w, e, i, A),
           NEW j, NEW B, pc' \in 1..Len(out), j = out[pc'], B = w[pc'],
           Accounts(e, B, j, slot', count'), Len(count) <= Len(count'),
           \A r \in ParamRegs : Stored(r) \/ slot'[r] = slot[r]
    PROVE  RInv'
<1>1. out' = out /\ open' = open /\ Exact' = Exact
  BY DEF emitVars, Exact
<1>2. IInv'
  BY RunKeeps DEF RInv
<1>3. Owns(Exact, G, w, out) /\ e = Exact
  BY DEF At
<1>4. Owns(Exact', G, w, out') /\ Accounts(Exact', w[pc'], out'[pc'], slot', count')
  BY <1>1, <1>3
<1>5. Accounted
  BY DEF RInv, Running
<1>6. Keeps'
  BY <1>1, <1>5 DEF Accounted, Keeps, Stored
<1>7. ParamRegs \subseteq 1..Len(count')
  <2>1. count \in Seq(Nat) /\ count' \in Seq(Nat)
    BY DEF At, Accounts
  <2>2. 1..Len(count) \subseteq 1..Len(count')
    BY <2>1
  <2> QED
    BY <1>5, <2>2 DEF Accounted
<1>8. Accounted'
  BY <1>1, <1>4, <1>6, <1>7 DEF Accounted
<1> QED
  BY <1>1, <1>2, <1>8 DEF RInv, Running, Emitting

(* A jump goes to the one place of its label, entered with fewer registers.            *)
LEMMA BranchKeeps == ASSUME RInv, RunBranch PROVE RInv'
<1>1. /\ Running /\ UNCHANGED emitVars /\ slot' = slot /\ count' = count
      /\ out[pc].op = "br"
  BY DEF RunBranch, Step, Here
<1>2. PICK l \in out[pc].to : pc' = CHOOSE k \in 1..Len(out) : out[k] = Label(l)
  BY DEF RunBranch, Here
<1>3. PICK G, w, e, i, A : At(G, w, e, i, A)
  BY <1>1, Ready
<1>4. pc \in 1..Len(out) /\ i = out[pc] /\ i.op = "br" /\ l \in i.to
  BY <1>1, <1>2, <1>3 DEF At
<1>5. \E k \in 1..Len(out) : out[k] = Label(l)
  <2>1. PICK S : S = {k \in 1..Len(out) : out[k] = Label(l)}
    OBVIOUS
  <2>2. Cardinality(S) = 1
    BY <1>1, <1>4, <2>1, JumpsHold DEF JumpsLand, RInv, Running
  <2>3. Cardinality({}) = 0
    BY FS_EmptySet
  <2>4. S # {}
    BY <2>2, <2>3
  <2> QED
    BY <2>1, <2>4
<1>6. pc' \in 1..Len(out) /\ out[pc'] = Label(l)
  BY <1>2, <1>5
<1>7. PICK j, B : j = out[pc'] /\ B = w[pc']
  OBVIOUS
<1>8. j.op = "label" /\ l \in j.to
  BY <1>6, <1>7, Ops
<1>9. Checked(e, G, B, j) /\ B \in SUBSET Registers
  BY <1>3, <1>6, <1>7 DEF At, Owns
<1>10. B = G[l] /\ Fits(e, G[l], A)
  BY <1>3, <1>4, <1>8, <1>9 DEF At, Checked
<1>11. \A r : Via(i, r) = r /\ Via(j, r) = r
  BY <1>4, <1>8 DEF Via
<1>12. Accounts(e, A, i, slot, count) /\ e \in BOOLEAN /\ A \in SUBSET Registers
  BY <1>3 DEF At
<1>13. slot \in [Registers -> 0..Len(count)]
  BY <1>12 DEF Accounts
<1>14. Accounts(e, B, j, slot, count)
  BY <1>10, <1>11, <1>12, <1>13, AccountsSame DEF Fits
<1>15. Len(count) <= Len(count')
  BY <1>1, <1>12 DEF Accounts
<1> QED
  BY <1>1, <1>3, <1>6, <1>7, <1>14, <1>15, Lands

(* An instruction that touches no slot and no count.                                  *)
LEMMA SilentKeeps ==
    ASSUME RInv, Running, UNCHANGED emitVars, slot' = slot, count' = count, pc' = pc + 1,
           out[pc].op \in {"label", "use", "sched"}
    PROVE  RInv'
<1>1. PICK G, w, e, i, A : At(G, w, e, i, A)
  BY Ready
<1>2. i.op \in {"label", "use", "sched"}
  BY <1>1 DEF At
<1>3. PICK j, B : Follow(w, e, i, A, j, B)
  BY <1>1, <1>2, Follows DEF EndsBlock
<1>4. Flows(e, A, i, B, j)
  BY <1>3 DEF Follow
<1>5. j.op # "store"
  BY <1>2, <1>4, Ops DEF Flows, Copies, Moves
<1>6. Fits(e, B, A)
  BY <1>2, <1>4, <1>5 DEF Flows, Before, After
<1>7. \A r : Via(i, r) = r /\ Via(j, r) = r
  BY <1>2, <1>5 DEF Via
<1>8. Accounts(e, A, i, slot, count) /\ e \in BOOLEAN /\ A \in SUBSET Registers
  BY <1>1 DEF At
<1>9. slot \in [Registers -> 0..Len(count)]
  BY <1>8 DEF Accounts
<1>10. Accounts(e, B, j, slot, count)
  BY <1>6, <1>7, <1>8, <1>9, AccountsSame DEF Fits
<1>11. Len(count) <= Len(count')
  BY <1>8 DEF Accounts
<1>12. pc' \in 1..Len(out) /\ j = out[pc'] /\ B = w[pc']
  BY <1>3 DEF Follow
<1> QED
  BY <1>1, <1>10, <1>11, <1>12, Lands

(* Skink_rc_alloc: the new object is held by a register that held none.                *)
LEMMA NewKeeps == ASSUME RInv, RunNew PROVE RInv'
<1>1. /\ Running /\ UNCHANGED emitVars /\ out[pc].op = "new" /\ pc' = pc + 1
      /\ slot' = [slot EXCEPT ![out[pc].reg] = Len(count) + 1] /\ count' = Append(count, 1)
  BY DEF RunNew, Step, Here
<1>2. PICK G, w, e, i, A : At(G, w, e, i, A)
  BY <1>1, Ready
<1>3. i = out[pc] /\ i.op = "new"
  BY <1>1, <1>2 DEF At
<1>4. PICK j, B : Follow(w, e, i, A, j, B)
  BY <1>1, <1>2, <1>3, Follows DEF EndsBlock
<1>5. Flows(e, A, i, B, j)
  BY <1>4 DEF Follow
<1>6. j.op # "store"
  BY <1>3, <1>5, Ops DEF Flows, Copies, Moves
<1>7. Fits(e, B, A \cup {i.reg})
  BY <1>3, <1>5, <1>6 DEF Flows, Before, After
<1>8. i.reg \in Registers /\ i.reg \notin A /\ i.reg \notin ParamRegs
  BY <1>2, <1>3 DEF At, Checked
<1>9. Accounts(e, A, i, slot, count) /\ e \in BOOLEAN /\ A \in SUBSET Registers
  BY <1>2 DEF At
<1>10. PICK s2, n2 : s2 = slot' /\ n2 = count'
  OBVIOUS
<1>11. Accounts(e, B, j, s2, n2)
  <2>1. s2 = [slot EXCEPT ![i.reg] = Len(count) + 1] /\ n2 = Append(count, 1)
    BY <1>1, <1>3, <1>10
  <2>2. B \subseteq A \cup {i.reg} /\ (e => B = A \cup {i.reg})
    BY <1>7 DEF Fits
  <2> QED
    BY <1>3, <1>6, <1>8, <1>9, <2>1, <2>2, AccountsNew
<1>12. Len(count) <= Len(count') /\ \A r \in ParamRegs : slot'[r] = slot[r]
  <2>1. count \in Seq(Nat) /\ slot \in [Registers -> 0..Len(count)]
    BY <1>9 DEF Accounts
  <2>2. ParamRegs \subseteq Registers
    BY EmitAssumption DEF ParamRegs, Registers, MaxRegs
  <2>3. Len(count) <= Len(count')
    BY <1>1, <2>1
  <2>4. ASSUME NEW r \in ParamRegs PROVE slot'[r] = slot[r]
    BY <1>1, <1>3, <1>8, <2>1, <2>2
  <2> QED
    BY <2>3, <2>4
<1>13. pc' \in 1..Len(out) /\ j = out[pc'] /\ B = w[pc']
  BY <1>1, <1>4 DEF Follow
<1>14. Accounts(e, B, j, slot', count')
  BY <1>10, <1>11
<1> QED
  BY <1>1, <1>2, <1>12, <1>13, <1>14, Lands

(* A register takes the reference that was counted for it.                            *)
LEMMA StoreKeeps == ASSUME RInv, RunStore PROVE RInv'
<1>1. /\ Running /\ UNCHANGED emitVars /\ out[pc].op = "store" /\ pc' = pc + 1
      /\ slot' = [slot EXCEPT ![out[pc].reg] = slot[out[pc].from]] /\ count' = count
  BY DEF RunStore, Step, Here
<1>2. PICK G, w, e, i, A : At(G, w, e, i, A)
  BY <1>1, Ready
<1>3. i = out[pc] /\ i.op = "store" /\ pc \in 1..Len(out) /\ i \in Code
  BY <1>1, <1>2 DEF At
<1>4. PICK j, B : Follow(w, e, i, A, j, B)
  BY <1>1, <1>2, <1>3, Follows DEF EndsBlock
<1>5. Flows(e, A, i, B, j)
  BY <1>4 DEF Follow
<1>6. j.op # "store"
  BY <1>3, <1>5, Ops DEF Flows, Copies, Moves
<1>7. Fits(e, B, A)
  BY <1>3, <1>5, <1>6 DEF Flows, Before, After
<1>8. i.reg \in Registers /\ i.from \in Registers
  <2>1. i \in [op : {"store"}, reg : Registers, from : Registers]
    BY <1>3 DEF Code
  <2> QED
    BY <2>1
<1>9. Accounts(e, A, i, slot, count) /\ e \in BOOLEAN /\ A \in SUBSET Registers
  BY <1>2 DEF At
<1>10. PICK s2 : s2 = slot'
  OBVIOUS
<1>11. slot \in [Registers -> 0..Len(count)]
  BY <1>9 DEF Accounts
<1>12. /\ s2 \in [Registers -> 0..Len(count)]
       /\ \A r \in Registers : s2[r] = slot[Via(i, r)]
  BY <1>1, <1>3, <1>8, <1>10, <1>11 DEF Via
<1>13. Accounts(e, B, j, s2, count)
  <2>1. B \subseteq A /\ (e => A = B)
    BY <1>7 DEF Fits
  <2>2. \A r \in B : s2[Via(j, r)] = slot[Via(i, r)]
    BY <1>6, <1>9, <1>12, <2>1 DEF Via
  <2> QED
    BY <1>9, <1>12, <2>1, <2>2, AccountsSame
<1>14. Accounts(e, B, j, slot', count')
  BY <1>1, <1>10, <1>13
<1>15. Len(count) <= Len(count')
  BY <1>1, <1>9 DEF Accounts
<1>16. \A r \in ParamRegs : Stored(r) \/ slot'[r] = slot[r]
  <2>1. Stored(i.reg)
    BY <1>3 DEF Stored
  <2>2. ASSUME NEW r, r # i.reg PROVE slot'[r] = slot[r]
    BY <1>1, <1>3, <1>11, <2>2
  <2> QED
    BY <2>1, <2>2
<1>17. pc' \in 1..Len(out) /\ j = out[pc'] /\ B = w[pc']
  BY <1>1, <1>4 DEF Follow
<1> QED
  BY <1>1, <1>2, <1>14, <1>15, <1>16, <1>17, Lands

(* Skink_rc_retain: a reference is counted, for the register stored next or for the   *)
(* caller.                                                                           *)
LEMMA RetainKeeps == ASSUME RInv, RunRetain PROVE RInv'
<1>1. /\ Running /\ UNCHANGED emitVars /\ out[pc].op = "retain" /\ pc' = pc + 1
      /\ slot' = slot /\ count' = [count EXCEPT ![slot[out[pc].reg]] = @ + 1]
      /\ Live(out[pc].reg)
  BY DEF RunRetain, Step, Here, Sound
<1>2. PICK G, w, e, i, A : At(G, w, e, i, A)
  BY <1>1, Ready
<1>3. i = out[pc] /\ i.op = "retain" /\ i \in Code
  BY <1>1, <1>2 DEF At
<1>4. PICK j, B : Follow(w, e, i, A, j, B)
  BY <1>1, <1>2, <1>3, Follows DEF EndsBlock
<1>5. Flows(e, A, i, B, j)
  BY <1>4 DEF Follow
<1>6. Accounts(e, A, i, slot, count) /\ e \in BOOLEAN /\ A \in SUBSET Registers
  BY <1>2 DEF At
<1>7. i.reg \in Registers
  <2>1. i \in [op : {"new", "retain"}, reg : Registers]
    BY <1>3 DEF Code
  <2> QED
    BY <2>1
<1>8. PICK p : p = slot[i.reg]
  OBVIOUS
<1>9. p \in 1..Len(count) /\ slot \in [Registers -> 0..Len(count)] /\ count \in Seq(Nat)
  <2>1. slot \in [Registers -> 0..Len(count)] /\ count \in Seq(Nat)
    BY <1>6 DEF Accounts
  <2>2. p # 0
    BY <1>1, <1>3, <1>8 DEF Live
  <2> QED
    BY <1>7, <1>8, <2>1, <2>2
<1>10. PICK n2 : n2 = count'
  OBVIOUS
<1>11. Counted(n2, count, p)
  BY <1>1, <1>3, <1>8, <1>10 DEF Counted
<1>12. Accounts(e, B, j, slot, n2)
  <2>1. CASE j.op = "store"
    <3>1. Copies(A, i, j)
      BY <1>3, <1>5, <2>1, Ops DEF Flows, Moves
    <3>2. j.from = i.reg /\ j.reg \notin A
      BY <3>1, Ops DEF Copies
    <3>3. j.reg \in Registers
      <4>1. j \in Code
        BY <1>4 DEF Follow
      <4>2. j \in [op : {"store"}, reg : Registers, from : Registers]
        BY <2>1, <4>1 DEF Code
      <4> QED
        BY <4>2
    <3>4. B \subseteq A \cup {j.reg} /\ (e => B = A \cup {j.reg})
      BY <1>3, <1>5, <2>1 DEF Flows, Before, Fits
    <3> QED
      BY <1>3, <1>6, <1>8, <1>9, <1>11, <2>1, <3>2, <3>3, <3>4, AccountsCopy
  <2>2. CASE j.op # "store"
    <3>1. ~e /\ B \subseteq A
      BY <1>3, <1>5, <2>2 DEF Flows, Before, After, Fits
    <3>2. Accounts(FALSE, A, i, slot, count)
      BY <1>6 DEF Accounts
    <3>3. Accounts(FALSE, B, j, slot, n2)
      BY <1>3, <1>6, <1>9, <1>11, <2>2, <3>1, <3>2, AccountsRetain
    <3> QED
      BY <3>1, <3>3 DEF Accounts
  <2> QED
    BY <2>1, <2>2
<1>13. Accounts(e, B, j, slot', count')
  BY <1>1, <1>10, <1>12
<1>14. Len(count) <= Len(count')
  BY <1>1, <1>9
<1>15. pc' \in 1..Len(out) /\ j = out[pc'] /\ B = w[pc']
  BY <1>1, <1>4 DEF Follow
<1> QED
  BY <1>1, <1>2, <1>13, <1>14, <1>15, Lands

(* Skink_rc_release: the references of the registers of a scope, or the old one of    *)
(* the register stored next.                                                         *)
LEMMA ReleaseKeeps == ASSUME RInv, RunRelease PROVE RInv'
<1>1. /\ Running /\ UNCHANGED emitVars /\ out[pc].op = "release" /\ pc' = pc + 1 /\ slot' = slot
      /\ count' = [o \in 1..Len(count) |-> count[o] - Cardinality(Holders(out[pc].regs, o))]
  BY DEF RunRelease, Step, Here
<1>2. PICK G, w, e, i, A : At(G, w, e, i, A)
  BY <1>1, Ready
<1>3. i = out[pc] /\ i.op = "release" /\ Checked(e, G, A, i)
  BY <1>1, <1>2 DEF At
<1>4. PICK j, B : Follow(w, e, i, A, j, B)
  BY <1>1, <1>2, <1>3, Follows DEF EndsBlock
<1>5. Flows(e, A, i, B, j)
  BY <1>4 DEF Follow
<1>6. Accounts(e, A, i, slot, count) /\ e \in BOOLEAN /\ A \in SUBSET Registers
  BY <1>2 DEF At
<1>7. PICK rs, n2 : rs = i.regs /\ n2 = count'
  OBVIOUS
<1>8. rs \subseteq A
  BY <1>3, <1>7 DEF Checked
<1>9. Dropped(n2, count, slot, rs)
  BY <1>1, <1>3, <1>7 DEF Dropped, Holders
<1>10. Accounts(e, B, j, slot, n2)
  <2>1. CASE j.op = "store"
    <3>1. Moves(A, i, j)
      BY <1>3, <1>5, <2>1, Ops DEF Flows, Copies
    <3>2. rs = {j.reg} /\ j.from \in A /\ j.reg \in A /\ j.from # j.reg
      BY <1>7, <3>1, Ops DEF Moves
    <3>3. B \subseteq A \ {j.from} /\ (e => B = A \ {j.from})
      BY <1>3, <1>5, <2>1 DEF Flows, Before, Fits
    <3>4. Checked(e, G, B, j)
      BY <1>2, <1>4 DEF At, Follow, Owns
    <3>5. j.reg \in B
      BY <2>1, <3>4 DEF Checked
    <3>6. Dropped(n2, count, slot, {j.reg}) /\ i.regs = {j.reg}
      BY <1>7, <1>9, <3>2
    <3> QED
      BY <1>3, <1>6, <2>1, <3>2, <3>3, <3>5, <3>6, AccountsMove
  <2>2. CASE j.op # "store"
    <3>1. B \subseteq A \ rs /\ (e => B = A \ rs)
      BY <1>3, <1>5, <1>7, <2>2 DEF Flows, Before, After, Fits
    <3> QED
      BY <1>3, <1>6, <1>7, <1>8, <1>9, <2>2, <3>1, AccountsDrop
  <2> QED
    BY <2>1, <2>2
<1>11. Accounts(e, B, j, slot', count')
  BY <1>1, <1>7, <1>10
<1>12. Len(count) <= Len(count')
  <2>1. count \in Seq(Nat) /\ count' \in Seq(Nat)
    BY <1>6, <1>11 DEF Accounts
  <2>2. DOMAIN count' = 1..Len(count)
    BY <1>1
  <2> QED
    BY <2>1, <2>2
<1>13. pc' \in 1..Len(out) /\ j = out[pc'] /\ B = w[pc']
  BY <1>1, <1>4 DEF Follow
<1> QED
  BY <1>1, <1>2, <1>11, <1>12, <1>13, Lands

(* Every step of the run keeps its invariant.                                 *)
LEMMA RunKeepsAccounts == ASSUME RInv, Run PROVE RInv'
<1>1. CASE RunLabel \/ RunUse \/ RunDefer
  <2>1. /\ Running /\ UNCHANGED emitVars /\ slot' = slot /\ count' = count /\ pc' = pc + 1
        /\ out[pc].op \in {"label", "use", "sched"}
    BY <1>1 DEF RunLabel, RunUse, RunDefer, Step, Here
  <2> QED
    BY <2>1, SilentKeeps
<1> QED
  BY <1>1, BranchKeeps, NewKeeps, StoreKeeps, RetainKeeps, ReleaseKeeps DEF Run

(* Every step keeps the invariant of the run.                                 *)
LEMMA NextKeepsAccounts == RInv /\ [Next]_vars => RInv'
<1> SUFFICES ASSUME RInv, [Next]_vars PROVE RInv'
  OBVIOUS
<1>1. CASE Statement \/ Close
  BY <1>1, EmittingKeeps
<1>2. CASE Run
  BY <1>2, RunKeepsAccounts
<1>3. CASE UNCHANGED vars
  <2>1. UNCHANGED emitVars /\ UNCHANGED runVars
    BY <1>3 DEF vars
  <2>2. IInv'
    BY <2>1, RunKeeps DEF RInv
  <2>3. Emitting' = Emitting /\ (Fresh => Fresh')
    BY <2>1 DEF Emitting, Fresh, emitVars, runVars
  <2>4. Accounted => Accounted'
    BY <2>1 DEF Accounted, Keeps, Stored, Exact, emitVars, runVars
  <2> QED
    BY <2>2, <2>3, <2>4 DEF RInv
<1> QED
  BY <1>1, <1>2, <1>3 DEF Next

(* On every path through a finished function, the references its registers hold are   *)
(* those its counts count.                                                            *)
THEOREM RunInvariance == Spec => []RInv
<1>1. Init => RInv
  BY FirstRun
<1> QED
  BY <1>1, NextKeepsAccounts, PTL DEF Spec

-----------------------------------------------------------------------------
(* What the invariant says of the run.                                        *)

(* A register the judgement lists holds a live object.                               *)
LEMMA ListedLive ==
    ASSUME NEW G, NEW w, NEW e, NEW i, NEW A, At(G, w, e, i, A), i.op # "store", NEW r \in A
    PROVE  Live(r) /\ r # 0
<1>1. /\ slot \in [Registers -> 0..Len(count)] /\ count \in Seq(Nat) /\ A \in SUBSET Registers
      /\ \A x \in A : slot[x] # 0
      /\ \A o \in 1..Len(count) : Cardinality(Refs(A, i, slot, o)) <= count[o]
  BY DEF At, Accounts, Via
<1>2. PICK o : o = slot[r]
  OBVIOUS
<1>3. o \in 1..Len(count)
  BY <1>1, <1>2
<1>4. r \in Refs(A, i, slot, o)
  BY <1>2 DEF Refs, Via
<1>5. IsFiniteSet(Refs(A, i, slot, o)) /\ Cardinality(Refs(A, i, slot, o)) \in Nat
  BY <1>1, RefsFinite
<1>6. Cardinality(Refs(A, i, slot, o)) # 0
  BY <1>4, <1>5, FS_EmptySet
<1>7. count[o] \in Nat /\ count[o] > 0
  BY <1>1, <1>3, <1>5, <1>6
<1>8. r # 0
  BY <1>1 DEF Registers
<1> QED
  BY <1>1, <1>2, <1>7, <1>8 DEF Live

(* What an instruction reads or releases is among the registers it is         *)
(* entered with.                                                              *)
LEMMA NothingFreed == ASSUME RInv PROVE NoUseAfterFree
<1> SUFFICES ASSUME Running PROVE Sound(Here) \/ Late(Here) \/ SelfAssign(pc)
  BY DEF NoUseAfterFree
<1>1. PICK G, w, e, i, A : At(G, w, e, i, A)
  BY Ready
<1>2. Here = i /\ i = out[pc] /\ pc \in 1..Len(out) /\ Checked(e, G, A, i) /\ i \in Code
  BY <1>1 DEF At, Here
<1>3. CASE i.op = "use"
  <2>1. i.id # 0 \/ i.reg \in A
    BY <1>2, <1>3 DEF Checked
  <2>2. CASE i.id # 0
    BY <1>2, <1>3, <2>2 DEF Late
  <2>3. CASE i.reg \in A
    BY <1>1, <1>2, <1>3, <2>3, ListedLive DEF Sound
  <2> QED
    BY <2>1, <2>2, <2>3
<1>4. CASE i.op = "retain"
  <2>1. i.reg \in A \/ SelfAssign(pc)
    <3>1. out \in Seq(Code) /\ Owns(e, G, w, out) /\ A = w[pc]
      BY <1>1, OutIsCode DEF RInv, Listing, At
    <3>2. pc # 1
      BY <1>2, <1>4, <3>1, Ops DEF Owns
    <3>3. pc \in 2..Len(out)
      BY <1>2, <3>1, <3>2
    <3>4. Linked(e, w[pc - 1], out[pc - 1], A, i)
      BY <1>2, <3>1, <3>3 DEF Owns
    <3>5. i.reg \in A \/ out[pc - 1] = ReleaseOf({i.reg})
      BY <1>4, <3>4 DEF Linked, Flows
    <3>6. ASSUME out[pc - 1] = ReleaseOf({i.reg}) PROVE SelfAssign(pc)
      BY <1>2, <1>4, <3>3, <3>6, Ops DEF SelfAssign
    <3> QED
      BY <3>5, <3>6
  <2>2. CASE i.reg \in A
    BY <1>1, <1>2, <1>4, <2>2, ListedLive DEF Sound
  <2> QED
    BY <2>1, <2>2
<1>5. CASE i.op = "release"
  <2>1. i.regs \subseteq A
    BY <1>2, <1>5 DEF Checked
  <2>2. ASSUME NEW r \in i.regs
        PROVE  Live(r) /\ Cardinality(Holders(i.regs, slot[r])) <= count[slot[r]]
    <3>1. Live(r)
      BY <1>1, <1>5, <2>1, ListedLive
    <3>2. /\ slot \in [Registers -> 0..Len(count)] /\ count \in Seq(Nat) /\ A \in SUBSET Registers
          /\ \A o \in 1..Len(count) : Cardinality(Refs(A, i, slot, o)) <= count[o]
      BY <1>1 DEF At, Accounts
    <3>3. PICK o : o = slot[r]
      OBVIOUS
    <3>4. o \in 1..Len(count) /\ count[o] \in Nat
      BY <2>1, <3>1, <3>2, <3>3 DEF Live
    <3>5. Holders(i.regs, o) \subseteq Refs(A, i, slot, o)
      BY <1>5, <2>1 DEF Holders, Refs, Via
    <3>6. IsFiniteSet(Refs(A, i, slot, o)) /\ Cardinality(Refs(A, i, slot, o)) \in Nat
      BY <3>2, RefsFinite
    <3>7. IsFiniteSet(Holders(i.regs, o)) /\ Cardinality(Holders(i.regs, o)) <= Cardinality(Refs(A, i, slot, o))
      BY <3>5, <3>6, FS_Subset
    <3>8. Cardinality(Holders(i.regs, o)) \in Nat
      BY <3>7, FS_CardinalityType
    <3>9. Cardinality(Refs(A, i, slot, o)) <= count[o]
      BY <3>2, <3>4
    <3>10. Cardinality(Holders(i.regs, o)) <= count[o]
      BY <3>4, <3>6, <3>7, <3>8, <3>9
    <3> QED
      BY <3>1, <3>3, <3>10
  <2> QED
    BY <1>2, <1>5, <2>2 DEF Sound
<1>6. CASE i.op \notin {"use", "retain", "release"}
  BY <1>2, <1>6 DEF Sound
<1> QED
  BY <1>3, <1>4, <1>5, <1>6

(* No path through a finished function reads or releases a freed object or a variable *)
(* it has not initialised, deferred calls and x = x apart.                            *)
THEOREM MemorySafe == Spec => []NoUseAfterFree
BY RunInvariance, NothingFreed, PTL

(* A return is entered with the parameters.                                   *)
LEMMA CallerHolds == ASSUME RInv PROVE CallerKeeps
<1> SUFFICES ASSUME Halted, NEW r \in ParamRegs, ~Stored(r) PROVE count[r] >= 1
  BY DEF CallerKeeps, ParamRegs
<1>0. Running
  BY DEF Halted, Running
<1>1. PICK G, w, e, i, A : At(G, w, e, i, A)
  BY <1>0, Ready
<1>2. i.op \in {"ret", "unreachable"} /\ Checked(e, G, A, i)
  BY <1>1 DEF At, Halted, Here
<1>3. r \in A
  BY <1>2 DEF Checked, Fits
<1>4. Live(r)
  BY <1>1, <1>2, <1>3, ListedLive
<1>5. slot[r] = r
  BY <1>0 DEF RInv, Running, Accounted, Keeps
<1>6. r \in 1..Len(count) /\ count \in Seq(Nat)
  BY <1>0, <1>1 DEF RInv, Running, Accounted, At, Accounts
<1> QED
  BY <1>4, <1>5, <1>6 DEF Live

(* What is returned is held at the return, beside the parameters.             *)
LEMMA ResultHolds == ASSUME RInv PROVE ResultKept
<1> SUFFICES ASSUME Halted, Here.op = "ret", Here.reg # 0, NEW r, r = Here.reg
             PROVE  Live(r) /\ Cardinality(Holders(1..Len(Params) \cup {r}, slot[r])) <= count[slot[r]]
  BY DEF ResultKept
<1>1. PICK G, w, e, i, A : At(G, w, e, i, A)
  BY Ready DEF Halted, Running
<1>2. i = Here /\ i.op = "ret" /\ Checked(e, G, A, i)
  BY <1>1 DEF At, Here
<1>3. r \in A /\ ParamRegs \subseteq A
  BY <1>2 DEF Checked, Fits
<1>4. Live(r)
  BY <1>1, <1>2, <1>3, ListedLive
<1>5. /\ slot \in [Registers -> 0..Len(count)] /\ count \in Seq(Nat) /\ A \in SUBSET Registers
      /\ \A o \in 1..Len(count) : Cardinality(Refs(A, i, slot, o)) <= count[o]
  BY <1>1 DEF At, Accounts
<1>6. PICK o : o = slot[r]
  OBVIOUS
<1>7. o \in 1..Len(count) /\ count[o] \in Nat
  BY <1>3, <1>4, <1>5, <1>6 DEF Live
<1>8. Holders(1..Len(Params) \cup {r}, o) \subseteq Refs(A, i, slot, o)
  BY <1>2, <1>3 DEF Holders, Refs, Via, ParamRegs
<1>9. /\ IsFiniteSet(Refs(A, i, slot, o)) /\ Cardinality(Refs(A, i, slot, o)) \in Nat
      /\ Cardinality(Refs(A, i, slot, o)) <= count[o]
  BY <1>5, <1>7, RefsFinite
<1>10. /\ IsFiniteSet(Holders(1..Len(Params) \cup {r}, o))
       /\ Cardinality(Holders(1..Len(Params) \cup {r}, o)) <= Cardinality(Refs(A, i, slot, o))
  BY <1>8, <1>9, FS_Subset
<1>11. Cardinality(Holders(1..Len(Params) \cup {r}, o)) \in Nat
  BY <1>10, FS_CardinalityType
<1>12. Cardinality(Holders(1..Len(Params) \cup {r}, o)) <= count[o]
  BY <1>7, <1>9, <1>10, <1>11
<1> QED
  BY <1>4, <1>6, <1>12

(* An exact return is entered with the parameters and nothing else.           *)
LEMMA NothingStays == ASSUME RInv PROVE NothingLeaks
<1> SUFFICES ASSUME Halted, Exact, ParamsKept, NEW o \in 1..Len(count)
             PROVE  count[o] = IF o <= Len(Params) THEN 1 ELSE 0
  BY DEF NothingLeaks, Exact
<1>0. Running
  BY DEF Halted, Running
<1>1. PICK G, w, e, i, A : At(G, w, e, i, A)
  BY <1>0, Ready
<1>2. e /\ i.op \in {"ret", "unreachable"} /\ Checked(e, G, A, i)
  BY <1>1 DEF At, Halted, Here
<1>3. A = ParamRegs
  BY <1>2 DEF Checked, Fits
<1>4. count[o] = Cardinality(Refs(A, i, slot, o)) /\ count \in Seq(Nat)
  BY <1>1, <1>2 DEF At, Accounts
<1>5. \A r \in ParamRegs : slot[r] = r
  BY <1>0 DEF RInv, Running, Accounted, Keeps, ParamsKept, ParamRegs
<1>6. \A r : Via(i, r) = r
  BY <1>2 DEF Via
<1>7. CASE o <= Len(Params)
  <2>1. o \in ParamRegs
    BY <1>7 DEF ParamRegs
  <2>2. Refs(A, i, slot, o) = {o}
    BY <1>3, <1>5, <1>6, <2>1 DEF Refs
  <2> QED
    BY <1>4, <1>7, <2>2, FS_Singleton
<1>8. CASE ~(o <= Len(Params))
  <2>1. o \notin ParamRegs
    BY <1>8 DEF ParamRegs
  <2>2. Refs(A, i, slot, o) = {}
    BY <1>3, <1>5, <1>6, <2>1 DEF Refs
  <2> QED
    BY <1>4, <1>8, <2>2, FS_EmptySet
<1> QED
  BY <1>7, <1>8

(* When a run ends, whichever way it took, a parameter nothing was assigned to still   *)
(* has the caller's reference and a returned value one of its own; and a function      *)
(* that returns no value, lets nothing escape, assigns to no parameter and holds no    *)
(* statement that skips releases has released everything it allocated, exactly once.   *)
(* What the others leave behind is outside the theorem.                               *)
THEOREM ReferencesSettled == Spec => []ReferencesBalance
<1>1. RInv => ReferencesBalance
  BY CallerHolds, ResultHolds, NothingStays DEF ReferencesBalance
<1> QED
  BY <1>1, RunInvariance, PTL

=============================================================================
