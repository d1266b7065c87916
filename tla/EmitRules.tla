------------------------------ MODULE EmitRules ------------------------------
(***************************************************************************)
(* Three judgements about a listing, the code the emitter has written so    *)
(* far, and a rule for each piece of code that an emitXStmt of Emit writes. *)
(*                                                                          *)
(* Shape: every block ends in its one terminator.  Land: every label placed *)
(* is placed once, and T holds the labels branches name.  Own: there is a   *)
(* register set for each instruction, those that hold a reference whenever a*)
(* path reaches it, which agrees with what the instructions do: a typing of *)
(* the code by the references it holds, with G the set of each label.       *)
(*                                                                          *)
(* Each rule says that a listing of which the three hold may be followed by *)
(* the piece, and with which labels and registers it then ends.  EmitProofs *)
(* puts them together along the actions of Emit.  Two flags weaken them to  *)
(* what the code does: rng, the body holds a range loop, lets releases stand*)
(* outside blocks; ~e, the body holds a statement that skips releases or a  *)
(* variable escapes, lets a path forget references it holds.                *)
(***************************************************************************)
EXTENDS Emit, SequenceTheorems, FiniteSetTheorems, TLAPS

-----------------------------------------------------------------------------
(* Instructions.                                                             *)

(* The registers a body may use, and those of its parameters.                *)
Registers == 1..MaxRegs
ParamRegs == 1..Len(Params)

(* The instructions, by their operands.                                      *)
Code ==
    [op : {"label", "br"}, to : SUBSET Nat]
        \cup [op : {"unreachable"}]
        \cup [op : {"ret"}, reg : Nat]
        \cup [op : {"new", "retain"}, reg : Registers]
        \cup [op : {"store"}, reg : Registers, from : Registers]
        \cup [op : {"release"}, regs : SUBSET Registers]
        \cup [op : {"use"}, reg : Nat, id : Nat]
        \cup [op : {"sched"}, id : Nat]

(* What the emitter has written: at least the label of the function.         *)
Listing == Seq(Code) \ {<<>>}

(* The one instruction of Release(rs), when there is something to release.   *)
ReleaseOf(rs) == [op |-> "release", regs |-> rs]

(* The instructions the emitter writes are instructions.                      *)
LEMMA CodeTypes ==
    /\ \A l \in Nat : Label(l) \in Code
    /\ \A ls \in SUBSET Nat : Br(ls) \in Code
    /\ Unreachable \in Code /\ \A r \in Nat : Ret(r) \in Code
    /\ \A r \in Registers : New(r) \in Code /\ Retain(r) \in Code
    /\ \A r, s \in Registers : Store(r, s) \in Code
    /\ \A rs \in SUBSET Registers : ReleaseOf(rs) \in Code
    /\ \A r, id \in Nat : Use(r, id) \in Code
    /\ \A id \in Nat : Sched(id) \in Code
<1>1. \A l \in Nat : Label(l) \in [op : {"label", "br"}, to : SUBSET Nat]
  BY DEF Label
<1>2. \A ls \in SUBSET Nat : Br(ls) \in [op : {"label", "br"}, to : SUBSET Nat]
  BY DEF Br
<1>3. Unreachable \in [op : {"unreachable"}] /\ \A r \in Nat : Ret(r) \in [op : {"ret"}, reg : Nat]
  BY DEF Ret, Unreachable
<1>4. \A r \in Registers : /\ New(r) \in [op : {"new", "retain"}, reg : Registers]
                           /\ Retain(r) \in [op : {"new", "retain"}, reg : Registers]
  BY DEF New, Retain
<1>5. \A r, s \in Registers : Store(r, s) \in [op : {"store"}, reg : Registers, from : Registers]
  BY DEF Store
<1>6. \A rs \in SUBSET Registers : ReleaseOf(rs) \in [op : {"release"}, regs : SUBSET Registers]
  BY DEF ReleaseOf
<1>7. \A r, id \in Nat : Use(r, id) \in [op : {"use"}, reg : Nat, id : Nat]
  BY DEF Use
<1>8. \A id \in Nat : Sched(id) \in [op : {"sched"}, id : Nat]
  BY DEF Sched
<1> QED
  BY <1>1, <1>2, <1>3, <1>4, <1>5, <1>6, <1>7, <1>8 DEF Code

(* The operation and the operands of each instruction.                        *)
LEMMA Ops ==
    /\ \A l : Label(l).op = "label" /\ Label(l).to = {l}
    /\ \A ls : Br(ls).op = "br" /\ Br(ls).to = ls
    /\ Unreachable.op = "unreachable" /\ \A r : Ret(r).op = "ret" /\ Ret(r).reg = r
    /\ \A r : New(r).op = "new" /\ New(r).reg = r
    /\ \A r : Retain(r).op = "retain" /\ Retain(r).reg = r
    /\ \A r, s : Store(r, s).op = "store" /\ Store(r, s).reg = r /\ Store(r, s).from = s
    /\ \A rs : ReleaseOf(rs).op = "release" /\ ReleaseOf(rs).regs = rs
    /\ \A r, id : Use(r, id).op = "use" /\ Use(r, id).reg = r /\ Use(r, id).id = id
    /\ \A id : Sched(id).op = "sched" /\ Sched(id).id = id
BY DEF Label, Br, Ret, Unreachable, New, Retain, Store, ReleaseOf, Use, Sched

(* Two labels with one number are one label.                                  *)
LEMMA LabelInj == \A l, m : Label(l) = Label(m) => l = m
<1> SUFFICES ASSUME NEW l, NEW m, Label(l) = Label(m) PROVE l = m
  OBVIOUS
<1>1. {l} = {m}
  BY Ops
<1> QED
  BY <1>1

-----------------------------------------------------------------------------
(* The three judgements.                                                     *)

(* RangeCleanup of a listing c.                                              *)
Cleanup(c, i) == i \in 2..Len(c) /\ c[i].op = "release" /\ EndsBlock(c[i - 1])

(* Blocks: whether the last instruction ends one; labels where one ended.     *)
Joined(rng, c, i) ==
    \/ EndsBlock(c[i - 1]) <=> c[i].op = "label"
    \/ rng /\ (Cleanup(c, i) \/ Cleanup(c, i - 1))

(* Every instruction is joined to the one before, and ends tells what the last is.*)
Shape(rng, c, ends) ==
    /\ ends \in BOOLEAN
    /\ ends <=> EndsBlock(c[Len(c)])
    /\ \A i \in 2..Len(c) : Joined(rng, c, i)

(* Labels: those of P are placed, each once, and the branches go to T.        *)
Land(c, P, T) ==
    /\ \A i \in 1..Len(c) : c[i].op = "label" => \E l \in P : c[i] = Label(l)
    /\ \A l \in P : \E i \in 1..Len(c) :
          c[i] = Label(l) /\ \A j \in 1..Len(c) : c[j] = Label(l) => j = i
    /\ \A i \in 1..Len(c) : c[i].op = "br" => c[i].to \subseteq T

(* A path that holds the registers Y may go where X is expected: it may forget *)
(* references unless e.                                                      *)
Fits(e, X, Y) == X \subseteq Y /\ (e => X = Y)

(* The registers that hold a reference after i, entered with A.              *)
After(A, i) ==
    IF i.op = "new" THEN A \cup {i.reg}
    ELSE IF i.op = "release" THEN A \ i.regs
    ELSE A

(* Those before j, which follows i.  A store takes over the reference that the *)
(* retain before it has counted, or that of the register it is stored from.  *)
Before(A, i, j) ==
    IF j.op # "store" THEN After(A, i)
    ELSE IF i.op = "retain" THEN A \cup {j.reg}
    ELSE A \ {j.from}

(* What i may do when entered with A: use and release what is held, give new *)
(* objects to registers that hold none, leave with the parameters and with    *)
(* what is returned.                                                         *)
Checked(e, G, A, i) ==
    /\ i.op = "label" => \A l \in i.to : A = G[l]
    /\ i.op = "br" => \A l \in i.to : Fits(e, G[l], A)
    /\ i.op \in {"ret", "unreachable"} => Fits(e, ParamRegs, A)
    /\ i.op = "ret" /\ i.reg # 0 => i.reg \in A /\ ~e
    /\ i.op = "new" => i.reg \in Registers \ (A \cup ParamRegs)
    /\ i.op = "store" => i.reg \in A
    /\ i.op = "release" => i.regs \subseteq A
    /\ i.op = "use" => i.id # 0 \/ i.reg \in A

(* The two ways code stores: after a retain of the value, or after the release *)
(* of the old value.                                                         *)
Copies(A, i, j) == i = Retain(j.from) /\ j.reg \notin A
Moves(A, i, j)  == i = ReleaseOf({j.reg}) /\ j.from \in A /\ j.reg \in A /\ j.from # j.reg

(* i, entered with A, is followed by j, entered with B, in one block.        *)
Flows(e, A, i, B, j) ==
    /\ Fits(e, B, Before(A, i, j))
    /\ j.op = "store" => Copies(A, i, j) \/ Moves(A, i, j)
    /\ i.op = "retain" => j.op = "store" \/ ~e
    /\ j.op = "retain" => j.reg \in B \/ i = ReleaseOf({j.reg})

(* The same for any two instructions in a row: nothing flows out of a terminator. *)
Linked(e, A, i, B, j) ==
    \/ EndsBlock(i) /\ j.op \in {"label", "release"}
    \/ ~EndsBlock(i) /\ Flows(e, A, i, B, j)

(* Instruction k of c is entered with the registers w[k].                    *)
Owns(e, G, w, c) ==
    /\ w \in Seq(SUBSET Registers) /\ Len(w) = Len(c)
    /\ w[1] = ParamRegs /\ c[1] = Label(0)
    /\ \A i \in 1..Len(c) : Checked(e, G, w[i], c[i])
    /\ \A i \in 2..Len(c) : Linked(e, w[i - 1], c[i - 1], w[i], c[i])

(* The last instruction of a piece, entered with B, leaves A.                  *)
Leaves(e, B, i, A) ==
    \/ EndsBlock(i)
    \/ Fits(e, A, After(B, i)) /\ (i.op = "retain" => ~e)

(* The code c owns what it releases and uses, and leaves the registers A.     *)
Own(e, G, c, A) ==
    \E w : Owns(e, G, w, c) /\ Leaves(e, w[Len(c)], c[Len(c)], A)

(* The three judgements of the code c, which leaves the registers A.         *)
Emitted(rng, e, G, c, ends, P, T, A) ==
    c \in Listing /\ Shape(rng, c, ends) /\ Land(c, P, T) /\ Own(e, G, c, A)

-----------------------------------------------------------------------------
(* One more instruction.                                                     *)

(* A listing with one more instruction, and where its instructions are.       *)
LEMMA Longer ==
    ASSUME NEW c \in Listing, NEW i \in Code
    PROVE  /\ Append(c, i) \in Listing
           /\ c \o <<i>> = Append(c, i)
           /\ Len(c) \in Nat \ {0}
           /\ Len(Append(c, i)) = Len(c) + 1
           /\ \A k \in 1..Len(c) : Append(c, i)[k] = c[k]
           /\ Append(c, i)[Len(c) + 1] = i
BY DEF Listing

(* One more instruction keeps blocks closed: a label after a terminator,      *)
(* anything else inside a block; a range loop may write releases in           *)
(* between.                                                                   *)
LEMMA PushShape ==
    ASSUME NEW c \in Listing, NEW i \in Code, NEW rng \in BOOLEAN, NEW ends,
           NEW f \in BOOLEAN, f <=> EndsBlock(i),
           Shape(rng, c, ends),
           (ends <=> i.op = "label") \/ (rng /\ i.op = "release" /\ ends)
             \/ (rng /\ i.op = "label" /\ Cleanup(c, Len(c)))
    PROVE  Shape(rng, Append(c, i), f)
<1> DEFINE d == Append(c, i)
<1>1. /\ d \in Listing /\ Len(c) \in Nat \ {0} /\ Len(d) = Len(c) + 1
      /\ \A k \in 1..Len(c) : d[k] = c[k]
      /\ d[Len(c) + 1] = i
  BY Longer
<1> HIDE DEF d
<1>2. ASSUME NEW k \in 2..Len(c) PROVE Cleanup(d, k) <=> Cleanup(c, k)
  BY <1>1 DEF Cleanup, EndsBlock
<1>3. ASSUME NEW k \in 2..Len(c) PROVE Joined(rng, d, k)
  <2>1. Joined(rng, c, k)
    BY DEF Shape
  <2>2. d[k] = c[k] /\ d[k - 1] = c[k - 1]
    BY <1>1
  <2>3. Cleanup(c, k - 1) => Cleanup(d, k - 1)
    <3>1. CASE k - 1 \in 2..Len(c)
      BY <1>2, <3>1
    <3>2. CASE k - 1 \notin 2..Len(c)
      BY <3>2 DEF Cleanup
    <3> QED
      BY <3>1, <3>2
  <2> QED
    BY <1>2, <2>1, <2>2, <2>3 DEF Joined
<1>4. Joined(rng, d, Len(d))
  <2>1. d[Len(d)] = i /\ d[Len(d) - 1] = c[Len(c)] /\ Len(d) \in 2..Len(d) /\ Len(d) - 1 = Len(c)
    BY <1>1
  <2>2. ends <=> EndsBlock(c[Len(c)])
    BY DEF Shape
  <2>3. CASE ends <=> i.op = "label"
    BY <2>1, <2>2, <2>3 DEF Joined
  <2>4. CASE rng /\ i.op = "release" /\ ends
    BY <2>1, <2>2, <2>4 DEF Joined, Cleanup
  <2>5. CASE rng /\ i.op = "label" /\ Cleanup(c, Len(c))
    <3>1. Cleanup(d, Len(d) - 1)
      <4>1. Len(c) \in 2..Len(c)
        BY <2>5 DEF Cleanup
      <4> QED
        BY <1>2, <2>1, <2>5, <4>1
    <3> QED
      BY <2>5, <3>1 DEF Joined
  <2> QED
    BY <2>3, <2>4, <2>5
<1>5. \A k \in 2..Len(d) : Joined(rng, d, k)
  <2>1. \A k \in 2..Len(d) : k \in 2..Len(c) \/ k = Len(d)
    BY <1>1
  <2> QED
    BY <1>3, <1>4, <2>1
<1>6. f <=> EndsBlock(d[Len(d)])
  BY <1>1
<1> QED
  BY <1>5, <1>6 DEF Shape, d

(* One more instruction keeps every label in its place: a label is new, a     *)
(* branch adds the labels it names.                                           *)
LEMMA PushLand ==
    ASSUME NEW c \in Listing, NEW i \in Code, NEW P, NEW T, Land(c, P, T)
    PROVE  /\ i.op \notin {"label", "br"} => Land(Append(c, i), P, T)
           /\ i.op = "br" => Land(Append(c, i), P, T \cup i.to)
           /\ \A l : i = Label(l) /\ l \notin P => Land(Append(c, i), P \cup {l}, T)
<1> DEFINE d == Append(c, i)
<1>1. /\ d \in Listing /\ Len(c) \in Nat \ {0} /\ Len(d) = Len(c) + 1
      /\ \A k \in 1..Len(c) : d[k] = c[k]
      /\ d[Len(c) + 1] = i
  BY Longer
<1>2. \A k \in 1..Len(d) : k \in 1..Len(c) \/ k = Len(c) + 1
  BY <1>1
<1>3. 1..Len(c) \subseteq 1..Len(d) /\ Len(c) + 1 \in 1..Len(d) /\ Len(c) + 1 \notin 1..Len(c)
  BY <1>1
<1> HIDE DEF d
<1>4. ASSUME NEW l \in P, i # Label(l)
      PROVE  \E k \in 1..Len(d) : d[k] = Label(l) /\ \A j \in 1..Len(d) : d[j] = Label(l) => j = k
  <2>1. PICK k \in 1..Len(c) : c[k] = Label(l) /\ \A j \in 1..Len(c) : c[j] = Label(l) => j = k
    BY DEF Land
  <2>2. k \in 1..Len(d) /\ d[k] = Label(l)
    BY <1>1, <1>3, <2>1
  <2>3. ASSUME NEW j \in 1..Len(d), d[j] = Label(l) PROVE j = k
    BY <1>1, <1>2, <1>4, <2>1, <2>3
  <2> QED
    BY <2>2, <2>3
<1>5. CASE i.op \notin {"label", "br"}
  <2>1. \A l : i # Label(l)
    BY <1>5, Ops
  <2>2. \A k \in 1..Len(d) : d[k].op = "label" => \E l \in P : d[k] = Label(l)
    BY <1>1, <1>2, <1>5 DEF Land
  <2>3. \A k \in 1..Len(d) : d[k].op = "br" => d[k].to \subseteq T
    BY <1>1, <1>2, <1>5 DEF Land
  <2>4. Land(d, P, T)
    BY <1>4, <2>1, <2>2, <2>3 DEF Land
  <2> QED
    BY <1>5, <2>1, <2>4 DEF d
<1>6. CASE i.op = "br"
  <2>1. \A l : i # Label(l)
    BY <1>6, Ops
  <2>2. \A k \in 1..Len(d) : d[k].op = "label" => \E l \in P : d[k] = Label(l)
    BY <1>1, <1>2, <1>6 DEF Land
  <2>3. \A k \in 1..Len(d) : d[k].op = "br" => d[k].to \subseteq T \cup i.to
    BY <1>1, <1>2, <1>6 DEF Land
  <2>4. Land(d, P, T \cup i.to)
    BY <1>4, <2>1, <2>2, <2>3 DEF Land
  <2> QED
    BY <1>6, <2>1, <2>4 DEF d
<1>7. ASSUME NEW m, i = Label(m), m \notin P
      PROVE  Land(d, P \cup {m}, T) /\ i.op = "label"
  <2>0. i.op = "label"
    BY <1>7, Ops
  <2>1. \A l \in P : i # Label(l)
    BY <1>7, LabelInj
  <2>2. \A k \in 1..Len(d) : d[k].op = "label" => \E l \in P \cup {m} : d[k] = Label(l)
    BY <1>1, <1>2, <1>7 DEF Land
  <2>3. \A k \in 1..Len(d) : d[k].op = "br" => d[k].to \subseteq T
    BY <1>1, <1>2, <2>0 DEF Land
  <2>4. \A k \in 1..Len(c) : c[k] # Label(m)
    BY <1>7, <2>1, Ops DEF Land
  <2>5. \E k \in 1..Len(d) : d[k] = Label(m) /\ \A j \in 1..Len(d) : d[j] = Label(m) => j = k
    BY <1>1, <1>2, <1>3, <1>7, <2>4
  <2>6. \A l \in P \cup {m} :
            \E k \in 1..Len(d) : d[k] = Label(l) /\ \A j \in 1..Len(d) : d[j] = Label(l) => j = k
    BY <1>4, <2>1, <2>5
  <2>7. Land(d, P \cup {m}, T)
    BY <2>2, <2>3, <2>6 DEF Land
  <2> QED
    BY <2>0, <2>7
<1> QED
  BY <1>5, <1>6, <1>7, Ops DEF d

(* A new label is placed.                                                     *)
LEMMA PushLabel ==
    ASSUME NEW c \in Listing, NEW P, NEW T, NEW l \in Nat, Land(c, P, T), l \notin P
    PROVE  Land(Append(c, Label(l)), P \cup {l}, T)
<1> DEFINE i == Label(l)
<1>1. i \in Code /\ i = Label(l)
  BY CodeTypes
<1> HIDE DEF i
<1>2. Land(Append(c, i), P \cup {l}, T)
  BY <1>1, PushLand
<1> QED
  BY <1>2 DEF i

(* One more instruction, entered with registers B that its predecessor        *)
(* leaves.                                                                    *)
LEMMA PushOwns ==
    ASSUME NEW c \in Listing, NEW i \in Code, NEW e, NEW G, NEW w,
           NEW B \in SUBSET Registers,
           Owns(e, G, w, c), Checked(e, G, B, i),
           Linked(e, w[Len(c)], c[Len(c)], B, i)
    PROVE  \E v : Owns(e, G, v, Append(c, i)) /\ v[Len(c) + 1] = B
<1> DEFINE d == Append(c, i)
           v == Append(w, B)
<1>1. /\ d \in Listing /\ Len(c) \in Nat \ {0} /\ Len(d) = Len(c) + 1
      /\ \A k \in 1..Len(c) : d[k] = c[k]
      /\ d[Len(c) + 1] = i
  BY Longer
<1>2. /\ v \in Seq(SUBSET Registers) /\ Len(v) = Len(c) + 1
      /\ \A k \in 1..Len(c) : v[k] = w[k]
      /\ v[Len(c) + 1] = B
  BY DEF Owns
<1> HIDE DEF d, v
<1>3. \A k \in 1..Len(d) : Checked(e, G, v[k], d[k])
  BY <1>1, <1>2 DEF Owns
<1>4. ASSUME NEW k \in 2..Len(d) PROVE Linked(e, v[k - 1], d[k - 1], v[k], d[k])
  <2>1. CASE k \in 2..Len(c)
    <3>1. v[k - 1] = w[k - 1] /\ d[k - 1] = c[k - 1] /\ v[k] = w[k] /\ d[k] = c[k]
      BY <1>1, <1>2, <2>1
    <3> QED
      BY <2>1, <3>1 DEF Owns
  <2>2. CASE k = Len(c) + 1
    <3>1. v[k - 1] = w[Len(c)] /\ d[k - 1] = c[Len(c)] /\ v[k] = B /\ d[k] = i
      BY <1>1, <1>2, <2>2
    <3> QED
      BY <3>1
  <2> QED
    BY <1>1, <2>1, <2>2
<1>5. v[1] = ParamRegs /\ d[1] = Label(0)
  BY <1>1, <1>2 DEF Owns
<1>6. Owns(e, G, v, d)
  BY <1>1, <1>2, <1>3, <1>4, <1>5 DEF Owns
<1>7. \E u : Owns(e, G, u, d) /\ u[Len(c) + 1] = B
  BY <1>2, <1>6
<1> QED
  BY <1>7 DEF d

(* The same, with the registers the longer listing leaves.                    *)
LEMMA PushOwn ==
    ASSUME NEW c \in Listing, NEW i \in Code, NEW e, NEW G, NEW w,
           NEW B \in SUBSET Registers, NEW A2,
           Owns(e, G, w, c), Checked(e, G, B, i),
           Linked(e, w[Len(c)], c[Len(c)], B, i),
           Leaves(e, B, i, A2)
    PROVE  Own(e, G, Append(c, i), A2)
<1>1. PICK v : Owns(e, G, v, Append(c, i)) /\ v[Len(c) + 1] = B
  BY PushOwns
<1>2. Len(Append(c, i)) = Len(c) + 1 /\ Append(c, i)[Len(c) + 1] = i
  BY Longer
<1> QED
  BY <1>1, <1>2 DEF Own

-----------------------------------------------------------------------------
(* The rules: what each piece of code does to the judgements.                 *)

(* Which instructions end a block.                                            *)
LEMMA Ending ==
    /\ \A ls : EndsBlock(Br(ls))
    /\ EndsBlock(Unreachable) /\ \A r : EndsBlock(Ret(r))
    /\ \A i : i.op \notin {"br", "ret", "unreachable"} => ~EndsBlock(i)
BY Ops DEF EndsBlock

(* An instruction after c, entered with B, that leaves A2.                    *)
LEMMA PushCode ==
    ASSUME NEW rng \in BOOLEAN, NEW e \in BOOLEAN, NEW G, NEW c, NEW ends, NEW P, NEW T, NEW A,
           NEW i \in Code, NEW f \in BOOLEAN, NEW P2, NEW T2, NEW B \in SUBSET Registers, NEW A2,
           Emitted(rng, e, G, c, ends, P, T, A),
           f <=> EndsBlock(i),
           (ends <=> i.op = "label") \/ (rng /\ i.op = "release" /\ ends)
             \/ (rng /\ i.op = "label" /\ Cleanup(c, Len(c))),
           Land(Append(c, i), P2, T2),
           Checked(e, G, B, i),
           \A S : Leaves(e, S, c[Len(c)], A) => Linked(e, S, c[Len(c)], B, i),
           Leaves(e, B, i, A2)
    PROVE  Emitted(rng, e, G, c \o <<i>>, f, P2, T2, A2)
<1>1. c \in Listing /\ Shape(rng, c, ends) /\ Own(e, G, c, A)
  BY DEF Emitted
<1>2. /\ Append(c, i) \in Listing /\ c \o <<i>> = Append(c, i)
      /\ Append(c, i)[Len(Append(c, i))] = i
  BY <1>1, Longer
<1>3. Shape(rng, Append(c, i), f)
  BY <1>1, PushShape
<1>4. PICK w : Owns(e, G, w, c) /\ Leaves(e, w[Len(c)], c[Len(c)], A)
  BY <1>1 DEF Own
<1>5. Linked(e, w[Len(c)], c[Len(c)], B, i)
  BY <1>4
<1>6. Own(e, G, Append(c, i), A2)
  BY <1>1, <1>4, <1>5, PushOwn
<1> QED
  BY <1>2, <1>3, <1>6 DEF Emitted

(* Two instructions after c, entered with B and C.                             *)
LEMMA PushPair ==
    ASSUME NEW rng \in BOOLEAN, NEW e \in BOOLEAN, NEW G, NEW c, NEW ends, NEW P, NEW T, NEW A,
           NEW i \in Code, NEW j \in Code, NEW B \in SUBSET Registers, NEW C \in SUBSET Registers,
           NEW f \in BOOLEAN, NEW P2, NEW T2, NEW A2,
           Emitted(rng, e, G, c, ends, P, T, A),
           ~EndsBlock(i), f <=> EndsBlock(j),
           (ends <=> i.op = "label") \/ (rng /\ i.op = "release" /\ ends),
           j.op # "label" \/ (rng /\ i.op = "release" /\ ends),
           Land(Append(Append(c, i), j), P2, T2),
           Checked(e, G, B, i), Checked(e, G, C, j),
           \A S : Leaves(e, S, c[Len(c)], A) => Linked(e, S, c[Len(c)], B, i),
           Linked(e, B, i, C, j),
           Leaves(e, C, j, A2)
    PROVE  Emitted(rng, e, G, c \o <<i, j>>, f, P2, T2, A2)
<1> DEFINE d == Append(c, i)
<1>1. /\ c \in Listing /\ Shape(rng, c, ends) /\ Own(e, G, c, A)
      /\ c \in Seq(Code) /\ Len(c) \in Nat \ {0}
  BY Longer DEF Emitted, Listing
<1>2. /\ d \in Listing /\ Len(d) = Len(c) + 1 /\ d[Len(d)] = i
      /\ d[Len(c)] = c[Len(c)]
      /\ Append(d, j) \in Listing /\ c \o <<i, j>> = Append(d, j)
  <2>1. c \o <<i, j>> = Append(d, j)
    BY <1>1
  <2>2. d \in Listing /\ Len(d) = Len(c) + 1 /\ d[Len(c) + 1] = i
        /\ \A k \in 1..Len(c) : d[k] = c[k]
    BY <1>1, Longer
  <2>3. Append(d, j) \in Listing
    BY <2>2, Longer
  <2> HIDE DEF d
  <2>4. d[Len(c)] = c[Len(c)]
    BY <1>1, <2>2
  <2> QED
    BY <2>1, <2>2, <2>3, <2>4
<1>3. Shape(rng, d, FALSE)
  BY <1>1, PushShape
<1> HIDE DEF d
<1>4. (rng /\ i.op = "release" /\ ends) => Cleanup(d, Len(d))
  BY <1>1, <1>2 DEF Cleanup, Shape
<1>5. Shape(rng, Append(d, j), f)
  BY <1>2, <1>3, <1>4, PushShape
<1>6. PICK w : Owns(e, G, w, c) /\ Leaves(e, w[Len(c)], c[Len(c)], A)
  BY <1>1 DEF Own
<1>7. PICK v : Owns(e, G, v, d) /\ v[Len(d)] = B
  BY <1>1, <1>2, <1>6, PushOwns DEF d
<1>8. Own(e, G, Append(d, j), A2)
  BY <1>2, <1>7, PushOwn
<1>9. Land(Append(d, j), P2, T2)
  BY DEF d
<1> QED
  BY <1>2, <1>5, <1>8, <1>9 DEF Emitted

(* An instruction between others that ends no block.                          *)
LEMMA RulePlain ==
    ASSUME NEW rng \in BOOLEAN, NEW e \in BOOLEAN, NEW G, NEW c, NEW P, NEW T,
           NEW A \in SUBSET Registers, NEW i \in Code,
           Emitted(rng, e, G, c, FALSE, P, T, A),
           i.op \notin {"br", "ret", "unreachable", "label", "store"},
           Checked(e, G, A, i),
           i.op = "retain" => i.reg \in A /\ ~e
    PROVE  Emitted(rng, e, G, c \o <<i>>, FALSE, P, T, After(A, i))
<1>1. c \in Listing /\ ~EndsBlock(c[Len(c)]) /\ Land(c, P, T)
  BY DEF Emitted, Shape
<1>2. ~EndsBlock(i)
  BY Ending
<1>3. Land(Append(c, i), P, T)
  BY <1>1, PushLand
<1>4. \A S : Leaves(e, S, c[Len(c)], A) => Linked(e, S, c[Len(c)], A, i)
  BY <1>1 DEF Leaves, Linked, Flows, Before
<1>5. Leaves(e, A, i, After(A, i))
  BY DEF Leaves, Fits
<1> QED
  BY <1>2, <1>3, <1>4, <1>5, PushCode

(* A fresh object.                                                            *)
LEMMA RuleNew ==
    ASSUME NEW rng \in BOOLEAN, NEW e \in BOOLEAN, NEW G, NEW c, NEW P, NEW T,
           NEW A \in SUBSET Registers, NEW r \in Registers \ (A \cup ParamRegs),
           Emitted(rng, e, G, c, FALSE, P, T, A)
    PROVE  Emitted(rng, e, G, c \o <<New(r)>>, FALSE, P, T, A \cup {r})
<1>1. Checked(e, G, A, New(r)) /\ After(A, New(r)) = A \cup {r}
  BY Ops DEF Checked, After
<1>2. New(r) \in Code /\ New(r).op = "new"
  BY CodeTypes, Ops
<1>3. Emitted(rng, e, G, c \o <<New(r)>>, FALSE, P, T, After(A, New(r)))
  BY <1>1, <1>2, RulePlain
<1> QED
  BY <1>1, <1>3

(* A call that reads a variable, or a deferred one.                            *)
LEMMA RuleUse ==
    ASSUME NEW rng \in BOOLEAN, NEW e \in BOOLEAN, NEW G, NEW c, NEW P, NEW T,
           NEW A \in SUBSET Registers, NEW r \in Nat, NEW id \in Nat,
           id # 0 \/ r \in A,
           Emitted(rng, e, G, c, FALSE, P, T, A)
    PROVE  Emitted(rng, e, G, c \o <<Use(r, id)>>, FALSE, P, T, A)
<1>1. Checked(e, G, A, Use(r, id)) /\ After(A, Use(r, id)) = A
  BY Ops DEF Checked, After
<1>2. Use(r, id) \in Code /\ Use(r, id).op = "use"
  BY CodeTypes, Ops
<1>3. Emitted(rng, e, G, c \o <<Use(r, id)>>, FALSE, P, T, After(A, Use(r, id)))
  BY <1>1, <1>2, RulePlain
<1> QED
  BY <1>1, <1>3

(* The mark of a defer statement.                                              *)
LEMMA RuleSched ==
    ASSUME NEW rng \in BOOLEAN, NEW e \in BOOLEAN, NEW G, NEW c, NEW P, NEW T,
           NEW A \in SUBSET Registers, NEW id \in Nat,
           Emitted(rng, e, G, c, FALSE, P, T, A)
    PROVE  Emitted(rng, e, G, c \o <<Sched(id)>>, FALSE, P, T, A)
<1>1. Checked(e, G, A, Sched(id)) /\ After(A, Sched(id)) = A
  BY Ops DEF Checked, After
<1>2. Sched(id) \in Code /\ Sched(id).op = "sched"
  BY CodeTypes, Ops
<1>3. Emitted(rng, e, G, c \o <<Sched(id)>>, FALSE, P, T, After(A, Sched(id)))
  BY <1>1, <1>2, RulePlain
<1> QED
  BY <1>1, <1>3

(* The reference a return of a variable hands to the caller.                   *)
LEMMA RuleRetain ==
    ASSUME NEW rng \in BOOLEAN, NEW e \in BOOLEAN, NEW G, NEW c, NEW P, NEW T,
           NEW A \in SUBSET Registers, NEW r \in A, ~e,
           Emitted(rng, e, G, c, FALSE, P, T, A)
    PROVE  Emitted(rng, e, G, c \o <<Retain(r)>>, FALSE, P, T, A)
<1>1. Checked(e, G, A, Retain(r)) /\ After(A, Retain(r)) = A
  BY Ops DEF Checked, After
<1>2. Retain(r) \in Code /\ Retain(r).op = "retain" /\ Retain(r).reg = r
  BY CodeTypes, Ops
<1>3. Emitted(rng, e, G, c \o <<Retain(r)>>, FALSE, P, T, After(A, Retain(r)))
  BY <1>1, <1>2, RulePlain
<1> QED
  BY <1>1, <1>3

(* The end of a scope, whose registers may be none.                            *)
LEMMA RuleRelease ==
    ASSUME NEW rng \in BOOLEAN, NEW e \in BOOLEAN, NEW G, NEW c, NEW P, NEW T,
           NEW A \in SUBSET Registers, NEW rs \in SUBSET A,
           Emitted(rng, e, G, c, FALSE, P, T, A)
    PROVE  Emitted(rng, e, G, c \o Release(rs), FALSE, P, T, A \ rs)
<1>1. CASE rs = {}
  <2>1. c \o Release(rs) = c
    <3>1. c \in Seq(Code)
      BY DEF Emitted, Listing
    <3>2. c \o <<>> = c
      BY <3>1
    <3> QED
      BY <1>1, <3>2, Zenon DEF Release
  <2> QED
    BY <1>1, <2>1
<1>2. CASE rs # {}
  <2>1. Checked(e, G, A, ReleaseOf(rs)) /\ After(A, ReleaseOf(rs)) = A \ rs
    BY Ops DEF Checked, After
  <2>2. ReleaseOf(rs) \in Code /\ ReleaseOf(rs).op = "release"
    BY CodeTypes, Ops
  <2>3. Release(rs) = <<ReleaseOf(rs)>>
    BY <1>2 DEF Release, ReleaseOf
  <2>4. Emitted(rng, e, G, c \o <<ReleaseOf(rs)>>, FALSE, P, T, After(A, ReleaseOf(rs)))
    BY <2>1, <2>2, RulePlain
  <2> QED
    BY <2>1, <2>3, <2>4
<1> QED
  BY <1>1, <1>2

(* An instruction that ends its block: nothing is owned after it, so any A2 is. *)
LEMMA RuleEnd ==
    ASSUME NEW rng \in BOOLEAN, NEW e \in BOOLEAN, NEW G, NEW c, NEW P, NEW T,
           NEW A \in SUBSET Registers, NEW A2, NEW i \in {Unreachable} \cup {Ret(r) : r \in Nat},
           Emitted(rng, e, G, c, FALSE, P, T, A), Fits(e, ParamRegs, A),
           i = Unreachable \/ i = Ret(0) \/ (~e /\ \E q \in A : i = Ret(q))
    PROVE  Emitted(rng, e, G, c \o <<i>>, TRUE, P, T, A2)
<1>1. c \in Listing /\ ~EndsBlock(c[Len(c)]) /\ Land(c, P, T)
  BY DEF Emitted, Shape
<1>2. EndsBlock(i) /\ i \in Code /\ i.op \in {"ret", "unreachable"}
  BY Ending, CodeTypes, Ops
<1>6. i.op = "ret" /\ i.reg # 0 => i.reg \in A /\ ~e
  BY Ops
<1>3. Land(Append(c, i), P, T)
  BY <1>1, <1>2, PushLand
<1>4. \A S : Leaves(e, S, c[Len(c)], A) => Linked(e, S, c[Len(c)], A, i)
  BY <1>1, <1>2 DEF Leaves, Linked, Flows, Before
<1>5. Leaves(e, A, i, A2) /\ Checked(e, G, A, i)
  BY <1>2, <1>6 DEF Leaves, Checked
<1> QED
  BY <1>2, <1>3, <1>4, <1>5, PushCode

(* A branch, each of whose labels expects the registers that are held.        *)
LEMMA RuleBranch ==
    ASSUME NEW rng \in BOOLEAN, NEW e \in BOOLEAN, NEW G, NEW c, NEW P, NEW T,
           NEW A \in SUBSET Registers, NEW A2, NEW ls \in SUBSET Nat,
           Emitted(rng, e, G, c, FALSE, P, T, A),
           \A l \in ls : Fits(e, G[l], A)
    PROVE  Emitted(rng, e, G, c \o <<Br(ls)>>, TRUE, P, T \cup ls, A2)
<1> DEFINE i == Br(ls)
<1>1. c \in Listing /\ ~EndsBlock(c[Len(c)]) /\ Land(c, P, T)
  BY DEF Emitted, Shape
<1>2. EndsBlock(i) /\ i \in Code /\ i.op = "br" /\ i.to = ls
  BY Ending, CodeTypes, Ops
<1> HIDE DEF i
<1>3. Land(Append(c, i), P, T \cup ls)
  BY <1>1, <1>2, PushLand
<1>4. \A S : Leaves(e, S, c[Len(c)], A) => Linked(e, S, c[Len(c)], A, i)
  BY <1>1, <1>2 DEF Leaves, Linked, Flows, Before
<1>5. Leaves(e, A, i, A2) /\ Checked(e, G, A, i)
  BY <1>2 DEF Leaves, Checked
<1>6. Emitted(rng, e, G, c \o <<i>>, TRUE, P, T \cup ls, A2)
  BY <1>2, <1>3, <1>4, <1>5, PushCode
<1> QED
  BY <1>6 DEF i

(* A label after the end of a block: what is owned is what its label says.      *)
LEMMA RuleLabel ==
    ASSUME NEW rng \in BOOLEAN, NEW e \in BOOLEAN, NEW G, NEW c, NEW P, NEW T, NEW A,
           NEW l \in Nat, l \notin P, G[l] \in SUBSET Registers,
           Emitted(rng, e, G, c, TRUE, P, T, A)
    PROVE  Emitted(rng, e, G, c \o <<Label(l)>>, FALSE, P \cup {l}, T, G[l])
<1> DEFINE i == Label(l)
           B == G[l]
<1>1. c \in Listing /\ EndsBlock(c[Len(c)]) /\ Land(c, P, T)
  BY DEF Emitted, Shape
<1>2. ~EndsBlock(i) /\ i \in Code /\ i.op = "label" /\ i.to = {l} /\ B \in SUBSET Registers
  BY Ending, CodeTypes, Ops
<1>3. Land(Append(c, i), P \cup {l}, T)
  BY <1>1, <1>2, PushLabel
<1>5. Checked(e, G, B, i)
  BY <1>2 DEF Checked
<1> HIDE DEF i, B
<1>4. \A S : Leaves(e, S, c[Len(c)], A) => Linked(e, S, c[Len(c)], B, i)
  BY <1>1, <1>2 DEF Linked
<1>6. Leaves(e, B, i, B)
  BY <1>2 DEF Leaves, After, Fits
<1>7. Emitted(rng, e, G, c \o <<i>>, FALSE, P \cup {l}, T, B)
  BY <1>2, <1>3, <1>4, <1>5, <1>6, PushCode
<1> QED
  BY <1>7 DEF i, B

(* A copy: the object is retained, then stored in a register that owns nothing. *)
(* The object is owned already, or it was what that register has just released. *)
LEMMA RuleCopy ==
    ASSUME NEW rng \in BOOLEAN, NEW e \in BOOLEAN, NEW G, NEW c, NEW P, NEW T,
           NEW A \in SUBSET Registers, NEW r \in Registers \ A, NEW s \in Registers,
           s \in A \/ (s = r /\ c[Len(c)] = ReleaseOf({r})),
           Emitted(rng, e, G, c, FALSE, P, T, A)
    PROVE  Emitted(rng, e, G, c \o <<Retain(s), Store(r, s)>>, FALSE, P, T, A \cup {r})
<1> DEFINE i == Retain(s)
           j == Store(r, s)
           n == Len(c)
<1>1. c \in Listing /\ ~EndsBlock(c[n]) /\ Land(c, P, T)
  BY DEF Emitted, Shape
<1>2. /\ i \in Code /\ i.op = "retain" /\ i.reg = s /\ ~EndsBlock(i)
      /\ j \in Code /\ j.op = "store" /\ j.reg = r /\ j.from = s /\ ~EndsBlock(j)
  BY Ending, CodeTypes, Ops
<1>3. i = Retain(j.from)
  BY <1>2
<1> HIDE DEF i, j
<1>4. Land(Append(Append(c, i), j), P, T)
  <2>1. Append(c, i) \in Listing /\ Land(Append(c, i), P, T)
    BY <1>1, <1>2, Longer, PushLand
  <2> QED
    BY <1>2, <2>1, PushLand
<1>5. \A S : Leaves(e, S, c[n], A) => Linked(e, S, c[n], A, i)
  BY <1>1, <1>2 DEF Leaves, Linked, Flows, Before
<1>6. Checked(e, G, A, i) /\ Checked(e, G, A \cup {r}, j) /\ A \cup {r} \in SUBSET Registers
  BY <1>2 DEF Checked
<1>7. Linked(e, A, i, A \cup {r}, j)
  BY <1>2, <1>3 DEF Linked, Flows, Before, Fits, Copies
<1>8. Leaves(e, A \cup {r}, j, A \cup {r})
  BY <1>2 DEF Leaves, Fits, After
<1>9. Emitted(rng, e, G, c \o <<i, j>>, FALSE, P, T, A \cup {r})
  BY <1>2, <1>4, <1>5, <1>6, <1>7, <1>8, PushPair
<1> QED
  BY <1>9 DEF i, j

(* Joining pieces of code.                                                     *)
LEMMA Join ==
    ASSUME NEW a \in Seq(Code), NEW b \in Seq(Code), NEW d \in Seq(Code)
    PROVE  /\ a \o b \in Seq(Code)
           /\ a \o (b \o d) = (a \o b) \o d
           /\ a \o <<>> = a /\ <<>> \o a = a
<1>1. a \o b \in Seq(Code) /\ a \o (b \o d) = (a \o b) \o d
  BY ConcatProperties, ConcatAssociative
<1>2. a \o <<>> = a /\ <<>> \o a = a
  BY ConcatEmptySeq
<1> QED
  BY <1>1, <1>2

(* Concatenation of code is associative.                                      *)
LEMMA Assoc ==
    ASSUME NEW a \in Seq(Code), NEW b \in Seq(Code), NEW d \in Seq(Code)
    PROVE  a \o (b \o d) = (a \o b) \o d
BY Join

(* Two single instructions, joined.                                           *)
LEMMA JoinTwo == ASSUME NEW a, NEW b PROVE <<a>> \o <<b>> = <<a, b>>
<1>1. <<a>> \in Seq({a, b}) /\ <<b>> \in Seq({a, b}) /\ <<a, b>> \in Seq({a, b})
  OBVIOUS
<1>2. Len(<<a>>) = 1 /\ Len(<<b>>) = 1 /\ Len(<<a, b>>) = 2
  OBVIOUS
<1>3. /\ <<a>> \o <<b>> \in Seq({a, b}) /\ Len(<<a>> \o <<b>>) = 2
      /\ \A k \in 1..2 : (<<a>> \o <<b>>)[k] = IF k <= 1 THEN <<a>>[k] ELSE <<b>>[k - 1]
  BY <1>1, <1>2, ConcatProperties
<1>4. \A k \in 1..2 : (<<a>> \o <<b>>)[k] = <<a, b>>[k]
  BY <1>3
<1> QED
  BY <1>1, <1>2, <1>3, <1>4, SeqEqual

(* Three single instructions, joined.                                         *)
LEMMA JoinThree ==
    ASSUME NEW a, NEW b, NEW d PROVE (<<a>> \o <<b>>) \o <<d>> = <<a, b, d>>
<1> DEFINE p == <<a, b>> \o <<d>>
           q == <<a, b, d>>
<1>1. Len(p) = 3 /\ p[1] = a /\ p[2] = b /\ p[3] = d
  OBVIOUS
<1>2. Len(q) = 3 /\ q[1] = a /\ q[2] = b /\ q[3] = d
  OBVIOUS
<1>3. p \in Seq({a, b, d}) /\ q \in Seq({a, b, d})
  OBVIOUS
<1> HIDE DEF p, q
<1>4. \A i \in 1..3 : p[i] = q[i]
  BY <1>1, <1>2
<1>5. p = q
  BY <1>1, <1>2, <1>3, <1>4, SeqEqual
<1> QED
  BY <1>5, JoinTwo DEF p, q

(* Two pairs of instructions, joined.                                         *)
LEMMA JoinFour ==
    ASSUME NEW a, NEW b, NEW x, NEW y PROVE <<a, b>> \o <<x, y>> = <<a, b, x, y>>
<1> DEFINE p == <<a, b>> \o <<x, y>>
           q == <<a, b, x, y>>
<1>1. Len(p) = 4 /\ p[1] = a /\ p[2] = b /\ p[3] = x /\ p[4] = y
  OBVIOUS
<1>2. Len(q) = 4 /\ q[1] = a /\ q[2] = b /\ q[3] = x /\ q[4] = y
  OBVIOUS
<1>3. p \in Seq({a, b, x, y}) /\ q \in Seq({a, b, x, y})
  OBVIOUS
<1> HIDE DEF p, q
<1>4. \A i \in 1..4 : p[i] = q[i]
  BY <1>1, <1>2
<1>5. p = q
  BY <1>1, <1>2, <1>3, <1>4, SeqEqual
<1> QED
  BY <1>5 DEF p, q

(* What a release of a set of registers writes: nothing when the set is       *)
(* empty.                                                                     *)
LEMMA ReleaseCode ==
    ASSUME NEW rs \in SUBSET Registers
    PROVE  /\ Release(rs) \in Seq(Code)
           /\ rs = {} => Release(rs) = <<>>
           /\ rs # {} => Release(rs) = <<ReleaseOf(rs)>>
<1>1. rs # {} => Release(rs) = <<ReleaseOf(rs)>>
  BY Zenon DEF Release, ReleaseOf
<1>2. rs = {} => Release(rs) = <<>>
  BY Zenon DEF Release
<1>3. <<>> \in Seq(Code)
  OBVIOUS
<1>4. <<ReleaseOf(rs)>> \in Seq(Code)
  BY CodeTypes
<1> QED
  BY <1>1, <1>2, <1>3, <1>4

(* x = y: the reference of x is released, then one to the object of y is taken. *)
LEMMA RuleAssignCopy ==
    ASSUME NEW rng \in BOOLEAN, NEW e \in BOOLEAN, NEW G, NEW c, NEW P, NEW T,
           NEW A \in SUBSET Registers, NEW r \in A, NEW s \in A,
           Emitted(rng, e, G, c, FALSE, P, T, A)
    PROVE  Emitted(rng, e, G, c \o (Release({r}) \o <<Retain(s), Store(r, s)>>), FALSE, P, T, A)
<1> DEFINE d == c \o Release({r})
           B == A \ {r}
<1>1. Emitted(rng, e, G, d, FALSE, P, T, B)
  BY RuleRelease
<1>2. c \in Seq(Code) /\ c \in Listing /\ {r} \in SUBSET Registers
  BY DEF Emitted, Listing
<1>3. Release({r}) = <<ReleaseOf({r})>> /\ Release({r}) \in Seq(Code) /\ ReleaseOf({r}) \in Code
  BY <1>2, ReleaseCode, CodeTypes
<1>4. d[Len(d)] = ReleaseOf({r})
  <2>1. d = Append(c, ReleaseOf({r}))
    BY <1>2, <1>3, Longer
  <2>2. Len(Append(c, ReleaseOf({r}))) = Len(c) + 1 /\ Append(c, ReleaseOf({r}))[Len(c) + 1] = ReleaseOf({r})
    BY <1>2, <1>3, Longer
  <2> HIDE DEF d
  <2> QED
    BY <2>1, <2>2
<1>5. <<Retain(s), Store(r, s)>> \in Seq(Code)
  BY CodeTypes
<1>6. d \o <<Retain(s), Store(r, s)>> = c \o (Release({r}) \o <<Retain(s), Store(r, s)>>)
  BY <1>2, <1>3, <1>5, Join
<1>7. s \in B \/ (s = r /\ d[Len(d)] = ReleaseOf({r}))
  BY <1>4
<1>8. r \in Registers \ B /\ s \in Registers /\ B \in SUBSET Registers
  OBVIOUS
<1> HIDE DEF d, B
<1>9. Emitted(rng, e, G, d \o <<Retain(s), Store(r, s)>>, FALSE, P, T, B \cup {r})
  BY <1>1, <1>7, <1>8, RuleCopy
<1>10. B \cup {r} = A
  BY DEF B
<1> QED
  BY <1>6, <1>9, <1>10

(* x = e: a fresh object takes the place of the one that x releases.            *)
LEMMA RuleAssignNew ==
    ASSUME NEW rng \in BOOLEAN, NEW e \in BOOLEAN, NEW G, NEW c, NEW P, NEW T,
           NEW A \in SUBSET Registers, NEW r \in A, NEW t \in Registers \ (A \cup ParamRegs),
           Emitted(rng, e, G, c, FALSE, P, T, A)
    PROVE  Emitted(rng, e, G, c \o (<<New(t)>> \o Release({r}) \o <<Store(r, t)>>), FALSE, P, T, A)
<1> DEFINE d == c \o <<New(t)>>
           B == A \cup {t}
           i == ReleaseOf({r})
           j == Store(r, t)
<1>1. Emitted(rng, e, G, d, FALSE, P, T, B)
  BY RuleNew
<1>2. /\ i \in Code /\ i.op = "release" /\ i.regs = {r} /\ ~EndsBlock(i)
      /\ j \in Code /\ j.op = "store" /\ j.reg = r /\ j.from = t /\ ~EndsBlock(j)
  BY Ending, CodeTypes, Ops
<1>0. i = ReleaseOf({j.reg})
  BY <1>2
<1>3. c \o (<<New(t)>> \o Release({r}) \o <<Store(r, t)>>) = d \o <<i, j>>
  <2>1. c \in Seq(Code) /\ <<New(t)>> \in Seq(Code) /\ <<i>> \in Seq(Code) /\ <<j>> \in Seq(Code)
    BY <1>2, CodeTypes DEF Emitted, Listing
  <2>2. Release({r}) = <<i>>
    BY ReleaseCode
  <2> HIDE DEF i, j
  <2>3. <<i>> \o <<j>> = <<i, j>>
    BY JoinTwo
  <2>4. (<<New(t)>> \o <<i>>) \o <<j>> = <<New(t)>> \o (<<i>> \o <<j>>)
    BY <2>1, Join
  <2>5. c \o (<<New(t)>> \o (<<i>> \o <<j>>)) = (c \o <<New(t)>>) \o (<<i>> \o <<j>>)
    <3>1. <<i>> \o <<j>> \in Seq(Code)
      BY <2>1, Join
    <3> QED
      BY <2>1, <3>1, Join
  <2>6. Store(r, t) = j
    BY DEF j
  <2> QED
    BY <2>2, <2>3, <2>4, <2>5, <2>6
<1>4. B \in SUBSET Registers /\ r \in B /\ t \in B /\ r # t /\ B \ {t} = A
  OBVIOUS
<1> HIDE DEF d, i, j, B
<1>5. d \in Listing /\ ~EndsBlock(d[Len(d)]) /\ Land(d, P, T)
  BY <1>1 DEF Emitted, Shape
<1>6. Land(Append(Append(d, i), j), P, T)
  <2>1. Append(d, i) \in Listing /\ Land(Append(d, i), P, T)
    BY <1>2, <1>5, Longer, PushLand
  <2> QED
    BY <1>2, <2>1, PushLand
<1>7. \A S : Leaves(e, S, d[Len(d)], B) => Linked(e, S, d[Len(d)], B, i)
  BY <1>2, <1>5 DEF Leaves, Linked, Flows, Before
<1>8. Checked(e, G, B, i) /\ Checked(e, G, A, j)
  BY <1>2, <1>4 DEF Checked
<1>9. Linked(e, B, i, A, j)
  BY <1>0, <1>2, <1>4 DEF Linked, Flows, Before, Fits, Moves
<1>10. Leaves(e, A, j, A)
  BY <1>2 DEF Leaves, Fits, After
<1>11. Emitted(rng, e, G, d \o <<i, j>>, FALSE, P, T, A)
  BY <1>1, <1>2, <1>4, <1>6, <1>7, <1>8, <1>9, <1>10, PushPair
<1> QED
  BY <1>3, <1>11

(* The releases a range loop writes where no code is reached, then its end.     *)
LEMMA RuleCleanup ==
    ASSUME NEW rng \in BOOLEAN, NEW e \in BOOLEAN, NEW G, NEW c, NEW P, NEW T, NEW A,
           NEW rs \in SUBSET Registers, NEW l \in Nat, l \notin P,
           G[l] \in SUBSET Registers, G[l] \cap rs = {}, rng, ~e,
           Emitted(rng, e, G, c, TRUE, P, T, A)
    PROVE  Emitted(rng, e, G, (c \o Release(rs)) \o <<Label(l)>>, FALSE, P \cup {l}, T, G[l])
<1>1. CASE rs = {}
  <2>1. c \o Release(rs) = c
    BY <1>1, ReleaseCode, Join DEF Emitted, Listing
  <2> QED
    BY <2>1, RuleLabel
<1>2. CASE rs # {}
  <2> DEFINE i == ReleaseOf(rs)
             j == Label(l)
             B == G[l]
  <2>1. /\ i \in Code /\ i.op = "release" /\ i.regs = rs /\ ~EndsBlock(i)
        /\ j \in Code /\ j.op = "label" /\ j.to = {l} /\ ~EndsBlock(j)
        /\ B \in SUBSET Registers /\ B \subseteq Registers \ rs
    BY Ending, CodeTypes, Ops
  <2>2. (c \o Release(rs)) \o <<Label(l)>> = c \o <<i, j>>
    <3>1. c \in Seq(Code) /\ <<i>> \in Seq(Code) /\ <<j>> \in Seq(Code)
      BY <2>1 DEF Emitted, Listing
    <3>2. Release(rs) = <<i>> /\ Label(l) = j
      BY <1>2, ReleaseCode
    <3> HIDE DEF i, j
    <3>3. <<i>> \o <<j>> = <<i, j>>
      BY JoinTwo
    <3>4. c \o (<<i>> \o <<j>>) = (c \o <<i>>) \o <<j>>
      BY <3>1, Join
    <3> QED
      BY <3>2, <3>3, <3>4
  <2>3. c \in Listing /\ EndsBlock(c[Len(c)]) /\ Land(c, P, T)
    BY DEF Emitted, Shape
  <2>4. Checked(e, G, B, j)
    BY <2>1 DEF Checked
  <2>5. Land(Append(Append(c, i), Label(l)), P \cup {l}, T)
    <3> HIDE DEF i, j, B
    <3>1. Append(c, i) \in Listing /\ Land(Append(c, i), P, T)
      BY <2>1, <2>3, Longer, PushLand
    <3> QED
      BY <3>1, PushLabel
  <2>6. Land(Append(Append(c, i), j), P \cup {l}, T)
    BY <2>5
  <2> HIDE DEF i, j, B
  <2>7. \A S : Leaves(e, S, c[Len(c)], A) => Linked(e, S, c[Len(c)], Registers, i)
    BY <2>1, <2>3 DEF Linked
  <2>8. Checked(e, G, Registers, i)
    BY <2>1 DEF Checked
  <2>9. Linked(e, Registers, i, B, j)
    BY <2>1 DEF Linked, Flows, Before, After, Fits
  <2>10. Leaves(e, B, j, B)
    BY <2>1 DEF Leaves, Fits, After
  <2>11. Emitted(rng, e, G, c \o <<i, j>>, FALSE, P \cup {l}, T, B)
    BY <2>1, <2>4, <2>6, <2>7, <2>8, <2>9, <2>10, PushPair
  <2> QED
    BY <2>2, <2>11 DEF B
<1> QED
  BY <1>1, <1>2

(* Less may be claimed of what is owned, unless the count is exact.             *)
LEMMA RuleWeaken ==
    ASSUME NEW rng \in BOOLEAN, NEW e \in BOOLEAN, NEW G, NEW c, NEW ends, NEW P, NEW T, NEW A, NEW B,
           Emitted(rng, e, G, c, ends, P, T, A), ends \/ Fits(e, B, A)
    PROVE  Emitted(rng, e, G, c, ends, P, T, B)
<1>1. Own(e, G, c, A) /\ (ends <=> EndsBlock(c[Len(c)]))
  BY DEF Emitted, Shape
<1>2. PICK w : Owns(e, G, w, c) /\ Leaves(e, w[Len(c)], c[Len(c)], A)
  BY <1>1 DEF Own
<1>3. Leaves(e, w[Len(c)], c[Len(c)], B)
  BY <1>1, <1>2 DEF Leaves, Fits
<1>4. Own(e, G, c, B)
  BY <1>2, <1>3 DEF Own
<1> QED
  BY <1>4 DEF Emitted

(* Any number of deferred calls.                                               *)
LEMMA RuleUses ==
    ASSUME NEW rng \in BOOLEAN, NEW e \in BOOLEAN, NEW G, NEW c, NEW P, NEW T,
           NEW A \in SUBSET Registers, NEW u \in Seq(Code),
           \A k \in 1..Len(u) : u[k].op = "use" /\ u[k].id # 0,
           Emitted(rng, e, G, c, FALSE, P, T, A)
    PROVE  Emitted(rng, e, G, c \o u, FALSE, P, T, A)
<1> DEFINE d == c \o u
           n == Len(c)
           m == Len(u)
<1>1. /\ c \in Seq(Code) /\ c \in Listing /\ n \in Nat \ {0} /\ m \in Nat
      /\ ~EndsBlock(c[n]) /\ Shape(rng, c, FALSE) /\ Land(c, P, T) /\ Own(e, G, c, A)
  BY DEF Emitted, Shape, Listing
<1>2. d \in Seq(Code) /\ Len(d) = n + m
  BY <1>1, ConcatProperties
<1>3. /\ \A k \in 1..n : d[k] = c[k]
      /\ \A k \in n + 1..n + m : d[k] = u[k - n]
  BY <1>1, <1>2, ConcatProperties
<1>4. /\ d \in Listing
      /\ \A k \in n + 1..n + m : d[k].op = "use" /\ d[k].id # 0 /\ ~EndsBlock(d[k])
      /\ \A k \in 1..Len(d) : k \in 1..n \/ k \in n + 1..n + m
  <2>1. \A k \in n + 1..n + m : d[k].op = "use" /\ d[k].id # 0
    BY <1>1, <1>3
  <2>2. d # <<>>
    BY <1>1, <1>2
  <2>3. \A k \in n + 1..n + m : ~EndsBlock(d[k])
    BY <2>1, Zenon DEF EndsBlock
  <2> QED
    BY <1>1, <1>2, <2>1, <2>2, <2>3 DEF Listing
<1>0. n = Len(c) /\ m = Len(u)
  OBVIOUS
<1> HIDE DEF d, n, m
<1>5. Shape(rng, d, FALSE)
  <2>1. ASSUME NEW k \in 2..n PROVE Joined(rng, d, k)
    <3>1. Joined(rng, c, k) /\ d[k] = c[k] /\ d[k - 1] = c[k - 1]
      BY <1>0, <1>1, <1>3 DEF Shape
    <3>2. Cleanup(c, k) => Cleanup(d, k)
      BY <1>1, <1>2, <3>1 DEF Cleanup
    <3>3. Cleanup(c, k - 1) => Cleanup(d, k - 1)
      <4>1. CASE k - 1 \in 2..n
        <5>1. d[k - 2] = c[k - 2] /\ (k - 1) - 1 = k - 2 /\ k - 1 \in 2..Len(d)
          BY <1>1, <1>2, <1>3, <4>1
        <5> QED
          BY <3>1, <5>1 DEF Cleanup
      <4>2. CASE k - 1 \notin 2..n
        BY <1>0, <4>2 DEF Cleanup
      <4> QED
        BY <4>1, <4>2
    <3> QED
      BY <3>1, <3>2, <3>3 DEF Joined
  <2>2. ASSUME NEW k \in n + 1..n + m PROVE Joined(rng, d, k)
    <3>1. d[k].op # "label"
      BY <1>4
    <3>2. ~EndsBlock(d[k - 1])
      <4>1. CASE k = n + 1
        BY <1>1, <1>3, <4>1
      <4>2. CASE k # n + 1
        BY <1>1, <1>4, <4>2
      <4> QED
        BY <4>1, <4>2
    <3> QED
      BY <3>1, <3>2 DEF Joined
  <2>3. ~EndsBlock(d[Len(d)])
    <3>1. CASE m = 0
      BY <1>1, <1>2, <1>3, <3>1
    <3>2. CASE m # 0
      BY <1>1, <1>2, <1>4, <3>2
    <3> QED
      BY <3>1, <3>2
  <2>4. \A k \in 2..Len(d) : k \in 2..n \/ k \in n + 1..n + m
    BY <1>1, <1>2
  <2> QED
    BY <2>1, <2>2, <2>3, <2>4 DEF Shape
<1>6. Land(d, P, T)
  <2>1. \A k \in 1..Len(d) : d[k].op = "label" => \E l \in P : d[k] = Label(l)
    BY <1>0, <1>1, <1>3, <1>4 DEF Land
  <2>2. \A k \in 1..Len(d) : d[k].op = "br" => d[k].to \subseteq T
    BY <1>0, <1>1, <1>3, <1>4 DEF Land
  <2>3. ASSUME NEW l \in P
        PROVE  \E k \in 1..Len(d) : d[k] = Label(l) /\ \A j \in 1..Len(d) : d[j] = Label(l) => j = k
    <3>1. PICK k \in 1..n : c[k] = Label(l) /\ \A j \in 1..n : c[j] = Label(l) => j = k
      BY <1>0, <1>1 DEF Land
    <3>2. k \in 1..Len(d) /\ d[k] = Label(l)
      BY <1>1, <1>2, <1>3, <3>1
    <3>3. \A j \in n + 1..n + m : d[j] # Label(l)
      BY <1>4, Ops
    <3>4. \A j \in 1..Len(d) : d[j] = Label(l) => j = k
      BY <1>3, <1>4, <3>1, <3>3
    <3> QED
      BY <3>2, <3>4
  <2> QED
    BY <2>1, <2>2, <2>3 DEF Land
<1>7. PICK w : Owns(e, G, w, c) /\ Leaves(e, w[n], c[n], A)
  BY <1>0, <1>1 DEF Own
<1> DEFINE v == [k \in 1..n + m |-> IF k <= n THEN w[k] ELSE A]
<1>8. /\ v \in Seq(SUBSET Registers) /\ Len(v) = Len(d)
      /\ \A k \in 1..n : v[k] = w[k]
      /\ \A k \in n + 1..n + m : v[k] = A
  <2>1. w \in Seq(SUBSET Registers) /\ Len(w) = n
    BY <1>0, <1>7 DEF Owns
  <2>2. \A k \in 1..n : w[k] \in SUBSET Registers
    BY <2>1
  <2>3. v \in [1..n + m -> SUBSET Registers]
    BY <1>1, <2>2
  <2>4. v \in Seq(SUBSET Registers) /\ Len(v) = n + m
    BY <1>1, <2>3
  <2> QED
    BY <1>1, <1>2, <2>4
<1> HIDE DEF v
<1>9. ASSUME NEW k \in 1..Len(d) PROVE Checked(e, G, v[k], d[k])
  <2>1. CASE k \in 1..n
    BY <1>0, <1>3, <1>7, <1>8, <2>1 DEF Owns
  <2>2. CASE k \in n + 1..n + m
    BY <1>4, <2>2 DEF Checked
  <2> QED
    BY <1>4, <2>1, <2>2
<1>10. ASSUME NEW k \in 2..Len(d) PROVE Linked(e, v[k - 1], d[k - 1], v[k], d[k])
  <2>1. CASE k \in 2..n
    <3>1. v[k - 1] = w[k - 1] /\ d[k - 1] = c[k - 1] /\ v[k] = w[k] /\ d[k] = c[k]
      BY <1>1, <1>3, <1>8, <2>1
    <3> QED
      BY <1>0, <1>7, <2>1, <3>1 DEF Owns
  <2>2. CASE k = n + 1
    <3>0. k - 1 = n /\ n \in 1..n /\ k \in n + 1..n + m
      BY <1>1, <1>2, <2>2
    <3>1. v[k - 1] = w[n] /\ d[k - 1] = c[n] /\ v[k] = A /\ d[k].op = "use"
      BY <1>3, <1>4, <1>8, <3>0
    <3> QED
      BY <1>1, <1>7, <3>1 DEF Leaves, Linked, Flows, Before
  <2>3. CASE k \in n + 2..n + m
    <3>0. k - 1 \in n + 1..n + m /\ k \in n + 1..n + m
      BY <1>1, <2>3
    <3>1. v[k - 1] = A /\ v[k] = A /\ d[k].op = "use" /\ d[k - 1].op = "use" /\ ~EndsBlock(d[k - 1])
      BY <1>4, <1>8, <3>0
    <3> QED
      BY <3>1 DEF Linked, Flows, Before, After, Fits
  <2>4. k \in 2..n \/ k = n + 1 \/ k \in n + 2..n + m
    BY <1>1, <1>2
  <2> QED
    BY <2>1, <2>2, <2>3, <2>4
<1>11. v[1] = ParamRegs /\ d[1] = Label(0)
  BY <1>1, <1>3, <1>7, <1>8 DEF Owns
<1>12. Owns(e, G, v, d)
  BY <1>8, <1>9, <1>10, <1>11 DEF Owns
<1>13. Leaves(e, v[Len(d)], d[Len(d)], A)
  <2>1. CASE m = 0
    BY <1>1, <1>2, <1>3, <1>7, <1>8, <2>1
  <2>2. CASE m # 0
    <3>1. v[Len(d)] = A /\ d[Len(d)].op = "use"
      BY <1>1, <1>2, <1>4, <1>8, <2>2
    <3> QED
      BY <3>1 DEF Leaves, After, Fits
  <2> QED
    BY <2>1, <2>2
<1>14. Own(e, G, d, A)
  BY <1>12, <1>13 DEF Own
<1> QED
  BY <1>4, <1>5, <1>6, <1>14 DEF Emitted, d

(* Two functions, or two sequences, that agree on S.                            *)
(* Two functions agree on S.                                                 *)
Agree(f, g, S) == \A i \in S : f[i] = g[i]

(* The judgements may be weakened: less is asked of code that need not balance  *)
(* exactly or of a body with a range loop, and G matters at its labels only.    *)
LEMMA RuleContext ==
    ASSUME NEW rng \in BOOLEAN, NEW e \in BOOLEAN, NEW rng2 \in BOOLEAN, NEW e2 \in BOOLEAN,
           rng => rng2, e2 => e,
           NEW G, NEW G2, NEW c, NEW ends, NEW P, NEW T, NEW A,
           Agree(G2, G, P \cup T),
           Emitted(rng, e, G, c, ends, P, T, A)
    PROVE  Emitted(rng2, e2, G2, c, ends, P, T, A)
<1>1. c \in Listing /\ Shape(rng, c, ends) /\ Land(c, P, T) /\ Own(e, G, c, A)
  BY DEF Emitted
<1>2. Shape(rng2, c, ends)
  BY <1>1 DEF Shape, Joined
<1>3. PICK w : Owns(e, G, w, c) /\ Leaves(e, w[Len(c)], c[Len(c)], A)
  BY <1>1 DEF Own
<1>4. ASSUME NEW i \in 1..Len(c) PROVE Checked(e2, G2, w[i], c[i])
  <2>1. Checked(e, G, w[i], c[i])
    BY <1>3 DEF Owns
  <2>2. c[i].op \in {"label", "br"} => \A l \in c[i].to : G2[l] = G[l]
    <3>1. CASE c[i].op = "label"
      <4>1. PICK l \in P : c[i] = Label(l)
        BY <1>1, <3>1 DEF Land
      <4> QED
        BY <4>1, Ops DEF Agree
    <3>2. CASE c[i].op = "br"
      BY <1>1, <3>2 DEF Land, Agree
    <3> QED
      BY <3>1, <3>2
  <2> QED
    BY <2>1, <2>2 DEF Checked, Fits
<1>5. ASSUME NEW i \in 2..Len(c) PROVE Linked(e2, w[i - 1], c[i - 1], w[i], c[i])
  <2>1. Linked(e, w[i - 1], c[i - 1], w[i], c[i])
    BY <1>3 DEF Owns
  <2> QED
    BY <2>1 DEF Linked, Flows, Fits
<1>6. Owns(e2, G2, w, c)
  BY <1>3, <1>4, <1>5 DEF Owns
<1>7. Leaves(e2, w[Len(c)], c[Len(c)], A)
  BY <1>3 DEF Leaves, Fits
<1>8. Own(e2, G2, c, A)
  BY <1>6, <1>7 DEF Own
<1> QED
  BY <1>1, <1>2, <1>8 DEF Emitted

-----------------------------------------------------------------------------
(* Scopes.                                                                    *)

(* The registers of a scope.                                                  *)
RegsOf(scope) == {d[2] : d \in scope}

(* The registers of the first n scopes.                                       *)
RegsTo(sc, n) == UNION {RegsOf(sc[i]) : i \in 1..n}

(* Scopes whose registers are among the first r.                              *)
Scopes(r) == Seq(SUBSET (Vars \X (1..r)))

(* A register stands for one variable of its scope.                           *)
Unique(sc) == \A i \in 1..Len(sc) : \A d, f \in sc[i] : d[2] = f[2] => d = f

(* Every register below r belongs to at most one scope, the first of which is  *)
(* that of the parameters.                                                     *)
Scoped(sc, r) ==
    /\ sc \in Scopes(r) /\ sc # <<>>
    /\ \A i, j \in 1..Len(sc) : i # j => RegsOf(sc[i]) \cap RegsOf(sc[j]) = {}
    /\ RegsOf(sc[1]) = ParamRegs
    /\ Unique(sc)

(* Scopes that agree up to n hold the same registers.                          *)
LEMMA RegsToAgree ==
    ASSUME NEW a, NEW b, NEW n \in Nat, \A i \in 1..n : a[i] = b[i]
    PROVE  RegsTo(a, n) = RegsTo(b, n)
BY DEF RegsTo

(* The registers of one more scope.                                           *)
LEMMA RegsToNext ==
    ASSUME NEW sc, NEW n \in Nat
    PROVE  RegsTo(sc, n + 1) = RegsTo(sc, n) \cup RegsOf(sc[n + 1])
<1>1. 1..(n + 1) = 1..n \cup {n + 1}
  OBVIOUS
<1> QED
  BY <1>1 DEF RegsTo

(* Outer scopes hold fewer registers.                                         *)
LEMMA RegsToMono ==
    ASSUME NEW sc, NEW n \in Nat, NEW m \in Nat, m <= n
    PROVE  RegsTo(sc, m) \subseteq RegsTo(sc, n)
<1>1. 1..m \subseteq 1..n
  OBVIOUS
<1> QED
  BY <1>1 DEF RegsTo

(* Every scope's registers have been handed out, and the parameters are in    *)
(* the first.                                                                 *)
LEMMA RegsToBound ==
    ASSUME NEW r \in Nat, NEW sc, Scoped(sc, r), NEW n \in 1..Len(sc)
    PROVE  /\ RegsTo(sc, n) \subseteq 1..r
           /\ ParamRegs \subseteq RegsTo(sc, n)
<1>1. \A i \in 1..Len(sc) : sc[i] \subseteq Vars \X (1..r)
  BY DEF Scoped, Scopes
<1>2. \A i \in 1..Len(sc) : RegsOf(sc[i]) \subseteq 1..r
  BY <1>1 DEF RegsOf
<1>3. Len(sc) \in Nat /\ 1..n \subseteq 1..Len(sc) /\ 1 \in 1..n
  BY DEF Scoped, Scopes
<1>4. RegsTo(sc, n) \subseteq 1..r
  BY <1>2, <1>3 DEF RegsTo
<1>5. RegsOf(sc[1]) = ParamRegs
  BY DEF Scoped
<1>6. ParamRegs \subseteq RegsTo(sc, n)
  BY <1>3, <1>5 DEF RegsTo
<1> QED
  BY <1>4, <1>6

(* A scope shares no register with those before it.                            *)
LEMMA RegsToApart ==
    ASSUME NEW r \in Nat, NEW sc, Scoped(sc, r), NEW n \in 1..Len(sc)
    PROVE  RegsTo(sc, n - 1) \cap RegsOf(sc[n]) = {}
<1>1. Len(sc) \in Nat
  BY DEF Scoped, Scopes
<1>2. \A i \in 1..(n - 1) : i \in 1..Len(sc) /\ i # n
  BY <1>1
<1>3. \A i \in 1..(n - 1) : RegsOf(sc[i]) \cap RegsOf(sc[n]) = {}
  BY <1>2 DEF Scoped
<1> QED
  BY <1>3 DEF RegsTo

(* What a declaration, the start and the end of a block do to the scopes.       *)
LEMMA ScopedDeclare ==
    ASSUME NEW r \in Nat, NEW sc, Scoped(sc, r), Len(sc) > 1, NEW x \in Vars, NEW sc2,
           sc2 = [sc EXCEPT ![Len(sc)] = @ \cup {<<x, r + 1>>}]
    PROVE  /\ Scoped(sc2, r + 1) /\ Len(sc2) = Len(sc)
           /\ \A i \in 1..(Len(sc) - 1) : sc2[i] = sc[i]
           /\ RegsTo(sc2, Len(sc2)) = RegsTo(sc, Len(sc)) \cup {r + 1}
<1> DEFINE n == Len(sc)
           d == sc[n] \cup {<<x, r + 1>>}
<1>1. /\ sc \in Seq(SUBSET (Vars \X (1..r))) /\ n \in Nat /\ n > 1
      /\ \A i \in 1..n : sc[i] \subseteq Vars \X (1..r)
  BY DEF Scoped, Scopes
<1>2. Vars \X (1..r) \subseteq Vars \X (1..(r + 1))
  OBVIOUS
<1>3. d \in SUBSET (Vars \X (1..(r + 1)))
  <2>1. n \in 1..n /\ r + 1 \in 1..(r + 1)
    BY <1>1
  <2> QED
    BY <1>1, <1>2, <2>1
<1>4. RegsOf(d) = RegsOf(sc[n]) \cup {r + 1}
  <2>1. <<x, r + 1>>[2] = r + 1
    OBVIOUS
  <2> QED
    BY <2>1 DEF RegsOf
<1>5. /\ sc2 \in Seq(SUBSET (Vars \X (1..(r + 1)))) /\ Len(sc2) = n
      /\ \A i \in 1..n : sc2[i] = IF i = n THEN d ELSE sc[i]
  <2>1. /\ sc \in [1..n -> SUBSET (Vars \X (1..r))]
        /\ sc2 = [sc EXCEPT ![n] = d] /\ n = Len(sc)
    BY <1>1
  <2> HIDE DEF d, n
  <2>2. \A i \in 1..n : sc2[i] = IF i = n THEN d ELSE sc[i]
    BY <2>1
  <2>3. sc2 \in [1..n -> SUBSET (Vars \X (1..(r + 1)))]
    BY <1>1, <1>2, <1>3, <2>1, <2>2
  <2>4. sc2 \in Seq(SUBSET (Vars \X (1..(r + 1)))) /\ Len(sc2) = n
    <3> DEFINE X == SUBSET (Vars \X (1..(r + 1)))
    <3> HIDE DEF X
    <3>1. sc2 \in [1..n -> X] /\ n \in Nat
      BY <1>1, <2>3 DEF X
    <3>2. sc2 \in Seq(X)
      BY <3>1, SeqDef
    <3>3. Len(sc2) = n
      <4>1. DOMAIN sc2 = 1..n /\ DOMAIN sc2 = 1..Len(sc2) /\ Len(sc2) \in Nat
        BY <3>1, <3>2, LenProperties
      <4> HIDE DEF n
      <4> QED
        BY <3>1, <4>1
    <3> QED
      BY <3>2, <3>3 DEF X
  <2> QED
    BY <2>2, <2>4
<1>6. n = Len(sc) /\ sc2 \in Scopes(r + 1)
  BY <1>5 DEF Scopes
<1> HIDE DEF d, n
<1>7. \A i \in 1..n : RegsOf(sc[i]) \subseteq 1..r
  BY <1>1 DEF RegsOf
<1>8. \A i, j \in 1..n : i # j => RegsOf(sc[i]) \cap RegsOf(sc[j]) = {}
  BY <1>6 DEF Scoped
<1>9. r + 1 \notin 1..r
  OBVIOUS
<1>10. ASSUME NEW i \in 1..n, NEW j \in 1..n, i # j
       PROVE  RegsOf(sc2[i]) \cap RegsOf(sc2[j]) = {}
  <2>1. RegsOf(sc[i]) \cap RegsOf(sc[j]) = {} /\ RegsOf(sc[i]) \subseteq 1..r /\ RegsOf(sc[j]) \subseteq 1..r
    BY <1>7, <1>8, <1>10
  <2>2. CASE i = n
    BY <1>4, <1>5, <1>9, <1>10, <2>1, <2>2
  <2>3. CASE j = n
    BY <1>4, <1>5, <1>9, <1>10, <2>1, <2>3
  <2>4. CASE i # n /\ j # n
    BY <1>5, <2>1, <2>4
  <2> QED
    BY <2>2, <2>3, <2>4
<1>11. sc2[1] = sc[1] /\ sc2 # <<>>
  BY <1>1, <1>5
<1>12. \A i \in 1..(n - 1) : sc2[i] = sc[i]
  BY <1>1, <1>5
<1>13. RegsTo(sc2, n) = RegsTo(sc, n) \cup {r + 1}
  <2>1. n - 1 \in Nat /\ (n - 1) + 1 = n
    BY <1>1
  <2>2. RegsTo(sc2, n) = RegsTo(sc2, n - 1) \cup RegsOf(sc2[n])
    BY <2>1, RegsToNext
  <2>3. RegsTo(sc, n) = RegsTo(sc, n - 1) \cup RegsOf(sc[n])
    BY <2>1, RegsToNext
  <2>4. RegsTo(sc2, n - 1) = RegsTo(sc, n - 1)
    BY <1>12, <2>1, RegsToAgree
  <2>5. sc2[n] = d
    BY <1>1, <1>5
  <2> QED
    BY <1>4, <2>2, <2>3, <2>4, <2>5
<1>15. Unique(sc2)
  <2> SUFFICES ASSUME NEW i \in 1..n, NEW v \in sc2[i], NEW u \in sc2[i], v[2] = u[2]
               PROVE  v = u
    BY <1>5, <1>6 DEF Unique
  <2>1. \A p, q \in sc[i] : p[2] = q[2] => p = q
    BY <1>6 DEF Scoped, Unique
  <2>2. CASE i # n
    BY <1>5, <2>1, <2>2
  <2>3. CASE i = n
    <3>1. sc2[i] = sc[n] \cup {<<x, r + 1>>}
      BY <1>5, <2>3 DEF d
    <3>2. \A p \in sc[n] : p[2] \in 1..r
      BY <1>6, <1>7, <2>3 DEF RegsOf
    <3>3. <<x, r + 1>>[2] = r + 1
      OBVIOUS
    <3>4. \A p \in sc[n] : p[2] # r + 1
      BY <1>9, <3>2
    <3> QED
      BY <2>1, <2>3, <3>1, <3>3, <3>4
  <2> QED
    BY <2>2, <2>3
<1>14. Scoped(sc2, r + 1)
  BY <1>5, <1>6, <1>10, <1>11, <1>15 DEF Scoped
<1> QED
  BY <1>5, <1>6, <1>12, <1>13, <1>14

(* An empty scope is pushed.                                                  *)
LEMMA ScopedOpen ==
    ASSUME NEW r \in Nat, NEW sc, Scoped(sc, r)
    PROVE  /\ Scoped(Append(sc, {}), r) /\ Len(Append(sc, {})) = Len(sc) + 1
           /\ \A i \in 1..Len(sc) : Append(sc, {})[i] = sc[i]
           /\ Append(sc, {})[Len(sc) + 1] = {}
           /\ RegsTo(Append(sc, {}), Len(sc) + 1) = RegsTo(sc, Len(sc))
<1> DEFINE n == Len(sc)
           sc2 == Append(sc, {})
<1>1. sc \in Seq(SUBSET (Vars \X (1..r))) /\ n \in Nat /\ n > 0
  BY DEF Scoped, Scopes
<1>2. /\ sc2 \in Seq(SUBSET (Vars \X (1..r))) /\ Len(sc2) = n + 1
      /\ \A i \in 1..n : sc2[i] = sc[i]
      /\ sc2[n + 1] = {}
  BY <1>1
<1>3. n = Len(sc) /\ sc2 \in Scopes(r) /\ RegsOf({}) = {}
  BY <1>2 DEF Scopes, RegsOf
<1> HIDE DEF n, sc2
<1>4. ASSUME NEW i \in 1..Len(sc2), NEW j \in 1..Len(sc2), i # j
       PROVE  RegsOf(sc2[i]) \cap RegsOf(sc2[j]) = {}
  <2>1. CASE i = n + 1 \/ j = n + 1
    BY <1>2, <1>3, <2>1
  <2>2. CASE i # n + 1 /\ j # n + 1
    <3>1. i \in 1..n /\ j \in 1..n
      BY <1>1, <1>2, <2>2
    <3> QED
      BY <1>2, <1>3, <1>4, <3>1 DEF Scoped
  <2> QED
    BY <2>1, <2>2
<1>5. sc2[1] = sc[1] /\ sc2 # <<>>
  BY <1>1, <1>2
<1>8. Unique(sc2)
  <2> SUFFICES ASSUME NEW i \in 1..Len(sc2), NEW d \in sc2[i], NEW f \in sc2[i], d[2] = f[2]
               PROVE  d = f
    BY DEF Unique
  <2>1. i \in 1..n
    BY <1>1, <1>2
  <2> QED
    BY <1>2, <1>3, <2>1 DEF Scoped, Unique
<1>6. Scoped(sc2, r)
  BY <1>3, <1>4, <1>5, <1>8 DEF Scoped
<1>7. RegsTo(sc2, n + 1) = RegsTo(sc, n)
  <2>1. RegsTo(sc2, n + 1) = RegsTo(sc2, n) \cup RegsOf(sc2[n + 1])
    BY <1>1, RegsToNext
  <2>2. RegsTo(sc2, n) = RegsTo(sc, n)
    BY <1>1, <1>2, RegsToAgree
  <2> QED
    BY <1>2, <1>3, <2>1, <2>2
<1> QED
  BY <1>2, <1>6, <1>7 DEF sc2, n

(* Inner scopes are popped.                                                   *)
LEMMA ScopedClose ==
    ASSUME NEW r \in Nat, NEW sc, Scoped(sc, r), NEW n \in 1..Len(sc)
    PROVE  /\ Scoped(SubSeq(sc, 1, n), r) /\ Len(SubSeq(sc, 1, n)) = n
           /\ \A i \in 1..n : SubSeq(sc, 1, n)[i] = sc[i]
           /\ RegsTo(SubSeq(sc, 1, n), n) = RegsTo(sc, n)
<1> DEFINE sc2 == SubSeq(sc, 1, n)
<1>1. sc \in Seq(SUBSET (Vars \X (1..r))) /\ Len(sc) \in Nat /\ n \in Nat /\ n >= 1 /\ n <= Len(sc)
  BY DEF Scoped, Scopes
<1>2. /\ sc2 \in Seq(SUBSET (Vars \X (1..r))) /\ Len(sc2) = n
      /\ \A i \in 1..n : sc2[i] = sc[i]
  BY <1>1
<1>3. sc2 \in Scopes(r)
  BY <1>2 DEF Scopes
<1> HIDE DEF sc2
<1>4. ASSUME NEW i \in 1..Len(sc2), NEW j \in 1..Len(sc2), i # j
      PROVE  RegsOf(sc2[i]) \cap RegsOf(sc2[j]) = {}
  <2>1. i \in 1..Len(sc) /\ j \in 1..Len(sc) /\ sc2[i] = sc[i] /\ sc2[j] = sc[j]
    BY <1>1, <1>2
  <2> QED
    BY <1>4, <2>1 DEF Scoped
<1>5. sc2[1] = sc[1] /\ sc2 # <<>>
  BY <1>1, <1>2
<1>8. Unique(sc2)
  <2> SUFFICES ASSUME NEW i \in 1..Len(sc2), NEW d \in sc2[i], NEW f \in sc2[i], d[2] = f[2]
               PROVE  d = f
    BY DEF Unique
  <2>1. i \in 1..Len(sc) /\ sc2[i] = sc[i]
    BY <1>1, <1>2
  <2> QED
    BY <2>1 DEF Scoped, Unique
<1>6. Scoped(sc2, r)
  BY <1>3, <1>4, <1>5, <1>8 DEF Scoped
<1>7. RegsTo(sc2, n) = RegsTo(sc, n)
  BY <1>1, <1>2, RegsToAgree
<1> QED
  BY <1>2, <1>6, <1>7 DEF sc2

(* A greatest element: among the sets of the elements from each element on      *)
(* there is one that includes no other.                                        *)
LEMMA Greatest ==
    ASSUME NEW n \in Nat, NEW S \in SUBSET (0..n), S # {}
    PROVE  \E k \in S : \A j \in S : j <= k
<1> DEFINE From(k) == {j \in S : j >= k}
           U == {From(k) : k \in S}
           R == StrictSubsetOrdering(S)
<1>1. IsFiniteSet(S)
  <2>1. IsFiniteSet(0..n)
    BY FS_Interval
  <2> QED
    BY <2>1, FS_Subset
<1>2. IsWellFoundedOn(R, FiniteSubsetsOf(S))
  BY FS_StrictSubsetOrderingWellFounded
<1>3. U \subseteq FiniteSubsetsOf(S) /\ U # {}
  <2>1. ASSUME NEW k \in S PROVE From(k) \in FiniteSubsetsOf(S)
    BY <1>1, FS_Subset DEF FiniteSubsetsOf
  <2> QED
    BY <2>1, Zenon
<1>4. PICK s \in U : \A t \in U : ~(<<t, s>> \in R)
  <2> HIDE DEF U, R
  <2> QED
    BY <1>2, <1>3, WFMin
<1>5. PICK k \in S : s = From(k)
  OBVIOUS
<1>6. ASSUME NEW j \in S, j > k PROVE FALSE
  <2>1. k \in From(k) /\ k \notin From(j)
    BY <1>6
  <2>2. From(j) \subseteq From(k)
    <3>1. \A m \in S : m >= j => m >= k
      BY <1>6
    <3> QED
      BY <3>1
  <2>3. <<From(j), From(k)>> \in R
    BY <2>1, <2>2 DEF StrictSubsetOrdering
  <2>4. From(j) \in U
    OBVIOUS
  <2> QED
    BY <1>4, <1>5, <2>3, <2>4
<1> QED
  BY <1>6

(* A name that resolves is declared, with the register it resolves to.          *)
LEMMA ResolvedIn ==
    ASSUME NEW r \in Nat, NEW sc, Scoped(sc, r), NEW x, Resolve(sc, x) # 0
    PROVE  \E k \in 1..Len(sc) : <<x, Resolve(sc, x)>> \in sc[k]
<1> DEFINE at == {i \in 1..Len(sc) : Declares(sc[i], x)}
           top == CHOOSE i \in at : \A j \in at : j <= i
           d == CHOOSE v \in sc[top] : v[1] = x
<1>1. at # {}
  BY DEF Resolve
<1>2. Len(sc) \in Nat /\ at \in SUBSET (0..Len(sc)) /\ \A i \in 1..Len(sc) : sc[i] \subseteq Vars \X (1..r)
  BY DEF Scoped, Scopes
<1>3. \E i \in at : \A j \in at : j <= i
  <2> HIDE DEF at
  <2> QED
    BY <1>1, <1>2, Greatest
<1>4. top \in at
  BY <1>3
<1>5. top \in 1..Len(sc) /\ Declares(sc[top], x)
  BY <1>4
<1>6. \E v \in sc[top] : v[1] = x
  BY <1>5 DEF Declares
<1>7. d \in sc[top] /\ d[1] = x
  BY <1>6
<1>8. Resolve(sc, x) = d[2]
  BY <1>1 DEF Resolve
<1> HIDE DEF at, top, d
<1>9. d \in Vars \X (1..r)
  BY <1>2, <1>5, <1>7
<1>10. d = <<d[1], d[2]>>
  BY <1>9
<1> QED
  BY <1>5, <1>7, <1>8, <1>10

(* It is a register of a scope.                                                *)
LEMMA Resolved ==
    ASSUME NEW r \in Nat, NEW sc, Scoped(sc, r), NEW x
    PROVE  Resolve(sc, x) = 0 \/ Resolve(sc, x) \in RegsTo(sc, Len(sc))
<1> SUFFICES ASSUME Resolve(sc, x) # 0 PROVE Resolve(sc, x) \in RegsTo(sc, Len(sc))
  OBVIOUS
<1>1. PICK k \in 1..Len(sc) : <<x, Resolve(sc, x)>> \in sc[k]
  BY ResolvedIn
<1>2. <<x, Resolve(sc, x)>>[2] = Resolve(sc, x)
  OBVIOUS
<1> QED
  BY <1>1, <1>2 DEF RegsTo, RegsOf

(* A scope releases its own registers, all of them when no variable           *)
(* escapes.                                                                   *)
LEMMA OwnedRegs ==
    ASSUME NEW scope
    PROVE  /\ Owned(scope) \subseteq RegsOf(scope)
           /\ escaped = {} => Owned(scope) = RegsOf(scope)
BY DEF Owned, RegsOf, Escapes

(* What the end of a scope leaves: the registers of the others.                 *)
LEMMA RulePop ==
    ASSUME NEW rng \in BOOLEAN, NEW e \in BOOLEAN, NEW G, NEW c, NEW ends \in BOOLEAN, NEW P, NEW T,
           NEW r \in Nat, NEW sc, Scoped(sc, r), r <= MaxRegs, e => escaped = {},
           Emitted(rng, e, G, c, ends, P, T, RegsTo(sc, Len(sc)))
    PROVE  Emitted(rng, e, G, c \o PopReleases(sc, ends), ends, P, T, RegsTo(sc, Len(sc) - 1))
<1> DEFINE n == Len(sc)
           A == RegsTo(sc, n)
           B == RegsTo(sc, n - 1)
           rs == Owned(sc[n])
<1>1. n \in Nat /\ n \in 1..n /\ n - 1 \in Nat
  BY DEF Scoped, Scopes
<1>2. A = B \cup RegsOf(sc[n]) /\ B \cap RegsOf(sc[n]) = {}
  <2>1. (n - 1) + 1 = n
    BY <1>1
  <2>2. RegsTo(sc, (n - 1) + 1) = RegsTo(sc, n - 1) \cup RegsOf(sc[(n - 1) + 1])
    BY <1>1, RegsToNext
  <2> QED
    BY <1>1, <2>1, <2>2, RegsToApart
<1>3. A \in SUBSET Registers
  <2>1. MaxRegs \in Nat \/ A \subseteq 1..r
    BY <1>1, RegsToBound
  <2>2. A \subseteq 1..r
    BY <1>1, RegsToBound
  <2>3. MaxRegs \in Nat
    BY EmitAssumption DEF MaxRegs
  <2> QED
    BY <2>2, <2>3 DEF Registers
<1>4. rs \in SUBSET A /\ Fits(e, B, A \ rs)
  BY <1>2, OwnedRegs DEF Fits
<1>5. CASE ends
  <2>1. c \o PopReleases(sc, ends) = c
    <3>1. PopReleases(sc, ends) = <<>>
      BY <1>5 DEF PopReleases
    <3>2. c \in Seq(Code)
      BY DEF Emitted, Listing
    <3> QED
      BY <3>1, <3>2, Join
  <2> QED
    BY <1>5, <2>1, RuleWeaken
<1>6. CASE ~ends
  <2>1. PopReleases(sc, ends) = Release(rs)
    BY <1>6 DEF PopReleases
  <2>2. ends = FALSE
    BY <1>6
  <2> HIDE DEF A, B, rs
  <2>3. Emitted(rng, e, G, c, FALSE, P, T, A)
    BY <2>2 DEF A
  <2>4. Emitted(rng, e, G, c \o Release(rs), FALSE, P, T, A \ rs)
    BY <1>3, <1>4, <2>3, RuleRelease
  <2>5. Emitted(rng, e, G, c \o Release(rs), FALSE, P, T, B)
    BY <1>4, <2>4, RuleWeaken
  <2> QED
    BY <2>1, <2>2, <2>5 DEF B
<1> QED
  BY <1>5, <1>6

(* The deferred calls have names and positive numbers.                        *)
Recorded == deferred \in Seq([name : Vars, id : Nat \ {0}])

(* The deferred calls, written again in reverse.                                *)
LEMMA DeferredUses ==
    ASSUME Recorded, NEW r \in Nat, NEW sc, Scoped(sc, r)
    PROVE  /\ Deferred(sc) \in Seq(Code)
           /\ \A k \in 1..Len(Deferred(sc)) : Deferred(sc)[k].op = "use" /\ Deferred(sc)[k].id # 0
<1>0. ASSUME NEW i \in 1..Len(deferred) PROVE deferred[i].id \in Nat \ {0}
  <2>1. deferred[i] \in [name : Vars, id : Nat \ {0}]
    BY ElementOfSeq DEF Recorded
  <2> QED
    BY <2>1
<1> DEFINE n == Len(deferred)
           D(i) == LET d == deferred[n + 1 - i] IN Use(Resolve(sc, d.name), d.id)
           s == [i \in 1..n |-> D(i)]
<1>1. n \in Nat /\ \A i \in 1..n : deferred[i].id \in Nat \ {0}
  <2>1. n \in Nat
    BY DEF Recorded
  <2> QED
    BY <1>0, <2>1
<1>2. \A x : Resolve(sc, x) \in Nat
  <2>0. Len(sc) \in 1..Len(sc)
    BY DEF Scoped, Scopes
  <2>1. RegsTo(sc, Len(sc)) \subseteq 1..r
    BY <2>0, RegsToBound
  <2> QED
    BY <2>1, Resolved
<1>3. ASSUME NEW i \in 1..n PROVE D(i) \in Code /\ D(i).op = "use" /\ D(i).id # 0
  <2>1. n + 1 - i \in 1..n
    BY <1>1
  <2>2. deferred[n + 1 - i].id \in Nat \ {0} /\ Resolve(sc, deferred[n + 1 - i].name) \in Nat
    BY <1>1, <1>2, <2>1
  <2> QED
    BY <2>2, CodeTypes, Ops
<1>4. Deferred(sc) = s
  BY DEF Deferred
<1> HIDE DEF D, n
<1>5. s \in [1..n -> Code]
  BY <1>3
<1>6. s \in Seq(Code) /\ Len(s) = n
  BY <1>1, <1>5, SeqDef
<1> QED
  BY <1>3, <1>4, <1>6

(* What a return releases.                                                    *)
Released(sc) == UNION {Owned(sc[i]) : i \in 2..Len(sc)}

(* A variable that escapes is not released.                                   *)
LEMMA NotReleased ==
    ASSUME NEW r \in Nat, NEW sc, Scoped(sc, r), NEW x, Escapes(x), Resolve(sc, x) # 0
    PROVE  Resolve(sc, x) \notin Released(sc)
<1> DEFINE q == Resolve(sc, x)
<1>1. PICK k \in 1..Len(sc) : <<x, q>> \in sc[k]
  BY ResolvedIn
<1> HIDE DEF q
<1>2. SUFFICES ASSUME NEW i \in 2..Len(sc), q \in Owned(sc[i]) PROVE FALSE
  BY DEF Released, q
<1>3. PICK d \in sc[i] : d[2] = q /\ ~Escapes(d[1])
  BY <1>2 DEF Owned
<1>4. i \in 1..Len(sc)
  BY DEF Scoped, Scopes
<1>5. <<x, q>>[1] = x /\ <<x, q>>[2] = q
  OBVIOUS
<1>6. q \in RegsOf(sc[i]) /\ q \in RegsOf(sc[k])
  BY <1>1, <1>3, <1>5 DEF RegsOf
<1>7. i = k
  BY <1>4, <1>6 DEF Scoped
<1>8. d = <<x, q>>
  BY <1>1, <1>3, <1>4, <1>5, <1>7 DEF Scoped, Unique
<1> QED
  BY <1>3, <1>5, <1>8

(* A return from where the scopes sc are open and the registers X hold references   *)
(* besides: of nothing, or of a register that is not released.                    *)
LEMMA RuleReturn ==
    ASSUME NEW rng \in BOOLEAN, NEW e \in BOOLEAN, NEW G, NEW c, NEW P, NEW T, NEW A2,
           NEW r \in Nat, NEW sc, Scoped(sc, r), r <= MaxRegs, e => escaped = {}, Recorded,
           NEW X \in SUBSET Registers, X \cap RegsTo(sc, Len(sc)) = {}, e => X = {},
           NEW q \in Nat, q = 0 \/ (~e /\ q \in (RegsTo(sc, Len(sc)) \cup X) \ Released(sc)),
           Emitted(rng, e, G, c, FALSE, P, T, RegsTo(sc, Len(sc)) \cup X)
    PROVE  Emitted(rng, e, G, c \o Exit(sc, q), TRUE, P, T, A2)
<1> DEFINE n == Len(sc)
           A == RegsTo(sc, n) \cup X
           rs == Released(sc)
           u == Deferred(sc)
<1>1. n \in Nat /\ n \in 1..n
  BY DEF Scoped, Scopes
<1>2. A \in SUBSET Registers /\ ParamRegs \subseteq A
  <2>1. RegsTo(sc, n) \subseteq 1..r /\ ParamRegs \subseteq A
    BY <1>1, RegsToBound
  <2>2. MaxRegs \in Nat
    BY EmitAssumption DEF MaxRegs
  <2>3. RegsTo(sc, n) \subseteq Registers
    BY <2>1, <2>2 DEF Registers
  <2> QED
    BY <2>1, <2>3
<1>3. \A i \in 2..n : i \in 1..n /\ i # 1
  BY <1>1
<1>4. rs \subseteq A
  BY <1>3, OwnedRegs DEF RegsTo, Released
<1>5. rs \cap ParamRegs = {}
  <2>1. ASSUME NEW i \in 2..n PROVE RegsOf(sc[i]) \cap RegsOf(sc[1]) = {}
    <3>1. i \in 1..n /\ 1 \in 1..n /\ i # 1
      BY <1>1
    <3> QED
      BY <3>1 DEF Scoped
  <2>2. RegsOf(sc[1]) = ParamRegs
    BY DEF Scoped
  <2> QED
    BY <2>1, <2>2, OwnedRegs DEF Released
<1>6. e => A \ rs \subseteq ParamRegs
  <2> SUFFICES ASSUME e, NEW p \in A, p \notin rs PROVE p \in ParamRegs
    OBVIOUS
  <2>1. PICK i \in 1..n : p \in RegsOf(sc[i])
    BY DEF RegsTo
  <2>2. i \notin 2..n
    BY <2>1, OwnedRegs DEF Released
  <2>3. i = 1
    BY <1>1, <2>2
  <2> QED
    BY <2>1, <2>3 DEF Scoped
<1>7. rs \in SUBSET A /\ Fits(e, ParamRegs, A \ rs)
  BY <1>2, <1>4, <1>5, <1>6 DEF Fits
<1>8. u \in Seq(Code) /\ \A k \in 1..Len(u) : u[k].op = "use" /\ u[k].id # 0
  BY DeferredUses
<1>9. Exit(sc, q) = (Release(rs) \o u) \o <<Ret(q)>>
  BY DEF Exit, AllDeallocations, Released
<1>16. q = 0 \/ (~e /\ q \in A \ rs)
  OBVIOUS
<1> HIDE DEF A, rs, u
<1>10. Emitted(rng, e, G, c, FALSE, P, T, A)
  BY DEF A
<1>11. Emitted(rng, e, G, c \o Release(rs), FALSE, P, T, A \ rs)
  BY <1>2, <1>7, <1>10, RuleRelease
<1>12. A \ rs \in SUBSET Registers
  BY <1>2
<1>13. Emitted(rng, e, G, (c \o Release(rs)) \o u, FALSE, P, T, A \ rs)
  BY <1>8, <1>11, <1>12, RuleUses
<1>14. Emitted(rng, e, G, ((c \o Release(rs)) \o u) \o <<Ret(q)>>, TRUE, P, T, A2)
  BY <1>7, <1>12, <1>13, <1>16, RuleEnd
<1>15. ((c \o Release(rs)) \o u) \o <<Ret(q)>> = c \o ((Release(rs) \o u) \o <<Ret(q)>>)
  <2>1. c \in Seq(Code) /\ Release(rs) \in Seq(Code) /\ <<Ret(q)>> \in Seq(Code)
    <3>1. rs \in SUBSET Registers
      BY <1>2, <1>7
    <3> QED
      BY <3>1, ReleaseCode, CodeTypes DEF Emitted, Listing
  <2>2. c \o (Release(rs) \o u) = (c \o Release(rs)) \o u
    BY <1>8, <2>1, Join
  <2>4. Release(rs) \o u \in Seq(Code)
    BY <1>8, <2>1, Join
  <2>3. c \o ((Release(rs) \o u) \o <<Ret(q)>>) = (c \o (Release(rs) \o u)) \o <<Ret(q)>>
    BY <2>1, <2>4, Join
  <2> QED
    BY <2>2, <2>3
<1> QED
  BY <1>9, <1>14, <1>15

(* The end of a body, or a return of nothing.                                 *)
LEMMA RuleExit ==
    ASSUME NEW rng \in BOOLEAN, NEW e \in BOOLEAN, NEW G, NEW c, NEW P, NEW T, NEW A2,
           NEW r \in Nat, NEW sc, Scoped(sc, r), r <= MaxRegs, e => escaped = {}, Recorded,
           Emitted(rng, e, G, c, FALSE, P, T, RegsTo(sc, Len(sc)))
    PROVE  Emitted(rng, e, G, c \o Exit(sc, 0), TRUE, P, T, A2)
<1>1. PICK X : X = {}
  OBVIOUS
<1>2. RegsTo(sc, Len(sc)) \cup X = RegsTo(sc, Len(sc))
  BY <1>1
<1> QED
  BY <1>1, <1>2, RuleReturn

=============================================================================
