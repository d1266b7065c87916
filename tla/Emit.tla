-------------------------------- MODULE Emit --------------------------------
(***************************************************************************)
(* How compiler/codegen/codegen.go emits the body of a function, and what   *)
(* the emitted code does when it runs: basic blocks, lexical scopes, defer  *)
(* and the automatic release of heap variables.                             *)
(*                                                                          *)
(* The first half is the emitter.  The Go code walks a syntax tree; here    *)
(* the next statement of the program is chosen when the emitter reaches it, *)
(* so every body of at most MaxStmts statements is emitted.  "open" is the  *)
(* Go call stack: the statements whose emitXStmt has not returned.  One     *)
(* action is what an emitXStmt writes before it emits a nested block, or    *)
(* after it.  isEscaped reads the whole body, dead code included, so the    *)
(* names it answers TRUE for are chosen at the start, and a return may name *)
(* only those.                                                              *)
(*                                                                          *)
(* The second half runs the emitted code, with the reference counts of      *)
(* compiler/runtime/rc_rt.c and every outcome of a conditional branch.      *)
(*                                                                          *)
(* Abstracted: every variable is a string on the heap; conditions have no   *)
(* effect; a use is a call that reads its argument and keeps no reference;  *)
(* a release of several variables of one scope is one instruction (the code *)
(* follows the order of a Go map).  "sched" marks the place of a defer in   *)
(* the output and stands for no instruction.  The Init of a C-style loop is *)
(* emitted in the scope around the loop, and is here the statement before   *)
(* it; no loop has a Post.  Of several values returned one is a variable on *)
(* the heap, the others hold no reference.                                  *)
(*                                                                          *)
(* A definition whose name starts with Mut is a broken version of the one   *)
(* after it, used to test that a property notices; no specification uses it.*)
(***************************************************************************)
EXTENDS Naturals, Sequences, FiniteSets

CONSTANTS
    Vars,      \* the names of variables
    Params,    \* the names of the function's parameters, in order
    Menus,     \* bound: the sets of kinds of statement one body may mix
    MaxStmts,  \* bound: statements in a body
    MaxObjs,   \* bound: heap objects a run may allocate, parameters included
    MaxCount,  \* bound: references to one object in a run
    MaxSched   \* bound: defer statements a run may execute

ASSUME EmitAssumption ==
    /\ Params \in Seq(Vars)
    /\ \A i, j \in 1..Len(Params) : Params[i] = Params[j] => i = j
    /\ {MaxStmts, MaxObjs, MaxCount, MaxSched} \subseteq Nat
    /\ MaxObjs >= Len(Params)

VARIABLES
    src,         \* the kinds of the statements emitted so far (history)
    open,        \* the constructs being emitted, innermost last
    out,         \* cg.out: the instructions written
    terminated,  \* cg.terminated
    scopes,      \* cg.scopeVars: sets of <<name, register>>, innermost last
    deferred,    \* cg.deferred
    loops,       \* cg.loopLabels
    labels,      \* cg.labelCounter
    regs,        \* cg.regCounter
    escaped,     \* the names isEscaped answers TRUE for
    pc,          \* the run: index in out of the next instruction
    slot,        \* the run: the object each register holds, 0 for none
    count,       \* the run: the reference count of each object, 0 when freed
    sched,       \* the run: the defer statements executed, in order
    ran          \* the run: the deferred calls made, in order

emitVars == <<src, open, out, terminated, scopes, deferred, loops, labels, regs, escaped>>
runVars  == <<pc, slot, count, sched, ran>>
vars     == <<emitVars, runVars>>

Kinds == UNION Menus

MaxRegs == Len(Params) + 2 * MaxStmts

-----------------------------------------------------------------------------
(* Instructions.                                                             *)

Label(l)     == [op |-> "label", to |-> {l}]
Br(ls)       == [op |-> "br", to |-> ls]
Ret(r)       == [op |-> "ret", reg |-> r]   \* returns the value of r, nothing when r is 0
Unreachable  == [op |-> "unreachable"]
New(r)       == [op |-> "new", reg |-> r]
Store(r, s)  == [op |-> "store", reg |-> r, from |-> s]
Retain(r)    == [op |-> "retain", reg |-> r]
Release(rs)  == IF rs = {} THEN <<>> ELSE <<[op |-> "release", regs |-> rs]>>
Use(r, id)   == [op |-> "use", reg |-> r, id |-> id]
Sched(id)    == [op |-> "sched", id |-> id]

EndsBlock(i) == i.op \in {"br", "ret", "unreachable"}

-----------------------------------------------------------------------------
(* The helpers of the emitter.                                               *)

Declares(scope, x) == \E d \in scope : d[1] = x

(* resolveVar: the register of the innermost variable x, 0 when there is none *)
(* (the code then writes the name of a global).                               *)
Resolve(sc, x) ==
    LET at == {i \in 1..Len(sc) : Declares(sc[i], x)}
    IN  IF at = {} THEN 0
        ELSE (CHOOSE d \in sc[CHOOSE i \in at : \A j \in at : j <= i] : d[1] = x)[2]

(* isEscaped: a return of the body, reached or not, names x.                  *)
Escapes(x) == x \in escaped

(* emitDeallocationsForScope: the registers released when a scope ends.       *)
Owned(scope) == {d[2] : d \in {e \in scope : ~Escapes(e[1])}}

(* emitAllDeallocations: every scope but the first, which holds parameters.   *)
AllDeallocations(sc) == Release(UNION {Owned(sc[i]) : i \in 2..Len(sc)})

(* emitDeferred: the recorded statements again, the last one first, in the    *)
(* scopes of the place they are now emitted at.                               *)
Deferred(sc) ==
    [i \in 1..Len(deferred) |->
        LET d == deferred[Len(deferred) + 1 - i] IN Use(Resolve(sc, d.name), d.id)]

(* What a return of register r, or the end of the body, writes.               *)
Exit(sc, r) == AllDeallocations(sc) \o Deferred(sc) \o <<Ret(r)>>

(* popScope: the releases of the innermost scope; emitDeallocVar writes       *)
(* nothing once the block is terminated.                                      *)
MutPopReleases(sc, ends) == <<>>
PopReleases(sc, ends) == IF ends THEN <<>> ELSE Release(Owned(sc[Len(sc)]))

Front(s) == SubSeq(s, 1, Len(s) - 1)
Top(s)   == s[Len(s)]

Write(code, ends) == out' = out \o code /\ terminated' = ends
AppendCode(code)  == out' = out \o code /\ UNCHANGED terminated

Emitting == open # <<>>

(* The bounds on the bodies: so many statements, of the kinds of one menu.     *)
Allowed(kind) ==
    /\ Len(src) < MaxStmts
    /\ \E menu \in Menus : kind \in menu /\ \A i \in 1..Len(src) : src[i] \in menu

(* emitBlockStmt emits the next statement only while the block is open.       *)
MutNextStmt(kind) ==
    /\ Emitting /\ Allowed(kind)
    /\ src' = Append(src, kind)
    /\ UNCHANGED <<escaped, runVars>>
NextStmt(kind) ==
    /\ Emitting /\ ~terminated /\ Allowed(kind)
    /\ src' = Append(src, kind)
    /\ UNCHANGED <<escaped, runVars>>

(* declareVar in the innermost scope, with the next register.  The checker    *)
(* has rejected a second declaration of a name in one scope.                  *)
DeclareVar(x) ==
    /\ ~Declares(Top(scopes), x)
    /\ scopes' = [scopes EXCEPT ![Len(scopes)] = @ \cup {<<x, regs + 1>>}]
    /\ regs' = regs + 1

-----------------------------------------------------------------------------
(* Statements that open no block.                                            *)

(* emitVarStmt, x := "a" + "b": a fresh object, whose count is already one.   *)
VarNew(x) ==
    /\ NextStmt("var")
    /\ DeclareVar(x)
    /\ AppendCode(<<New(regs + 1)>>)
    /\ UNCHANGED <<open, deferred, loops, labels>>

(* emitVarStmt, x := y: the value is retained before it is stored.            *)
MutVarCopy(x, y) ==
    /\ NextStmt("var")
    /\ Resolve(scopes, y) # 0
    /\ DeclareVar(x)
    /\ AppendCode(<<Store(regs + 1, Resolve(scopes, y))>>)
    /\ UNCHANGED <<open, deferred, loops, labels>>
VarCopy(x, y) ==
    /\ NextStmt("var")
    /\ Resolve(scopes, y) # 0
    /\ DeclareVar(x)
    /\ LET r == Resolve(scopes, y)
       IN  AppendCode(<<Retain(r), Store(regs + 1, r)>>)
    /\ UNCHANGED <<open, deferred, loops, labels>>

(* emitIdentAssignment, x = "a" + "b": evaluate, release the old value, store. *)
AssignNew(x) ==
    /\ NextStmt("assign")
    /\ Resolve(scopes, x) # 0
    /\ regs' = regs + 1
    /\ LET r == Resolve(scopes, x)
       IN  AppendCode(<<New(regs + 1)>> \o Release({r}) \o <<Store(r, regs + 1)>>)
    /\ UNCHANGED <<open, scopes, deferred, loops, labels>>

(* emitIdentAssignment, x = y: the old value is released, then the new one is *)
(* retained.                                                                  *)
AssignCopy(x, y) ==
    /\ NextStmt("assign")
    /\ Resolve(scopes, x) # 0 /\ Resolve(scopes, y) # 0
    /\ LET r == Resolve(scopes, x)
           s == Resolve(scopes, y)
       IN  AppendCode(Release({r}) \o <<Retain(s), Store(r, s)>>)
    /\ UNCHANGED <<open, scopes, deferred, loops, labels, regs>>

(* A call that reads x.                                                       *)
ExprStmt(x) ==
    /\ NextStmt("use")
    /\ Resolve(scopes, x) # 0
    /\ AppendCode(<<Use(Resolve(scopes, x), 0)>>)
    /\ UNCHANGED <<open, scopes, deferred, loops, labels, regs>>

(* panic(msg): exit and unreachable.                                          *)
PanicCall ==
    /\ NextStmt("panic")
    /\ Write(<<Unreachable>>, TRUE)
    /\ UNCHANGED <<open, scopes, deferred, loops, labels, regs>>

(* emitReturnStmt without a value.                                            *)
ReturnVoid ==
    /\ NextStmt("return")
    /\ Write(Exit(scopes, 0), TRUE)
    /\ UNCHANGED <<open, scopes, deferred, loops, labels, regs>>

(* emitReturnStmt of x: the value, which is in a register of its own once it   *)
(* is read, is retained before the locals are released.                       *)
ReturnVar(x) ==
    /\ NextStmt("value")
    /\ Escapes(x) /\ Resolve(scopes, x) # 0
    /\ regs' = regs + 1
    /\ LET s == Resolve(scopes, x)
       IN  Write(<<Retain(s), Store(regs + 1, s)>> \o Exit(scopes, regs + 1), TRUE)
    /\ UNCHANGED <<open, scopes, deferred, loops, labels>>

(* emitReturnStmt of "a" + "b": retained as well, though its count is already *)
(* one.                                                                       *)
ReturnNew ==
    /\ NextStmt("value")
    /\ regs' = regs + 1
    /\ Write(<<New(regs + 1), Retain(regs + 1)>> \o Exit(scopes, regs + 1), TRUE)
    /\ UNCHANGED <<open, scopes, deferred, loops, labels>>

(* emitReturnStmt of several values, x among them: none is retained.          *)
ReturnMany(x) ==
    /\ NextStmt("values")
    /\ Escapes(x) /\ Resolve(scopes, x) # 0
    /\ Write(Exit(scopes, Resolve(scopes, x)), TRUE)
    /\ UNCHANGED <<open, scopes, deferred, loops, labels, regs>>

(* emitBreakStmt and emitContinueStmt: a branch, and no release.              *)
BreakStmt ==
    /\ NextStmt("break")
    /\ loops # <<>>
    /\ Write(<<Br({Top(loops).end})>>, TRUE)
    /\ UNCHANGED <<open, scopes, deferred, loops, labels, regs>>

ContinueStmt ==
    /\ NextStmt("continue")
    /\ loops # <<>>
    /\ Write(<<Br({Top(loops).continue})>>, TRUE)
    /\ UNCHANGED <<open, scopes, deferred, loops, labels, regs>>

(* x := f()?  (emitVarStmt, emitErrorPropagationBranch): the error block runs *)
(* the deferred statements and returns, and releases nothing.                 *)
TryVar(x) ==
    /\ NextStmt("try")
    /\ DeclareVar(x)
    /\ labels' = labels + 2
    /\ LET ok == labels + 1
           err == labels + 2
       IN  Write(<<Br({ok, err}), Label(err)>> \o Deferred(scopes)
                  \o <<Ret(0), Label(ok), New(regs + 1)>>, FALSE)
    /\ UNCHANGED <<open, deferred, loops>>

(* emitDeferStmt: record the call, write nothing.                             *)
DeferStmt(x) ==
    /\ NextStmt("defer")
    /\ Resolve(scopes, x) # 0
    /\ LET id == Len(deferred) + 1
       IN  /\ deferred' = Append(deferred, [name |-> x, id |-> id])
           /\ AppendCode(<<Sched(id)>>)
    /\ UNCHANGED <<open, scopes, loops, labels, regs>>

-----------------------------------------------------------------------------
(* Statements that open a block: what is written before the block.           *)

Frame(kind, label, ends) == [kind |-> kind, label |-> label, ends |-> ends]
Push(frame) == open' = Append(open, frame)

(* emitIfStmt: labels then, else and merge.                                  *)
IfStmt ==
    /\ NextStmt("if")
    /\ labels' = labels + 3
    /\ Write(<<Br({labels + 1, labels + 2}), Label(labels + 1)>>, FALSE)
    /\ scopes' = Append(scopes, {})
    /\ Push(Frame("then", labels, FALSE))
    /\ UNCHANGED <<deferred, loops, regs>>

(* emitWhileStmt and emitUntilStmt: labels cond, body and end.                *)
WhileStmt ==
    /\ NextStmt("while")
    /\ labels' = labels + 3
    /\ loops' = Append(loops, [continue |-> labels + 1, end |-> labels + 3])
    /\ Write(<<Br({labels + 1}), Label(labels + 1),
               Br({labels + 2, labels + 3}), Label(labels + 2)>>, FALSE)
    /\ scopes' = Append(scopes, {})
    /\ Push(Frame("while", labels, FALSE))
    /\ UNCHANGED <<deferred, regs>>

(* emitForStmt (C-style) and emitForInRange: labels cond, body, post and end. *)
(* The scope of a range loop is pushed before the loop, that of a C-style one *)
(* for its body; neither has another.                                         *)
ForStmt(kind) ==
    /\ NextStmt(kind)
    /\ labels' = labels + 4
    /\ loops' = Append(loops, [continue |-> labels + 3, end |-> labels + 4])
    /\ Write(<<Br({labels + 1}), Label(labels + 1),
               Br({labels + 2, labels + 4}), Label(labels + 2)>>, FALSE)
    /\ scopes' = Append(scopes, {})
    /\ Push(Frame(kind, labels, FALSE))
    /\ UNCHANGED <<deferred, regs>>

(* emitStatement of a block, emitUnsafeStmt and emitWithStmt.                 *)
BlockStmt ==
    /\ NextStmt("block")
    /\ scopes' = Append(scopes, {})
    /\ Push(Frame("block", labels, FALSE))
    /\ UNCHANGED <<out, terminated, deferred, loops, labels, regs>>

-----------------------------------------------------------------------------
(* The end of a block: popScope and what the emitXStmt writes after it.       *)

CloseFrame(kind) ==
    /\ Emitting /\ Top(open).kind = kind
    /\ UNCHANGED <<src, deferred, regs, escaped, runVars>>

(* What the end of the consequence writes, up to the label of the else block. *)
ThenEnd(l) ==
    PopReleases(scopes, terminated)
        \o (IF terminated THEN <<>> ELSE <<Br({l + 3})>>) \o <<Label(l + 2)>>

(* An if without alternative: the else block only jumps to the merge block.   *)
CloseIf ==
    LET l == Top(open).label
    IN  /\ CloseFrame("then")
        /\ Write(ThenEnd(l) \o <<Br({l + 3}), Label(l + 3)>>, FALSE)
        /\ open' = Front(open)
        /\ scopes' = Front(scopes)
        /\ UNCHANGED <<loops, labels>>

(* An if with an alternative: emitIfStmt pushes a scope for it, and the block *)
(* it is, a statement, pushes another.                                        *)
OpenElse ==
    LET l == Top(open).label
    IN  /\ CloseFrame("then")
        /\ Write(ThenEnd(l), FALSE)
        /\ open' = Append(Front(open), Frame("else", l, terminated))
        /\ scopes' = Front(scopes) \o <<{}, {}>>
        /\ UNCHANGED <<loops, labels>>

(* The end of an if: the merge block exists when a branch falls through.      *)
Merged(thenEnds, elseEnds) == thenEnds /\ elseEnds

CloseElse ==
    LET l == Top(open).label
        ends == Merged(Top(open).ends, terminated)
        jump == IF terminated THEN <<>> ELSE <<Br({l + 3})>>
        merge == IF ends THEN <<>> ELSE <<Label(l + 3)>>
    IN  /\ CloseFrame("else")
        /\ Write(PopReleases(scopes, terminated) \o jump \o merge, ends)
        /\ open' = Front(open)
        /\ scopes' = SubSeq(scopes, 1, Len(scopes) - 2)
        /\ UNCHANGED <<loops, labels>>

(* The end of a while body: the back edge, unless the body ended the block.   *)
MutBackEdge(ends, l) == <<Br({l})>>
BackEdge(ends, l) == IF ends THEN <<>> ELSE <<Br({l})>>

CloseWhile ==
    LET l == Top(open).label
    IN  /\ CloseFrame("while")
        /\ Write(PopReleases(scopes, terminated) \o BackEdge(terminated, l + 1)
                   \o <<Label(l + 3)>>, FALSE)
        /\ open' = Front(open)
        /\ scopes' = Front(scopes)
        /\ loops' = Front(loops)
        /\ UNCHANGED labels

CloseFor ==
    LET l == Top(open).label
    IN  /\ CloseFrame("for")
        /\ Write(PopReleases(scopes, terminated) \o BackEdge(terminated, l + 3)
                   \o <<Label(l + 3), Br({l + 1}), Label(l + 4)>>, FALSE)
        /\ open' = Front(open)
        /\ scopes' = Front(scopes)
        /\ loops' = Front(loops)
        /\ UNCHANGED labels

(* emitForInRange pops its scope after the back edge of the post block and    *)
(* after it has cleared terminated: the releases follow a branch.             *)
CloseRange ==
    LET l == Top(open).label
    IN  /\ CloseFrame("range")
        /\ Write(BackEdge(terminated, l + 3) \o <<Label(l + 3), Br({l + 1})>>
                   \o PopReleases(scopes, FALSE) \o <<Label(l + 4)>>, FALSE)
        /\ open' = Front(open)
        /\ scopes' = Front(scopes)
        /\ loops' = Front(loops)
        /\ UNCHANGED labels

CloseBlock ==
    /\ CloseFrame("block")
    /\ Write(PopReleases(scopes, terminated), terminated)
    /\ open' = Front(open)
    /\ scopes' = Front(scopes)
    /\ UNCHANGED <<loops, labels>>

(* The end of emitFnDecl: popScope, then an exit when the body falls through. *)
CloseFn ==
    /\ CloseFrame("fn")
    /\ Write(PopReleases(scopes, terminated)
               \o (IF terminated THEN <<>> ELSE Exit(Front(scopes), 0)), TRUE)
    /\ open' = Front(open)
    /\ scopes' = Front(scopes)
    /\ UNCHANGED <<loops, labels>>

-----------------------------------------------------------------------------
(* The emitted code runs.                                                    *)

Running == ~Emitting /\ pc <= Len(out)
Here    == out[pc]
Halted  == ~Emitting /\ pc <= Len(out) /\ Here.op \in {"ret", "unreachable"}

Live(r) == r # 0 /\ slot[r] # 0 /\ count[slot[r]] > 0

Holders(rs, o) == {r \in rs : slot[r] = o}

(* The objects an instruction reads are allocated, and a release takes no     *)
(* count below zero.                                                          *)
Sound(i) ==
    CASE i.op \in {"use", "retain"} -> Live(i.reg)
      [] i.op = "release" ->
            \A r \in i.regs : Live(r) /\ Cardinality(Holders(i.regs, slot[r])) <= count[slot[r]]
      [] OTHER -> TRUE

(* A run goes on after an instruction that is sound: what another one does is *)
(* undefined.                                                                 *)
Step(op) == Running /\ Here.op = op /\ Sound(Here) /\ UNCHANGED emitVars

RunBranch ==
    /\ Step("br")
    /\ \E l \in Here.to : pc' = CHOOSE i \in 1..Len(out) : out[i] = Label(l)
    /\ UNCHANGED <<slot, count, sched, ran>>

RunLabel ==
    /\ Step("label")
    /\ pc' = pc + 1
    /\ UNCHANGED <<slot, count, sched, ran>>

(* Skink_rc_alloc: a new object with a count of one.                          *)
RunNew ==
    /\ Step("new")
    /\ Len(count) < MaxObjs
    /\ count' = Append(count, 1)
    /\ slot' = [slot EXCEPT ![Here.reg] = Len(count) + 1]
    /\ pc' = pc + 1
    /\ UNCHANGED <<sched, ran>>

RunStore ==
    /\ Step("store")
    /\ slot' = [slot EXCEPT ![Here.reg] = slot[Here.from]]
    /\ pc' = pc + 1
    /\ UNCHANGED <<count, sched, ran>>

(* Skink_rc_retain.                                                           *)
RunRetain ==
    /\ Step("retain")
    /\ count[slot[Here.reg]] < MaxCount
    /\ count' = [count EXCEPT ![slot[Here.reg]] = @ + 1]
    /\ pc' = pc + 1
    /\ UNCHANGED <<slot, sched, ran>>

(* Skink_rc_release of each register: the last reference frees the object.    *)
RunRelease ==
    /\ Step("release")
    /\ count' = [o \in 1..Len(count) |-> count[o] - Cardinality(Holders(Here.regs, o))]
    /\ pc' = pc + 1
    /\ UNCHANGED <<slot, sched, ran>>

(* A call; a deferred one is recorded.                                        *)
RunUse ==
    /\ Step("use")
    /\ ran' = IF Here.id = 0 THEN ran ELSE Append(ran, Here.id)
    /\ pc' = pc + 1
    /\ UNCHANGED <<slot, count, sched>>

(* A defer statement is executed.                                             *)
RunDefer ==
    /\ Step("sched")
    /\ Len(sched) < MaxSched
    /\ sched' = Append(sched, Here.id)
    /\ pc' = pc + 1
    /\ UNCHANGED <<slot, count, ran>>

-----------------------------------------------------------------------------
(* The specification.                                                        *)

Init ==
    /\ src = <<>>
    /\ open = <<Frame("fn", 0, FALSE)>>
    /\ out = <<Label(0)>>
    /\ terminated = FALSE
    /\ scopes = <<{<<Params[i], i>> : i \in 1..Len(Params)}, {}>>
    /\ deferred = <<>>
    /\ loops = <<>>
    /\ labels = 0
    /\ regs = Len(Params)
    /\ escaped \in SUBSET Vars
    /\ pc = 1
    /\ slot = [r \in 1..MaxRegs |-> IF r <= Len(Params) THEN r ELSE 0]
    /\ count = [o \in 1..Len(Params) |-> 1]
    /\ sched = <<>>
    /\ ran = <<>>

Statement ==
    \/ \E x \in Vars :
        \/ VarNew(x) \/ AssignNew(x) \/ ExprStmt(x) \/ ReturnVar(x)
        \/ ReturnMany(x) \/ TryVar(x) \/ DeferStmt(x)
        \/ \E y \in Vars : VarCopy(x, y) \/ AssignCopy(x, y)
    \/ PanicCall \/ ReturnVoid \/ ReturnNew \/ BreakStmt \/ ContinueStmt
    \/ IfStmt \/ WhileStmt \/ ForStmt("for") \/ ForStmt("range") \/ BlockStmt

Close ==
    \/ CloseIf \/ OpenElse \/ CloseElse \/ CloseWhile \/ CloseFor
    \/ CloseRange \/ CloseBlock \/ CloseFn

Run ==
    \/ RunBranch \/ RunLabel \/ RunNew \/ RunStore \/ RunRetain
    \/ RunRelease \/ RunUse \/ RunDefer

Next == Statement \/ Close \/ Run

Spec == Init /\ [][Next]_vars

-----------------------------------------------------------------------------
(* Properties of the emitted code.                                           *)

(* Wherever a statement may follow, the flag every emitXStmt reads to decide   *)
(* whether to write a branch says whether the last instruction ended the block. *)
FlagTruthful == Emitting => (terminated <=> EndsBlock(Top(out)))

(* The releases emitForInRange writes after a branch, where no code is reached. *)
RangeCleanup(i) == i \in 2..Len(out) /\ out[i].op = "release" /\ EndsBlock(out[i - 1])

(* In a finished function every block has one terminator, its last instruction, *)
(* whatever returns, breaks and continues the body holds; only the releases a   *)
(* range loop writes after its back edge are outside every block.              *)
BlocksClosed ==
    ~Emitting =>
        /\ EndsBlock(Top(out))
        /\ \A i \in 2..Len(out) :
              \/ EndsBlock(out[i - 1]) <=> out[i].op = "label"
              \/ (RangeCleanup(i) \/ RangeCleanup(i - 1))
                 /\ \E k \in 1..Len(src) : src[k] = "range"

(* Every branch of a finished function has exactly one place to go, the merge   *)
(* block of an if whose two branches leave included.                           *)
JumpsLand ==
    ~Emitting =>
        \A i \in 1..Len(out) : out[i].op = "br" =>
            \A l \in out[i].to : Cardinality({j \in 1..Len(out) : out[j] = Label(l)}) = 1

(* LLVM accepts the finished function: its blocks are closed, its jumps land.  *)
WellFormed == BlocksClosed /\ JumpsLand

(* x = x, whose one reference is released before it is retained.               *)
SelfAssign(i) ==
    /\ i > 1 /\ out[i].op = "retain"
    /\ out[i - 1].op = "release" /\ out[i - 1].regs = {out[i].reg}

Late(i) == i.op = "use" /\ i.id # 0

(* No path through the emitted code reads or releases an object that has been   *)
(* freed, or a variable the path has not initialised: the scopes a return, a    *)
(* break or the end of a block releases are those the path has entered.  The    *)
(* two exceptions are calls that were deferred, emitted after the releases and  *)
(* also on paths that skipped the defer, and x = x.                             *)
NoUseAfterFree == Running => (Sound(Here) \/ Late(Here) \/ SelfAssign(pc))

Stored(r) == \E i \in 1..Len(out) : out[i].op = "store" /\ out[i].reg = r

ParamsKept == \A r \in 1..Len(Params) : ~Stored(r)

(* A function that never assigns to a parameter returns with the caller's       *)
(* reference to it intact, on every path.                                       *)
CallerKeeps ==
    Halted => \A r \in 1..Len(Params) : Stored(r) \/ count[r] >= 1

(* A value that is returned has a reference of its own for the caller, beside    *)
(* those of the parameters: the releases written after it was read leave it      *)
(* alone.  A parameter among several values shares the caller's reference.       *)
ResultKept ==
    Halted /\ Here.op = "ret" /\ Here.reg # 0 =>
        /\ Live(Here.reg)
        /\ LET o == slot[Here.reg]
           IN  Cardinality(Holders(1..Len(Params) \cup {Here.reg}, o)) <= count[o]

(* The statements that may leave a reference nobody drops.                      *)
Leaky == {"break", "continue", "try", "range", "panic", "value"}

(* A function that returns no value, lets no variable escape, never assigns to a *)
(* parameter and has no break, continue, x := f()?, range loop or panic releases *)
(* every object it allocated exactly once, however its blocks nest and wherever  *)
(* it returns.                                                                  *)
NothingLeaks ==
    Halted /\ escaped = {} /\ ParamsKept /\ (\A k \in 1..Len(src) : src[k] \notin Leaky) =>
        \A o \in 1..Len(count) : count[o] = IF o <= Len(Params) THEN 1 ELSE 0

(* When a run has ended, whichever return it took, nothing has been released too  *)
(* often: the caller has its references to the arguments, except to a parameter   *)
(* the function assigns to, and one to the result.  Nor too seldom, for the       *)
(* functions NothingLeaks is about: one that returns a value may leave it one     *)
(* reference too many, for it is retained and no release answers that.            *)
ReferencesBalance == CallerKeeps /\ ResultKept /\ NothingLeaks

Reversed(s) == [i \in 1..Len(s) |-> s[Len(s) + 1 - i]]

(* When the function returns, the calls made are those of the defer statements   *)
(* the run executed, the last one first.                                         *)
DeferredRun == Halted /\ Here.op = "ret" => ran = Reversed(sched)

=============================================================================
