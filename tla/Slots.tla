------------------------------- MODULE Slots -------------------------------
(***************************************************************************)
(* Where the passes over the syntax tree look.  A slot is a child of a kind  *)
(* of node, "If.Then" the block of an if statement.  The traversals of the   *)
(* compiler are switches over the kinds of node that call themselves on some *)
(* of the children: one is the set of the slots it goes into, and it reaches *)
(* what lies at the end of a path of slots when it goes into each of them.   *)
(***************************************************************************)
EXTENDS Naturals, Sequences

Reaches(pass, path) == \A i \in DOMAIN path : path[i] \in pass

-----------------------------------------------------------------------------
(* The children of the nodes of compiler/ast/ast.go, those that can hold a    *)
(* use of a generic, a call or a construct a pass looks for.                  *)

FnSlots == {"Fn.Param", "Fn.Result", "Fn.Body"}

DeclSlots ==
    FnSlots \cup {"Struct.Field", "Struct.Method", "Var.Type", "Var.Value", "Const.Value",
                  "Rule.Condition", "Rule.Action", "Alias.Type"}

ValueSlots ==
    {"VarStmt.Type", "VarStmt.Value", "TupleVar.Value", "VarBlock.Decl", "Assign.LValue",
     "Assign.Value", "TupleAssign.Value", "Expr.Expr", "Block.Stmt"}

LoopSlots ==
    {"For.Init", "For.Cond", "For.Post", "For.Iterable", "For.Body", "While.Cond", "While.Body",
     "Until.Cond", "Until.Body"}

StmtSlots ==
    ValueSlots \cup LoopSlots \cup
    {"Return.Value", "If.Cond", "If.Then", "If.Else", "If.ElseIf", "Defer.Stmt", "Spawn.Call",
     "Comptime.Body", "Unsafe.Body", "With.Value", "With.Body", "Select.Cond", "Select.Body",
     "Switch.Subject", "Switch.Value", "Switch.Body"}

OperandSlots ==
    {"IfExpr.Cond", "IfExpr.Body", "Match.Subject", "Match.Pattern", "Match.Guard", "Match.Body",
     "Prefix.Operand", "Infix.Operand", "Array.Element", "Array.Type", "Set.Element", "Map.Pair"}

AccessSlots ==
    {"Async.Expr", "Await.Expr", "Builtin.Type", "Make.Capacity", "Index.Left", "Index.Index",
     "FromEnd.Operand", "Slice.Bound", "Range.Bound", "Spread.Operand"}

CallSlots ==
    {"Field.Left", "Init.Field", "FnLiteral.Type", "FnLiteral.Body", "Call.Function", "Call.Arg",
     "Propagate.Expr"}

ExprSlots == OperandSlots \cup AccessSlots \cup CallSlots \cup {"Query.Clause"}

TypeSlots ==
    {"Fn.Param", "Fn.Result", "Struct.Field", "Var.Type", "Alias.Type", "VarStmt.Type", "Array.Type",
     "Builtin.Type", "FnLiteral.Type"}

-----------------------------------------------------------------------------
(* mono_collect.go.                                                          *)

CollectInDecl == DeclSlots \ {"Rule.Condition", "Rule.Action", "Alias.Type"}

CollectInStmt ==
    StmtSlots \ {"VarBlock.Decl", "Assign.LValue", "TupleAssign.Value", "If.ElseIf", "Until.Cond",
                 "Until.Body", "Unsafe.Body", "Select.Cond"}

CollectInExpr == ExprSlots \ {"Array.Type", "Make.Capacity", "Slice.Bound", "Query.Clause"}

Collected == CollectInDecl \cup CollectInStmt \cup CollectInExpr

(* mono_specialize.go: what a copy of a generic has of its own; the rest of    *)
(* the tree is shared with the generic.                                      *)
SpecializeDecl == {"Fn.Param", "Fn.Result", "Fn.Body", "Struct.Field", "Struct.Method"}

SubstituteStmt ==
    StmtSlots \ {"VarBlock.Decl", "Assign.LValue", "TupleAssign.Value", "Until.Cond", "Until.Body",
                 "Unsafe.Body"}

SubstituteExpr ==
    ExprSlots \ {"Array.Type", "Make.Capacity", "Slice.Bound", "Query.Clause", "FnLiteral.Type",
                 "FnLiteral.Body"}

Specialized == SpecializeDecl \cup SubstituteStmt \cup SubstituteExpr

(* mono_substitute.go.                                                       *)
ReplaceInDecl == DeclSlots \ {"Rule.Condition", "Rule.Action", "Alias.Type"}

ReplaceInStmt ==
    StmtSlots \ {"VarBlock.Decl", "TupleAssign.Value", "Until.Cond", "Until.Body", "Unsafe.Body"}

ReplaceInExpr == ExprSlots \ {"Array.Type", "Slice.Bound", "Query.Clause"}

Replaced == ReplaceInDecl \cup ReplaceInStmt \cup ReplaceInExpr

-----------------------------------------------------------------------------
(* template_monomorph.go visits the bodies of functions, not of methods.      *)

FoundInStmt ==
    StmtSlots \ {"VarBlock.Decl", "TupleAssign.Value", "Until.Cond", "Until.Body", "Unsafe.Body",
                 "Select.Cond"}

FoundInExpr ==
    ExprSlots \ {"Array.Type", "Match.Pattern", "Match.Guard", "Builtin.Type", "Make.Capacity",
                 "FromEnd.Operand", "Query.Clause", "FnLiteral.Type", "FnLiteral.Body"}

Found == {"Fn.Body"} \cup FoundInStmt \cup FoundInExpr

CopiedStmt ==
    StmtSlots \ {"VarBlock.Decl", "Assign.LValue", "TupleAssign.Value", "Until.Cond", "Until.Body",
                 "Unsafe.Body"}

CopiedExpr ==
    ExprSlots \ {"Array.Type", "Builtin.Type", "Make.Capacity", "Query.Clause", "FnLiteral.Type",
                 "FnLiteral.Body"}

Copied == {"Fn.Param", "Fn.Result", "Fn.Body"} \cup CopiedStmt \cup CopiedExpr

(* The blocks of an if and of a match that are values are copied as they are. *)
RenamedInExpr ==
    (FoundInExpr \cup {"Match.Pattern", "Match.Guard", "FromEnd.Operand"})
    \ {"IfExpr.Body", "Match.Body"}

Renamed == {"Fn.Body"} \cup FoundInStmt \cup RenamedInExpr

-----------------------------------------------------------------------------
(* The scans of codegen/build.go for what needs a runtime file.              *)

ConcurrencyInStmt ==
    {"Block.Stmt", "If.Then", "If.Else", "For.Body", "While.Body", "VarStmt.Type", "VarStmt.Value",
     "Expr.Expr", "Assign.Value", "Return.Value", "Defer.Stmt"}

ConcurrencyInExpr ==
    {"Call.Arg", "Field.Left", "Index.Left", "Index.Index", "Infix.Operand", "Prefix.Operand",
     "Array.Element", "Map.Pair", "Init.Field"}

TensorsInStmt == ConcurrencyInStmt \ {"VarStmt.Type", "Defer.Stmt"}
TensorsInExpr == ConcurrencyInExpr

(* A channel is also noticed as the type of a parameter, a result or a field.  *)
(* An import, an extern function and a ruleset ask for a file by being there:   *)
(* the path is empty.                                                        *)
Scanned(kind, runtime) ==
    CASE kind = "fn" /\ runtime = "conc"     -> FnSlots \cup ConcurrencyInStmt \cup ConcurrencyInExpr
      [] kind = "fn" /\ runtime = "tensor"   -> {"Fn.Body"} \cup TensorsInStmt \cup TensorsInExpr
      [] kind = "struct" /\ runtime = "conc" -> {"Struct.Field"}
      [] OTHER                               -> {}

=============================================================================
