------------------------------ MODULE Grammar ------------------------------
(***************************************************************************)
(* The parse functions of compiler/parser/parser.go as data.  A function is *)
(* a sequence of items, in the order of its code; Parse.tla says what each  *)
(* item does to the window of tokens, to the errors and to the call stack.  *)
(* The nodes of the syntax tree are left out, but for the shape of an       *)
(* expression, which Node writes in postfix order.                          *)
(*                                                                          *)
(* A token is a string: a keyword or an operator is its spelling; "x", "X", *)
(* "make", "min" and "_" are identifiers, X one that begins with a capital; *)
(* "num" is an integer literal, "badnum" one that ParseInt rejects, "int"   *)
(* the type (all three have the token type INT), "float" and "badfloat" are *)
(* the same with a dot, "bool" stands for the other primitive types; "str"  *)
(* is a string literal, "doc" a doc comment, "eof" the end of the text.     *)
(*                                                                          *)
(* A definition whose name starts with Mut is a broken version of the one   *)
(* after it, used to test that a property notices; no specification uses it.*)
(***************************************************************************)
EXTENDS Naturals, Sequences

-----------------------------------------------------------------------------
(* Items.                                                                    *)

Eat         == <<"eat">>            \* nextToken
Blind(T)    == <<"blind", T>>       \* nextToken, the code expects one of T and does not look
Need(T)     == <<"need", T>>        \* nextToken on one of T, else record an error and return nil
At(T)       == <<"at", T>>          \* the same test, nothing is consumed
NeedSkip(T) == <<"needskip", T>>    \* Need, with skipUntilNewlineOrBrace before the return
AtSkip(T)   == <<"atskip", T>>
Expect(T)   == <<"expect", T>>      \* nextToken on one of T, else record an error and go on
Opt(T)      == <<"opt", T>>         \* nextToken on one of T, else go on
Err         == <<"err">>            \* record an error
Skip        == <<"skip">>           \* skipUntilNewlineOrBrace
Return      == <<"return">>         \* return what has been parsed
Break       == <<"break">>          \* leave the innermost loop
Call(f)     == <<"call", f>>
Must(f)     == <<"must", f>>        \* call f, and return nil when it does
Expr(p)     == <<"expr", p>>        \* parseExpression with the precedence p
Infix(p)    == <<"infix", p>>       \* the loop of parseExpressionFromLeft
Until(T, b) == <<"until", T, b>>    \* repeat b until the current token is one of T or the last
While(T, b) == <<"while", T, b>>    \* repeat b while the current token is one of T
Node(n, k)  == <<"node", n, k>>     \* the expression parsed so far is an n, of kind k ("" keeps it)
ByKind(c)   == <<"bykind", c>>      \* go on according to the kind of the expression on the left

(* Alternatives: the first whose tests the window passes.  A test is a set of *)
(* tokens for each place of the window, {} for any token.                    *)
Pick(alts)  == <<"pick", alts>>
Otherwise   == <<>>
When(t, c)  == <<t, c>>
Else(c)     == When(Otherwise, c)

If(T, b)        == Pick(<<When(<<T>>, b), Else(<<>>)>>)
IfElse(T, b, c) == Pick(<<When(<<T>>, b), Else(c)>>)
SepBy(b)        == b \o <<While({","}, <<Eat>> \o b)>>

LOWEST == 0

-----------------------------------------------------------------------------
(* Classes of tokens.                                                        *)

Upper == {"X"}
Ident == {"x", "X", "make", "min", "_"}
IntToken   == {"num", "badnum", "int"}
FloatToken == {"float", "badfloat"}

Primitive == {"int", "bool"}
Generics  == {"set", "chan", "tensor"}

(* isTypeStart.                                                              *)
TypeStart == {"[", "*", "bool", "error"} \cup IntToken \cup FloatToken \cup Generics \cup Ident

(* isAssignOp, "+=" for the compound ones.                                   *)
AssignOp == {"=", "+="}

(* What follows "<" when parseIdentifier takes it for a type argument.       *)
TypeAhead == {"int", "bool", "error"} \cup Generics \cup Upper

-----------------------------------------------------------------------------
(* Declarations.                                                             *)

ParseProgram ==
    <<Until({}, <<While({"doc"}, <<Eat>>), Call("Declaration"), While({"doc"}, <<Eat>>)>>)>>

(* [a, b(...)]: nothing between the brackets is checked.                     *)
Attributes ==
    <<Eat,
      Until({"]"}, <<Pick(<< When(<<Ident, {"("}>>, <<Eat, Eat, Until({")"}, <<Blind(Ident)>>), Opt({")"})>>),
                             Else(<<Blind(Ident \cup {","})>>) >>)>>),
      Opt({"]"})>>

MutUnexpected == <<Err>>
Unexpected == <<Err, Eat>>

Declaration ==
    <<If({"["}, Attributes), If({"pub"}, <<Eat>>),
      Pick(<< When(<<{"fn"}>>, <<Call("FnDecl")>>),
              When(<<{"extern"}>>, <<Eat, AtSkip({"fn"}), Call("ExternFnDecl")>>),
              When(<<{"const"}>>, <<Call("ConstDecl")>>),
              When(<<{"var"}>>, <<Eat, Call("TopLevelVarDecl")>>),
              When(<<{"type"}>>, <<Call("TypeAliasDecl")>>),
              When(<<{"struct"}>>, <<Call("StructDecl")>>),
              When(<<{"enum"}>>, <<Call("EnumDecl")>>),
              When(<<{"service"}>>, <<Call("ServiceDecl")>>),
              When(<<{"ruleset"}>>, <<Call("RulesetDecl")>>),
              When(<<{"template"}>>, <<Call("TemplateDecl")>>),
              When(<<{"module"}>>, <<Eat, Call("ModuleDecl")>>),
              When(<<{"import"}>>, <<Eat, Call("ImportDecl")>>),
              When(<<{"doc"}>>, <<Eat>>),
              Else(Unexpected) >>)>>

TypeParamList ==
    <<Eat>> \o SepBy(<<Need(Ident), If({":"}, <<Eat, Call("Type")>>)>>) \o <<Need({">"})>>

(* A result type or a list of them; what happens without ")" differs.        *)
Results(close) ==
    If({"->"}, <<Eat, IfElse({"("}, <<Eat>> \o SepBy(<<Call("Type")>>) \o <<close>>,
                             <<Call("Type")>>)>>)

Params == <<Need({"("}), Call("ParamList"), Need({")"})>>

FnDecl ==
    <<Eat, Need(Ident), While({"."}, <<Eat, Need(Ident)>>), If({"<"}, <<Call("TypeParamList")>>)>>
        \o Params \o <<Results(Expect({")"})), If({"{"}, <<Call("BlockStmt")>>)>>

ExternFnDecl == <<Eat, Need(Ident)>> \o Params \o <<If({"->"}, <<Eat, Call("Type")>>)>>

ParamList ==
    <<IfElse({")"}, <<>>,
        SepBy(<<Need(Ident), Need({":"}), If({"..."}, <<Eat>>), Call("Type")>>) \o <<At({")"})>>)>>

Type ==
    <<Pick(<< When(<<Ident>>, <<Eat, While({"."}, <<Eat, Need(Ident)>>),
                             If({"<"}, <<Eat>> \o SepBy(<<Call("Type")>>) \o <<Need({">"})>>)>>),
              When(<<{"map"}, {"["}>>, <<Eat, Eat, Call("Type"), Need({"]"}), Call("Type")>>),
              When(<<Generics, {"<"}>>, <<Eat, Eat, Call("Type"), Opt({">"})>>),
              When(<<IntToken \cup FloatToken \cup Generics \cup {"bool", "map", "error"}>>, <<Eat>>),
              When(<<{"*"}>>, <<Eat, Call("Type")>>),
              When(<<{"["}>>, <<Eat, Need({"]"}), Call("Type")>>),
              When(<<{"fn"}>>, <<Call("FunctionType")>>),
              Else(<<Err, Eat>>) >>)>>

FunctionType ==
    <<Eat, Need({"("}), IfElse({")"}, <<>>, SepBy(<<Call("Type")>>)), Need({")"}),
      If({"->"}, <<Eat, Call("Type")>>)>>

-----------------------------------------------------------------------------
(* Statements.                                                               *)

(* A block begins with the current token, whatever it is, and the end of the  *)
(* text closes it.                                                           *)
BlockStmt == <<Blind({"{"}), Until({"}"}, <<Call("Statement")>>), Opt({"}"})>>

Block == Call("BlockStmt")

(* a, b := e and a, b = e.                                                   *)
TupleStmt ==
    <<Eat, While({","}, <<Eat, Need(Ident)>>), Need({":="} \cup AssignOp), Expr(LOWEST)>>

(* a.b = e, a[i] = e, or an expression that begins like one of them.         *)
MemberStmt ==
    <<Call("LValue"), IfElse(AssignOp, <<Eat, Expr(LOWEST)>>, <<Infix(LOWEST)>>)>>

VarStmt == <<Eat, Eat, Expr(LOWEST)>>

Statement ==
    <<Pick(<< When(<<Ident, {":="}>>, VarStmt),
              When(<<Ident, AssignOp>>, <<Call("AssignmentStmt")>>),
              When(<<Ident, {","}>>, TupleStmt),
              When(<<Ident, {".", "["}>>, MemberStmt),
              When(<<{"return"}>>, <<Call("ReturnStmt")>>),
              When(<<{"break", "continue"}>>, <<Eat>>),
              When(<<{"if"}>>, <<Call("IfStmt")>>),
              When(<<{"for"}>>, <<Call("ForStmt")>>),
              When(<<{"while", "until"}>>, <<Eat, Expr(LOWEST), Block>>),
              When(<<{"defer"}>>, <<Eat, Call("Statement")>>),
              When(<<{"unsafe", "comptime"}>>, <<Eat, Block>>),
              When(<<{"with"}>>, <<Call("WithStmt")>>),
              When(<<{"match"}, {":="}>>, VarStmt),
              When(<<{"match"}, {"="}>>, <<Call("AssignmentStmt")>>),
              When(<<{"match"}>>, <<Call("MatchExpr")>>),
              When(<<{"spawn"}>>, <<Eat, Expr(LOWEST)>>),
              When(<<{"select"}>>, <<Call("SelectStmt")>>),
              When(<<{"switch"}>>, <<Call("SwitchStmt")>>),
              When(<<{"var"}, {"{"}>>, <<Eat, Call("VarBlockStmt")>>),
              When(<<{"var"}>>, <<Eat, Call("VarDecl")>>),
              When(<<{"{"}>>, <<Block>>),
              When(<<{"doc"}>>, <<Eat>>),
              Else(<<Expr(LOWEST)>>) >>)>>

(* The type and the value of a variable; T are the tokens taken for a type.  *)
VarRest(T) ==
    <<NeedSkip(Ident),
      Pick(<<When(<<{":"}>>, <<Eat, Call("Type")>>), When(<<T>>, <<Call("Type")>>), Else(<<>>)>>),
      If({"="}, <<Eat, Expr(LOWEST)>>), If({","}, <<Eat>>)>>

VarDecl         == VarRest(TypeStart)
TopLevelVarDecl == VarRest({"[", "*", "set", "chan"} \cup Ident)

VarBlockStmt ==
    <<Eat, Until({"}"}, <<IfElse({","}, <<Eat>>, <<Call("VarDecl")>>)>>), Opt({"}"})>>

ReturnStmt ==
    <<Eat, IfElse({"}", "case", "default"}, <<>>, SepBy(<<Expr(LOWEST)>>))>>

IfStmt ==
    <<Eat, Expr(LOWEST), Block,
      If({"else"}, <<Eat, IfElse({"if"}, <<Call("IfStmt")>>, <<Block>>)>>)>>

IfExpr == <<Eat, Expr(LOWEST), Block, Need({"else"}), At({"{"}), Block, Node("if", "other")>>

AssignmentStmt == <<Must("LValue"), Need(AssignOp), Expr(LOWEST)>>

(* An identifier, as an expression.                                          *)
Leaf ==
    <<Pick(<< When(<<Upper>>, <<Eat, Node("x", "type")>>),
              When(<<{"make"}>>, <<Eat, Node("x", "make")>>),
              When(<<{"min"}>>, <<Eat, Node("x", "min")>>),
              Else(<<Eat, Node("x", "other")>>) >>)>>

FieldName ==
    <<At(Ident),
      IfElse(Upper, <<Eat, Node(".", "type")>>, <<Eat, Node(".", "other")>>)>>

(* The index of an lvalue is a whole expression: neither a slice with ":" nor *)
(* one without a start.                                                       *)
LValue ==
    <<At(Ident \cup {"match"})>> \o Leaf
        \o <<While({".", "["},
                <<IfElse({"."}, <<Eat>> \o FieldName,
                    <<Eat, Node("[", "other"), If({"^"}, <<Eat, Node("^", "other")>>), Expr(LOWEST),
                      Need({"]"}), Node("]", "other")>>)>>)>>

ConstDecl ==
    <<Eat,
      IfElse({"{"},
        <<Eat, Until({"}"}, <<IfElse({","}, <<Eat>>,
                                <<NeedSkip(Ident), NeedSkip({"="}), Expr(LOWEST), If({","}, <<Eat>>)>>)>>),
          Opt({"}"})>>,
        <<Need(Ident), Need({"="}), Expr(LOWEST)>>)>>

TypeAliasDecl == <<Eat, NeedSkip(Ident), NeedSkip({"="}), Call("Type")>>

StructDecl ==
    <<Eat, Need(Ident), If({"<"}, <<Call("TypeParamList")>>), Need({"{"}),
      Until({"}"},
        <<Pick(<< When(<<{"doc"}>>, <<Eat>>),
                  When(<<{"fn"}>>, <<Call("FnDecl")>>),
                  When(<<{"pub"}, {"fn"}>>, <<Eat, Call("FnDecl")>>),
                  Else(<<Need(Ident),
                           If({":"}, <<Eat, Call("Type"), If({":"}, <<Eat, Need(IntToken)>>)>>),
                           If({","}, <<Eat>>)>>) >>)>>),
      Opt({"}"})>>

ServiceDecl ==
    <<Eat, Need(Ident), If({"for"}, <<Eat, Need(Ident)>>), Need({"{"}),
      Until({"}"}, <<IfElse({"doc"}, <<Eat>>,
                        <<At({"fn", "pub"}), If({"pub"}, <<Eat>>), At({"fn"}), Call("FnDecl")>>)>>),
      Opt({"}"})>>

RulesetDecl ==
    <<Eat, Need(Ident), Need({"{"}),
      Until({"}"}, <<IfElse({"doc"}, <<Eat>>, <<At({"rule"}), Call("RuleDecl")>>)>>),
      Opt({"}"})>>

TemplateDecl ==
    <<Eat, Need(Ident), If({"<"}, <<Call("TypeParamList")>>), Need({"{"}),
      Until({"}"}, <<Pick(<< When(<<{"doc"}>>, <<Eat>>),
                             When(<<{"fn"}>>, <<Call("FnSignature")>>),
                             Else(<<Err, Skip>>) >>)>>),
      Opt({"}"})>>

FnSignature ==
    <<Eat, Need(Ident), If({"<"}, <<Call("TypeParamList")>>)>> \o Params \o <<Results(Opt({")"}))>>

RuleDecl ==
    <<Eat, Need(Ident), Need({"when"}), Expr(LOWEST), Need({"{"}),
      Until({"}"},
        <<Pick(<< When(<<{"doc"}>>, <<Eat>>),
                  When(<<{"priority"}, {":"}>>, <<Eat, Eat, Need(IntToken)>>),
                  When(<<{"action"}, {":"}>>,
                    <<Eat, Eat, Pick(<< When(<<{"{"}>>, <<Block>>), When(<<{"fn"}>>, <<Expr(LOWEST)>>),
                                        Else(<<Err, Skip>>) >>)>>),
                  Else(<<Call("Statement")>>) >>)>>),
      Opt({"}"})>>

EnumDecl ==
    <<Eat, Need(Ident), Need({"{"}),
      Until({"}"}, <<IfElse({"doc", ","}, <<Eat>>, <<NeedSkip(Ident), If({","}, <<Eat>>)>>)>>),
      Opt({"}"})>>

(* A module may be named like a type, but not with a number (1e1 is left out). *)
ModuleDecl == <<NeedSkip(Ident \cup Generics \cup {"error", "int", "bool", "badnum", "badfloat"})>>

(* alias "path", or "path" as alias.                                         *)
ImportPath ==
    Pick(<< When(<<Ident, {"str"}>>, <<Eat, Eat>>),
            Else(<<NeedSkip({"str"}),
                     Pick(<<When(<<{"as"}, Ident>>, <<Eat, Eat>>), Else(<<>>)>>)>>) >>)

ImportBlock ==
    <<Eat, Until({"}"}, <<ImportPath, If({","}, <<Eat>>)>>), Opt({"}"})>>

ImportDecl == <<IfElse({"{"}, <<Call("ImportBlock")>>, <<ImportPath>>)>>

(* ; cond ; post { ... }                                                     *)
ForClauses ==
    <<NeedSkip({";"}), IfElse({";"}, <<>>, <<Expr(LOWEST)>>), NeedSkip({";"}),
      IfElse({"{"}, <<>>, <<Call("Statement")>>), Block>>

ForInit ==
    Pick(<< When(<<{";"}>>, <<>>), When(<<Ident, AssignOp>>, <<Call("AssignmentStmt")>>),
            Else(<<Expr(LOWEST)>>) >>)

ForStmt ==
    <<Eat,
      Pick(<< When(<<Ident, {"in"}>>, <<Eat, Eat, Expr(LOWEST), Block>>),
              When(<<Ident, {":="}>>,
                <<Eat, Eat, IfElse({"range"}, <<Eat, Expr(LOWEST), Block>>,
                                   <<Expr(LOWEST)>> \o ForClauses)>>),
              When(<<{"{"}>>, <<Block>>),
              When(<<{";", "var"}>>, <<ForInit>> \o ForClauses),
              When(<<Ident, {"="}>>, <<ForInit>> \o ForClauses),
              When(<<{}, {"in"}>>, <<ForInit>> \o ForClauses),
              Else(<<Expr(LOWEST), AtSkip({"{"}), Block>>) >>)>>

WithStmt == <<Eat, NeedSkip(Ident), NeedSkip({"="}), Expr(LOWEST), Block>>

MatchExpr ==
    <<Eat, Expr(LOWEST), NeedSkip({"{"}),
      Until({"}"},
        <<IfElse({","}, <<Eat>>,
            <<IfElse({"_"}, <<Eat>>, <<Expr(LOWEST)>>), If({"if"}, <<Eat, Expr(LOWEST)>>),
              NeedSkip({"=>"}), IfElse({"{"}, <<Block>>, <<Expr(LOWEST)>>), If({","}, <<Eat>>)>>)>>),
      Opt({"}"}), Node("match", "other")>>

(* The statements of a case, up to the next one.                             *)
CaseBody == Until({"}", "case", "default"}, <<Call("Statement")>>)

SelectStmt ==
    <<Eat, NeedSkip({"{"}),
      Until({"}"},
        <<Pick(<< When(<<{"default"}>>, <<Eat, If({":"}, <<Eat>>), CaseBody>>),
                  When(<<{"case"}>>,
                    <<Eat, Pick(<<When(<<Ident, {":="}>>, <<Eat, Eat>>), Else(<<>>)>>),
                      Expr(LOWEST), If({":"}, <<Eat>>), CaseBody>>),
                  Else(<<Err, Skip>>) >>)>>),
      Opt({"}"})>>

SwitchStmt ==
    <<Eat, Expr(LOWEST), NeedSkip({"{"}),
      Until({"}"},
        <<Pick(<< When(<<{"default"}>>, <<Eat, If({":"}, <<Eat>>), CaseBody>>),
                  When(<<{"case"}>>,
                    <<Eat>> \o SepBy(<<Expr(LOWEST)>>) \o <<If({":"}, <<Eat>>), CaseBody>>),
                  Else(<<Err, Skip>>) >>)>>),
      Opt({"}"})>>

-----------------------------------------------------------------------------
(* Expressions.                                                              *)

(* precedences, one operator for each level; 0 for a token that is no infix.  *)
Prec(t) ==
    CASE t \in {"=", "<-"}   -> 1
      [] t = ".."            -> 2
      [] t = "||"            -> 3
      [] t = "&&"            -> 4
      [] t = "|"             -> 5
      [] t = "^"             -> 6
      [] t = "&"             -> 7
      [] t = "=="            -> 8
      [] t \in {"<", ">", "<=", "in"} -> 9
      [] t = "<<"            -> 10
      [] t \in {"+", "-"}    -> 11
      [] t = "*"             -> 12
      [] t = "**"            -> 13
      [] t = "?"             -> 15
      [] t = "("             -> 16
      [] t \in {"[", "."}    -> 17
      [] OTHER               -> LOWEST

PREFIX == 14
RANGE  == 2

(* parseInfixExpression: an operator of the same level ends the right operand. *)
MutOperand(t) == Expr(Prec(t) - 1)
Operand(t) == Expr(Prec(t))

InfixFn(t) ==
    CASE t \in {"=", ".."} -> <<Eat, Expr(LOWEST), Node(t, "other")>>
      [] t = "("           -> <<Call("CallExpression")>>
      [] t = "["           -> <<Call("IndexExpression")>>
      [] t = "."           -> <<Call("FieldAccessExpression")>>
      [] t = "?"           -> <<Eat, Node("?", "other")>>
      [] OTHER             -> <<Eat, Operand(t), Node(t, "other")>>

(* After the operators: T{} and T{f: e}, for a left side that names a type.   *)
StructInitNext ==
    Pick(<< When(<<{"{"}, {"}"}>>, <<Call("StructInit")>>),
            When(<<{"{"}, Ident, {":"}>>, <<Call("StructInit")>>),
            Else(<<>>) >>)

AfterOperators == ByKind([type |-> <<StructInitNext>>, make |-> <<>>, min |-> <<>>, other |-> <<>>])

Prefixed(t) == <<Eat, Expr(PREFIX), Node(t, "other")>>

(* async and await take the rest of the expression.                          *)
Greedy == <<Eat, Expr(LOWEST), Node("await", "other")>>

PrefixFn ==
    Pick(<< When(<<Ident \cup {"int", "badnum", "badfloat", "bool", "error", "chan", "tensor"}>>, <<Call("Identifier")>>),
            When(<<{"num", "float", "str", "true", "nil"}>>, <<Eat, Node("1", "other")>>),
            When(<<{"-"}>>, Prefixed("neg")),
            When(<<{"*", "&", "<-", "!"}>>, Prefixed("!")),
            When(<<{"("}>>, <<Call("GroupedExpression")>>),
            When(<<{"["}>>, <<Call("ArrayLiteral")>>),
            When(<<{"fn"}>>, <<Call("FnLiteral")>>),
            When(<<{"if"}>>, <<Call("IfExpr")>>),
            When(<<{"match"}, {"{"}>>, <<Call("Identifier")>>),
            When(<<{"match"}>>, <<Call("MatchExpr")>>),
            When(<<{"{"}>>, <<Call("MapLiteral")>>),
            When(<<{"await"}>>, Greedy),
            When(<<{"sizeof"}>>, <<Call("SizeofExpr")>>),
            When(<<{"set"}>>, <<Call("SetLiteral")>>),
            When(<<{"from"}>>, <<Call("QueryExpr")>>),
            Else(<<Err, Eat, Return>>) >>)

SizeofExpr == <<Eat, Need({"("}), Call("Type"), Opt({")"}), Node("sizeof", "other")>>

(* x < T is read as the type arguments of x when T looks like a type, and     *)
(* always after a name that begins with a capital.                           *)
GenericRef(kind) == <<Eat, Call("GenericArgs"), Node("generic", kind)>>

Identifier ==
    <<Pick(<< When(<<Upper, {"<"}>>, GenericRef("type") \o <<StructInitNext>>),
              When(<<{}, {"<"}, TypeAhead>>, GenericRef("other")),
              Else(Leaf) >>)>>

GenericArgs == <<Eat>> \o SepBy(<<Call("Type")>>) \o <<Need({">"})>>

ExpressionList(end) ==
    IfElse({end}, <<Eat>>, SepBy(<<Expr(LOWEST)>>) \o <<Expect({end})>>)

(* The arguments of make are a type and a capacity, those of min a type when  *)
(* the first is a primitive one.                                             *)
CallExpression ==
    <<Eat, Node("(", "")>>
        \o <<ByKind([make |-> <<Call("Type"), If({","}, <<Eat, Expr(LOWEST)>>), Opt({")"})>>,
                     min |-> <<IfElse(Primitive, <<Call("Type"), Opt({")"})>>, <<ExpressionList(")")>>)>>,
                     type |-> <<ExpressionList(")")>>, other |-> <<ExpressionList(")")>>])>>
        \o <<Node(")", "other")>>

CollectionElement == <<IfElse({".."}, <<Eat, Expr(LOWEST), Node("spread", "other")>>, <<Expr(LOWEST)>>)>>

(* { e, e, ... } after a type.                                               *)
Elements ==
    <<Eat, Until({"}"}, <<IfElse({","}, <<Eat>>, <<Expr(LOWEST), If({","}, <<Eat>>)>>)>>), Opt({"}"})>>

(* [k: v, ...] after its first key.                                          *)
BracketMap ==
    <<Eat, Expr(LOWEST),
      While({","}, <<Eat, IfElse({"]"}, <<>>, <<Call("CollectionElement"), Call("MapValue")>>)>>),
      Expect({"]"})>>

MapValue == <<NeedSkip({":"}), Expr(LOWEST)>>

(* [x] is a type without elements: an array of one name has none.            *)
ArrayLiteral ==
    <<Eat, Node("[", "other"),
      Pick(<< When(<<{"]"}, TypeStart>>, <<Eat, Call("Type"), If({"{"}, Elements)>>),
              When(<<{"]"}>>, <<Eat>>),
              When(<<Ident, {"]"}>>, <<Eat, Eat, If({"{"}, Elements)>>),
              Else(<<Call("CollectionElement"),
                       IfElse({":"}, BracketMap,
                          <<While({","}, <<Eat, IfElse({"]"}, <<>>, <<Call("CollectionElement")>>)>>),
                            Expect({"]"})>>)>>) >>),
      Node("array", "other")>>

MapLiteral ==
    <<Eat, Until({"}"}, <<IfElse({","}, <<Eat>>,
                             <<Expr(LOWEST), NeedSkip({":"}), Expr(LOWEST), If({","}, <<Eat>>)>>)>>),
      Opt({"}"}), Node("map", "other")>>

SetLiteral == <<Eat, At({"{"})>> \o Elements \o <<Node("set", "other")>>

FnLiteral ==
    <<Eat>> \o Params \o <<Results(Opt({")"})), At({"{"}), Block, Node("fn", "other")>>

(* a[..e], a[^e], a[s..e], a[s:e] and a[e].                                  *)
SliceEnd == <<Expr(LOWEST), Expect({"]"})>>

IndexExpression ==
    <<Eat, Node("[", "other"),
      Pick(<< When(<<{".."}, {"]"}>>, <<Eat, Node("slice", "other"), Eat>>),
              When(<<{".."}>>, <<Eat, Node("slice", "other")>> \o SliceEnd),
              When(<<{"^"}>>, <<Eat, Node("^", "other")>> \o SliceEnd),
              Else(<<Expr(RANGE),
                  Pick(<< When(<<{".."}, {"]"}>>, <<Eat, Node("slice", "other"), Eat>>),
                          When(<<{"..", ":"}>>, <<Eat, Node("slice", "other")>> \o SliceEnd),
                          Else(<<Expect({"]"})>>) >>)>>) >>),
      Node("]", "other")>>

FieldAccessExpression ==
    <<Eat, At(Ident),
      Pick(<< When(<<Upper, {"<"}>>, <<Eat, Call("GenericArgs"), Node(".", "type")>>),
              When(<<{}, {"<"}, TypeAhead>>, <<Eat, Call("GenericArgs"), Node(".", "other")>>),
              Else(FieldName) >>)>>

StructInit ==
    <<Eat,
      Until({"}"},
        <<IfElse(Ident, <<Eat, IfElse({":"}, <<Eat, Expr(LOWEST), If({","}, <<Eat>>)>>, <<Err, Break>>)>>,
                        <<Err, Break>>)>>),
      Expect({"}"}), Node("init", "other")>>

MutGroupedExpression == <<Eat, Expr(LOWEST), If({")"}, <<Eat>>)>>
GroupedExpression == <<Eat, Expr(LOWEST), Expect({")"})>>

QueryExpr ==
    <<Eat, Need(Ident), Need({"in"}), Expr(LOWEST),
      While({"where", "orderby", "group", "join"},
        <<Pick(<< When(<<{"where"}>>, <<Eat, Expr(LOWEST)>>),
                  When(<<{"orderby"}>>, <<Eat, Expr(LOWEST), If({"ascending", "descending"}, <<Eat>>)>>),
                  When(<<{"group"}>>, <<Eat, Expr(LOWEST), If({"by"}, <<Eat>>)>>),
                  Else(<<Eat, Need(Ident), Need({"in"}), Expr(LOWEST)>>) >>)>>),
      Need({"select"}), Expr(LOWEST), Node("query", "other")>>

-----------------------------------------------------------------------------
(* The parse functions by name.                                              *)

Body ==
    [Declaration |-> Declaration, TypeParamList |-> TypeParamList, FnDecl |-> FnDecl,
     ExternFnDecl |-> ExternFnDecl, ParamList |-> ParamList, Type |-> Type,
     FunctionType |-> FunctionType, BlockStmt |-> BlockStmt, Statement |-> Statement,
     VarDecl |-> VarDecl, TopLevelVarDecl |-> TopLevelVarDecl, VarBlockStmt |-> VarBlockStmt,
     ReturnStmt |-> ReturnStmt, IfStmt |-> IfStmt, IfExpr |-> IfExpr,
     AssignmentStmt |-> AssignmentStmt, LValue |-> LValue, ConstDecl |-> ConstDecl,
     TypeAliasDecl |-> TypeAliasDecl, StructDecl |-> StructDecl, ServiceDecl |-> ServiceDecl,
     RulesetDecl |-> RulesetDecl, TemplateDecl |-> TemplateDecl, FnSignature |-> FnSignature,
     RuleDecl |-> RuleDecl, EnumDecl |-> EnumDecl, ModuleDecl |-> ModuleDecl,
     ImportDecl |-> ImportDecl, ImportBlock |-> ImportBlock, ForStmt |-> ForStmt,
     WithStmt |-> WithStmt, MatchExpr |-> MatchExpr, SelectStmt |-> SelectStmt,
     SwitchStmt |-> SwitchStmt, SizeofExpr |-> SizeofExpr, Identifier |-> Identifier,
     GenericArgs |-> GenericArgs, CallExpression |-> CallExpression,
     CollectionElement |-> CollectionElement, MapValue |-> MapValue, ArrayLiteral |-> ArrayLiteral,
     MapLiteral |-> MapLiteral, SetLiteral |-> SetLiteral, FnLiteral |-> FnLiteral,
     IndexExpression |-> IndexExpression, FieldAccessExpression |-> FieldAccessExpression,
     StructInit |-> StructInit, GroupedExpression |-> GroupedExpression, QueryExpr |-> QueryExpr]

=============================================================================
