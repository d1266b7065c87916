------------------------------- MODULE MCSkink -------------------------------
(* Small inputs of the skink command, each family for one of its passes; the  *)
(* others go over its programs too.                                         *)
EXTENDS Skink

LOCAL INSTANCE SequencesExt
LOCAL INSTANCE FiniteSetsExt

N(part)     == NamedType(Plain(part))
IntType     == N("int")
Of(g, t)    == Generic(Plain(g), <<t>>)
In(m, g, t) == Generic(Name(m, <<g>>), <<t>>)
Ptr(t)      == Of("ptr", t)

Use(path, kind, written, want, given) ==
    [path |-> path, kind |-> kind, given |-> given, want |-> want, as |-> written,
     name |-> IF kind \in {"type", "named"} THEN NameOf(written)
              ELSE MangleName(NameOf(written), written.args),
     args |-> IF kind \in {"type", "named"} THEN written.args ELSE <<>>]

Decl(kind, name, uses) ==
    [kind |-> kind, name |-> Plain(name), params |-> <<>>, sig |-> <<>>, pub |-> TRUE, uses |-> uses,
     needs |-> {}, ctx |-> "", from |-> NoName]

Generically(decl, params) == [decl EXCEPT !.params = params]
Hidden(decl)              == [decl EXCEPT !.pub = FALSE]
Fn(name, sig, uses)       == [Decl("fn", name, uses) EXCEPT !.sig = sig]

File(path, module, imports, ds) ==
    [path |-> path, module |-> module, imports |-> imports, decls |-> ds, headers |-> {},
     parses |-> TRUE]

Home == <<"home">>
Dir1 == <<"dir">>
At(name) == Append(Dir1, name)

Run(files) ==
    [command |-> "build", stop |-> "", files |-> files, paths |-> <<At("main")>>, home |-> Home,
     manifest |-> "", tests |-> <<>>, mod |-> <<>>, cache |-> <<>>, github |-> {}]

Alone(ds) == Run(<<File(At("main"), "main", <<>>, ds)>>)

-----------------------------------------------------------------------------
(* Generics.                                                                 *)
Main(uses) == Fn("main", <<>>, uses)
Box        == Generically(Decl("struct", "Box", {}), <<"T">>)
Wrap(uses) == Generically(Fn("wrap", <<>>, uses), <<"T">>)

(* A path that ends in a slot.                                               *)
To(slot) ==
    IF slot \in DeclSlots THEN <<slot>>
    ELSE IF slot \in StmtSlots THEN <<"Fn.Body", slot>> ELSE <<"Fn.Body", "Expr.Expr", slot>>

(* A declaration that has the slot at the top.                               *)
Owner(slot, name, uses) ==
    Decl(IF slot \in {"Struct.Field", "Struct.Method"} THEN "struct"
         ELSE IF slot \in DeclSlots \ {"Fn.Param", "Fn.Result", "Fn.Body"} THEN "other" ELSE "fn", name, uses)

KindAt(slot) == IF slot \in TypeSlots THEN "type" ELSE "init"

AllSlots == DeclSlots \cup StmtSlots \cup ExprSlots

(* One use of an instance, at every slot, of a function that is no generic     *)
(* and of one that is.                                                       *)
AtSlots ==
    {Alone(<<Main({}), Owner(s, "user", {Use(To(s), KindAt(s), Of("Box", IntType), Of("Box", IntType), <<>>)}),
             Box>>) : s \in AllSlots}
    \cup {Alone(<<Main({Use(To("VarStmt.Type"), "type", Of("Wrap", IntType), Of("Wrap", IntType), <<>>),
                        Use(To("Expr.Expr"), "call", Of("Wrap", IntType), Of("Wrap", IntType), <<>>)}), Box,
                  Generically(Owner(s, "Wrap",
                      {Use(To(s), KindAt(s), Of("Box", N("T")), Of("Box", N("T")), <<>>)}), <<"T">>)>>) :
            s \in {t \in AllSlots : Owner(t, "", {}).kind # "other"}}

-----------------------------------------------------------------------------
(* Generics of a module, used in it, in main and in a third module.           *)
Modules(main, m, k) ==
    Run(<<File(At("k"), "k", <<<<"m">>>>, k), File(At("m"), "m", <<>>, m),
            File(At("main"), "main", <<<<"k">>, <<"m">>>>, main)>>)

Point    == Decl("struct", "Point", {})
PointOf(m) == NamedType(Name(m, <<"Point">>))
Pair     == Generically(Decl("struct", "Pair", {}), <<"K", "V">>)
GenericsOfM(Seen(_)) == <<Seen(Box), Seen(Wrap({})), Pair, Point>>
Visible(d) == d

OfPair(m, k, v) == Generic(Name(m, <<"Pair">>), <<k, v>>)

(* Uses of the generics of m, as they are written outside of it and in it.     *)
Elements == {IntType, PointOf("m"), Of("arr", Ptr(IntType))}

Outside ==
    UNION {{Use(To("VarStmt.Type"), "type", In("m", "Box", t), In("m", "Box", t), <<>>),
            Use(To("Expr.Expr"), "init", In("m", "Box", t), In("m", "Box", t), <<>>),
            Use(To("Builtin.Type"), "named", In("m", "Box", t), In("m", "Box", t), <<>>),
            Use(To("Expr.Expr"), "call", In("m", "wrap", t), In("m", "wrap", t), <<>>)} : t \in Elements}
    \cup {Use(To("VarStmt.Type"), "type", OfPair("m", t, PointOf("m")), OfPair("m", t, PointOf("m")), <<>>) :
             t \in {IntType, N("string")}}
    \cup {Use(To("VarStmt.Type"), "type", In("m", "Box", In("m", "Box", IntType)),
              In("m", "Box", In("m", "Box", IntType)), <<>>)}

Inside ==
    UNION {{Use(To("Expr.Expr"), "init", Of("Box", t), In("m", "Box", t), <<>>),
            Use(To("Expr.Expr"), "call", Of("wrap", t), In("m", "wrap", t), <<>>),
            Use(To("VarStmt.Type"), "type", Of("Box", t), In("m", "Box", t), <<>>),
            Use(To("VarStmt.Type"), "type", In("m", "Box", t), In("m", "Box", t), <<>>)} :
              t \in {IntType, N("Point"), Ptr(IntType)}}

(* In a generic of m: what it uses once it is copied.                         *)
Each(u) == Generically(Fn("each", <<N("T")>>, {u}), <<"T">>)
Nested ==
    {Use(To("VarStmt.Type"), "type", In("m", "Box", N("T")), In("m", "Box", N("T")), <<>>),
     Use(To("Expr.Expr"), "init", In("m", "Box", N("T")), In("m", "Box", N("T")), <<>>),
     Use(To("Expr.Expr"), "call", In("m", "wrap", N("T")), In("m", "wrap", N("T")), <<>>),
     Use(To("Expr.Expr"), "call", Of("wrap", N("T")), In("m", "wrap", N("T")), <<>>)}

CallEach == Use(To("Expr.Expr"), "call", In("m", "each", IntType), In("m", "each", IntType), <<>>)

AcrossModules ==
    {Modules(<<Main({u}), Point>>, GenericsOfM(Visible), <<>>) : u \in Outside}
    \cup {Modules(<<Main({u})>>, GenericsOfM(Hidden), <<>>) : u \in Outside}
    \cup {Modules(<<Main({}), Point>>, GenericsOfM(Visible), <<Fn("user", <<>>, {u}), Point>>) : u \in Outside}
    \cup {Modules(<<Main({})>>, GenericsOfM(Hidden) \o <<Fn("user", <<>>, {u})>>, <<>>) : u \in Inside}
    \cup {Modules(<<Main({CallEach})>>, GenericsOfM(Visible) \o <<Each(u)>>, <<>>) : u \in Nested}

(* Generics that use themselves: at the same type, by a pointer, at a larger   *)
(* one.                                                                      *)
Itself(slot, type) == Generically(Owner(slot, "Node", {Use(To(slot), "type", type, type, <<>>)}), <<"T">>)

OwnTypes == {Ptr(Of("Node", N("T"))), Of("Node", IntType), Of("Node", Ptr(N("T"))), Of("Node", Of("Box", N("T")))}

Recursive ==
    {Alone(<<Main({Use(To("VarStmt.Type"), "type", Of("Node", IntType), Of("Node", IntType), <<>>)}), Box,
             Itself(s, t)>>) : s \in {"Struct.Field", "Struct.Method"}, t \in OwnTypes}

-----------------------------------------------------------------------------
(* Functions with templates.                                                 *)
Template(name)    == Decl("template", name, {})
Call(slot, f, m, given) == Use(To(slot), "call", NamedType(Plain(f)), NamedType(Name(m, <<f>>)), given)
Num == N("Num")
Alphabet == <<"Num", "Ord">>

CallsAtSlots ==
    {Alone(<<Template("Num"), Fn("most", <<Num, IntType>>, {}), Main({}),
             Owner(s, "user", {Call(s, "most", "", <<IntType, IntType>>)})>>) :
        s \in StmtSlots \cup ExprSlots}
    \cup {Alone(<<Template("Num"), Fn("most", <<Num>>, {}), Main({Call("Expr.Expr", "first", "", <<IntType>>)}),
             Fn("first", <<Num>>, {Call(s, "most", "", <<Num>>),
                                   Use(To("VarStmt.Type"), "type", Num, Num, <<>>)})>>) :
        s \in StmtSlots \cup ExprSlots}

InferredTypes == {IntType, N("Point"), Ptr(IntType), NoType}

OneGiven == {<<a>> : a \in InferredTypes \cup {NamedType(Name("m", <<"Place">>))}} \cup {<<>>}
TwoGiven == {<<a, b>> : a, b \in InferredTypes}

(* One template or two, taken once or twice, called in main or from a module.  *)
CallsWithTypes ==
    {Alone(<<Template("Num"), Template("Ord"), Point, Fn("most", sig, {}),
             Main({Call("Expr.Expr", "most", "", g)})>>) :
        sig \in {<<Num, Num>>, <<N("Ord"), Num>>, <<Num, Ptr(Num)>>}, g \in TwoGiven}
    \cup {Modules(<<Main({Use(To("Expr.Expr"), "call", NamedType(Name("m", <<"most">>)),
                               NamedType(Name("m", <<"most">>)), g)}), Point>>,
                  <<Template("Num"), Decl("struct", "Place", {}), Fn("most", <<t>>, {}),
                    Fn("user", <<>>, {Call("Expr.Expr", "most", "m", <<IntType>>)})>>, <<>>) :
             t \in {Num, NamedType(Name("m", <<"Num">>))}, g \in OneGiven}
    \cup {Alone(<<Template("Num"), Fn("most", <<Num>>, {Call("Expr.Expr", "most", "", g)}),
                  Main({Call("Expr.Expr", "most", "", <<IntType>>)})>>) :
             g \in {<<Num>>, <<IntType>>, <<Ptr(Num)>>}}

-----------------------------------------------------------------------------
(* Imports: every way that three files may import one another when main imports *)
(* the first of the others, and every two places that a file may be in.        *)
Lists == {"main", "a", "b"}
ListOf(names) == [i \in 1..Cardinality(names) |-> <<SetToSeq(names)[i]>>]

ImportGraphs ==
    {Run(<<File(At("a"), "a", ListOf(ia), <<>>), File(At("b"), "b", ListOf(ib), <<>>),
             File(At("main"), "main", ListOf(im), <<Main({})>>)>>) :
        ia, ib \in SUBSET Lists, im \in {names \in SUBSET Lists : "a" \in names}}

PlacesOfA ==
    {At("a"), Dir1 \o <<"a", "main">>, Dir1 \o <<"a", "a">>, Dir1 \o <<"vendor", "a">>,
     Dir1 \o <<".skink", "cache", "a">>, Dir1 \o <<"std", "a">>, <<"a">>, <<"std", "a", "main">>,
     Home \o <<"a">>, Home \o <<"cache", "a">>, <<"other", "a">>}

InPlaces ==
    UNION {{[Run([i \in 1..2 |-> File(pair[i], "a", <<>>, <<Fn("f", <<>>, {})>>)]
                   \o <<File(At("main"), "main", <<<<"a">>>>, <<Main({})>>)>>) EXCEPT !.home = h] :
               h \in {Home, Root}} : pair \in {q \in PlacesOfA \X PlacesOfA : q[1] # q[2]}}

(* Files that cannot be read, and C headers.                                 *)
Header(escapes, ok) == [escapes |-> escapes, ok |-> ok, decls |-> {Fn("puts", <<>>, {})}]
With(header) == [File(At("main"), "main", <<<<"a">>>>,
                      <<Main({Use(To("Expr.Expr"), "call", N("puts"), N("puts"), <<>>)})>>)
                    EXCEPT !.headers = {header}]

Readings ==
    {[Run(<<[File(At("a"), m, <<>>, <<>>) EXCEPT !.parses = p], With(Header(e, ok))>>)
         EXCEPT !.manifest = named] :
        m \in {"", "a", "main"}, named \in {"", "main"}, p, e, ok \in BOOLEAN}

-----------------------------------------------------------------------------
(* The commands.                                                             *)
Needing(d, runtime, path) == [d EXCEPT !.needs = {[runtime |-> runtime, path |-> path]}]

(* What a declaration asks for by being there, in a field or in a method.       *)
Asking ==
    {Needing(Decl("struct", "user", {}), "conc", path) : path \in {To("Struct.Field"), To("Struct.Method")}}
    \cup {Needing(Decl("extern", "puts", {}), r, <<>>) : r \in {"conc", "tensor"}}
    \cup {Needing(Decl("import", "reflect", {}), "reflect", <<>>)}
    \cup {[Decl("ruleset", "user", {}) EXCEPT !.needs = {[runtime |-> r, path |-> <<>>] : r \in {"conc", "rules"}}]}

Builds ==
    {[Alone(<<Main({}), d>>) EXCEPT !.stop = s] : s \in {"", "ll", "obj"}, d \in Asking}
    \cup {[Alone(<<d>>) EXCEPT !.stop = s] :
        s \in {"", "ll", "obj"},
        d \in {Main({}), Fn("start", <<>>, {})}
                \cup {Needing(Main({}), r, To(at)) : r \in {"conc", "tensor"},
                          at \in {"Expr.Expr", "Switch.Body", "VarStmt.Type"}}
                \cup {Needing(Fn("main", <<>>, {}), "conc", To("Fn.Result"))}}

Others == {[Alone(<<Main({}), Box>>) EXCEPT !.command = c] : c \in {"ast", "check"}}

Test(dir, parses, named) == [dir |-> dir, parses |-> parses, named |-> named]

(* Two tests, the second in a directory where an import is not found.         *)
Tests ==
    {[Run(<<File(<<"t1", "a">>, "a", <<>>, <<Box>>), File(<<"t1", "main">>, "main", <<<<"a">>>>, <<Main({})>>),
              File(<<"t2", "main">>, "main", <<<<"a">>>>, IF broken THEN <<>> ELSE <<Main({})>>)>>)
        EXCEPT !.command = "test", !.tests = <<Test(<<"t1">>, p, n), Test(<<"t2">>, TRUE, TRUE)>>] :
        broken, p, n \in BOOLEAN}

Line(key, fields, package, version) ==
    [key |-> key, fields |-> fields, package |-> package, version |-> version]
PathLine(package, version) == Line("path", 2, package, version)
NoPackage == <<"none">>
Other(key, fields) == Line(key, fields, NoPackage, "")
Open == Other("require (", 2)
Shut == Other(")", 1)

(* Two packages, and one in the directory of the first.                      *)
A   == <<"a">>
B   == <<"b">>
Sub == <<"a", "sub">>

Mods ==
    {<<>>, <<Other("module", 2)>>, <<PathLine(A, "v2"), PathLine(B, "v1")>>,
     <<Other("module", 2), Open, PathLine(A, "v2"), Other("comment", 3), Shut, Line("require", 3, B, "v1")>>,
     <<Open, Shut, Line("require", 3, A, "v2"), PathLine(A, "v1"), Other("version", 2)>>,
     <<Other("requires", 1), Line("require", 3, A, "v1"), Open, PathLine(B, "v2"), Shut>>,
     <<PathLine(Sub, "v1"), Line("requires", 3, A, "v2")>>}

Gets == {[Alone(<<>>) EXCEPT !.command = "get", !.mod = lines, !.github = known,
                             !.cache = [p \in {A, B, Sub} |-> has]] :
            lines \in Mods, known \in SUBSET {A, B, Sub}, has \in {"none", "v1"}}

Menu == AtSlots \cup AcrossModules \cup Recursive \cup CallsAtSlots \cup CallsWithTypes
            \cup ImportGraphs \cup InPlaces \cup Readings \cup Builds \cup Others \cup Tests \cup Gets

=============================================================================
