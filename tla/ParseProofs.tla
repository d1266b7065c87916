----------------------------- MODULE ParseProofs -----------------------------
(***************************************************************************)
(* Proofs about Parse for texts of any length and any nesting: a text that   *)
(* the parser accepts has its brackets closed, in the order they were opened,*)
(* but for tokens that the code takes without looking at them.               *)
(*                                                                          *)
(* TInv, the inductive invariant, says that the items on the call stack      *)
(* close what is open, as long as no error was recorded.  It rests on a type *)
(* for code.  Run(c, k, o, l, p) says that the items c, where the next tokens*)
(* are of the sets k and the brackets o are open, take the parser to where   *)
(* the next tokens are of the sets l and the brackets p are open, or to an   *)
(* error.  The sets k are what the code knows of its tokens: a function is   *)
(* called where the current token was looked at, so it takes that one        *)
(* unseen.  The judgement is the largest one that each item agrees with, a   *)
(* member of some Closed set: a loop or a call needs no induction.           *)
(*                                                                          *)
(* The rules for the items come first, then a lemma for each action, which   *)
(* keeps TInv if the code of every parse function, of the operands and of the*)
(* operators has its type; the rest gives each of them its type, by rules for*)
(* the forms they are made of.  The last section is about the lexer.         *)
(***************************************************************************)
EXTENDS Parse, WellFoundedInduction, FiniteSetTheorems, SequenceTheorems, TLAPS

-----------------------------------------------------------------------------
(* A least and a greatest element.  Among the sets of the elements up to each  *)
(* element there is one that includes no other.                              *)

LEMMA Least ==
    ASSUME NEW n \in Nat, NEW T \in SUBSET (0 .. n), T # {}
    PROVE  \E k \in T : \A j \in T : k <= j
  <1> DEFINE Upto(k) == {j \in T : j <= k}
             U       == {Upto(k) : k \in T}
             R       == StrictSubsetOrdering(T)
  <1>1. IsFiniteSet(T)
    <2>1. IsFiniteSet(0 .. n)
      BY FS_Interval
    <2>2. QED
      BY <2>1, FS_Subset
  <1>2. IsWellFoundedOn(R, FiniteSubsetsOf(T))
    BY FS_StrictSubsetOrderingWellFounded
  <1>3. U \subseteq FiniteSubsetsOf(T) /\ U # {}
    <2>1. ASSUME NEW k \in T PROVE Upto(k) \in FiniteSubsetsOf(T)
      BY <1>1, FS_Subset DEF FiniteSubsetsOf
    <2>2. QED
      BY <2>1, Zenon
  <1>4. PICK s \in U : \A t \in U : ~(<<t, s>> \in R)
    <2> HIDE DEF U, R
    <2> QED
      BY <1>2, <1>3, WFMin
  <1>5. PICK k \in T : s = Upto(k)
    OBVIOUS
  <1>6. ASSUME NEW j \in T, j < k PROVE FALSE
    <2>1. Upto(j) \subseteq Upto(k) /\ Upto(j) # Upto(k)
      <3>1. k \in Upto(k) /\ k \notin Upto(j)
        BY <1>6
      <3>2. \A m \in T : m <= j => m <= k
        BY <1>6
      <3>3. QED
        BY <3>1, <3>2
    <2>2. <<Upto(j), Upto(k)>> \in R
      BY <2>1 DEF StrictSubsetOrdering
    <2>3. Upto(j) \in U
      OBVIOUS
    <2>4. QED
      BY <1>4, <1>5, <2>2, <2>3
  <1>7. QED
    BY <1>6

-----------------------------------------------------------------------------
(* What is known of the tokens ahead, and what an item does to the nest.      *)

IsSeq(s) == \E S : s \in Seq(S)

Nests == Seq(Openers)
Kinds == {"type", "make", "min", "other"}

Plain(T) == T # {} /\ T \cap (Openers \cup Closers \cup {"eof"}) = {}

(* Taking a token of T with the nest o open leaves the nest p.                *)
Takes(T, o, p) ==
    \/ Plain(T) /\ p = o
    \/ \E b \in Openers : T = {b} /\ p = Append(o, b)
    \/ \E b \in Openers : T = {Closing[b]} /\ o = Append(p, b)

(* The tokens w begin with one of each set of k; {} is any token.             *)
Fits(w, k) == Len(k) <= Len(w) /\ \A i \in 1..Len(k) : k[i] = {} \/ w[i] \in k[i]

(* What k or t says of a token includes what m says of it.                    *)
Knows(k, t, m) ==
    \A i \in 1..Len(m) :
        \/ i <= Len(k) /\ k[i] # {} /\ k[i] \subseteq m[i]
        \/ i <= Len(t) /\ (m[i] = {} \/ (t[i] # {} /\ t[i] \subseteq m[i]))

(* The tokens each function may rely on when it is called.                    *)
Start ==
    [Declaration |-> <<>>, TypeParamList |-> <<{"<"}>>, FnDecl |-> <<{"fn"}>>,
     ExternFnDecl |-> <<{"fn"}>>, ParamList |-> <<>>, Type |-> <<>>,
     FunctionType |-> <<{"fn"}>>, BlockStmt |-> <<>>, Statement |-> <<>>,
     VarDecl |-> <<>>, TopLevelVarDecl |-> <<>>, VarBlockStmt |-> <<{"{"}>>,
     ReturnStmt |-> <<{"return"}>>, IfStmt |-> <<{"if"}>>, IfExpr |-> <<{"if"}>>,
     AssignmentStmt |-> <<>>, LValue |-> <<>>, ConstDecl |-> <<{"const"}>>,
     TypeAliasDecl |-> <<{"type"}>>, StructDecl |-> <<{"struct"}>>,
     ServiceDecl |-> <<{"service"}>>, RulesetDecl |-> <<{"ruleset"}>>,
     TemplateDecl |-> <<{"template"}>>, FnSignature |-> <<{"fn"}>>, RuleDecl |-> <<{"rule"}>>,
     EnumDecl |-> <<{"enum"}>>, ModuleDecl |-> <<>>, ImportDecl |-> <<>>,
     ImportBlock |-> <<{"{"}>>, ForStmt |-> <<{"for"}>>, WithStmt |-> <<{"with"}>>,
     MatchExpr |-> <<{"match"}>>, SelectStmt |-> <<{"select"}>>, SwitchStmt |-> <<{"switch"}>>,
     SizeofExpr |-> <<{"sizeof"}>>,
     Identifier |-> <<Ident \cup {"int", "badnum", "badfloat", "bool", "error", "chan", "tensor", "match"}>>,
     GenericArgs |-> <<{"<"}>>, CallExpression |-> <<{"("}>>, CollectionElement |-> <<>>,
     MapValue |-> <<>>, ArrayLiteral |-> <<{"["}>>, MapLiteral |-> <<{"{"}>>,
     SetLiteral |-> <<{"set"}>>, FnLiteral |-> <<{"fn"}>>, IndexExpression |-> <<{"["}>>,
     FieldAccessExpression |-> <<{"."}>>, StructInit |-> <<{"{"}>>,
     GroupedExpression |-> <<{"("}>>, QueryExpr |-> <<{"from"}>>]

Consuming == {"need", "needskip", "blind", "expect", "opt"}

(* An item x goes from knowledge k and nest o to knowledge l and nest p, when  *)
(* the code inside of it is in F.                                            *)
Neutral(F, x, k, l) ==
    \/ x[1] \in {"at", "atskip"} /\ l \in {<<>>, <<x[2]>>}
    \/ x[1] \in {"end", "mustend"} /\ l = k
    \/ x[1] = "node" /\ x[3] \in Kinds \cup {""} /\ l \in {<<>>, k}
    \/ x[1] = "until" /\ l = <<>> /\ <<x[3], <<>>, <<>>, <<>>, <<>>>> \in F
    \/ x[1] = "while" /\ l = <<>> /\ <<x[3], <<x[2]>>, <<>>, <<>>, <<>>>> \in F
    \/ x[1] \in {"call", "must"} /\ l = <<>> /\ x[2] \in DOMAIN Body /\ Knows(k, <<>>, Start[x[2]])
    \/ x[1] \in {"expr", "infix"} /\ l = <<>> /\ x[2] \in Nat

(* The second alternative may also rely on a token that the first one rejected. *)
AltKnows(k, alts, i, m) ==
    \/ Knows(k, alts[i][1], m)
    \/ i = 2 /\ k # <<>> /\ Len(alts[1][1]) = 1 /\ m = <<k[1] \ alts[1][1][1]>>

AltsIn(F, alts, k, o, l, p) ==
    /\ IsSeq(alts) /\ alts # <<>> /\ alts[Len(alts)][1] = Otherwise
    /\ \A i \in 1..Len(alts) :
          /\ IsSeq(alts[i][1])
          /\ \E m : AltKnows(k, alts, i, m) /\ <<alts[i][2], m, o, l, p>> \in F

Item(F, x, k, o, l, p) ==
    \/ x[1] = "eat" /\ k # <<>> /\ Takes(k[1], o, p) /\ l \in {<<>>, Tail(k)}
    \/ x[1] \in Consuming /\ Takes(x[2], o, p) /\ l = <<>>
    \/ Neutral(F, x, k, l) /\ p = o
    \/ x[1] = "pick" /\ AltsIn(F, x[2], k, o, l, p)
    \/ x[1] = "bykind" /\ \A d \in Kinds : <<x[2][d], k, o, l, p>> \in F

(* Every code of F can be run item by item within F, but for what follows an   *)
(* error: then the text is not accepted.                                     *)
Typed(c, k, o, l, p) == IsSeq(c) /\ IsSeq(k) /\ o \in Nests /\ IsSeq(l) /\ p \in Nests

Goes(F, c, k, o, l, p) ==
    \/ c = <<>> /\ l = k /\ p = o
    \/ c # <<>> /\ c[1] = Err
    \/ c # <<>> /\ \E m, q : Item(F, c[1], k, o, m, q) /\ <<Tail(c), m, q, l, p>> \in F

Closed(F) ==
    \A e \in F : \E c, k, o, l, p :
        e = <<c, k, o, l, p>> /\ Typed(c, k, o, l, p) /\ Goes(F, c, k, o, l, p)

(* Code that has k and o before it has l and p after it.                      *)
Run(c, k, o, l, p) == \E F : Closed(F) /\ <<c, k, o, l, p>> \in F

-----------------------------------------------------------------------------
(* Closed sets.                                                              *)

LEMMA ItemGrows ==
    ASSUME NEW F, NEW G, F \subseteq G, NEW x, NEW k, NEW o, NEW l, NEW p, Item(F, x, k, o, l, p)
    PROVE  Item(G, x, k, o, l, p)
  <1>1. Neutral(F, x, k, l) => Neutral(G, x, k, l)
    BY DEF Neutral
  <1>2. AltsIn(F, x[2], k, o, l, p) => AltsIn(G, x[2], k, o, l, p)
    BY DEF AltsIn
  <1>3. QED
    BY <1>1, <1>2 DEF Item

LEMMA GoesGrows ==
    ASSUME NEW F, NEW G, F \subseteq G, NEW c, NEW k, NEW o, NEW l, NEW p, Goes(F, c, k, o, l, p)
    PROVE  Goes(G, c, k, o, l, p)
  BY ItemGrows DEF Goes

LEMMA InClosed ==
    ASSUME NEW F, Closed(F), NEW c, NEW k, NEW o, NEW l, NEW p, <<c, k, o, l, p>> \in F
    PROVE  Typed(c, k, o, l, p) /\ Goes(F, c, k, o, l, p)
  BY DEF Closed

LEMMA RunTyped ==
    ASSUME NEW c, NEW k, NEW o, NEW l, NEW p, Run(c, k, o, l, p)
    PROVE  Typed(c, k, o, l, p)
  BY InClosed DEF Run

LEMMA JoinClosed ==
    ASSUME NEW U, \A F \in U : Closed(F)
    PROVE  Closed(UNION U)
  <1> SUFFICES ASSUME NEW F \in U, NEW e \in F
               PROVE  \E c, k, o, l, p : e = <<c, k, o, l, p>> /\ Typed(c, k, o, l, p)
                                            /\ Goes(UNION U, c, k, o, l, p)
    BY DEF Closed
  <1>1. PICK c, k, o, l, p : e = <<c, k, o, l, p>> /\ Typed(c, k, o, l, p) /\ Goes(F, c, k, o, l, p)
    BY DEF Closed
  <1>2. F \subseteq UNION U
    OBVIOUS
  <1>3. Goes(UNION U, c, k, o, l, p)
    BY <1>1, <1>2, GoesGrows
  <1>4. QED
    BY <1>1, <1>3

(* A step into a closed set is a run.                                         *)
LEMMA RunStep ==
    ASSUME NEW F, Closed(F), NEW c, NEW k, NEW o, NEW l, NEW p, Typed(c, k, o, l, p),
           Goes(F, c, k, o, l, p)
    PROVE  Run(c, k, o, l, p)
  <1> DEFINE G == F \cup {<<c, k, o, l, p>>}
  <1>1. F \subseteq G
    OBVIOUS
  <1>2. ASSUME NEW e \in G
        PROVE  \E cc, kk, oo, ll, pp : e = <<cc, kk, oo, ll, pp>> /\ Typed(cc, kk, oo, ll, pp)
                                            /\ Goes(G, cc, kk, oo, ll, pp)
    <2>1. CASE e \in F
      <3>1. PICK cc, kk, oo, ll, pp : e = <<cc, kk, oo, ll, pp>> /\ Typed(cc, kk, oo, ll, pp)
                                            /\ Goes(F, cc, kk, oo, ll, pp)
        BY <2>1 DEF Closed
      <3>2. Goes(G, cc, kk, oo, ll, pp)
        BY <1>1, <3>1, GoesGrows
      <3>3. QED
        BY <3>1, <3>2
    <2>2. CASE e = <<c, k, o, l, p>>
      <3>1. Goes(G, c, k, o, l, p)
        BY <1>1, GoesGrows
      <3>2. QED
        BY <2>2, <3>1
    <2>3. QED
      BY <2>1, <2>2
  <1>3. Closed(G) /\ <<c, k, o, l, p>> \in G
    <2> HIDE DEF G
    <2>1. Closed(G)
      BY <1>2 DEF Closed
    <2>2. QED
      BY <2>1 DEF G
  <1>4. QED
    BY <1>3 DEF Run

LEMMA RunNil ==
    ASSUME NEW k, NEW o, IsSeq(k), o \in Nests
    PROVE  Run(<<>>, k, o, k, o)
  <1>1. Closed({}) /\ Goes({}, <<>>, k, o, k, o)
    BY DEF Closed, Goes
  <1>2. IsSeq(<<>>)
    BY DEF IsSeq
  <1>3. Typed(<<>>, k, o, k, o)
    BY <1>2 DEF Typed
  <1>4. QED
    BY <1>1, <1>3, RunStep

(* Nothing is asked of what follows an error.                                 *)
LEMMA RunErr ==
    ASSUME NEW c, NEW k, NEW o, NEW l, NEW p, Typed(c, k, o, l, p), c # <<>>, c[1] = Err
    PROVE  Run(c, k, o, l, p)
  <1>1. Closed({}) /\ Goes({}, c, k, o, l, p)
    BY DEF Closed, Goes
  <1>2. QED
    BY <1>1, RunStep

LEMMA RunItem ==
    ASSUME NEW F, Closed(F), NEW x, NEW k, NEW o, NEW l, NEW p,
           IsSeq(k), o \in Nests, IsSeq(l), p \in Nests, Item(F, x, k, o, l, p)
    PROVE  Run(<<x>>, k, o, l, p)
  <1>1. Run(<<>>, l, p, l, p)
    BY RunNil
  <1>2. PICK G : Closed(G) /\ <<<<>>, l, p, l, p>> \in G
    BY <1>1 DEF Run
  <1> DEFINE H == UNION {F, G}
  <1>3. Closed(H) /\ F \subseteq H /\ G \subseteq H
    BY <1>2, JoinClosed
  <1> HIDE DEF H
  <1>4. Item(H, x, k, o, l, p)
    BY <1>3, ItemGrows
  <1>5. <<x>> # <<>> /\ <<x>>[1] = x /\ Tail(<<x>>) = <<>>
    OBVIOUS
  <1>6. Goes(H, <<x>>, k, o, l, p)
    BY <1>2, <1>3, <1>4, <1>5 DEF Goes
  <1>7. IsSeq(<<x>>)
    <2>1. <<x>> \in Seq({x})
      OBVIOUS
    <2>2. QED
      BY <2>1 DEF IsSeq
  <1>8. QED
    BY <1>3, <1>6, <1>7, RunStep DEF Typed

-----------------------------------------------------------------------------
(* Sequences and nests.                                                      *)

LEMMA SeqJoin ==
    ASSUME NEW c, NEW d, IsSeq(c), IsSeq(d)
    PROVE  /\ IsSeq(c \o d)
           /\ c = <<>> => c \o d = d
           /\ c # <<>> => /\ c \o d # <<>> /\ (c \o d)[1] = c[1] /\ Tail(c \o d) = Tail(c) \o d
                          /\ IsSeq(Tail(c))
  <1>1. PICK S, T : c \in Seq(S) /\ d \in Seq(T)
    BY DEF IsSeq
  <1>2. c \in Seq(S \cup T) /\ d \in Seq(S \cup T)
    BY <1>1
  <1>3. c \o d \in Seq(S \cup T)
    BY <1>2
  <1>4. c = <<>> => c \o d = d
    BY <1>2, ConcatEmptySeq
  <1>5. ASSUME c # <<>>
        PROVE  /\ c \o d # <<>> /\ (c \o d)[1] = c[1] /\ Tail(c \o d) = Tail(c) \o d
               /\ Tail(c) \in Seq(S \cup T)
    <2>1. Len(c) \in Nat /\ Len(c) > 0 /\ Len(d) \in Nat
      BY <1>2, <1>5
    <2>2. Len(c \o d) = Len(c) + Len(d) /\ (c \o d)[1] = c[1] /\ c \o d # <<>>
      BY <1>2, <2>1
    <2>3. Tail(c) \in Seq(S \cup T) /\ Len(Tail(c)) = Len(c) - 1
      BY <1>2, <1>5
    <2>4. Tail(c \o d) \in Seq(S \cup T) /\ Len(Tail(c \o d)) = Len(c) + Len(d) - 1
      BY <1>3, <2>2
    <2>5. Tail(c) \o d \in Seq(S \cup T) /\ Len(Tail(c) \o d) = Len(c) - 1 + Len(d)
      BY <1>2, <2>3
    <2>6. ASSUME NEW i \in 1 .. (Len(c) + Len(d) - 1)
          PROVE  Tail(c \o d)[i] = (Tail(c) \o d)[i]
      BY <1>2, <1>3, <1>5, <2>1, <2>2, <2>3
    <2>7. QED
      BY <2>2, <2>3, <2>4, <2>5, <2>6, SeqEqual
  <1>6. QED
    BY <1>3, <1>4, <1>5 DEF IsSeq

LEMMA IsSeqs ==
    /\ IsSeq(<<>>) /\ \A x : IsSeq(<<x>>) /\ Tail(<<x>>) = <<>>
    /\ \A x, y : IsSeq(<<x, y>>) /\ Tail(<<x, y>>) = <<y>>
    /\ \A x, y, z : IsSeq(<<x, y, z>>) /\ Tail(<<x, y, z>>) = <<y, z>>
  <1>1. <<>> \in Seq({})
    OBVIOUS
  <1>2. ASSUME NEW x, NEW y, NEW z
        PROVE  <<x>> \in Seq({x}) /\ <<x, y>> \in Seq({x, y}) /\ <<x, y, z>> \in Seq({x, y, z})
    OBVIOUS
  <1>3. ASSUME NEW x, NEW y, NEW z
        PROVE  Tail(<<x>>) = <<>> /\ Tail(<<x, y>>) = <<y>> /\ Tail(<<x, y, z>>) = <<y, z>>
    OBVIOUS
  <1>4. QED
    BY <1>1, <1>2, <1>3 DEF IsSeq

LEMMA NestJoin ==
    ASSUME NEW a \in Nests, NEW o \in Nests
    PROVE  /\ a \o o \in Nests /\ a \o <<>> = a /\ <<>> \o a = a
           /\ \A b \in Openers : Append(o, b) \in Nests /\ a \o Append(o, b) = Append(a \o o, b)
  <1>1. a \o o \in Nests /\ a \o <<>> = a /\ <<>> \o a = a
    BY ConcatEmptySeq DEF Nests
  <1>2. ASSUME NEW b \in Openers
        PROVE  Append(o, b) \in Nests /\ a \o Append(o, b) = Append(a \o o, b)
    <2>1. Append(o, b) = o \o <<b>> /\ Append(a \o o, b) = (a \o o) \o <<b>>
      BY <1>1, AppendIsConcat DEF Nests
    <2>2. <<b>> \in Nests
      BY DEF Nests
    <2>3. a \o (o \o <<b>>) = (a \o o) \o <<b>> /\ o \o <<b>> \in Nests
      BY <2>2, ConcatAssociative DEF Nests
    <2>4. QED
      BY <2>1, <2>3
  <1>3. QED
    BY <1>1, <1>2

LEMMA TakesFrame ==
    ASSUME NEW T, NEW a \in Nests, NEW o \in Nests, NEW p \in Nests, Takes(T, o, p)
    PROVE  Takes(T, a \o o, a \o p)
  <1>1. CASE Plain(T) /\ p = o
    BY <1>1 DEF Takes
  <1>2. ASSUME NEW b \in Openers, T = {b}, p = Append(o, b) PROVE a \o p = Append(a \o o, b)
    BY <1>2, NestJoin
  <1>3. ASSUME NEW b \in Openers, T = {Closing[b]}, o = Append(p, b) PROVE a \o o = Append(a \o p, b)
    BY <1>3, NestJoin
  <1>4. QED
    BY <1>1, <1>2, <1>3 DEF Takes

-----------------------------------------------------------------------------
(* Code after code, and code within open brackets.                           *)

LEMMA ItemFrame ==
    ASSUME NEW F, NEW G, F \subseteq G, NEW a \in Nests, NEW x, NEW k, NEW o \in Nests, NEW l,
           NEW p \in Nests, Item(F, x, k, o, l, p),
           \A c, m, n : <<c, m, o, n, p>> \in F => <<c, m, a \o o, n, a \o p>> \in G
    PROVE  Item(G, x, k, a \o o, l, a \o p)
  <1>1. Neutral(F, x, k, l) => Neutral(G, x, k, l)
    BY DEF Neutral
  <1>2. AltsIn(F, x[2], k, o, l, p) => AltsIn(G, x[2], k, a \o o, l, a \o p)
    BY DEF AltsIn
  <1>3. \A T : Takes(T, o, p) => Takes(T, a \o o, a \o p)
    BY TakesFrame
  <1>4. QED
    BY <1>1, <1>2, <1>3 DEF Item

LEMMA RunFrame ==
    ASSUME NEW c, NEW k, NEW o, NEW l, NEW p, Run(c, k, o, l, p), NEW a \in Nests
    PROVE  Run(c, k, a \o o, l, a \o p)
  <1>1. PICK F : Closed(F) /\ <<c, k, o, l, p>> \in F
    BY DEF Run
  <1> DEFINE Framed(e) == <<e[1], e[2], a \o e[3], e[4], a \o e[5]>>
             G == F \cup {Framed(e) : e \in F}
  <1>2. F \subseteq G
    OBVIOUS
  <1>3. \A d, m, q, n, r : <<d, m, q, n, r>> \in F => <<d, m, a \o q, n, a \o r>> \in G
    <2> SUFFICES ASSUME NEW d, NEW m, NEW q, NEW n, NEW r, <<d, m, q, n, r>> \in F
                 PROVE  <<d, m, a \o q, n, a \o r>> \in G
      OBVIOUS
    <2>1. Framed(<<d, m, q, n, r>>) = <<d, m, a \o q, n, a \o r>>
      OBVIOUS
    <2>2. QED
      BY <2>1, Zenon
  <1>4. \A e \in G : e \in F \/ \E d, m, q, n, r : <<d, m, q, n, r>> \in F
                                      /\ e = <<d, m, a \o q, n, a \o r>>
    <2> SUFFICES ASSUME NEW e \in G, e \notin F
                 PROVE  \E d, m, q, n, r : <<d, m, q, n, r>> \in F
                                      /\ e = <<d, m, a \o q, n, a \o r>>
      BY Zenon
    <2>1. PICK f \in F : e = Framed(f)
      OBVIOUS
    <2>2. PICK d, m, q, n, r : f = <<d, m, q, n, r>>
      BY <1>1 DEF Closed
    <2>3. QED
      BY <2>1, <2>2
  <1> HIDE DEF G
  <1>5. ASSUME NEW d, NEW m, NEW q, NEW n, NEW r, <<d, m, q, n, r>> \in F
        PROVE  Typed(d, m, a \o q, n, a \o r) /\ Goes(G, d, m, a \o q, n, a \o r)
    <2>1. Typed(d, m, q, n, r) /\ Goes(F, d, m, q, n, r)
      BY <1>1, <1>5, InClosed
    <2>2. Typed(d, m, a \o q, n, a \o r)
      BY <2>1, NestJoin DEF Typed
    <2>3. ASSUME NEW mm, NEW qq, Item(F, d[1], m, q, mm, qq), <<Tail(d), mm, qq, n, r>> \in F
          PROVE  Item(G, d[1], m, a \o q, mm, a \o qq) /\ <<Tail(d), mm, a \o qq, n, a \o r>> \in G
      <3>1. q \in Nests /\ qq \in Nests
        BY <1>1, <2>1, <2>3, InClosed DEF Typed
      <3>2. Item(G, d[1], m, a \o q, mm, a \o qq)
        BY <1>2, <1>3, <2>3, <3>1, ItemFrame
      <3>3. QED
        BY <1>3, <2>3, <3>2
    <2>4. Goes(G, d, m, a \o q, n, a \o r)
      BY <2>1, <2>3 DEF Goes
    <2>5. QED
      BY <2>2, <2>4
  <1>6. ASSUME NEW e \in G
        PROVE  \E d, m, q, n, r : e = <<d, m, q, n, r>> /\ Typed(d, m, q, n, r) /\ Goes(G, d, m, q, n, r)
    <2>1. CASE e \in F
      <3>1. PICK d, m, q, n, r : e = <<d, m, q, n, r>> /\ Typed(d, m, q, n, r) /\ Goes(F, d, m, q, n, r)
        BY <1>1, <2>1 DEF Closed
      <3>2. QED
        BY <1>2, <3>1, GoesGrows
    <2>2. CASE e \notin F
      BY <1>4, <1>5, <2>2
    <2>3. QED
      BY <2>1, <2>2
  <1>7. Closed(G)
    BY <1>6 DEF Closed
  <1>8. QED
    BY <1>1, <1>3, <1>7 DEF Run

LEMMA RunJoin ==
    ASSUME NEW c, NEW d, NEW k, NEW o, NEW m, NEW q, NEW l, NEW p,
           Run(c, k, o, m, q), Run(d, m, q, l, p)
    PROVE  Run(c \o d, k, o, l, p)
  <1>1. PICK F : Closed(F) /\ <<c, k, o, m, q>> \in F
    BY DEF Run
  <1>2. PICK G : Closed(G) /\ <<d, m, q, l, p>> \in G
    BY DEF Run
  <1> DEFINE E == {e \in F : e[4] = m /\ e[5] = q}
             H == F \cup G \cup {<<e[1] \o d, e[2], e[3], l, p>> : e \in E}
  <1>3. F \subseteq H /\ G \subseteq H
    OBVIOUS
  <1>4. \A b, n, r : <<b, n, r, m, q>> \in F => <<b \o d, n, r, l, p>> \in H
    <2> SUFFICES ASSUME NEW b, NEW n, NEW r, <<b, n, r, m, q>> \in F
                 PROVE  <<b \o d, n, r, l, p>> \in H
      OBVIOUS
    <2> DEFINE e == <<b, n, r, m, q>>
    <2>1. e \in E /\ <<e[1] \o d, e[2], e[3], l, p>> = <<b \o d, n, r, l, p>>
      OBVIOUS
    <2>2. <<e[1] \o d, e[2], e[3], l, p>> \in H
      BY <2>1, Zenon
    <2>3. QED
      BY <2>1, <2>2, Zenon
  <1>5. \A e \in H : e \in F \/ e \in G \/ \E b, n, r : <<b, n, r, m, q>> \in F
                                      /\ e = <<b \o d, n, r, l, p>>
    <2> SUFFICES ASSUME NEW f \in H, f \notin F, f \notin G
                 PROVE  \E b, n, r : <<b, n, r, m, q>> \in F /\ f = <<b \o d, n, r, l, p>>
      BY Zenon
    <2>1. PICK e \in E : f = <<e[1] \o d, e[2], e[3], l, p>>
      OBVIOUS
    <2>2. PICK b, n, r, mm, qq : e = <<b, n, r, mm, qq>>
      BY <1>1 DEF Closed
    <2>3. QED
      BY <2>1, <2>2
  <1> HIDE DEF H
  <1>6. Typed(d, m, q, l, p) /\ Goes(G, d, m, q, l, p)
    BY <1>2, InClosed
  <1>7. ASSUME NEW b, NEW n, NEW r, <<b, n, r, m, q>> \in F
        PROVE  Typed(b \o d, n, r, l, p) /\ Goes(H, b \o d, n, r, l, p)
    <2>1. Typed(b, n, r, m, q) /\ Goes(F, b, n, r, m, q)
      BY <1>1, <1>7, InClosed
    <2>2. Typed(b \o d, n, r, l, p)
      BY <1>6, <2>1, SeqJoin DEF Typed
    <2>3. CASE b = <<>> /\ n = m /\ r = q
      <3>1. Goes(H, d, m, q, l, p)
        BY <1>3, <1>6, GoesGrows
      <3>2. b \o d = d
        BY <1>6, <2>1, <2>3, SeqJoin DEF Typed
      <3>3. QED
        BY <2>2, <2>3, <3>1, <3>2
    <2>4. CASE b # <<>>
      <3>1. b \o d # <<>> /\ (b \o d)[1] = b[1] /\ Tail(b \o d) = Tail(b) \o d
        BY <1>6, <2>1, <2>4, SeqJoin DEF Typed
      <3>2. ASSUME NEW mm, NEW qq, Item(F, b[1], n, r, mm, qq), <<Tail(b), mm, qq, m, q>> \in F
            PROVE  Item(H, b[1], n, r, mm, qq) /\ <<Tail(b) \o d, mm, qq, l, p>> \in H
        BY <1>3, <1>4, <3>2, ItemGrows
      <3>3. Goes(H, b \o d, n, r, l, p)
        BY <2>1, <2>4, <3>1, <3>2 DEF Goes
      <3>4. QED
        BY <2>2, <3>3
    <2>5. QED
      BY <2>1, <2>3, <2>4 DEF Goes
  <1>8. ASSUME NEW e \in H
        PROVE  \E b, n, r, mm, qq : e = <<b, n, r, mm, qq>> /\ Typed(b, n, r, mm, qq)
                                      /\ Goes(H, b, n, r, mm, qq)
    <2>1. CASE e \in F \/ e \in G
      <3>1. PICK b, n, r, mm, qq : e = <<b, n, r, mm, qq>> /\ Typed(b, n, r, mm, qq)
                                      /\ (Goes(F, b, n, r, mm, qq) \/ Goes(G, b, n, r, mm, qq))
        BY <1>1, <1>2, <2>1 DEF Closed
      <3>2. QED
        BY <1>3, <3>1, GoesGrows
    <2>2. CASE ~(e \in F \/ e \in G)
      BY <1>5, <1>7, <2>2
    <2>3. QED
      BY <2>1, <2>2
  <1>9. Closed(H)
    BY <1>8 DEF Closed
  <1>10. QED
    BY <1>1, <1>4, <1>9 DEF Run

LEMMA RunHead ==
    ASSUME NEW c, NEW k, NEW o, NEW l, NEW p, Run(c, k, o, l, p), c # <<>>, c[1] # Err
    PROVE  \E F, m, q : Closed(F) /\ Item(F, c[1], k, o, m, q) /\ Run(Tail(c), m, q, l, p)
  <1>1. PICK F : Closed(F) /\ <<c, k, o, l, p>> \in F
    BY DEF Run
  <1>2. Goes(F, c, k, o, l, p)
    BY <1>1, InClosed
  <1>3. PICK m, q : Item(F, c[1], k, o, m, q) /\ <<Tail(c), m, q, l, p>> \in F
    BY <1>2 DEF Goes
  <1>4. QED
    BY <1>1, <1>3 DEF Run

LEMMA RunCons ==
    ASSUME NEW F, Closed(F), NEW x, NEW d, NEW k, NEW o, NEW m, NEW q, NEW l, NEW p,
           IsSeq(k), o \in Nests, Item(F, x, k, o, m, q), Run(d, m, q, l, p)
    PROVE  Run(<<x>> \o d, k, o, l, p)
  <1>1. IsSeq(m) /\ q \in Nests
    BY RunTyped DEF Typed
  <1>2. Run(<<x>>, k, o, m, q)
    BY <1>1, RunItem
  <1>3. QED
    BY <1>2, RunJoin

LEMMA HeadTail ==
    ASSUME NEW c, IsSeq(c), c # <<>>
    PROVE  c = <<c[1]>> \o Tail(c) /\ IsSeq(Tail(c))
  <1>1. PICK S : c \in Seq(S)
    BY DEF IsSeq
  <1>2. Len(c) \in Nat /\ Len(c) > 0 /\ Tail(c) \in Seq(S) /\ Len(Tail(c)) = Len(c) - 1
    BY <1>1
  <1>3. <<c[1]>> \in Seq(S)
    BY <1>1, <1>2
  <1>4. <<c[1]>> \o Tail(c) \in Seq(S) /\ Len(<<c[1]>> \o Tail(c)) = Len(c)
    BY <1>2, <1>3
  <1>5. \A i \in 1..Len(c) : (<<c[1]>> \o Tail(c))[i] = c[i]
    BY <1>1, <1>2, <1>3
  <1>6. c = <<c[1]>> \o Tail(c)
    BY <1>1, <1>4, <1>5, SeqEqual
  <1>7. QED
    BY <1>2, <1>6 DEF IsSeq

(* Code that leaves the nest as it found it may run within any nest.           *)
LEMMA RunWithin ==
    ASSUME NEW c, NEW k, NEW l, Run(c, k, <<>>, l, <<>>), NEW o \in Nests
    PROVE  Run(c, k, o, l, o)
  <1>1. <<>> \in Nests /\ o \o <<>> = o
    BY NestJoin DEF Nests
  <1>2. QED
    BY <1>1, RunFrame

-----------------------------------------------------------------------------
(* The window and the brackets.                                              *)

LEMMA Brackets ==
    /\ Openers = {"(", "[", "{"} /\ Closers = {")", "]", "}"}
    /\ Closing["("] = ")" /\ Closing["["] = "]" /\ Closing["{"] = "}"
  <1>1. Openers = {"(", "[", "{"} /\ Closing["("] = ")" /\ Closing["["] = "]" /\ Closing["{"] = "}"
    BY DEF Openers, Closing
  <1>2. QED
    BY <1>1 DEF Closers

LEMMA NestTakes ==
    ASSUME NEW T, NEW o \in Nests, NEW p \in Nests, Takes(T, o, p), NEW t \in T
    PROVE  NestAfter(o, t) = p /\ t # "eof"
  <1>1. ~(o # <<>> /\ o[1] \in Closers)
    <2>1. o # <<>> => o[1] \in Openers
      BY DEF Nests
    <2>2. QED
      BY <2>1, Brackets
  <1>2. CASE Plain(T) /\ p = o
    BY <1>2 DEF Plain, NestAfter
  <1>3. ASSUME NEW b \in Openers, T = {b}, p = Append(o, b) PROVE NestAfter(o, t) = p /\ t # "eof"
    BY <1>1, <1>3, Brackets DEF NestAfter
  <1>4. ASSUME NEW b \in Openers, T = {Closing[b]}, o = Append(p, b)
        PROVE  NestAfter(o, t) = p /\ t # "eof"
    <2>1. t = Closing[b] /\ t \in Closers /\ t \notin Openers /\ t # "eof"
      BY <1>4, Brackets
    <2>2. o # <<>> /\ Last(o) = b /\ Front(o) = p
      BY <1>4 DEF Nests, Last, Front
    <2>3. QED
      BY <1>1, <2>1, <2>2 DEF NestAfter
  <1>5. QED
    BY <1>2, <1>3, <1>4 DEF Takes

LEMMA FitsKnows ==
    ASSUME NEW w, IsSeq(w), NEW k, IsSeq(k), NEW t, IsSeq(t), NEW m, IsSeq(m),
           Fits(w, k), Fits(w, t), Knows(k, t, m)
    PROVE  Fits(w, m)
  <1>1. Len(w) \in Nat /\ Len(k) \in Nat /\ Len(t) \in Nat /\ Len(m) \in Nat
    BY DEF IsSeq
  <1>2. ASSUME NEW i \in 1..Len(m)
        PROVE  i <= Len(w) /\ (m[i] = {} \/ w[i] \in m[i])
    BY <1>1 DEF Fits, Knows
  <1>3. Len(m) <= Len(w)
    BY <1>1, <1>2
  <1>4. QED
    BY <1>2, <1>3 DEF Fits

LEMMA FitsTail ==
    ASSUME NEW w, IsSeq(w), NEW k, IsSeq(k), k # <<>>, Fits(w, k)
    PROVE  /\ w # <<>> /\ IsSeq(Tail(w)) /\ Fits(Tail(w), Tail(k)) /\ Fits(Tail(w), <<>>)
           /\ k[1] = {} \/ w[1] \in k[1]
  <1>1. PICK S, T : w \in Seq(S) /\ k \in Seq(T)
    BY DEF IsSeq
  <1>2. Len(k) \in Nat /\ Len(k) > 0 /\ Len(w) \in Nat /\ Len(w) >= Len(k)
    BY <1>1 DEF Fits
  <1>3. Tail(w) \in Seq(S) /\ Len(Tail(w)) = Len(w) - 1 /\ Tail(k) \in Seq(T) /\ Len(Tail(k)) = Len(k) - 1
    BY <1>1, <1>2
  <1>4. ASSUME NEW i \in 1 .. (Len(k) - 1)
        PROVE  Tail(k)[i] = k[i + 1] /\ Tail(w)[i] = w[i + 1] /\ (k[i + 1] = {} \/ w[i + 1] \in k[i + 1])
    <2>1. i + 1 \in 1 .. Len(k)
      BY <1>2
    <2>2. QED
      BY <1>1, <1>2, <2>1 DEF Fits
  <1>5. QED
    BY <1>2, <1>3, <1>4 DEF Fits, IsSeq

LEMMA FitsNil ==
    ASSUME NEW w, IsSeq(w)
    PROVE  Fits(w, <<>>)
  BY DEF Fits, IsSeq

-----------------------------------------------------------------------------
(* The invariant: while the text can be accepted, what is on the call stack    *)
(* closes the brackets that are open, given the tokens in the window.         *)

TInv ==
    failed \/ unchecked \/
        /\ left \in Kinds /\ IsSeq(window)
        /\ \E k : Fits(window, k) /\ Run(todo, k, nest, <<>>, <<>>)

(* What a state of the invariant is made of, when an item other than Err is next. *)
LEMMA TopItem ==
    ASSUME TInv, ~failed, ~unchecked, Active, Top[1] # "err"
    PROVE  /\ left \in Kinds /\ IsSeq(window) /\ nest \in Nests /\ IsSeq(Rest)
           /\ todo = <<Top>> \o Rest
           /\ \E F, k, m, q : /\ Closed(F) /\ IsSeq(k) /\ Fits(window, k) /\ IsSeq(m) /\ q \in Nests
                              /\ Item(F, Top, k, nest, m, q) /\ Run(Rest, m, q, <<>>, <<>>)
  <1>1. PICK k : Fits(window, k) /\ Run(todo, k, nest, <<>>, <<>>)
    BY DEF TInv
  <1>2. IsSeq(todo) /\ IsSeq(k) /\ nest \in Nests
    BY <1>1, RunTyped DEF Typed
  <1>3. todo # <<>> /\ todo[1] # Err
    BY DEF Active, Top, Err
  <1>4. PICK F, m, q : Closed(F) /\ Item(F, todo[1], k, nest, m, q) /\ Run(Tail(todo), m, q, <<>>, <<>>)
    BY <1>1, <1>3, RunHead
  <1>5. IsSeq(m) /\ q \in Nests
    BY <1>4, RunTyped DEF Typed
  <1>6. todo = <<Top>> \o Rest /\ IsSeq(Rest)
    BY <1>2, <1>3, HeadTail DEF Top, Rest
  <1>7. QED
    BY <1>1, <1>2, <1>4, <1>5, <1>6 DEF TInv, Top, Rest

LEMMA ReadKept ==
    ASSUME TInv, ReadToken
    PROVE  TInv'
  <1>1. CASE failed \/ unchecked
    BY <1>1 DEF ReadToken, TInv
  <1>2. CASE ~failed /\ ~unchecked
    <2>1. PICK k : Fits(window, k) /\ Run(todo, k, nest, <<>>, <<>>)
      BY <1>2 DEF TInv
    <2>2. PICK t : window' = Append(window, t)
      BY DEF ReadToken
    <2>3. IsSeq(window)
      BY <1>2 DEF TInv
    <2>4. PICK S : window \in Seq(S)
      BY <2>3 DEF IsSeq
    <2>5. Append(window, t) \in Seq(S \cup {t})
      BY <2>4
    <2>6. IsSeq(k)
      BY <2>1, RunTyped DEF Typed
    <2>7. Fits(Append(window, t), k)
      BY <2>1, <2>4, <2>6 DEF Fits, IsSeq
    <2>8. QED
      BY <1>2, <2>1, <2>2, <2>5, <2>7 DEF ReadToken, TInv, IsSeq
  <1>3. QED
    BY <1>1, <1>2

(* Taking a token that is one of T.                                          *)
LEMMA ConsumeKept ==
    ASSUME ~failed, ~unchecked, left \in Kinds, IsSeq(window), nest \in Nests,
           NEW T, NEW k, IsSeq(k), k # <<>>, k[1] = T, Fits(window, k),
           NEW m, m \in {<<>>, Tail(k)}, NEW q \in Nests, Takes(T, nest, q),
           NEW E, E = {} \/ E = T, Consume(E),
           Run(todo', m, q, <<>>, <<>>)
    PROVE  TInv'
  <1>1. T # {}
    BY DEF Takes, Plain
  <1>2. Cur \in T /\ IsSeq(Tail(window)) /\ Fits(Tail(window), m)
    BY <1>1, FitsTail DEF Cur
  <1>3. NestAfter(nest, Cur) = q /\ Cur # "eof"
    BY <1>2, NestTakes
  <1>4. window' = Tail(window) /\ nest' = q /\ left' = left /\ failed' = failed
    BY <1>2, <1>3 DEF Consume
  <1>5. QED
    BY <1>2, <1>4 DEF TInv

LEMMA EatKept ==
    ASSUME TInv, ~failed, ~unchecked, DoEat
    PROVE  TInv'
  <1>1. Active /\ Top[1] = "eat" /\ todo' = Rest /\ Consume({})
    BY DEF DoEat, Ready
  <1>2. PICK F, k, m, q : /\ Closed(F) /\ IsSeq(k) /\ Fits(window, k) /\ IsSeq(m) /\ q \in Nests
                          /\ Item(F, Top, k, nest, m, q) /\ Run(Rest, m, q, <<>>, <<>>)
    BY <1>1, TopItem
  <1>3. k # <<>> /\ Takes(k[1], nest, q) /\ m \in {<<>>, Tail(k)}
    BY <1>1, <1>2 DEF Item, Neutral, Consuming
  <1>4. left \in Kinds /\ IsSeq(window) /\ nest \in Nests
    BY <1>1, TopItem
  <1>5. QED
    BY <1>1, <1>2, <1>3, <1>4, ConsumeKept

(* The items that name the tokens they take.                                  *)
LEMMA ConsumingKept ==
    ASSUME TInv, ~failed, ~unchecked, Active, Top[1] \in Consuming, window # <<>>, Cur \in Top[2],
           todo' = Rest, NEW E, E = {} \/ E = Top[2], Consume(E)
    PROVE  TInv'
  <1>1. PICK F, k, m, q : /\ Closed(F) /\ IsSeq(k) /\ Fits(window, k) /\ IsSeq(m) /\ q \in Nests
                          /\ Item(F, Top, k, nest, m, q) /\ Run(Rest, m, q, <<>>, <<>>)
    BY TopItem DEF Consuming
  <1>2. Takes(Top[2], nest, q) /\ m = <<>>
    BY <1>1 DEF Item, Neutral, Consuming
  <1>3. left \in Kinds /\ IsSeq(window) /\ nest \in Nests
    BY TopItem DEF Consuming
  <1>4. IsSeq(<<Top[2]>>) /\ <<Top[2]>> # <<>> /\ <<Top[2]>>[1] = Top[2]
    BY IsSeqs
  <1>5. Fits(window, <<Top[2]>>)
    <2>1. Len(window) \in Nat /\ Len(window) > 0
      BY <1>3 DEF IsSeq
    <2>2. QED
      BY <2>1 DEF Fits, Cur
  <1>6. QED
    BY <1>1, <1>2, <1>3, <1>4, <1>5, ConsumeKept

LEMMA NeutralKept ==
    ASSUME TInv, ~failed, ~unchecked, UNCHANGED <<window, failed, left, nest, unchecked>>,
           NEW k, Fits(window, k), Run(todo', k, nest, <<>>, <<>>)
    PROVE  TInv'
  BY DEF TInv

LEMMA FailsKept ==
    ASSUME Fails
    PROVE  TInv'
  BY DEF Fails, TInv

LEMMA BlindKept ==
    ASSUME TInv, ~failed, ~unchecked, DoBlind
    PROVE  TInv'
  <1>1. Active /\ Top[1] = "blind" /\ todo' = Rest /\ Consume(Top[2]) /\ window # <<>>
    BY DEF DoBlind, Ready, Waits
  <1>2. CASE Cur \in Top[2]
    BY <1>1, <1>2, ConsumingKept DEF Consuming
  <1>3. CASE Cur \notin Top[2]
    <2>1. PICK F, k, m, q : Item(F, Top, k, nest, m, q)
      BY <1>1, TopItem
    <2>2. Top[2] # {}
      BY <1>1, <2>1 DEF Item, Neutral, Consuming, Takes, Plain
    <2>3. unchecked'
      BY <1>1, <1>3, <2>2 DEF Consume
    <2>4. QED
      BY <2>3 DEF TInv
  <1>4. QED
    BY <1>2, <1>3

LEMMA NeedKept ==
    ASSUME TInv, ~failed, ~unchecked, DoNeed
    PROVE  TInv'
  <1>1. PICK op \in {"need", "needskip"} :
          /\ Ready(op)
          /\ IF Cur \in Top[2] THEN todo' = Rest /\ Consume({}) ELSE Reject(op = "needskip")
    BY DEF DoNeed
  <1>2. Active /\ Top[1] = op /\ Top[1] \in Consuming /\ window # <<>>
    BY <1>1 DEF Ready, Waits, Consuming
  <1>3. CASE Cur \in Top[2]
    BY <1>1, <1>2, <1>3, ConsumingKept
  <1>4. CASE Cur \notin Top[2]
    BY <1>1, <1>4, FailsKept DEF Reject
  <1>5. QED
    BY <1>3, <1>4

LEMMA ExpectKept ==
    ASSUME TInv, ~failed, ~unchecked, DoExpect
    PROVE  TInv'
  <1>1. Active /\ Top[1] \in Consuming /\ window # <<>> /\ todo' = Rest
    BY DEF DoExpect, Ready, Waits, Consuming
  <1>2. CASE Cur \in Top[2]
    BY <1>1, <1>2, ConsumingKept DEF DoExpect
  <1>3. CASE Cur \notin Top[2]
    BY <1>3, FailsKept DEF DoExpect
  <1>4. QED
    BY <1>2, <1>3

LEMMA OptKept ==
    ASSUME TInv, ~failed, ~unchecked, DoOpt
    PROVE  TInv'
  <1>1. Active /\ Top[1] \in Consuming /\ window # <<>> /\ todo' = Rest
    BY DEF DoOpt, Ready, Waits, Consuming
  <1>2. CASE Cur \in Top[2]
    BY <1>1, <1>2, ConsumingKept DEF DoOpt
  <1>3. CASE Cur \notin Top[2]
    BY <1>3 DEF DoOpt, TInv
  <1>4. QED
    BY <1>2, <1>3

LEMMA AtKept ==
    ASSUME TInv, ~failed, ~unchecked, DoAt
    PROVE  TInv'
  <1>1. PICK op \in {"at", "atskip"} :
          /\ Ready(op)
          /\ IF Cur \in Top[2] THEN todo' = Rest /\ Stay ELSE Reject(op = "atskip")
    BY DEF DoAt
  <1>2. Active /\ Top[1] = op /\ window # <<>>
    BY <1>1 DEF Ready, Waits
  <1>3. CASE Cur \in Top[2]
    <2>1. PICK F, k, m, q : /\ Closed(F) /\ IsSeq(k) /\ Fits(window, k) /\ IsSeq(m) /\ q \in Nests
                            /\ Item(F, Top, k, nest, m, q) /\ Run(Rest, m, q, <<>>, <<>>)
      BY <1>2, TopItem
    <2>2. q = nest /\ m \in {<<>>, <<Top[2]>>}
      BY <1>2, <2>1 DEF Item, Neutral, Consuming
    <2>3. IsSeq(window)
      BY <1>2, TopItem
    <2>4. Len(window) \in Nat /\ Len(window) > 0
      BY <1>2, <2>3 DEF IsSeq
    <2>5. Fits(window, m)
      BY <1>3, <2>2, <2>3, <2>4, FitsNil DEF Fits, Cur
    <2>6. todo' = Rest /\ UNCHANGED <<window, failed, left, nest, unchecked>>
      BY <1>1, <1>3 DEF Stay
    <2>7. QED
      BY <2>1, <2>2, <2>5, <2>6, NeutralKept
  <1>4. CASE Cur \notin Top[2]
    BY <1>1, <1>4, FailsKept DEF Reject
  <1>5. QED
    BY <1>3, <1>4

(* Skip, Break, Return and nil come after an error only.                      *)
LEMMA NeverNext ==
    ASSUME TInv, ~failed, ~unchecked, Active
    PROVE  Top[1] \notin {"skip", "break", "return", "nil"}
  <1> SUFFICES ASSUME Top[1] \in {"skip", "break", "return", "nil"} PROVE FALSE
    OBVIOUS
  <1>1. PICK F, k, m, q : Item(F, Top, k, nest, m, q)
    BY TopItem
  <1>2. QED
    BY <1>1 DEF Item, Neutral, Consuming

LEMMA LoopKept ==
    ASSUME TInv, ~failed, ~unchecked, DoLoop
    PROVE  TInv'
  <1>1. Active /\ Top[1] \in {"until", "while"} /\ window # <<>> /\ Stay
    BY DEF DoLoop, Ready, Waits
  <1>2. PICK F, k, m, q : /\ Closed(F) /\ IsSeq(k) /\ Fits(window, k) /\ IsSeq(m) /\ q \in Nests
                          /\ Item(F, Top, k, nest, m, q) /\ Run(Rest, m, q, <<>>, <<>>)
    BY <1>1, TopItem
  <1>3. /\ q = nest /\ m = <<>> /\ IsSeq(window) /\ nest \in Nests /\ todo = <<Top>> \o Rest
        /\ Neutral(F, Top, <<>>, <<>>) /\ IsSeq(<<>>) /\ Fits(window, <<>>)
    BY <1>1, <1>2, TopItem, IsSeqs, FitsNil DEF Item, Neutral, Consuming
  <1>4. Run(todo, <<>>, nest, <<>>, <<>>)
    BY <1>2, <1>3, RunCons DEF Item
  <1>5. CASE todo' = Rest
    BY <1>1, <1>2, <1>3, <1>5, NeutralKept DEF Stay
  <1>6. CASE Top[1] = "until" /\ todo' = Top[3] \o todo
    <2>1. Run(Top[3], <<>>, <<>>, <<>>, <<>>)
      BY <1>2, <1>6 DEF Item, Neutral, Consuming, Run
    <2>2. Run(Top[3], <<>>, nest, <<>>, nest)
      BY <1>3, <2>1, RunWithin
    <2>3. Run(todo', <<>>, nest, <<>>, <<>>)
      BY <1>4, <1>6, <2>2, RunJoin
    <2>4. QED
      BY <1>1, <1>3, <2>3, NeutralKept DEF Stay
  <1>7. CASE Top[1] = "while" /\ Cur \in Top[2] /\ todo' = Top[3] \o todo
    <2>1. Run(Top[3], <<Top[2]>>, <<>>, <<>>, <<>>)
      BY <1>2, <1>7 DEF Item, Neutral, Consuming, Run
    <2>2. Run(Top[3], <<Top[2]>>, nest, <<>>, nest)
      BY <1>3, <2>1, RunWithin
    <2>3. Run(todo', <<Top[2]>>, nest, <<>>, <<>>)
      BY <1>4, <1>7, <2>2, RunJoin
    <2>4. Len(window) \in Nat /\ Len(window) > 0
      BY <1>1, <1>3 DEF IsSeq
    <2>5. Fits(window, <<Top[2]>>)
      BY <1>7, <2>4 DEF Fits, Cur
    <2>6. QED
      BY <1>1, <2>3, <2>5, NeutralKept DEF Stay
  <1>8. QED
    BY <1>5, <1>6, <1>7 DEF DoLoop, Ready

LEMMA ByKindKept ==
    ASSUME TInv, ~failed, ~unchecked, DoByKind
    PROVE  TInv'
  <1>1. Active /\ Top[1] = "bykind" /\ Stay /\ todo' = Top[2][left] \o Rest
    BY DEF DoByKind, Ready
  <1>2. PICK F, k, m, q : /\ Closed(F) /\ IsSeq(k) /\ Fits(window, k) /\ IsSeq(m) /\ q \in Nests
                          /\ Item(F, Top, k, nest, m, q) /\ Run(Rest, m, q, <<>>, <<>>)
    BY <1>1, TopItem
  <1>3. left \in Kinds
    BY <1>1, TopItem
  <1>4. <<Top[2][left], k, nest, m, q>> \in F
    BY <1>1, <1>2, <1>3 DEF Item, Neutral, Consuming
  <1>5. Run(todo', k, nest, <<>>, <<>>)
    BY <1>1, <1>2, <1>4, RunJoin DEF Run
  <1>6. QED
    BY <1>1, <1>2, <1>5, NeutralKept DEF Stay

LEMMA NodeKept ==
    ASSUME TInv, ~failed, ~unchecked, DoNode
    PROVE  TInv'
  <1>1. Active /\ Top[1] = "node" /\ todo' = Rest /\ left' = (IF Top[3] = "" THEN left ELSE Top[3])
        /\ UNCHANGED <<window, failed, nest, unchecked>>
    BY DEF DoNode, Ready
  <1>2. PICK F, k, m, q : /\ Closed(F) /\ IsSeq(k) /\ Fits(window, k) /\ IsSeq(m) /\ q \in Nests
                          /\ Item(F, Top, k, nest, m, q) /\ Run(Rest, m, q, <<>>, <<>>)
    BY <1>1, TopItem
  <1>3. q = nest /\ m \in {<<>>, k} /\ Top[3] \in Kinds \cup {""}
    BY <1>1, <1>2 DEF Item, Neutral, Consuming
  <1>4. left \in Kinds /\ IsSeq(window)
    BY <1>1, TopItem
  <1>5. left' \in Kinds
    BY <1>1, <1>3, <1>4
  <1>6. Fits(window, m)
    BY <1>2, <1>3, <1>4, FitsNil
  <1>7. QED
    BY <1>1, <1>2, <1>3, <1>4, <1>5, <1>6 DEF TInv

LEMMA ReturnKept ==
    ASSUME TInv, ~failed, ~unchecked, DoReturn
    PROVE  TInv'
  <1>1. Active /\ Top[1] \in {"end", "mustend"} /\ todo' = Rest /\ Stay
    BY NeverNext DEF DoReturn, Ready
  <1>2. PICK F, k, m, q : /\ Closed(F) /\ IsSeq(k) /\ Fits(window, k) /\ IsSeq(m) /\ q \in Nests
                          /\ Item(F, Top, k, nest, m, q) /\ Run(Rest, m, q, <<>>, <<>>)
    BY <1>1, TopItem
  <1>3. q = nest /\ m = k
    BY <1>1, <1>2 DEF Item, Neutral, Consuming
  <1>4. QED
    BY <1>1, <1>2, <1>3, NeutralKept DEF Stay

(* An alternative is taken when the window has all the tokens of its test.    *)
LEMMA PickKept ==
    ASSUME TInv, ~failed, ~unchecked, DoPick
    PROVE  TInv'
  <1> DEFINE alts == Top[2]
             i    == Choice(alts)
  <1>1. Active /\ Top[1] = "pick" /\ Decided(alts[i][1]) /\ Stay /\ todo' = alts[i][2] \o Rest
    BY DEF DoPick, Ready, Waits
  <1>2. PICK F, k, m, q : /\ Closed(F) /\ IsSeq(k) /\ Fits(window, k) /\ IsSeq(m) /\ q \in Nests
                          /\ Item(F, Top, k, nest, m, q) /\ Run(Rest, m, q, <<>>, <<>>)
    BY <1>1, TopItem
  <1>3. AltsIn(F, alts, k, nest, m, q) /\ IsSeq(window)
    BY <1>1, <1>2, TopItem DEF Item, Neutral, Consuming
  <1> HIDE DEF alts
  <1>4. Len(alts) \in Nat /\ Len(alts) > 0 /\ Len(window) \in Nat
    BY <1>3 DEF AltsIn, IsSeq
  <1>5. May(alts[Len(alts)][1])
    <2>1. alts[Len(alts)][1] = <<>>
      BY <1>3 DEF AltsIn, Otherwise
    <2>2. May(<<>>)
      BY <1>4 DEF May, Seen, Passes
    <2>3. QED
      BY <2>1, <2>2
  <1>6. i \in 1..Len(alts) /\ May(alts[i][1]) /\ \A j \in 1..(i - 1) : ~May(alts[j][1])
    <2> DEFINE P == {j \in 1..Len(alts) : May(alts[j][1])}
    <2>1. P \in SUBSET (0 .. Len(alts)) /\ P # {}
      BY <1>4, <1>5
    <2>2. PICK n \in P : \A j \in P : n <= j
      BY <1>4, <2>1, Least
    <2>3. n \in 1..Len(alts) /\ May(alts[n][1]) /\ \A j \in 1..(n - 1) : ~May(alts[j][1])
      BY <1>4, <2>2
    <2>4. QED
      BY <2>3 DEF Choice
  <1>7. PICK j : AltKnows(k, alts, i, j) /\ <<alts[i][2], j, nest, m, q>> \in F
    BY <1>3, <1>6 DEF AltsIn
  <1>8. IsSeq(alts[i][1]) /\ IsSeq(j)
    BY <1>2, <1>3, <1>6, <1>7, InClosed DEF AltsIn, Typed
  <1>9. Fits(window, alts[i][1])
    <2>1. Len(alts[i][1]) \in Nat /\ Len(alts[i][1]) <= Len(window)
      BY <1>1, <1>4, <1>8 DEF Decided, IsSeq
    <2>2. Seen(alts[i][1]) = Len(alts[i][1])
      BY <1>4, <2>1 DEF Seen
    <2>3. QED
      BY <1>6, <2>1, <2>2 DEF May, Passes, Fits
  <1>10. Fits(window, j)
    <2>1. CASE Knows(k, alts[i][1], j)
      BY <1>2, <1>3, <1>8, <1>9, <2>1, FitsKnows
    <2>2. CASE i = 2 /\ k # <<>> /\ Len(alts[1][1]) = 1 /\ j = <<k[1] \ alts[1][1][1]>>
      <3>1. Len(k) \in Nat /\ Len(k) > 0 /\ Len(window) > 0 /\ (k[1] = {} \/ window[1] \in k[1])
        <4>1. PICK S : k \in Seq(S)
          BY <1>2 DEF IsSeq
        <4>2. Len(k) \in Nat /\ Len(k) > 0
          BY <2>2, <4>1
        <4>3. Len(window) >= Len(k)
          BY <1>2 DEF Fits
        <4>4. QED
          BY <1>2, <1>4, <4>2, <4>3 DEF Fits
      <3>2. Seen(alts[1][1]) = 1
        <4>1. Len(alts[1][1]) = 1
          BY <2>2
        <4>2. Len(window) = 1 \/ 1 < Len(window)
          <5>1. Len(window) \in Nat
            BY <1>4
          <5>2. Len(window) > 0
            BY <3>1
          <5>3. QED
            BY <5>1, <5>2
        <4>3. Len(alts[1][1]) < Len(window) <=> 1 < Len(window)
          BY <4>1
        <4>4. QED
          BY <4>1, <4>2, <4>3 DEF Seen
      <3>3. ~Passes(alts[1][1], 1)
        BY <1>6, <2>2, <3>2 DEF May
      <3>4. window[1] \notin alts[1][1][1]
        BY <3>3 DEF Passes
      <3>5. QED
        BY <1>4, <2>2, <3>1, <3>4 DEF Fits
    <2>3. QED
      BY <1>7, <2>1, <2>2 DEF AltKnows
  <1>11. Run(todo', j, nest, <<>>, <<>>)
    <2>1. Run(alts[i][2], j, nest, m, q)
      BY <1>2, <1>7 DEF Run
    <2>2. Run(alts[i][2] \o Rest, j, nest, <<>>, <<>>)
      BY <1>2, <2>1, RunJoin
    <2>3. QED
      BY <1>1, <2>2
  <1>12. QED
    BY <1>1, <1>10, <1>11, NeutralKept DEF Stay

-----------------------------------------------------------------------------
(* What is asked of the parse functions: that the code of each one, of the     *)
(* operands and of the operators, can be run.                                *)

Bodies == \A f \in DOMAIN Body : Run(Body[f], Start[f], <<>>, <<>>, <<>>)

Operands == Run(<<PrefixFn>>, <<>>, <<>>, <<>>, <<>>)

Operators ==
    /\ \A t : Prec(t) > LOWEST => Run(InfixFn(t), <<{t}>>, <<>>, <<>>, <<>>)
    /\ Run(<<AfterOperators>>, <<>>, <<>>, <<>>, <<>>)

LEMMA RunEnd ==
    ASSUME NEW x, x[1] \in {"end", "mustend"}, NEW o \in Nests
    PROVE  Run(<<x>>, <<>>, o, <<>>, o)
  <1>1. Item({}, x, <<>>, o, <<>>, o)
    BY DEF Item, Neutral
  <1>2. QED
    BY <1>1, RunItem, IsSeqs DEF Closed

LEMMA RunInfix ==
    ASSUME NEW n \in Nat, NEW o \in Nests
    PROVE  Run(<<Infix(n)>>, <<>>, o, <<>>, o)
  <1>1. Infix(n)[1] = "infix" /\ Infix(n)[2] = n
    BY DEF Infix
  <1>2. Item({}, Infix(n), <<>>, o, <<>>, o)
    BY <1>1 DEF Item, Neutral
  <1>3. QED
    BY <1>2, RunItem, IsSeqs DEF Closed

LEMMA CallKept ==
    ASSUME Bodies, Operands, TInv, ~failed, ~unchecked, DoCall
    PROVE  TInv'
  <1>1. Active /\ Top[1] \in {"call", "must", "expr"} /\ Stay
    BY DEF DoCall, Ready
  <1>2. PICK F, k, m, q : /\ Closed(F) /\ IsSeq(k) /\ Fits(window, k) /\ IsSeq(m) /\ q \in Nests
                          /\ Item(F, Top, k, nest, m, q) /\ Run(Rest, m, q, <<>>, <<>>)
    BY <1>1, TopItem
  <1>3. q = nest /\ m = <<>> /\ IsSeq(window) /\ nest \in Nests
    BY <1>1, <1>2, TopItem DEF Item, Neutral, Consuming
  <1>4. ASSUME Top[1] \in {"call", "must"}, NEW e, e[1] \in {"end", "mustend"},
               todo' = Body[Top[2]] \o <<e>> \o Rest
        PROVE  TInv'
    <2>1. Top[2] \in DOMAIN Body /\ Knows(k, <<>>, Start[Top[2]])
      BY <1>2, <1>4 DEF Item, Neutral, Consuming
    <2>2. Run(Body[Top[2]], Start[Top[2]], <<>>, <<>>, <<>>)
      BY <2>1 DEF Bodies
    <2>3. IsSeq(Start[Top[2]]) /\ IsSeq(<<>>)
      BY <2>2, RunTyped DEF Typed
    <2>4. Fits(window, Start[Top[2]])
      BY <1>2, <1>3, <2>1, <2>3, FitsKnows, FitsNil
    <2>5. Run(Body[Top[2]], Start[Top[2]], nest, <<>>, nest)
      BY <1>3, <2>2, RunWithin
    <2>6. Run(<<e>>, <<>>, nest, <<>>, nest)
      BY <1>3, <1>4, RunEnd
    <2>7. Run(todo', Start[Top[2]], nest, <<>>, <<>>)
      BY <1>2, <1>3, <1>4, <2>5, <2>6, RunJoin
    <2>8. QED
      BY <1>1, <2>4, <2>7, NeutralKept DEF Stay
  <1>5. ASSUME Top[1] = "expr", todo' = <<PrefixFn, Infix(Top[2]), <<"end">>>> \o Rest
        PROVE  TInv'
    <2>1. Top[2] \in Nat
      BY <1>2, <1>5 DEF Item, Neutral, Consuming
    <2>2. Run(<<PrefixFn>>, <<>>, nest, <<>>, nest)
      BY <1>3, RunWithin DEF Operands
    <2>3. Run(<<Infix(Top[2])>>, <<>>, nest, <<>>, nest)
      BY <1>3, <2>1, RunInfix
    <2>4. Run(<<<<"end">>>>, <<>>, nest, <<>>, nest)
      BY <1>3, RunEnd
    <2>5. <<PrefixFn, Infix(Top[2]), <<"end">>>> = <<PrefixFn>> \o <<Infix(Top[2])>> \o <<<<"end">>>>
      OBVIOUS
    <2>6. Run(<<PrefixFn, Infix(Top[2]), <<"end">>>>, <<>>, nest, <<>>, nest)
      BY <2>2, <2>3, <2>4, <2>5, RunJoin
    <2>7. Run(todo', <<>>, nest, <<>>, <<>>)
      BY <1>2, <1>3, <1>5, <2>6, RunJoin
    <2>8. Fits(window, <<>>)
      BY <1>3, FitsNil
    <2>9. QED
      BY <1>1, <2>7, <2>8, NeutralKept DEF Stay
  <1>6. QED
    BY <1>4, <1>5 DEF DoCall, Ready

LEMMA InfixKept ==
    ASSUME Operators, TInv, ~failed, ~unchecked, DoInfix
    PROVE  TInv'
  <1>1. Active /\ Top[1] = "infix" /\ Stay /\ window # <<>>
    BY DEF DoInfix, Ready, Waits
  <1>2. PICK F, k, m, q : /\ Closed(F) /\ IsSeq(k) /\ Fits(window, k) /\ IsSeq(m) /\ q \in Nests
                          /\ Item(F, Top, k, nest, m, q) /\ Run(Rest, m, q, <<>>, <<>>)
    BY <1>1, TopItem
  <1>3. /\ q = nest /\ m = <<>> /\ IsSeq(window) /\ nest \in Nests /\ todo = <<Top>> \o Rest
        /\ Neutral(F, Top, <<>>, <<>>) /\ Top[2] \in Nat /\ IsSeq(<<>>) /\ Fits(window, <<>>)
    BY <1>1, <1>2, TopItem, IsSeqs, FitsNil DEF Item, Neutral, Consuming
  <1>4. Run(todo, <<>>, nest, <<>>, <<>>)
    BY <1>2, <1>3, RunCons DEF Item
  <1>5. CASE Top[2] < Prec(Cur) /\ todo' = InfixFn(Cur) \o todo
    <2>1. Prec(Cur) > LOWEST
      BY <1>3, <1>5 DEF LOWEST, Prec
    <2>2. Run(InfixFn(Cur), <<{Cur}>>, nest, <<>>, nest)
      BY <1>3, <2>1, RunWithin DEF Operators
    <2>3. Run(todo', <<{Cur}>>, nest, <<>>, <<>>)
      BY <1>4, <1>5, <2>2, RunJoin
    <2>4. Len(window) \in Nat /\ Len(window) > 0
      BY <1>1, <1>3 DEF IsSeq
    <2>5. Fits(window, <<{Cur}>>)
      BY <2>4 DEF Fits, Cur
    <2>6. QED
      BY <1>1, <2>3, <2>5, NeutralKept DEF Stay
  <1>6. CASE todo' = <<AfterOperators>> \o Rest
    <2>1. Run(<<AfterOperators>>, <<>>, nest, <<>>, nest)
      BY <1>3, RunWithin DEF Operators
    <2>2. Run(todo', <<>>, nest, <<>>, <<>>)
      BY <1>2, <1>3, <1>6, <2>1, RunJoin
    <2>3. QED
      BY <1>1, <1>3, <2>2, NeutralKept DEF Stay
  <1>7. QED
    BY <1>5, <1>6 DEF DoInfix

-----------------------------------------------------------------------------
(* Each step keeps the invariant.                                            *)

LEMMA StepKept ==
    ASSUME Bodies, Operands, Operators, TInv, [Next]_vars
    PROVE  TInv'
  <1>1. CASE UNCHANGED vars
    BY <1>1 DEF vars, TInv
  <1>2. CASE ReadToken
    BY <1>2, ReadKept
  <1>3. CASE Next /\ (failed \/ unchecked)
    <2> SUFFICES failed' \/ unchecked'
      BY DEF TInv
    <2> DEFINE Over == failed' \/ unchecked'
    <2>c. ASSUME NEW E, Consume(E) PROVE Over
      <3>1. CASE failed
        BY <2>c, <3>1 DEF Consume
      <3>2. CASE ~failed /\ unchecked
        <4>1. unchecked' = TRUE
          BY <2>c, <3>2, Zenon DEF Consume
        <4>2. QED
          BY <4>1, Zenon
      <3>3. QED
        BY <1>3, <3>1, <3>2, Zenon
    <2>s. Stay => Over
      <3>1. Stay => failed' = failed /\ unchecked' = unchecked
        BY DEF Stay
      <3>2. QED
        BY <1>3, <3>1, Zenon
    <2>f. Fails => Over
      BY Zenon DEF Fails
    <2>1. CASE ReadToken \/ DoEat \/ DoBlind
      BY <1>3, <2>1, <2>c, Zenon DEF ReadToken, DoEat, DoBlind
    <2>r. ASSUME NEW b, Reject(b) PROVE Over
      BY <2>r, <2>f, Zenon DEF Reject
    <2>2. CASE DoNeed \/ DoAt
      <3>1. (\E E : Consume(E)) \/ Stay \/ \E b : Reject(b)
        BY <2>2 DEF DoNeed, DoAt
      <3>2. QED
        BY <3>1, <2>c, <2>s, <2>r, Zenon
    <2>3. CASE DoExpect \/ DoOpt \/ DoErr \/ DoSkip
      <3>1. (\E E : Consume(E)) \/ Stay \/ Fails \/ (DoOpt /\ failed' = failed /\ unchecked' = ~failed)
        BY <2>3 DEF DoExpect, DoOpt, DoErr, DoSkip
      <3>2. ASSUME failed' = failed, unchecked' = ~failed PROVE Over
        <4>1. CASE failed
          BY <3>2, <4>1, Zenon
        <4>2. CASE ~failed
          <5>1. unchecked' = TRUE
            BY <3>2, <4>2
          <5>2. QED
            BY <5>1, Zenon
        <4>3. QED
          BY <4>1, <4>2, Zenon
      <3>3. QED
        BY <3>1, <3>2, <2>c, <2>s, <2>f, Zenon
    <2>4. CASE DoPick \/ DoByKind \/ DoLoop \/ DoBreak \/ DoCall \/ DoInfix \/ DoReturn \/ DoNode
      BY <1>3, <2>4 DEF DoPick, DoByKind, DoLoop, DoBreak, DoCall, DoInfix, DoReturn, DoNode, Stay
    <2>5. QED
      BY <1>3, <2>1, <2>2, <2>3, <2>4 DEF Next
  <1>4. CASE DoErr
    BY <1>4, FailsKept DEF DoErr
  <1>5. CASE (DoSkip \/ DoBreak) /\ ~failed /\ ~unchecked
    BY <1>5, NeverNext DEF DoSkip, DoBreak, Ready
  <1>6. QED
    BY <1>1, <1>2, <1>3, <1>4, <1>5, EatKept, BlindKept, NeedKept, AtKept, ExpectKept, OptKept,
       PickKept, ByKindKept, LoopKept, CallKept, InfixKept, ReturnKept, NodeKept DEF Next

-----------------------------------------------------------------------------
(* Rules for the code of the parse functions.  Brings(k, c): from k on, c       *)
(* leaves the nest as it finds it; Shuts(b, c): it closes b, and no more.      *)

Brings(k, c) == Run(c, k, <<>>, <<>>, <<>>)
Safe(c)      == Brings(<<>>, c)
Opens(b, k, x) == Run(<<x>>, k, <<>>, <<>>, <<b>>)
Shuts(b, k, c) == Run(c, k, <<b>>, <<>>, <<>>)

LEMMA Closed0 == Closed({})
  BY DEF Closed

LEMMA Nest0 == <<>> \in Nests /\ \A b \in Openers : <<b>> \in Nests
  BY DEF Nests

LEMMA TakesOne ==
    ASSUME NEW b \in Openers
    PROVE  Takes({b}, <<>>, <<b>>) /\ Takes({Closing[b]}, <<b>>, <<>>)
  <1>1. Append(<<>>, b) = <<b>>
    OBVIOUS
  <1>2. QED
    BY <1>1 DEF Takes

LEMMA EatRuns ==
    ASSUME NEW T, NEW o \in Nests, NEW p \in Nests, Takes(T, o, p), NEW k, IsSeq(k), k # <<>>, k[1] = T,
           NEW l, l \in {<<>>, Tail(k)}
    PROVE  Run(<<Eat>>, k, o, l, p)
  <1>1. Item({}, Eat, k, o, l, p)
    BY DEF Item, Eat
  <1>2. IsSeq(l)
    BY IsSeqs, HeadTail
  <1>3. QED
    BY <1>1, <1>2, RunItem, Closed0

LEMMA TakeRuns ==
    ASSUME NEW T, NEW o \in Nests, NEW p \in Nests, Takes(T, o, p), NEW k, IsSeq(k),
           NEW x, x[1] \in Consuming, x[2] = T
    PROVE  Run(<<x>>, k, o, <<>>, p)
  <1>1. Item({}, x, k, o, <<>>, p)
    BY DEF Item
  <1>2. QED
    BY <1>1, IsSeqs, RunItem, Closed0

LEMMA NeutralRuns ==
    ASSUME NEW x, NEW k, IsSeq(k), NEW l, IsSeq(l), NEW F, Closed(F), Neutral(F, x, k, l), NEW o \in Nests
    PROVE  Run(<<x>>, k, o, l, o)
  BY RunItem DEF Item

(* Items.                                                                    *)

LEMMA SafeExpr ==
    /\ Safe(<<Expr(LOWEST)>>) /\ Safe(<<Expr(RANGE)>>) /\ Safe(<<Expr(PREFIX)>>)
    /\ Safe(<<Infix(LOWEST)>>) /\ \A n \in Nat : Safe(<<Expr(n)>>)
  <1>1. ASSUME NEW n \in Nat PROVE Safe(<<Expr(n)>>) /\ Safe(<<Infix(n)>>)
    <2>1. Neutral({}, Expr(n), <<>>, <<>>) /\ Neutral({}, Infix(n), <<>>, <<>>)
      BY DEF Neutral, Expr, Infix
    <2>2. QED
      BY <2>1, NeutralRuns, IsSeqs, Closed0, Nest0 DEF Safe, Brings
  <1>2. LOWEST \in Nat /\ RANGE \in Nat /\ PREFIX \in Nat
    BY DEF LOWEST, RANGE, PREFIX
  <1>3. QED
    BY <1>1, <1>2

LEMMA SafeTake ==
    ASSUME NEW T, Plain(T)
    PROVE  /\ Safe(<<Need(T)>>) /\ Safe(<<NeedSkip(T)>>) /\ Safe(<<Blind(T)>>)
           /\ Safe(<<Expect(T)>>) /\ Safe(<<Opt(T)>>)
  <1>1. Takes(T, <<>>, <<>>)
    BY DEF Takes
  <1>2. ASSUME NEW x, x[1] \in Consuming, x[2] = T PROVE Safe(<<x>>)
    BY <1>1, <1>2, TakeRuns, IsSeqs, Nest0 DEF Safe, Brings
  <1>3. QED
    BY <1>2 DEF Need, NeedSkip, Blind, Expect, Opt, Consuming

LEMMA SafeNode ==
    ASSUME NEW n, NEW j \in Kinds \cup {""}
    PROVE  Safe(<<Node(n, j)>>)
  <1>1. Neutral({}, Node(n, j), <<>>, <<>>)
    BY DEF Neutral, Node
  <1>2. QED
    BY <1>1, NeutralRuns, IsSeqs, Closed0, Nest0 DEF Safe, Brings

LEMMA SafeNodes ==
    ASSUME NEW n
    PROVE  /\ Safe(<<Node(n, "type")>>) /\ Safe(<<Node(n, "make")>>) /\ Safe(<<Node(n, "min")>>)
           /\ Safe(<<Node(n, "other")>>) /\ Safe(<<Node(n, "")>>)
  BY SafeNode DEF Kinds

LEMMA SafeAt ==
    ASSUME NEW T
    PROVE  Safe(<<At(T)>>) /\ Safe(<<AtSkip(T)>>)
  <1>1. Neutral({}, At(T), <<>>, <<>>) /\ Neutral({}, AtSkip(T), <<>>, <<>>)
    BY DEF Neutral, At, AtSkip
  <1>2. QED
    BY <1>1, NeutralRuns, IsSeqs, Closed0, Nest0 DEF Safe, Brings

LEMMA SafeCall ==
    ASSUME NEW f \in DOMAIN Body, Start[f] = <<>>
    PROVE  Safe(<<Call(f)>>) /\ Safe(<<Must(f)>>)
  <1>1. Knows(<<>>, <<>>, <<>>)
    BY DEF Knows
  <1>2. ASSUME NEW x, x[1] \in {"call", "must"}, x[2] = f PROVE Safe(<<x>>)
    <2>1. Neutral({}, x, <<>>, <<>>)
      BY <1>1, <1>2 DEF Neutral
    <2>2. QED
      BY <2>1, NeutralRuns, IsSeqs, Closed0, Nest0 DEF Safe, Brings
  <1>3. QED
    BY <1>2 DEF Call, Must

LEMMA BringsCall ==
    ASSUME NEW T, T # {}, NEW U, T \subseteq U, NEW f \in DOMAIN Body, Start[f] = <<U>>
    PROVE  Brings(<<T>>, <<Call(f)>>)
  <1>1. Knows(<<T>>, <<>>, <<U>>)
    BY DEF Knows
  <1>2. Neutral({}, Call(f), <<T>>, <<>>)
    BY <1>1 DEF Neutral, Call
  <1>3. QED
    BY <1>2, NeutralRuns, IsSeqs, Closed0, Nest0 DEF Brings

(* Tests and loops.                                                          *)

LEMMA SafeUntil ==
    ASSUME NEW b, Safe(b), NEW T
    PROVE  Safe(<<Until(T, b)>>)
  <1>1. PICK F : Closed(F) /\ <<b, <<>>, <<>>, <<>>, <<>>>> \in F
    BY DEF Safe, Brings, Run
  <1>2. Neutral(F, Until(T, b), <<>>, <<>>)
    BY <1>1 DEF Neutral, Until
  <1>3. QED
    BY <1>1, <1>2, NeutralRuns, IsSeqs, Nest0 DEF Safe, Brings

LEMMA SafeWhile ==
    ASSUME NEW T, NEW b, Brings(<<T>>, b)
    PROVE  Safe(<<While(T, b)>>)
  <1>1. PICK F : Closed(F) /\ <<b, <<T>>, <<>>, <<>>, <<>>>> \in F
    BY DEF Brings, Run
  <1>2. Neutral(F, While(T, b), <<>>, <<>>)
    BY <1>1 DEF Neutral, While
  <1>3. QED
    BY <1>1, <1>2, NeutralRuns, IsSeqs, Nest0 DEF Safe, Brings

LEMMA PickRuns ==
    ASSUME NEW alts, IsSeq(alts), alts # <<>>, alts[Len(alts)][1] = Otherwise,
           NEW k, IsSeq(k), NEW o \in Nests, NEW l, IsSeq(l), NEW p \in Nests,
           \A i \in 1..Len(alts) :
              IsSeq(alts[i][1]) /\ \E m : AltKnows(k, alts, i, m) /\ Run(alts[i][2], m, o, l, p)
    PROVE  Run(<<Pick(alts)>>, k, o, l, p)
  <1> DEFINE Ctx(i) == CHOOSE F : \E m : /\ AltKnows(k, alts, i, m) /\ Closed(F)
                                         /\ <<alts[i][2], m, o, l, p>> \in F
             U == {Ctx(i) : i \in 1..Len(alts)}
  <1>1. ASSUME NEW i \in 1..Len(alts)
        PROVE  \E m : /\ AltKnows(k, alts, i, m) /\ Closed(Ctx(i)) /\ <<alts[i][2], m, o, l, p>> \in Ctx(i)
    <2>1. \E F : \E m : /\ AltKnows(k, alts, i, m) /\ Closed(F) /\ <<alts[i][2], m, o, l, p>> \in F
      BY DEF Run
    <2>2. QED
      BY <2>1, Zenon
  <1> HIDE DEF Ctx
  <1>2. \A F \in U : Closed(F)
    BY <1>1
  <1>3. Closed(UNION U)
    <2> HIDE DEF U
    <2> QED
      BY <1>2, JoinClosed
  <1>4. ASSUME NEW i \in 1..Len(alts)
        PROVE  \E m : AltKnows(k, alts, i, m) /\ <<alts[i][2], m, o, l, p>> \in UNION U
    <2>1. PICK m : AltKnows(k, alts, i, m) /\ <<alts[i][2], m, o, l, p>> \in Ctx(i)
      BY <1>1
    <2>2. Ctx(i) \in U
      OBVIOUS
    <2>3. QED
      BY <2>1, <2>2
  <1>5. AltsIn(UNION U, alts, k, o, l, p)
    <2> HIDE DEF U
    <2> QED
      BY <1>4 DEF AltsIn
  <1>6. Item(UNION U, Pick(alts), k, o, l, p)
    BY <1>5 DEF Item, Pick
  <1> HIDE DEF U
  <1>7. QED
    BY <1>3, <1>6, RunItem

(* An alternative with the test t and the code c.                            *)
Alt(k, a, o, p) == IsSeq(a[1]) /\ \E m : Knows(k, a[1], m) /\ Run(a[2], m, o, <<>>, p)

LEMMA PickAlts ==
    ASSUME NEW alts, IsSeq(alts), alts # <<>>, alts[Len(alts)][1] = Otherwise,
           NEW k, IsSeq(k), NEW o \in Nests, NEW p \in Nests,
           \A i \in 1..Len(alts) : Alt(k, alts[i], o, p)
    PROVE  Run(<<Pick(alts)>>, k, o, <<>>, p)
  <1>1. \A i \in 1..Len(alts) :
              IsSeq(alts[i][1]) /\ \E m : AltKnows(k, alts, i, m) /\ Run(alts[i][2], m, o, <<>>, p)
    BY DEF Alt, AltKnows
  <1>2. QED
    BY <1>1, PickRuns, IsSeqs

(* What an alternative may rely on: nothing, its test or the first token of it, *)
(* or what was known before.                                                 *)
LEMMA AltSafe ==
    ASSUME NEW k, NEW t, IsSeq(t), NEW c, NEW o, NEW p, Run(c, <<>>, o, <<>>, p)
    PROVE  Alt(k, When(t, c), o, p)
  <1>1. Knows(k, t, <<>>)
    BY DEF Knows
  <1>2. QED
    BY <1>1 DEF Alt, When

LEMMA AltLast ==
    ASSUME NEW k, NEW c, NEW o, NEW p, Run(c, <<>>, o, <<>>, p)
    PROVE  Alt(k, Else(c), o, p)
  BY AltSafe, IsSeqs DEF Otherwise, Else

LEMMA AltTest ==
    ASSUME NEW k, NEW t, IsSeq(t), NEW c, NEW o, NEW p, Run(c, t, o, <<>>, p)
    PROVE  Alt(k, When(t, c), o, p)
  <1>1. Knows(k, t, t)
    BY DEF Knows, IsSeq
  <1>2. QED
    BY <1>1 DEF Alt, When

LEMMA AltFirst ==
    ASSUME NEW k, NEW T, NEW U, NEW c, NEW o, NEW p, Run(c, <<T>>, o, <<>>, p)
    PROVE  Alt(k, When(<<T, U>>, c), o, p) /\ \A V : Alt(k, When(<<T, U, V>>, c), o, p)
  <1>1. Knows(k, <<T, U>>, <<T>>) /\ \A V : Knows(k, <<T, U, V>>, <<T>>)
    BY DEF Knows
  <1>2. QED
    BY <1>1, IsSeqs DEF Alt, When

LEMMA AltKept ==
    ASSUME NEW T, T # {}, NEW t, IsSeq(t), NEW c, NEW o, NEW p, Run(c, <<T>>, o, <<>>, p)
    PROVE  Alt(<<T>>, When(t, c), o, p) /\ (t = Otherwise => Alt(<<T>>, Else(c), o, p))
  <1>1. Knows(<<T>>, t, <<T>>)
    BY DEF Knows
  <1>2. QED
    BY <1>1 DEF Alt, When, Else

(* A rule for each number of alternatives.                                    *)
LEMMA Pick2 ==
    ASSUME NEW k, IsSeq(k), NEW o \in Nests, NEW p \in Nests,
           NEW a1, NEW c,
           Alt(k, a1, o, p), Alt(k, Else(c), o, p)
    PROVE  Run(<<Pick(<<a1, Else(c)>>)>>, k, o, <<>>, p)
  <1> DEFINE alts == <<a1, Else(c)>>
  <1>1. IsSeq(alts) /\ alts # <<>> /\ Len(alts) = 2 /\ alts[2][1] = Otherwise
    <2>1. alts \in Seq({a1, Else(c)})
      OBVIOUS
    <2>2. Else(c)[1] = Otherwise
      BY DEF Else, When
    <2>3. QED
      BY <2>1, <2>2 DEF IsSeq
  <1>2. ASSUME NEW i \in 1..2 PROVE Alt(k, alts[i], o, p)
    OBVIOUS
  <1> HIDE DEF alts
  <1>3. Run(<<Pick(alts)>>, k, o, <<>>, p)
    BY <1>1, <1>2, PickAlts
  <1>4. QED
    BY <1>3 DEF alts

LEMMA Pick3 ==
    ASSUME NEW k, IsSeq(k), NEW o \in Nests, NEW p \in Nests,
           NEW a1, NEW a2, NEW c,
           Alt(k, a1, o, p), Alt(k, a2, o, p), Alt(k, Else(c), o, p)
    PROVE  Run(<<Pick(<<a1, a2, Else(c)>>)>>, k, o, <<>>, p)
  <1> DEFINE alts == <<a1, a2, Else(c)>>
  <1>1. IsSeq(alts) /\ alts # <<>> /\ Len(alts) = 3 /\ alts[3][1] = Otherwise
    <2>1. alts \in Seq({a1, a2, Else(c)})
      OBVIOUS
    <2>2. Else(c)[1] = Otherwise
      BY DEF Else, When
    <2>3. QED
      BY <2>1, <2>2 DEF IsSeq
  <1>2. ASSUME NEW i \in 1..3 PROVE Alt(k, alts[i], o, p)
    OBVIOUS
  <1> HIDE DEF alts
  <1>3. Run(<<Pick(alts)>>, k, o, <<>>, p)
    BY <1>1, <1>2, PickAlts
  <1>4. QED
    BY <1>3 DEF alts

LEMMA Pick4 ==
    ASSUME NEW k, IsSeq(k), NEW o \in Nests, NEW p \in Nests,
           NEW a1, NEW a2, NEW a3, NEW c,
           Alt(k, a1, o, p), Alt(k, a2, o, p), Alt(k, a3, o, p), Alt(k, Else(c), o, p)
    PROVE  Run(<<Pick(<<a1, a2, a3, Else(c)>>)>>, k, o, <<>>, p)
  <1> DEFINE alts == <<a1, a2, a3, Else(c)>>
  <1>1. IsSeq(alts) /\ alts # <<>> /\ Len(alts) = 4 /\ alts[4][1] = Otherwise
    <2>1. alts \in Seq({a1, a2, a3, Else(c)})
      OBVIOUS
    <2>2. Else(c)[1] = Otherwise
      BY DEF Else, When
    <2>3. QED
      BY <2>1, <2>2 DEF IsSeq
  <1>2. ASSUME NEW i \in 1..4 PROVE Alt(k, alts[i], o, p)
    OBVIOUS
  <1> HIDE DEF alts
  <1>3. Run(<<Pick(alts)>>, k, o, <<>>, p)
    BY <1>1, <1>2, PickAlts
  <1>4. QED
    BY <1>3 DEF alts

LEMMA Pick7 ==
    ASSUME NEW k, IsSeq(k), NEW o \in Nests, NEW p \in Nests,
           NEW a1, NEW a2, NEW a3, NEW a4, NEW a5, NEW a6, NEW c,
           Alt(k, a1, o, p), Alt(k, a2, o, p), Alt(k, a3, o, p), Alt(k, a4, o, p),
           Alt(k, a5, o, p), Alt(k, a6, o, p), Alt(k, Else(c), o, p)
    PROVE  Run(<<Pick(<<a1, a2, a3, a4, a5, a6, Else(c)>>)>>, k, o, <<>>, p)
  <1> DEFINE alts == <<a1, a2, a3, a4, a5, a6, Else(c)>>
  <1>1. IsSeq(alts) /\ alts # <<>> /\ Len(alts) = 7 /\ alts[7][1] = Otherwise
    <2>1. alts \in Seq({a1, a2, a3, a4, a5, a6, Else(c)})
      OBVIOUS
    <2>2. Else(c)[1] = Otherwise
      BY DEF Else, When
    <2>3. QED
      BY <2>1, <2>2 DEF IsSeq
  <1>2. ASSUME NEW i \in 1..7 PROVE Alt(k, alts[i], o, p)
    OBVIOUS
  <1> HIDE DEF alts
  <1>3. Run(<<Pick(alts)>>, k, o, <<>>, p)
    BY <1>1, <1>2, PickAlts
  <1>4. QED
    BY <1>3 DEF alts

LEMMA Pick8 ==
    ASSUME NEW k, IsSeq(k), NEW o \in Nests, NEW p \in Nests,
           NEW a1, NEW a2, NEW a3, NEW a4, NEW a5, NEW a6, NEW a7, NEW c,
           Alt(k, a1, o, p), Alt(k, a2, o, p), Alt(k, a3, o, p), Alt(k, a4, o, p),
           Alt(k, a5, o, p), Alt(k, a6, o, p), Alt(k, a7, o, p), Alt(k, Else(c), o, p)
    PROVE  Run(<<Pick(<<a1, a2, a3, a4, a5, a6, a7, Else(c)>>)>>, k, o, <<>>, p)
  <1> DEFINE alts == <<a1, a2, a3, a4, a5, a6, a7, Else(c)>>
  <1>1. IsSeq(alts) /\ alts # <<>> /\ Len(alts) = 8 /\ alts[8][1] = Otherwise
    <2>1. alts \in Seq({a1, a2, a3, a4, a5, a6, a7, Else(c)})
      OBVIOUS
    <2>2. Else(c)[1] = Otherwise
      BY DEF Else, When
    <2>3. QED
      BY <2>1, <2>2 DEF IsSeq
  <1>2. ASSUME NEW i \in 1..8 PROVE Alt(k, alts[i], o, p)
    OBVIOUS
  <1> HIDE DEF alts
  <1>3. Run(<<Pick(alts)>>, k, o, <<>>, p)
    BY <1>1, <1>2, PickAlts
  <1>4. QED
    BY <1>3 DEF alts

LEMMA Pick14 ==
    ASSUME NEW k, IsSeq(k), NEW o \in Nests, NEW p \in Nests,
           NEW a1, NEW a2, NEW a3, NEW a4, NEW a5, NEW a6, NEW a7, NEW a8, NEW a9, NEW a10,
           NEW a11, NEW a12, NEW a13, NEW c,
           Alt(k, a1, o, p), Alt(k, a2, o, p), Alt(k, a3, o, p), Alt(k, a4, o, p),
           Alt(k, a5, o, p), Alt(k, a6, o, p), Alt(k, a7, o, p), Alt(k, a8, o, p),
           Alt(k, a9, o, p), Alt(k, a10, o, p), Alt(k, a11, o, p), Alt(k, a12, o, p),
           Alt(k, a13, o, p), Alt(k, Else(c), o, p)
    PROVE  Run(<<Pick(<<a1, a2, a3, a4, a5, a6, a7, a8, a9, a10, a11, a12, a13, Else(c)>>)>>, k, o, <<>>, p)
  <1> DEFINE alts == <<a1, a2, a3, a4, a5, a6, a7, a8, a9, a10, a11, a12, a13, Else(c)>>
  <1>1. IsSeq(alts) /\ alts # <<>> /\ Len(alts) = 14 /\ alts[14][1] = Otherwise
    <2>1. alts \in Seq({a1, a2, a3, a4, a5, a6, a7, a8, a9, a10, a11, a12, a13, Else(c)})
      OBVIOUS
    <2>2. Else(c)[1] = Otherwise
      BY DEF Else, When
    <2>3. QED
      BY <2>1, <2>2 DEF IsSeq
  <1>2. ASSUME NEW i \in 1..14 PROVE Alt(k, alts[i], o, p)
    OBVIOUS
  <1> HIDE DEF alts
  <1>3. Run(<<Pick(alts)>>, k, o, <<>>, p)
    BY <1>1, <1>2, PickAlts
  <1>4. QED
    BY <1>3 DEF alts

LEMMA Pick16 ==
    ASSUME NEW k, IsSeq(k), NEW o \in Nests, NEW p \in Nests,
           NEW a1, NEW a2, NEW a3, NEW a4, NEW a5, NEW a6, NEW a7, NEW a8, NEW a9, NEW a10,
           NEW a11, NEW a12, NEW a13, NEW a14, NEW a15, NEW c,
           Alt(k, a1, o, p), Alt(k, a2, o, p), Alt(k, a3, o, p), Alt(k, a4, o, p),
           Alt(k, a5, o, p), Alt(k, a6, o, p), Alt(k, a7, o, p), Alt(k, a8, o, p),
           Alt(k, a9, o, p), Alt(k, a10, o, p), Alt(k, a11, o, p), Alt(k, a12, o, p),
           Alt(k, a13, o, p), Alt(k, a14, o, p), Alt(k, a15, o, p), Alt(k, Else(c), o, p)
    PROVE  Run(<<Pick(<<a1, a2, a3, a4, a5, a6, a7, a8, a9, a10, a11, a12, a13, a14, a15, Else(c)>>)>>, k, o, <<>>, p)
  <1> DEFINE alts == <<a1, a2, a3, a4, a5, a6, a7, a8, a9, a10, a11, a12, a13, a14, a15, Else(c)>>
  <1>1. IsSeq(alts) /\ alts # <<>> /\ Len(alts) = 16 /\ alts[16][1] = Otherwise
    <2>1. alts \in Seq({a1, a2, a3, a4, a5, a6, a7, a8, a9, a10, a11, a12, a13, a14, a15, Else(c)})
      OBVIOUS
    <2>2. Else(c)[1] = Otherwise
      BY DEF Else, When
    <2>3. QED
      BY <2>1, <2>2 DEF IsSeq
  <1>2. ASSUME NEW i \in 1..16 PROVE Alt(k, alts[i], o, p)
    OBVIOUS
  <1> HIDE DEF alts
  <1>3. Run(<<Pick(alts)>>, k, o, <<>>, p)
    BY <1>1, <1>2, PickAlts
  <1>4. QED
    BY <1>3 DEF alts

LEMMA Pick23 ==
    ASSUME NEW k, IsSeq(k), NEW o \in Nests, NEW p \in Nests,
           NEW a1, NEW a2, NEW a3, NEW a4, NEW a5, NEW a6, NEW a7, NEW a8, NEW a9, NEW a10,
           NEW a11, NEW a12, NEW a13, NEW a14, NEW a15, NEW a16, NEW a17, NEW a18, NEW a19, NEW a20,
           NEW a21, NEW a22, NEW c,
           Alt(k, a1, o, p), Alt(k, a2, o, p), Alt(k, a3, o, p), Alt(k, a4, o, p),
           Alt(k, a5, o, p), Alt(k, a6, o, p), Alt(k, a7, o, p), Alt(k, a8, o, p),
           Alt(k, a9, o, p), Alt(k, a10, o, p), Alt(k, a11, o, p), Alt(k, a12, o, p),
           Alt(k, a13, o, p), Alt(k, a14, o, p), Alt(k, a15, o, p), Alt(k, a16, o, p),
           Alt(k, a17, o, p), Alt(k, a18, o, p), Alt(k, a19, o, p), Alt(k, a20, o, p),
           Alt(k, a21, o, p), Alt(k, a22, o, p), Alt(k, Else(c), o, p)
    PROVE  Run(<<Pick(<<a1, a2, a3, a4, a5, a6, a7, a8, a9, a10, a11, a12, a13, a14, a15, a16, a17, a18,
            a19, a20, a21, a22, Else(c)>>)>>, k, o, <<>>, p)
  <1> DEFINE alts == <<a1, a2, a3, a4, a5, a6, a7, a8, a9, a10, a11, a12, a13, a14, a15, a16, a17, a18,
            a19, a20, a21, a22, Else(c)>>
  <1>1. IsSeq(alts) /\ alts # <<>> /\ Len(alts) = 23 /\ alts[23][1] = Otherwise
    <2>1. alts \in Seq({a1, a2, a3, a4, a5, a6, a7, a8, a9, a10, a11, a12, a13, a14, a15, a16,
                      a17, a18, a19, a20, a21, a22, Else(c)})
      OBVIOUS
    <2>2. Else(c)[1] = Otherwise
      BY DEF Else, When
    <2>3. QED
      BY <2>1, <2>2 DEF IsSeq
  <1>2. ASSUME NEW i \in 1..23 PROVE Alt(k, alts[i], o, p)
    OBVIOUS
  <1> HIDE DEF alts
  <1>3. Run(<<Pick(alts)>>, k, o, <<>>, p)
    BY <1>1, <1>2, PickAlts
  <1>4. QED
    BY <1>3 DEF alts

-----------------------------------------------------------------------------
(* Code one after the other.                                                 *)

LEMMA Join ==
    ASSUME NEW k, NEW c, NEW d, Brings(k, c), Safe(d)
    PROVE  Brings(k, c \o d)
  BY RunJoin DEF Brings, Safe

LEMMA EatOnly ==
    ASSUME NEW T, Plain(T)
    PROVE  Brings(<<T>>, <<Eat>>)
  <1>1. Takes(T, <<>>, <<>>)
    BY DEF Takes
  <1>2. QED
    BY <1>1, EatRuns, IsSeqs, Nest0 DEF Brings


(* A rule for each length of code: an item and the rest, and a pair of brackets  *)
(* and the rest.                                                             *)
LEMMA Two ==
    ASSUME NEW x, NEW y
    PROVE  <<x, y>> = <<x>> \o <<y>>
  <1>1. <<x>> \in Seq({x, y}) /\ <<y>> \in Seq({x, y}) /\ <<x, y>> \in Seq({x, y})
    OBVIOUS
  <1>2. <<x>> \o <<y>> \in Seq({x, y}) /\ Len(<<x>> \o <<y>>) = 2
    BY <1>1
  <1>3. \A i \in 1..2 : (<<x>> \o <<y>>)[i] = <<x, y>>[i]
    BY <1>1
  <1>4. QED
    BY <1>1, <1>2, <1>3, SeqEqual

LEMMA Cons2 ==
    ASSUME NEW k, NEW x1, NEW x2,
           Brings(k, <<x1>>), Safe(<<x2>>)
    PROVE  Brings(k, <<x1, x2>>)
  <1>1. <<x1, x2>> = <<x1>> \o <<x2>>
    BY Two
  <1>2. QED
    BY <1>1, Join

LEMMA Cons3 ==
    ASSUME NEW k, NEW x1, NEW x2, NEW x3,
           Brings(k, <<x1>>), Safe(<<x2, x3>>)
    PROVE  Brings(k, <<x1, x2, x3>>)
  <1>1. <<x1, x2, x3>> = <<x1>> \o <<x2, x3>>
    OBVIOUS
  <1>2. QED
    BY <1>1, Join

LEMMA Cons4 ==
    ASSUME NEW k, NEW x1, NEW x2, NEW x3, NEW x4,
           Brings(k, <<x1>>), Safe(<<x2, x3, x4>>)
    PROVE  Brings(k, <<x1, x2, x3, x4>>)
  <1>1. <<x1, x2, x3, x4>> = <<x1>> \o <<x2, x3, x4>>
    OBVIOUS
  <1>2. QED
    BY <1>1, Join

LEMMA Cons5 ==
    ASSUME NEW k, NEW x1, NEW x2, NEW x3, NEW x4, NEW x5,
           Brings(k, <<x1>>), Safe(<<x2, x3, x4, x5>>)
    PROVE  Brings(k, <<x1, x2, x3, x4, x5>>)
  <1>1. <<x1, x2, x3, x4, x5>> = <<x1>> \o <<x2, x3, x4, x5>>
    OBVIOUS
  <1>2. QED
    BY <1>1, Join

LEMMA Cons6 ==
    ASSUME NEW k, NEW x1, NEW x2, NEW x3, NEW x4, NEW x5, NEW x6,
           Brings(k, <<x1>>), Safe(<<x2, x3, x4, x5, x6>>)
    PROVE  Brings(k, <<x1, x2, x3, x4, x5, x6>>)
  <1>1. <<x1, x2, x3, x4, x5, x6>> = <<x1>> \o <<x2, x3, x4, x5, x6>>
    OBVIOUS
  <1>2. QED
    BY <1>1, Join

LEMMA Cons7 ==
    ASSUME NEW k, NEW x1, NEW x2, NEW x3, NEW x4, NEW x5, NEW x6, NEW x7,
           Brings(k, <<x1>>), Safe(<<x2, x3, x4, x5, x6, x7>>)
    PROVE  Brings(k, <<x1, x2, x3, x4, x5, x6, x7>>)
  <1>1. <<x1, x2, x3, x4, x5, x6, x7>> = <<x1>> \o <<x2, x3, x4, x5, x6, x7>>
    OBVIOUS
  <1>2. QED
    BY <1>1, Join

LEMMA Cons8 ==
    ASSUME NEW k, NEW x1, NEW x2, NEW x3, NEW x4, NEW x5, NEW x6, NEW x7, NEW x8,
           Brings(k, <<x1>>), Safe(<<x2, x3, x4, x5, x6, x7, x8>>)
    PROVE  Brings(k, <<x1, x2, x3, x4, x5, x6, x7, x8>>)
  <1>1. <<x1, x2, x3, x4, x5, x6, x7, x8>> = <<x1>> \o <<x2, x3, x4, x5, x6, x7, x8>>
    OBVIOUS
  <1>2. QED
    BY <1>1, Join

LEMMA Pair4 ==
    ASSUME NEW k, NEW x1, NEW x2, NEW x3, NEW x4,
           Brings(k, <<x1, x2, x3>>), Safe(<<x4>>)
    PROVE  Brings(k, <<x1, x2, x3, x4>>)
  <1>1. <<x1, x2, x3, x4>> = <<x1, x2, x3>> \o <<x4>>
    OBVIOUS
  <1>2. QED
    BY <1>1, Join

LEMMA Pair5 ==
    ASSUME NEW k, NEW x1, NEW x2, NEW x3, NEW x4, NEW x5,
           Brings(k, <<x1, x2, x3>>), Safe(<<x4, x5>>)
    PROVE  Brings(k, <<x1, x2, x3, x4, x5>>)
  <1>1. <<x1, x2, x3, x4, x5>> = <<x1, x2, x3>> \o <<x4, x5>>
    OBVIOUS
  <1>2. QED
    BY <1>1, Join

LEMMA Pair6 ==
    ASSUME NEW k, NEW x1, NEW x2, NEW x3, NEW x4, NEW x5, NEW x6,
           Brings(k, <<x1, x2, x3>>), Safe(<<x4, x5, x6>>)
    PROVE  Brings(k, <<x1, x2, x3, x4, x5, x6>>)
  <1>1. <<x1, x2, x3, x4, x5, x6>> = <<x1, x2, x3>> \o <<x4, x5, x6>>
    OBVIOUS
  <1>2. QED
    BY <1>1, Join

(* A token that is taken where one more is known.                             *)
LEMMA EatNext ==
    ASSUME NEW T, Plain(T), NEW U, NEW c, Brings(<<U>>, c)
    PROVE  Brings(<<T, U>>, <<Eat>> \o c)
  <1>1. Takes(T, <<>>, <<>>)
    BY DEF Takes
  <1>2. Run(<<Eat>>, <<T, U>>, <<>>, <<U>>, <<>>)
    BY <1>1, EatRuns, IsSeqs, Nest0
  <1>3. QED
    BY <1>2, RunJoin DEF Brings

(* Brackets.                                                                 *)

LEMMA OpensTake ==
    ASSUME NEW b \in Openers, NEW k, IsSeq(k)
    PROVE  /\ Opens(b, k, Need({b})) /\ Opens(b, k, NeedSkip({b})) /\ Opens(b, k, Blind({b}))
           /\ Opens(b, <<{b}>>, Eat)
  <1>1. <<b>> \in Nests /\ <<>> \in Nests /\ Takes({b}, <<>>, <<b>>)
    BY Nest0, TakesOne
  <1>2. ASSUME NEW x, x[1] \in Consuming, x[2] = {b} PROVE Opens(b, k, x)
    BY <1>1, <1>2, TakeRuns DEF Opens
  <1>3. Opens(b, k, Need({b})) /\ Opens(b, k, NeedSkip({b})) /\ Opens(b, k, Blind({b}))
    BY <1>2 DEF Need, NeedSkip, Blind, Consuming
  <1>4. Opens(b, <<{b}>>, Eat)
    BY <1>1, EatRuns, IsSeqs DEF Opens
  <1>5. QED
    BY <1>3, <1>4

LEMMA ShutsTake ==
    ASSUME NEW b \in Openers
    PROVE  /\ Shuts(b, <<>>, <<Need({Closing[b]})>>) /\ Shuts(b, <<>>, <<Expect({Closing[b]})>>)
           /\ Shuts(b, <<>>, <<Opt({Closing[b]})>>) /\ Shuts(b, <<{Closing[b]}>>, <<Eat>>)
  <1>1. <<b>> \in Nests /\ <<>> \in Nests /\ Takes({Closing[b]}, <<b>>, <<>>)
    BY Nest0, TakesOne
  <1>2. ASSUME NEW x, x[1] \in Consuming, x[2] = {Closing[b]} PROVE Shuts(b, <<>>, <<x>>)
    BY <1>1, <1>2, TakeRuns, IsSeqs DEF Shuts
  <1>3. /\ Shuts(b, <<>>, <<Need({Closing[b]})>>) /\ Shuts(b, <<>>, <<Expect({Closing[b]})>>)
        /\ Shuts(b, <<>>, <<Opt({Closing[b]})>>)
    BY <1>2 DEF Need, Expect, Opt, Consuming
  <1>4. Shuts(b, <<{Closing[b]}>>, <<Eat>>)
    BY <1>1, EatRuns, IsSeqs DEF Shuts
  <1>5. QED
    BY <1>3, <1>4

LEMMA SafeWithin ==
    ASSUME NEW c, Safe(c), NEW b \in Openers
    PROVE  Run(c, <<>>, <<b>>, <<>>, <<b>>)
  BY RunWithin, Nest0 DEF Safe, Brings

LEMMA Enclosed ==
    ASSUME NEW b \in Openers, NEW k, NEW x, Opens(b, k, x), NEW c, Safe(c), NEW d, Shuts(b, <<>>, d)
    PROVE  Brings(k, <<x>> \o (c \o d))
  <1>1. Run(c \o d, <<>>, <<b>>, <<>>, <<>>)
    BY SafeWithin, RunJoin DEF Shuts
  <1>2. QED
    BY <1>1, RunJoin DEF Opens, Brings

LEMMA ShutsAfter ==
    ASSUME NEW b \in Openers, NEW c, Safe(c), NEW d, Shuts(b, <<>>, d)
    PROVE  Shuts(b, <<>>, c \o d)
  BY SafeWithin, RunJoin DEF Shuts

LEMMA ShutsThen ==
    ASSUME NEW b \in Openers, NEW k, NEW c, Shuts(b, k, c), NEW d, Safe(d)
    PROVE  Shuts(b, k, c \o d)
  BY RunJoin DEF Shuts, Safe, Brings

(* Tests.                                                                    *)

LEMMA SafeIf ==
    ASSUME NEW k, IsSeq(k), NEW T, NEW c, Brings(<<T>>, c)
    PROVE  Brings(k, <<If(T, c)>>)
  <1>1. Alt(k, When(<<T>>, c), <<>>, <<>>)
    BY AltTest, IsSeqs DEF Brings
  <1>2. Alt(k, Else(<<>>), <<>>, <<>>)
    BY AltLast, RunNil, IsSeqs, Nest0
  <1>3. QED
    BY <1>1, <1>2, Pick2, Nest0 DEF Brings, If

LEMMA SafeIfElse ==
    ASSUME NEW k, IsSeq(k), NEW T, NEW c, NEW d, Brings(<<T>>, c), Safe(d)
    PROVE  Brings(k, <<IfElse(T, c, d)>>)
  <1>1. Alt(k, When(<<T>>, c), <<>>, <<>>)
    BY AltTest, IsSeqs DEF Brings
  <1>2. Alt(k, Else(d), <<>>, <<>>)
    BY AltLast DEF Safe, Brings
  <1>3. QED
    BY <1>1, <1>2, Pick2, Nest0 DEF Brings, IfElse

LEMMA SafeEither ==
    ASSUME NEW k, IsSeq(k), NEW T, NEW c, NEW d, Safe(c), Safe(d)
    PROVE  Brings(k, <<IfElse(T, c, d)>>)
  <1>1. Alt(k, When(<<T>>, c), <<>>, <<>>)
    BY AltSafe, IsSeqs DEF Safe, Brings
  <1>2. Alt(k, Else(d), <<>>, <<>>)
    BY AltLast DEF Safe, Brings
  <1>3. QED
    BY <1>1, <1>2, Pick2, Nest0 DEF Brings, IfElse

LEMMA ShutsIfElse ==
    ASSUME NEW b \in Openers, NEW T, NEW c, NEW d, Shuts(b, <<T>>, c), Shuts(b, <<>>, d)
    PROVE  Shuts(b, <<>>, <<IfElse(T, c, d)>>)
  <1>1. Alt(<<>>, When(<<T>>, c), <<b>>, <<>>)
    BY AltTest, IsSeqs DEF Shuts
  <1>2. Alt(<<>>, Else(d), <<b>>, <<>>)
    BY AltLast DEF Shuts
  <1>3. QED
    BY <1>1, <1>2, Pick2, Nest0, IsSeqs DEF Shuts, IfElse

LEMMA SafeSepBy ==
    ASSUME NEW c, Safe(c)
    PROVE  Safe(SepBy(c))
  <1>1. Plain({","})
    BY Brackets DEF Plain
  <1>2. Brings(<<{","}>>, <<Eat>> \o c)
    BY <1>1, EatOnly, Join
  <1>3. QED
    BY <1>2, SafeWhile, Join DEF SepBy, Safe

(* Calls.                                                                    *)

LEMMA SafeCalls ==
    /\ Safe(<<Call("Declaration")>>) /\ Safe(<<Call("ParamList")>>) /\ Safe(<<Call("Type")>>)
    /\ Safe(<<Call("BlockStmt")>>) /\ Safe(<<Call("Statement")>>) /\ Safe(<<Call("VarDecl")>>)
    /\ Safe(<<Call("TopLevelVarDecl")>>) /\ Safe(<<Call("AssignmentStmt")>>)
    /\ Safe(<<Call("LValue")>>) /\ Safe(<<Must("LValue")>>) /\ Safe(<<Call("ModuleDecl")>>)
    /\ Safe(<<Call("ImportDecl")>>) /\ Safe(<<Call("CollectionElement")>>)
    /\ Safe(<<Call("MapValue")>>)
  <1>1. "Declaration" \in DOMAIN Body /\ Start["Declaration"] = <<>>
    BY DEF Body, Start
  <1>2. "ParamList" \in DOMAIN Body /\ Start["ParamList"] = <<>>
    BY DEF Body, Start
  <1>3. "Type" \in DOMAIN Body /\ Start["Type"] = <<>>
    BY DEF Body, Start
  <1>4. "BlockStmt" \in DOMAIN Body /\ Start["BlockStmt"] = <<>>
    BY DEF Body, Start
  <1>5. "Statement" \in DOMAIN Body /\ Start["Statement"] = <<>>
    BY DEF Body, Start
  <1>6. "VarDecl" \in DOMAIN Body /\ Start["VarDecl"] = <<>>
    BY DEF Body, Start
  <1>7. "TopLevelVarDecl" \in DOMAIN Body /\ Start["TopLevelVarDecl"] = <<>>
    BY DEF Body, Start
  <1>8. "AssignmentStmt" \in DOMAIN Body /\ Start["AssignmentStmt"] = <<>>
    BY DEF Body, Start
  <1>9. "LValue" \in DOMAIN Body /\ Start["LValue"] = <<>>
    BY DEF Body, Start
  <1>10. "ModuleDecl" \in DOMAIN Body /\ Start["ModuleDecl"] = <<>>
    BY DEF Body, Start
  <1>11. "ImportDecl" \in DOMAIN Body /\ Start["ImportDecl"] = <<>>
    BY DEF Body, Start
  <1>12. "CollectionElement" \in DOMAIN Body /\ Start["CollectionElement"] = <<>>
    BY DEF Body, Start
  <1>13. "MapValue" \in DOMAIN Body /\ Start["MapValue"] = <<>>
    BY DEF Body, Start
  <1>20. QED
    BY <1>1, <1>2, <1>3, <1>4, <1>5, <1>6, <1>7, <1>8, <1>9, <1>10, <1>11, <1>12, <1>13, SafeCall

LEMMA BringsCalls ==
    /\ Brings(<<{"<"}>>, <<Call("TypeParamList")>>)
    /\ Brings(<<{"fn"}>>, <<Call("FnDecl")>>)
    /\ Brings(<<{"fn"}>>, <<Call("ExternFnDecl")>>)
    /\ Brings(<<{"fn"}>>, <<Call("FunctionType")>>)
    /\ Brings(<<{"{"}>>, <<Call("VarBlockStmt")>>)
    /\ Brings(<<{"return"}>>, <<Call("ReturnStmt")>>)
    /\ Brings(<<{"if"}>>, <<Call("IfStmt")>>)
    /\ Brings(<<{"if"}>>, <<Call("IfExpr")>>)
    /\ Brings(<<{"const"}>>, <<Call("ConstDecl")>>)
    /\ Brings(<<{"type"}>>, <<Call("TypeAliasDecl")>>)
    /\ Brings(<<{"struct"}>>, <<Call("StructDecl")>>)
    /\ Brings(<<{"service"}>>, <<Call("ServiceDecl")>>)
    /\ Brings(<<{"ruleset"}>>, <<Call("RulesetDecl")>>)
    /\ Brings(<<{"template"}>>, <<Call("TemplateDecl")>>)
    /\ Brings(<<{"fn"}>>, <<Call("FnSignature")>>)
    /\ Brings(<<{"rule"}>>, <<Call("RuleDecl")>>)
    /\ Brings(<<{"enum"}>>, <<Call("EnumDecl")>>)
    /\ Brings(<<{"{"}>>, <<Call("ImportBlock")>>)
    /\ Brings(<<{"for"}>>, <<Call("ForStmt")>>)
    /\ Brings(<<{"with"}>>, <<Call("WithStmt")>>)
    /\ Brings(<<{"match"}>>, <<Call("MatchExpr")>>)
    /\ Brings(<<{"select"}>>, <<Call("SelectStmt")>>)
    /\ Brings(<<{"switch"}>>, <<Call("SwitchStmt")>>)
    /\ Brings(<<{"sizeof"}>>, <<Call("SizeofExpr")>>)
    /\ Brings(<<{"<"}>>, <<Call("GenericArgs")>>)
    /\ Brings(<<{"("}>>, <<Call("CallExpression")>>)
    /\ Brings(<<{"["}>>, <<Call("ArrayLiteral")>>)
    /\ Brings(<<{"{"}>>, <<Call("MapLiteral")>>)
    /\ Brings(<<{"set"}>>, <<Call("SetLiteral")>>)
    /\ Brings(<<{"fn"}>>, <<Call("FnLiteral")>>)
    /\ Brings(<<{"["}>>, <<Call("IndexExpression")>>)
    /\ Brings(<<{"."}>>, <<Call("FieldAccessExpression")>>)
    /\ Brings(<<{"{"}>>, <<Call("StructInit")>>)
    /\ Brings(<<{"("}>>, <<Call("GroupedExpression")>>)
    /\ Brings(<<{"from"}>>, <<Call("QueryExpr")>>)
  <1>1. Brings(<<{"<"}>>, <<Call("TypeParamList")>>)
    <2>1. "TypeParamList" \in DOMAIN Body /\ Start["TypeParamList"] = <<{"<"}>>
      BY DEF Body, Start
    <2>2. QED
      BY <2>1, BringsCall
  <1>2. Brings(<<{"fn"}>>, <<Call("FnDecl")>>)
    <2>1. "FnDecl" \in DOMAIN Body /\ Start["FnDecl"] = <<{"fn"}>>
      BY DEF Body, Start
    <2>2. QED
      BY <2>1, BringsCall
  <1>3. Brings(<<{"fn"}>>, <<Call("ExternFnDecl")>>)
    <2>1. "ExternFnDecl" \in DOMAIN Body /\ Start["ExternFnDecl"] = <<{"fn"}>>
      BY DEF Body, Start
    <2>2. QED
      BY <2>1, BringsCall
  <1>4. Brings(<<{"fn"}>>, <<Call("FunctionType")>>)
    <2>1. "FunctionType" \in DOMAIN Body /\ Start["FunctionType"] = <<{"fn"}>>
      BY DEF Body, Start
    <2>2. QED
      BY <2>1, BringsCall
  <1>5. Brings(<<{"{"}>>, <<Call("VarBlockStmt")>>)
    <2>1. "VarBlockStmt" \in DOMAIN Body /\ Start["VarBlockStmt"] = <<{"{"}>>
      BY DEF Body, Start
    <2>2. QED
      BY <2>1, BringsCall
  <1>6. Brings(<<{"return"}>>, <<Call("ReturnStmt")>>)
    <2>1. "ReturnStmt" \in DOMAIN Body /\ Start["ReturnStmt"] = <<{"return"}>>
      BY DEF Body, Start
    <2>2. QED
      BY <2>1, BringsCall
  <1>7. Brings(<<{"if"}>>, <<Call("IfStmt")>>)
    <2>1. "IfStmt" \in DOMAIN Body /\ Start["IfStmt"] = <<{"if"}>>
      BY DEF Body, Start
    <2>2. QED
      BY <2>1, BringsCall
  <1>8. Brings(<<{"if"}>>, <<Call("IfExpr")>>)
    <2>1. "IfExpr" \in DOMAIN Body /\ Start["IfExpr"] = <<{"if"}>>
      BY DEF Body, Start
    <2>2. QED
      BY <2>1, BringsCall
  <1>9. Brings(<<{"const"}>>, <<Call("ConstDecl")>>)
    <2>1. "ConstDecl" \in DOMAIN Body /\ Start["ConstDecl"] = <<{"const"}>>
      BY DEF Body, Start
    <2>2. QED
      BY <2>1, BringsCall
  <1>10. Brings(<<{"type"}>>, <<Call("TypeAliasDecl")>>)
    <2>1. "TypeAliasDecl" \in DOMAIN Body /\ Start["TypeAliasDecl"] = <<{"type"}>>
      BY DEF Body, Start
    <2>2. QED
      BY <2>1, BringsCall
  <1>11. Brings(<<{"struct"}>>, <<Call("StructDecl")>>)
    <2>1. "StructDecl" \in DOMAIN Body /\ Start["StructDecl"] = <<{"struct"}>>
      BY DEF Body, Start
    <2>2. QED
      BY <2>1, BringsCall
  <1>12. Brings(<<{"service"}>>, <<Call("ServiceDecl")>>)
    <2>1. "ServiceDecl" \in DOMAIN Body /\ Start["ServiceDecl"] = <<{"service"}>>
      BY DEF Body, Start
    <2>2. QED
      BY <2>1, BringsCall
  <1>13. Brings(<<{"ruleset"}>>, <<Call("RulesetDecl")>>)
    <2>1. "RulesetDecl" \in DOMAIN Body /\ Start["RulesetDecl"] = <<{"ruleset"}>>
      BY DEF Body, Start
    <2>2. QED
      BY <2>1, BringsCall
  <1>14. Brings(<<{"template"}>>, <<Call("TemplateDecl")>>)
    <2>1. "TemplateDecl" \in DOMAIN Body /\ Start["TemplateDecl"] = <<{"template"}>>
      BY DEF Body, Start
    <2>2. QED
      BY <2>1, BringsCall
  <1>15. Brings(<<{"fn"}>>, <<Call("FnSignature")>>)
    <2>1. "FnSignature" \in DOMAIN Body /\ Start["FnSignature"] = <<{"fn"}>>
      BY DEF Body, Start
    <2>2. QED
      BY <2>1, BringsCall
  <1>16. Brings(<<{"rule"}>>, <<Call("RuleDecl")>>)
    <2>1. "RuleDecl" \in DOMAIN Body /\ Start["RuleDecl"] = <<{"rule"}>>
      BY DEF Body, Start
    <2>2. QED
      BY <2>1, BringsCall
  <1>17. Brings(<<{"enum"}>>, <<Call("EnumDecl")>>)
    <2>1. "EnumDecl" \in DOMAIN Body /\ Start["EnumDecl"] = <<{"enum"}>>
      BY DEF Body, Start
    <2>2. QED
      BY <2>1, BringsCall
  <1>18. Brings(<<{"{"}>>, <<Call("ImportBlock")>>)
    <2>1. "ImportBlock" \in DOMAIN Body /\ Start["ImportBlock"] = <<{"{"}>>
      BY DEF Body, Start
    <2>2. QED
      BY <2>1, BringsCall
  <1>19. Brings(<<{"for"}>>, <<Call("ForStmt")>>)
    <2>1. "ForStmt" \in DOMAIN Body /\ Start["ForStmt"] = <<{"for"}>>
      BY DEF Body, Start
    <2>2. QED
      BY <2>1, BringsCall
  <1>20. Brings(<<{"with"}>>, <<Call("WithStmt")>>)
    <2>1. "WithStmt" \in DOMAIN Body /\ Start["WithStmt"] = <<{"with"}>>
      BY DEF Body, Start
    <2>2. QED
      BY <2>1, BringsCall
  <1>21. Brings(<<{"match"}>>, <<Call("MatchExpr")>>)
    <2>1. "MatchExpr" \in DOMAIN Body /\ Start["MatchExpr"] = <<{"match"}>>
      BY DEF Body, Start
    <2>2. QED
      BY <2>1, BringsCall
  <1>22. Brings(<<{"select"}>>, <<Call("SelectStmt")>>)
    <2>1. "SelectStmt" \in DOMAIN Body /\ Start["SelectStmt"] = <<{"select"}>>
      BY DEF Body, Start
    <2>2. QED
      BY <2>1, BringsCall
  <1>23. Brings(<<{"switch"}>>, <<Call("SwitchStmt")>>)
    <2>1. "SwitchStmt" \in DOMAIN Body /\ Start["SwitchStmt"] = <<{"switch"}>>
      BY DEF Body, Start
    <2>2. QED
      BY <2>1, BringsCall
  <1>24. Brings(<<{"sizeof"}>>, <<Call("SizeofExpr")>>)
    <2>1. "SizeofExpr" \in DOMAIN Body /\ Start["SizeofExpr"] = <<{"sizeof"}>>
      BY DEF Body, Start
    <2>2. QED
      BY <2>1, BringsCall
  <1>25. Brings(<<{"<"}>>, <<Call("GenericArgs")>>)
    <2>1. "GenericArgs" \in DOMAIN Body /\ Start["GenericArgs"] = <<{"<"}>>
      BY DEF Body, Start
    <2>2. QED
      BY <2>1, BringsCall
  <1>26. Brings(<<{"("}>>, <<Call("CallExpression")>>)
    <2>1. "CallExpression" \in DOMAIN Body /\ Start["CallExpression"] = <<{"("}>>
      BY DEF Body, Start
    <2>2. QED
      BY <2>1, BringsCall
  <1>27. Brings(<<{"["}>>, <<Call("ArrayLiteral")>>)
    <2>1. "ArrayLiteral" \in DOMAIN Body /\ Start["ArrayLiteral"] = <<{"["}>>
      BY DEF Body, Start
    <2>2. QED
      BY <2>1, BringsCall
  <1>28. Brings(<<{"{"}>>, <<Call("MapLiteral")>>)
    <2>1. "MapLiteral" \in DOMAIN Body /\ Start["MapLiteral"] = <<{"{"}>>
      BY DEF Body, Start
    <2>2. QED
      BY <2>1, BringsCall
  <1>29. Brings(<<{"set"}>>, <<Call("SetLiteral")>>)
    <2>1. "SetLiteral" \in DOMAIN Body /\ Start["SetLiteral"] = <<{"set"}>>
      BY DEF Body, Start
    <2>2. QED
      BY <2>1, BringsCall
  <1>30. Brings(<<{"fn"}>>, <<Call("FnLiteral")>>)
    <2>1. "FnLiteral" \in DOMAIN Body /\ Start["FnLiteral"] = <<{"fn"}>>
      BY DEF Body, Start
    <2>2. QED
      BY <2>1, BringsCall
  <1>31. Brings(<<{"["}>>, <<Call("IndexExpression")>>)
    <2>1. "IndexExpression" \in DOMAIN Body /\ Start["IndexExpression"] = <<{"["}>>
      BY DEF Body, Start
    <2>2. QED
      BY <2>1, BringsCall
  <1>32. Brings(<<{"."}>>, <<Call("FieldAccessExpression")>>)
    <2>1. "FieldAccessExpression" \in DOMAIN Body /\ Start["FieldAccessExpression"] = <<{"."}>>
      BY DEF Body, Start
    <2>2. QED
      BY <2>1, BringsCall
  <1>33. Brings(<<{"{"}>>, <<Call("StructInit")>>)
    <2>1. "StructInit" \in DOMAIN Body /\ Start["StructInit"] = <<{"{"}>>
      BY DEF Body, Start
    <2>2. QED
      BY <2>1, BringsCall
  <1>34. Brings(<<{"("}>>, <<Call("GroupedExpression")>>)
    <2>1. "GroupedExpression" \in DOMAIN Body /\ Start["GroupedExpression"] = <<{"("}>>
      BY DEF Body, Start
    <2>2. QED
      BY <2>1, BringsCall
  <1>35. Brings(<<{"from"}>>, <<Call("QueryExpr")>>)
    <2>1. "QueryExpr" \in DOMAIN Body /\ Start["QueryExpr"] = <<{"from"}>>
      BY DEF Body, Start
    <2>2. QED
      BY <2>1, BringsCall
  <1>50. QED
    BY <1>1, <1>2, <1>3, <1>4, <1>5, <1>6, <1>7, <1>8, <1>9, <1>10, <1>11, <1>12, <1>13, 
       <1>14, <1>15, <1>16, <1>17, <1>18, <1>19, <1>20, <1>21, <1>22, <1>23, <1>24, 
       <1>25, <1>26, <1>27, <1>28, <1>29, <1>30, <1>31, <1>32, <1>33, <1>34, <1>35

(* Words are tokens that are no brackets, and do not end the text.            *)

LEMMA Words ==
    /\ \A t : t \notin {"(", "[", "{", ")", "]", "}", "eof"} => Plain({t})
    /\ Plain(Ident) /\ Plain(Upper) /\ Plain(IntToken) /\ Plain(FloatToken) /\ Plain(Generics)
    /\ Plain(Primitive) /\ Plain(AssignOp) /\ Plain(TypeAhead)
    /\ \A T, U : Plain(T) /\ Plain(U) => Plain(T \cup U)
  <1>1. Openers \cup Closers \cup {"eof"} = {"(", "[", "{", ")", "]", "}", "eof"}
    BY Brackets
  <1>2. \A t : t \notin {"(", "[", "{", ")", "]", "}", "eof"} => Plain({t})
    BY <1>1 DEF Plain
  <1>3. Plain(Ident) /\ Plain(Upper) /\ Plain(IntToken) /\ Plain(FloatToken) /\ Plain(Generics)
    BY <1>1 DEF Plain, Ident, Upper, IntToken, FloatToken, Generics
  <1>4. Plain(Primitive) /\ Plain(AssignOp) /\ Plain(TypeAhead)
    BY <1>1 DEF Plain, Primitive, AssignOp, TypeAhead, Generics, Upper
  <1>5. \A T, U : Plain(T) /\ Plain(U) => Plain(T \cup U)
    BY DEF Plain
  <1>6. QED
    BY <1>2, <1>3, <1>4, <1>5

LEMMA SafeNil == Safe(<<>>)
  BY RunNil, IsSeqs, Nest0 DEF Safe, Brings

LEMMA SafeBlock == Safe(<<Block>>)
  BY SafeCalls DEF Block

LEMMA Parens ==
    ASSUME NEW k, IsSeq(k)
    PROVE  /\ Opens("(", k, Need({"("})) /\ Opens("(", k, NeedSkip({"("}))
           /\ Opens("(", k, Blind({"("})) /\ Opens("(", <<{"("}>>, Eat)
           /\ Shuts("(", <<>>, <<Need({")"})>>) /\ Shuts("(", <<>>, <<Expect({")"})>>)
           /\ Shuts("(", <<>>, <<Opt({")"})>>) /\ Shuts("(", <<{")"}>>, <<Eat>>)
           /\ \A x, y, z : Opens("(", k, x) /\ Safe(<<y>>) /\ Shuts("(", <<>>, <<z>>)
                              => Brings(k, <<x, y, z>>)
  <1>1. "(" \in Openers /\ Closing["("] = ")"
    BY Brackets
  <1>2. ASSUME NEW x, NEW y, NEW z, Opens("(", k, x), Safe(<<y>>), Shuts("(", <<>>, <<z>>)
        PROVE  Brings(k, <<x, y, z>>)
    <2>1. <<x, y, z>> = <<x>> \o <<y, z>>
      OBVIOUS
    <2>2. <<y, z>> = <<y>> \o <<z>>
      BY Two
    <2>3. QED
      BY <1>1, <1>2, <2>1, <2>2, Enclosed
  <1>3. Opens("(", k, Need({"("})) /\ Opens("(", k, NeedSkip({"("}))
        /\ Opens("(", k, Blind({"("})) /\ Opens("(", <<{"("}>>, Eat)
    BY <1>1, OpensTake
  <1>4. /\ Shuts("(", <<>>, <<Need({")"})>>) /\ Shuts("(", <<>>, <<Expect({")"})>>)
        /\ Shuts("(", <<>>, <<Opt({")"})>>) /\ Shuts("(", <<{")"}>>, <<Eat>>)
    BY <1>1, ShutsTake
  <1>5. QED
    BY <1>2, <1>3, <1>4

LEMMA Squares ==
    ASSUME NEW k, IsSeq(k)
    PROVE  /\ Opens("[", k, Need({"["})) /\ Opens("[", k, NeedSkip({"["}))
           /\ Opens("[", k, Blind({"["})) /\ Opens("[", <<{"["}>>, Eat)
           /\ Shuts("[", <<>>, <<Need({"]"})>>) /\ Shuts("[", <<>>, <<Expect({"]"})>>)
           /\ Shuts("[", <<>>, <<Opt({"]"})>>) /\ Shuts("[", <<{"]"}>>, <<Eat>>)
           /\ \A x, y, z : Opens("[", k, x) /\ Safe(<<y>>) /\ Shuts("[", <<>>, <<z>>)
                              => Brings(k, <<x, y, z>>)
  <1>1. "[" \in Openers /\ Closing["["] = "]"
    BY Brackets
  <1>2. ASSUME NEW x, NEW y, NEW z, Opens("[", k, x), Safe(<<y>>), Shuts("[", <<>>, <<z>>)
        PROVE  Brings(k, <<x, y, z>>)
    <2>1. <<x, y, z>> = <<x>> \o <<y, z>>
      OBVIOUS
    <2>2. <<y, z>> = <<y>> \o <<z>>
      BY Two
    <2>3. QED
      BY <1>1, <1>2, <2>1, <2>2, Enclosed
  <1>3. Opens("[", k, Need({"["})) /\ Opens("[", k, NeedSkip({"["}))
        /\ Opens("[", k, Blind({"["})) /\ Opens("[", <<{"["}>>, Eat)
    BY <1>1, OpensTake
  <1>4. /\ Shuts("[", <<>>, <<Need({"]"})>>) /\ Shuts("[", <<>>, <<Expect({"]"})>>)
        /\ Shuts("[", <<>>, <<Opt({"]"})>>) /\ Shuts("[", <<{"]"}>>, <<Eat>>)
    BY <1>1, ShutsTake
  <1>5. QED
    BY <1>2, <1>3, <1>4

LEMMA Braces ==
    ASSUME NEW k, IsSeq(k)
    PROVE  /\ Opens("{", k, Need({"{"})) /\ Opens("{", k, NeedSkip({"{"}))
           /\ Opens("{", k, Blind({"{"})) /\ Opens("{", <<{"{"}>>, Eat)
           /\ Shuts("{", <<>>, <<Need({"}"})>>) /\ Shuts("{", <<>>, <<Expect({"}"})>>)
           /\ Shuts("{", <<>>, <<Opt({"}"})>>) /\ Shuts("{", <<{"}"}>>, <<Eat>>)
           /\ \A x, y, z : Opens("{", k, x) /\ Safe(<<y>>) /\ Shuts("{", <<>>, <<z>>)
                              => Brings(k, <<x, y, z>>)
  <1>1. "{" \in Openers /\ Closing["{"] = "}"
    BY Brackets
  <1>2. ASSUME NEW x, NEW y, NEW z, Opens("{", k, x), Safe(<<y>>), Shuts("{", <<>>, <<z>>)
        PROVE  Brings(k, <<x, y, z>>)
    <2>1. <<x, y, z>> = <<x>> \o <<y, z>>
      OBVIOUS
    <2>2. <<y, z>> = <<y>> \o <<z>>
      BY Two
    <2>3. QED
      BY <1>1, <1>2, <2>1, <2>2, Enclosed
  <1>3. Opens("{", k, Need({"{"})) /\ Opens("{", k, NeedSkip({"{"}))
        /\ Opens("{", k, Blind({"{"})) /\ Opens("{", <<{"{"}>>, Eat)
    BY <1>1, OpensTake
  <1>4. /\ Shuts("{", <<>>, <<Need({"}"})>>) /\ Shuts("{", <<>>, <<Expect({"}"})>>)
        /\ Shuts("{", <<>>, <<Opt({"}"})>>) /\ Shuts("{", <<{"}"}>>, <<Eat>>)
    BY <1>1, ShutsTake
  <1>5. QED
    BY <1>2, <1>3, <1>4

(* Rules for code of each length: a token that is known, and the rest.         *)
LEMMA EatNext2 ==
    ASSUME NEW T, Plain(T), NEW U, NEW x2,
           Brings(<<U>>, <<x2>>)
    PROVE  Brings(<<T, U>>, <<Eat, x2>>)
  <1>1. <<Eat, x2>> = <<Eat>> \o <<x2>>
    BY Two
  <1>2. QED
    BY <1>1, EatNext

LEMMA EatNext3 ==
    ASSUME NEW T, Plain(T), NEW U, NEW x2, NEW x3,
           Brings(<<U>>, <<x2, x3>>)
    PROVE  Brings(<<T, U>>, <<Eat, x2, x3>>)
  <1>1. <<Eat, x2, x3>> = <<Eat>> \o <<x2, x3>>
    BY Two
  <1>2. QED
    BY <1>1, EatNext

LEMMA EatNext4 ==
    ASSUME NEW T, Plain(T), NEW U, NEW x2, NEW x3, NEW x4,
           Brings(<<U>>, <<x2, x3, x4>>)
    PROVE  Brings(<<T, U>>, <<Eat, x2, x3, x4>>)
  <1>1. <<Eat, x2, x3, x4>> = <<Eat>> \o <<x2, x3, x4>>
    BY Two
  <1>2. QED
    BY <1>1, EatNext

LEMMA EatNext5 ==
    ASSUME NEW T, Plain(T), NEW U, NEW x2, NEW x3, NEW x4, NEW x5,
           Brings(<<U>>, <<x2, x3, x4, x5>>)
    PROVE  Brings(<<T, U>>, <<Eat, x2, x3, x4, x5>>)
  <1>1. <<Eat, x2, x3, x4, x5>> = <<Eat>> \o <<x2, x3, x4, x5>>
    BY Two
  <1>2. QED
    BY <1>1, EatNext

LEMMA EatNext6 ==
    ASSUME NEW T, Plain(T), NEW U, NEW x2, NEW x3, NEW x4, NEW x5, NEW x6,
           Brings(<<U>>, <<x2, x3, x4, x5, x6>>)
    PROVE  Brings(<<T, U>>, <<Eat, x2, x3, x4, x5, x6>>)
  <1>1. <<Eat, x2, x3, x4, x5, x6>> = <<Eat>> \o <<x2, x3, x4, x5, x6>>
    BY Two
  <1>2. QED
    BY <1>1, EatNext

LEMMA AtThen ==
    ASSUME NEW k, IsSeq(k), NEW T, NEW c, Brings(<<T>>, c)
    PROVE  Brings(k, <<At(T)>> \o c) /\ Brings(k, <<AtSkip(T)>> \o c)
  <1>1. ASSUME NEW x, x[1] \in {"at", "atskip"}, x[2] = T
        PROVE  Brings(k, <<x>> \o c)
    <2>1. Neutral({}, x, k, <<T>>)
      BY <1>1 DEF Neutral
    <2>2. Run(<<x>>, k, <<>>, <<T>>, <<>>)
      BY <2>1, NeutralRuns, Closed0, IsSeqs, Nest0
    <2>3. QED
      BY <2>2, RunJoin DEF Brings
  <1>2. QED
    BY <1>1 DEF At, AtSkip

LEMMA AtThen2 ==
    ASSUME NEW k, IsSeq(k), NEW T, NEW x2,
           Brings(<<T>>, <<x2>>)
    PROVE  Brings(k, <<At(T), x2>>) /\ Brings(k, <<AtSkip(T), x2>>)
  <1>1. /\ <<At(T), x2>> = <<At(T)>> \o <<x2>>
        /\ <<AtSkip(T), x2>> = <<AtSkip(T)>> \o <<x2>>
    BY Two
  <1>2. QED
    BY <1>1, AtThen

LEMMA AtThen3 ==
    ASSUME NEW k, IsSeq(k), NEW T, NEW x2, NEW x3,
           Brings(<<T>>, <<x2, x3>>)
    PROVE  Brings(k, <<At(T), x2, x3>>) /\ Brings(k, <<AtSkip(T), x2, x3>>)
  <1>1. /\ <<At(T), x2, x3>> = <<At(T)>> \o <<x2, x3>>
        /\ <<AtSkip(T), x2, x3>> = <<AtSkip(T)>> \o <<x2, x3>>
    BY Two
  <1>2. QED
    BY <1>1, AtThen

LEMMA AtThen4 ==
    ASSUME NEW k, IsSeq(k), NEW T, NEW x2, NEW x3, NEW x4,
           Brings(<<T>>, <<x2, x3, x4>>)
    PROVE  Brings(k, <<At(T), x2, x3, x4>>) /\ Brings(k, <<AtSkip(T), x2, x3, x4>>)
  <1>1. /\ <<At(T), x2, x3, x4>> = <<At(T)>> \o <<x2, x3, x4>>
        /\ <<AtSkip(T), x2, x3, x4>> = <<AtSkip(T)>> \o <<x2, x3, x4>>
    BY Two
  <1>2. QED
    BY <1>1, AtThen

LEMMA AtThen5 ==
    ASSUME NEW k, IsSeq(k), NEW T, NEW x2, NEW x3, NEW x4, NEW x5,
           Brings(<<T>>, <<x2, x3, x4, x5>>)
    PROVE  Brings(k, <<At(T), x2, x3, x4, x5>>) /\ Brings(k, <<AtSkip(T), x2, x3, x4, x5>>)
  <1>1. /\ <<At(T), x2, x3, x4, x5>> = <<At(T)>> \o <<x2, x3, x4, x5>>
        /\ <<AtSkip(T), x2, x3, x4, x5>> = <<AtSkip(T)>> \o <<x2, x3, x4, x5>>
    BY Two
  <1>2. QED
    BY <1>1, AtThen

LEMMA NodeThen ==
    ASSUME NEW k, IsSeq(k), NEW n, NEW j \in Kinds \cup {""}, NEW o \in Nests, NEW l, NEW p, NEW c,
           Run(c, k, o, l, p)
    PROVE  Run(<<Node(n, j)>> \o c, k, o, l, p)
  <1>1. Node(n, j)[1] = "node" /\ Node(n, j)[3] = j
    BY DEF Node
  <1>2. Neutral({}, Node(n, j), k, k)
    BY <1>1 DEF Neutral
  <1>3. Run(<<Node(n, j)>>, k, o, k, o)
    BY <1>2, NeutralRuns, Closed0
  <1>4. QED
    BY <1>3, RunJoin

LEMMA Inside ==
    ASSUME NEW b \in Openers, NEW k, NEW x, Opens(b, k, x), NEW c, Safe(c), NEW d, Shuts(b, <<>>, d)
    PROVE  Brings(k, <<x>> \o c \o d)
  BY RunJoin, SafeWithin DEF Brings, Opens, Shuts

LEMMA SafeWhen ==
    ASSUME NEW k, IsSeq(k), NEW T, NEW c, Safe(c)
    PROVE  Brings(k, <<If(T, c)>>)
  BY SafeEither, SafeNil DEF If, IfElse


LEMMA OpensShuts ==
    ASSUME NEW b \in Openers, NEW k, NEW x, Opens(b, k, x), NEW z, Shuts(b, <<>>, <<z>>)
    PROVE  Brings(k, <<x, z>>)
  <1>1. <<x, z>> = <<x>> \o <<z>>
    BY Two
  <1>2. QED
    BY <1>1, RunJoin DEF Brings, Opens, Shuts


LEMMA KnownIfElse ==
    ASSUME NEW T, NEW U, NEW c, NEW d, Brings(<<T>>, c), Brings(<<U \ T>>, d)
    PROVE  Brings(<<U>>, <<IfElse(T, c, d)>>)
  <1> DEFINE alts == <<When(<<T>>, c), Else(d)>>
  <1>1. IsSeq(alts) /\ alts # <<>> /\ Len(alts) = 2 /\ alts[2][1] = Otherwise
    BY IsSeqs DEF Else, When
  <1>2. /\ alts[1][1] = <<T>> /\ alts[1][2] = c /\ alts[2][1] = Otherwise /\ alts[2][2] = d
        /\ Len(alts[1][1]) = 1 /\ alts[1][1][1] = T
    BY DEF Else, When
  <1>3. <<U>> # <<>> /\ <<U>>[1] = U
    OBVIOUS
  <1> HIDE DEF alts
  <1>4. AltKnows(<<U>>, alts, 1, <<T>>)
    BY <1>2 DEF AltKnows, Knows
  <1>5. AltKnows(<<U>>, alts, 2, <<U \ T>>)
    BY <1>2, <1>3 DEF AltKnows
  <1>6. IsSeq(<<T>>) /\ IsSeq(Otherwise) /\ IsSeq(<<U>>) /\ IsSeq(<<>>)
    BY IsSeqs DEF Otherwise
  <1>7. ASSUME NEW i \in 1..Len(alts)
        PROVE  IsSeq(alts[i][1]) /\ \E m : AltKnows(<<U>>, alts, i, m) /\ Run(alts[i][2], m, <<>>, <<>>, <<>>)
    <2>1. CASE i = 1
      BY <1>2, <1>4, <1>6, <2>1 DEF Brings
    <2>2. CASE i = 2
      BY <1>2, <1>5, <1>6, <2>2 DEF Brings
    <2>3. QED
      BY <1>1, <2>1, <2>2
  <1>8. Run(<<Pick(alts)>>, <<U>>, <<>>, <<>>, <<>>)
    BY <1>1, <1>6, <1>7, PickRuns, Nest0
  <1>9. QED
    BY <1>8 DEF Brings, IfElse, alts

LEMMA Enclosed32 ==
    ASSUME NEW b \in Openers, NEW k, NEW x, Opens(b, k, x), NEW y1, NEW y2, NEW y3, NEW z1, NEW z2,
           Safe(<<y1, y2, y3>>), Shuts(b, <<>>, <<z1, z2>>)
    PROVE  Brings(k, <<x, y1, y2, y3, z1, z2>>)
  <1>1. <<x, y1, y2, y3, z1, z2>> = <<x>> \o (<<y1, y2, y3>> \o <<z1, z2>>)
    OBVIOUS
  <1>2. QED
    BY <1>1, Enclosed

LEMMA ShutsNext2 ==
    ASSUME NEW b \in Openers, NEW k, NEW x, NEW y, Shuts(b, k, <<x>>), Safe(<<y>>)
    PROVE  Shuts(b, k, <<x, y>>)
  BY ShutsThen, Two


-----------------------------------------------------------------------------
(* The parse functions, in the order of the grammar.  Each one leaves the nest *)
(* as it finds it; those that take their first token without looking at it    *)
(* rely on their callers to have looked at it, as Start says.                 *)

LEMMA RunAttributes == Brings(<<{"["}>>, Attributes)
  <1>1. Brings(<<Ident, {"("}>>, <<Eat, Eat, Until({")"}, <<Blind(Ident)>>), Opt({")"})>>)
    <2>1. Brings(<<{"("}>>, <<Eat, Until({")"}, <<Blind(Ident)>>), Opt({")"})>>)
      BY SafeTake, SafeUntil, Words, Parens, IsSeqs DEF Safe
    <2>2. QED
      BY <2>1, EatNext4, Words
  <1>2. Safe(<<Blind(Ident \cup {","})>>)
    BY SafeTake, Words
  <1>3. Safe(<<Pick(<<When(<<Ident, {"("}>>, <<Eat, Eat, Until({")"}, <<Blind(Ident)>>), Opt({")"})>>),
                      Else(<<Blind(Ident \cup {","})>>)>>)>>)
    BY <1>1, <1>2, Pick2, AltTest, AltLast, IsSeqs, Nest0 DEF Safe, Brings
  <1>4. QED
    BY <1>3, SafeUntil, Squares, IsSeqs DEF Attributes, Safe

LEMMA RunDeclaration == Safe(Declaration)
  <1>1. Safe(Unexpected)
    BY RunErr, IsSeqs, Nest0 DEF Unexpected, Safe, Brings, Typed
  <1>2. Brings(<<{"extern"}>>, <<Eat, AtSkip({"fn"}), Call("ExternFnDecl")>>)
    BY AtThen2, EatOnly, BringsCalls, Cons3, Words, IsSeqs DEF Safe
  <1>3. /\ Brings(<<{"var"}>>, <<Eat, Call("TopLevelVarDecl")>>)
        /\ Brings(<<{"module"}>>, <<Eat, Call("ModuleDecl")>>)
        /\ Brings(<<{"import"}>>, <<Eat, Call("ImportDecl")>>)
        /\ Brings(<<{"doc"}>>, <<Eat>>)
    BY EatOnly, SafeCalls, Cons2, Words
  <1> DEFINE A(t, c) == Alt(<<>>, When(t, c), <<>>, <<>>)
  <1>4. /\ A(<<{"fn"}>>, <<Call("FnDecl")>>) /\ A(<<{"const"}>>, <<Call("ConstDecl")>>)
        /\ A(<<{"type"}>>, <<Call("TypeAliasDecl")>>) /\ A(<<{"struct"}>>, <<Call("StructDecl")>>)
        /\ A(<<{"enum"}>>, <<Call("EnumDecl")>>) /\ A(<<{"service"}>>, <<Call("ServiceDecl")>>)
        /\ A(<<{"ruleset"}>>, <<Call("RulesetDecl")>>) /\ A(<<{"template"}>>, <<Call("TemplateDecl")>>)
    BY BringsCalls, AltTest, IsSeqs DEF Brings
  <1>5. /\ A(<<{"extern"}>>, <<Eat, AtSkip({"fn"}), Call("ExternFnDecl")>>)
        /\ A(<<{"var"}>>, <<Eat, Call("TopLevelVarDecl")>>)
        /\ A(<<{"module"}>>, <<Eat, Call("ModuleDecl")>>)
        /\ A(<<{"import"}>>, <<Eat, Call("ImportDecl")>>)
        /\ A(<<{"doc"}>>, <<Eat>>) /\ Alt(<<>>, Else(Unexpected), <<>>, <<>>)
    BY <1>1, <1>2, <1>3, AltTest, AltLast, IsSeqs DEF Safe, Brings
  <1>6. Safe(<<Declaration[3]>>)
    BY <1>4, <1>5, Pick14, IsSeqs, Nest0 DEF Declaration, Safe, Brings
  <1>7. QED
    BY <1>6, SafeIf, RunAttributes, EatOnly, Words, Cons2, Cons3, IsSeqs DEF Declaration, Safe

LEMMA RunTypeParamList == Brings(<<{"<"}>>, TypeParamList)
  <1>1. Safe(<<Need(Ident), If({":"}, <<Eat, Call("Type")>>)>>)
    BY SafeTake, SafeIf, EatOnly, Words, SafeCalls, Cons2, IsSeqs DEF Safe
  <1>2. QED
    BY <1>1, SafeSepBy, Join, EatOnly, SafeTake, Words DEF TypeParamList, Safe

LEMMA SafeParams == Safe(Params)
  BY Parens, SafeCalls, IsSeqs DEF Params, Safe

LEMMA SafeResults == Safe(<<Results(Expect({")"}))>>) /\ Safe(<<Results(Opt({")"}))>>)
  <1>1. ASSUME NEW c, Shuts("(", <<>>, <<c>>)
        PROVE  Safe(<<Results(c)>>)
    <2>1. Brings(<<{"("}>>, <<Eat>> \o SepBy(<<Call("Type")>>) \o <<c>>)
      BY <1>1, Inside, Parens, SafeCalls, SafeSepBy, Brackets, IsSeqs
    <2>2. QED
      BY <2>1, SafeCalls, SafeIfElse, SafeIf, EatOnly, Words, Cons2, IsSeqs DEF Results, Safe
  <1>2. QED
    BY <1>1, Parens, IsSeqs

LEMMA RunFnDecl == Brings(<<{"fn"}>>, FnDecl)
  <1>1. Safe(<<Results(Expect({")"})), If({"{"}, <<Call("BlockStmt")>>)>>)
    <2>1. Safe(<<If({"{"}, <<Call("BlockStmt")>>)>>)
      BY SafeWhen, SafeCalls, IsSeqs DEF Safe
    <2>2. QED
      BY <2>1, SafeResults, Cons2 DEF Safe
  <1>2. Brings(<<{"fn"}>>, <<Eat, Need(Ident), While({"."}, <<Eat, Need(Ident)>>), If({"<"}, <<Call("TypeParamList")>>)>>)
    BY SafeTake, SafeWhile, EatOnly, Words, SafeIf, BringsCalls, Cons2, Cons3, Cons4, IsSeqs DEF Safe
  <1>3. QED
    BY <1>1, <1>2, SafeParams, Join DEF FnDecl

LEMMA RunExternFnDecl == Brings(<<{"fn"}>>, ExternFnDecl)
  <1>1. Brings(<<{"fn"}>>, <<Eat, Need(Ident)>>)
    BY SafeTake, EatOnly, Words, Cons2
  <1>2. Safe(<<If({"->"}, <<Eat, Call("Type")>>)>>)
    BY SafeIf, SafeCalls, EatOnly, Words, Cons2, IsSeqs DEF Safe
  <1>3. QED
    BY <1>1, <1>2, SafeParams, Join DEF ExternFnDecl

LEMMA RunParamList == Safe(ParamList)
  <1>1. Safe(<<Need(Ident), Need({":"}), If({"..."}, <<Eat>>), Call("Type")>>)
    BY SafeTake, SafeIf, SafeCalls, EatOnly, Words, Cons2, Cons3, Cons4, IsSeqs DEF Safe
  <1>2. Safe(<<At({")"})>>)
    BY NeutralRuns, Closed0, IsSeqs, Nest0 DEF Safe, Brings, Neutral, At
  <1>3. Safe(SepBy(<<Need(Ident), Need({":"}), If({"..."}, <<Eat>>), Call("Type")>>) \o <<At({")"})>>)
    BY <1>1, <1>2, SafeSepBy, Join DEF Safe
  <1>4. QED
    BY <1>3, SafeEither, SafeNil, IsSeqs DEF ParamList, Safe

LEMMA RunType == Safe(Type)
  <1> DEFINE A(t, c) == Alt(<<>>, When(t, c), <<>>, <<>>)
             C       == Call("Type")
             Name    == <<Eat, While({"."}, <<Eat, Need(Ident)>>), If({"<"}, <<Eat>> \o SepBy(<<C>>) \o <<Need({">"})>>)>>
  <1>1. Safe(<<C>>)
    BY SafeCalls
  <1>2. Brings(<<Ident>>, Name)
    <2>1. Safe(<<While({"."}, <<Eat, Need(Ident)>>)>>)
      BY SafeWhile, SafeTake, EatOnly, Words, Cons2
    <2>2. Safe(<<If({"<"}, <<Eat>> \o SepBy(<<C>>) \o <<Need({">"})>>)>>)
      BY <1>1, SafeIf, SafeSepBy, SafeTake, EatOnly, Words, Join, IsSeqs DEF Safe
    <2>3. QED
      BY <2>1, <2>2, EatOnly, Words, Cons2, Cons3 DEF Safe
  <1>3. Brings(<<{"map"}, {"["}>>, <<Eat, Eat, C, Need({"]"}), C>>)
    <2>1. Brings(<<{"["}>>, <<Eat, C, Need({"]"})>>)
      BY <1>1, Squares, IsSeqs
    <2>2. Brings(<<{"["}>>, <<Eat, C, Need({"]"}), C>>)
      BY <1>1, <2>1, Pair4
    <2>3. QED
      BY <2>2, EatNext5, Words
  <1>4. Brings(<<Generics, {"<"}>>, <<Eat, Eat, C, Opt({">"})>>)
    <2>1. Brings(<<{"<"}>>, <<Eat, C, Opt({">"})>>)
      BY <1>1, EatOnly, SafeTake, Words, Cons2, Cons3 DEF Safe
    <2>2. QED
      BY <2>1, EatNext4, Words
  <1>5. Brings(<<IntToken \cup FloatToken \cup Generics \cup {"bool", "map", "error"}>>, <<Eat>>)
    <2>1. Plain({"bool", "map", "error"})
      BY Brackets DEF Plain
    <2>2. QED
      BY <2>1, EatOnly, Words
  <1>6. Brings(<<{"*"}>>, <<Eat, C>>)
    BY <1>1, EatOnly, Words, Cons2
  <1>7. Brings(<<{"["}>>, <<Eat, Need({"]"}), C>>)
    <2>1. Brings(<<{"["}>>, <<Eat, Need({"]"})>>)
      BY Squares, OpensShuts, Brackets, IsSeqs
    <2>2. <<Eat, Need({"]"}), C>> = <<Eat, Need({"]"})>> \o <<C>>
      OBVIOUS
    <2>3. QED
      BY <1>1, <2>1, <2>2, Join
  <1>8. Safe(<<Err, Eat>>)
    BY RunErr, IsSeqs, Nest0 DEF Safe, Brings, Typed
  <1>9. /\ A(<<Ident>>, Name)
        /\ A(<<{"map"}, {"["}>>, <<Eat, Eat, C, Need({"]"}), C>>)
        /\ A(<<Generics, {"<"}>>, <<Eat, Eat, C, Opt({">"})>>)
        /\ A(<<IntToken \cup FloatToken \cup Generics \cup {"bool", "map", "error"}>>, <<Eat>>)
    BY <1>2, <1>3, <1>4, <1>5, AltTest, IsSeqs DEF Brings
  <1>10. /\ A(<<{"*"}>>, <<Eat, C>>) /\ A(<<{"["}>>, <<Eat, Need({"]"}), C>>)
         /\ A(<<{"fn"}>>, <<Call("FunctionType")>>) /\ Alt(<<>>, Else(<<Err, Eat>>), <<>>, <<>>)
    BY <1>6, <1>7, <1>8, BringsCalls, AltTest, AltLast, IsSeqs DEF Safe, Brings
  <1>11. QED
    BY <1>9, <1>10, Pick8, IsSeqs, Nest0 DEF Type, Safe, Brings

LEMMA RunBlockStmt == Safe(BlockStmt)
  BY Braces, SafeCalls, SafeUntil, IsSeqs DEF BlockStmt, Safe

LEMMA RunVarStmt ==
    ASSUME NEW T, Plain(T), NEW U, Plain(U)
    PROVE  Brings(<<T, U>>, VarStmt)
  BY EatNext3, EatOnly, SafeExpr, Cons2 DEF VarStmt

LEMMA RunTupleStmt == Brings(<<Ident>>, TupleStmt)
  <1>1. Safe(<<While({","}, <<Eat, Need(Ident)>>)>>)
    BY SafeWhile, SafeTake, EatOnly, Words, Cons2
  <1>2. Safe(<<Need({":="} \cup AssignOp)>>)
    BY SafeTake, Words
  <1>3. QED
    BY <1>1, <1>2, SafeExpr, EatOnly, Words, Cons2, Cons3, Cons4 DEF TupleStmt, Safe

LEMMA RunMemberStmt == Safe(MemberStmt)
  <1>1. Brings(<<AssignOp>>, <<Eat, Expr(LOWEST)>>)
    BY EatOnly, Words, SafeExpr, Cons2
  <1>2. Safe(<<Infix(LOWEST)>>)
    BY SafeExpr
  <1>3. QED
    BY <1>1, <1>2, SafeIfElse, SafeCalls, Cons2, IsSeqs DEF MemberStmt, Safe

LEMMA RunVarRest ==
    ASSUME NEW T
    PROVE  Safe(VarRest(T))
  <1>1. /\ Alt(<<>>, When(<<{":"}>>, <<Eat, Call("Type")>>), <<>>, <<>>)
        /\ Alt(<<>>, When(<<T>>, <<Call("Type")>>), <<>>, <<>>) /\ Alt(<<>>, Else(<<>>), <<>>, <<>>)
    <2>1. Brings(<<{":"}>>, <<Eat, Call("Type")>>) /\ Safe(<<Call("Type")>>)
      BY EatOnly, SafeCalls, Words, Cons2
    <2>2. QED
      BY <2>1, SafeNil, AltTest, AltSafe, AltLast, IsSeqs DEF Safe, Brings
  <1>2. Safe(<<VarRest(T)[2]>>)
    BY <1>1, Pick3, IsSeqs, Nest0 DEF VarRest, Safe, Brings
  <1>3. Safe(<<If({"="}, <<Eat, Expr(LOWEST)>>)>>) /\ Safe(<<If({","}, <<Eat>>)>>)
    BY SafeIf, EatOnly, Words, SafeExpr, Cons2, IsSeqs DEF Safe
  <1>4. QED
    BY <1>2, <1>3, SafeTake, Words, Cons2, Cons3, Cons4 DEF VarRest, Safe

LEMMA RunVarDecl == Safe(VarDecl) /\ Safe(TopLevelVarDecl)
  BY RunVarRest DEF VarDecl, TopLevelVarDecl

LEMMA RunVarBlockStmt == Brings(<<{"{"}>>, VarBlockStmt)
  <1>1. Safe(<<IfElse({","}, <<Eat>>, <<Call("VarDecl")>>)>>)
    BY SafeIfElse, EatOnly, Words, SafeCalls, IsSeqs DEF Safe
  <1>2. QED
    BY <1>1, SafeUntil, Braces, IsSeqs DEF VarBlockStmt

LEMMA RunReturnStmt == Brings(<<{"return"}>>, ReturnStmt)
  BY EatOnly, Words, SafeEither, SafeNil, SafeSepBy, SafeExpr, Cons2, IsSeqs DEF ReturnStmt, Safe

LEMMA RunIfStmt == Brings(<<{"if"}>>, IfStmt)
  <1>1. Safe(<<IfElse({"if"}, <<Call("IfStmt")>>, <<Block>>)>>)
    BY SafeIfElse, BringsCalls, SafeBlock, IsSeqs DEF Safe
  <1>2. Safe(<<If({"else"}, <<Eat, IfElse({"if"}, <<Call("IfStmt")>>, <<Block>>)>>)>>)
    BY <1>1, SafeIf, EatOnly, Words, Cons2, IsSeqs DEF Safe
  <1>3. QED
    BY <1>2, EatOnly, Words, SafeBlock, SafeExpr, Cons2, Cons3, Cons4 DEF IfStmt, Safe

LEMMA RunIfExpr == Brings(<<{"if"}>>, IfExpr)
  <1>1. Safe(<<At({"{"}), Block, Node("if", "other")>>)
    BY SafeAt, SafeBlock, SafeNodes, Cons2, Cons3 DEF Safe
  <1>2. Safe(<<Need({"else"}), At({"{"}), Block, Node("if", "other")>>)
    BY <1>1, SafeTake, Words, Cons4 DEF Safe
  <1>3. QED
    BY <1>2, EatOnly, Words, SafeBlock, SafeExpr, Cons5, Cons6, Cons7 DEF IfExpr, Safe

LEMMA RunAssignmentStmt == Safe(AssignmentStmt)
  BY SafeCalls, SafeTake, Words, SafeExpr, Cons2, Cons3 DEF AssignmentStmt, Safe

LEMMA RunLeaf ==
    ASSUME NEW T, Plain(T)
    PROVE  Brings(<<T>>, Leaf)
  <1> DEFINE A(U, c) == Alt(<<T>>, When(<<U>>, c), <<>>, <<>>)
  <1>1. /\ A(Upper, <<Eat, Node("x", "type")>>) /\ A({"make"}, <<Eat, Node("x", "make")>>)
        /\ A({"min"}, <<Eat, Node("x", "min")>>)
    <2>1. /\ Brings(<<Upper>>, <<Eat, Node("x", "type")>>) /\ Brings(<<{"make"}>>, <<Eat, Node("x", "make")>>)
          /\ Brings(<<{"min"}>>, <<Eat, Node("x", "min")>>)
      BY EatOnly, Words, SafeNodes, Cons2
    <2>2. QED
      BY <2>1, AltTest, IsSeqs DEF Brings
  <1>2. Alt(<<T>>, Else(<<Eat, Node("x", "other")>>), <<>>, <<>>)
    <2>1. Brings(<<T>>, <<Eat, Node("x", "other")>>) /\ T # {}
      BY EatOnly, SafeNodes, Cons2 DEF Plain
    <2>2. QED
      BY <2>1, AltKept, IsSeqs DEF Brings, Otherwise
  <1>3. QED
    BY <1>1, <1>2, Pick4, IsSeqs, Nest0 DEF Leaf, Brings

LEMMA RunFieldName == Safe(FieldName)
  <1>1. Brings(<<Upper>>, <<Eat, Node(".", "type")>>) /\ Brings(<<Ident \ Upper>>, <<Eat, Node(".", "other")>>)
    <2>1. Plain(Ident \ Upper)
      <3>1. "x" \in Ident /\ "x" \notin Upper
        BY DEF Ident, Upper
      <3>2. QED
        BY <3>1, Words DEF Plain
    <2>2. QED
      BY <2>1, EatOnly, Words, SafeNodes, Cons2
  <1>2. Brings(<<Ident>>, <<IfElse(Upper, <<Eat, Node(".", "type")>>, <<Eat, Node(".", "other")>>)>>)
    BY <1>1, KnownIfElse
  <1>3. QED
    BY <1>2, AtThen2, IsSeqs DEF FieldName, Safe

LEMMA RunLValue == Safe(LValue)
  <1>1. Brings(<<{"."}>>, <<Eat>> \o FieldName)
    BY RunFieldName, EatOnly, Words, Join
  <1> DEFINE Index == <<Eat, Node("[", "other"), If({"^"}, <<Eat, Node("^", "other")>>), Expr(LOWEST),
                        Need({"]"}), Node("]", "other")>>
  <1>2. Brings(<<{".", "["} \ {"."}>>, Index)
    <2>1. Safe(<<Node("[", "other"), If({"^"}, <<Eat, Node("^", "other")>>), Expr(LOWEST)>>)
      <3>1. Safe(<<If({"^"}, <<Eat, Node("^", "other")>>)>>)
        BY SafeIf, EatOnly, Words, SafeNodes, Cons2, IsSeqs DEF Safe
      <3>2. QED
        BY <3>1, SafeNodes, SafeExpr, Cons2, Cons3 DEF Safe
    <2>2. Shuts("[", <<>>, <<Need({"]"}), Node("]", "other")>>)
      BY Squares, ShutsNext2, SafeNodes, Brackets, IsSeqs
    <2>3. Brings(<<{"["}>>, Index)
      BY <2>1, <2>2, Enclosed32, Squares, Brackets, IsSeqs
    <2>4. {".", "["} \ {"."} = {"["}
      OBVIOUS
    <2>5. QED
      BY <2>3, <2>4
  <1>3. Brings(<<{".", "["}>>, <<IfElse({"."}, <<Eat>> \o FieldName, Index)>>)
    BY <1>1, <1>2, KnownIfElse
  <1>4. Safe(<<While({".", "["}, <<IfElse({"."}, <<Eat>> \o FieldName, Index)>>)>>)
    BY <1>3, SafeWhile
  <1>5. Safe(<<At(Ident \cup {"match"})>> \o Leaf)
    BY RunLeaf, AtThen, Words, IsSeqs DEF Safe
  <1>6. QED
    BY <1>4, <1>5, Join DEF LValue, Safe

LEMMA RunConstDecl == Brings(<<{"const"}>>, ConstDecl)
  <1>1. Safe(<<If({","}, <<Eat>>)>>)
    BY SafeIf, EatOnly, Words, IsSeqs DEF Safe
  <1>2. Safe(<<NeedSkip(Ident), NeedSkip({"="}), Expr(LOWEST), If({","}, <<Eat>>)>>)
    BY <1>1, SafeTake, Words, SafeExpr, Cons2, Cons3, Cons4 DEF Safe
  <1>3. Safe(<<IfElse({","}, <<Eat>>, <<NeedSkip(Ident), NeedSkip({"="}), Expr(LOWEST), If({","}, <<Eat>>)>>)>>)
    BY <1>2, SafeIfElse, EatOnly, Words, IsSeqs DEF Safe
  <1> DEFINE Group == <<Eat, Until({"}"}, <<IfElse({","}, <<Eat>>,
                                <<NeedSkip(Ident), NeedSkip({"="}), Expr(LOWEST), If({","}, <<Eat>>)>>)>>),
                        Opt({"}"})>>
  <1>4. Brings(<<{"{"}>>, Group)
    BY <1>3, SafeUntil, Braces, IsSeqs
  <1>5. Safe(<<Need(Ident), Need({"="}), Expr(LOWEST)>>)
    BY SafeTake, Words, SafeExpr, Cons2, Cons3 DEF Safe
  <1>6. Safe(<<IfElse({"{"}, Group, <<Need(Ident), Need({"="}), Expr(LOWEST)>>)>>)
    BY <1>4, <1>5, SafeIfElse, IsSeqs DEF Safe
  <1>7. QED
    BY <1>6, EatOnly, Words, Cons2 DEF ConstDecl

LEMMA RunTypeAliasDecl == Brings(<<{"type"}>>, TypeAliasDecl)
  BY EatOnly, SafeTake, Words, SafeCalls, Cons2, Cons3, Cons4 DEF TypeAliasDecl, Safe

LEMMA SafeErr ==
    /\ \A x : Safe(<<Err, x>>)
    /\ \A x, y : Safe(<<Err, x, y>>)
  BY RunErr, IsSeqs, Nest0 DEF Safe, Brings, Typed

LEMMA Join43 ==
    ASSUME NEW k, NEW x1, NEW x2, NEW x3, NEW x4, NEW y1, NEW y2, NEW y3,
           Brings(k, <<x1, x2, x3, x4>>), Safe(<<y1, y2, y3>>)
    PROVE  Brings(k, <<x1, x2, x3, x4, y1, y2, y3>>)
  <1>1. <<x1, x2, x3, x4, y1, y2, y3>> = <<x1, x2, x3, x4>> \o <<y1, y2, y3>>
    OBVIOUS
  <1>2. QED
    BY <1>1, Join

LEMMA SafeComma == Safe(<<If({","}, <<Eat>>)>>)
  BY SafeIf, EatOnly, Words, IsSeqs DEF Safe

LEMMA RunStructDecl == Brings(<<{"struct"}>>, StructDecl)
  <1> DEFINE Field == <<Need(Ident),
                        If({":"}, <<Eat, Call("Type"), If({":"}, <<Eat, Need(IntToken)>>)>>),
                        If({","}, <<Eat>>)>>
             Member == <<Pick(<<When(<<{"doc"}>>, <<Eat>>), When(<<{"fn"}>>, <<Call("FnDecl")>>),
                                When(<<{"pub"}, {"fn"}>>, <<Eat, Call("FnDecl")>>), Else(Field)>>)>>
  <1>1. Safe(Field)
    <2>1. Safe(<<If({":"}, <<Eat, Need(IntToken)>>)>>)
      BY SafeIf, EatOnly, SafeTake, Words, Cons2, IsSeqs DEF Safe
    <2>2. Brings(<<{":"}>>, <<Eat, Call("Type"), If({":"}, <<Eat, Need(IntToken)>>)>>)
      BY <2>1, EatOnly, SafeCalls, Words, Cons2, Cons3 DEF Safe
    <2>3. Safe(<<If({":"}, <<Eat, Call("Type"), If({":"}, <<Eat, Need(IntToken)>>)>>)>>)
      BY <2>2, SafeIf, IsSeqs DEF Safe
    <2>4. QED
      BY <2>3, SafeComma, SafeTake, Words, Cons2, Cons3 DEF Safe
  <1>2. /\ Alt(<<>>, When(<<{"doc"}>>, <<Eat>>), <<>>, <<>>)
        /\ Alt(<<>>, When(<<{"fn"}>>, <<Call("FnDecl")>>), <<>>, <<>>)
        /\ Alt(<<>>, When(<<{"pub"}, {"fn"}>>, <<Eat, Call("FnDecl")>>), <<>>, <<>>)
        /\ Alt(<<>>, Else(Field), <<>>, <<>>)
    <2>1. Brings(<<{"doc"}>>, <<Eat>>) /\ Brings(<<{"fn"}>>, <<Call("FnDecl")>>)
      BY EatOnly, Words, BringsCalls
    <2>2. Brings(<<{"pub"}, {"fn"}>>, <<Eat, Call("FnDecl")>>)
      BY <2>1, EatNext2, Words
    <2>3. QED
      BY <1>1, <2>1, <2>2, AltTest, AltLast, IsSeqs DEF Safe, Brings
  <1>3. Safe(Member)
    BY <1>2, Pick4, IsSeqs, Nest0 DEF Safe, Brings
  <1>4. Safe(<<Need({"{"}), Until({"}"}, Member), Opt({"}"})>>)
    BY <1>3, SafeUntil, Braces, IsSeqs DEF Safe
  <1>5. Safe(<<If({"<"}, <<Call("TypeParamList")>>)>>)
    BY SafeIf, BringsCalls, IsSeqs DEF Safe
  <1>6. QED
    BY <1>4, <1>5, EatOnly, SafeTake, Words, Cons4, Cons5, Cons6 DEF StructDecl, Safe

LEMMA RunServiceDecl == Brings(<<{"service"}>>, ServiceDecl)
  <1>1. Safe(<<At({"fn", "pub"}), If({"pub"}, <<Eat>>), At({"fn"}), Call("FnDecl")>>)
    <2>1. Safe(<<At({"fn"}), Call("FnDecl")>>)
      BY AtThen2, BringsCalls, IsSeqs DEF Safe
    <2>2. Safe(<<If({"pub"}, <<Eat>>)>>)
      BY SafeIf, EatOnly, Words, IsSeqs DEF Safe
    <2>3. QED
      BY <2>1, <2>2, SafeAt, Cons3, Cons4 DEF Safe
  <1>2. Safe(<<IfElse({"doc"}, <<Eat>>, <<At({"fn", "pub"}), If({"pub"}, <<Eat>>), At({"fn"}), Call("FnDecl")>>)>>)
    BY <1>1, SafeIfElse, EatOnly, Words, IsSeqs DEF Safe
  <1>3. Safe(<<Need({"{"}), ServiceDecl[5], Opt({"}"})>>)
    BY <1>2, SafeUntil, Braces, IsSeqs DEF ServiceDecl, Safe
  <1>4. Safe(<<If({"for"}, <<Eat, Need(Ident)>>)>>)
    BY SafeIf, EatOnly, SafeTake, Words, Cons2, IsSeqs DEF Safe
  <1>5. QED
    BY <1>3, <1>4, EatOnly, SafeTake, Words, Cons4, Cons5, Cons6 DEF ServiceDecl, Safe

LEMMA RunRulesetDecl == Brings(<<{"ruleset"}>>, RulesetDecl)
  <1>1. Safe(<<At({"rule"}), Call("RuleDecl")>>)
    BY AtThen2, BringsCalls, IsSeqs DEF Safe
  <1>2. Safe(<<IfElse({"doc"}, <<Eat>>, <<At({"rule"}), Call("RuleDecl")>>)>>)
    BY <1>1, SafeIfElse, EatOnly, Words, IsSeqs DEF Safe
  <1>3. Safe(<<Need({"{"}), RulesetDecl[4], Opt({"}"})>>)
    BY <1>2, SafeUntil, Braces, IsSeqs DEF RulesetDecl, Safe
  <1>4. QED
    BY <1>3, EatOnly, SafeTake, Words, Cons4, Cons5 DEF RulesetDecl, Safe

LEMMA RunTemplateDecl == Brings(<<{"template"}>>, TemplateDecl)
  <1> DEFINE Member == <<Pick(<<When(<<{"doc"}>>, <<Eat>>), When(<<{"fn"}>>, <<Call("FnSignature")>>),
                                Else(<<Err, Skip>>)>>)>>
  <1>1. /\ Alt(<<>>, When(<<{"doc"}>>, <<Eat>>), <<>>, <<>>)
        /\ Alt(<<>>, When(<<{"fn"}>>, <<Call("FnSignature")>>), <<>>, <<>>)
        /\ Alt(<<>>, Else(<<Err, Skip>>), <<>>, <<>>)
    <2>1. Brings(<<{"doc"}>>, <<Eat>>) /\ Brings(<<{"fn"}>>, <<Call("FnSignature")>>)
      BY EatOnly, Words, BringsCalls
    <2>2. QED
      BY <2>1, SafeErr, AltTest, AltLast, IsSeqs DEF Safe, Brings
  <1>2. Safe(Member)
    BY <1>1, Pick3, IsSeqs, Nest0 DEF Safe, Brings
  <1>3. Safe(<<Need({"{"}), Until({"}"}, Member), Opt({"}"})>>)
    BY <1>2, SafeUntil, Braces, IsSeqs DEF Safe
  <1>4. Safe(<<If({"<"}, <<Call("TypeParamList")>>)>>)
    BY SafeIf, BringsCalls, IsSeqs DEF Safe
  <1>5. QED
    BY <1>3, <1>4, EatOnly, SafeTake, Words, Cons4, Cons5, Cons6 DEF TemplateDecl, Safe

LEMMA RunFnSignature == Brings(<<{"fn"}>>, FnSignature)
  <1>1. Brings(<<{"fn"}>>, <<Eat, Need(Ident), If({"<"}, <<Call("TypeParamList")>>)>>)
    BY SafeTake, EatOnly, Words, SafeIf, BringsCalls, Cons2, Cons3, IsSeqs DEF Safe
  <1>2. QED
    BY <1>1, SafeParams, SafeResults, Join DEF FnSignature

LEMMA RunRuleDecl == Brings(<<{"rule"}>>, RuleDecl)
  <1> DEFINE Act    == Pick(<<When(<<{"{"}>>, <<Block>>), When(<<{"fn"}>>, <<Expr(LOWEST)>>),
                              Else(<<Err, Skip>>)>>)
             Clause == <<Pick(<<When(<<{"doc"}>>, <<Eat>>),
                                When(<<{"priority"}, {":"}>>, <<Eat, Eat, Need(IntToken)>>),
                                When(<<{"action"}, {":"}>>, <<Eat, Eat, Act>>),
                                Else(<<Call("Statement")>>)>>)>>
  <1>1. Safe(<<Act>>)
    <2>1. /\ Alt(<<>>, When(<<{"{"}>>, <<Block>>), <<>>, <<>>)
          /\ Alt(<<>>, When(<<{"fn"}>>, <<Expr(LOWEST)>>), <<>>, <<>>)
          /\ Alt(<<>>, Else(<<Err, Skip>>), <<>>, <<>>)
      BY SafeBlock, SafeExpr, SafeErr, AltSafe, AltLast, IsSeqs DEF Safe, Brings
    <2>2. QED
      BY <2>1, Pick3, IsSeqs, Nest0 DEF Safe, Brings
  <1>2. /\ Alt(<<>>, When(<<{"doc"}>>, <<Eat>>), <<>>, <<>>)
        /\ Alt(<<>>, When(<<{"priority"}, {":"}>>, <<Eat, Eat, Need(IntToken)>>), <<>>, <<>>)
        /\ Alt(<<>>, When(<<{"action"}, {":"}>>, <<Eat, Eat, Act>>), <<>>, <<>>)
        /\ Alt(<<>>, Else(<<Call("Statement")>>), <<>>, <<>>)
    <2>1. Brings(<<{"doc"}>>, <<Eat>>) /\ Safe(<<Call("Statement")>>)
      BY EatOnly, Words, SafeCalls
    <2>2. Brings(<<{"priority"}, {":"}>>, <<Eat, Eat, Need(IntToken)>>)
      BY EatNext3, EatOnly, SafeTake, Words, Cons2
    <2>3. Brings(<<{"action"}, {":"}>>, <<Eat, Eat, Act>>)
      BY <1>1, EatNext3, EatOnly, Words, Cons2
    <2>4. QED
      BY <2>1, <2>2, <2>3, AltTest, AltLast, IsSeqs DEF Safe, Brings
  <1>3. Safe(Clause)
    BY <1>2, Pick4, IsSeqs, Nest0 DEF Safe, Brings
  <1>4. Safe(<<Need({"{"}), Until({"}"}, Clause), Opt({"}"})>>)
    BY <1>3, SafeUntil, Braces, IsSeqs DEF Safe
  <1>5. Brings(<<{"rule"}>>, <<Eat, Need(Ident), Need({"when"}), Expr(LOWEST)>>)
    BY EatOnly, SafeTake, SafeExpr, Words, Cons2, Cons3, Cons4 DEF Safe
  <1>6. Brings(<<{"rule"}>>, <<Eat, Need(Ident), Need({"when"}), Expr(LOWEST), Need({"{"}), Until({"}"}, Clause), Opt({"}"})>>)
    BY <1>4, <1>5, Join43
  <1>7. QED
    BY <1>6 DEF RuleDecl

LEMMA RunEnumDecl == Brings(<<{"enum"}>>, EnumDecl)
  <1>1. Safe(<<NeedSkip(Ident), If({","}, <<Eat>>)>>)
    BY SafeTake, Words, SafeComma, Cons2 DEF Safe
  <1>2. Brings(<<{"doc", ","}>>, <<Eat>>)
    <2>1. Plain({"doc", ","})
      BY Brackets DEF Plain
    <2>2. QED
      BY <2>1, EatOnly
  <1>3. Safe(<<IfElse({"doc", ","}, <<Eat>>, <<NeedSkip(Ident), If({","}, <<Eat>>)>>)>>)
    BY <1>1, <1>2, SafeIfElse, IsSeqs DEF Safe
  <1>4. Safe(<<Need({"{"}), EnumDecl[4], Opt({"}"})>>)
    BY <1>3, SafeUntil, Braces, IsSeqs DEF EnumDecl, Safe
  <1>5. QED
    BY <1>4, EatOnly, SafeTake, Words, Cons4, Cons5 DEF EnumDecl, Safe

LEMMA RunModuleDecl == Safe(ModuleDecl)
  <1>1. Plain({"error", "int", "bool", "badnum", "badfloat"})
    BY Brackets DEF Plain
  <1>2. QED
    BY <1>1, Words, SafeTake DEF ModuleDecl

LEMMA SafeImportPath == Safe(<<ImportPath>>)
  <1>1. Brings(<<Ident, {"str"}>>, <<Eat, Eat>>) /\ Brings(<<{"as"}, Ident>>, <<Eat, Eat>>)
    BY EatNext2, EatOnly, Words
  <1>2. Safe(<<Pick(<<When(<<{"as"}, Ident>>, <<Eat, Eat>>), Else(<<>>)>>)>>)
    BY <1>1, SafeNil, Pick2, AltTest, AltLast, IsSeqs, Nest0 DEF Safe, Brings
  <1>3. Safe(<<NeedSkip({"str"}), Pick(<<When(<<{"as"}, Ident>>, <<Eat, Eat>>), Else(<<>>)>>)>>)
    BY <1>2, SafeTake, Words, Cons2 DEF Safe
  <1>4. QED
    BY <1>1, <1>3, Pick2, AltTest, AltLast, IsSeqs, Nest0 DEF ImportPath, Safe, Brings

LEMMA RunImportBlock == Brings(<<{"{"}>>, ImportBlock)
  <1>1. Safe(<<ImportPath, If({","}, <<Eat>>)>>)
    BY SafeImportPath, SafeComma, Cons2 DEF Safe
  <1>2. QED
    BY <1>1, SafeUntil, Braces, IsSeqs DEF ImportBlock

LEMMA RunImportDecl == Safe(ImportDecl)
  BY SafeImportPath, SafeIfElse, BringsCalls, IsSeqs DEF ImportDecl, Safe

LEMMA SafeForClauses == Safe(ForClauses)
  <1>1. Safe(<<IfElse({";"}, <<>>, <<Expr(LOWEST)>>)>>)
    BY SafeEither, SafeNil, SafeExpr, IsSeqs DEF Safe
  <1>2. Safe(<<IfElse({"{"}, <<>>, <<Call("Statement")>>)>>)
    BY SafeEither, SafeNil, SafeCalls, IsSeqs DEF Safe
  <1>3. QED
    BY <1>1, <1>2, SafeTake, Words, SafeBlock, Cons2, Cons3, Cons4, Cons5 DEF ForClauses, Safe

LEMMA SafeForInit == Safe(<<ForInit>>)
  <1>1. /\ Alt(<<>>, When(<<{";"}>>, <<>>), <<>>, <<>>)
        /\ Alt(<<>>, When(<<Ident, AssignOp>>, <<Call("AssignmentStmt")>>), <<>>, <<>>)
        /\ Alt(<<>>, Else(<<Expr(LOWEST)>>), <<>>, <<>>)
    BY SafeNil, SafeCalls, SafeExpr, AltSafe, AltLast, IsSeqs DEF Safe, Brings
  <1>2. QED
    BY <1>1, Pick3, IsSeqs, Nest0 DEF ForInit, Safe, Brings

LEMMA RunForStmt == Brings(<<{"for"}>>, ForStmt)
  <1> DEFINE Loop  == <<Expr(LOWEST), Block>>
             InRange == IfElse({"range"}, <<Eat, Expr(LOWEST), Block>>, <<Expr(LOWEST)>> \o ForClauses)
  <1>1. Safe(<<Expr(LOWEST), Block>>) /\ Safe(<<Expr(LOWEST)>> \o ForClauses) /\ Safe(<<ForInit>> \o ForClauses)
    BY SafeExpr, SafeBlock, SafeForClauses, SafeForInit, Cons2, Join DEF Safe
  <1>2. Brings(<<Ident, {"in"}>>, <<Eat, Eat, Expr(LOWEST), Block>>)
    BY <1>1, EatNext4, EatOnly, Words, Cons3
  <1>3. Brings(<<Ident, {":="}>>, <<Eat, Eat, InRange>>)
    <2>1. Safe(<<InRange>>)
      BY <1>1, SafeIfElse, EatOnly, Words, Cons3, IsSeqs DEF Safe
    <2>2. QED
      BY <2>1, EatNext3, EatOnly, Words, Cons2
  <1>4. Safe(<<Expr(LOWEST), AtSkip({"{"}), Block>>)
    BY SafeExpr, SafeAt, SafeBlock, Cons2, Cons3 DEF Safe
  <1>5. /\ Alt(<<>>, When(<<Ident, {"in"}>>, <<Eat, Eat, Expr(LOWEST), Block>>), <<>>, <<>>)
        /\ Alt(<<>>, When(<<Ident, {":="}>>, <<Eat, Eat, InRange>>), <<>>, <<>>)
        /\ Alt(<<>>, When(<<{"{"}>>, <<Block>>), <<>>, <<>>)
        /\ Alt(<<>>, When(<<{";", "var"}>>, <<ForInit>> \o ForClauses), <<>>, <<>>)
        /\ Alt(<<>>, When(<<Ident, {"="}>>, <<ForInit>> \o ForClauses), <<>>, <<>>)
        /\ Alt(<<>>, When(<<{}, {"in"}>>, <<ForInit>> \o ForClauses), <<>>, <<>>)
        /\ Alt(<<>>, Else(<<Expr(LOWEST), AtSkip({"{"}), Block>>), <<>>, <<>>)
    BY <1>1, <1>2, <1>3, <1>4, SafeBlock, AltTest, AltSafe, AltLast, IsSeqs DEF Safe, Brings
  <1>6. Safe(<<ForStmt[2]>>)
    BY <1>5, Pick7, IsSeqs, Nest0 DEF ForStmt, Safe, Brings
  <1>7. QED
    BY <1>6, EatOnly, Words, Cons2 DEF ForStmt

LEMMA RunWithStmt == Brings(<<{"with"}>>, WithStmt)
  BY EatOnly, SafeTake, Words, SafeExpr, SafeBlock, Cons2, Cons3, Cons4, Cons5 DEF WithStmt, Safe

LEMMA RunMatchExpr == Brings(<<{"match"}>>, MatchExpr)
  <1> DEFINE Case == <<IfElse({"_"}, <<Eat>>, <<Expr(LOWEST)>>), If({"if"}, <<Eat, Expr(LOWEST)>>),
                       NeedSkip({"=>"}), IfElse({"{"}, <<Block>>, <<Expr(LOWEST)>>), If({","}, <<Eat>>)>>
  <1>1. Safe(<<IfElse({"_"}, <<Eat>>, <<Expr(LOWEST)>>)>>) /\ Safe(<<If({"if"}, <<Eat, Expr(LOWEST)>>)>>)
    BY SafeIf, SafeIfElse, EatOnly, Words, SafeExpr, Cons2, IsSeqs DEF Safe
  <1>2. Safe(<<IfElse({"{"}, <<Block>>, <<Expr(LOWEST)>>)>>)
    BY SafeEither, SafeBlock, SafeExpr, IsSeqs DEF Safe
  <1>3. Safe(Case)
    BY <1>1, <1>2, SafeComma, SafeTake, Words, Cons2, Cons3, Cons4, Cons5 DEF Safe
  <1>4. Safe(<<IfElse({","}, <<Eat>>, Case)>>)
    BY <1>3, SafeIfElse, EatOnly, Words, IsSeqs DEF Safe
  <1>5. Safe(<<NeedSkip({"{"}), Until({"}"}, <<IfElse({","}, <<Eat>>, Case)>>), Opt({"}"})>>)
    BY <1>4, SafeUntil, Braces, IsSeqs DEF Safe
  <1>6. Safe(<<NeedSkip({"{"}), Until({"}"}, <<IfElse({","}, <<Eat>>, Case)>>), Opt({"}"}), Node("match", "other")>>)
    BY <1>5, SafeNodes, Pair4 DEF Safe
  <1>7. QED
    BY <1>6, EatOnly, SafeExpr, Words, Cons5, Cons6 DEF MatchExpr, Safe

LEMMA SafeCaseBody == Safe(<<CaseBody>>)
  BY SafeUntil, SafeCalls DEF CaseBody

LEMMA RunSelectStmt == Brings(<<{"select"}>>, SelectStmt)
  <1> DEFINE Colon   == If({":"}, <<Eat>>)
             Bind    == Pick(<<When(<<Ident, {":="}>>, <<Eat, Eat>>), Else(<<>>)>>)
             Clause  == <<Pick(<<When(<<{"default"}>>, <<Eat, Colon, CaseBody>>),
                                 When(<<{"case"}>>, <<Eat, Bind, Expr(LOWEST), Colon, CaseBody>>),
                                 Else(<<Err, Skip>>)>>)>>
  <1>1. Safe(<<Colon>>)
    BY SafeIf, EatOnly, Words, IsSeqs DEF Safe
  <1>2. Safe(<<Bind>>)
    <2>1. Brings(<<Ident, {":="}>>, <<Eat, Eat>>)
      BY EatNext2, EatOnly, Words
    <2>2. QED
      BY <2>1, SafeNil, Pick2, AltTest, AltLast, IsSeqs, Nest0 DEF Safe, Brings
  <1>3. /\ Alt(<<>>, When(<<{"default"}>>, <<Eat, Colon, CaseBody>>), <<>>, <<>>)
        /\ Alt(<<>>, When(<<{"case"}>>, <<Eat, Bind, Expr(LOWEST), Colon, CaseBody>>), <<>>, <<>>)
        /\ Alt(<<>>, Else(<<Err, Skip>>), <<>>, <<>>)
    <2> HIDE DEF Colon, Bind
    <2>1. Brings(<<{"default"}>>, <<Eat, Colon, CaseBody>>)
      BY <1>1, SafeCaseBody, EatOnly, Words, Cons2, Cons3 DEF Safe
    <2>2. Brings(<<{"case"}>>, <<Eat, Bind, Expr(LOWEST), Colon, CaseBody>>)
      BY <1>1, <1>2, SafeCaseBody, SafeExpr, EatOnly, Words, Cons2, Cons3, Cons4, Cons5 DEF Safe
    <2>3. QED
      BY <2>1, <2>2, SafeErr, AltTest, AltLast, IsSeqs DEF Safe, Brings
  <1>4. Safe(Clause)
    BY <1>3, Pick3, IsSeqs, Nest0 DEF Safe, Brings
  <1>5. Safe(<<NeedSkip({"{"}), Until({"}"}, Clause), Opt({"}"})>>)
    BY <1>4, SafeUntil, Braces, IsSeqs DEF Safe
  <1>6. QED
    BY <1>5, EatOnly, Words, Cons4 DEF SelectStmt

LEMMA RunSwitchStmt == Brings(<<{"switch"}>>, SwitchStmt)
  <1> DEFINE Colon  == If({":"}, <<Eat>>)
             Clause == <<Pick(<<When(<<{"default"}>>, <<Eat, Colon, CaseBody>>),
                                When(<<{"case"}>>, <<Eat>> \o SepBy(<<Expr(LOWEST)>>) \o <<Colon, CaseBody>>),
                                Else(<<Err, Skip>>)>>)>>
  <1>1. Safe(<<Colon>>)
    BY SafeIf, EatOnly, Words, IsSeqs DEF Safe
  <1>2. /\ Alt(<<>>, When(<<{"default"}>>, <<Eat, Colon, CaseBody>>), <<>>, <<>>)
        /\ Alt(<<>>, When(<<{"case"}>>, <<Eat>> \o SepBy(<<Expr(LOWEST)>>) \o <<Colon, CaseBody>>), <<>>, <<>>)
        /\ Alt(<<>>, Else(<<Err, Skip>>), <<>>, <<>>)
    <2> HIDE DEF Colon
    <2>1. Safe(<<Colon, CaseBody>>)
      BY <1>1, SafeCaseBody, Cons2 DEF Safe
    <2>2. Brings(<<{"default"}>>, <<Eat, Colon, CaseBody>>)
      BY <2>1, EatOnly, Words, Cons3
    <2>3. Brings(<<{"case"}>>, <<Eat>> \o SepBy(<<Expr(LOWEST)>>) \o <<Colon, CaseBody>>)
      BY <2>1, SafeExpr, SafeSepBy, EatOnly, Words, Join
    <2>4. QED
      BY <2>2, <2>3, SafeErr, AltTest, AltLast, IsSeqs DEF Safe, Brings
  <1>3. Safe(Clause)
    BY <1>2, Pick3, IsSeqs, Nest0 DEF Safe, Brings
  <1>4. Safe(<<NeedSkip({"{"}), Until({"}"}, Clause), Opt({"}"})>>)
    BY <1>3, SafeUntil, Braces, IsSeqs DEF Safe
  <1>5. QED
    BY <1>4, EatOnly, SafeExpr, Words, Cons4, Cons5 DEF SwitchStmt, Safe

LEMMA RunStatement == Safe(Statement)
  <1> DEFINE A(t, c) == Alt(<<>>, When(t, c), <<>>, <<>>)
  <1>1. /\ A(<<Ident, {":="}>>, VarStmt) /\ A(<<{"match"}, {":="}>>, VarStmt)
        /\ A(<<Ident, {","}>>, TupleStmt) /\ A(<<Ident, {".", "["}>>, MemberStmt)
    <2>1. Brings(<<Ident, {":="}>>, VarStmt) /\ Brings(<<{"match"}, {":="}>>, VarStmt)
      BY RunVarStmt, Words
    <2>2. QED
      BY <2>1, RunTupleStmt, RunMemberStmt, AltTest, AltFirst, AltSafe, IsSeqs DEF Safe, Brings
  <1>2. /\ A(<<Ident, AssignOp>>, <<Call("AssignmentStmt")>>)
        /\ A(<<{"match"}, {"="}>>, <<Call("AssignmentStmt")>>)
        /\ A(<<{"{"}>>, <<Block>>) /\ Alt(<<>>, Else(<<Expr(LOWEST)>>), <<>>, <<>>)
    BY SafeCalls, SafeBlock, SafeExpr, AltSafe, AltLast, IsSeqs DEF Safe, Brings
  <1>3. /\ A(<<{"return"}>>, <<Call("ReturnStmt")>>) /\ A(<<{"if"}>>, <<Call("IfStmt")>>)
        /\ A(<<{"for"}>>, <<Call("ForStmt")>>) /\ A(<<{"with"}>>, <<Call("WithStmt")>>)
        /\ A(<<{"match"}>>, <<Call("MatchExpr")>>) /\ A(<<{"select"}>>, <<Call("SelectStmt")>>)
        /\ A(<<{"switch"}>>, <<Call("SwitchStmt")>>)
    BY BringsCalls, AltTest, IsSeqs DEF Brings
  <1>4. A(<<{"break", "continue"}>>, <<Eat>>) /\ A(<<{"doc"}>>, <<Eat>>)
    <2>1. Plain({"break", "continue"})
      BY Brackets DEF Plain
    <2>2. QED
      BY <2>1, EatOnly, Words, AltTest, IsSeqs DEF Brings
  <1>5. A(<<{"while", "until"}>>, <<Eat, Expr(LOWEST), Block>>) /\ A(<<{"unsafe", "comptime"}>>, <<Eat, Block>>)
    <2>1. Plain({"while", "until"}) /\ Plain({"unsafe", "comptime"})
      BY Brackets DEF Plain
    <2>2. /\ Brings(<<{"while", "until"}>>, <<Eat, Expr(LOWEST), Block>>)
          /\ Brings(<<{"unsafe", "comptime"}>>, <<Eat, Block>>)
      BY <2>1, EatOnly, SafeExpr, SafeBlock, Cons2, Cons3 DEF Safe
    <2>3. QED
      BY <2>2, AltTest, IsSeqs DEF Brings
  <1>6. /\ A(<<{"defer"}>>, <<Eat, Call("Statement")>>) /\ A(<<{"spawn"}>>, <<Eat, Expr(LOWEST)>>)
        /\ A(<<{"var"}>>, <<Eat, Call("VarDecl")>>)
        /\ A(<<{"var"}, {"{"}>>, <<Eat, Call("VarBlockStmt")>>)
    <2>1. /\ Brings(<<{"defer"}>>, <<Eat, Call("Statement")>>) /\ Brings(<<{"spawn"}>>, <<Eat, Expr(LOWEST)>>)
          /\ Brings(<<{"var"}>>, <<Eat, Call("VarDecl")>>)
      BY EatOnly, Words, SafeCalls, SafeExpr, Cons2
    <2>2. Brings(<<{"var"}, {"{"}>>, <<Eat, Call("VarBlockStmt")>>)
      BY EatNext2, Words, BringsCalls
    <2>3. QED
      BY <2>1, <2>2, AltTest, IsSeqs DEF Brings
  <1> DEFINE a1 == When(<<Ident, {":="}>>, VarStmt)
             a2 == When(<<Ident, AssignOp>>, <<Call("AssignmentStmt")>>)
             a3 == When(<<Ident, {","}>>, TupleStmt)
             a4 == When(<<Ident, {".", "["}>>, MemberStmt)
             a5 == When(<<{"return"}>>, <<Call("ReturnStmt")>>)
             a6 == When(<<{"break", "continue"}>>, <<Eat>>)
             a7 == When(<<{"if"}>>, <<Call("IfStmt")>>)
             a8 == When(<<{"for"}>>, <<Call("ForStmt")>>)
             a9 == When(<<{"while", "until"}>>, <<Eat, Expr(LOWEST), Block>>)
             a10 == When(<<{"defer"}>>, <<Eat, Call("Statement")>>)
             a11 == When(<<{"unsafe", "comptime"}>>, <<Eat, Block>>)
             a12 == When(<<{"with"}>>, <<Call("WithStmt")>>)
             a13 == When(<<{"match"}, {":="}>>, VarStmt)
             a14 == When(<<{"match"}, {"="}>>, <<Call("AssignmentStmt")>>)
             a15 == When(<<{"match"}>>, <<Call("MatchExpr")>>)
             a16 == When(<<{"spawn"}>>, <<Eat, Expr(LOWEST)>>)
             a17 == When(<<{"select"}>>, <<Call("SelectStmt")>>)
             a18 == When(<<{"switch"}>>, <<Call("SwitchStmt")>>)
             a19 == When(<<{"var"}, {"{"}>>, <<Eat, Call("VarBlockStmt")>>)
             a20 == When(<<{"var"}>>, <<Eat, Call("VarDecl")>>)
             a21 == When(<<{"{"}>>, <<Block>>)
             a22 == When(<<{"doc"}>>, <<Eat>>)
  <1>7. /\ Alt(<<>>, a1, <<>>, <<>>)
        /\ Alt(<<>>, a2, <<>>, <<>>)
        /\ Alt(<<>>, a3, <<>>, <<>>)
        /\ Alt(<<>>, a4, <<>>, <<>>)
        /\ Alt(<<>>, a5, <<>>, <<>>)
        /\ Alt(<<>>, a6, <<>>, <<>>)
        /\ Alt(<<>>, a7, <<>>, <<>>)
        /\ Alt(<<>>, a8, <<>>, <<>>)
        /\ Alt(<<>>, a9, <<>>, <<>>)
        /\ Alt(<<>>, a10, <<>>, <<>>)
        /\ Alt(<<>>, a11, <<>>, <<>>)
        /\ Alt(<<>>, a12, <<>>, <<>>)
        /\ Alt(<<>>, a13, <<>>, <<>>)
        /\ Alt(<<>>, a14, <<>>, <<>>)
        /\ Alt(<<>>, a15, <<>>, <<>>)
        /\ Alt(<<>>, a16, <<>>, <<>>)
        /\ Alt(<<>>, a17, <<>>, <<>>)
        /\ Alt(<<>>, a18, <<>>, <<>>)
        /\ Alt(<<>>, a19, <<>>, <<>>)
        /\ Alt(<<>>, a20, <<>>, <<>>)
        /\ Alt(<<>>, a21, <<>>, <<>>)
        /\ Alt(<<>>, a22, <<>>, <<>>)
    BY <1>1, <1>2, <1>3, <1>4, <1>5, <1>6
  <1> HIDE DEF a1, a2, a3, a4, a5, a6, a7, a8, a9, a10, a11, a12, a13, a14, a15, a16, a17, a18, a19, a20, a21, a22
  <1>8. Safe(<<Pick(<<a1, a2, a3, a4, a5, a6, a7, a8, a9, a10, a11, a12, a13, a14, a15, a16, a17, a18, a19, a20, a21, a22, Else(<<Expr(LOWEST)>>)>>)>>)
    BY <1>2, <1>7, Pick23, IsSeqs, Nest0 DEF Safe, Brings
  <1>9. QED
    BY <1>8 DEF Statement, a1, a2, a3, a4, a5, a6, a7, a8, a9, a10, a11, a12, a13, a14, a15, a16, a17, a18, a19, a20, a21, a22

LEMMA RunSizeofExpr == Brings(<<{"sizeof"}>>, SizeofExpr)
  <1>1. Safe(<<Need({"("}), Call("Type"), Opt({")"})>>)
    BY SafeCalls, Parens, IsSeqs DEF Safe
  <1>2. Safe(<<Need({"("}), Call("Type"), Opt({")"}), Node("sizeof", "other")>>)
    BY <1>1, SafeNodes, Pair4 DEF Safe
  <1>3. QED
    BY <1>2, EatOnly, Words, Cons5 DEF SizeofExpr

LEMMA SafeStructInitNext == Safe(<<StructInitNext>>)
  <1>1. /\ Alt(<<>>, When(<<{"{"}, {"}"}>>, <<Call("StructInit")>>), <<>>, <<>>)
        /\ Alt(<<>>, When(<<{"{"}, Ident, {":"}>>, <<Call("StructInit")>>), <<>>, <<>>)
        /\ Alt(<<>>, Else(<<>>), <<>>, <<>>)
    BY BringsCalls, SafeNil, AltFirst, AltLast DEF Safe, Brings
  <1>2. QED
    BY <1>1, Pick3, IsSeqs, Nest0 DEF StructInitNext, Safe, Brings

LEMMA RunGenericArgs == Brings(<<{"<"}>>, GenericArgs)
  <1>1. Safe(SepBy(<<Call("Type")>>))
    BY SafeCalls, SafeSepBy
  <1>2. QED
    BY <1>1, EatOnly, SafeTake, Words, Join DEF GenericArgs

LEMMA RunGenericRef ==
    ASSUME NEW T, Plain(T), NEW j \in Kinds
    PROVE  Brings(<<T, {"<"}>>, GenericRef(j))
  <1>1. Brings(<<{"<"}>>, <<Call("GenericArgs"), Node("generic", j)>>)
    BY BringsCalls, SafeNode, Cons2
  <1>2. QED
    BY <1>1, EatNext3 DEF GenericRef

LEMMA AltMerged ==
    ASSUME NEW U, U # {}, NEW V, V # {}, NEW W, NEW c, NEW o, NEW p, Run(c, <<U, V>>, o, <<>>, p)
    PROVE  Alt(<<U>>, When(<<{}, V, W>>, c), o, p)
  <1> DEFINE k == <<U>>
             t == <<{}, V, W>>
             m == <<U, V>>
  <1>1. Len(k) = 1 /\ Len(t) = 3 /\ Len(m) = 2 /\ k[1] = U /\ t[2] = V /\ m[1] = U /\ m[2] = V
    OBVIOUS
  <1> HIDE DEF k, t, m
  <1>2. Knows(k, t, m)
    <2>1. ASSUME NEW i \in 1..Len(m)
          PROVE  \/ i <= Len(k) /\ k[i] # {} /\ k[i] \subseteq m[i]
                 \/ i <= Len(t) /\ (m[i] = {} \/ (t[i] # {} /\ t[i] \subseteq m[i]))
      <3>1. i = 1 \/ i = 2
        BY <1>1
      <3>2. QED
        BY <1>1, <3>1
    <2>2. QED
      BY <2>1 DEF Knows
  <1>3. IsSeq(t)
    BY IsSeqs DEF t
  <1>4. QED
    BY <1>2, <1>3 DEF Alt, When, k, t, m

LEMMA RunIdentifier == Brings(Start["Identifier"], Identifier)
  <1> DEFINE U == Ident \cup {"int", "badnum", "badfloat", "bool", "error", "chan", "tensor", "match"}
  <1>1. Plain(U)
    <2>1. Plain({"int", "badnum", "badfloat", "bool", "error", "chan", "tensor", "match"})
      BY Brackets DEF Plain
    <2>2. QED
      BY <2>1, Words
  <1> HIDE DEF U
  <1>2. Brings(<<Upper, {"<"}>>, GenericRef("type") \o <<StructInitNext>>)
    <2>1. Brings(<<Upper, {"<"}>>, GenericRef("type"))
      BY RunGenericRef, Words DEF Kinds
    <2>2. QED
      BY <2>1, SafeStructInitNext, Join
  <1>3. Brings(<<U, {"<"}>>, GenericRef("other"))
    BY <1>1, RunGenericRef DEF Kinds
  <1>4. Brings(<<U>>, Leaf)
    BY <1>1, RunLeaf
  <1>5. /\ Alt(<<U>>, When(<<Upper, {"<"}>>, GenericRef("type") \o <<StructInitNext>>), <<>>, <<>>)
        /\ Alt(<<U>>, When(<<{}, {"<"}, TypeAhead>>, GenericRef("other")), <<>>, <<>>)
        /\ Alt(<<U>>, Else(Leaf), <<>>, <<>>)
    <2>1. U # {} /\ {"<"} # {}
      BY <1>1 DEF Plain
    <2>2. Alt(<<U>>, When(<<Upper, {"<"}>>, GenericRef("type") \o <<StructInitNext>>), <<>>, <<>>)
      BY <1>2, AltTest, IsSeqs DEF Brings
    <2>3. Alt(<<U>>, When(<<{}, {"<"}, TypeAhead>>, GenericRef("other")), <<>>, <<>>)
      BY <1>3, <2>1, AltMerged DEF Brings
    <2>4. Alt(<<U>>, Else(Leaf), <<>>, <<>>)
      BY <1>4, <2>1, AltKept, IsSeqs DEF Brings, Otherwise
    <2>5. QED
      BY <2>2, <2>3, <2>4
  <1>6. Brings(<<U>>, Identifier)
    BY <1>5, Pick3, IsSeqs, Nest0 DEF Identifier, Brings
  <1>7. Start["Identifier"] = <<U>>
    BY DEF Start, U
  <1>8. QED
    BY <1>6, <1>7

LEMMA SafeExpressionList == Shuts("(", <<>>, <<ExpressionList(")")>>)
  <1>1. Shuts("(", <<{")"}>>, <<Eat>>)
    BY Parens, IsSeqs
  <1>2. Shuts("(", <<>>, SepBy(<<Expr(LOWEST)>>) \o <<Expect({")"})>>)
    BY SafeExpr, SafeSepBy, ShutsAfter, Parens, Brackets, IsSeqs
  <1>3. QED
    BY <1>1, <1>2, ShutsIfElse, Brackets DEF ExpressionList

LEMMA RunCollectionElement == Safe(CollectionElement)
  <1>1. Brings(<<{".."}>>, <<Eat, Expr(LOWEST), Node("spread", "other")>>)
    BY EatOnly, Words, SafeExpr, SafeNodes, Cons2, Cons3 DEF Safe
  <1>2. QED
    BY <1>1, SafeExpr, SafeIfElse, IsSeqs DEF CollectionElement, Safe

LEMMA RunMapValue == Safe(MapValue)
  BY SafeTake, SafeExpr, Words, Cons2 DEF MapValue, Safe

LEMMA RunElements == Brings(<<{"{"}>>, Elements)
  <1>1. Safe(<<Expr(LOWEST), If({","}, <<Eat>>)>>)
    BY SafeExpr, SafeComma, Cons2 DEF Safe
  <1>2. Safe(<<IfElse({","}, <<Eat>>, <<Expr(LOWEST), If({","}, <<Eat>>)>>)>>)
    BY <1>1, SafeIfElse, EatOnly, Words, IsSeqs DEF Safe
  <1>3. QED
    BY <1>2, SafeUntil, Braces, IsSeqs DEF Elements

LEMMA RunMapLiteral == Brings(<<{"{"}>>, MapLiteral)
  <1>1. Safe(<<Expr(LOWEST), NeedSkip({":"}), Expr(LOWEST), If({","}, <<Eat>>)>>)
    BY SafeExpr, SafeTake, Words, SafeComma, Cons2, Cons3, Cons4 DEF Safe
  <1>2. Safe(<<IfElse({","}, <<Eat>>, <<Expr(LOWEST), NeedSkip({":"}), Expr(LOWEST), If({","}, <<Eat>>)>>)>>)
    BY <1>1, SafeIfElse, EatOnly, Words, IsSeqs DEF Safe
  <1>3. Brings(<<{"{"}>>, <<Eat, MapLiteral[2], Opt({"}"})>>)
    BY <1>2, SafeUntil, Braces, IsSeqs DEF MapLiteral
  <1>4. QED
    BY <1>3, SafeNodes, Pair4 DEF MapLiteral

LEMMA EatAt ==
    ASSUME NEW T, Plain(T), NEW U, NEW c, Brings(<<U>>, c)
    PROVE  Brings(<<T>>, <<Eat, At(U)>> \o c)
  <1>1. Run(<<Eat>>, <<T>>, <<>>, <<>>, <<>>)
    BY EatOnly DEF Brings
  <1>2. Neutral({}, At(U), <<>>, <<U>>)
    BY DEF Neutral, At
  <1>3. Run(<<At(U)>>, <<>>, <<>>, <<U>>, <<>>)
    BY <1>2, NeutralRuns, Closed0, IsSeqs, Nest0
  <1>4. <<Eat, At(U)>> = <<Eat>> \o <<At(U)>>
    BY Two
  <1>5. QED
    BY <1>1, <1>3, <1>4, RunJoin DEF Brings

LEMMA RunSetLiteral == Brings(<<{"set"}>>, SetLiteral)
  BY EatAt, RunElements, Words, SafeNodes, Join DEF SetLiteral

LEMMA RunFnLiteral == Brings(<<{"fn"}>>, FnLiteral)
  <1>1. Safe(<<Results(Opt({")"})), At({"{"}), Block, Node("fn", "other")>>)
    BY SafeResults, SafeAt, SafeBlock, SafeNodes, Cons2, Cons3, Cons4 DEF Safe
  <1>2. QED
    BY <1>1, SafeParams, EatOnly, Words, Join DEF FnLiteral

LEMMA RunGroupedExpression == Brings(<<{"("}>>, GroupedExpression)
  BY Parens, SafeExpr, IsSeqs DEF GroupedExpression

LEMMA ByKindRuns ==
    ASSUME NEW c, NEW k, IsSeq(k), NEW o \in Nests, NEW l, IsSeq(l), NEW p \in Nests,
           \A d \in Kinds : Run(c[d], k, o, l, p)
    PROVE  Run(<<ByKind(c)>>, k, o, l, p)
  <1> DEFINE Ctx(d) == CHOOSE F : Closed(F) /\ <<c[d], k, o, l, p>> \in F
             U      == {Ctx(d) : d \in Kinds}
  <1>1. ASSUME NEW d \in Kinds
        PROVE  Closed(Ctx(d)) /\ <<c[d], k, o, l, p>> \in Ctx(d)
    <2>1. \E F : Closed(F) /\ <<c[d], k, o, l, p>> \in F
      BY DEF Run
    <2>2. QED
      BY <2>1, Zenon
  <1> HIDE DEF Ctx
  <1>2. \A F \in U : Closed(F)
    BY <1>1
  <1>3. \A d \in Kinds : <<c[d], k, o, l, p>> \in UNION U
    BY <1>1
  <1> HIDE DEF U
  <1>4. Closed(UNION U)
    BY <1>2, JoinClosed
  <1>5. Item(UNION U, ByKind(c), k, o, l, p)
    BY <1>3 DEF Item, ByKind
  <1>6. QED
    BY <1>4, <1>5, RunItem

LEMMA RunFunctionType == Brings(<<{"fn"}>>, FunctionType)
  BY SafeTake, SafeCalls, SafeSepBy, SafeIf, SafeEither, SafeNil, EatOnly, Cons2, Cons5, Pair4, Words, Parens,
     IsSeqs DEF FunctionType, Safe

(* Within an open bracket.                                                   *)
LEMMA ShutsFrom ==
    ASSUME NEW b \in Openers, NEW k, NEW c, Brings(k, c), NEW d, Shuts(b, <<>>, d)
    PROVE  Shuts(b, k, c \o d)
  BY RunWithin, RunJoin, Nest0 DEF Shuts, Brings

LEMMA ShutsFrom2 ==
    ASSUME NEW b \in Openers, NEW k, NEW x, Brings(k, <<x>>), NEW z, Shuts(b, <<>>, <<z>>)
    PROVE  Shuts(b, k, <<x, z>>)
  BY ShutsFrom, Two

LEMMA ShutsFrom3 ==
    ASSUME NEW b \in Openers, NEW k, NEW x, NEW y, Brings(k, <<x, y>>), NEW z, Shuts(b, <<>>, <<z>>)
    PROVE  Shuts(b, k, <<x, y, z>>)
  <1>1. <<x, y, z>> = <<x, y>> \o <<z>>
    OBVIOUS
  <1>2. QED
    BY <1>1, ShutsFrom

LEMMA ShutsFrom4 ==
    ASSUME NEW b \in Openers, NEW k, NEW w, NEW x, NEW y, Brings(k, <<w, x, y>>), NEW z, Shuts(b, <<>>, <<z>>)
    PROVE  Shuts(b, k, <<w, x, y, z>>)
  <1>1. <<w, x, y, z>> = <<w, x, y>> \o <<z>>
    OBVIOUS
  <1>2. QED
    BY <1>1, ShutsFrom

LEMMA ShutsNext3 ==
    ASSUME NEW b \in Openers, NEW k, NEW x, NEW y, NEW z, Shuts(b, k, <<x>>), Safe(<<y, z>>)
    PROVE  Shuts(b, k, <<x, y, z>>)
  <1>1. <<x, y, z>> = <<x>> \o <<y, z>>
    OBVIOUS
  <1>2. QED
    BY <1>1, ShutsThen

LEMMA ShutsEither ==
    ASSUME NEW b \in Openers, NEW T, NEW c, NEW d, Shuts(b, <<>>, c), Shuts(b, <<>>, d)
    PROVE  Shuts(b, <<>>, <<IfElse(T, c, d)>>)
  <1>1. Alt(<<>>, When(<<T>>, c), <<b>>, <<>>) /\ Alt(<<>>, Else(d), <<b>>, <<>>)
    BY AltSafe, AltLast, IsSeqs DEF Shuts
  <1>2. QED
    BY <1>1, Pick2, Nest0, IsSeqs DEF Shuts, IfElse

(* An expression in brackets: the opening one, its node, and what is inside.    *)
LEMMA Bracketed ==
    ASSUME NEW b \in Openers, NEW k, NEW w, Opens(b, k, w), NEW x, Safe(<<x>>), NEW y, Shuts(b, <<>>, <<y>>)
    PROVE  /\ Brings(k, <<w, x>> \o <<y>>)
           /\ \A z : Safe(<<z>>) => Brings(k, <<w, x, y, z>>)
  <1>1. <<w, x>> = <<w>> \o <<x>>
    BY Two
  <1>2. Run(<<x>>, <<>>, <<b>>, <<>>, <<b>>)
    BY SafeWithin
  <1>3. Brings(k, <<w, x>> \o <<y>>)
    BY <1>1, <1>2, RunJoin DEF Opens, Shuts, Brings
  <1>4. ASSUME NEW z, Safe(<<z>>) PROVE Brings(k, <<w, x, y, z>>)
    <2>1. Shuts(b, <<>>, <<y, z>>)
      BY <1>4, ShutsNext2
    <2>2. <<x, y, z>> = <<x>> \o <<y, z>>
      OBVIOUS
    <2>3. <<w, x, y, z>> = <<w>> \o <<x, y, z>>
      OBVIOUS
    <2>4. Run(<<x, y, z>>, <<>>, <<b>>, <<>>, <<>>)
      BY <1>2, <2>1, <2>2, RunJoin DEF Shuts
    <2>5. QED
      BY <2>3, <2>4, RunJoin DEF Opens, Brings
  <1>5. QED
    BY <1>3, <1>4

LEMMA RunCallExpression == Brings(<<{"("}>>, CallExpression)
  <1> DEFINE List == <<ExpressionList(")")>>
             c    == [make |-> <<Call("Type"), If({","}, <<Eat, Expr(LOWEST)>>), Opt({")"})>>,
                      min |-> <<IfElse(Primitive, <<Call("Type"), Opt({")"})>>, List)>>,
                      type |-> List, other |-> List]
  <1>1. "(" \in Openers
    BY Brackets
  <1>2. Shuts("(", <<>>, List)
    BY SafeExpressionList
  <1>3. Shuts("(", <<>>, <<Call("Type"), If({","}, <<Eat, Expr(LOWEST)>>), Opt({")"})>>)
    <2>1. Safe(<<If({","}, <<Eat, Expr(LOWEST)>>)>>)
      BY SafeIf, EatOnly, Words, SafeExpr, Cons2, IsSeqs DEF Safe
    <2>2. Brings(<<>>, <<Call("Type"), If({","}, <<Eat, Expr(LOWEST)>>)>>)
      BY <2>1, SafeCalls, Cons2 DEF Safe
    <2>3. QED
      BY <1>1, <2>2, ShutsFrom3, Parens, IsSeqs
  <1>4. Shuts("(", <<>>, <<IfElse(Primitive, <<Call("Type"), Opt({")"})>>, List)>>)
    <2>1. Shuts("(", <<>>, <<Call("Type"), Opt({")"})>>)
      BY <1>1, SafeCalls, ShutsFrom2, Parens, IsSeqs DEF Safe
    <2>2. QED
      BY <1>1, <1>2, <2>1, ShutsEither
  <1>5. /\ c["make"] = <<Call("Type"), If({","}, <<Eat, Expr(LOWEST)>>), Opt({")"})>>
        /\ c["min"] = <<IfElse(Primitive, <<Call("Type"), Opt({")"})>>, List)>>
        /\ c["type"] = List /\ c["other"] = List
    OBVIOUS
  <1> HIDE DEF c, List
  <1>6. \A d \in Kinds : Run(c[d], <<>>, <<"(">>, <<>>, <<>>)
    BY <1>2, <1>3, <1>4, <1>5 DEF Kinds, Shuts
  <1>7. Shuts("(", <<>>, <<ByKind(c)>>)
    BY <1>1, <1>6, ByKindRuns, IsSeqs, Nest0 DEF Shuts
  <1>8. Brings(<<{"("}>>, <<Eat, Node("(", "")>> \o <<ByKind(c)>>)
    BY <1>1, <1>7, Bracketed, Parens, SafeNodes, IsSeqs
  <1>9. Brings(<<{"("}>>, <<Eat, Node("(", "")>> \o <<ByKind(c)>> \o <<Node(")", "other")>>)
    BY <1>8, SafeNodes, Join
  <1>10. QED
    BY <1>9 DEF CallExpression, c, List

LEMMA ShutsBracketMap == Shuts("[", <<{":"}>>, BracketMap)
  <1>1. Safe(<<IfElse({"]"}, <<>>, <<Call("CollectionElement"), Call("MapValue")>>)>>)
    BY SafeEither, SafeNil, SafeCalls, Cons2, IsSeqs DEF Safe
  <1>2. Safe(<<While({","}, <<Eat, IfElse({"]"}, <<>>, <<Call("CollectionElement"), Call("MapValue")>>)>>)>>)
    BY <1>1, SafeWhile, EatOnly, Words, Cons2
  <1>3. Brings(<<{":"}>>, <<Eat, Expr(LOWEST), BracketMap[3]>>)
    BY <1>2, EatOnly, Words, SafeExpr, Cons2, Cons3 DEF BracketMap, Safe
  <1>4. Shuts("[", <<{":"}>>, <<Eat, Expr(LOWEST), BracketMap[3], Expect({"]"})>>)
    BY <1>3, ShutsFrom4, Squares, Brackets, IsSeqs
  <1>5. QED
    BY <1>4 DEF BracketMap

LEMMA ShutsSliceEnd == Shuts("[", <<>>, SliceEnd)
  BY SafeExpr, ShutsFrom2, Squares, Brackets, IsSeqs DEF SliceEnd, Safe

LEMMA NodeThen2 ==
    ASSUME NEW k, IsSeq(k), NEW n, NEW j \in Kinds \cup {""}, NEW o \in Nests, NEW l, NEW p, NEW y,
           Run(<<y>>, k, o, l, p)
    PROVE  Run(<<Node(n, j), y>>, k, o, l, p)
  <1> DEFINE N == Node(n, j)
  <1>1. Run(<<N>> \o <<y>>, k, o, l, p)
    BY NodeThen
  <1> HIDE DEF N
  <1>2. <<N>> \o <<y>> = <<N, y>>
    BY Two
  <1>3. QED
    BY <1>1, <1>2 DEF N

(* A token that is no bracket, taken within an open one.                      *)
LEMMA EatWithin3 ==
    ASSUME NEW b \in Openers, NEW T, Plain(T), NEW U, NEW x, NEW y, Shuts(b, <<U>>, <<x, y>>)
    PROVE  Shuts(b, <<T, U>>, <<Eat, x, y>>)
  <1>1. Takes(T, <<b>>, <<b>>)
    BY DEF Takes
  <1>2. Run(<<Eat>>, <<T, U>>, <<b>>, <<U>>, <<b>>)
    BY <1>1, EatRuns, IsSeqs, Nest0
  <1>3. <<Eat, x, y>> = <<Eat>> \o <<x, y>>
    OBVIOUS
  <1>4. QED
    BY <1>2, <1>3, RunJoin DEF Shuts

LEMMA RunArrayLiteral == Brings(<<{"["}>>, ArrayLiteral)
  <1> DEFINE More  == While({","}, <<Eat, IfElse({"]"}, <<>>, <<Call("CollectionElement")>>)>>)
             First == <<Call("CollectionElement"), IfElse({":"}, BracketMap, <<More, Expect({"]"})>>)>>
  <1>1. "[" \in Openers
    BY Brackets
  <1>2. Shuts("[", <<{"]"}>>, <<Eat>>)
    BY Squares, IsSeqs
  <1>3. Safe(<<If({"{"}, Elements)>>)
    BY RunElements, SafeIf, IsSeqs DEF Safe
  <1>4. Shuts("[", <<{"]"}>>, <<Eat, Call("Type"), If({"{"}, Elements)>>)
    <2>1. Safe(<<Call("Type"), If({"{"}, Elements)>>)
      BY <1>3, SafeCalls, Cons2 DEF Safe
    <2>2. QED
      BY <1>1, <1>2, <2>1, ShutsNext3
  <1>5. Shuts("[", <<Ident, {"]"}>>, <<Eat, Eat, If({"{"}, Elements)>>)
    <2>1. Shuts("[", <<{"]"}>>, <<Eat, If({"{"}, Elements)>>)
      BY <1>1, <1>2, <1>3, ShutsNext2
    <2>2. QED
      BY <1>1, <2>1, EatWithin3, Words
  <1>6. Shuts("[", <<>>, First)
    <2>1. Safe(<<IfElse({"]"}, <<>>, <<Call("CollectionElement")>>)>>)
      BY SafeEither, SafeNil, SafeCalls, IsSeqs DEF Safe
    <2>2. Safe(<<More>>)
      BY <2>1, SafeWhile, EatOnly, Words, Cons2
    <2> HIDE DEF More
    <2>3. Shuts("[", <<>>, <<More, Expect({"]"})>>)
      BY <1>1, <2>2, ShutsFrom2, Squares, IsSeqs DEF Safe
    <2>4. Shuts("[", <<>>, <<IfElse({":"}, BracketMap, <<More, Expect({"]"})>>)>>)
      BY <1>1, <2>3, ShutsBracketMap, ShutsIfElse
    <2>5. QED
      BY <1>1, <2>4, SafeCalls, ShutsFrom2 DEF Safe
  <1> HIDE DEF First
  <1>7. /\ Alt(<<>>, When(<<{"]"}, TypeStart>>, <<Eat, Call("Type"), If({"{"}, Elements)>>), <<"[">>, <<>>)
        /\ Alt(<<>>, When(<<{"]"}>>, <<Eat>>), <<"[">>, <<>>)
        /\ Alt(<<>>, When(<<Ident, {"]"}>>, <<Eat, Eat, If({"{"}, Elements)>>), <<"[">>, <<>>)
        /\ Alt(<<>>, Else(First), <<"[">>, <<>>)
    BY <1>2, <1>4, <1>5, <1>6, AltFirst, AltTest, AltLast, IsSeqs DEF Shuts
  <1>8. Shuts("[", <<>>, <<ArrayLiteral[3]>>)
    BY <1>1, <1>7, Pick4, IsSeqs, Nest0 DEF ArrayLiteral, Shuts, First
  <1>9. Brings(<<{"["}>>, <<Eat, Node("[", "other"), ArrayLiteral[3], Node("array", "other")>>)
    BY <1>1, <1>8, Bracketed, Squares, SafeNodes, IsSeqs
  <1>10. QED
    BY <1>9 DEF ArrayLiteral

LEMMA RunIndexExpression == Brings(<<{"["}>>, IndexExpression)
  <1> DEFINE Slice == <<Eat, Node("slice", "other")>>
             To    == Pick(<<When(<<{".."}, {"]"}>>, <<Eat, Node("slice", "other"), Eat>>),
                             When(<<{"..", ":"}>>, Slice \o SliceEnd), Else(<<Expect({"]"})>>)>>)
  <1>1. "[" \in Openers
    BY Brackets
  <1>2. Shuts("[", <<{".."}, {"]"}>>, <<Eat, Node("slice", "other"), Eat>>)
    <2>1. Run(<<Eat>>, <<{"]"}>>, <<"[">>, <<>>, <<>>)
      BY Squares, IsSeqs DEF Shuts
    <2>2. "other" \in Kinds \cup {""} /\ <<"[">> \in Nests
      BY <1>1, Nest0 DEF Kinds
    <2>3. Run(<<Node("slice", "other"), Eat>>, <<{"]"}>>, <<"[">>, <<>>, <<>>)
      BY <2>1, <2>2, NodeThen2, IsSeqs
    <2>4. QED
      BY <1>1, <2>3, EatWithin3, Words DEF Shuts
  <1>3. /\ Shuts("[", <<{".."}>>, Slice \o SliceEnd) /\ Shuts("[", <<{"..", ":"}>>, Slice \o SliceEnd)
        /\ Shuts("[", <<{"^"}>>, <<Eat, Node("^", "other")>> \o SliceEnd)
    <2>1. Plain({"..", ":"})
      BY Brackets DEF Plain
    <2>2. Brings(<<{".."}>>, Slice) /\ Brings(<<{"..", ":"}>>, Slice) /\ Brings(<<{"^"}>>, <<Eat, Node("^", "other")>>)
      BY <2>1, EatOnly, Words, SafeNodes, Cons2
    <2>3. QED
      BY <1>1, <2>2, ShutsSliceEnd, ShutsFrom
  <1>4. Shuts("[", <<>>, <<Expr(RANGE), To>>)
    <2>1. Shuts("[", <<>>, <<Expect({"]"})>>)
      BY Squares, IsSeqs
    <2>2. /\ Alt(<<>>, When(<<{".."}, {"]"}>>, <<Eat, Node("slice", "other"), Eat>>), <<"[">>, <<>>)
          /\ Alt(<<>>, When(<<{"..", ":"}>>, Slice \o SliceEnd), <<"[">>, <<>>)
          /\ Alt(<<>>, Else(<<Expect({"]"})>>), <<"[">>, <<>>)
      BY <1>2, <1>3, <2>1, AltTest, AltLast, IsSeqs DEF Shuts
    <2>3. Shuts("[", <<>>, <<To>>)
      BY <1>1, <2>2, Pick3, IsSeqs, Nest0 DEF Shuts
    <2> HIDE DEF To
    <2>4. QED
      BY <1>1, <2>3, SafeExpr, ShutsFrom2 DEF Safe
  <1>5. /\ Alt(<<>>, When(<<{".."}, {"]"}>>, <<Eat, Node("slice", "other"), Eat>>), <<"[">>, <<>>)
        /\ Alt(<<>>, When(<<{".."}>>, Slice \o SliceEnd), <<"[">>, <<>>)
        /\ Alt(<<>>, When(<<{"^"}>>, <<Eat, Node("^", "other")>> \o SliceEnd), <<"[">>, <<>>)
        /\ Alt(<<>>, Else(<<Expr(RANGE), To>>), <<"[">>, <<>>)
    BY <1>2, <1>3, <1>4, AltTest, AltLast, IsSeqs DEF Shuts
  <1>6. Shuts("[", <<>>, <<IndexExpression[3]>>)
    BY <1>1, <1>5, Pick4, IsSeqs, Nest0 DEF IndexExpression, Shuts
  <1>7. Brings(<<{"["}>>, <<Eat, Node("[", "other"), IndexExpression[3], Node("]", "other")>>)
    BY <1>1, <1>6, Bracketed, Squares, SafeNodes, IsSeqs
  <1>8. QED
    BY <1>7 DEF IndexExpression

LEMMA RunFieldAccessExpression == Brings(<<{"."}>>, FieldAccessExpression)
  <1> DEFINE Args(j) == <<Eat, Call("GenericArgs"), Node(".", j)>>
  <1>1. Brings(<<Upper, {"<"}>>, Args("type")) /\ Brings(<<Ident, {"<"}>>, Args("other"))
    <2>1. /\ Brings(<<{"<"}>>, <<Call("GenericArgs"), Node(".", "type")>>)
          /\ Brings(<<{"<"}>>, <<Call("GenericArgs"), Node(".", "other")>>)
      BY BringsCalls, SafeNodes, Cons2
    <2>2. QED
      BY <2>1, EatNext3, Words
  <1>2. Alt(<<Ident>>, When(<<Upper, {"<"}>>, Args("type")), <<>>, <<>>)
    BY <1>1, AltTest, IsSeqs DEF Brings
  <1>3. Alt(<<Ident>>, When(<<{}, {"<"}, TypeAhead>>, Args("other")), <<>>, <<>>)
    <2>1. Ident # {} /\ {"<"} # {}
      BY Words DEF Plain
    <2>2. QED
      BY <1>1, <2>1, AltMerged DEF Brings
  <1>4. Alt(<<Ident>>, Else(FieldName), <<>>, <<>>)
    BY RunFieldName, AltLast DEF Safe, Brings
  <1>5. Brings(<<Ident>>, <<FieldAccessExpression[3]>>)
    BY <1>2, <1>3, <1>4, Pick3, IsSeqs, Nest0 DEF FieldAccessExpression, Brings
  <1>6. Safe(<<At(Ident), FieldAccessExpression[3]>>)
    BY <1>5, AtThen2, IsSeqs DEF Safe
  <1>7. Brings(<<{"."}>>, <<Eat, At(Ident), FieldAccessExpression[3]>>)
    BY <1>6, EatOnly, Words, Cons3
  <1>8. QED
    BY <1>7 DEF FieldAccessExpression

LEMMA RunStructInit == Brings(<<{"{"}>>, StructInit)
  <1> DEFINE Field == <<Eat, IfElse({":"}, <<Eat, Expr(LOWEST), If({","}, <<Eat>>)>>, <<Err, Break>>)>>
             Body1 == <<IfElse(Ident, Field, <<Err, Break>>)>>
  <1>1. Brings(<<{":"}>>, <<Eat, Expr(LOWEST), If({","}, <<Eat>>)>>)
    BY SafeComma, EatOnly, Words, SafeExpr, Cons2, Cons3 DEF Safe
  <1>2. Brings(<<Ident>>, Field)
    <2>1. Safe(<<IfElse({":"}, <<Eat, Expr(LOWEST), If({","}, <<Eat>>)>>, <<Err, Break>>)>>)
      BY <1>1, SafeIfElse, SafeErr, IsSeqs DEF Safe
    <2>2. QED
      BY <2>1, EatOnly, Words, Cons2
  <1> HIDE DEF Field
  <1>3. Safe(Body1)
    BY <1>2, SafeIfElse, SafeErr, IsSeqs DEF Safe
  <1>4. Brings(<<{"{"}>>, <<Eat, Until({"}"}, Body1), Expect({"}"})>>)
    BY <1>3, SafeUntil, Braces, IsSeqs
  <1>5. Brings(<<{"{"}>>, <<Eat, Until({"}"}, Body1), Expect({"}"}), Node("init", "other")>>)
    BY <1>4, SafeNodes, Pair4
  <1>6. QED
    BY <1>5 DEF StructInit, Field

LEMMA RunQueryExpr == Brings(<<{"from"}>>, QueryExpr)
  <1> DEFINE T      == {"where", "orderby", "group", "join"}
             Clause == Pick(<<When(<<{"where"}>>, <<Eat, Expr(LOWEST)>>),
                              When(<<{"orderby"}>>, <<Eat, Expr(LOWEST), If({"ascending", "descending"}, <<Eat>>)>>),
                              When(<<{"group"}>>, <<Eat, Expr(LOWEST), If({"by"}, <<Eat>>)>>),
                              Else(<<Eat, Need(Ident), Need({"in"}), Expr(LOWEST)>>)>>)
  <1>1. Plain(T) /\ Plain({"ascending", "descending"})
    BY Brackets DEF Plain
  <1> HIDE DEF T
  <1>2. Safe(<<If({"ascending", "descending"}, <<Eat>>)>>) /\ Safe(<<If({"by"}, <<Eat>>)>>)
    BY <1>1, SafeIf, EatOnly, Words, IsSeqs DEF Safe
  <1>3. /\ Brings(<<{"where"}>>, <<Eat, Expr(LOWEST)>>)
        /\ Brings(<<{"orderby"}>>, <<Eat, Expr(LOWEST), If({"ascending", "descending"}, <<Eat>>)>>)
        /\ Brings(<<{"group"}>>, <<Eat, Expr(LOWEST), If({"by"}, <<Eat>>)>>)
    BY <1>2, EatOnly, Words, SafeExpr, Cons2, Cons3 DEF Safe
  <1>4. Brings(<<T>>, <<Eat, Need(Ident), Need({"in"}), Expr(LOWEST)>>)
    BY <1>1, EatOnly, Words, SafeTake, SafeExpr, Cons2, Cons3, Cons4 DEF Safe
  <1>5. /\ Alt(<<T>>, When(<<{"where"}>>, <<Eat, Expr(LOWEST)>>), <<>>, <<>>)
        /\ Alt(<<T>>, When(<<{"orderby"}>>, <<Eat, Expr(LOWEST), If({"ascending", "descending"}, <<Eat>>)>>), <<>>, <<>>)
        /\ Alt(<<T>>, When(<<{"group"}>>, <<Eat, Expr(LOWEST), If({"by"}, <<Eat>>)>>), <<>>, <<>>)
    BY <1>3, AltTest, IsSeqs DEF Brings
  <1>6. Alt(<<T>>, Else(<<Eat, Need(Ident), Need({"in"}), Expr(LOWEST)>>), <<>>, <<>>)
    <2>1. T # {}
      BY <1>1 DEF Plain
    <2>2. QED
      BY <1>4, <2>1, AltKept, IsSeqs DEF Brings, Otherwise
  <1>7. Brings(<<T>>, <<Clause>>)
    BY <1>5, <1>6, Pick4, IsSeqs, Nest0 DEF Brings
  <1> HIDE DEF Clause
  <1>8. Safe(<<While(T, <<Clause>>)>>)
    BY <1>7, SafeWhile
  <1>9. Safe(<<Need({"select"}), Expr(LOWEST), Node("query", "other")>>)
    BY SafeTake, Words, SafeExpr, SafeNodes, Cons2, Cons3 DEF Safe
  <1>10. Safe(<<Expr(LOWEST), While(T, <<Clause>>), Need({"select"}), Expr(LOWEST), Node("query", "other")>>)
    BY <1>8, <1>9, SafeExpr, Cons4, Cons5 DEF Safe
  <1>11. Brings(<<{"from"}>>, <<Eat, Need(Ident), Need({"in"}), Expr(LOWEST), While(T, <<Clause>>), Need({"select"}),
                                Expr(LOWEST), Node("query", "other")>>)
    BY <1>10, EatOnly, SafeTake, Words, Cons6, Cons7, Cons8 DEF Safe
  <1>12. QED
    BY <1>11 DEF QueryExpr, T, Clause

(* The operands and the operators of expressions.                             *)
LEMMA RunOperands == Operands
  <1> DEFINE a1 == When(<<Ident \cup {"int", "badnum", "badfloat", "bool", "error", "chan", "tensor"}>>, <<Call("Identifier")>>)
             a2 == When(<<{"num", "float", "str", "true", "nil"}>>, <<Eat, Node("1", "other")>>)
             a3 == When(<<{"-"}>>, Prefixed("neg"))
             a4 == When(<<{"*", "&", "<-", "!"}>>, Prefixed("!"))
             a5 == When(<<{"("}>>, <<Call("GroupedExpression")>>)
             a6 == When(<<{"["}>>, <<Call("ArrayLiteral")>>)
             a7 == When(<<{"fn"}>>, <<Call("FnLiteral")>>)
             a8 == When(<<{"if"}>>, <<Call("IfExpr")>>)
             a9 == When(<<{"match"}, {"{"}>>, <<Call("Identifier")>>)
             a10 == When(<<{"match"}>>, <<Call("MatchExpr")>>)
             a11 == When(<<{"{"}>>, <<Call("MapLiteral")>>)
             a12 == When(<<{"await"}>>, Greedy)
             a13 == When(<<{"sizeof"}>>, <<Call("SizeofExpr")>>)
             a14 == When(<<{"set"}>>, <<Call("SetLiteral")>>)
             a15 == When(<<{"from"}>>, <<Call("QueryExpr")>>)
             A(a) == Alt(<<>>, a, <<>>, <<>>)
  <1>1. A(a1) /\ A(a9)
    <2> DEFINE T == Ident \cup {"int", "badnum", "badfloat", "bool", "error", "chan", "tensor"}
               U == Ident \cup {"int", "badnum", "badfloat", "bool", "error", "chan", "tensor", "match"}
    <2>1. "Identifier" \in DOMAIN Body /\ Start["Identifier"] = <<U>>
      BY DEF Body, Start
    <2>2. T # {} /\ T \subseteq U /\ {"match"} # {} /\ {"match"} \subseteq U
      OBVIOUS
    <2> HIDE DEF T, U
    <2>3. Brings(<<T>>, <<Call("Identifier")>>) /\ Brings(<<{"match"}>>, <<Call("Identifier")>>)
      BY <2>1, <2>2, BringsCall
    <2>4. Alt(<<>>, When(<<T>>, <<Call("Identifier")>>), <<>>, <<>>)
      BY <2>3, AltTest, IsSeqs DEF Brings
    <2>5. A(a9)
      BY <2>3, AltFirst DEF Brings
    <2>6. QED
      BY <2>4, <2>5 DEF T
  <1>2. A(a2) /\ A(a3) /\ A(a4) /\ A(a12)
    <2>1. Plain({"num", "float", "str", "true", "nil"}) /\ Plain({"*", "&", "<-", "!"})
      BY Brackets DEF Plain
    <2>2. /\ Brings(<<{"num", "float", "str", "true", "nil"}>>, <<Eat, Node("1", "other")>>)
          /\ Brings(<<{"-"}>>, Prefixed("neg")) /\ Brings(<<{"*", "&", "<-", "!"}>>, Prefixed("!"))
          /\ Brings(<<{"await"}>>, Greedy)
      BY <2>1, EatOnly, Words, SafeExpr, SafeNodes, Cons2, Cons3 DEF Prefixed, Greedy, Safe
    <2>3. QED
      BY <2>2, AltTest, IsSeqs DEF Brings
  <1>3. A(a5) /\ A(a6) /\ A(a7) /\ A(a8) /\ A(a10) /\ A(a11) /\ A(a13) /\ A(a14) /\ A(a15)
    BY BringsCalls, AltTest, IsSeqs DEF Brings
  <1>4. Alt(<<>>, Else(<<Err, Eat, Return>>), <<>>, <<>>)
    BY SafeErr, AltLast DEF Safe, Brings
  <1> HIDE DEF a1, a2, a3, a4, a5, a6, a7, a8, a9, a10, a11, a12, a13, a14, a15
  <1>5. Run(<<Pick(<<a1, a2, a3, a4, a5, a6, a7, a8, a9, a10, a11, a12, a13, a14, a15, Else(<<Err, Eat, Return>>)>>)>>, <<>>, <<>>, <<>>, <<>>)
    BY <1>1, <1>2, <1>3, <1>4, Pick16, IsSeqs, Nest0
  <1>6. QED
    BY <1>5 DEF Operands, PrefixFn, a1, a2, a3, a4, a5, a6, a7, a8, a9, a10, a11, a12, a13, a14, a15

LEMMA RunAfterOperators == Safe(<<AfterOperators>>)
  <1> DEFINE c == [type |-> <<StructInitNext>>, make |-> <<>>, min |-> <<>>, other |-> <<>>]
  <1>1. c["make"] = <<>> /\ c["min"] = <<>> /\ c["other"] = <<>> /\ c["type"] = <<StructInitNext>>
    OBVIOUS
  <1> HIDE DEF c
  <1>2. \A d \in Kinds : Run(c[d], <<>>, <<>>, <<>>, <<>>)
    BY <1>1, SafeNil, SafeStructInitNext DEF Kinds, Safe, Brings
  <1>3. Run(<<ByKind(c)>>, <<>>, <<>>, <<>>, <<>>)
    BY <1>2, ByKindRuns, IsSeqs, Nest0
  <1>4. QED
    BY <1>3 DEF AfterOperators, c, Safe, Brings

LEMMA LowestEnds == ~(LOWEST > LOWEST)
  BY DEF LOWEST

LEMMA RunInfixFn ==
    ASSUME NEW t, Prec(t) > LOWEST
    PROVE  Brings(<<{t}>>, InfixFn(t))
  <1>1. Prec(t) \in Nat
    BY DEF Prec, LOWEST
  <1>2. t \in {"(", "[", "."} \/ Plain({t})
    <2>1. ASSUME NEW u \in {"{", ")", "]", "}", "eof"} PROVE Prec(u) = LOWEST
      BY DEF Prec
    <2>2. t \notin {"{", ")", "]", "}", "eof"}
      BY <2>1, LowestEnds
    <2>3. QED
      BY <2>2, Words
  <1>3. CASE t = "("
    BY <1>3, BringsCalls DEF InfixFn
  <1>4. CASE t = "["
    BY <1>4, BringsCalls DEF InfixFn
  <1>5. CASE t = "."
    BY <1>5, BringsCalls DEF InfixFn
  <1>6. CASE t \notin {"(", "[", "."}
    <2>1. Brings(<<{t}>>, <<Eat>>) /\ Safe(<<Expr(LOWEST)>>) /\ Safe(<<Operand(t)>>)
      BY <1>1, <1>2, <1>6, EatOnly, SafeExpr DEF Operand
    <2>2. Safe(<<Node(t, "other")>>) /\ Safe(<<Node("?", "other")>>)
      BY SafeNodes
    <2>3. /\ Brings(<<{t}>>, <<Eat, Expr(LOWEST), Node(t, "other")>>)
          /\ Brings(<<{t}>>, <<Eat, Operand(t), Node(t, "other")>>)
          /\ Brings(<<{t}>>, <<Eat, Node("?", "other")>>)
      BY <2>1, <2>2, Cons2, Cons3 DEF Safe
    <2>4. CASE t \in {"=", ".."}
      BY <2>3, <2>4 DEF InfixFn
    <2>5. CASE t = "?"
      BY <2>3, <2>5 DEF InfixFn
    <2>6. CASE t \notin {"=", "..", "?"}
      BY <1>6, <2>3, <2>6 DEF InfixFn
    <2>7. QED
      BY <2>4, <2>5, <2>6
  <1>7. QED
    BY <1>3, <1>4, <1>5, <1>6

LEMMA RunOperators == Operators
  BY RunInfixFn, RunAfterOperators DEF Operators, Safe, Brings

LEMMA RunProgram == Safe(ParseProgram)
  BY SafeUntil, SafeWhile, SafeCalls, EatOnly, Cons2, Cons3, Words DEF ParseProgram, Safe

LEMMA RunBodies == Bodies
  <1>1. Run(Body["Declaration"], Start["Declaration"], <<>>, <<>>, <<>>)
    <2>1. Body["Declaration"] = Declaration /\ Start["Declaration"] = <<>>
      BY DEF Body, Start
    <2>2. QED
      BY <2>1, RunDeclaration DEF Safe, Brings
  <1>2. Run(Body["TypeParamList"], Start["TypeParamList"], <<>>, <<>>, <<>>)
    <2>1. Body["TypeParamList"] = TypeParamList /\ Start["TypeParamList"] = <<{"<"}>>
      BY DEF Body, Start
    <2>2. QED
      BY <2>1, RunTypeParamList DEF Safe, Brings
  <1>3. Run(Body["FnDecl"], Start["FnDecl"], <<>>, <<>>, <<>>)
    <2>1. Body["FnDecl"] = FnDecl /\ Start["FnDecl"] = <<{"fn"}>>
      BY DEF Body, Start
    <2>2. QED
      BY <2>1, RunFnDecl DEF Safe, Brings
  <1>4. Run(Body["ExternFnDecl"], Start["ExternFnDecl"], <<>>, <<>>, <<>>)
    <2>1. Body["ExternFnDecl"] = ExternFnDecl /\ Start["ExternFnDecl"] = <<{"fn"}>>
      BY DEF Body, Start
    <2>2. QED
      BY <2>1, RunExternFnDecl DEF Safe, Brings
  <1>5. Run(Body["ParamList"], Start["ParamList"], <<>>, <<>>, <<>>)
    <2>1. Body["ParamList"] = ParamList /\ Start["ParamList"] = <<>>
      BY DEF Body, Start
    <2>2. QED
      BY <2>1, RunParamList DEF Safe, Brings
  <1>6. Run(Body["Type"], Start["Type"], <<>>, <<>>, <<>>)
    <2>1. Body["Type"] = Type /\ Start["Type"] = <<>>
      BY DEF Body, Start
    <2>2. QED
      BY <2>1, RunType DEF Safe, Brings
  <1>7. Run(Body["FunctionType"], Start["FunctionType"], <<>>, <<>>, <<>>)
    <2>1. Body["FunctionType"] = FunctionType /\ Start["FunctionType"] = <<{"fn"}>>
      BY DEF Body, Start
    <2>2. QED
      BY <2>1, RunFunctionType DEF Safe, Brings
  <1>8. Run(Body["BlockStmt"], Start["BlockStmt"], <<>>, <<>>, <<>>)
    <2>1. Body["BlockStmt"] = BlockStmt /\ Start["BlockStmt"] = <<>>
      BY DEF Body, Start
    <2>2. QED
      BY <2>1, RunBlockStmt DEF Safe, Brings
  <1>9. Run(Body["Statement"], Start["Statement"], <<>>, <<>>, <<>>)
    <2>1. Body["Statement"] = Statement /\ Start["Statement"] = <<>>
      BY DEF Body, Start
    <2>2. QED
      BY <2>1, RunStatement DEF Safe, Brings
  <1>10. Run(Body["VarDecl"], Start["VarDecl"], <<>>, <<>>, <<>>)
    <2>1. Body["VarDecl"] = VarDecl /\ Start["VarDecl"] = <<>>
      BY DEF Body, Start
    <2>2. QED
      BY <2>1, RunVarDecl DEF Safe, Brings
  <1>11. Run(Body["TopLevelVarDecl"], Start["TopLevelVarDecl"], <<>>, <<>>, <<>>)
    <2>1. Body["TopLevelVarDecl"] = TopLevelVarDecl /\ Start["TopLevelVarDecl"] = <<>>
      BY DEF Body, Start
    <2>2. QED
      BY <2>1, RunVarDecl DEF Safe, Brings
  <1>12. Run(Body["VarBlockStmt"], Start["VarBlockStmt"], <<>>, <<>>, <<>>)
    <2>1. Body["VarBlockStmt"] = VarBlockStmt /\ Start["VarBlockStmt"] = <<{"{"}>>
      BY DEF Body, Start
    <2>2. QED
      BY <2>1, RunVarBlockStmt DEF Safe, Brings
  <1>13. Run(Body["ReturnStmt"], Start["ReturnStmt"], <<>>, <<>>, <<>>)
    <2>1. Body["ReturnStmt"] = ReturnStmt /\ Start["ReturnStmt"] = <<{"return"}>>
      BY DEF Body, Start
    <2>2. QED
      BY <2>1, RunReturnStmt DEF Safe, Brings
  <1>14. Run(Body["IfStmt"], Start["IfStmt"], <<>>, <<>>, <<>>)
    <2>1. Body["IfStmt"] = IfStmt /\ Start["IfStmt"] = <<{"if"}>>
      BY DEF Body, Start
    <2>2. QED
      BY <2>1, RunIfStmt DEF Safe, Brings
  <1>15. Run(Body["IfExpr"], Start["IfExpr"], <<>>, <<>>, <<>>)
    <2>1. Body["IfExpr"] = IfExpr /\ Start["IfExpr"] = <<{"if"}>>
      BY DEF Body, Start
    <2>2. QED
      BY <2>1, RunIfExpr DEF Safe, Brings
  <1>16. Run(Body["AssignmentStmt"], Start["AssignmentStmt"], <<>>, <<>>, <<>>)
    <2>1. Body["AssignmentStmt"] = AssignmentStmt /\ Start["AssignmentStmt"] = <<>>
      BY DEF Body, Start
    <2>2. QED
      BY <2>1, RunAssignmentStmt DEF Safe, Brings
  <1>17. Run(Body["LValue"], Start["LValue"], <<>>, <<>>, <<>>)
    <2>1. Body["LValue"] = LValue /\ Start["LValue"] = <<>>
      BY DEF Body, Start
    <2>2. QED
      BY <2>1, RunLValue DEF Safe, Brings
  <1>18. Run(Body["ConstDecl"], Start["ConstDecl"], <<>>, <<>>, <<>>)
    <2>1. Body["ConstDecl"] = ConstDecl /\ Start["ConstDecl"] = <<{"const"}>>
      BY DEF Body, Start
    <2>2. QED
      BY <2>1, RunConstDecl DEF Safe, Brings
  <1>19. Run(Body["TypeAliasDecl"], Start["TypeAliasDecl"], <<>>, <<>>, <<>>)
    <2>1. Body["TypeAliasDecl"] = TypeAliasDecl /\ Start["TypeAliasDecl"] = <<{"type"}>>
      BY DEF Body, Start
    <2>2. QED
      BY <2>1, RunTypeAliasDecl DEF Safe, Brings
  <1>20. Run(Body["StructDecl"], Start["StructDecl"], <<>>, <<>>, <<>>)
    <2>1. Body["StructDecl"] = StructDecl /\ Start["StructDecl"] = <<{"struct"}>>
      BY DEF Body, Start
    <2>2. QED
      BY <2>1, RunStructDecl DEF Safe, Brings
  <1>21. Run(Body["ServiceDecl"], Start["ServiceDecl"], <<>>, <<>>, <<>>)
    <2>1. Body["ServiceDecl"] = ServiceDecl /\ Start["ServiceDecl"] = <<{"service"}>>
      BY DEF Body, Start
    <2>2. QED
      BY <2>1, RunServiceDecl DEF Safe, Brings
  <1>22. Run(Body["RulesetDecl"], Start["RulesetDecl"], <<>>, <<>>, <<>>)
    <2>1. Body["RulesetDecl"] = RulesetDecl /\ Start["RulesetDecl"] = <<{"ruleset"}>>
      BY DEF Body, Start
    <2>2. QED
      BY <2>1, RunRulesetDecl DEF Safe, Brings
  <1>23. Run(Body["TemplateDecl"], Start["TemplateDecl"], <<>>, <<>>, <<>>)
    <2>1. Body["TemplateDecl"] = TemplateDecl /\ Start["TemplateDecl"] = <<{"template"}>>
      BY DEF Body, Start
    <2>2. QED
      BY <2>1, RunTemplateDecl DEF Safe, Brings
  <1>24. Run(Body["FnSignature"], Start["FnSignature"], <<>>, <<>>, <<>>)
    <2>1. Body["FnSignature"] = FnSignature /\ Start["FnSignature"] = <<{"fn"}>>
      BY DEF Body, Start
    <2>2. QED
      BY <2>1, RunFnSignature DEF Safe, Brings
  <1>25. Run(Body["RuleDecl"], Start["RuleDecl"], <<>>, <<>>, <<>>)
    <2>1. Body["RuleDecl"] = RuleDecl /\ Start["RuleDecl"] = <<{"rule"}>>
      BY DEF Body, Start
    <2>2. QED
      BY <2>1, RunRuleDecl DEF Safe, Brings
  <1>26. Run(Body["EnumDecl"], Start["EnumDecl"], <<>>, <<>>, <<>>)
    <2>1. Body["EnumDecl"] = EnumDecl /\ Start["EnumDecl"] = <<{"enum"}>>
      BY DEF Body, Start
    <2>2. QED
      BY <2>1, RunEnumDecl DEF Safe, Brings
  <1>27. Run(Body["ModuleDecl"], Start["ModuleDecl"], <<>>, <<>>, <<>>)
    <2>1. Body["ModuleDecl"] = ModuleDecl /\ Start["ModuleDecl"] = <<>>
      BY DEF Body, Start
    <2>2. QED
      BY <2>1, RunModuleDecl DEF Safe, Brings
  <1>28. Run(Body["ImportDecl"], Start["ImportDecl"], <<>>, <<>>, <<>>)
    <2>1. Body["ImportDecl"] = ImportDecl /\ Start["ImportDecl"] = <<>>
      BY DEF Body, Start
    <2>2. QED
      BY <2>1, RunImportDecl DEF Safe, Brings
  <1>29. Run(Body["ImportBlock"], Start["ImportBlock"], <<>>, <<>>, <<>>)
    <2>1. Body["ImportBlock"] = ImportBlock /\ Start["ImportBlock"] = <<{"{"}>>
      BY DEF Body, Start
    <2>2. QED
      BY <2>1, RunImportBlock DEF Safe, Brings
  <1>30. Run(Body["ForStmt"], Start["ForStmt"], <<>>, <<>>, <<>>)
    <2>1. Body["ForStmt"] = ForStmt /\ Start["ForStmt"] = <<{"for"}>>
      BY DEF Body, Start
    <2>2. QED
      BY <2>1, RunForStmt DEF Safe, Brings
  <1>31. Run(Body["WithStmt"], Start["WithStmt"], <<>>, <<>>, <<>>)
    <2>1. Body["WithStmt"] = WithStmt /\ Start["WithStmt"] = <<{"with"}>>
      BY DEF Body, Start
    <2>2. QED
      BY <2>1, RunWithStmt DEF Safe, Brings
  <1>32. Run(Body["MatchExpr"], Start["MatchExpr"], <<>>, <<>>, <<>>)
    <2>1. Body["MatchExpr"] = MatchExpr /\ Start["MatchExpr"] = <<{"match"}>>
      BY DEF Body, Start
    <2>2. QED
      BY <2>1, RunMatchExpr DEF Safe, Brings
  <1>33. Run(Body["SelectStmt"], Start["SelectStmt"], <<>>, <<>>, <<>>)
    <2>1. Body["SelectStmt"] = SelectStmt /\ Start["SelectStmt"] = <<{"select"}>>
      BY DEF Body, Start
    <2>2. QED
      BY <2>1, RunSelectStmt DEF Safe, Brings
  <1>34. Run(Body["SwitchStmt"], Start["SwitchStmt"], <<>>, <<>>, <<>>)
    <2>1. Body["SwitchStmt"] = SwitchStmt /\ Start["SwitchStmt"] = <<{"switch"}>>
      BY DEF Body, Start
    <2>2. QED
      BY <2>1, RunSwitchStmt DEF Safe, Brings
  <1>35. Run(Body["SizeofExpr"], Start["SizeofExpr"], <<>>, <<>>, <<>>)
    <2>1. Body["SizeofExpr"] = SizeofExpr /\ Start["SizeofExpr"] = <<{"sizeof"}>>
      BY DEF Body, Start
    <2>2. QED
      BY <2>1, RunSizeofExpr DEF Safe, Brings
  <1>36. Run(Body["Identifier"], Start["Identifier"], <<>>, <<>>, <<>>)
    <2>1. Body["Identifier"] = Identifier
      BY DEF Body
    <2>2. QED
      BY <2>1, RunIdentifier DEF Brings
  <1>37. Run(Body["GenericArgs"], Start["GenericArgs"], <<>>, <<>>, <<>>)
    <2>1. Body["GenericArgs"] = GenericArgs /\ Start["GenericArgs"] = <<{"<"}>>
      BY DEF Body, Start
    <2>2. QED
      BY <2>1, RunGenericArgs DEF Safe, Brings
  <1>38. Run(Body["CallExpression"], Start["CallExpression"], <<>>, <<>>, <<>>)
    <2>1. Body["CallExpression"] = CallExpression /\ Start["CallExpression"] = <<{"("}>>
      BY DEF Body, Start
    <2>2. QED
      BY <2>1, RunCallExpression DEF Safe, Brings
  <1>39. Run(Body["CollectionElement"], Start["CollectionElement"], <<>>, <<>>, <<>>)
    <2>1. Body["CollectionElement"] = CollectionElement /\ Start["CollectionElement"] = <<>>
      BY DEF Body, Start
    <2>2. QED
      BY <2>1, RunCollectionElement DEF Safe, Brings
  <1>40. Run(Body["MapValue"], Start["MapValue"], <<>>, <<>>, <<>>)
    <2>1. Body["MapValue"] = MapValue /\ Start["MapValue"] = <<>>
      BY DEF Body, Start
    <2>2. QED
      BY <2>1, RunMapValue DEF Safe, Brings
  <1>41. Run(Body["ArrayLiteral"], Start["ArrayLiteral"], <<>>, <<>>, <<>>)
    <2>1. Body["ArrayLiteral"] = ArrayLiteral /\ Start["ArrayLiteral"] = <<{"["}>>
      BY DEF Body, Start
    <2>2. QED
      BY <2>1, RunArrayLiteral DEF Safe, Brings
  <1>42. Run(Body["MapLiteral"], Start["MapLiteral"], <<>>, <<>>, <<>>)
    <2>1. Body["MapLiteral"] = MapLiteral /\ Start["MapLiteral"] = <<{"{"}>>
      BY DEF Body, Start
    <2>2. QED
      BY <2>1, RunMapLiteral DEF Safe, Brings
  <1>43. Run(Body["SetLiteral"], Start["SetLiteral"], <<>>, <<>>, <<>>)
    <2>1. Body["SetLiteral"] = SetLiteral /\ Start["SetLiteral"] = <<{"set"}>>
      BY DEF Body, Start
    <2>2. QED
      BY <2>1, RunSetLiteral DEF Safe, Brings
  <1>44. Run(Body["FnLiteral"], Start["FnLiteral"], <<>>, <<>>, <<>>)
    <2>1. Body["FnLiteral"] = FnLiteral /\ Start["FnLiteral"] = <<{"fn"}>>
      BY DEF Body, Start
    <2>2. QED
      BY <2>1, RunFnLiteral DEF Safe, Brings
  <1>45. Run(Body["IndexExpression"], Start["IndexExpression"], <<>>, <<>>, <<>>)
    <2>1. Body["IndexExpression"] = IndexExpression /\ Start["IndexExpression"] = <<{"["}>>
      BY DEF Body, Start
    <2>2. QED
      BY <2>1, RunIndexExpression DEF Safe, Brings
  <1>46. Run(Body["FieldAccessExpression"], Start["FieldAccessExpression"], <<>>, <<>>, <<>>)
    <2>1. Body["FieldAccessExpression"] = FieldAccessExpression /\ Start["FieldAccessExpression"] = <<{"."}>>
      BY DEF Body, Start
    <2>2. QED
      BY <2>1, RunFieldAccessExpression DEF Safe, Brings
  <1>47. Run(Body["StructInit"], Start["StructInit"], <<>>, <<>>, <<>>)
    <2>1. Body["StructInit"] = StructInit /\ Start["StructInit"] = <<{"{"}>>
      BY DEF Body, Start
    <2>2. QED
      BY <2>1, RunStructInit DEF Safe, Brings
  <1>48. Run(Body["GroupedExpression"], Start["GroupedExpression"], <<>>, <<>>, <<>>)
    <2>1. Body["GroupedExpression"] = GroupedExpression /\ Start["GroupedExpression"] = <<{"("}>>
      BY DEF Body, Start
    <2>2. QED
      BY <2>1, RunGroupedExpression DEF Safe, Brings
  <1>49. Run(Body["QueryExpr"], Start["QueryExpr"], <<>>, <<>>, <<>>)
    <2>1. Body["QueryExpr"] = QueryExpr /\ Start["QueryExpr"] = <<{"from"}>>
      BY DEF Body, Start
    <2>2. QED
      BY <2>1, RunQueryExpr DEF Safe, Brings
  <1>50. DOMAIN Body = {"Declaration", "TypeParamList", "FnDecl", "ExternFnDecl", "ParamList", "Type", "FunctionType",
        "BlockStmt", "Statement", "VarDecl", "TopLevelVarDecl", "VarBlockStmt", "ReturnStmt", "IfStmt",
        "IfExpr", "AssignmentStmt", "LValue", "ConstDecl", "TypeAliasDecl", "StructDecl",
        "ServiceDecl", "RulesetDecl", "TemplateDecl", "FnSignature", "RuleDecl", "EnumDecl",
        "ModuleDecl", "ImportDecl", "ImportBlock", "ForStmt", "WithStmt", "MatchExpr", "SelectStmt",
        "SwitchStmt", "SizeofExpr", "Identifier", "GenericArgs", "CallExpression", "CollectionElement",
        "MapValue", "ArrayLiteral", "MapLiteral", "SetLiteral", "FnLiteral", "IndexExpression",
        "FieldAccessExpression", "StructInit", "GroupedExpression", "QueryExpr"}
    BY DEF Body
  <1>51. ASSUME NEW f \in DOMAIN Body PROVE Run(Body[f], Start[f], <<>>, <<>>, <<>>)
    BY <1>1, <1>2, <1>3, <1>4, <1>5, <1>6, <1>7, <1>8, <1>9, <1>10, <1>11, <1>12, <1>13, <1>14,
       <1>15, <1>16, <1>17, <1>18, <1>19, <1>20, <1>21, <1>22, <1>23, <1>24, <1>25, <1>26, <1>27,
       <1>28, <1>29, <1>30, <1>31, <1>32, <1>33, <1>34, <1>35, <1>36, <1>37, <1>38, <1>39, <1>40,
       <1>41, <1>42, <1>43, <1>44, <1>45, <1>46, <1>47, <1>48, <1>49, <1>50
  <1>52. QED
    BY <1>51 DEF Bodies

-----------------------------------------------------------------------------
(* The theorem.                                                              *)

LEMMA InitRuns ==
    ASSUME Init
    PROVE  TInv
  <1>1. todo = ParseProgram /\ window = <<>> /\ left = "other" /\ nest = <<>>
    BY DEF Init
  <1>2. Fits(window, <<>>) /\ IsSeq(window) /\ left \in Kinds
    BY <1>1, FitsNil, IsSeqs DEF Kinds
  <1>3. Run(todo, <<>>, nest, <<>>, <<>>)
    BY <1>1, RunProgram DEF Safe, Brings
  <1>4. QED
    BY <1>2, <1>3 DEF TInv

LEMMA NestsClosed ==
    ASSUME TInv
    PROVE  AcceptedNests
  <1> SUFFICES ASSUME todo = <<>>, ~failed, ~unchecked PROVE nest = <<>>
    BY DEF AcceptedNests, Accepted, Done
  <1>1. PICK k : Run(todo, k, nest, <<>>, <<>>)
    BY DEF TInv
  <1>2. PICK F : Closed(F) /\ <<todo, k, nest, <<>>, <<>>>> \in F
    BY <1>1 DEF Run
  <1>3. Goes(F, todo, k, nest, <<>>, <<>>)
    BY <1>2, InClosed
  <1>4. QED
    BY <1>3 DEF Goes

(* The parser accepts no text in which a bracket is left open, closed by one of *)
(* another kind, or closed twice, but for the tokens it does not look at: for   *)
(* every text, of any length and nesting (parser.go).                        *)
THEOREM NestsCorrect == Spec => []AcceptedNests
  <1>1. Init => TInv
    BY InitRuns
  <1>2. TInv /\ [Next]_vars => TInv'
    BY RunBodies, RunOperands, RunOperators, StepKept
  <1>3. TInv => AcceptedNests
    BY NestsClosed
  <1>4. QED
    BY <1>1, <1>2, <1>3, PTL DEF Spec

-----------------------------------------------------------------------------
(* The lexer.  NextToken always finds where a token ends, inside of the text,  *)
(* and takes at least one character unless the text is over.                  *)

LEMMA Greatest ==
    ASSUME NEW n \in Nat, NEW T \in SUBSET (0 .. n), T # {}
    PROVE  \E k \in T : \A j \in T : j <= k
  <1> DEFINE S == {n - j : j \in T}
  <1>1. S \in SUBSET (0 .. n) /\ S # {}
    <2>1. ASSUME NEW j \in T PROVE n - j \in 0 .. n
      OBVIOUS
    <2>2. PICK j \in T : TRUE
      OBVIOUS
    <2>3. n - j \in S
      OBVIOUS
    <2>4. ASSUME NEW m \in S PROVE m \in 0 .. n
      <3>1. PICK k \in T : m = n - k
        BY <2>4, Zenon
      <3>2. QED
        BY <2>1, <3>1
    <2>5. QED
      BY <2>3, <2>4, Zenon
  <1>2. PICK m \in S : \A l \in S : m <= l
    <2> HIDE DEF S
    <2> QED
      BY <1>1, Least
  <1>3. PICK k \in T : m = n - k
    BY <1>2
  <1>4. ASSUME NEW j \in T PROVE j <= k
    <2>1. n - j \in S
      OBVIOUS
    <2>2. n - k <= n - j
      BY <1>2, <1>3, <2>1
    <2>3. QED
      BY <2>2
  <1>5. QED
    BY <1>4

(* Of the positions from i on, the first in a set, or the end.                *)
LEMMA FirstExists ==
    ASSUME NEW n \in Nat, NEW i \in 1 .. n + 1, NEW S
    PROVE  \E j \in i .. n + 1 : (j > n \/ j \in S) /\ \A k \in i .. (j - 1) : k \notin S
  <1> DEFINE T == {j \in i .. n + 1 : j > n \/ j \in S}
  <1>1. T \in SUBSET (0 .. n + 1) /\ n + 1 \in T
    OBVIOUS
  <1>2. PICK j \in T : \A k \in T : j <= k
    <2> HIDE DEF T
    <2> QED
      BY <1>1, Least
  <1>3. ASSUME NEW k \in i .. (j - 1), k \in S PROVE FALSE
    <2>1. k \in T /\ ~(j <= k)
      BY <1>2, <1>3
    <2>2. QED
      BY <1>2, <2>1
  <1>4. QED
    BY <1>2, <1>3

-----------------------------------------------------------------------------
(* Where each kind of token ends.                                            *)

Texts == Seq(STRING)

LEMMA BlanksEnd ==
    ASSUME NEW str \in Texts, NEW i \in 1 .. Len(str) + 1
    PROVE  /\ L!SkipBlanks(str, i) \in i .. Len(str) + 1
           /\ \A k \in i .. (L!SkipBlanks(str, i) - 1) : str[k] = " "
  <1>1. Len(str) \in Nat
    BY DEF Texts
  <1>2. \E j \in i .. Len(str) + 1 :
            /\ j > Len(str) \/ str[j] # " "
            /\ \A k \in i .. (j - 1) : ~(str[k] # " ")
    <2> DEFINE S == {j \in Nat : str[j] # " "}
    <2>1. \A k \in Nat : k \in S <=> str[k] # " "
      OBVIOUS
    <2>2. PICK j \in i .. Len(str) + 1 :
              (j > Len(str) \/ j \in S) /\ \A k \in i .. (j - 1) : k \notin S
      <3> HIDE DEF S
      <3> QED
        BY <1>1, FirstExists
    <2> HIDE DEF S
    <2>3. \A k \in i .. (j - 1) : k \in Nat
      BY <1>1
    <2>4. j \in Nat
      BY <1>1
    <2>5. QED
      BY <2>1, <2>2, <2>3, <2>4, Zenon
  <1>3. QED
    BY <1>2, Zenon DEF L!SkipBlanks, L!FirstFrom

LEMMA IdentifierEnds ==
    ASSUME NEW str \in Texts, NEW i \in 1 .. Len(str), str[i] \in L!Letters
    PROVE  L!IdentifierEnd(str, i) \in i .. Len(str)
  <1>1. Len(str) \in Nat /\ i \in 1 .. Len(str) + 1
    BY DEF Texts
  <1> DEFINE P(j) == str[j] \notin L!Letters \cup L!Digits
             f    == L!FirstFrom(str, i, P)
  <1>2. \E j \in i .. Len(str) + 1 :
            (j > Len(str) \/ P(j)) /\ \A k \in i .. (j - 1) : ~P(k)
    <2> DEFINE S == {j \in Nat : P(j)}
    <2>1. \A k \in Nat : k \in S <=> P(k)
      OBVIOUS
    <2>2. PICK j \in i .. Len(str) + 1 :
              (j > Len(str) \/ j \in S) /\ \A k \in i .. (j - 1) : k \notin S
      <3> HIDE DEF S
      <3> QED
        BY <1>1, FirstExists
    <2> HIDE DEF S, P
    <2>3. \A k \in i .. (j - 1) : k \in Nat
      BY <1>1
    <2>4. j \in Nat
      BY <1>1
    <2>5. QED
      BY <2>1, <2>2, <2>3, <2>4, Zenon
  <1>3. f \in i .. Len(str) + 1 /\ (f > Len(str) \/ P(f))
    <2> HIDE DEF P
    <2> QED
      BY <1>2, Zenon DEF L!FirstFrom
  <1>4. L!IdentifierEnd(str, i) = f - 1
    BY DEF L!IdentifierEnd
  <1> HIDE DEF f
  <1>5. f # i
    BY <1>1, <1>3
  <1>6. QED
    BY <1>1, <1>3, <1>4, <1>5

LEMMA LineCommentEnds ==
    ASSUME NEW str \in Texts, NEW i \in 1 .. Len(str), str[i] = "/"
    PROVE  L!LineCommentEnd(str, i) \in i .. Len(str)
  <1>1. Len(str) \in Nat /\ i \in 1 .. Len(str) + 1
    BY DEF Texts
  <1> DEFINE P(j) == str[j] = "\n"
             f    == L!FirstFrom(str, i, P)
  <1>2. \E j \in i .. Len(str) + 1 :
            (j > Len(str) \/ P(j)) /\ \A k \in i .. (j - 1) : ~P(k)
    <2> DEFINE S == {j \in Nat : P(j)}
    <2>1. \A k \in Nat : k \in S <=> P(k)
      OBVIOUS
    <2>2. PICK j \in i .. Len(str) + 1 :
              (j > Len(str) \/ j \in S) /\ \A k \in i .. (j - 1) : k \notin S
      <3> HIDE DEF S
      <3> QED
        BY <1>1, FirstExists
    <2> HIDE DEF S, P
    <2>3. \A k \in i .. (j - 1) : k \in Nat
      BY <1>1
    <2>4. j \in Nat
      BY <1>1
    <2>5. QED
      BY <2>1, <2>2, <2>3, <2>4, Zenon
  <1>3. f \in i .. Len(str) + 1 /\ (f > Len(str) \/ P(f))
    <2> HIDE DEF P
    <2> QED
      BY <1>2, Zenon DEF L!FirstFrom
  <1>4. L!LineCommentEnd(str, i) = f - 1
    BY DEF L!LineCommentEnd
  <1> HIDE DEF f
  <1>5. f # i
    BY <1>1, <1>3
  <1>6. QED
    BY <1>1, <1>3, <1>4, <1>5

LEMMA BlockCommentEnds ==
    ASSUME NEW str \in Texts, NEW i \in 1 .. Len(str), i < Len(str)
    PROVE  L!BlockCommentEnd(str, i) \in i .. Len(str)
  <1>1. Len(str) \in Nat /\ i \in 1 .. Len(str) /\ i + 2 \in 1 .. Len(str) + 1
    BY DEF Texts
  <1> DEFINE P(j) == str[j] = "*" /\ L!CharAt(str, j + 1) = "/"
             f    == L!FirstFrom(str, (i + 2), P)
  <1>2. \E j \in (i + 2) .. Len(str) + 1 :
            (j > Len(str) \/ P(j)) /\ \A k \in (i + 2) .. (j - 1) : ~P(k)
    <2> DEFINE S == {j \in Nat : P(j)}
    <2>1. \A k \in Nat : k \in S <=> P(k)
      OBVIOUS
    <2>2. PICK j \in (i + 2) .. Len(str) + 1 :
              (j > Len(str) \/ j \in S) /\ \A k \in (i + 2) .. (j - 1) : k \notin S
      <3> HIDE DEF S
      <3> QED
        BY <1>1, FirstExists
    <2> HIDE DEF S, P
    <2>3. \A k \in (i + 2) .. (j - 1) : k \in Nat
      BY <1>1
    <2>4. j \in Nat
      BY <1>1
    <2>5. QED
      BY <2>1, <2>2, <2>3, <2>4, Zenon
  <1>3. f \in (i + 2) .. Len(str) + 1 /\ (f > Len(str) \/ P(f))
    <2> HIDE DEF P
    <2> QED
      BY <1>2, Zenon DEF L!FirstFrom
  <1>4. L!BlockCommentEnd(str, i) = IF f > Len(str) THEN Len(str) ELSE f + 1
    BY DEF L!BlockCommentEnd
  <1> HIDE DEF f
  <1>5. ASSUME f <= Len(str) PROVE f + 1 <= Len(str)
    <2>1. L!CharAt(str, f + 1) = "/"
      BY <1>1, <1>3, <1>5
    <2>2. QED
      BY <1>1, <1>3, <2>1 DEF L!CharAt
  <1>6. QED
    BY <1>1, <1>3, <1>4, <1>5

LEMMA HexEnds ==
    ASSUME NEW str \in Texts, NEW i \in 1 .. Len(str), i < Len(str), L!IsHex(str, i)
    PROVE  L!NumberEnd(str, i) \in i .. Len(str)
  <1>1. Len(str) \in Nat /\ i \in 1 .. Len(str) /\ i + 2 \in 1 .. Len(str) + 1
    BY DEF Texts
  <1> DEFINE P(j) == str[j] \notin L!Digits \cup {"e", "_"}
             f    == L!FirstFrom(str, (i + 2), P)
  <1>2. \E j \in (i + 2) .. Len(str) + 1 :
            (j > Len(str) \/ P(j)) /\ \A k \in (i + 2) .. (j - 1) : ~P(k)
    <2> DEFINE S == {j \in Nat : P(j)}
    <2>1. \A k \in Nat : k \in S <=> P(k)
      OBVIOUS
    <2>2. PICK j \in (i + 2) .. Len(str) + 1 :
              (j > Len(str) \/ j \in S) /\ \A k \in (i + 2) .. (j - 1) : k \notin S
      <3> HIDE DEF S
      <3> QED
        BY <1>1, FirstExists
    <2> HIDE DEF S, P
    <2>3. \A k \in (i + 2) .. (j - 1) : k \in Nat
      BY <1>1
    <2>4. j \in Nat
      BY <1>1
    <2>5. QED
      BY <2>1, <2>2, <2>3, <2>4, Zenon
  <1>3. f \in (i + 2) .. Len(str) + 1 /\ (f > Len(str) \/ P(f))
    <2> HIDE DEF P
    <2> QED
      BY <1>2, Zenon DEF L!FirstFrom
  <1>4. L!NumberEnd(str, i) = f - 1
    BY DEF L!NumberEnd
  <1> HIDE DEF f
  <1> HIDE DEF P
  <1>5. QED
    BY <1>1, <1>3, <1>4

LEMMA DecimalEnds ==
    ASSUME NEW str \in Texts, NEW i \in 1 .. Len(str), str[i] \in L!Digits, ~L!IsHex(str, i)
    PROVE  L!NumberEnd(str, i) \in i .. Len(str)
  <1>1. Len(str) \in Nat /\ i \in 1 .. Len(str) + 1
    BY DEF Texts
  <1> DEFINE P(j) == \/ str[j] \notin L!Digits \cup {".", "e", "+", "-", "_"}
                     \/ str[j] = "." /\ (L!CharAt(str, j + 1) = "." \/ \E k \in i..(j - 1) : str[k] = ".")
             f    == L!FirstFrom(str, i, P)
  <1>2. \E j \in i .. Len(str) + 1 :
            (j > Len(str) \/ P(j)) /\ \A k \in i .. (j - 1) : ~P(k)
    <2> DEFINE S == {j \in Nat : P(j)}
    <2>1. \A k \in Nat : k \in S <=> P(k)
      OBVIOUS
    <2>2. PICK j \in i .. Len(str) + 1 :
              (j > Len(str) \/ j \in S) /\ \A k \in i .. (j - 1) : k \notin S
      <3> HIDE DEF S
      <3> QED
        BY <1>1, FirstExists
    <2> HIDE DEF S, P
    <2>3. \A k \in i .. (j - 1) : k \in Nat
      BY <1>1
    <2>4. j \in Nat
      BY <1>1
    <2>5. QED
      BY <2>1, <2>2, <2>3, <2>4, Zenon
  <1>3. f \in i .. Len(str) + 1 /\ (f > Len(str) \/ P(f))
    <2> HIDE DEF P
    <2> QED
      BY <1>2, Zenon DEF L!FirstFrom
  <1>4. L!NumberEnd(str, i) = f - 1
    BY DEF L!NumberEnd
  <1> HIDE DEF f
  <1>5. ~P(i)
    BY <1>1 DEF L!Digits
  <1> HIDE DEF P
  <1>6. f # i
    BY <1>1, <1>3, <1>5
  <1>7. QED
    BY <1>1, <1>3, <1>4, <1>6

LEMMA StringEnds ==
    ASSUME NEW str \in Texts, NEW i \in 1 .. Len(str)
    PROVE  L!StringEnd(str, i) \in i .. Len(str)
  <1>1. Len(str) \in Nat /\ i \in 1 .. Len(str) /\ i + 1 \in 1 .. Len(str) + 1
    BY DEF Texts
  <1> DEFINE hidden[j \in i..Len(str)] == j > i /\ str[j - 1] = "\\" /\ ~hidden[j - 1]
  <1> DEFINE P(j) == str[j] = str[i] /\ ~hidden[j]
             f    == L!FirstFrom(str, (i + 1), P)
  <1>2. \E j \in (i + 1) .. Len(str) + 1 :
            (j > Len(str) \/ P(j)) /\ \A k \in (i + 1) .. (j - 1) : ~P(k)
    <2> DEFINE S == {j \in Nat : P(j)}
    <2>1. \A k \in Nat : k \in S <=> P(k)
      OBVIOUS
    <2>2. PICK j \in (i + 1) .. Len(str) + 1 :
              (j > Len(str) \/ j \in S) /\ \A k \in (i + 1) .. (j - 1) : k \notin S
      <3> HIDE DEF S
      <3> QED
        BY <1>1, FirstExists
    <2> HIDE DEF S, P
    <2>3. \A k \in (i + 1) .. (j - 1) : k \in Nat
      BY <1>1
    <2>4. j \in Nat
      BY <1>1
    <2>5. QED
      BY <2>1, <2>2, <2>3, <2>4, Zenon
  <1>3. f \in (i + 1) .. Len(str) + 1 /\ (f > Len(str) \/ P(f))
    <2> HIDE DEF P
    <2> QED
      BY <1>2, Zenon DEF L!FirstFrom
  <1>4. L!StringEnd(str, i) = IF f > Len(str) THEN Len(str) ELSE f
    BY DEF L!StringEnd
  <1> HIDE DEF f
  <1> HIDE DEF P
  <1>5. QED
    BY <1>1, <1>3, <1>4

(* Every operator of one character is in the table, so there is a longest one. *)
LEMMA OperatorEnds ==
    ASSUME NEW str \in Texts, NEW i \in 1 .. Len(str), <<str[i]>> \in L!Operators
    PROVE  L!OperatorEnd(str, i) \in i .. Len(str)
  <1> DEFINE T == {e \in i .. Len(str) : SubSeq(str, i, e) \in L!Operators}
  <1>1. Len(str) \in Nat /\ T \in SUBSET (0 .. Len(str))
    BY DEF Texts
  <1>2. i \in T
    <2>1. SubSeq(str, i, i) \in Seq(STRING) /\ <<str[i]>> \in Seq(STRING)
      BY <1>1, SubSeqProperties DEF Texts
    <2>2. Len(SubSeq(str, i, i)) = 1 /\ SubSeq(str, i, i)[1] = str[i]
      BY <1>1 DEF Texts
    <2>3. SubSeq(str, i, i) = <<str[i]>>
      <3> DEFINE s == SubSeq(str, i, i)
                 t == <<str[i]>>
      <3>1. Len(t) = 1 /\ t[1] = str[i]
        OBVIOUS
      <3> HIDE DEF s, t
      <3>2. \A k \in 1 .. Len(s) : s[k] = t[k]
        BY <2>2, <3>1 DEF s
      <3>3. s = t
        BY <2>1, <2>2, <3>1, <3>2, SeqEqual DEF s, t
      <3>4. QED
        BY <3>3 DEF s, t
    <2>4. SubSeq(str, i, i) \in L!Operators
      BY <2>3, Zenon
    <2>5. QED
      BY <1>1, <2>4
  <1>3. PICK e \in T : \A d \in T : d <= e
    <2> HIDE DEF T
    <2> QED
      BY <1>1, <1>2, Greatest
  <1>4. \A d \in (e + 1) .. Len(str) : SubSeq(str, i, d) \notin L!Operators
    <2>1. SUFFICES ASSUME NEW d \in (e + 1) .. Len(str), SubSeq(str, i, d) \in L!Operators
                   PROVE  FALSE
      OBVIOUS
    <2>2. d \in i .. Len(str) /\ ~(d <= e)
      BY <1>1, <1>3
    <2>3. QED
      BY <1>3, <2>1, <2>2
  <1>5. \E m \in i .. Len(str) :
            /\ SubSeq(str, i, m) \in L!Operators
            /\ \A d \in (m + 1) .. Len(str) : SubSeq(str, i, d) \notin L!Operators
    BY <1>3, <1>4
  <1>6. QED
    BY <1>5, Zenon DEF L!OperatorEnd

(* No operator and no number has the name of the end of the text.             *)
LEMMA OperatorNamed ==
    ASSUME NEW str \in Texts, NEW i \in 1 .. Len(str), NEW e \in i .. Len(str), str[i] # "eof"
    PROVE  L!OperatorName(SubSeq(str, i, e)) # "eof"
  <1>1. SubSeq(str, i, e)[1] = str[i]
    BY DEF Texts
  <1>2. QED
    BY <1>1 DEF L!OperatorName

LEMMA NumberNamed ==
    ASSUME NEW s PROVE L!NumberName(s) # "eof"
  BY DEF L!NumberName

-----------------------------------------------------------------------------
(* What a token from position i on must be, when the character there is no     *)
(* blank and not the end.                                                    *)
Advances(str, i, t) ==
    t.first = i /\ t.next \in (i + 1) .. Len(str) + 1 /\ t.name # "eof"

(* A token that ends inside of the text.                                      *)
LEMMA TokenAdvances ==
    ASSUME NEW str \in Texts, NEW i \in 1 .. Len(str), NEW e \in i .. Len(str), NEW name, name # "eof"
    PROVE  Advances(str, i, L!Token(name, i, e))
  BY DEF Advances, L!Token, Texts

(* One case of NextToken for each kind of token.                              *)
LEMMA TokenAt ==
    ASSUME NEW str \in Texts, NEW from, NEW i \in 1 .. Len(str),
           i = L!SkipBlanks(str, from), str[i] # "eof"
    PROVE  Advances(str, i, L!NextToken(str, from))
  <1> DEFINE c == L!CharAt(str, i)
             d == L!CharAt(str, i + 1)
             t == L!NextToken(str, from)
  <1>0. SUFFICES Advances(str, i, t)
    OBVIOUS
  <1>1. Len(str) \in Nat
    BY DEF Texts
  <1>2. c = str[i] /\ c # "eof"
    BY <1>1 DEF L!CharAt
  <1>3. d # "eof" => i < Len(str)
    BY <1>1 DEF L!CharAt
  <1> HIDE DEF c, d, t
  <1>4. CASE c = "\n"
    <2>1. t = L!Token("newline", i, i)
      BY <1>4 DEF L!NextToken, t, c, L!Quotes, L!Digits, L!Letters
    <2>2. QED
      BY <1>1, <2>1, TokenAdvances
  <1>5. CASE c = "/" /\ d = "/"
    <2>1. t = L!Token(IF L!CharAt(str, i + 2) = "/" THEN "doc" ELSE "comment", i, L!LineCommentEnd(str, i))
      BY <1>5 DEF L!NextToken, t, c, d, L!Quotes, L!Digits, L!Letters
    <2>2. QED
      BY <1>1, <1>2, <1>5, <2>1, LineCommentEnds, TokenAdvances
  <1>6. CASE c = "/" /\ d = "*"
    <2>1. t = L!Token("comment", i, L!BlockCommentEnd(str, i))
      BY <1>6 DEF L!NextToken, t, c, d, L!Quotes, L!Digits, L!Letters
    <2>2. QED
      BY <1>1, <1>3, <1>6, <2>1, BlockCommentEnds, TokenAdvances
  <1>7. CASE c \in L!Quotes
    <2>1. t = L!Token("str", i, L!StringEnd(str, i))
      BY <1>7 DEF L!NextToken, t, c, d, L!Quotes, L!Digits, L!Letters
    <2>2. QED
      BY <1>1, <2>1, StringEnds, TokenAdvances
  <1>8. CASE c \in L!Digits
    <2> DEFINE e == L!NumberEnd(str, i)
    <2>1. t = L!Token(L!NumberName(SubSeq(str, i, e)), i, e)
      BY <1>8 DEF L!NextToken, t, c, d, L!Quotes, L!Digits, L!Letters
    <2>2. e \in i .. Len(str)
      <3>1. CASE L!IsHex(str, i)
        <4>1. d # "eof"
          BY <3>1 DEF L!IsHex, d
        <4>2. QED
          BY <1>1, <1>3, <3>1, <4>1, HexEnds
      <3>2. CASE ~L!IsHex(str, i)
        BY <1>1, <1>2, <1>8, <3>2, DecimalEnds
      <3>3. QED
        BY <3>1, <3>2
    <2> HIDE DEF e
    <2>3. QED
      BY <1>1, <2>1, <2>2, NumberNamed, TokenAdvances
  <1>9. CASE c \in L!Letters
    <2>1. t = L!Token(IF c = "X" THEN "X" ELSE "x", i, L!IdentifierEnd(str, i))
      BY <1>9 DEF L!NextToken, t, c, d, L!Quotes, L!Digits, L!Letters
    <2>2. QED
      BY <1>1, <1>2, <1>9, <2>1, IdentifierEnds, TokenAdvances
  <1>10. CASE /\ c \notin {"\n"} \cup L!Quotes \cup L!Digits \cup L!Letters
              /\ ~(c = "/" /\ d \in {"/", "*"})
    <2> DEFINE e == IF <<c>> \in L!Operators THEN L!OperatorEnd(str, i) ELSE i
    <2>1. t = L!Token(IF <<c>> \in L!Operators THEN L!OperatorName(SubSeq(str, i, e)) ELSE "illegal", i, e)
      BY <1>2, <1>10 DEF L!NextToken, t, c, d
    <2>2. e \in i .. Len(str)
      BY <1>1, <1>1, <1>2, OperatorEnds
    <2> HIDE DEF e
    <2>3. QED
      BY <1>1, <1>2, <2>1, <2>2, OperatorNamed, TokenAdvances
  <1>11. QED
    BY <1>2, <1>4, <1>5, <1>6, <1>7, <1>8, <1>9, <1>10

(* NextToken skips blanks only, and takes what comes after them up to a        *)
(* position inside of the text: at least one character, or none and it says   *)
(* that the text has ended, which is true.                                   *)
THEOREM NextTokenAdvances ==
    ASSUME NEW str \in Texts, NEW from \in 1 .. Len(str) + 1,
           \A k \in 1 .. Len(str) : str[k] # "eof"
    PROVE  LET t == L!NextToken(str, from)
           IN  /\ t.first \in from .. Len(str) + 1
               /\ \A k \in from .. (t.first - 1) : str[k] = " "
               /\ t.next \in t.first .. Len(str) + 1
               /\ t.name = "eof" <=> t.first = Len(str) + 1
               /\ t.name # "eof" => t.next > t.first
  <1> DEFINE t == L!NextToken(str, from)
  <1>1. Len(str) \in Nat /\ from \in Nat
    BY DEF Texts
  <1>2. PICK i \in from .. Len(str) + 1 :
            i = L!SkipBlanks(str, from) /\ \A k \in from .. (i - 1) : str[k] = " "
    BY BlanksEnd
  <1>3. t.first = i /\ IF i = Len(str) + 1 THEN t.next = i /\ t.name = "eof"
                                            ELSE t.next \in (i + 1) .. Len(str) + 1 /\ t.name # "eof"
    <2>1. CASE i = Len(str) + 1
      <3>1. L!CharAt(str, i) = "eof"
        BY <1>1, <2>1 DEF L!CharAt
      <3>2. t = L!Token("eof", i, i - 1)
        BY <1>2, <3>1 DEF L!NextToken, L!Quotes, L!Digits, L!Letters
      <3>3. t.first = i /\ t.next = (i - 1) + 1 /\ t.name = "eof"
        BY <3>2 DEF L!Token
      <3> HIDE DEF t
      <3>4. QED
        BY <1>1, <2>1, <3>3
    <2>2. CASE i # Len(str) + 1
      <3>1. i \in 1 .. Len(str)
        BY <1>1, <2>2
      <3>2. Advances(str, i, t)
        BY <1>2, <3>1, TokenAt
      <3> HIDE DEF t
      <3>3. QED
        BY <2>2, <3>2 DEF Advances
    <2>3. QED
      BY <2>1, <2>2
  <1>4. /\ t.first \in from .. Len(str) + 1
        /\ \A k \in from .. (t.first - 1) : str[k] = " "
        /\ t.next \in t.first .. Len(str) + 1
        /\ t.name = "eof" <=> t.first = Len(str) + 1
        /\ t.name # "eof" => t.next > t.first
    <2> HIDE DEF t
    <2>1. t.first \in from .. Len(str) + 1 /\ \A k \in from .. (t.first - 1) : str[k] = " "
      BY <1>2, <1>3
    <2>2. t.next \in t.first .. Len(str) + 1 /\ (t.name # "eof" => t.next > t.first)
      BY <1>1, <1>3
    <2>3. t.name = "eof" <=> t.first = Len(str) + 1
      BY <1>3
    <2>4. QED
      BY <2>1, <2>2, <2>3
  <1>5. QED
    BY <1>4, Zenon

=============================================================================
