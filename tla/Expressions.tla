----------------------------- MODULE Expressions -----------------------------
(***************************************************************************)
(* What an expression of the language is, as a layered grammar: a layer for  *)
(* each level of binary operators, left associative, above the prefix and    *)
(* the postfix operators.  It is written as a definition of sets of trees,   *)
(* without the loop and the precedence numbers of the parser, to compare the *)
(* parser with.  A tree is the sequence Node writes in Grammar.tla.          *)
(*                                                                          *)
(* An expression is open when its last operand takes the rest of the text:   *)
(* the right side of an assignment or of a range, and what is awaited.       *)
(* Only the last operand of an operator can be open.                         *)
(***************************************************************************)
EXTENDS Naturals, Sequences

Layers ==
    << {"<-"}, {".."}, {"||"}, {"&&"}, {"|"}, {"^"}, {"&"}, {"=="}, {"<="}, {"<<"}, {"+", "-"},
       {"*"}, {"**"} >>

UNARY == Len(Layers) + 1

PrefixNode(t) == IF t = "-" THEN "neg" ELSE "!"

RECURSIVE Closed(_, _, _, _), Open(_, _, _, _), Postfix(_, _, _), Lists(_, _, _), Elems(_, _, _),
          IsType(_, _, _)

(* Every tree of s[i..j] as a whole expression.                              *)
Whole(s, i, j) == Closed(s, 1, i, j) \cup Open(s, 1, i, j)

(* As one that a range operator may not continue.                            *)
Bound(s, i, j) == Closed(s, 3, i, j) \cup Open(s, 3, i, j)

Binary(left, right, op) == {l \o r \o <<op>> : l \in left, r \in right}

Closed(s, k, i, j) ==
    IF i > j THEN {}
    ELSE IF k = UNARY
    THEN Postfix(s, i, j)
         \cup (IF s[i] \in {"-", "*", "&", "<-", "!"}
               THEN {e \o <<PrefixNode(s[i])>> : e \in Closed(s, UNARY, i + 1, j)} ELSE {})
    ELSE Closed(s, k + 1, i, j)
         \cup (IF k = 2 THEN {}
               ELSE UNION {Binary(Closed(s, k, i, m - 1), Closed(s, k + 1, m + 1, j), s[m]) :
                              m \in {n \in (i + 1)..(j - 1) : s[n] \in Layers[k]}})

Open(s, k, i, j) ==
    IF i >= j THEN {}
    ELSE IF k = UNARY
    THEN IF s[i] = "await" THEN {e \o <<"await">> : e \in Whole(s, i + 1, j)}
         ELSE IF s[i] \in {"-", "*", "&", "<-", "!"}
         THEN {e \o <<PrefixNode(s[i])>> : e \in Open(s, UNARY, i + 1, j)} ELSE {}
    ELSE Open(s, k + 1, i, j)
         \cup UNION {Binary(Closed(s, k, i, m - 1),
                            IF k = 2 THEN Whole(s, m + 1, j) ELSE Open(s, k + 1, m + 1, j), s[m]) :
                        m \in {n \in (i + 1)..(j - 1) : s[n] \in Layers[k]}}
         \cup (IF k = 1
               THEN UNION {Binary(Closed(s, 1, i, m - 1), Whole(s, m + 1, j), "=") :
                              m \in {n \in (i + 1)..(j - 1) : s[n] = "="}}
               ELSE {})

(* A type, as far as the menus write one.                                    *)
IsType(s, i, j) ==
    \/ i = j /\ s[i] = "x"
    \/ i + 1 < j /\ s[i] = "[" /\ s[i + 1] = "]" /\ IsType(s, i + 2, j)

(* Expressions with commas between them.                                     *)
Lists(s, i, j) ==
    Whole(s, i, j)
        \cup UNION {{l \o e : l \in Lists(s, i, m - 1), e \in Whole(s, m + 1, j)} :
                       m \in {n \in (i + 1)..(j - 1) : s[n] = ","}}

(* What an index may be: a position, one from the end, or a slice.           *)
Index(s, i, j) ==
    Bound(s, i, j)
        \cup (IF i = j /\ s[i] = ".." THEN {<<"slice">>} ELSE {})
        \cup (IF i < j /\ s[i] = ".." THEN {<<"slice">> \o e : e \in Whole(s, i + 1, j)} ELSE {})
        \cup (IF i < j /\ s[i] = "^" THEN {<<"^">> \o e : e \in Whole(s, i + 1, j)} ELSE {})
        \cup (IF i < j /\ s[j] = ".." THEN {e \o <<"slice">> : e \in Closed(s, 3, i, j - 1)} ELSE {})
        \cup UNION {{a \o <<"slice">> \o e :
                        a \in IF s[m] = ".." THEN Closed(s, 3, i, m - 1) ELSE Bound(s, i, m - 1),
                        e \in Whole(s, m + 1, j)} :
                       m \in {n \in (i + 1)..(j - 1) : s[n] \in {"..", ":"}}}

(* The elements of an array, and those of a map in brackets; after the last   *)
(* one there may be a comma.                                                 *)
Elem(s, i, j) ==
    Whole(s, i, j)
        \cup (IF i < j /\ s[i] = ".." THEN {e \o <<"spread">> : e \in Whole(s, i + 1, j)} ELSE {})

Pair(s, i, j) ==
    UNION {{k \o v : k \in Elem(s, i, m - 1), v \in Whole(s, m + 1, j)} :
              m \in {n \in (i + 1)..(j - 1) : s[n] = ":"}}

Elems(s, i, j) ==
    Elem(s, i, j)
        \cup UNION {{l \o e : l \in Elems(s, i, m - 1), e \in Elem(s, m + 1, j)} :
                       m \in {n \in (i + 1)..(j - 1) : s[n] = ","}}

RECURSIVE Pairs(_, _, _)
Pairs(s, i, j) ==
    Pair(s, i, j)
        \cup UNION {{l \o e : l \in Pairs(s, i, m - 1), e \in Pair(s, m + 1, j)} :
                       m \in {n \in (i + 1)..(j - 1) : s[n] = ","}}

Inside(s, i, j) ==
    LET last == IF i < j /\ s[j] = "," THEN j - 1 ELSE j
    IN  Elems(s, i, last) \cup Pairs(s, i, last)

(* [T]: between brackets, one name is a type.                                *)
Array(s, i, j) ==
    IF s[i] # "[" THEN {}
    ELSE (IF s[j] # "]" \/ j = i THEN {}
          ELSE IF j = i + 1 \/ (j = i + 2 /\ s[i + 1] = "x") THEN {<<"[", "array">>}
          ELSE {<<"[">> \o e \o <<"array">> : e \in Inside(s, i + 1, j - 1)})
         \cup (IF i + 1 < j /\ s[i + 1] = "]" /\ IsType(s, i + 2, j) THEN {<<"[", "array">>} ELSE {})

Postfix(s, i, j) ==
    (IF i = j THEN CASE s[i] = "x" -> {<<"x">>} [] s[i] = "num" -> {<<"1">>} [] OTHER -> {}
     ELSE IF s[i] = "(" /\ s[j] = ")" THEN Whole(s, i + 1, j - 1) ELSE {})
    \cup Array(s, i, j)
    \cup (IF i < j /\ s[j] = "?" THEN {e \o <<"?">> : e \in Postfix(s, i, j - 1)} ELSE {})
    \cup (IF i + 1 < j /\ s[j] = "x" /\ s[j - 1] = "."
          THEN {e \o <<".">> : e \in Postfix(s, i, j - 2)} ELSE {})
    \cup (IF i < j /\ s[j] = ")"
          THEN UNION {{f \o <<"(">> \o a \o <<")">> :
                          f \in Postfix(s, i, m - 1),
                          a \in IF m + 1 = j THEN {<<>>} ELSE Lists(s, m + 1, j - 1)} :
                         m \in {n \in (i + 1)..(j - 1) : s[n] = "("}}
          ELSE {})
    \cup (IF i < j /\ s[j] = "]"
          THEN UNION {{a \o <<"[">> \o e \o <<"]">> :
                          a \in Postfix(s, i, m - 1), e \in Index(s, m + 1, j - 1)} :
                         m \in {n \in (i + 1)..(j - 1) : s[n] = "["}}
          ELSE {})

Trees(s) == Whole(s, 1, Len(s))

=============================================================================
