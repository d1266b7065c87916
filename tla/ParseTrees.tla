----------------------------- MODULE ParseTrees -----------------------------
(***************************************************************************)
(* What the parser builds for an expression, compared with the layered       *)
(* grammar of Expressions.tla.                                              *)
(***************************************************************************)
EXTENDS Parse

X == INSTANCE Expressions

(* The expression that follows "var x =" in a text is the one and only tree    *)
(* that the layered grammar of Expressions.tla gives it: what the loop over the *)
(* precedences builds is neither regrouped nor ambiguous.                     *)
TreeMatches ==
    Accepted /\ menu.tree =>
        LET e == SubSeq(text, 4, IF Last(text) = "," THEN Len(text) - 1 ELSE Len(text))
        IN  X!Trees(e) = {tree}

=============================================================================
