------------------------------- MODULE Parse -------------------------------
(***************************************************************************)
(* The parser of compiler/parser/parser.go run on a text.  "todo" is the Go  *)
(* call stack with what is left of each function (Grammar.tla), innermost    *)
(* first; an "end" item is where a function returns.  "window" is curTok,    *)
(* peekTok and peek2Tok: the code fills it ahead, here a token is read when  *)
(* the code first looks at it, which no step can tell apart.                *)
(*                                                                          *)
(* A menu fixes how a text begins and what it may go on with, token by token *)
(* or, with an alphabet, as characters that NextToken of Lex.tla scans.      *)
(*                                                                          *)
(* "nest" and "unchecked" are history: the brackets that are open in the     *)
(* text read so far, and whether the code took a token it had not looked at  *)
(* for a bracket, or the end of the text for a closing one.                 *)
(***************************************************************************)
EXTENDS Grammar, SequencesExt

L == INSTANCE Lex

CONSTANTS
    Menus   \* bound: records of the first tokens of a text, the tokens it may go on
            \* with and how many, its alphabet, and whether to keep the expression

VARIABLES
    menu,       \* the menu of this text
    todo,       \* the call stack
    window,     \* the tokens looked at and not consumed
    read,       \* how much of the text the window has taken
    failed,     \* p.errors is not empty
    left,       \* the kind of the expression parsed last
    nest,       \* history: the brackets open in the consumed text, innermost last
    unchecked,  \* history
    text,       \* the tokens consumed (kept for an expression)
    tree        \* the expression, in postfix order (kept for an expression)

vars == <<menu, todo, window, read, failed, left, nest, unchecked, text, tree>>

Closing == [b \in {"(", "[", "{"} |-> CASE b = "(" -> ")" [] b = "[" -> "]" [] b = "{" -> "}"]
Openers == DOMAIN Closing
Closers == {Closing[b] : b \in Openers}

(* The brackets that are open after a token; a closing one that closes nothing *)
(* stays at the bottom for good.                                             *)
NestAfter(open, t) ==
    IF (open # <<>> /\ open[1] \in Closers) \/ t \notin Openers \cup Closers THEN open
    ELSE IF t \in Openers THEN Append(open, t)
    ELSE IF open # <<>> /\ Closing[Last(open)] = t THEN Front(open)
    ELSE <<t>>

-----------------------------------------------------------------------------
(* The window.                                                               *)

Passes(test, n) == \A i \in 1..n : test[i] = {} \/ window[i] \in test[i]
Seen(test)      == IF Len(test) < Len(window) THEN Len(test) ELSE Len(window)
May(test)       == Passes(test, Seen(test))
Decided(test)   == Len(window) >= Len(test)

(* The first alternative that the tokens read so far do not rule out.         *)
Choice(alts) == CHOOSE i \in 1..Len(alts) : May(alts[i][1]) /\ \A j \in 1..(i - 1) : ~May(alts[j][1])

Top    == todo[1]
Rest   == Tail(todo)
Active == todo # <<>>

(* Whether the next item needs another token.                                *)
Waits ==
    CASE Top[1] = "pick" -> ~Decided(Top[2][Choice(Top[2])][1])
      [] Top[1] \in {"eat", "blind", "need", "needskip", "at", "atskip", "expect", "opt",
                     "until", "while", "infix", "skip"} -> window = <<>>
      [] OTHER -> FALSE

Length == Len(menu.first) + menu.length

(* Parser.nextToken drops new lines and comments.                            *)
Scan[from \in Nat] ==
    LET t == L!NextToken(menu.text, from)
    IN  IF t.name \in {"newline", "comment"} THEN Scan[t.next] ELSE t

ReadToken ==
    /\ Active /\ Waits
    /\ \/ /\ read < Len(menu.first)
          /\ window' = Append(window, menu.first[read + 1])
          /\ read' = read + 1
       \/ /\ read >= Len(menu.first) /\ menu.text # <<>>
          /\ LET t == Scan[read - Len(menu.first) + 1]
             IN  /\ window' = Append(window, t.name)
                 /\ read' = Len(menu.first) + t.next - 1
       \/ /\ read >= Len(menu.first) /\ menu.text = <<>>
          /\ \/ /\ read < Length
                /\ \E t \in menu.free : window' = Append(window, t)
                /\ read' = read + 1
             \/ /\ window' = Append(window, "eof")
                /\ read' = Length
    /\ UNCHANGED <<menu, todo, failed, left, nest, unchecked, text, tree>>

-----------------------------------------------------------------------------
(* Consuming a token.                                                        *)

Cur == window[1]

(* The end of the text stays in the window.                                  *)
Consume(expected) ==
    /\ window' = IF Cur = "eof" THEN window ELSE Tail(window)
    /\ unchecked' = (~failed /\ (unchecked \/ (expected # {} /\ Cur \notin expected)))
    /\ nest' = IF failed \/ unchecked' THEN <<>> ELSE NestAfter(nest, Cur)
    /\ text' = IF menu.tree /\ ~failed /\ Cur # "eof" THEN Append(text, Cur) ELSE text
    /\ UNCHANGED <<menu, read, failed, left, tree>>

(* Recording an error ends the history: it is about texts without one.        *)
Fails ==
    /\ failed' = TRUE
    /\ nest' = <<>> /\ unchecked' = FALSE /\ text' = <<>> /\ tree' = <<>>

Stay == UNCHANGED <<menu, read, window, failed, left, nest, unchecked, text, tree>>

(* What is left after the function returns; a Must caller returns with it.    *)
IsEnd(i) == todo[i][1] \in {"end", "mustend"}
Returned(s) == SubSeq(s, SelectInSeq(s, LAMBDA x : x[1] \in {"end", "mustend"}) + 1, Len(s))
ReturnedNil(s) ==
    LET e == SelectInSeq(s, LAMBDA x : x[1] \in {"end", "mustend"})
    IN  IF s[e][1] = "end" THEN Returned(s) ELSE Returned(Returned(s))

Ready(op) == Active /\ Top[1] = op /\ ~Waits

-----------------------------------------------------------------------------
(* One action for each item.                                                 *)

DoEat == Ready("eat") /\ todo' = Rest /\ Consume({})

DoBlind == Ready("blind") /\ todo' = Rest /\ Consume(Top[2])

(* The test of a token that must be there: an error returns nil.             *)
Reject(skips) ==
    /\ todo' = (IF skips THEN <<Skip>> ELSE <<>>) \o <<<<"nil">>>> \o Rest
    /\ left' = "other"
    /\ Fails
    /\ UNCHANGED <<menu, read, window>>

DoNeed ==
    \E op \in {"need", "needskip"} :
        /\ Ready(op)
        /\ IF Cur \in Top[2] THEN todo' = Rest /\ Consume({}) ELSE Reject(op = "needskip")

DoAt ==
    \E op \in {"at", "atskip"} :
        /\ Ready(op)
        /\ IF Cur \in Top[2] THEN todo' = Rest /\ Stay ELSE Reject(op = "atskip")

DoExpect ==
    /\ Ready("expect")
    /\ todo' = Rest
    /\ IF Cur \in Top[2] THEN Consume({}) ELSE Fails /\ UNCHANGED <<menu, read, window, left>>

(* A closing bracket that may be missing.                                    *)
DoOpt ==
    /\ Ready("opt")
    /\ todo' = Rest
    /\ IF Cur \in Top[2] THEN Consume({})
       ELSE /\ unchecked' = ~failed
            /\ UNCHANGED <<menu, read, window, failed, left, nest, text, tree>>

DoErr ==
    /\ Ready("err")
    /\ todo' = Rest
    /\ Fails
    /\ UNCHANGED <<menu, read, window, left>>

(* skipUntilNewlineOrBrace; there is no new line in the window.               *)
DoSkip ==
    /\ Ready("skip")
    /\ IF Cur \in {"}", "eof"} THEN todo' = Rest /\ Stay ELSE UNCHANGED todo /\ Consume({})

DoPick ==
    /\ Ready("pick")
    /\ todo' = Top[2][Choice(Top[2])][2] \o Rest
    /\ Stay

DoByKind == Ready("bykind") /\ todo' = Top[2][left] \o Rest /\ Stay

DoLoop ==
    \/ /\ Ready("until")
       /\ todo' = IF Cur \in Top[2] \cup {"eof"} THEN Rest ELSE Top[3] \o todo
       /\ Stay
    \/ /\ Ready("while")
       /\ todo' = IF Cur \in Top[2] THEN Top[3] \o todo ELSE Rest
       /\ Stay

DoBreak ==
    /\ Ready("break")
    /\ LET i == SelectInSeq(todo, LAMBDA x : x[1] \in {"until", "while"})
       IN  todo' = SubSeq(todo, i + 1, Len(todo))
    /\ Stay

DoCall ==
    \/ Ready("call") /\ todo' = Body[Top[2]] \o <<<<"end">>>> \o Rest /\ Stay
    \/ Ready("must") /\ todo' = Body[Top[2]] \o <<<<"mustend">>>> \o Rest /\ Stay
    \/ Ready("expr") /\ todo' = <<PrefixFn, Infix(Top[2]), <<"end">>>> \o Rest /\ Stay

(* The loop of parseExpressionFromLeft.                                      *)
DoInfix ==
    /\ Ready("infix")
    /\ todo' = IF Top[2] < Prec(Cur) THEN InfixFn(Cur) \o todo ELSE <<AfterOperators>> \o Rest
    /\ Stay

DoReturn ==
    \/ /\ Ready("end") \/ Ready("mustend")
       /\ todo' = Rest
       /\ Stay
    \/ /\ Ready("return")
       /\ todo' = Returned(todo)
       /\ left' = "other"
       /\ UNCHANGED <<menu, read, window, failed, nest, unchecked, text, tree>>
    \/ /\ Ready("nil")
       /\ todo' = ReturnedNil(todo)
       /\ Stay

DoNode ==
    /\ Ready("node")
    /\ todo' = Rest
    /\ left' = IF Top[3] = "" THEN left ELSE Top[3]
    /\ tree' = IF menu.tree /\ ~failed THEN Append(tree, Top[2]) ELSE tree
    /\ UNCHANGED <<menu, read, window, failed, nest, unchecked, text>>

-----------------------------------------------------------------------------
(* The specification.                                                        *)

Init ==
    /\ menu \in Menus
    /\ todo = ParseProgram
    /\ window = <<>>
    /\ read = 0
    /\ failed = FALSE
    /\ left = "other"
    /\ nest = <<>>
    /\ unchecked = FALSE
    /\ text = <<>>
    /\ tree = <<>>

Next ==
    \/ ReadToken \/ DoEat \/ DoBlind \/ DoNeed \/ DoAt \/ DoExpect \/ DoOpt \/ DoErr \/ DoSkip
    \/ DoPick \/ DoByKind \/ DoLoop \/ DoBreak \/ DoCall \/ DoInfix \/ DoReturn \/ DoNode

Spec == Init /\ [][Next]_vars

(* ParseProgram runs on one thread, which nothing suspends.                  *)
FairSpec == Spec /\ WF_vars(Next)

-----------------------------------------------------------------------------
(* Properties.                                                               *)

Done     == todo = <<>>
Accepted == Done /\ ~failed

(* ParseProgram returns on every text, well formed or not: no loop of the     *)
(* parser goes round without a token, and recovery from an error ends.        *)
Terminates == <>Done

(* A text the parser accepts has every bracket closed by its counterpart, but  *)
(* for the places where the code takes a token without looking (the first of a *)
(* block, those of an attribute) or lets a closing bracket be missing.         *)
AcceptedNests == Accepted /\ ~unchecked => nest = <<>>

=============================================================================
