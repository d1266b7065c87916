-------------------------------- MODULE Lex --------------------------------
(***************************************************************************)
(* compiler/lexer/lexer.go: what NextToken makes of a text.  A text is a     *)
(* sequence of characters; a position is the index of a character, and the  *)
(* one past the end is the end of the text (the character 0 of the code).   *)
(*                                                                          *)
(* A token is a record of the name the grammar gives it, its first position *)
(* and the position after it.  The keywords and the characters outside      *)
(* Letters, Digits and the operators are left out.                          *)
(***************************************************************************)
EXTENDS Naturals, Sequences, FiniteSets

Letters == {"x", "X", "e", "_"}
Digits  == {"0", "1"}
Quotes  == {"\"", "backquote"}

(* The operators, and the brackets, by their characters.                      *)
Operators ==
    {<<"=">>, <<"=", "=">>, <<"=", ">">>, <<":">>, <<":", "=">>, <<"+">>, <<"+", "=">>,
     <<"-">>, <<"-", ">">>, <<"-", "=">>, <<"*">>, <<"*", "*">>, <<"*", "=">>, <<"/">>, <<"/", "=">>,
     <<"%">>, <<"%", "=">>, <<"<">>, <<"<", "=">>, <<"<", "-">>, <<"<", "<">>, <<"<", "<", "=">>,
     <<">">>, <<">", "=">>, <<">", ">">>, <<">", ">", "=">>, <<"&">>, <<"&", "&">>, <<"&", "=">>,
     <<"|">>, <<"|", "|">>, <<"|", "=">>, <<"^">>, <<"^", "=">>, <<"~">>, <<"!">>, <<"!", "=">>,
     <<"@">>, <<"?">>, <<"(">>, <<")">>, <<"{">>, <<"}">>, <<"[">>, <<"]">>, <<",">>,
     <<".">>, <<".", ".">>, <<".", ".", ".">>, <<";">>}

CharAt(text, i) == IF i <= Len(text) THEN text[i] ELSE "eof"

(* The first position from i on that passes a test, or the end of the text.   *)
FirstFrom(text, i, Test(_)) ==
    CHOOSE j \in i..(Len(text) + 1) :
        /\ j > Len(text) \/ Test(j)
        /\ \A k \in i..(j - 1) : ~Test(k)

(* skipWhitespace: a new line is a token.                                    *)
SkipBlanks(text, i) == FirstFrom(text, i, LAMBDA j : text[j] # " ")

(* The cases of NextToken for operators: the longest one that the text goes   *)
(* on with.                                                                  *)
OperatorEnd(text, i) ==
    CHOOSE e \in i..Len(text) :
        /\ SubSeq(text, i, e) \in Operators
        /\ \A f \in (e + 1)..Len(text) : SubSeq(text, i, f) \notin Operators

(* readIdentifier.                                                           *)
IdentifierEnd(text, i) == FirstFrom(text, i, LAMBDA j : text[j] \notin Letters \cup Digits) - 1

(* readNumber: a hexadecimal literal, or everything that may occur in a       *)
(* number, up to a second dot or a pair of dots.                             *)
IsHex(text, i) == text[i] = "0" /\ CharAt(text, i + 1) \in {"x", "X"}

NumberEnd(text, i) ==
    IF IsHex(text, i)
    THEN FirstFrom(text, i + 2, LAMBDA j : text[j] \notin Digits \cup {"e", "_"}) - 1
    ELSE FirstFrom(text, i, LAMBDA j :
            \/ text[j] \notin Digits \cup {".", "e", "+", "-", "_"}
            \/ text[j] = "." /\ (CharAt(text, j + 1) = "." \/ \E k \in i..(j - 1) : text[k] = ".")) - 1

(* readString: up to the quote, a backslash hides the character after it; the *)
(* end of the text ends it too.                                              *)
StringEnd(text, i) ==
    LET hidden[j \in i..Len(text)] == j > i /\ text[j - 1] = "\\" /\ ~hidden[j - 1]
        close == FirstFrom(text, i + 1, LAMBDA j : text[j] = text[i] /\ ~hidden[j])
    IN  IF close > Len(text) THEN Len(text) ELSE close

(* readLineComment and readBlockComment.                                     *)
LineCommentEnd(text, i) == FirstFrom(text, i, LAMBDA j : text[j] = "\n") - 1

BlockCommentEnd(text, i) ==
    LET close == FirstFrom(text, i + 2, LAMBDA j : text[j] = "*" /\ CharAt(text, j + 1) = "/")
    IN  IF close > Len(text) THEN Len(text) ELSE close + 1

(* strconv.ParseInt and ParseFloat on the literals over these characters.     *)
AllDigits(s) == s # <<>> /\ \A i \in 1..Len(s) : s[i] \in Digits

IsInt(s) ==
    LET digits == IF IsHex(s, 1) THEN SubSeq(s, 3, Len(s)) ELSE s
        allowed == IF IsHex(s, 1) THEN Digits \cup {"e"} ELSE Digits
    IN  /\ digits # <<>> /\ digits[1] # "_" /\ digits[Len(digits)] # "_"
        /\ \A i \in 1..Len(digits) :
              digits[i] \in allowed \/ (digits[i] = "_" /\ digits[i - 1] # "_")

IsFloat(s) ==
    LET mantissa == FirstFrom(s, 1, LAMBDA j : s[j] = "e") - 1
        dots     == {i \in 1..mantissa : s[i] = "."}
        expStart == IF CharAt(s, mantissa + 2) \in {"+", "-"} THEN mantissa + 3 ELSE mantissa + 2
    IN  /\ Cardinality(dots) <= 1 /\ mantissa > Cardinality(dots)
        /\ \A i \in 1..mantissa : s[i] \in Digits \cup {"."}
        /\ mantissa = Len(s) \/ AllDigits(SubSeq(s, expStart, Len(s)))

(* The token that begins at i, in the names of the grammar.  An integer token *)
(* keeps its type when it has no dot, so "1e1" is one; a literal the parser   *)
(* cannot convert becomes an identifier there.                               *)
NumberName(s) ==
    IF \E i \in 1..Len(s) : s[i] = "."
    THEN IF IsFloat(s) THEN "float" ELSE "badfloat"
    ELSE IF IsInt(s) THEN "num" ELSE "badnum"

OperatorName(s) ==
    CASE s \in {<<"=", "=">>, <<"!", "=">>} -> "=="
      [] s \in {<<"<", "=">>, <<">", "=">>} -> "<="
      [] s \in {<<"<", "<">>, <<">", ">">>} -> "<<"
      [] s = <<"=", ">">> -> "=>"
      [] s = <<":", "=">> -> ":="
      [] s = <<"-", ">">> -> "->"
      [] s = <<"*", "*">> -> "**"
      [] s = <<"<", "-">> -> "<-"
      [] s = <<".", ".">> -> ".."
      [] s = <<".", ".", ".">> -> "..."
      [] s = <<"&", "&">> -> "&&"
      [] s = <<"|", "|">> -> "||"
      [] s \in {<<"/">>, <<"%">>, <<"@">>} -> "*"
      [] s \in {<<"~">>} -> "!"
      [] OTHER -> IF Len(s) > 1 THEN "+=" ELSE s[1]

Token(name, i, e) == [name |-> name, first |-> i, next |-> e + 1]

(* NextToken from position i on.                                             *)
NextToken(text, from) ==
    LET i == SkipBlanks(text, from)
        c == CharAt(text, i)
        d == CharAt(text, i + 1)
    IN  CASE c = "eof" -> Token("eof", i, i - 1)
          [] c = "\n" -> Token("newline", i, i)
          [] c = "/" /\ d = "/" -> Token(IF CharAt(text, i + 2) = "/" THEN "doc" ELSE "comment",
                                         i, LineCommentEnd(text, i))
          [] c = "/" /\ d = "*" -> Token("comment", i, BlockCommentEnd(text, i))
          [] c \in Quotes -> Token("str", i, StringEnd(text, i))
          [] c \in Digits -> LET e == NumberEnd(text, i) IN Token(NumberName(SubSeq(text, i, e)), i, e)
          [] c \in Letters -> Token(IF c = "X" THEN "X" ELSE "x", i, IdentifierEnd(text, i))
          [] OTHER -> LET e == IF <<c>> \in Operators THEN OperatorEnd(text, i) ELSE i
                      IN  Token(IF <<c>> \in Operators THEN OperatorName(SubSeq(text, i, e)) ELSE "illegal",
                                i, e)

=============================================================================
