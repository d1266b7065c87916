------------------------------ MODULE MCParse ------------------------------
(* Texts for the parser: how one begins, what it may go on with, how long.    *)
EXTENDS ParseTrees

Menu(first, free, n, chars, keep) ==
    [first |-> first, free |-> free, length |-> n, text |-> chars, tree |-> keep]

Tokens(first, free, n) == Menu(first, free, n, <<>>, FALSE)
Tree(free, n)          == Menu(<<"var", "x", "=">>, free, n, <<>>, TRUE)
Chars(first, chars)    == Menu(first, {}, 0, chars, FALSE)

InFn    == <<"fn", "x", "(", ")", "{">>
InValue == <<"var", "x", "=">>

Signature == {"(", ")", "x", ":", "->", ",", "{", "}"}

Declarations ==
    {Tokens(<<>>, {"fn", "x", "(", ")", "{", "}", ":", "int", ",", "->"}, 8),
     Tokens(<<"fn", "x">>, {".", "x", "<", ">", ":", "(", ")", ","}, 7),
     Tokens(<<"fn", "x", "(", "x", ":">>,
            {"x", ".", "<", ">", "map", "[", "]", "set", "chan", "*", "fn", "(", ")", "->", ",", "..."}, 6),
     Tokens(<<"pub", "extern">>, {"fn", "var"} \cup Signature, 8),
     Tokens(<<"[">>, {"x", "(", ")", ",", "]", "fn", "pub"}, 6),
     Tokens(<<>>, {"const", "var", "type", "{", "}", "x", "=", "num", ",", ":", "["}, 6),
     Tokens(<<"struct", "x">>, {"<", "x", ">", "{", "}", ":", "num", "fn", "pub", ",", "doc"}, 6),
     Tokens(<<"service", "x">>, {"for", "x", "{", "}", "fn", "pub", "(", ")", "doc"}, 6),
     Tokens(<<"enum", "x">>, {"{", "}", ",", "x", "doc", "num"}, 5),
     Tokens(<<"ruleset", "x">>, {"{", "}", "rule", "doc", "x"}, 4),
     Tokens(<<"ruleset", "x", "{", "rule", "x", "when", "x", "{">>,
            {"priority", "action", ":", "num", "{", "}", "fn", "doc", "x"}, 5),
     Tokens(<<"template", "x">>, {"<", "x", ">", "{", "}", "fn", "doc", "(", ")", "->"}, 6),
     Tokens(<<"template", "x", "{", "fn", "x">>, {"(", ")", "x", "<", ">", "->", ",", ":", "}"}, 7),
     Tokens(<<>>, {"import", "module", "x", "str", "as", "{", "}", ",", "int", "num", "doc"}, 6)}

Statements ==
    {Tokens(InFn, {"x", ":=", "=", ",", ".", "[", "]", "(", ")", "}"}, 6),
     Tokens(InFn, {"if", "else", "x", "{", "}", "while", "return", "break"}, 7),
     Tokens(InFn \o <<"for">>, {"x", "in", ":=", "range", "{", "}", ";", "=", "var"}, 6),
     Tokens(InFn, {"defer", "unsafe", "with", "x", "=", "{", "}", "spawn", "doc", "var"}, 5),
     Tokens(InFn, {"match", "x", "_", "{", "}", "=>", "if", ",", ":=", "="}, 6),
     Tokens(InFn \o <<"select", "{">>, {"case", "default", "x", ":=", ":", "<-", "}"}, 6),
     Tokens(InFn \o <<"switch", "x">>, {"{", "case", "default", "x", ":", ",", "}"}, 6),
     Tokens(InFn \o <<"var">>, {"{", "}", "x", ":", "int", "=", ","}, 6),
     Tokens(InFn, {"}", "]", ")", "(", "[", "{", "x", "+"}, 6)}

Values ==
    {Tokens(InValue, {"X", "{", "}", "x", ":", ",", "<", ">", ".", "("}, 6),
     Tokens(InValue, {"x", "<", "X", ">", "int", "(", ")", ","}, 6),
     Tokens(InValue, {"make", "min", "(", ")", "int", "chan", "<", ">", ",", "x"}, 6),
     Tokens(InValue, {"fn", "(", ")", "x", ":", "->", ",", "{", "}"}, 7),
     Tokens(InValue, {"if", "else", "x", "{", "}", "match", "_", "=>"}, 6),
     Tokens(InValue, {"set", "{", "}", "x", ",", ":", "[", "]"}, 6),
     Tokens(InValue \o <<"from", "x", "in", "x">>,
            {"where", "orderby", "ascending", "group", "by", "join", "x", "in", "select"}, 6),
     Tokens(InValue, {"sizeof", "(", ")", "x", "int", "badnum", "float", "str", "true", "tensor"}, 4)}

TreeTexts ==
    {Tree({"x", "+", "*", "<-", "=", "..", "await"}, 6),
     Tree({"x", "-", "**", "(", ")", ",", ".", "?"}, 6),
     Tree({"x", "[", "]", "..", ":", ",", "^"}, 6),
     Tree({"x", "&", "|", "&&", "||"}, 5),
     Tree({"x", "==", "<=", "<<", "!", "num"}, 5)}

Strings(alphabet, n) == UNION {[1..k -> alphabet] : k \in 1..n}

Texts ==
    {Chars(InValue, t) : t \in Strings({"1", "0", "x", ".", "e", "+", "_"}, 3)}
        \cup {Chars(InValue, <<"1">> \o t) : t \in Strings({"1", " ", ".", "e", "+"}, 3)}
        \cup {Chars(InFn \o <<"x">>, t \o <<"}">>) : t \in Strings({"/", "*", "\"", "\\", "\n", "x"}, 3)}

AllMenus == Declarations \cup Statements \cup Values \cup TreeTexts \cup Texts

=============================================================================
