------------------------------- MODULE MCEmit -------------------------------
(* Finite instances of Emit: one parameter and one name of a local.  Bodies   *)
(* mix the statements of one menu: returns under nesting, results, references,*)
(* jumps out of the three loops, and deferred calls with early returns.       *)
EXTENDS Emit

CONSTANTS p, x

OneParam == <<p>>

AllMenus ==
    {{"var", "return", "if", "while"},
     {"var", "assign", "value", "if"},
     {"var", "values", "block"},
     {"var", "assign", "block"},
     {"var", "return", "range"},
     {"break", "continue", "if", "while", "range"},
     {"use", "break", "for", "panic"},
     {"defer", "try", "return", "if"}}

DeferMenu == {{"defer", "return", "if"}}

=============================================================================
