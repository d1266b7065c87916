------------------------------ MODULE Program ------------------------------
(***************************************************************************)
(* What the passes of the skink command hand to one another.                *)
(*                                                                          *)
(* A declaration is a record of its name; "kind" ("fn", "struct" or           *)
(* "template"); "params", the type parameters; "sig", the types of the        *)
(* parameters of a function; pub; "uses", the places in it that name another  *)
(* declaration; "needs", the paths to what refers to a runtime file; "ctx",     *)
(* the module that the walks over the merged program take it to be in; and,    *)
(* as history, "from", the declaration of the source it is a copy of.        *)
(*                                                                          *)
(* A use lies at the end of a path of slots (Slots.tla).  It is a "type" or a *)
(* "named" type in an expression, with the type arguments "args", or a struct *)
(* "init" or a "call", whose name the parser mangled.  "given" are the types  *)
(* that can be inferred for the arguments of a call, NoType where none can.   *)
(* "as" and "want" are history: the name and arguments as they were written,   *)
(* and the instance the source means, every name in full.                    *)
(***************************************************************************)
EXTENDS Names, Slots

CONSTANTS
    Inputs      \* bound: what the command is given, one record for each behaviour

VARIABLES
    input,      \* the record chosen
    stage,      \* the step that comes next
    pass,       \* 1: run by main.go, 2: run again by codegen.Build
    paths,      \* the files that Resolve is given
    home,       \* SKINK_HOME, or ~/.skink; the root when there is neither
    decls,      \* the declarations of the merged program
    symbolInfo  \* the module and the visibility of each name

programVars == <<input, stage, pass, paths, home, decls, symbolInfo>>

NoName == Name("", <<>>)
NoType == NamedType(NoName)

(* The module a declaration is taken to be in: the qualifier of its name, or *)
(* else that of the last module declaration before it.                       *)
ModuleOf(d) == IF d.name.mod # "" THEN d.name.mod ELSE d.ctx

IsGeneric(d) == d.params # <<>>

Imported(module) == UNION {{Last(imp) : imp \in Range(f.imports)} :
                               f \in {g \in Range(input.files) : g.module = module}}

(* resolveWithKey and resolve of the type checker: the names tried for one    *)
(* that is read in a module.                                                 *)
LookupNames(name, module) ==
    LET bare == Name("", name.parts)
    IN  {name, bare}
        \cup {Name(m, name.parts) : m \in (IF name.mod # "" THEN {name.mod} ELSE {})
                \cup ({module} \ {"", "main"}) \cup Imported(module)}

Goes(to) == stage' = to /\ UNCHANGED input

AfterTemplates == IF pass = 1 THEN "build" ELSE "emit"

ProgramInit ==
    /\ input \in Inputs
    /\ stage = "start" /\ pass = 1
    /\ paths = input.paths /\ home = input.home
    /\ decls = {} /\ symbolInfo = <<>>

=============================================================================
