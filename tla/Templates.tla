----------------------------- MODULE Templates -----------------------------
(***************************************************************************)
(* compiler/ast/template_monomorph.go: a function with a parameter whose type *)
(* is a template is copied for the types it is called with.                 *)
(*                                                                          *)
(* A definition whose name starts with Mut is a broken version of the one     *)
(* after it, used to test that a property notices; no specification uses it. *)
(***************************************************************************)
EXTENDS Program

CONSTANTS
    TemplateNames,  \* the names of the templates, in the order of sort.Strings
    MaxTurns        \* bound: turns of the loop of run

ASSUME TurnsAssumption == MaxTurns \in Nat \ {0}

ASSUME NamesAssumption ==
    /\ TemplateNames \in Seq(STRING)
    /\ \A i \in Inputs : \A f \in Range(i.files) : \A d \in Range(f.decls) :
          d.kind = "template" => d.name.parts[1] \in Range(TemplateNames)

VARIABLES
    originals,  \* tm.fnDecls, as the program had them when run began
    mappings,   \* tm.insts: pairs of the name of a function and a mapping
    special,    \* the names of tm.specialized
    turn        \* turns begun

templateVars == <<originals, mappings, special, turn>>

TemplatesInit == originals = {} /\ mappings = {} /\ special = {} /\ turn = 0

(* The template that a type of a parameter names, with or without a module.    *)
TemplateOf(type) ==
    {t.name.parts[1] : t \in {d \in decls : /\ d.kind = "template" /\ type.args = <<>>
                                            /\ d.name.parts = type.parts}}

TemplateParams(d) == {i \in DOMAIN d.sig : TemplateOf(d.sig[i]) # {}}

TakesTemplate(d) == d.kind = "fn" /\ TemplateParams(d) # {}

(* typeKey: the dot of a module stays, as a part; a name has no arguments.     *)
TypeKey[type \in Types] ==
    (IF type.mod = "" THEN <<>> ELSE <<type.mod, ".">>) \o type.parts
    \o (IF type.parts[1] \notin Constructors THEN <<>>
        ELSE FlattenSeq([i \in DOMAIN type.args |-> TypeKey[type.args[i]]]))

(* mangleTmplFn: the types in the order of the names of the templates.         *)
MangleTemplate(name, mapping) ==
    LET bound == SelectSeq(TemplateNames, LAMBDA t : t \in DOMAIN mapping)
    IN  Name(name.mod, name.parts \o FlattenSeq([i \in DOMAIN bound |-> TypeKey[mapping[bound[i]]]]))

(* substituteType: a type with a module is also taken without it.            *)
SubstituteTemplate(type, mapping) ==
    LET Subst[t \in Types] ==
            IF t.args # <<>> THEN [t EXCEPT !.args = [i \in DOMAIN t.args |-> Subst[t.args[i]]]]
            ELSE IF Len(t.parts) = 1 /\ t.parts[1] \in DOMAIN mapping THEN mapping[t.parts[1]]
            ELSE t
    IN  Subst[type]

-----------------------------------------------------------------------------
(* What a call maps the templates of its callee to: for each, the inferred     *)
(* type of one of the arguments in its place.  Which one, when the callee has  *)
(* the template twice, is up to the order of a map.                          *)
Inferred(callee, given, template) ==
    {given[i] : i \in {j \in TemplateParams(callee) \cap DOMAIN given :
                          template \in TemplateOf(callee.sig[j]) /\ given[j] # NoType}}

Mappings(callee, given) ==
    LET bound == {t \in UNION {TemplateOf(callee.sig[i]) : i \in TemplateParams(callee)} :
                     Inferred(callee, given, t) # {}}
    IN  IF bound = {} THEN {}
        ELSE {m \in [bound -> Range(given)] : \A t \in bound : m[t] \in Inferred(callee, given, t)}

(* An answer for each of some questions that have one answer or more.        *)
Settle(questions, Answers(_)) ==
    LET open == {q \in questions : Cardinality(Answers(q)) > 1}
    IN  {[q \in questions |-> IF q \in open THEN f[q] ELSE CHOOSE a \in Answers(q) : TRUE] :
            f \in {g \in [open -> UNION {Answers(q) : q \in open}] : \A q \in open : g[q] \in Answers(q)}}

Called(name) == {d \in originals : d.name = name}

Begin ==
    /\ stage = "templates"
    /\ originals' = {d \in decls : d.kind = "fn"}
    /\ mappings' = {} /\ special' = {} /\ turn' = 0
    /\ Goes("find")
    /\ UNCHANGED <<pass, paths, home, decls, symbolInfo>>

(* findInstsInFn on every function of the program, not on methods.           *)
FoundCalls == {u \in UNION {d.uses : d \in {e \in decls : e.kind = "fn"}} :
                  u.kind = "call" /\ Reaches(Found, u.path)}

FindCalls ==
    /\ stage = "find" /\ turn < MaxTurns
    /\ LET Ways(p) == Mappings(p[2], p[1].given)
           calls   == UNION {{<<u, c>> : c \in Called(u.name)} : u \in FoundCalls}
           bound   == {p \in calls : Ways(p) # {}}
       IN  \E pick \in Settle(bound, Ways) :
              mappings' = mappings \cup {<<p[2].name, pick[p]>> : p \in bound}
    /\ turn' = turn + 1
    /\ Goes("copy")
    /\ UNCHANGED <<pass, paths, home, decls, symbolInfo, originals, special>>

-----------------------------------------------------------------------------
(* specializeFn.  Field accesses keep their names: exprType knows the type of  *)
(* no variable.                                                              *)
CopyUse(u, mapping) ==
    LET type  == SubstituteTemplate(Generic(u.name, u.args), mapping)
        bound == [u EXCEPT !.given = [i \in DOMAIN u.given |-> SubstituteTemplate(u.given[i], mapping)]]
    IN  IF u.kind = "type" /\ Reaches(Copied, u.path)
        THEN [bound EXCEPT !.name = NameOf(type), !.args = type.args]
        ELSE bound

CopyFn(d, mapping) ==
    [d EXCEPT !.name = MangleTemplate(d.name, mapping), !.from = d.name,
              !.sig  = [i \in DOMAIN d.sig |-> SubstituteTemplate(d.sig[i], mapping)],
              !.uses = {CopyUse(u, mapping) : u \in d.uses}]

(* Copies what was copied before.                                           *)
MutCopyFns ==
    /\ stage = "copy"
    /\ LET copies == UNION {{CopyFn(d, m[2]) : d \in Called(m[1])} : m \in mappings}
       IN  /\ decls' = decls \cup copies
           /\ special' = special \cup {c.name : c \in copies}
           /\ Goes(IF copies # {} THEN "find" ELSE AfterTemplates)
    /\ UNCHANGED <<pass, paths, home, symbolInfo, originals, mappings, turn>>

CopyFns ==
    /\ stage = "copy"
    /\ LET copies == {c \in UNION {{CopyFn(d, m[2]) : d \in Called(m[1])} : m \in mappings} :
                         c.name \notin special}
       IN  /\ decls' = decls \cup copies
           /\ special' = special \cup {c.name : c \in copies}
           /\ Goes(IF copies # {} THEN "find" ELSE IF special # {} THEN "rename" ELSE AfterTemplates)
    /\ UNCHANGED <<pass, paths, home, symbolInfo, originals, mappings, turn>>

-----------------------------------------------------------------------------
(* Does not look in the module of the caller.                               *)
MutResolveFn(name, d) == name

(* resolveFnName: a name without a module is also looked for in the one of     *)
(* the function that has the call.                                           *)
ResolveFn(name, d) ==
    LET inModule == Name(d.name.mod, name.parts)
    IN  IF Called(name) # {} \/ name.mod # "" \/ d.name.mod = "" \/ Called(inModule) = {}
        THEN name ELSE inModule

(* replaceInExpr on a call: the mapping is inferred once more.               *)
RenameUse(u, d) ==
    LET callees == Called(ResolveFn(u.name, d))
        ways    == UNION {{[u EXCEPT !.name = MangleTemplate(c.name, m)] :
                              m \in Mappings(c, u.given)} : c \in callees}
    IN  IF u.kind # "call" \/ ~Reaches(Renamed, u.path) \/ ways = {} THEN {u} ELSE ways

(* replaceCalls, then removeOriginals.                                       *)
RenameCalls ==
    /\ stage = "rename"
    /\ LET Ways(p) == RenameUse(p[2], p[1])
           fns     == {d \in decls : d.kind = "fn"}
       IN  \E to \in Settle(UNION {{<<d, u>> : u \in d.uses} : d \in fns}, Ways) :
              decls' = (decls \ fns)
                       \cup {[d EXCEPT !.uses = {to[<<d, u>>] : u \in d.uses}] :
                                d \in {e \in fns : ~TakesTemplate(e)}}
    /\ Goes(AfterTemplates)
    /\ UNCHANGED <<pass, paths, home, symbolInfo, templateVars>>

=============================================================================
