-------------------------------- MODULE Mono --------------------------------
(***************************************************************************)
(* compiler/ast/monomorphize.go: collect the instances of generics that a    *)
(* program names, copy the generics, until no new instance is named; then    *)
(* drop the generics and let the uses name the copies.                      *)
(*                                                                          *)
(* A definition whose name starts with Mut is a broken version of the one     *)
(* after it, used to test that a property notices; no specification uses it. *)
(***************************************************************************)
EXTENDS Imports

CONSTANTS
    MaxRounds   \* bound: rounds of collecting and copying

ASSUME RoundsAssumption == MaxRounds \in Nat \ {0}

VARIABLES
    symbols,    \* m.moduleSymbols
    insts,      \* m.instantiations
    made,       \* m.generatedSpecializations
    round       \* rounds begun

monoVars == <<symbols, insts, made, round>>

MonoInit == symbols = {} /\ insts = {} /\ made = {} /\ round = 0

Generics == {d \in decls : IsGeneric(d)}

(* The beginning of run.                                                     *)
Monomorphize ==
    /\ stage = "mono"
    /\ symbols' = {d.name : d \in {e \in decls : e.kind # "template"}}
    /\ insts' = {} /\ made' = {} /\ round' = 0
    /\ Goes("collect")
    /\ UNCHANGED <<pass, paths, home, decls, symbolInfo>>

-----------------------------------------------------------------------------
(* mono_collect.go.                                                          *)

IsParam(type, params) == type.mod = "" /\ Len(type.parts) = 1 /\ type.parts[1] \in params

(* A type without a module gets the current one when that has such a symbol.  *)
Qualify(type, module) ==
    IF type.mod = "" /\ type.parts[1] \notin Constructors /\ Name(module, type.parts) \in symbols
    THEN [type EXCEPT !.mod = module] ELSE type

QualifyAll(types, module) == [i \in DOMAIN types |-> Qualify(types[i], module)]

NamesToTry(name, module) ==
    {name} \cup (IF name.mod # "" THEN {Name("", name.parts)}
                 ELSE {Name(m, name.parts) : m \in {module} \ {"", "main"}})

(* tryCollectMangled.                                                        *)
CollectMangled(name, module, params) ==
    {MangleName(p[2].name, QualifyAll(DemangledArgs(p[1], p[2]), module)) :
        p \in {q \in NamesToTry(name, module) \X Generics :
                  /\ Demangles(q[1], q[2])
                  /\ \A i \in DOMAIN DemangledArgs(q[1], q[2]) :
                        ~IsParam(DemangledArgs(q[1], q[2])[i], params)}}

(* collectInType: a parameter is noticed when it is an argument, not when it  *)
(* is inside of one.                                                         *)
CollectType(type, params) ==
    {MangleName(NameOf(t), t.args) :
        t \in {u \in PartsOfType[type] :
                  /\ u.args # <<>> /\ \E g \in Generics : g.name = NameOf(u)
                  /\ \A i \in DOMAIN u.args : ~IsParam(u.args[i], params)}}

CollectUse(u, d) ==
    IF ~Reaches(Collected, u.path) THEN {}
    ELSE IF u.kind \in {"type", "named"} THEN CollectType(Generic(u.name, u.args), Range(d.params))
    ELSE CollectMangled(u.name, ModuleOf(d), Range(d.params))

CollectInstantiations ==
    /\ stage = "collect" /\ round < MaxRounds
    /\ insts' = insts \cup UNION {UNION {CollectUse(u, d) : u \in d.uses} : d \in decls}
    /\ round' = round + 1
    /\ Goes(IF insts' = insts THEN "substitute" ELSE "generate")
    /\ UNCHANGED <<pass, paths, home, decls, symbolInfo, symbols, made>>

-----------------------------------------------------------------------------
(* mono_specialize.go.                                                       *)

(* substituteMangledName, the keys of the types in the place of the           *)
(* parameters.  The module is the one that the collection ended in.          *)
SubstituteMangledName(name, mapping) ==
    Name(name.mod, FlattenSeq(
        [i \in DOMAIN name.parts |->
            IF name.parts[i] \in DOMAIN mapping THEN TypeMangleKey[mapping[name.parts[i]]]
            ELSE IF i > 1 /\ Name(LastModule, <<name.parts[i]>>) \in symbols
            THEN <<LastModule, name.parts[i]>> ELSE <<name.parts[i]>>]))

(* substituteExpr on the four kinds of use.  The name of a call is substituted *)
(* only where a module or a value stands before it.                          *)
SubstituteUse(u, mapping) ==
    LET type  == SubstituteType(Generic(u.name, u.args), mapping)
        meant == [u EXCEPT !.want = SubstituteType(u.want, mapping),
                           !.given = [i \in DOMAIN u.given |-> SubstituteType(u.given[i], mapping)]]
    IN  IF ~Reaches(Specialized, u.path) THEN meant
        ELSE CASE u.kind = "type" -> [meant EXCEPT !.name = NameOf(type), !.args = type.args]
               [] u.kind = "init" \/ (u.kind = "call" /\ u.name.mod # "") ->
                     [meant EXCEPT !.name = SubstituteMangledName(u.name, mapping)]
               [] OTHER -> meant

(* specializeStruct and specializeFn.                                        *)
Specialize(g, args) ==
    LET mapping == [p \in Range(g.params) |->
                       args[CHOOSE i \in DOMAIN g.params : g.params[i] = p]]
    IN  [g EXCEPT !.name = MangleName(g.name, args), !.params = <<>>, !.from = g.name,
                  !.sig  = [i \in DOMAIN g.sig |-> SubstituteType(g.sig[i], mapping)],
                  !.uses = {SubstituteUse(u, mapping) : u \in g.uses}]

(* In the order of the names a generic comes before one its name begins.      *)
First(generics) == {g \in generics : \A h \in generics : Len(g.name.parts) <= Len(h.name.parts)}

(* The generic an instance is made of: a struct before a function.           *)
SpecializesTo(name) ==
    LET fits    == {g \in Generics : Demangles(name, g)}
        structs == {g \in fits : g.kind = "struct"}
    IN  {Specialize(g, DemangledArgs(name, g)) :
            g \in First(IF structs # {} THEN structs ELSE fits)}

(* MaxDepth bounds what an instance is made for.                             *)
WithinDepth(name) ==
    \A g \in Generics : Demangles(name, g) => Range(DemangledArgs(name, g)) \subseteq Types

(* Stops after one round.                                                   *)
MutGenerateSpecializations ==
    /\ stage = "generate" /\ \A name \in insts : WithinDepth(name)
    /\ decls' = decls \cup UNION {SpecializesTo(name) : name \in insts \ made}
    /\ made' = insts
    /\ Goes("substitute")
    /\ UNCHANGED <<pass, paths, home, symbolInfo, symbols, insts, round>>

GenerateSpecializations ==
    /\ stage = "generate" /\ \A name \in insts : WithinDepth(name)
    /\ decls' = decls \cup UNION {SpecializesTo(name) : name \in insts \ made}
    /\ made' = insts
    /\ Goes("collect")
    /\ UNCHANGED <<pass, paths, home, symbolInfo, symbols, insts, round>>

-----------------------------------------------------------------------------
(* mono_substitute.go.                                                       *)

(* demangleName and qualifyTypes: the instance that a name reads as, if any.   *)
ReadAs(name, kind, module) ==
    {MangleName(g.name, QualifyAll(DemangledArgs(name, g), module)) :
        g \in First({h \in Generics : h.kind = kind /\ Demangles(name, h)})}

(* qualifyMangledName: what the first of some names that is one reads as.      *)
QualifyMangledName(names, kind, module) ==
    LET instances == SelectSeq(names, LAMBDA name : ReadAs(name, kind, module) # {})
    IN  IF instances = <<>> THEN names[1]
        ELSE CHOOSE name \in ReadAs(instances[1], kind, module) : TRUE

(* The name of a generic gets the module that has it, unless that is main.    *)
InModule(name, base, module) ==
    IF name.mod = "" /\ module \notin {"", "main"} /\ Name(module, base) \in symbols
    THEN Name(module, name.parts) ELSE name

(* replaceType.                                                              *)
ReplaceType(type, module) ==
    LET Written(t) == {NameOf(t)} \cup (IF t.mod # "" THEN {}
                          ELSE {Name(m, t.parts) : m \in {module} \ {"", "main"}})
        NewName(t) == IF t.parts[1] \in Constructors \cup Primitives THEN NameOf(t)
                      ELSE InModule(NameOf(t), <<t.parts[1]>>, module)
        Replace[t \in Types] ==
            IF t.args = <<>> THEN NamedType(NewName(t))
            ELSE IF \E g \in Generics : g.name \in Written(t) THEN NamedType(MangleName(NewName(t), t.args))
            ELSE Generic(NewName(t), [i \in DOMAIN t.args |-> Replace[t.args[i]]])
    IN  Replace[type]

(* A call that a module stands before.  It names the instance if that exists;  *)
(* what is then a field access still has its field qualified, once more.  The   *)
(* field may get the module that stands before it already: that is one module  *)
(* here, for the type checker takes such a field by itself.                  *)
ReplaceCall(name, module) ==
    LET Read(n)  == QualifyMangledName(<<Name("", n.parts), n>>, "fn", module)
        Field(n) == Name(n.mod, Read(n).parts)
        instance == Read(name)
    IN  IF Len(name.parts) = 1 THEN name
        ELSE IF instance \notin made \cup insts THEN Field(name)
        ELSE IF instance.mod = "" THEN instance ELSE Field(instance)

(* replaceInExpr on the four kinds of use.                                   *)
ReplaceUse(u, d) ==
    LET module == ModuleOf(d)
        type   == ReplaceType(Generic(u.name, u.args), module)
    IN  IF ~Reaches(Replaced, u.path) THEN u
        ELSE CASE u.kind = "type" -> [u EXCEPT !.name = NameOf(type), !.args = type.args]
               [] u.kind = "named" /\ u.args # <<>> ->
                     [u EXCEPT !.name = MangleName(InModule(u.name, u.name.parts, module),
                                                   QualifyAll(u.args, module)),
                               !.args = <<>>]
               [] u.kind = "init" ->
                     [u EXCEPT !.name = QualifyMangledName(<<u.name>>, "struct", module)]
               [] u.kind = "call" /\ u.name.mod # "" -> [u EXCEPT !.name = ReplaceCall(u.name, module)]
               [] OTHER -> u

(* substituteInstantiations, and where the command goes on after it.         *)
SubstituteInstantiations ==
    /\ stage = "substitute"
    /\ decls' = {[d EXCEPT !.sig  = [i \in DOMAIN d.sig |-> ReplaceType(d.sig[i], ModuleOf(d))],
                           !.uses = {ReplaceUse(u, d) : u \in d.uses}] : d \in decls \ Generics}
    /\ Goes(IF pass = 1 THEN "info" ELSE "templates")
    /\ UNCHANGED <<pass, paths, home, symbolInfo, symbols, insts, made, round>>

=============================================================================
