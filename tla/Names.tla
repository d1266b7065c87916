------------------------------- MODULE Names -------------------------------
(***************************************************************************)
(* Names and types as compiler/ast/mono_utils.go mangles and demangles them. *)
(*                                                                          *)
(* A name is its module ("" when it is written without one) and what stands *)
(* between the underscores: max_value is the name with the parts max and     *)
(* value.  A type is a name and its arguments; a constructor (ptr for "*T",  *)
(* arr for "[]T", map, ...) is a name like any other, with its element types *)
(* as arguments.                                                            *)
(***************************************************************************)
EXTENDS Naturals, SequencesExt

CONSTANTS
    MaxDepth    \* bound: how deep the types of a program are nested

ASSUME DepthAssumption == MaxDepth \in Nat

Name(module, parts)    == [mod |-> module, parts |-> parts]
Plain(part)            == Name("", <<part>>)
Generic(name, args)    == [mod |-> name.mod, parts |-> name.parts, args |-> args]
NamedType(name)        == Generic(name, <<>>)
NameOf(type)           == Name(type.mod, type.parts)

(* The constructors of types: they are no names of declarations.             *)
Constructors == {"ptr", "arr", "set", "map", "chan", "tup", "fn"}

Primitives == {"int", "float", "bool", "string"}

(* With the dot of a module written as an underscore, which is also how the  *)
(* code generator names what it emits.                                       *)
Flat(name) == IF name.mod = "" THEN name.parts ELSE <<name.mod>> \o name.parts

(* The types that are nested n deep at most.                                 *)
TypesTo[n \in Nat] ==
    [mod: STRING, parts: Seq(STRING), args: IF n = 0 THEN {<<>>} ELSE Seq(TypesTo[n - 1])]

Types == TypesTo[MaxDepth]

(* typeMangleKey: a function type loses what it is made of.                  *)
TypeMangleKey[type \in Types] ==
    IF type.parts = <<"fn">> THEN <<"fn">>
    ELSE Flat(type) \o FlattenSeq([i \in DOMAIN type.args |-> TypeMangleKey[type.args[i]]])

MangleName(name, args) ==
    Name(name.mod, name.parts \o FlattenSeq([i \in DOMAIN args |-> TypeMangleKey[args[i]]]))

(* typeFromMangleKey: only the three constructors of one element come back.  *)
TypeFromMangleKey[key \in Seq(STRING)] ==
    IF Len(key) > 1 /\ key[1] \in {"ptr", "arr", "set"}
    THEN Generic(Plain(key[1]), <<TypeFromMangleKey[Tail(key)]>>)
    ELSE NamedType(Name("", key))

(* demangleName: whether a name reads as an instance of a generic.  What      *)
(* follows the name of the generic is one type, or one part for each of      *)
(* several parameters.                                                       *)
Suffix(name, generic) == SubSeq(name.parts, Len(generic.name.parts) + 1, Len(name.parts))

Demangles(name, generic) ==
    /\ name.mod = generic.name.mod
    /\ IsStrictPrefix(generic.name.parts, name.parts)
    /\ Len(generic.params) = 1 \/ Len(generic.params) = Len(Suffix(name, generic))

DemangledArgs(name, generic) ==
    LET keys == IF Len(generic.params) = 1 THEN <<Suffix(name, generic)>>
                ELSE [i \in DOMAIN generic.params |-> <<Suffix(name, generic)[i]>>]
    IN  [i \in DOMAIN keys |-> TypeFromMangleKey[keys[i]]]

(* SubstituteType: "mapping" gives the types of some type parameters.        *)
SubstituteType(type, mapping) ==
    LET Subst[t \in Types] ==
            IF t.args # <<>> THEN [t EXCEPT !.args = [i \in DOMAIN t.args |-> Subst[t.args[i]]]]
            ELSE IF t.mod = "" /\ t.parts[1] \in DOMAIN mapping /\ Len(t.parts) = 1
            THEN mapping[t.parts[1]]
            ELSE t
    IN  Subst[type]

(* A type and every type it is made of.                                      *)
PartsOfType[type \in Types] == {type} \cup UNION {PartsOfType[type.args[i]] : i \in DOMAIN type.args}

=============================================================================
