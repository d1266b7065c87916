-------------------------------- MODULE Build --------------------------------
(***************************************************************************)
(* compiler/codegen/build.go: Build, from the program to an executable, with *)
(* the tools it calls and the files it writes and removes.                  *)
(***************************************************************************)
EXTENDS Program

VARIABLES
    disk,       \* the files of this build: "ll", "opt", "obj", "out", "rt"
    cleanup,    \* the files that a deferred call removes
    artifact    \* what Build returns, "" with an error

buildVars == <<disk, cleanup, artifact>>

BuildInit == disk = {} /\ cleanup = {} /\ artifact = ""

unbuilt == <<paths, home, decls, symbolInfo>>

HasMain == \E d \in decls : d.kind = "fn" /\ d.name = Plain("main")

(* Build makes the generics concrete once more before it emits code.         *)
Build ==
    /\ stage = "build"
    /\ IF HasMain THEN /\ Goes("mono") /\ pass' = 2
                       /\ cleanup' = (IF input.stop = "ll" THEN {} ELSE {"ll"}) \cup {"obj"}
       ELSE Goes("unbuilt") /\ UNCHANGED <<pass, cleanup>>
    /\ artifact' = ""
    /\ UNCHANGED <<disk, unbuilt>>

(* The end of Build: the deferred removals, on every path after they are set.  *)
Returns(made, result) ==
    /\ disk' = (disk \cup made) \ cleanup
    /\ artifact' = result
    /\ Goes(IF result = "" THEN "unbuilt" ELSE "built")

-----------------------------------------------------------------------------
(* EmitProgram, and the file with its text.                                  *)
EmitProgram ==
    /\ stage = "emit"
    /\ \/ Returns({}, "")
       \/ input.stop = "ll" /\ Returns({"ll"}, "ll")
       \/ /\ input.stop # "ll"
          /\ disk' = disk \cup {"ll"} /\ Goes("opt") /\ UNCHANGED artifact
    /\ UNCHANGED <<pass, cleanup, unbuilt>>

(* opt, or one of its versions, or none: then the text stays as it is.       *)
Optimize ==
    /\ stage = "opt"
    /\ cleanup' = cleanup \cup {"opt"}
    /\ \E works \in BOOLEAN : disk' = disk \cup (IF works THEN {"opt"} ELSE {})
    /\ Goes("llc")
    /\ UNCHANGED <<pass, artifact, unbuilt>>

(* llc, one of its versions, or clang.                                       *)
Assemble ==
    /\ stage = "llc"
    /\ \/ Returns({}, "")
       \/ input.stop = "obj" /\ Returns({"obj"}, "obj")
       \/ /\ input.stop # "obj"
          /\ disk' = disk \cup {"obj"} /\ Goes("link") /\ UNCHANGED artifact
    /\ UNCHANGED <<pass, cleanup, unbuilt>>

-----------------------------------------------------------------------------
(* What the code of the program refers to, and what detectNeededRuntimeFiles  *)
(* finds of it.                                                              *)
Refers == {n.runtime : n \in UNION {d.needs : d \in decls}}
Needed ==
    {n.runtime : n \in UNION {{m \in d.needs : Reaches(Scanned(d.kind, m.runtime), m.path)} : d \in decls}}

(* compileRuntimeObjectsForProgram leaves its directory; the C compiler, the   *)
(* linker or the search for one may fail.                                    *)
Link ==
    /\ stage = "link"
    /\ LET rt == IF Needed = {} THEN {} ELSE {"rt"}
       IN  \/ Returns({}, "")
           \/ Returns(rt, "")
           \/ Refers \subseteq Needed /\ Returns(rt \cup {"out"}, "out")
    /\ UNCHANGED <<pass, cleanup, unbuilt>>

=============================================================================
