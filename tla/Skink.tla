-------------------------------- MODULE Skink --------------------------------
(***************************************************************************)
(* compiler/cmd/skink/main.go: the command, which runs the passes one after   *)
(* the other, and the test runner, which runs them for each test file.       *)
(*                                                                          *)
(* A definition whose name starts with Mut is a broken version of the one     *)
(* after it, used to test that a property notices; no specification uses it. *)
(***************************************************************************)
EXTENDS Imports, Mono, Templates, Build, Fetch

VARIABLES
    tests,      \* the test files still to be run
    temps,      \* the directories made for tests that are still there
    oldHome,    \* what SKINK_HOME was before the test
    passed,
    failed

testVars == <<tests, temps, oldHome, passed, failed>>
vars == <<programVars, importVars, monoVars, templateVars, buildVars, fetchVars, testVars>>

unimported == <<monoVars, templateVars, buildVars, fetchVars, testVars>>
unmade     == <<importVars, templateVars, buildVars, fetchVars, testVars>>
uncalled   == <<importVars, monoVars, buildVars, fetchVars, testVars>>
unlinked   == <<importVars, monoVars, templateVars, fetchVars, testVars>>
offline    == <<importVars, monoVars, templateVars, buildVars, testVars>>
unpassed   == <<importVars, monoVars, templateVars, buildVars, fetchVars>>

Init ==
    /\ ProgramInit /\ ImportsInit /\ MonoInit /\ TemplatesInit /\ BuildInit /\ FetchInit
    /\ tests = <<>> /\ temps = {} /\ oldHome = Root /\ passed = 0 /\ failed = 0

-----------------------------------------------------------------------------
(* The command line.                                                         *)
Command ==
    /\ stage = "start"
    /\ CASE input.command = "test" -> Goes("test") /\ tests' = input.tests
         [] input.command = "get"  -> Goes("get") /\ UNCHANGED tests
         [] OTHER -> Goes("resolve") /\ UNCHANGED tests
    /\ UNCHANGED <<pass, paths, home, decls, symbolInfo, unpassed, temps, oldHome, passed, failed>>

(* Takes the name without its module.                                       *)
MutBaseInfo(name) ==
    LET base == Plain(name.parts[1])
    IN  {IF base \in DOMAIN symbolInfo THEN symbolInfo[base] ELSE Info("", TRUE)}

(* A declaration without module and visibility is a copy: it gets those of     *)
(* what its name begins with, up to the first underscore.                     *)
BaseInfo(name) ==
    LET base   == Name(name.mod, <<name.parts[1]>>)
        suffix == {n \in DOMAIN symbolInfo : n.mod # "" /\ n.parts = Flat(base)}
    IN  IF Len(name.parts) = 1 THEN {Info("", TRUE)}
        ELSE IF base \in DOMAIN symbolInfo THEN {symbolInfo[base]}
        ELSE IF name.mod # "" \/ suffix = {} THEN {Info("", TRUE)}
        ELSE {symbolInfo[n] : n \in suffix}

UpdateInfo ==
    /\ stage = "info"
    /\ LET new == {d.name : d \in decls} \ DOMAIN symbolInfo
       IN  \E info \in Settle(new, BaseInfo) :
              symbolInfo' = [n \in new \cup DOMAIN symbolInfo |->
                                IF n \in new THEN info[n] ELSE symbolInfo[n]]
    /\ Goes(IF input.command = "ast" THEN "done" ELSE "check")
    /\ UNCHANGED <<pass, paths, home, decls, unpassed, testVars>>

-----------------------------------------------------------------------------
(* The type checker, as far as it looks up the names of calls and of struct   *)
(* values: types/checker.go.                                                 *)
Declared(name) == \E d \in decls : d.name = name /\ d.kind # "template"

Known(names) == {n \in names : Declared(n)}

(* resolveWithKey: the name itself, in the module, in the imported ones.      *)
ResolveWithKey(name, module) ==
    LET inModule == {Name(m, name.parts) : m \in {module} \ {"", "main"}}
        inImport == {Name(m, name.parts) : m \in Imported(module)}
    IN  IF Declared(name) THEN {name}
        ELSE IF name.mod # "" THEN {}
        ELSE IF Known(inModule) # {} THEN inModule ELSE Known(inImport)

(* resolve: a name with a module is also looked up without it.               *)
ResolveName(name, module) ==
    IF name.mod = "" \/ ResolveWithKey(name, module) # {} THEN ResolveWithKey(name, module)
    ELSE ResolveWithKey(Name("", name.parts), module)

Private(name, module) ==
    /\ name \in DOMAIN symbolInfo
    /\ symbolInfo[name].module \notin {"", module} /\ ~symbolInfo[name].pub

(* checkFieldAccessExpr on a module: the symbol must be known as its own.     *)
BelongsTo(name, module) ==
    \E n \in {name, Name("", name.parts)} :
        /\ ResolveName(n, module) # {} /\ n \in DOMAIN symbolInfo
        /\ symbolInfo[n].module = name.mod

CallAccepted(u, d) ==
    LET module == ModuleOf(d)
    IN  /\ IF u.name.mod = "" THEN ResolveName(u.name, module) # {} ELSE BelongsTo(u.name, module)
        /\ \A n \in ResolveName(u.name, module) : ~Private(n, module)

(* checkStructInitExpr.                                                      *)
InitAccepted(u, d) ==
    LET names == IF u.name.mod # "" THEN {u.name}
                 ELSE {u.name} \cup {Name(m, u.name.parts) : m \in {ModuleOf(d)} \cup Imported(ModuleOf(d))}
    IN  \E e \in decls : e.kind = "struct" /\ e.name \in names

Accepted == \A d \in decls : \A u \in d.uses :
                /\ u.kind = "call" => CallAccepted(u, d)
                /\ u.kind = "init" => InitAccepted(u, d)

(* Whatever else the checker looks at, it may find an error in.              *)
CheckProgram ==
    /\ stage = "check"
    /\ \/ Goes("illtyped")
       \/ /\ Accepted
          /\ Goes(CASE input.command = "check" -> "done"
                    [] input.command = "test" -> "build"
                    [] OTHER -> "templates")
    /\ UNCHANGED <<pass, paths, home, decls, symbolInfo, unpassed, testVars>>

(* os.Exit, or the message of the artifact.                                  *)
Exit ==
    /\ input.command # "test" /\ stage \in {"unresolved", "illtyped", "unbuilt", "built"}
    /\ Goes(IF stage = "built" THEN "done" ELSE "exit")
    /\ UNCHANGED <<pass, paths, home, decls, symbolInfo, unpassed, testVars>>

-----------------------------------------------------------------------------
(* runTests.  Each test is built in a directory of its own, which is also      *)
(* SKINK_HOME while it is.                                                   *)

(* The test goes no further: it cannot be read or parsed, no directory can be  *)
(* made for it, or its main not be written (then the directory is removed).   *)
SkipTest ==
    /\ stage = "test" /\ tests # <<>>
    /\ tests' = Tail(tests)
    /\ failed' = IF Head(tests).parses /\ ~Head(tests).named THEN failed ELSE failed + 1
    /\ UNCHANGED <<programVars, unpassed, temps, oldHome, passed>>

StartTest ==
    /\ stage = "test" /\ tests # <<>> /\ Head(tests).parses /\ Head(tests).named
    /\ temps' = temps \cup {Head(tests).dir}
    /\ oldHome' = home /\ home' = Head(tests).dir
    /\ paths' = <<Append(Head(tests).dir, "main")>>
    /\ pass' = 1
    /\ Goes("resolve")
    /\ UNCHANGED <<decls, symbolInfo, unpassed, tests, passed, failed>>

(* Leaves SKINK_HOME as the test had it.                                    *)
MutLeaveTest ==
    /\ temps' = temps \ {Head(tests).dir} /\ disk' = {}
    /\ tests' = Tail(tests)
    /\ Goes("test")
    /\ UNCHANGED <<pass, paths, home, decls, symbolInfo, oldHome, cleanup, artifact,
                   importVars, monoVars, templateVars, fetchVars>>

(* What the exits of the loop have in common.                                *)
LeaveTest ==
    /\ home' = oldHome
    /\ temps' = temps \ {Head(tests).dir} /\ disk' = {}
    /\ tests' = Tail(tests)
    /\ Goes("test")
    /\ UNCHANGED <<pass, paths, decls, symbolInfo, oldHome, cleanup, artifact,
                   importVars, monoVars, templateVars, fetchVars>>

TestFails(at) ==
    /\ input.command = "test" /\ stage = at
    /\ LeaveTest
    /\ failed' = failed + 1 /\ UNCHANGED passed

RunTest ==
    /\ input.command = "test" /\ stage = "built"
    /\ LeaveTest
    /\ \/ passed' = passed + 1 /\ UNCHANGED failed
       \/ failed' = failed + 1 /\ UNCHANGED passed

TestsDone ==
    /\ stage = "test" /\ tests = <<>>
    /\ Goes(IF failed > 0 THEN "exit" ELSE "done")
    /\ UNCHANGED <<pass, paths, home, decls, symbolInfo, unpassed, testVars>>

-----------------------------------------------------------------------------
Reading    == Resolve \/ SkipRead \/ ReadFile \/ ReadFails \/ FollowImport \/ IgnoreImport
                  \/ ImportsFollowed \/ AllRead
Searching  == StartSearch \/ VisitNeighbour \/ CycleFound \/ LeaveNode \/ Acyclic
Importing  == (Reading \/ Searching \/ Merge) /\ UNCHANGED unimported
Making     == (Monomorphize \/ CollectInstantiations \/ GenerateSpecializations
                   \/ SubstituteInstantiations) /\ UNCHANGED unmade
Templating == (Begin \/ FindCalls \/ CopyFns \/ RenameCalls) /\ UNCHANGED uncalled
Building   == (Build \/ EmitProgram \/ Optimize \/ Assemble \/ Link) /\ UNCHANGED unlinked
Fetching   == (FetchAll \/ DownloadFails \/ UnpackFails \/ Unpack \/ Fetched) /\ UNCHANGED offline
Testing    == SkipTest \/ StartTest \/ RunTest \/ TestsDone
                  \/ \E at \in {"unresolved", "illtyped", "unbuilt"} : TestFails(at)

Next == Command \/ UpdateInfo \/ CheckProgram \/ Exit
            \/ Importing \/ Making \/ Templating \/ Building \/ Fetching \/ Testing

Spec     == Init /\ [][Next]_vars
FairSpec == Spec /\ WF_vars(Next)

-----------------------------------------------------------------------------
Sources   == UNION {Range(f.decls) : f \in Range(input.files)}
AllParams == UNION {Range(d.params) : d \in Sources}

(* The instances of generics that a type is made of.                         *)
Instances(type) == {t \in PartsOfType[type] : t.args # <<>> /\ t.parts[1] \notin Constructors}

SingleKeys(type) == Len(type.args) = 1 \/ \A i \in DOMAIN type.args : Len(TypeMangleKey[type.args[i]]) = 1

Mentions(u) == \/ Range(u.as.parts) \cap AllParams # {}
               \/ \E t \in PartsOfType[u.as] : t.args = <<>> /\ t.parts[1] \in AllParams

(* What the three passes of Monomorphize are made for: a use that each of them *)
(* goes into.  A type is written with the module of the generic.  In a generic *)
(* a use of a parameter is a type, a struct value, or a call with a module.    *)
(* The arguments of a call or a struct value are no instances themselves, and  *)
(* those of several parameters are one part each.  A module writes the types it *)
(* has itself with its name, when they are arguments.                        *)
Supported(u, d) ==
    /\ Reaches(Collected \cap Replaced, u.path)
    /\ d.from # NoName => Reaches(Specialized, u.path)
    /\ u.kind \in {"type", "named"} => u.as.mod = u.want.mod
    /\ d.from # NoName /\ Mentions(u) =>
          u.kind \in {"type", "init"} \/ (u.kind = "call" /\ u.as.mod # "")
    /\ u.kind \in {"call", "init"} => Instances(u.want) = {u.want}
    /\ \A t \in Instances(u.want) : SingleKeys(t)
    /\ ~Private(NameOf(u.want), ModuleOf(d))
    /\ \A i \in DOMAIN u.as.args : \A t \in PartsOfType[u.as.args[i]] :
          t.mod = "" /\ ModuleOf(d) # "main" => Name(ModuleOf(d), t.parts) \notin symbols

IsCopy(e, type) == e.from = NameOf(type) /\ Flat(e.name) = Flat(MangleName(NameOf(type), type.args))

(* The instances that a use names, those inside of others left out.           *)
Outermost(type) ==
    {t \in Instances(type) : \A s \in Instances(type) : t \in PartsOfType[s] => s = t}

NamesIn(u, d) == {Flat(n) : n \in UNION {LookupNames(NameOf(t), ModuleOf(d)) :
                                          t \in PartsOfType[Generic(u.name, u.args)]}}

Accepts(u, d) == CASE u.kind = "call" -> CallAccepted(u, d)
                   [] u.kind = "init" -> InitAccepted(u, d)
                   [] OTHER -> TRUE

(* Every supported use of an instance of a generic, one that is visible where  *)
(* it is used, finds the copy that was made of it, and the type checker accepts *)
(* the name the use was given.  The second run of Monomorphize, which Build       *)
(* starts on a program that has no generics left, changes nothing of that.    *)
UsesResolve ==
    stage \in {"check", "emit"} =>
        \A d \in decls : \A u \in d.uses :
            u.want.args # <<>> /\ Supported(u, d) =>
                /\ \A t \in Instances(u.want) : \E e \in decls : IsCopy(e, t)
                /\ \A t \in Outermost(u.want) :
                      \E e \in decls : IsCopy(e, t) /\ Flat(e.name) \in NamesIn(u, d)
                /\ Accepts(u, d)

(* A copy belongs to the module of its generic, and is as visible as that is,  *)
(* when the name of the generic has no underscore and the source does not     *)
(* declare the name of the copy itself.                                      *)
VisibilityKept ==
    stage = "check" =>
        \A d \in decls : d.from # NoName /\ Len(d.from.parts) = 1 /\ d.name \notin GivenNames =>
            symbolInfo[d.name] = symbolInfo[d.from]

(* What a run of Resolve goes on with is closed under imports: the files of    *)
(* the command line and all that they import, of these each from the first     *)
(* place of the search path that has it, and no others; and in any set of files *)
(* one imports none of the set, so that no file imports itself on any way.      *)
(* What is refused as a cycle is one.                                        *)
ImportsClosed(files) == \A p \in files : Range(graph[p]) \subseteq files

FromFirstPlace(p, imp) ==
    LET places == Places(imp, Dir(p))
    IN  \A k \in DOMAIN places : places[k] \in OnDisk => \E j \in 1..k : places[j] \in Range(graph[p])

ImportsResolved ==
    LET files == DOMAIN graph
    IN  /\ stage = "merge" =>
              /\ Range(paths) \subseteq files /\ ImportsClosed(files)
              /\ \A s \in SUBSET files : Range(paths) \subseteq s /\ ImportsClosed(s) => s = files
              /\ \A p \in files : \A imp \in Range(ImportsOf(p)) : FromFirstPlace(p, imp)
              /\ \A s \in SUBSET files : s # {} => \E p \in s : Range(graph[p]) \cap s = {}
        /\ cycle # <<>> =>
              /\ Len(cycle) > 1 /\ cycle[1] = cycle[Len(cycle)]
              /\ \A i \in 2..Len(cycle) : cycle[i - 1] \in files /\ cycle[i] \in Range(graph[cycle[i - 1]])

(* A function with templates as it stands in the merged program.              *)
Templated == {c \in MergedDecls : TakesTemplate(c)}

(* The types a call gives to the templates of its callee, one to each.         *)
Fits(callee, u) ==
    /\ \A i \in TemplateParams(callee) : i \in DOMAIN u.given /\ u.given[i] # NoType
    /\ \A i, j \in TemplateParams(callee) : callee.sig[i] = callee.sig[j] => u.given[i] = u.given[j]

CopiesFor(callee, u) ==
    {e \in decls : e.from = callee.name /\ \A i \in TemplateParams(callee) : e.sig[i] = u.given[i]}

(* Where the passes look, a call whose types can be inferred, and that names   *)
(* the function in full, has a copy of it for these types; and every call that *)
(* there is a copy for names that copy.                                      *)
TemplateCallsResolve ==
    stage = "emit" =>
        \A d \in decls : d.kind = "fn" =>
            \A u \in d.uses : \A c \in Templated :
                u.kind = "call" /\ NameOf(u.want) = c.name /\ Fits(c, u)
                    /\ Reaches(Found \cap Renamed, u.path) =>
                /\ u.as.mod = c.name.mod => CopiesFor(c, u) # {}
                /\ CopiesFor(c, u) # {} => u.name \in {e.name : e \in CopiesFor(c, u)}

(* A generic, or a function with templates, that uses itself at a larger type. *)
Larger(type, p) == type # NamedType(Plain(p)) /\ NamedType(Plain(p)) \in PartsOfType[type]

Grows ==
    \E f \in Range(input.files) : \E d \in Range(f.decls) : \E u \in d.uses :
        /\ NameOf(u.want) = Prefixed(d, f.module).name
        /\ \/ \E i \in DOMAIN d.params : Larger(u.want.args[i], d.params[i])
           \/ \E i \in DOMAIN u.given : i \in DOMAIN d.sig /\ u.given[i] # d.sig[i]

(* Whatever it is given, the command comes to an end: the queue of imports     *)
(* runs dry, no instance is made for ever, each test leads to the next one.    *)
Ends == <>(stage \in {"done", "exit"} \/ Grows)

(* When the command has ended, the home it looks for modules in is the one it   *)
(* found and no directory of a test is left.  Of the files that Build wrote,    *)
(* -emit-ll leaves the text, -c nothing, not even the object file that it says  *)
(* it built, and a build to the end the executable and the .skink-rt directory  *)
(* of its runtime files, which the code keeps on purpose.  But for -c, the file *)
(* the command says it built is there.                                       *)
Kept == IF input.stop = "ll" THEN {"ll"} ELSE IF input.stop = "obj" THEN {} ELSE {"out", "rt"}

NothingLeft ==
    stage \in {"done", "exit"} =>
        /\ home = input.home /\ temps = {}
        /\ disk \subseteq (IF input.command = "test" THEN {} ELSE Kept)
        /\ input.command = "build" /\ stage = "done" /\ input.stop # "obj" => artifact \in disk

(* "skink get" ends well only with every package that a line of skink.mod asks *)
(* for, in a block or not, at the version of a line that does, unless a line    *)
(* names a package it lies in: the fetch of that one removes it.  It touches    *)
(* no package but those that a line names or that lie in one.                *)
Asks(line) == line.key \in {"path", "require", "requires"} /\ line.fields >= 2

FetchedAsRequired ==
    LET named == {input.mod[i].package : i \in DOMAIN input.mod}
    IN  /\ stage = "done" /\ input.command = "get" =>
              \A i \in DOMAIN input.mod :
                  Asks(input.mod[i]) /\ (\A q \in named : ~LiesIn(input.mod[i].package, q)) =>
                      \E j \in DOMAIN input.mod : /\ input.mod[j].package = input.mod[i].package
                                                  /\ input.mod[j].version = cache[input.mod[i].package]
        /\ \A p \in DOMAIN cache : cache[p] # input.cache[p] => \E q \in named : p = q \/ LiesIn(p, q)

=============================================================================
