----------------------------- MODULE SkinkProofs -----------------------------
(***************************************************************************)
(* Proofs about Skink for any inputs: any files, commands, tests, lines of   *)
(* skink.mod and contents of the cache, and any bounds.  When the command has *)
(* ended it has put back what it changed on the way; a fetch that ended well   *)
(* fetched what was asked for; the resolver goes on with the files that are   *)
(* imported, in any graph of imports, and with no cycle; and the copies of a  *)
(* generic are as visible as it is.                                          *)
(***************************************************************************)
EXTENDS Skink, WellFoundedInduction, TLAPS

(* The stages outside of the passes over a program, and those of Build after   *)
(* it has begun to write.  While the passes go over the program of a test, the  *)
(* test runner has its home and its directory in place.                      *)
Outside == {"start", "test", "get", "fetch", "done", "exit"}
Writing == {"opt", "llc", "link", "built", "unbuilt"}
InTest  == input.command = "test" /\ stage \notin Outside

(* Which run of the passes it is, and which command gets where.              *)
Stages ==
    /\ input \in Inputs
    /\ pass \in {1, 2}
    /\ stage \in {"start", "resolve", "read", "imports", "cycles", "merge", "info", "check", "build"} => pass = 1
    /\ stage = "emit" => pass = 2
    /\ stage = "test" => input.command = "test"
    /\ stage \in {"get", "fetch"} => input.command = "get"
    /\ input.command = "get" => stage \in Outside

(* The home to go back to, and the one directory there is.                   *)
HomeKept ==
    /\ InTest => oldHome = input.home /\ tests # <<>> /\ temps = {Head(tests).dir}
    /\ ~InTest => home = input.home /\ temps = {}

(* What is on disk between the steps of Build, and what it is still to remove.  *)
Deferred == (IF input.stop = "ll" THEN {} ELSE {"ll"}) \cup {"obj"}

FilesKept ==
    /\ stage \notin Writing \cup {"done", "exit"} => disk = {}
    /\ pass = 2 /\ stage \notin Outside \cup Writing => cleanup = Deferred
    /\ stage \in {"opt", "llc", "link"} => input.stop # "ll"
    /\ stage = "link" => input.stop # "obj"
    /\ stage = "opt"  => disk = {"ll"} /\ cleanup = {"ll", "obj"}
    /\ stage = "llc"  => disk \subseteq {"ll", "opt"} /\ cleanup = {"ll", "obj", "opt"}
    /\ stage = "link" => disk \subseteq {"ll", "opt", "obj"} /\ cleanup = {"ll", "obj", "opt"}
    /\ stage \in {"built", "unbuilt"} => disk \subseteq Kept
    /\ stage = "built" /\ input.stop # "obj" => artifact \in disk
    /\ stage \in {"done", "exit"} => disk \subseteq (IF input.command = "test" THEN {} ELSE Kept)
    /\ stage = "done" /\ input.command = "build" /\ input.stop # "obj" => artifact \in disk

(* A line whose package has been fetched, and not been removed with another.   *)
Named == {input.mod[i].package : i \in DOMAIN input.mod}

Settled(i) ==
    (\A q \in Named : ~LiesIn(input.mod[i].package, q)) =>
        \E j \in DOMAIN input.mod : /\ input.mod[j].package = input.mod[i].package
                                    /\ input.mod[j].version = cache[input.mod[i].package]

CacheKept ==
    /\ DOMAIN cache = DOMAIN input.cache
    /\ stage = "fetch" => /\ wanted \subseteq Requires(input.mod)
                          /\ \A i \in Requires(input.mod) \ wanted : Settled(i)
    /\ stage = "done" /\ input.command = "get" => \A i \in Requires(input.mod) : Settled(i)
    /\ \A p \in DOMAIN cache : cache[p] # input.cache[p] => \E q \in Named : p = q \/ LiesIn(p, q)

IInv == Stages /\ HomeKept /\ FilesKept /\ CacheKept

-----------------------------------------------------------------------------
(* The passes over the program in memory change none of what the invariant     *)
(* speaks of but the stage.                                                  *)
Quiet ==
    UNCHANGED <<input, pass, paths, home, tests, temps, oldHome, disk, cleanup, artifact, wanted, cache>>

Moves(from, to) == stage \in from /\ stage' \in to

LEMMA ImportingMoves ==
    ASSUME Importing
    PROVE  Quiet /\ Moves({"resolve", "read", "imports", "cycles", "merge"},
                          {"read", "imports", "cycles", "merge", "mono", "unresolved"})
<1> USE DEF Quiet, Moves, unimported, Goes, testVars, buildVars, fetchVars, programVars, unmerged
<1>1. CASE Reading
  BY <1>1 DEF Importing, Reading, Resolve, SkipRead, ReadFile, ReadFails, FollowImport, IgnoreImport,
     ImportsFollowed, AllRead
<1>2. CASE Searching
  BY <1>2 DEF Importing, Searching, StartSearch, VisitNeighbour, CycleFound, LeaveNode, Acyclic
<1>3. CASE Merge
  BY <1>3 DEF Importing, Merge
<1> QED
  BY <1>1, <1>2, <1>3 DEF Importing

LEMMA MakingMoves ==
    ASSUME Making
    PROVE  Quiet /\ Moves({"mono", "collect", "generate", "substitute"},
                          {"collect", "generate", "substitute", IF pass = 1 THEN "info" ELSE "templates"})
<1> USE DEF Quiet, Moves, unmade, Goes, testVars, buildVars, fetchVars
<1>1. CASE Monomorphize
  BY <1>1 DEF Making, Monomorphize
<1>2. CASE CollectInstantiations
  BY <1>2 DEF Making, CollectInstantiations
<1>3. CASE GenerateSpecializations
  BY <1>3 DEF Making, GenerateSpecializations
<1>4. CASE SubstituteInstantiations
  BY <1>4 DEF Making, SubstituteInstantiations
<1> QED
  BY <1>1, <1>2, <1>3, <1>4 DEF Making

LEMMA TemplatingMoves ==
    ASSUME Templating
    PROVE  Quiet /\ Moves({"templates", "find", "copy", "rename"}, {"find", "copy", "rename", AfterTemplates})
<1> USE DEF Quiet, Moves, uncalled, Goes, testVars, buildVars, fetchVars
<1>1. CASE Begin
  BY <1>1 DEF Templating, Begin
<1>2. CASE FindCalls
  BY <1>2 DEF Templating, FindCalls
<1>3. CASE CopyFns
  BY <1>3 DEF Templating, CopyFns
<1>4. CASE RenameCalls
  BY <1>4 DEF Templating, RenameCalls
<1> QED
  BY <1>1, <1>2, <1>3, <1>4 DEF Templating

LEMMA CheckingMoves ==
    ASSUME UpdateInfo \/ CheckProgram
    PROVE  /\ Quiet
           /\ \/ Moves({"info"}, {IF input.command = "ast" THEN "done" ELSE "check"})
              \/ Moves({"check"}, {"illtyped",
                     IF input.command = "check" THEN "done"
                     ELSE IF input.command = "test" THEN "build" ELSE "templates"})
<1> USE DEF Quiet, Moves, Goes, testVars, unpassed, buildVars, fetchVars
<1>1. CASE UpdateInfo
  BY <1>1 DEF UpdateInfo
<1>2. CASE CheckProgram
  <2>1. Quiet /\ stage = "check"
    BY <1>2 DEF CheckProgram
  <2>2. stage' = "illtyped" \/ stage' = CASE input.command = "check" -> "done"
                                          [] input.command = "test" -> "build"
                                          [] OTHER -> "templates"
    BY <1>2 DEF CheckProgram
  <2> QED
    BY <2>1, <2>2, Zenon
<1> QED
  BY <1>1, <1>2

LEMMA ExitMoves ==
    ASSUME Exit
    PROVE  /\ Quiet /\ input.command # "test"
           /\ \/ Moves({"unresolved", "illtyped", "unbuilt"}, {"exit"})
              \/ Moves({"built"}, {"done"})
  BY DEF Exit, Quiet, Moves, Goes, testVars, unpassed, buildVars, fetchVars

LEMMA CommandMoves ==
    ASSUME Command
    PROVE  /\ UNCHANGED <<input, pass, home, temps, oldHome, disk, cleanup, artifact, wanted, cache>>
           /\ Moves({"start"}, {IF input.command = "test" THEN "test"
                                ELSE IF input.command = "get" THEN "get" ELSE "resolve"})
<1>1. stage = "start" /\ UNCHANGED <<pass, home, temps, oldHome, disk, cleanup, artifact, wanted, cache>>
  BY DEF Command, unpassed, buildVars, fetchVars
<1>2. CASE input.command = "test"
  BY <1>1, <1>2, Zenon DEF Command, Goes, Moves
<1>3. CASE input.command = "get"
  BY <1>1, <1>3, Zenon DEF Command, Goes, Moves
<1>4. CASE input.command \notin {"test", "get"}
  BY <1>1, <1>4, Zenon DEF Command, Goes, Moves
<1> QED
  BY <1>1, <1>2, <1>3, <1>4

-----------------------------------------------------------------------------
(* Each action keeps the invariant.                                          *)
LEMMA ImportingKeeps == ASSUME IInv, Importing PROVE IInv'
<1> USE ImportingMoves DEF IInv, Quiet, Moves
<1>1. Stages'
  BY DEF Stages, Outside
<1>2. HomeKept'
  BY DEF HomeKept, InTest, Outside
<1>3. FilesKept'
  BY DEF FilesKept, Stages, Outside, Writing
<1>4. CacheKept'
  BY DEF CacheKept, Settled, Named
<1> QED
  BY <1>1, <1>2, <1>3, <1>4

LEMMA MakingKeeps == ASSUME IInv, Making PROVE IInv'
<1> USE MakingMoves DEF IInv, Quiet, Moves
<1>1. Stages'
  BY DEF Stages, Outside
<1>2. HomeKept'
  BY DEF HomeKept, InTest, Outside
<1>3. FilesKept'
  BY DEF FilesKept, Stages, Outside, Writing, Deferred
<1>4. CacheKept'
  BY DEF CacheKept, Settled, Named
<1> QED
  BY <1>1, <1>2, <1>3, <1>4

LEMMA TemplatingKeeps == ASSUME IInv, Templating PROVE IInv'
<1> USE TemplatingMoves DEF IInv, Quiet, Moves, AfterTemplates
<1>1. Stages'
  BY DEF Stages, Outside
<1>2. HomeKept'
  BY DEF HomeKept, InTest, Outside
<1>3. FilesKept'
  BY DEF FilesKept, Stages, Outside, Writing, Deferred
<1>4. CacheKept'
  BY DEF CacheKept, Settled, Named
<1> QED
  BY <1>1, <1>2, <1>3, <1>4

LEMMA CheckingKeeps == ASSUME IInv, UpdateInfo \/ CheckProgram PROVE IInv'
<1> USE CheckingMoves DEF IInv, Quiet, Moves
<1>1. Stages'
  BY DEF Stages, Outside
<1>2. HomeKept'
  BY DEF HomeKept, InTest, Outside
<1>3. FilesKept'
  BY DEF FilesKept, Stages, Outside, Writing, Deferred
<1>4. CacheKept'
  BY DEF CacheKept, Settled, Named
<1> QED
  BY <1>1, <1>2, <1>3, <1>4

LEMMA ExitKeeps == ASSUME IInv, Exit PROVE IInv'
<1> USE ExitMoves DEF IInv, Quiet, Moves
<1>1. Stages'
  BY DEF Stages, Outside
<1>2. HomeKept'
  BY DEF HomeKept, InTest, Outside
<1>3. FilesKept'
  BY DEF FilesKept, Stages, Outside, Writing, Kept
<1>4. CacheKept'
  BY DEF CacheKept, Settled, Named, Stages, Outside
<1> QED
  BY <1>1, <1>2, <1>3, <1>4

LEMMA CommandKeeps == ASSUME IInv, Command PROVE IInv'
<1> USE CommandMoves DEF IInv, Moves
<1>1. Stages'
  BY DEF Stages, Outside
<1>2. HomeKept'
  BY DEF HomeKept, InTest, Outside
<1>3. FilesKept'
  BY DEF FilesKept, Stages, Outside, Writing
<1>4. CacheKept'
  BY DEF CacheKept, Settled, Named
<1> QED
  BY <1>1, <1>2, <1>3, <1>4

(* Build: what is on disk when it returns is not what it was to remove.        *)
LEMMA BuildingKeeps == ASSUME IInv, Building PROVE IInv'
<1> USE DEF IInv, Building, unlinked, Goes, testVars, fetchVars, unbuilt
<1>1. UNCHANGED <<input, home, tests, temps, oldHome, wanted, cache>>
  BY DEF Build, EmitProgram, Optimize, Assemble, Link, Returns
<1>2. /\ stage \in {"build", "emit", "opt", "llc", "link"}
      /\ stage' \in {"mono", "unbuilt", "built", "opt", "llc", "link"}
  BY DEF Build, EmitProgram, Optimize, Assemble, Link, Returns
<1>3. Stages'
  <2>1. pass' = pass \/ pass' = 2
    BY DEF Build, EmitProgram, Optimize, Assemble, Link, Returns
  <2> QED
    BY <1>1, <1>2, <2>1 DEF Stages, Outside
<1>4. HomeKept'
  BY <1>1, <1>2 DEF HomeKept, InTest, Outside
<1>5. FilesKept'
  <2>1. CASE Build
    BY <1>1, <2>1 DEF Build, FilesKept, Stages, Outside, Writing, Deferred, Kept
  <2>2. CASE EmitProgram
    <3>1. disk = {} /\ pass = 2 /\ cleanup = Deferred /\ stage = "emit"
      BY <2>2 DEF EmitProgram, FilesKept, Stages, Outside, Writing
    <3> QED
      BY <1>1, <2>2, <3>1 DEF EmitProgram, Returns, FilesKept, Outside, Writing, Deferred, Kept
  <2>3. CASE Optimize
    BY <1>1, <2>3 DEF Optimize, FilesKept, Outside, Writing, Deferred, Kept
  <2>4. CASE Assemble
    BY <1>1, <2>4 DEF Assemble, Returns, FilesKept, Outside, Writing, Deferred, Kept
  <2>5. CASE Link
    BY <1>1, <2>5 DEF Link, Returns, FilesKept, Outside, Writing, Deferred, Kept
  <2> QED
    BY <2>1, <2>2, <2>3, <2>4, <2>5
<1>6. CacheKept'
  BY <1>1, <1>2 DEF CacheKept, Settled, Named
<1> QED
  BY <1>3, <1>4, <1>5, <1>6

(* The test runner.                                                          *)
LEMMA TestingKeeps == ASSUME IInv, Testing PROVE IInv'
<1> USE DEF IInv, Goes, testVars, unpassed, buildVars, fetchVars, programVars
<1> DEFINE Leaves == /\ input.command = "test" /\ stage \in {"unresolved", "illtyped", "unbuilt", "built"}
                     /\ LeaveTest
<1>0. SkipTest \/ StartTest \/ TestsDone \/ Leaves
  BY DEF Testing, TestFails, RunTest
<1>1. UNCHANGED <<input, wanted, cache>>
  BY <1>0 DEF SkipTest, StartTest, TestsDone, LeaveTest
<1>2. Stages'
  BY <1>0, <1>1 DEF SkipTest, StartTest, TestsDone, LeaveTest, Stages, Outside
<1>3. HomeKept'
  <2>1. CASE SkipTest
    BY <2>1 DEF SkipTest, HomeKept, InTest, Outside
  <2>2. CASE StartTest
    BY <2>2 DEF StartTest, HomeKept, InTest, Outside, Stages
  <2>3. CASE TestsDone
    BY <2>3 DEF TestsDone, HomeKept, InTest, Outside
  <2>4. CASE Leaves
    BY <2>4 DEF LeaveTest, HomeKept, InTest, Outside
  <2> QED
    BY <1>0, <2>1, <2>2, <2>3, <2>4
<1>4. FilesKept'
  <2>1. CASE SkipTest
    BY <2>1 DEF SkipTest, FilesKept, Outside, Writing
  <2>2. CASE StartTest
    BY <2>2 DEF StartTest, FilesKept, Outside, Writing
  <2>3. CASE TestsDone
    BY <2>3 DEF TestsDone, FilesKept, Outside, Writing, Stages
  <2>4. CASE Leaves
    BY <2>4 DEF LeaveTest, FilesKept, Outside, Writing
  <2> QED
    BY <1>0, <2>1, <2>2, <2>3, <2>4
<1>5. CacheKept'
  <2>1. stage' # "fetch" /\ (stage' = "done" => input.command = "test")
    BY <1>0 DEF SkipTest, StartTest, TestsDone, LeaveTest, Stages
  <2> QED
    BY <1>1, <2>1 DEF CacheKept, Settled, Named
<1> QED
  BY <1>2, <1>3, <1>4, <1>5

(* What filling the directory of a package does to the others.               *)
LEMMA FillCache ==
    ASSUME NEW package, NEW content, Fill(package, content)
    PROVE  /\ DOMAIN cache' = DOMAIN cache
           /\ package \in DOMAIN cache => cache'[package] = content
           /\ \A p \in DOMAIN cache : p # package /\ ~LiesIn(p, package) => cache'[p] = cache[p]
  BY DEF Fill

(* What was settled stays so, or the package was asked for once more; what was *)
(* touched is named.                                                         *)
LEMMA FillKeeps ==
    ASSUME IInv, stage = "fetch", NEW l \in wanted, NEW content, Fill(input.mod[l].package, content),
           input' = input
    PROVE  /\ DOMAIN cache' = DOMAIN input.cache
           /\ \A p \in DOMAIN cache' : cache'[p] # input.cache[p] => \E q \in Named : p = q \/ LiesIn(p, q)
           /\ content = input.mod[l].version =>
                 \A i \in Requires(input.mod) \ (wanted \ {l}) : Settled(i)'
<1> DEFINE package == input.mod[l].package
<1>1. l \in Requires(input.mod) /\ l \in DOMAIN input.mod /\ package \in Named
  BY DEF IInv, CacheKept, Requires, Named
<1>2. \A i \in Requires(input.mod) : i \in DOMAIN input.mod /\ input.mod[i].package \in DOMAIN cache
  BY CacheAssumption DEF IInv, Stages, CacheKept, Requires
<1>3. /\ DOMAIN cache' = DOMAIN cache
      /\ package \in DOMAIN cache => cache'[package] = content
      /\ \A p \in DOMAIN cache : p # package /\ ~LiesIn(p, package) => cache'[p] = cache[p]
  BY FillCache
<1> HIDE DEF package
<1>4. \A p \in DOMAIN cache' : cache'[p] # input.cache[p] => \E q \in Named : p = q \/ LiesIn(p, q)
  BY <1>1, <1>3 DEF IInv, CacheKept
<1>5. ASSUME content = input.mod[l].version, NEW i \in Requires(input.mod) \ (wanted \ {l})
      PROVE  Settled(i)'
  <2>1. CASE input.mod[i].package = package
    BY <1>1, <1>2, <1>3, <1>5, <2>1 DEF Settled, package
  <2>2. CASE input.mod[i].package # package
    <3>1. Settled(i)
      BY <2>2, <1>5 DEF IInv, CacheKept, package
    <3>2. CASE LiesIn(input.mod[i].package, package)
      BY <1>1, <3>2 DEF Settled, Named
    <3>3. CASE ~LiesIn(input.mod[i].package, package)
      <4>1. cache'[input.mod[i].package] = cache[input.mod[i].package]
        BY <1>2, <1>3, <2>2, <3>3
      <4> QED
        BY <3>1, <4>1 DEF Settled, Named
    <3> QED
      BY <3>2, <3>3
  <2> QED
    BY <2>1, <2>2
<1> QED
  BY <1>3, <1>4, <1>5 DEF IInv, CacheKept

LEMMA FetchingKeeps == ASSUME IInv, Fetching PROVE IInv'
<1> USE DEF Fetching, offline, unfetched, Goes, testVars, buildVars, fetchVars, programVars
<1>1. UNCHANGED <<input, pass, home, tests, temps, oldHome, disk, cleanup, artifact>>
  BY DEF FetchAll, DownloadFails, UnpackFails, Unpack, Fetched
<1>2. /\ stage \in {"get", "fetch"} /\ stage' \in {"fetch", "done", "exit"}
      /\ stage = "fetch" /\ stage' = "done" => wanted = {} /\ UNCHANGED cache
  BY DEF FetchAll, DownloadFails, UnpackFails, Unpack, Fetched
<1>3. input.command = "get" /\ Stages'
  BY <1>1, <1>2 DEF IInv, Stages, Outside
<1>4. HomeKept'
  BY <1>1, <1>2 DEF IInv, HomeKept, InTest, Outside
<1>5. FilesKept'
  BY <1>1, <1>2, <1>3 DEF IInv, FilesKept, Outside, Writing
<1>6. CacheKept'
  <2>1. CASE FetchAll
    BY <1>1, <2>1 DEF FetchAll, IInv, CacheKept, Settled, Named
  <2>2. CASE DownloadFails
    BY <1>1, <2>2 DEF DownloadFails, IInv, CacheKept, Named
  <2>3. CASE UnpackFails
    <3>1. PICK l \in wanted, left \in {"none", "part"} : Fill(input.mod[l].package, left)
      BY <2>3 DEF UnpackFails
    <3>2. stage = "fetch" /\ stage' = "exit"
      BY <2>3 DEF UnpackFails
    <3> QED
      BY <1>1, <3>1, <3>2, FillKeeps DEF CacheKept, Named
  <2>4. CASE Unpack
    <3>1. PICK l \in wanted : Fill(input.mod[l].package, input.mod[l].version) /\ wanted' = wanted \ {l}
      BY <2>4 DEF Unpack
    <3>2. stage = "fetch" /\ stage' = "fetch"
      BY <2>4 DEF Unpack
    <3>3. wanted' \subseteq Requires(input.mod)
      BY <3>1, <3>2 DEF IInv, CacheKept
    <3> QED
      BY <1>1, <3>1, <3>2, <3>3, FillKeeps DEF CacheKept, Named
  <2>5. CASE Fetched
    BY <1>1, <2>5 DEF Fetched, IInv, CacheKept, Settled, Named
  <2> QED
    BY <2>1, <2>2, <2>3, <2>4, <2>5
<1> QED
  BY <1>3, <1>4, <1>5, <1>6 DEF IInv

-----------------------------------------------------------------------------
(* The invariant holds of every behaviour of the command.                      *)
THEOREM Invariance == Spec => []IInv
<1>1. Init => IInv
  <2> SUFFICES ASSUME Init PROVE IInv
    OBVIOUS
  <2> USE DEF Init, ProgramInit, BuildInit, FetchInit
  <2>1. Stages
    BY DEF Stages, Outside
  <2>2. HomeKept
    BY DEF HomeKept, InTest, Outside
  <2>3. FilesKept
    BY DEF FilesKept, Outside, Writing
  <2>4. CacheKept
    BY DEF CacheKept
  <2> QED
    BY <2>1, <2>2, <2>3, <2>4 DEF IInv
<1>2. IInv /\ [Next]_vars => IInv'
  <2> SUFFICES ASSUME IInv, [Next]_vars PROVE IInv'
    OBVIOUS
  <2>1. CASE Next
    BY <2>1, CommandKeeps, CheckingKeeps, ExitKeeps, ImportingKeeps, MakingKeeps, TemplatingKeeps,
       BuildingKeeps, FetchingKeeps, TestingKeeps DEF Next
  <2>2. CASE UNCHANGED vars
    BY <2>2 DEF IInv, Stages, HomeKept, InTest, FilesKept, Deferred, Kept, CacheKept, Settled, Named,
       vars, programVars, testVars, buildVars, fetchVars
  <2> QED
    BY <2>1, <2>2
<1> QED
  BY <1>1, <1>2, PTL DEF Spec

(* Whichever of its steps failed, the command ends with the home it found and   *)
(* with no directory of a test.  Of what Build wrote it leaves the text with    *)
(* -emit-ll, nothing with -c (the object file it reports is gone too), and in a *)
(* build to the end, or one that fails in the linker, no more than the          *)
(* executable and the .skink-rt directory, which build.go keeps on purpose; and *)
(* what it says it built is there, but for -c.                               *)
THEOREM NothingStays == Spec => []NothingLeft
<1>1. IInv => NothingLeft
  BY DEF IInv, NothingLeft, HomeKept, InTest, Outside, FilesKept
<1> QED
  BY <1>1, Invariance, PTL

(* "skink get" fetches what any skink.mod requires, whatever was in the cache,  *)
(* and leaves other packages alone.                                          *)
THEOREM FetchCorrect == Spec => []FetchedAsRequired
<1>1. ASSUME IInv PROVE FetchedAsRequired
  <2>1. \A i \in DOMAIN input.mod : Asks(input.mod[i]) => i \in Requires(input.mod)
    BY DEF Asks, Requires
  <2> QED
    BY <1>1, <2>1 DEF IInv, CacheKept, Settled, Named, FetchedAsRequired
<1> QED
  BY <1>1, Invariance, PTL

-----------------------------------------------------------------------------
(* The files that Resolve knows of: those that were read and those queued.      *)
TestRecord == [dir : Paths, parses : BOOLEAN, named : BOOLEAN]

Typed == input \in Inputs /\ paths \in Seq(Paths) /\ tests \in Seq(TestRecord)

Seen == DOMAIN graph \cup Range(queue)

GraphKept ==
    /\ queue \in Seq(Paths)
    /\ DOMAIN graph \subseteq OnDisk /\ \A p \in DOMAIN graph : graph[p] \in Seq(Paths)
    /\ stage = "imports" => file \in DOMAIN graph /\ next \in Nat \ {0}
    /\ stage \in {"cycles", "merge"} => queue = <<>>

(* They are closed, and the least set that is and has the files of the command *)
(* line.                                                                     *)
ClosureKept ==
    /\ Range(paths) \subseteq Seen
    /\ \A p \in DOMAIN graph : Range(graph[p]) \subseteq Seen
    /\ \A s \in SUBSET Seen :
          Range(paths) \subseteq s /\ (\A p \in s \cap DOMAIN graph : Range(graph[p]) \subseteq s) => s = Seen

PlacesKept ==
    \A p \in DOMAIN graph : \A i \in DOMAIN ImportsOf(p) :
        (stage = "imports" /\ p = file => i < next) => FromFirstPlace(p, ImportsOf(p)[i])

(* The nodes that findCycle is done with import none but one another, and are   *)
(* on no cycle.                                                              *)
OverKept ==
    /\ over \subseteq DOMAIN graph /\ ImportsClosed(over)
    /\ \A s \in SUBSET over : s # {} => \E p \in s : Range(graph[p]) \cap s = {}
    /\ stage = "merge" => over = DOMAIN graph

(* Those it is visiting lie on a path, none twice; the neighbours it has passed *)
(* are done, or the next on the path.                                        *)
Frames == [node : DOMAIN graph, next : Nat \ {0}]

Followed(edges, frame, nodes) ==
    \A j \in DOMAIN edges[frame.node] : j < frame.next => edges[frame.node][j] \in nodes

TrailKept ==
    /\ trail \in Seq(Frames)
    /\ \A i \in DOMAIN trail : trail[i].node \notin over
    /\ \A i, j \in DOMAIN trail : trail[i].node = trail[j].node => i = j
    /\ \A i \in 1..(Len(trail) - 1) :
          /\ trail[i + 1].node \in Range(graph[trail[i].node])
          /\ Followed(graph, trail[i], over \cup {trail[i + 1].node})
    /\ trail # <<>> => Followed(graph, Top, over)

CycleKept ==
    cycle # <<>> =>
        /\ stage \notin {"read", "imports", "cycles", "merge"}
        /\ Len(cycle) > 1 /\ cycle[1] = cycle[Len(cycle)]
        /\ \A i \in 2..Len(cycle) : cycle[i - 1] \in DOMAIN graph /\ cycle[i] \in Range(graph[cycle[i - 1]])

RInv ==
    /\ Typed /\ CycleKept
    /\ stage \in {"read", "imports", "cycles", "merge"} => GraphKept /\ ClosureKept /\ PlacesKept
    /\ stage \in {"cycles", "merge"} => OverKept
    /\ stage = "cycles" => TrailKept

-----------------------------------------------------------------------------
(* Sequences; the files of an input; what depends on it and on the home only.   *)

LEMMA HeadAndTail ==
    ASSUME NEW S, NEW q \in Seq(S), q # <<>>
    PROVE  Head(q) \in Range(q) /\ Tail(q) \in Seq(S) /\ Range(q) = {Head(q)} \cup Range(Tail(q))
<1>1. Len(q) \in Nat \ {0} /\ Head(q) = q[1] /\ DOMAIN q = 1..Len(q) /\ Tail(q) \in Seq(S)
  OBVIOUS
<1>2. DOMAIN Tail(q) = 1..(Len(q) - 1) /\ \A i \in 1..(Len(q) - 1) : Tail(q)[i] = q[i + 1]
  BY <1>1
<1>3. ASSUME NEW i \in DOMAIN q PROVE q[i] \in {Head(q)} \cup Range(Tail(q))
  <2>1. CASE i = 1
    BY <1>1, <2>1
  <2>2. CASE i # 1
    BY <1>1, <1>2, <1>3, <2>2, i - 1 \in 1..(Len(q) - 1) DEF Range
  <2> QED
    BY <2>1, <2>2
<1>4. ASSUME NEW i \in DOMAIN Tail(q) PROVE Tail(q)[i] \in Range(q)
  BY <1>1, <1>2, <1>4, i + 1 \in 1..Len(q) DEF Range
<1>5. Head(q) \in Range(q)
  BY <1>1, 1 \in 1..Len(q) DEF Range
<1>6. Range(q) \subseteq {Head(q)} \cup Range(Tail(q))
  BY <1>3 DEF Range
<1>7. Range(Tail(q)) \subseteq Range(q)
  BY <1>4 DEF Range
<1> QED
  BY <1>1, <1>5, <1>6, <1>7

LEMMA RangeOfAppend ==
    ASSUME NEW S, NEW q \in Seq(S), NEW e \in S
    PROVE  Append(q, e) \in Seq(S) /\ Range(Append(q, e)) = Range(q) \cup {e}
<1>1. /\ DOMAIN q = 1..Len(q) /\ Len(q) \in Nat /\ DOMAIN Append(q, e) = 1..(Len(q) + 1)
      /\ Append(q, e)[Len(q) + 1] = e /\ \A i \in 1..Len(q) : Append(q, e)[i] = q[i]
  OBVIOUS
<1> QED
  BY <1>1 DEF Range

LEMMA Files ==
    ASSUME Typed, NEW p \in OnDisk
    PROVE  p \in Paths /\ ImportsOf(p) \in Seq(Paths)
<1>1. FileAt(p) \in Range(input.files) /\ FileAt(p).path = p
  BY DEF FileAt, OnDisk
<1> QED
  BY <1>1, InputAssumption DEF Typed, ImportsOf

LEMMA Unchanged ==
    ASSUME UNCHANGED <<input, home>>
    PROVE  /\ OnDisk' = OnDisk
           /\ \A p : FileAt(p)' = FileAt(p) /\ ImportsOf(p)' = ImportsOf(p)
           /\ \A imp, dir : Places(imp, dir)' = Places(imp, dir)
  BY DEF OnDisk, FileAt, ImportsOf, Places, SearchPath, Root

LEMMA GraphStays ==
    ASSUME UNCHANGED <<input, home, graph>>
    PROVE  /\ \A s : ImportsClosed(s)' = ImportsClosed(s)
           /\ \A p, imp : FromFirstPlace(p, imp)' = FromFirstPlace(p, imp)
  BY Unchanged DEF ImportsClosed, FromFirstPlace

-----------------------------------------------------------------------------
(* The queue.                                                                *)
LEMMA ResolveKeeps == ASSUME RInv, Resolve, UNCHANGED tests PROVE RInv'
<1> USE DEF RInv, Resolve, Goes, unmerged
<1>1. Typed'
  BY DEF Typed
<1>2. CycleKept'
  BY DEF CycleKept
<1>3. GraphKept'
  BY DEF GraphKept, Typed
<1>4. ClosureKept'
  BY DEF ClosureKept, Seen
<1>5. PlacesKept'
  BY DEF PlacesKept
<1> QED
  BY <1>1, <1>2, <1>3, <1>4, <1>5

LEMMA SkipKeeps == ASSUME RInv, SkipRead, UNCHANGED tests PROVE RInv'
<1> USE DEF SkipRead, programVars
<1>1. Typed /\ CycleKept /\ GraphKept /\ ClosureKept /\ PlacesKept
  BY DEF RInv
<1>2. queue' \in Seq(Paths) /\ Seen' = Seen
  BY <1>1, HeadAndTail DEF GraphKept, Seen
<1>3. GraphKept'
  BY <1>1, <1>2, Unchanged DEF GraphKept
<1>4. ClosureKept'
  BY <1>1, <1>2 DEF ClosureKept
<1>5. PlacesKept'
  BY <1>1, Unchanged, GraphStays DEF PlacesKept
<1>6. Typed' /\ CycleKept'
  BY <1>1 DEF Typed, CycleKept, cycleVars
<1> QED
  BY <1>3, <1>4, <1>5, <1>6 DEF RInv

LEMMA ReadKeeps == ASSUME RInv, ReadFile, UNCHANGED tests PROVE RInv'
<1> USE DEF ReadFile, Goes, unmerged
<1>1. Typed /\ CycleKept /\ GraphKept /\ ClosureKept /\ PlacesKept
  BY DEF RInv
<1>2. /\ queue' \in Seq(Paths) /\ Range(queue) = {Head(queue)} \cup Range(queue')
      /\ Head(queue) \in OnDisk
  BY <1>1, HeadAndTail DEF GraphKept, Unreadable
<1>3. /\ DOMAIN graph' = DOMAIN graph \cup {Head(queue)} /\ graph'[Head(queue)] = <<>>
      /\ \A p \in DOMAIN graph : graph'[p] = graph[p]
  OBVIOUS
<1>4. Seen' = Seen
  BY <1>2, <1>3 DEF Seen
<1>5. GraphKept'
  BY <1>1, <1>2, <1>3, Unchanged DEF GraphKept
<1>6. ClosureKept'
  <2>1. Range(<<>>) = {}
    BY DEF Range
  <2>2. \A p \in DOMAIN graph' : Range(graph'[p]) \subseteq Seen
    BY <1>1, <1>3, <2>1 DEF ClosureKept
  <2>3. ASSUME NEW s \in SUBSET Seen, Range(paths) \subseteq s,
               \A p \in s \cap DOMAIN graph' : Range(graph'[p]) \subseteq s
        PROVE  s = Seen
    BY <1>1, <1>3, <2>3 DEF ClosureKept
  <2> QED
    BY <1>1, <1>4, <2>2, <2>3 DEF ClosureKept
<1>7. PlacesKept'
  <2>1. ASSUME NEW p \in DOMAIN graph, NEW imp PROVE FromFirstPlace(p, imp) => FromFirstPlace(p, imp)'
    BY <1>3, Unchanged DEF FromFirstPlace
  <2>2. ASSUME NEW i \in DOMAIN ImportsOf(Head(queue)) PROVE ~(i < 1)
    BY <1>1, <1>2, Files
  <2> QED
    BY <1>1, <1>3, <2>1, <2>2, Unchanged DEF PlacesKept
<1>8. Typed' /\ CycleKept'
  BY <1>1 DEF Typed, CycleKept, cycleVars
<1> QED
  BY <1>5, <1>6, <1>7, <1>8 DEF RInv

LEMMA FailKeeps == ASSUME RInv, ReadFails, UNCHANGED tests PROVE RInv'
  BY DEF RInv, ReadFails, Goes, unmerged, importVars, cycleVars, readVars, Typed, CycleKept

(* An import found, and one that is nowhere.                                 *)
LEMMA FollowKeeps == ASSUME RInv, FollowImport, UNCHANGED tests PROVE RInv'
<1> USE DEF FollowImport, programVars
<1>1. Typed /\ CycleKept /\ GraphKept /\ ClosureKept /\ PlacesKept
  BY DEF RInv
<1> DEFINE imp == ImportsOf(file)[next]
           places == Places(imp, Dir(file))
<1>2. PICK k \in DOMAIN places :
              /\ places[k] \in OnDisk /\ \A j \in 1..(k - 1) : places[j] \notin OnDisk
              /\ graph' = [graph EXCEPT ![file] = Append(@, places[k])]
              /\ queue' = IF places[k] \in DOMAIN graph THEN queue ELSE Append(queue, places[k])
  OBVIOUS
<1> DEFINE found == places[k]
<1>3. file \in DOMAIN graph /\ next \in Nat \ {0} /\ next' = next + 1 /\ found \in Paths /\ found \in OnDisk
  BY <1>1, <1>2, Files DEF GraphKept
<1>4. k \in Nat \ {0} /\ \A j \in DOMAIN places : j \in Nat \ {0}
  BY DEF Places
<1> HIDE DEF imp, places, found
<1>5. /\ DOMAIN graph' = DOMAIN graph /\ graph'[file] = Append(graph[file], found)
      /\ \A p \in DOMAIN graph \ {file} : graph'[p] = graph[p]
  BY <1>2, <1>3 DEF found
<1>6. graph'[file] \in Seq(Paths) /\ Range(graph'[file]) = Range(graph[file]) \cup {found}
  BY <1>1, <1>3, <1>5, RangeOfAppend DEF GraphKept
<1>7. queue' \in Seq(Paths) /\ Seen' = Seen \cup {found}
  BY <1>1, <1>2, <1>3, <1>5, RangeOfAppend DEF GraphKept, Seen, found
<1>8. GraphKept'
  BY <1>1, <1>3, <1>5, <1>6, <1>7, Unchanged DEF GraphKept
<1>9. ClosureKept'
  <2>1. \A p \in DOMAIN graph' : Range(graph'[p]) \subseteq Seen'
    BY <1>1, <1>5, <1>6, <1>7 DEF ClosureKept
  <2>2. ASSUME NEW s \in SUBSET Seen', Range(paths) \subseteq s,
               \A p \in s \cap DOMAIN graph : Range(graph'[p]) \subseteq s
        PROVE  s = Seen'
    <3>1. ASSUME NEW p \in s \cap Seen \cap DOMAIN graph PROVE Range(graph[p]) \subseteq s \cap Seen
      BY <1>1, <1>5, <1>6, <2>2 DEF ClosureKept
    <3>2. s \cap Seen = Seen
      BY <1>1, <2>2, <3>1 DEF ClosureKept
    <3>3. file \in s
      BY <1>3, <3>2 DEF Seen
    <3> QED
      BY <1>3, <1>6, <1>7, <2>2, <3>2, <3>3
  <2> QED
    BY <1>1, <1>5, <1>7, <2>1, <2>2 DEF ClosureKept
<1>10. PlacesKept'
  <2>1. \A p \in DOMAIN graph : Range(graph[p]) \subseteq Range(graph'[p])
    BY <1>5, <1>6
  <2>2. ASSUME NEW p \in DOMAIN graph, NEW i, FromFirstPlace(p, i) PROVE FromFirstPlace(p, i)'
    BY <2>1, <2>2, Unchanged DEF FromFirstPlace
  <2>3. ASSUME NEW p, p = file, NEW i, i = imp PROVE FromFirstPlace(p, i)'
    <3>1. ASSUME NEW m \in DOMAIN places, places[m] \in OnDisk PROVE k \in 1..m
      BY <1>2, <1>4, <3>1
    <3>2. places[k] \in Range(graph'[p])
      BY <1>6, <2>3 DEF found
    <3>3. Places(i, Dir(p))' = places /\ OnDisk' = OnDisk
      BY <2>3, Unchanged DEF places
    <3> QED
      BY <3>1, <3>2, <3>3 DEF FromFirstPlace
  <2>4. ASSUME NEW i \in DOMAIN ImportsOf(file), i < next + 1 PROVE i < next \/ i = next
    BY <1>1, <1>3, <2>4, Files DEF GraphKept
  <2>5. ASSUME NEW p \in DOMAIN graph, NEW i \in DOMAIN ImportsOf(p), p = file => i < next + 1,
               NEW m, m = ImportsOf(p)[i]
        PROVE  FromFirstPlace(p, m)'
    <3>1. CASE p = file /\ i = next
      <4>1. m = imp
        BY <2>5, <3>1 DEF imp
      <4> QED
        BY <2>3, <3>1, <4>1
    <3>2. CASE ~(p = file /\ i = next)
      BY <1>1, <2>2, <2>4, <2>5, <3>2 DEF PlacesKept
    <3> QED
      BY <3>1, <3>2
  <2>6. DOMAIN graph' = DOMAIN graph /\ file' = file /\ next' = next + 1 /\ stage' = "imports"
    BY <1>3, <1>5
  <2>7. \A p : ImportsOf(p)' = ImportsOf(p)
    BY Unchanged
  <2> QED
    BY <2>5, <2>6, <2>7 DEF PlacesKept
<1>11. Typed' /\ CycleKept'
  BY <1>1 DEF Typed, CycleKept, cycleVars
<1> QED
  BY <1>8, <1>9, <1>10, <1>11 DEF RInv

LEMMA IgnoreKeeps == ASSUME RInv, IgnoreImport, UNCHANGED tests PROVE RInv'
<1> USE DEF IgnoreImport, programVars
<1>1. Typed /\ CycleKept /\ GraphKept /\ ClosureKept /\ PlacesKept
  BY DEF RInv
<1>2. file \in DOMAIN graph /\ next \in Nat \ {0} /\ next' = next + 1 /\ file \in OnDisk
  BY <1>1 DEF GraphKept
<1>3. GraphKept'
  BY <1>1, <1>2, Unchanged DEF GraphKept
<1>4. ClosureKept'
  BY <1>1 DEF ClosureKept, Seen
<1>5. PlacesKept'
  <2>1. FromFirstPlace(file, ImportsOf(file)[next])
    BY DEF FromFirstPlace, Range
  <2>2. ASSUME NEW i \in DOMAIN ImportsOf(file), i < next + 1 PROVE i < next \/ i = next
    BY <1>1, <1>2, <2>2, Files
  <2> QED
    BY <1>1, <1>2, <2>1, <2>2, Unchanged, GraphStays DEF PlacesKept
<1>6. Typed' /\ CycleKept'
  BY <1>1 DEF Typed, CycleKept, cycleVars
<1> QED
  BY <1>3, <1>4, <1>5, <1>6 DEF RInv

LEMMA FollowedKeeps == ASSUME RInv, ImportsFollowed, UNCHANGED tests PROVE RInv'
<1> USE DEF ImportsFollowed, unmerged, importVars, readVars, Goes
<1>1. Typed /\ CycleKept /\ GraphKept /\ ClosureKept /\ PlacesKept
  BY DEF RInv
<1>2. GraphKept' /\ ClosureKept'
  BY <1>1, Unchanged DEF GraphKept, ClosureKept, Seen
<1>3. PlacesKept'
  <2>1. ASSUME NEW i \in DOMAIN ImportsOf(file) PROVE i < next
    BY <1>1, <2>1, Files DEF GraphKept
  <2> QED
    BY <1>1, <2>1, Unchanged, GraphStays DEF PlacesKept
<1>4. Typed' /\ CycleKept'
  BY <1>1 DEF Typed, CycleKept, cycleVars
<1> QED
  BY <1>2, <1>3, <1>4 DEF RInv

-----------------------------------------------------------------------------
(* The search for a cycle changes nothing that was read.                       *)
LEMMA SearchLeaves ==
    ASSUME RInv, stage \in {"cycles", "merge"}, stage' \in {"cycles", "merge"},
           UNCHANGED <<input, paths, home, tests, readVars, cycle>>
    PROVE  Typed' /\ CycleKept' /\ GraphKept' /\ ClosureKept' /\ PlacesKept'
<1> USE DEF readVars
<1>1. Typed /\ CycleKept /\ GraphKept /\ ClosureKept /\ PlacesKept
  BY DEF RInv
<1>2. Typed' /\ CycleKept' /\ ClosureKept'
  BY <1>1 DEF Typed, CycleKept, ClosureKept, Seen
<1>3. GraphKept'
  BY <1>1, Unchanged DEF GraphKept
<1>4. PlacesKept'
  BY <1>1, Unchanged, GraphStays DEF PlacesKept
<1> QED
  BY <1>2, <1>3, <1>4

LEMMA AllReadKeeps == ASSUME RInv, AllRead, UNCHANGED tests PROVE RInv'
<1> USE DEF AllRead, unmerged, readVars, Goes
<1>1. Typed /\ CycleKept /\ GraphKept /\ ClosureKept /\ PlacesKept
  BY DEF RInv
<1>2. Typed' /\ CycleKept' /\ ClosureKept'
  BY <1>1 DEF Typed, CycleKept, ClosureKept, Seen
<1>3. GraphKept'
  BY <1>1, Unchanged DEF GraphKept
<1>4. PlacesKept'
  BY <1>1, Unchanged, GraphStays DEF PlacesKept
<1>5. OverKept' /\ TrailKept'
  BY DEF OverKept, TrailKept, ImportsClosed
<1> QED
  BY <1>2, <1>3, <1>4, <1>5 DEF RInv

LEMMA StartKeeps == ASSUME RInv, StartSearch, UNCHANGED tests PROVE RInv'
<1> USE DEF StartSearch, programVars, readVars
<1>1. Typed' /\ CycleKept' /\ GraphKept' /\ ClosureKept' /\ PlacesKept'
  BY SearchLeaves
<1>2. OverKept /\ stage = "cycles" /\ stage' = "cycles"
  BY DEF RInv
<1>3. OverKept'
  BY <1>2 DEF OverKept, ImportsClosed
<1>4. TrailKept'
  <2>1. PICK node \in DOMAIN graph \ over : trail' = <<Visit(node)>>
    OBVIOUS
  <2>2. /\ trail' \in Seq(Frames)
        /\ DOMAIN trail' = {1} /\ Len(trail') = 1 /\ trail'[1].node = node /\ trail'[1].next = 1
    BY <2>1 DEF Visit, Frames
  <2>3. \A j \in DOMAIN graph[node] : ~(j < 1)
    BY <1>2 DEF RInv, GraphKept
  <2> QED
    BY <2>2, <2>3 DEF TrailKept, Top, Frames, Followed
<1> QED
  BY <1>1, <1>2, <1>3, <1>4 DEF RInv

(* The frame on top of the trail.                                            *)
LEMMA OnTop ==
    ASSUME RInv, stage = "cycles", trail # <<>>
    PROVE  /\ TrailKept /\ OverKept /\ GraphKept /\ ClosureKept
           /\ Len(trail) \in Nat \ {0} /\ DOMAIN trail = 1..Len(trail)
           /\ \A i \in 1..Len(trail) : trail[i] \in Frames /\ trail[i].node \in DOMAIN graph
           /\ Top \in Frames /\ Top = trail[Len(trail)] /\ Top.node \in DOMAIN graph \ over
           /\ Top.next \in Nat \ {0} /\ graph[Top.node] \in Seq(Paths)
<1>1. TrailKept /\ OverKept /\ GraphKept /\ ClosureKept
  BY DEF RInv
<1>2. trail \in Seq(Frames)
  BY <1>1 DEF TrailKept
<1>3. /\ Len(trail) \in Nat \ {0} /\ DOMAIN trail = 1..Len(trail) /\ Top \in Frames
      /\ \A i \in 1..Len(trail) : trail[i] \in Frames
  BY <1>2 DEF Top
<1>4. /\ Top.node \in DOMAIN graph /\ Top.next \in Nat \ {0}
      /\ \A i \in 1..Len(trail) : trail[i].node \in DOMAIN graph
  BY <1>3 DEF Frames
<1>5. Top.node \notin over
  BY <1>1, <1>3 DEF TrailKept, Top
<1> QED
  BY <1>1, <1>3, <1>4, <1>5 DEF GraphKept, Top

LEMMA Advancing ==
    ASSUME NEW n \in Nat \ {0}, n = Len(trail), trail \in Seq(Frames)
    PROVE  /\ Advanced \in Seq(Frames) /\ Len(Advanced) = n /\ DOMAIN Advanced = 1..n
           /\ \A i \in 1..(n - 1) : Advanced[i] = trail[i]
           /\ Advanced[n].node = Top.node /\ Advanced[n].next = Top.next + 1
<1>1. DOMAIN trail = 1..n /\ Top = trail[n] /\ \A i \in 1..n : trail[i] \in Frames
  BY DEF Top
<1>2. /\ DOMAIN Advanced = 1..n /\ \A i \in 1..(n - 1) : Advanced[i] = trail[i]
      /\ Advanced[n] = [trail[n] EXCEPT !.next = @ + 1]
  BY <1>1 DEF Advanced
<1>3. Top \in Frames
  BY <1>1
<1>4. /\ [Top EXCEPT !.next = @ + 1] \in Frames
      /\ [Top EXCEPT !.next = @ + 1].node = Top.node /\ [Top EXCEPT !.next = @ + 1].next = Top.next + 1
  BY <1>3 DEF Frames
<1>5. \A i \in 1..n : Advanced[i] \in Frames
  BY <1>1, <1>2, <1>4
<1>6. Advanced = [i \in 1..n |-> Advanced[i]]
  BY <1>2 DEF Advanced
<1>7. Advanced \in Seq(Frames) /\ Len(Advanced) = n
  BY <1>5, <1>6
<1> QED
  BY <1>1, <1>2, <1>4, <1>7

LEMMA VisitKeeps == ASSUME RInv, VisitNeighbour, UNCHANGED tests PROVE RInv'
<1>1. /\ stage = "cycles" /\ trail # <<>> /\ Top.next \in DOMAIN graph[Top.node]
      /\ UNCHANGED <<input, stage, paths, home, readVars, over, cycle>>
  BY DEF VisitNeighbour, programVars
<1> DEFINE n == Len(trail)
           neighbour == graph[Top.node][Top.next]
<1>2. /\ neighbour \notin Visiting
      /\ trail' = IF neighbour \in over THEN Advanced ELSE Append(Advanced, Visit(neighbour))
  BY DEF VisitNeighbour
<1>3. Typed' /\ CycleKept' /\ GraphKept' /\ ClosureKept' /\ PlacesKept'
  BY <1>1, SearchLeaves
<1>4. UNCHANGED <<graph, over>> /\ OverKept' /\ Frames' = Frames
  BY <1>1, OnTop DEF OverKept, ImportsClosed, readVars, Frames
<1>5. TrailKept'
  <2>1. /\ n \in Nat \ {0} /\ DOMAIN trail = 1..n /\ trail[n] = Top /\ Top.next \in Nat \ {0}
        /\ trail \in Seq(Frames) /\ TrailKept
    BY <1>1, OnTop DEF TrailKept
  <2>2. neighbour \in Range(graph[Top.node]) /\ neighbour \in DOMAIN graph
    <3>1. neighbour \in Range(graph[Top.node])
      BY <1>1 DEF Range
    <3>2. Range(graph[Top.node]) \subseteq DOMAIN graph
      BY <1>1, OnTop DEF ClosureKept, GraphKept, Seen, Range
    <3> QED
      BY <3>1, <3>2
  <2>3. /\ Advanced \in Seq(Frames) /\ Len(Advanced) = n /\ DOMAIN Advanced = 1..n
        /\ \A i \in 1..(n - 1) : Advanced[i] = trail[i]
        /\ Advanced[n].node = Top.node /\ Advanced[n].next = Top.next + 1
    BY <2>1, Advancing
  <2>4. \A i \in 1..n : Advanced[i].node = trail[i].node
    BY <2>1, <2>3
  <2>5. Followed(graph, Advanced[n], over \cup {neighbour})
    <3>1. Followed(graph, Top, over)
      BY <1>1, <2>1 DEF TrailKept
    <3>2. ASSUME NEW j \in DOMAIN graph[Top.node], j < Top.next + 1 PROVE j < Top.next \/ j = Top.next
      BY <1>1, <2>1, <3>2, OnTop
    <3> QED
      BY <2>3, <3>1, <3>2 DEF Followed
  <2>6. /\ \A i \in 1..n : trail[i].node \notin over
        /\ \A i, j \in 1..n : trail[i].node = trail[j].node => i = j
        /\ \A i \in 1..(n - 1) : /\ trail[i + 1].node \in Range(graph[trail[i].node])
                                 /\ Followed(graph, trail[i], over \cup {trail[i + 1].node})
    BY <2>1 DEF TrailKept
  <2> HIDE DEF n, neighbour
  <2>8. CASE neighbour \in over
    <3>1. trail' = Advanced /\ Len(trail') = n /\ Top' = Advanced[n] /\ over \cup {neighbour} = over
      BY <1>2, <2>3, <2>8 DEF Top
    <3>2. ASSUME NEW i \in 1..(n - 1)
          PROVE  /\ trail'[i + 1].node \in Range(graph[trail'[i].node])
                 /\ Followed(graph, trail'[i], over \cup {trail'[i + 1].node})
      BY <2>1, <2>3, <2>4, <2>6, <3>1, i + 1 \in 1..n
    <3>3. \A i \in 1..n : trail'[i].node \notin over
      BY <2>4, <2>6, <3>1
    <3>4. \A i, j \in 1..n : trail'[i].node = trail'[j].node => i = j
      BY <2>4, <2>6, <3>1
    <3>5. trail' \in Seq(Frames') /\ DOMAIN trail' = 1..Len(trail') /\ Followed(graph, Top', over)
      BY <1>4, <2>3, <2>5, <3>1
    <3> QED
      BY <1>4, <2>1, <3>1, <3>2, <3>3, <3>4, <3>5 DEF TrailKept
  <2>9. CASE neighbour \notin over
    <3>1. trail' = Append(Advanced, Visit(neighbour)) /\ Visit(neighbour) \in Frames
      BY <1>2, <2>2, <2>9 DEF Visit, Frames
    <3>2. /\ trail' \in Seq(Frames) /\ DOMAIN trail' = 1..(n + 1) /\ Len(trail') = n + 1
          /\ \A i \in 1..n : trail'[i] = Advanced[i]
          /\ trail'[n + 1] = Visit(neighbour)
      BY <2>1, <2>3, <3>1
    <3>3. trail'[n + 1].node = neighbour /\ trail'[n + 1].next = 1 /\ Top' = trail'[n + 1]
      BY <3>2 DEF Visit, Top
    <3>4. \A i \in 1..n : trail[i].node # neighbour
      BY <1>2, <2>1 DEF Visiting
    <3>5. Followed(graph, trail'[n + 1], over)
      BY <1>1, <2>2, <3>3, OnTop DEF Followed, GraphKept
    <3>6. ASSUME NEW i \in 1..(n + 1), NEW j \in 1..(n + 1), trail'[i].node = trail'[j].node PROVE i = j
      BY <2>1, <2>4, <2>6, <3>2, <3>3, <3>4, <3>6
    <3>7. ASSUME NEW i \in 1..n
          PROVE  /\ trail'[i + 1].node \in Range(graph[trail'[i].node])
                 /\ Followed(graph, trail'[i], over \cup {trail'[i + 1].node})
      <4>1. CASE i = n
        BY <2>1, <2>2, <2>3, <2>5, <3>2, <3>3, <4>1
      <4>2. CASE i \in 1..(n - 1)
        <5>1. i + 1 \in 1..n /\ trail'[i + 1].node = trail[i + 1].node /\ trail'[i] = trail[i]
          BY <2>1, <2>3, <2>4, <3>2, <4>2
        <5> QED
          BY <2>6, <4>2, <5>1
      <4> QED
        BY <2>1, <4>1, <4>2
    <3>8. \A i \in 1..(n + 1) : trail'[i].node \notin over
      BY <2>1, <2>4, <2>6, <2>9, <3>2, <3>3
    <3>9. (n + 1) - 1 = n /\ UNCHANGED <<graph, over, Frames>>
      BY <1>4, <2>1
    <3> QED
      BY <3>2, <3>3, <3>5, <3>6, <3>7, <3>8, <3>9 DEF TrailKept
  <2> QED
    BY <2>8, <2>9
<1> QED
  BY <1>1, <1>3, <1>4, <1>5 DEF RInv

LEMMA FoundKeeps == ASSUME RInv, CycleFound, UNCHANGED tests PROVE RInv'
<1>1. /\ stage = "cycles" /\ trail # <<>> /\ Top.next \in DOMAIN graph[Top.node]
      /\ Typed' /\ stage' = "unresolved" /\ UNCHANGED graph
  BY DEF RInv, Typed, CycleFound, unmerged, readVars, Goes
<1>2. PICK i \in DOMAIN trail :
         /\ trail[i].node = graph[Top.node][Top.next]
         /\ cycle' = [j \in 1..(Len(trail) - i + 2) |->
                         IF j = Len(trail) - i + 2 THEN trail[i].node ELSE trail[i + j - 1].node]
  BY DEF CycleFound
<1> DEFINE n == Len(trail)
           m == n - i + 2
<1>3. /\ n \in Nat \ {0} /\ i \in 1..n /\ m \in Nat /\ m > 1 /\ Top = trail[n]
      /\ \A j \in 1..n : trail[j].node \in DOMAIN graph
      /\ \A j \in 1..(n - 1) : trail[j + 1].node \in Range(graph[trail[j].node])
  <2>1. n \in Nat \ {0} /\ DOMAIN trail = 1..n /\ Top = trail[n] /\ TrailKept
    BY <1>1, OnTop
  <2>2. \A j \in 1..n : trail[j].node \in DOMAIN graph
    BY <1>1, OnTop
  <2>3. \A j \in 1..(n - 1) : trail[j + 1].node \in Range(graph[trail[j].node])
    BY <2>1 DEF TrailKept
  <2> QED
    BY <1>2, <2>1, <2>2, <2>3
<1>4. Len(cycle') = m /\ cycle'[m] = trail[i].node /\ \A j \in 1..(m - 1) : cycle'[j] = trail[i + j - 1].node
  BY <1>2, <1>3
<1>5. trail[i].node \in Range(graph[Top.node])
  BY <1>1, <1>2 DEF Range
<1> HIDE DEF n, m
<1>6. cycle'[1] = cycle'[m]
  BY <1>3, <1>4, 1 \in 1..(m - 1)
<1>7. ASSUME NEW j \in 2..m
      PROVE  cycle'[j - 1] \in DOMAIN graph /\ cycle'[j] \in Range(graph[cycle'[j - 1]])
  <2>1. i + (j - 1) - 1 \in 1..n /\ cycle'[j - 1] = trail[i + (j - 1) - 1].node
    <3>1. j - 1 \in 1..(m - 1) /\ i + (j - 1) - 1 \in 1..n
      BY <1>3 DEF m
    <3> QED
      BY <1>4, <3>1
  <2>2. CASE j = m
    <3>1. i + (j - 1) - 1 = n
      BY <1>3, <2>2 DEF m
    <3> QED
      BY <1>3, <1>4, <1>5, <2>1, <2>2, <3>1
  <2>3. CASE j # m
    <3>1. j \in 1..(m - 1) /\ i + j - 1 = (i + (j - 1) - 1) + 1 /\ i + (j - 1) - 1 \in 1..(n - 1)
      BY <1>3, <2>3 DEF m
    <3>2. cycle'[j] = trail[(i + (j - 1) - 1) + 1].node
      BY <1>4, <3>1
    <3> QED
      BY <1>3, <2>1, <3>1, <3>2
  <2> QED
    BY <2>2, <2>3
<1>8. CycleKept'
  BY <1>1, <1>3, <1>4, <1>6, <1>7 DEF CycleKept
<1> QED
  BY <1>1, <1>8 DEF RInv

LEMMA LeaveKeeps == ASSUME RInv, LeaveNode, UNCHANGED tests PROVE RInv'
<1> DEFINE n == Len(trail)
           node == Top.node
<1>1. /\ stage = "cycles" /\ trail # <<>> /\ Top.next \notin DOMAIN graph[node]
      /\ UNCHANGED <<input, stage, paths, home, readVars, cycle>>
      /\ trail' = SubSeq(trail, 1, n - 1) /\ over' = over \cup {node}
  BY DEF LeaveNode, programVars
<1>2. Typed' /\ CycleKept' /\ GraphKept' /\ ClosureKept' /\ PlacesKept'
  BY <1>1, SearchLeaves
<1>3. node \in DOMAIN graph \ over /\ UNCHANGED graph /\ TrailKept /\ OverKept /\ Frames' = Frames
  BY <1>1, OnTop DEF readVars, Frames
<1>4. Range(graph[node]) \subseteq over
  <2>1. ASSUME NEW j \in DOMAIN graph[node] PROVE j < Top.next
    BY <1>1, <2>1, OnTop
  <2>2. Followed(graph, Top, over)
    BY <1>1, <1>3 DEF TrailKept
  <2> QED
    BY <2>1, <2>2 DEF Followed, Range
<1> HIDE DEF node
<1>5. OverKept'
  <2>1. ImportsClosed(over)
    BY <1>3 DEF OverKept
  <2>2. \A p \in over \cup {node} : Range(graph[p]) \subseteq over \cup {node}
    BY <1>4, <2>1 DEF ImportsClosed
  <2>3. ASSUME NEW s \in SUBSET (over \cup {node}), s # {} PROVE \E p \in s : Range(graph[p]) \cap s = {}
    <3>1. CASE s \cap over = {}
      BY <1>3, <1>4, <2>3, <3>1
    <3>2. CASE s \cap over # {}
      <4>1. PICK p \in s \cap over : Range(graph[p]) \cap (s \cap over) = {}
        BY <1>3, <3>2 DEF OverKept
      <4> QED
        BY <2>1, <4>1 DEF ImportsClosed
    <3> QED
      BY <3>1, <3>2
  <2> QED
    BY <1>1, <1>3, <2>2, <2>3 DEF OverKept, ImportsClosed
<1>6. TrailKept'
  <2>1. n \in Nat \ {0} /\ DOMAIN trail = 1..n /\ trail \in Seq(Frames) /\ node = trail[n].node
    BY <1>1, <1>3, OnTop DEF TrailKept, node
  <2>2. /\ trail' \in Seq(Frames) /\ DOMAIN trail' = 1..(n - 1) /\ Len(trail') = n - 1
        /\ \A i \in 1..(n - 1) : trail'[i] = trail[i]
    BY <1>1, <2>1
  <2>3. /\ \A i \in 1..n : trail[i].node \notin over
        /\ \A i, j \in 1..n : trail[i].node = trail[j].node => i = j
        /\ \A i \in 1..(n - 1) : /\ trail[i + 1].node \in Range(graph[trail[i].node])
                                 /\ Followed(graph, trail[i], over \cup {trail[i + 1].node})
    BY <1>3, <2>1 DEF TrailKept
  <2> HIDE DEF n
  <2>5. \A i \in 1..(n - 1) : trail'[i].node \notin over'
    BY <1>1, <2>1, <2>2, <2>3
  <2>6. ASSUME NEW i \in 1..(n - 2)
        PROVE  /\ trail'[i + 1].node \in Range(graph[trail'[i].node])
               /\ Followed(graph, trail'[i], over' \cup {trail'[i + 1].node})
    <3>1. i \in 1..(n - 1) /\ i + 1 \in 1..(n - 1)
      BY <2>1
    <3> QED
      BY <1>1, <2>2, <2>3, <3>1 DEF Followed
  <2>7. trail' # <<>> => Followed(graph, Top', over')
    <3>1. CASE n = 1
      BY <2>2, <3>1
    <3>2. CASE n # 1
      <4>1. n - 1 \in 1..(n - 1) /\ Top' = trail[n - 1] /\ trail[(n - 1) + 1].node = node
        BY <2>1, <2>2, <3>2 DEF Top
      <4> QED
        BY <1>1, <2>3, <4>1
    <3> QED
      BY <3>1, <3>2
  <2>8. (n - 1) - 1 = n - 2
    BY <2>1
  <2> QED
    BY <1>3, <2>1, <2>2, <2>3, <2>5, <2>6, <2>7, <2>8 DEF TrailKept
<1> QED
  BY <1>1, <1>2, <1>5, <1>6 DEF RInv

LEMMA AcyclicKeeps == ASSUME RInv, Acyclic, UNCHANGED tests PROVE RInv'
<1> USE DEF Acyclic, unmerged, importVars, readVars, cycleVars, Goes
<1>1. Typed' /\ CycleKept' /\ GraphKept' /\ ClosureKept' /\ PlacesKept'
  BY SearchLeaves
<1>2. OverKept'
  BY DEF RInv, OverKept, ImportsClosed
<1> QED
  BY <1>1, <1>2 DEF RInv
-----------------------------------------------------------------------------
(* The other actions leave what was read alone.                              *)
LEMMA LeavesImports ==
    ASSUME RInv, UNCHANGED <<input, importVars>>, paths' \in Seq(Paths), tests' \in Seq(TestRecord),
           stage' \notin {"read", "imports", "cycles", "merge"}
    PROVE  RInv'
  BY DEF RInv, Typed, CycleKept, importVars, readVars, cycleVars

LEMMA MergeKeeps == ASSUME RInv, Merge, UNCHANGED tests PROVE RInv'
<1>1. stage' \in {"unresolved", "mono"} /\ UNCHANGED <<input, paths, importVars>>
  BY DEF Merge, Goes
<1> QED
  BY <1>1, LeavesImports DEF RInv, Typed

LEMMA ImportingReads == ASSUME RInv, Importing PROVE RInv'
<1>1. UNCHANGED tests
  BY DEF Importing, unimported, testVars
<1>2. CASE Reading
  BY <1>1, <1>2, ResolveKeeps, SkipKeeps, ReadKeeps, FailKeeps, FollowKeeps, IgnoreKeeps, FollowedKeeps,
     AllReadKeeps DEF Reading
<1>3. CASE Searching
  BY <1>1, <1>3, StartKeeps, VisitKeeps, FoundKeeps, LeaveKeeps, AcyclicKeeps DEF Searching
<1>4. CASE Merge
  BY <1>1, <1>4, MergeKeeps
<1> QED
  BY <1>2, <1>3, <1>4 DEF Importing

LEMMA PassesRead ==
    ASSUME RInv, Making \/ Templating \/ UpdateInfo \/ CheckProgram \/ Exit \/ Building \/ Fetching
    PROVE  RInv'
<1>1. UNCHANGED importVars
  BY DEF Making, unmade, Templating, uncalled, UpdateInfo, CheckProgram, Exit, unpassed, Building, unlinked,
     Fetching, offline
<1>2. UNCHANGED <<input, paths, tests>> /\ stage' \notin {"read", "imports", "cycles", "merge"}
  <2>1. CASE Making
    BY <2>1, MakingMoves DEF Quiet, Moves
  <2>2. CASE Templating
    BY <2>2, TemplatingMoves DEF Quiet, Moves, AfterTemplates
  <2>3. CASE UpdateInfo \/ CheckProgram
    BY <2>3, CheckingMoves DEF Quiet, Moves
  <2>4. CASE Exit
    BY <2>4, ExitMoves DEF Quiet, Moves
  <2>5. CASE Building
    BY <2>5 DEF Building, unlinked, testVars, unbuilt, Goes, Build, EmitProgram, Optimize, Assemble, Link,
       Returns
  <2>6. CASE Fetching
    BY <2>6 DEF Fetching, offline, testVars, unfetched, programVars, Goes, FetchAll, DownloadFails,
       UnpackFails, Unpack, Fetched
  <2> QED
    BY <2>1, <2>2, <2>3, <2>4, <2>5, <2>6
<1> QED
  BY <1>1, <1>2, LeavesImports DEF RInv, Typed

LEMMA CommandReads == ASSUME RInv, Command PROVE RInv'
<1>1. UNCHANGED <<input, paths, importVars>> /\ stage' \in {"test", "get", "resolve"}
  BY CommandMoves DEF Command, Moves, unpassed
<1>2. tests' = tests \/ tests' = input.tests
  <2>1. CASE input.command = "test"
    BY <2>1, Zenon DEF Command
  <2>2. CASE input.command = "get"
    BY <2>2, Zenon DEF Command
  <2>3. CASE input.command \notin {"test", "get"}
    BY <2>3, Zenon DEF Command
  <2> QED
    BY <2>1, <2>2, <2>3
<1>3. paths' \in Seq(Paths) /\ tests' \in Seq(TestRecord)
  BY <1>1, <1>2, InputAssumption DEF RInv, Typed, TestRecord
<1> QED
  BY <1>1, <1>3, LeavesImports

LEMMA TestingReads == ASSUME IInv, RInv, Testing PROVE RInv'
<1> USE DEF unpassed, testVars, programVars, Goes
<1>1. Typed
  BY DEF RInv
<1>2. CASE SkipTest
  <2>1. tests' \in Seq(TestRecord)
    BY <1>1, <1>2, HeadAndTail DEF SkipTest, Typed
  <2> QED
    BY <1>1, <1>2, <2>1, LeavesImports DEF SkipTest, Typed
<1>3. CASE StartTest
  <2>1. Head(tests) \in TestRecord
    BY <1>1, <1>3 DEF StartTest, Typed
  <2>2. Append(Head(tests).dir, "main") \in Paths
    <3>1. Head(tests).dir \in Seq(STRING)
      BY <2>1 DEF TestRecord, Paths
    <3> QED
      BY <3>1, MainAssumption, RangeOfAppend DEF Paths
  <2>3. paths' \in Seq(Paths)
    BY <1>3, <2>2 DEF StartTest
  <2> QED
    BY <1>1, <1>3, <2>3, LeavesImports DEF StartTest, Typed
<1>4. CASE TestsDone
  BY <1>1, <1>4, LeavesImports DEF TestsDone, Typed
<1>5. CASE RunTest \/ \E at \in {"unresolved", "illtyped", "unbuilt"} : TestFails(at)
  <2>1. LeaveTest
    BY <1>5 DEF RunTest, TestFails
  <2>2. tests' = Tail(tests) /\ UNCHANGED <<input, paths, importVars>> /\ stage' = "test"
    BY <2>1 DEF LeaveTest
  <2>3. tests # <<>>
    BY <1>5 DEF RunTest, TestFails, IInv, HomeKept, InTest, Outside
  <2>4. tests' \in Seq(TestRecord)
    BY <1>1, <2>2, <2>3, HeadAndTail DEF Typed
  <2> QED
    BY <1>1, <2>2, <2>4, LeavesImports DEF Typed
<1> QED
  BY <1>2, <1>3, <1>4, <1>5 DEF Testing

THEOREM Reads == Spec => []RInv
<1>1. Init => RInv
  <2> SUFFICES ASSUME Init PROVE RInv
    OBVIOUS
  <2> QED
    BY InputAssumption DEF Init, ProgramInit, ImportsInit, RInv, Typed, CycleKept
<1>2. IInv /\ RInv /\ [Next]_vars => RInv'
  <2> SUFFICES ASSUME IInv, RInv, [Next]_vars PROVE RInv'
    OBVIOUS
  <2>1. CASE Next
    BY <2>1, CommandReads, ImportingReads, PassesRead, TestingReads DEF Next
  <2>2. CASE UNCHANGED vars
    <3>1. UNCHANGED <<input, stage, paths, home, tests, importVars>>
      BY <2>2 DEF vars, programVars, testVars
    <3>2. Typed' /\ CycleKept'
      BY <3>1 DEF RInv, Typed, CycleKept, importVars, readVars, cycleVars
    <3>3. GraphKept => GraphKept'
      BY <3>1, Unchanged DEF GraphKept, importVars, readVars
    <3>4. ClosureKept => ClosureKept'
      BY <3>1 DEF ClosureKept, Seen, importVars, readVars
    <3>5. PlacesKept => PlacesKept'
      BY <3>1, Unchanged, GraphStays DEF PlacesKept, importVars, readVars
    <3>6. (OverKept => OverKept') /\ (TrailKept => TrailKept')
      BY <3>1 DEF OverKept, TrailKept, ImportsClosed, Frames, Top, importVars, readVars, cycleVars
    <3> QED
      BY <3>1, <3>2, <3>3, <3>4, <3>5, <3>6 DEF RInv
  <2> QED
    BY <2>1, <2>2
<1> QED
  BY <1>1, <1>2, Invariance, PTL DEF Spec

(* Whatever files import one another, and wherever they are, Resolve goes on    *)
(* with all that are imported, from the first of their places, with no others   *)
(* and with no cycle; and what it refuses as a cycle is one.                   *)
THEOREM ResolveCorrect == Spec => []ImportsResolved
<1>1. ASSUME RInv PROVE ImportsResolved
  <2>1. ASSUME stage = "merge"
        PROVE  LET files == DOMAIN graph
               IN  /\ Range(paths) \subseteq files /\ ImportsClosed(files)
                   /\ \A s \in SUBSET files : Range(paths) \subseteq s /\ ImportsClosed(s) => s = files
                   /\ \A p \in files : \A imp \in Range(ImportsOf(p)) : FromFirstPlace(p, imp)
                   /\ \A s \in SUBSET files : s # {} => \E p \in s : Range(graph[p]) \cap s = {}
    <3>1. GraphKept /\ ClosureKept /\ PlacesKept /\ OverKept
      BY <1>1, <2>1 DEF RInv
    <3>2. Seen = DOMAIN graph
      <4>1. queue = <<>> /\ Range(<<>>) = {}
        BY <2>1, <3>1 DEF GraphKept, Range
      <4> QED
        BY <4>1 DEF Seen
    <3>3. \A s \in SUBSET DOMAIN graph : Range(paths) \subseteq s /\ ImportsClosed(s) => s = DOMAIN graph
      BY <3>1, <3>2 DEF ClosureKept, ImportsClosed
    <3>4. Range(paths) \subseteq DOMAIN graph /\ ImportsClosed(DOMAIN graph)
      BY <3>1, <3>2 DEF ClosureKept, ImportsClosed
    <3>5. \A p \in DOMAIN graph : \A imp \in Range(ImportsOf(p)) : FromFirstPlace(p, imp)
      BY <2>1, <3>1 DEF PlacesKept, Range
    <3> QED
      BY <2>1, <3>1, <3>3, <3>4, <3>5 DEF OverKept
  <2> QED
    BY <1>1, <2>1 DEF ImportsResolved, RInv, CycleKept
<1> QED
  BY <1>1, Reads, PTL

-----------------------------------------------------------------------------
(* Induction, as a fact about a set of numbers.                              *)
LEMMA Induction ==
    ASSUME NEW T, 0 \in T, \A k \in Nat : k \in T => k + 1 \in T
    PROVE  Nat \subseteq T
<1> SUFFICES ASSUME Nat \ T # {} PROVE FALSE
  OBVIOUS
<1>1. IsWellFoundedOn(OpToRel(<, Nat), Nat)
  BY NatLessThanWellFounded, Zenon
<1>2. PICK m \in Nat \ T : \A j \in Nat \ T : <<j, m>> \notin OpToRel(<, Nat)
  <2> DEFINE S == Nat \ T
  <2>1. S \subseteq Nat /\ S # {}
    OBVIOUS
  <2> QED
    BY <1>1, <2>1, WFMin, Zenon
<1>3. m # 0 /\ m - 1 \in Nat /\ m - 1 < m /\ m = (m - 1) + 1
  OBVIOUS
<1>4. m - 1 \in T
  <2>1. <<m - 1, m>> \in Nat \X Nat /\ <<m - 1, m>>[1] < <<m - 1, m>>[2]
    BY <1>3
  <2>2. <<m - 1, m>> \in OpToRel(<, Nat)
    BY <2>1, Zenon DEF OpToRel
  <2> QED
    BY <1>2, <1>3, <2>2
<1> QED
  BY <1>3, <1>4

(* The sequences that are put together make a sequence of the same elements.    *)
LEMMA FlattenType ==
    ASSUME NEW S, NEW ss \in Seq(Seq(S))
    PROVE  FlattenSeq(ss) \in Seq(S)
<1> DEFINE n == Len(ss)
           Step(f, i) == IF i = 1 THEN ss[i] ELSE f[i - 1] \o ss[i]
           Made(k) == \E f \in [1..k -> Seq(S)] : f = [i \in 1..k |-> Step(f, i)]
           T == {k \in Nat : k <= n => Made(k)}
<1>1. n \in Nat /\ \A i \in 1..n : ss[i] \in Seq(S)
  OBVIOUS
<1>2. 0 \in T
  <2>1. [i \in 1..0 |-> <<>>] \in [1..0 -> Seq(S)]
    OBVIOUS
  <2>2. \A f \in [1..0 -> Seq(S)] : f = [i \in 1..0 |-> Step(f, i)]
    OBVIOUS
  <2> QED
    BY <2>1, <2>2
<1>3. ASSUME NEW k \in Nat, k \in T PROVE k + 1 \in T
  <2> SUFFICES ASSUME k + 1 <= n PROVE Made(k + 1)
    <3> HIDE DEF Made
    <3> QED
      BY <1>3
  <2>0. Made(k)
    <3> HIDE DEF Made
    <3> QED
      BY <1>1, <1>3
  <2>1. PICK f \in [1..k -> Seq(S)] : f = [i \in 1..k |-> Step(f, i)]
    BY <2>0
  <2> DEFINE g == [i \in 1..(k + 1) |-> Step(f, i)]
  <2>2. \A i \in 1..(k + 1) : ss[i] \in Seq(S) /\ (i # 1 => i - 1 \in 1..k)
    BY <1>1
  <2>3. ASSUME NEW i \in 1..(k + 1) PROVE g[i] \in Seq(S)
    <3>1. CASE i = 1
      BY <2>2, <3>1
    <3>2. CASE i # 1
      <4>1. f[i - 1] \in Seq(S) /\ ss[i] \in Seq(S)
        BY <2>2, <3>2
      <4>2. f[i - 1] \o ss[i] \in Seq(S)
        BY <4>1
      <4> QED
        BY <3>2, <4>2
    <3> QED
      BY <3>1, <3>2
  <2>4. ASSUME NEW i \in 1..k PROVE g[i] = f[i]
    <3>1. f[i] = Step(f, i)
      BY <2>1
    <3> QED
      BY <3>1
  <2>5. ASSUME NEW i \in 1..(k + 1) PROVE g[i] = Step(g, i)
    BY <2>2, <2>4
  <2>6. g \in [1..(k + 1) -> Seq(S)]
    BY <2>3
  <2>7. g = [i \in 1..(k + 1) |-> Step(g, i)]
    BY <2>5
  <2> QED
    BY <2>6, <2>7
<1>4. Made(n)
  <2> HIDE DEF Made
  <2>1. Nat \subseteq T
    <3> HIDE DEF T
    <3> QED
      BY <1>2, <1>3, Induction
  <2> QED
    BY <1>1, <2>1
<1> DEFINE h == CHOOSE f : f = [i \in 1..n |-> Step(f, i)]
<1>5. h = [i \in 1..n |-> Step(h, i)]
  BY <1>4, Zenon
<1>6. CASE n = 0
  BY <1>6 DEF FlattenSeq
<1>7. CASE n # 0
  <2> DEFINE U == {k \in Nat : k + 1 <= n => h[k + 1] \in Seq(S)}
  <2> HIDE DEF h
  <2>1. 0 \in U
    BY <1>1, <1>5
  <2>2. ASSUME NEW k \in Nat, k \in U PROVE k + 1 \in U
    <3> SUFFICES ASSUME (k + 1) + 1 <= n PROVE h[(k + 1) + 1] \in Seq(S)
      OBVIOUS
    <3>1. h[(k + 1) + 1] = h[k + 1] \o ss[(k + 1) + 1]
      <4>1. (k + 1) + 1 \in 1..n /\ (k + 1) + 1 # 1 /\ ((k + 1) + 1) - 1 = k + 1
        BY <1>1
      <4>2. h[(k + 1) + 1] = Step(h, (k + 1) + 1)
        BY <1>5, <4>1
      <4> QED
        BY <4>1, <4>2
    <3>2. h[k + 1] \in Seq(S) /\ ss[(k + 1) + 1] \in Seq(S)
      BY <1>1, <2>2
    <3> QED
      BY <3>1, <3>2
  <2>3. Nat \subseteq U
    <3> HIDE DEF U
    <3> QED
      BY <2>1, <2>2, Induction
  <2>4. n - 1 \in Nat /\ (n - 1) + 1 = n
    BY <1>1, <1>7
  <2>5. h[n] \in Seq(S)
    <3>1. n - 1 \in U /\ (n - 1) + 1 <= n
      <4> HIDE DEF U
      <4> QED
        BY <1>1, <2>3, <2>4
    <3>2. h[(n - 1) + 1] \in Seq(S)
      BY <3>1, Zenon
    <3> QED
      BY <2>4, <3>2, Zenon
  <2>6. FlattenSeq(ss) = h[n]
    BY <1>7 DEF FlattenSeq, h
  <2> QED
    BY <2>5, <2>6
<1> QED
  BY <1>6, <1>7

(* The types that are nested n + 1 deep at most have arguments of n at most.    *)
TypesOver(args) == [mod: STRING, parts: Seq(STRING), args: args]

LEMMA TypesUnfold ==
    /\ TypesTo[0] = TypesOver({<<>>})
    /\ \A n \in Nat : TypesTo[n + 1] = TypesOver(Seq(TypesTo[n]))
<1> DEFINE Step(f, n) == [mod: STRING, parts: Seq(STRING), args: IF n = 0 THEN {<<>>} ELSE Seq(f[n - 1])]
           Fix(k, f) == f = [n \in 0..k |-> Step(f, n)]
           T == {k \in Nat : \E f : Fix(k, f)}
<1>a. ASSUME NEW f, NEW g, NEW n, n = 0 \/ f[n - 1] = g[n - 1] PROVE Step(f, n) = Step(g, n)
  BY <1>a
<1>b. ASSUME NEW f, NEW k, Fix(k, f), NEW n \in 0..k PROVE f[n] = Step(f, n)
  <2> HIDE DEF Step
  <2> QED
    BY <1>b, Zenon
<1>c. ASSUME NEW f, NEW k, NEW g, g = [n \in 0..k |-> Step(f, n)],
             \A n \in 0..k : Step(g, n) = Step(f, n)
      PROVE  Fix(k, g)
  <2> HIDE DEF Step
  <2> QED
    BY <1>c
<1>1. 0 \in T
  <2> DEFINE g == [n \in 0..0 |-> Step(<<>>, n)]
  <2>1. \A n \in 0..0 : Step(g, n) = Step(<<>>, n)
    <3> SUFFICES ASSUME NEW n \in 0..0 PROVE Step(g, n) = Step(<<>>, n)
      BY Zenon
    <3>1. n = 0
      OBVIOUS
    <3> HIDE DEF Step, g
    <3> QED
      BY <1>a, <3>1
  <2>2. Fix(0, g)
    <3> HIDE DEF Step, Fix
    <3> QED
      BY <1>c, <2>1
  <2> QED
    BY <2>2, Zenon
<1>2. ASSUME NEW k \in Nat, k \in T PROVE k + 1 \in T
  <2>1. PICK f : Fix(k, f)
    BY <1>2
  <2> DEFINE g == [n \in 0..(k + 1) |-> Step(f, n)]
  <2>2. ASSUME NEW n \in 0..k PROVE g[n] = f[n]
    <3>1. n \in 0..(k + 1)
      OBVIOUS
    <3>2. f[n] = Step(f, n)
      <4> HIDE DEF Step, Fix
      <4> QED
        BY <1>b, <2>1
    <3>3. g[n] = Step(f, n)
      <4> HIDE DEF Step
      <4> QED
        BY <3>1
    <3> QED
      BY <3>2, <3>3, Zenon
  <2>3. ASSUME NEW n \in 0..(k + 1) PROVE Step(g, n) = Step(f, n)
    <3>1. n = 0 \/ g[n - 1] = f[n - 1]
      <4>1. n = 0 \/ n - 1 \in 0..k
        OBVIOUS
      <4> HIDE DEF g
      <4> QED
        BY <2>2, <4>1
    <3> HIDE DEF Step, g
    <3> QED
      BY <1>a, <3>1
  <2>4. Fix(k + 1, g)
    <3>1. g = [n \in 0..(k + 1) |-> Step(f, n)]
      BY Zenon
    <3>2. \A n \in 0..(k + 1) : Step(g, n) = Step(f, n)
      <4> HIDE DEF Step, g
      <4> QED
        BY <2>3
    <3> HIDE DEF Step, Fix, g
    <3> QED
      BY <1>c, <3>1, <3>2
  <2>5. k + 1 \in Nat
    OBVIOUS
  <2> HIDE DEF Fix
  <2> QED
    BY <2>4, <2>5
<1>3. ASSUME NEW k \in Nat PROVE \E f : Fix(k, f)
  <2> HIDE DEF Fix
  <2>1. Nat \subseteq T
    <3> HIDE DEF T
    <3> QED
      BY <1>1, <1>2, Induction
  <2> QED
    BY <2>1
<1>4. ASSUME NEW f, NEW g, NEW k \in Nat, NEW l \in Nat, Fix(k, f), Fix(l, g)
      PROVE  \A n \in Nat : n <= k /\ n <= l => f[n] = g[n]
  <2> DEFINE U == {n \in Nat : n <= k /\ n <= l => f[n] = g[n]}
  <2>1. 0 \in U
    <3>1. 0 \in 0..k /\ 0 \in 0..l
      OBVIOUS
    <3>2. f[0] = Step(f, 0) /\ g[0] = Step(g, 0)
      <4> HIDE DEF Step, Fix
      <4> QED
        BY <1>b, <1>4, <3>1
    <3>3. Step(f, 0) = Step(g, 0)
      <4> HIDE DEF Step, Fix
      <4> QED
        BY <1>a
    <3> QED
      BY <3>2, <3>3
  <2>2. ASSUME NEW n \in Nat, n \in U PROVE n + 1 \in U
    <3> SUFFICES ASSUME n + 1 <= k, n + 1 <= l PROVE f[n + 1] = g[n + 1]
      OBVIOUS
    <3>1. f[n] = g[n]
      BY <2>2
    <3>2. f[n + 1] = Step(f, n + 1) /\ g[n + 1] = Step(g, n + 1)
      <4>1. n + 1 \in 0..k /\ n + 1 \in 0..l
        OBVIOUS
      <4> HIDE DEF Step, Fix
      <4> QED
        BY <1>b, <1>4, <4>1
    <3>3. (n + 1) - 1 = n
      OBVIOUS
    <3>4. Step(f, n + 1) = Step(g, n + 1)
      <4> HIDE DEF Step, Fix
      <4> QED
        BY <1>a, <3>1, <3>3
    <3> QED
      BY <3>2, <3>4
  <2>3. Nat \subseteq U
    <3> HIDE DEF U
    <3> QED
      BY <2>1, <2>2, Induction
  <2> QED
    BY <2>3
<1> DEFINE At(n) == CHOOSE f : Fix(n, f)
           H == [n \in Nat |-> At(n)[n]]
<1>5. ASSUME NEW n \in Nat PROVE Fix(n, At(n))
  <2> HIDE DEF Fix
  <2> QED
    BY <1>3, Zenon
<1>d. ASSUME NEW n \in Nat PROVE H[n] = At(n)[n]
  <2> HIDE DEF At
  <2> QED
    OBVIOUS
<1>6. H = [n \in Nat |-> Step(H, n)]
  <2>1. ASSUME NEW n \in Nat PROVE H[n] = Step(H, n)
    <3>1. H[n] = Step(At(n), n)
      <4>1. n \in 0..n
        OBVIOUS
      <4> HIDE DEF At, Step, Fix, H
      <4> QED
        BY <1>5, <1>b, <1>d, <4>1
    <3>2. n = 0 \/ At(n)[n - 1] = H[n - 1]
      <4> SUFFICES ASSUME n # 0 PROVE At(n)[n - 1] = H[n - 1]
        OBVIOUS
      <4>1. n - 1 \in Nat /\ n - 1 <= n /\ n - 1 <= n - 1
        OBVIOUS
      <4>2. At(n)[n - 1] = At(n - 1)[n - 1]
        <5> HIDE DEF At, Fix
        <5> QED
          BY <1>4, <1>5, <4>1
      <4> HIDE DEF At, Fix, H
      <4> QED
        BY <1>d, <4>1, <4>2
    <3> HIDE DEF At, H, Step
    <3> QED
      BY <1>a, <3>1, <3>2
  <2>2. H = [n \in Nat |-> H[n]]
    <3> HIDE DEF At
    <3> QED
      OBVIOUS
  <2> HIDE DEF H, Step
  <2> QED
    BY <2>1, <2>2
<1>7. TypesTo = [n \in Nat |-> Step(TypesTo, n)]
  <2> HIDE DEF H
  <2> QED
    BY <1>6, Zenon DEF TypesTo
<1>8. ASSUME NEW n \in Nat PROVE TypesTo[n] = Step(TypesTo, n)
  BY <1>7, Zenon
<1>9. TypesTo[0] = TypesOver({<<>>})
  BY <1>8 DEF TypesOver
<1>10. ASSUME NEW n \in Nat PROVE TypesTo[n + 1] = TypesOver(Seq(TypesTo[n]))
  <2>1. n + 1 \in Nat /\ n + 1 # 0 /\ (n + 1) - 1 = n
    OBVIOUS
  <2>2. TypesTo[n + 1] = Step(TypesTo, n + 1)
    BY <1>8, <2>1
  <2> QED
    BY <2>1, <2>2 DEF TypesOver
<1> QED
  BY <1>9, <1>10

(* A type that may be nested deeper may as well be nested less deep.            *)
LEMMA TypesGrow ==
    \A n \in Nat : TypesTo[n] \subseteq TypesTo[n + 1]
<1> DEFINE T == {n \in Nat : TypesTo[n] \subseteq TypesTo[n + 1]}
<1>1. 0 \in T
  <2>1. TypesTo[0] = TypesOver({<<>>}) /\ TypesTo[0 + 1] = TypesOver(Seq(TypesTo[0]))
    BY TypesUnfold, Zenon
  <2>2. {<<>>} \subseteq Seq(TypesTo[0])
    OBVIOUS
  <2>3. TypesOver({<<>>}) \subseteq TypesOver(Seq(TypesTo[0]))
    BY <2>2 DEF TypesOver
  <2> QED
    BY <2>1, <2>3
<1>2. ASSUME NEW n \in Nat, n \in T PROVE n + 1 \in T
  <2>1. TypesTo[n + 1] = TypesOver(Seq(TypesTo[n])) /\ TypesTo[(n + 1) + 1] = TypesOver(Seq(TypesTo[n + 1]))
    <3>1. n + 1 \in Nat
      OBVIOUS
    <3> QED
      BY <3>1, TypesUnfold, Zenon
  <2>2. Seq(TypesTo[n]) \subseteq Seq(TypesTo[n + 1])
    BY <1>2
  <2>3. TypesOver(Seq(TypesTo[n])) \subseteq TypesOver(Seq(TypesTo[n + 1]))
    BY <2>2 DEF TypesOver
  <2> QED
    BY <2>1, <2>3
<1>3. Nat \subseteq T
  <2> HIDE DEF T
  <2> QED
    BY <1>1, <1>2, Induction
<1> QED
  BY <1>3

(* The images of what a sequence holds make a sequence.                         *)
LEMMA Mapped ==
    ASSUME NEW S, NEW R, NEW s \in Seq(S), NEW f, \A u \in S : f[u] \in R
    PROVE  [i \in DOMAIN s |-> f[s[i]]] \in Seq(R)
<1>1. Len(s) \in Nat /\ DOMAIN s = 1..Len(s) /\ \A i \in 1..Len(s) : f[s[i]] \in R
  OBVIOUS
<1>2. [i \in 1..Len(s) |-> f[s[i]]] \in Seq(R)
  BY <1>1
<1> QED
  BY <1>1, <1>2

LEMMA Joined ==
    ASSUME NEW S
    PROVE  /\ \A s \in Seq(S), t \in Seq(S) : s \o t \in Seq(S)
           /\ \A x \in S, t \in Seq(S) : <<x>> \o t \in Seq(S)
<1>1. \A x \in S : <<x>> \in Seq(S)
  OBVIOUS
<1>2. \A s \in Seq(S), t \in Seq(S) : s \o t \in Seq(S)
  OBVIOUS
<1> QED
  BY <1>1, <1>2, Zenon

(* The key of a type is a sequence of the parts of names.                       *)
LEMMA KeyType ==
    \A t \in Types : TypeMangleKey[t] \in Seq(STRING)
<1> DEFINE Keys(f, t) == [i \in DOMAIN t.args |-> f[t.args[i]]]
           Step(f, t) == IF t.parts = <<"fn">> THEN <<"fn">> ELSE Flat(t) \o FlattenSeq(Keys(f, t))
           Fix(k, f)  == f = [t \in TypesTo[k] |-> Step(f, t)]
           Good(k, f) == \A t \in TypesTo[k] : f[t] \in Seq(STRING)
           T == {k \in Nat : (\E f : Fix(k, f)) /\ \A f : Fix(k, f) => Good(k, f)}
<1>a. ASSUME NEW f, NEW g, NEW S, NEW t \in TypesOver(Seq(S)), \A u \in S : f[u] = g[u]
      PROVE  Step(f, t) = Step(g, t)
  <2>1. Keys(f, t) = Keys(g, t)
    BY <1>a DEF TypesOver
  <2> HIDE DEF Keys
  <2> QED
    BY <2>1
<1>b. ASSUME NEW f, NEW S, NEW t \in TypesOver(Seq(S)), \A u \in S : f[u] \in Seq(STRING)
      PROVE  Step(f, t) \in Seq(STRING)
  <2>1. t.mod \in STRING /\ t.parts \in Seq(STRING) /\ t.args \in Seq(S)
    BY DEF TypesOver
  <2>2. Flat(t) \in Seq(STRING)
    <3>1. <<t.mod>> \o t.parts \in Seq(STRING)
      BY <2>1, Joined
    <3> QED
      BY <2>1, <3>1 DEF Flat
  <2>3. Keys(f, t) \in Seq(Seq(STRING))
    BY <1>b, <2>1, Mapped
  <2>4. FlattenSeq(Keys(f, t)) \in Seq(STRING)
    <3> HIDE DEF Keys
    <3> QED
      BY <2>3, FlattenType
  <2>5. Flat(t) \o FlattenSeq(Keys(f, t)) \in Seq(STRING)
    <3> HIDE DEF Keys
    <3> QED
      BY <2>2, <2>4, Joined
  <2> HIDE DEF Keys
  <2> QED
    BY <2>1, <2>5, Zenon
<1>c. ASSUME NEW f, NEW k, Fix(k, f), NEW t \in TypesTo[k] PROVE f[t] = Step(f, t)
  <2> HIDE DEF Step
  <2> QED
    BY <1>c, Zenon
<1>d. ASSUME NEW f, NEW k, NEW g, g = [t \in TypesTo[k] |-> Step(f, t)],
             \A t \in TypesTo[k] : Step(g, t) = Step(f, t)
      PROVE  Fix(k, g)
  <2> HIDE DEF Step
  <2> QED
    BY <1>d
<1>1. 0 \in T
  <2>1. \A t \in TypesTo[0] : t \in TypesOver(Seq({}))
    <3>1. TypesOver({<<>>}) \subseteq TypesOver(Seq({}))
      <4>1. {<<>>} \subseteq Seq({})
        OBVIOUS
      <4> QED
        BY <4>1 DEF TypesOver
    <3> QED
      BY <3>1, TypesUnfold
  <2> DEFINE g == [t \in TypesTo[0] |-> Step(<<>>, t)]
  <2>2. Fix(0, g)
    <3>1. \A t \in TypesTo[0] : Step(g, t) = Step(<<>>, t)
      <4> HIDE DEF Step, g
      <4> QED
        BY <1>a, <2>1
    <3>2. g = [t \in TypesTo[0] |-> Step(<<>>, t)]
      OBVIOUS
    <3> HIDE DEF Step, g, Fix
    <3> QED
      BY <1>d, <3>1, <3>2
  <2>3. ASSUME NEW f, Fix(0, f) PROVE Good(0, f)
    <3> SUFFICES ASSUME NEW t \in TypesTo[0] PROVE f[t] \in Seq(STRING)
      BY Zenon
    <3> HIDE DEF Step, Fix
    <3>1. f[t] = Step(f, t)
      BY <1>c, <2>3
    <3>2. Step(f, t) \in Seq(STRING)
      BY <1>b, <2>1
    <3> QED
      BY <3>1, <3>2
  <2> HIDE DEF Fix, Good, g
  <2> QED
    BY <2>2, <2>3
<1>2. ASSUME NEW k \in Nat, k \in T PROVE k + 1 \in T
  <2>1. TypesTo[k + 1] = TypesOver(Seq(TypesTo[k])) /\ TypesTo[k] \subseteq TypesTo[k + 1]
    BY TypesUnfold, TypesGrow, Zenon
  <2>2. PICK f : Fix(k, f)
    <3> HIDE DEF Fix, Good
    <3> QED
      BY <1>2
  <2> DEFINE g == [t \in TypesTo[k + 1] |-> Step(f, t)]
  <2>3. Fix(k + 1, g)
    <3>1. \A t \in TypesTo[k] : f[t] = Step(f, t)
      <4> HIDE DEF Step, Fix
      <4> QED
        BY <1>c, <2>2
    <3>2. \A t \in TypesTo[k] : g[t] = f[t]
      <4> HIDE DEF Step
      <4> QED
        BY <2>1, <3>1
    <3>3. \A t \in TypesTo[k + 1] : Step(g, t) = Step(f, t)
      <4> HIDE DEF Step, g
      <4> QED
        BY <1>a, <2>1, <3>2
    <3>4. g = [t \in TypesTo[k + 1] |-> Step(f, t)]
      BY Zenon
    <3> HIDE DEF Step, g, Fix
    <3> QED
      BY <1>d, <3>3, <3>4
  <2>4. ASSUME NEW h, Fix(k + 1, h) PROVE Good(k + 1, h)
    <3>1. \A t \in TypesTo[k + 1] : h[t] = Step(h, t)
      <4> HIDE DEF Step, Fix
      <4> QED
        BY <1>c, <2>4
    <3> DEFINE r == [t \in TypesTo[k] |-> h[t]]
    <3>2. r = [t \in TypesTo[k] |-> Step(h, t)]
      <4> HIDE DEF Step
      <4> QED
        BY <2>1, <3>1
    <3>3. \A u \in TypesTo[k] : r[u] = h[u]
      OBVIOUS
    <3>4. \A t \in TypesTo[k] : Step(r, t) = Step(h, t)
      <4> HIDE DEF Step, r
      <4> QED
        BY <1>a, <2>1, <3>3
    <3>5. Fix(k, r)
      <4> HIDE DEF Step, r, Fix
      <4> QED
        BY <1>d, <3>2, <3>4
    <3>6. Good(k, r)
      <4> HIDE DEF Fix, Good, r
      <4> QED
        BY <1>2, <3>5
    <3>7. \A u \in TypesTo[k] : h[u] \in Seq(STRING)
      <4> HIDE DEF r
      <4> QED
        BY <3>3, <3>6
    <3> SUFFICES ASSUME NEW t \in TypesTo[k + 1] PROVE h[t] \in Seq(STRING)
      BY Zenon
    <3>8. Step(h, t) \in Seq(STRING)
      <4> HIDE DEF Step
      <4> QED
        BY <1>b, <2>1, <3>7
    <3> HIDE DEF Step
    <3> QED
      BY <3>1, <3>8
  <2>5. k + 1 \in Nat
    OBVIOUS
  <2> HIDE DEF Fix, Good, g
  <2> QED
    BY <2>3, <2>4, <2>5
<1>3. MaxDepth \in T
  <2>1. Nat \subseteq T
    <3> HIDE DEF T
    <3> QED
      BY <1>1, <1>2, Induction
  <2> HIDE DEF T
  <2> QED
    BY <2>1, DepthAssumption
<1>4. Fix(MaxDepth, TypeMangleKey)
  <2>1. PICK f : Fix(MaxDepth, f)
    <3> HIDE DEF Fix, Good
    <3> QED
      BY <1>3
  <2> QED
    BY <2>1, Zenon DEF TypeMangleKey, Types
<1> QED
  <2> HIDE DEF Fix
  <2> QED
    BY <1>3, <1>4 DEF Types

(* A name begins with another one: of the same module, with its parts first.    *)
IsName(name) == name = Name(name.mod, name.parts) /\ name.parts \in Seq(STRING)

Begins(base, name) ==
    /\ IsName(base) /\ IsName(name) /\ name.mod = base.mod
    /\ Len(base.parts) <= Len(name.parts)
    /\ \A i \in 1..Len(base.parts) : name.parts[i] = base.parts[i]

LEMMA MangleBegins ==
    ASSUME NEW base, IsName(base), NEW args \in Seq(Types)
    PROVE  Begins(base, MangleName(base, args))
<1> DEFINE keys == [i \in DOMAIN args |-> TypeMangleKey[args[i]]]
           rest == FlattenSeq(keys)
<1>1. keys \in Seq(Seq(STRING))
  BY KeyType, Mapped
<1>2. rest \in Seq(STRING)
  <2> HIDE DEF keys
  <2> QED
    BY <1>1, FlattenType
<1>3. MangleName(base, args) = Name(base.mod, base.parts \o rest)
  BY DEF MangleName
<1> HIDE DEF rest, keys
<1>4. base.parts \in Seq(STRING)
  BY DEF IsName
<1>5. /\ base.parts \o rest \in Seq(STRING)
      /\ Len(base.parts \o rest) = Len(base.parts) + Len(rest)
      /\ \A i \in 1..Len(base.parts) : (base.parts \o rest)[i] = base.parts[i]
  BY <1>2, <1>4
<1>6. MangleName(base, args).mod = base.mod /\ MangleName(base, args).parts = base.parts \o rest
  BY <1>3 DEF Name
<1>7. IsName(MangleName(base, args))
  BY <1>3, <1>5, <1>6 DEF IsName
<1>8. Len(base.parts) \in Nat /\ Len(rest) \in Nat
  BY <1>2, <1>4
<1> QED
  BY <1>5, <1>6, <1>7, <1>8 DEF Begins

-----------------------------------------------------------------------------
(* From the merged program to the type checker every declaration has its fields; *)
(* a generic is one that was given, and a copy has a name that begins with that  *)
(* of a given one.                                                           *)
DeclOK(d, given) ==
    /\ DOMAIN d = DeclFields
    /\ d.params # <<>> => /\ d.from = NoName /\ d.name \in given
                          /\ IsName(d.name) /\ d.params \in Seq(STRING)
    /\ d.from # NoName => d.from \in given /\ Begins(d.from, d.name)

Unmerged == {"mono", "collect", "generate", "substitute", "info"}

DeclsKept ==
    pass = 1 /\ stage \in Unmerged =>
        DOMAIN symbolInfo = GivenNames /\ \A d \in decls : DeclOK(d, GivenNames)

VInv == DeclsKept /\ VisibilityKept

LEMMA GivenStay ==
    ASSUME UNCHANGED <<input, graph>>
    PROVE  GivenNames' = GivenNames
<1>1. MergedAt' = MergedAt
  BY DEF MergedAt
<1>2. \A i : ContextAt(i)' = ContextAt(i)
  BY <1>1 DEF ContextAt
<1>3. MergedDecls' = MergedDecls
  BY <1>1, <1>2 DEF MergedDecls
<1>4. HeaderDecls' = HeaderDecls
  BY <1>1 DEF HeaderDecls, Headers
<1> QED
  BY <1>3, <1>4 DEF GivenNames

LEMMA VisibilityStays ==
    ASSUME VInv, UNCHANGED <<input, graph, pass, decls, symbolInfo>>,
           stage' = stage \/ (stage \in Unmerged /\ stage' \in Unmerged)
    PROVE  VInv'
<1>1. GivenNames' = GivenNames
  BY GivenStay
<1>2. DeclsKept'
  BY <1>1 DEF VInv, DeclsKept, Unmerged
<1>3. VisibilityKept'
  BY <1>1 DEF VInv, VisibilityKept, Unmerged
<1> QED
  BY <1>2, <1>3 DEF VInv

(* Where the invariant does not say anything.                                *)
LEMMA VisibilityLeft ==
    ASSUME stage' # "check", stage' \notin Unmerged \/ pass' # 1
    PROVE  VInv'
  BY DEF VInv, DeclsKept, VisibilityKept

LEMMA MergeGives ==
    ASSUME input \in Inputs, Merge
    PROVE  VInv'
<1>1. CASE stage' # "mono"
  <2>1. stage' = "unresolved"
    BY <1>1 DEF Merge, Goes
  <2> QED
    BY <2>1, VisibilityLeft DEF Unmerged
<1>2. CASE stage' = "mono"
  <2>1. UNCHANGED <<input, graph>>
    BY DEF Merge, Goes, importVars, readVars
  <2>2. /\ decls' = MergedDecls \cup {[d EXCEPT !.ctx = LastModule] : d \in HeaderDecls}
        /\ DOMAIN symbolInfo' = GivenNames
    BY <1>2 DEF Merge, Goes
  <2>3. ASSUME NEW f \in Range(input.files), NEW e \in Range(f.decls), NEW ctx,
               NEW given, [Prefixed(e, f.module) EXCEPT !.ctx = ctx].name \in given
        PROVE  DeclOK([Prefixed(e, f.module) EXCEPT !.ctx = ctx], given)
    <3>1. /\ DOMAIN e = DeclFields /\ e.from = NoName
          /\ e.name = Name(e.name.mod, e.name.parts)
          /\ e.name.parts \in Seq(STRING) /\ e.params \in Seq(STRING)
      BY <2>3, DeclAssumption
    <3> DEFINE p == Prefixed(e, f.module)
    <3>2. /\ DOMAIN p = DeclFields /\ p.from = NoName /\ p.params \in Seq(STRING)
          /\ p.name = Name(p.name.mod, p.name.parts) /\ p.name.parts \in Seq(STRING)
      <4>1. CASE p = e
        BY <3>1, <4>1
      <4>2. CASE p = [e EXCEPT !.name = Name(f.module, e.name.parts)]
        BY <3>1, <4>2 DEF DeclFields, Name
      <4> QED
        BY <4>1, <4>2 DEF Prefixed
    <3> DEFINE q == [p EXCEPT !.ctx = ctx]
    <3>3. /\ DOMAIN q = DeclFields /\ q.from = NoName /\ q.params \in Seq(STRING)
          /\ IsName(q.name) /\ q.name \in given
      <4>1. q.name \in given
        BY <2>3
      <4> HIDE DEF p
      <4> QED
        BY <3>2, <4>1 DEF DeclFields, IsName
    <3>4. DeclOK(q, given)
      <4> HIDE DEF q
      <4> QED
        BY <3>3 DEF DeclOK
    <3> QED
      BY <3>4
  <2>4. ASSUME NEW d \in MergedDecls PROVE DeclOK(d, GivenNames)
    <3>1. PICK i \in MergedAt : d \in DeclsOfFile(input.files[i], ContextAt(i))
      BY DEF MergedDecls
    <3>2. PICK e \in Range(input.files[i].decls) :
              d = [Prefixed(e, input.files[i].module) EXCEPT !.ctx = ContextAt(i)]
      BY <3>1 DEF DeclsOfFile
    <3>3. input.files[i] \in Range(input.files)
      BY DEF MergedAt, Range
    <3>4. d.name \in GivenNames
      BY DEF GivenNames
    <3> QED
      BY <2>3, <3>2, <3>3, <3>4
  <2>5. ASSUME NEW e \in HeaderDecls PROVE DeclOK([e EXCEPT !.ctx = LastModule], GivenNames)
    <3>1. PICK i \in MergedAt : \E h \in input.files[i].headers : e \in h.decls
      BY DEF HeaderDecls, Headers
    <3>2. input.files[i] \in Range(input.files)
      BY DEF MergedAt, Range
    <3>3. /\ DOMAIN e = DeclFields /\ e.from = NoName
          /\ e.name = Name(e.name.mod, e.name.parts)
          /\ e.name.parts \in Seq(STRING) /\ e.params \in Seq(STRING)
      BY <3>1, <3>2, DeclAssumption
    <3>4. e.name \in GivenNames
      BY DEF GivenNames
    <3> QED
      BY <3>3, <3>4 DEF DeclOK, DeclFields, IsName
  <2>6. \A d \in decls' : DeclOK(d, GivenNames)
    BY <2>2, <2>4, <2>5
  <2> QED
    BY <1>2, <2>1, <2>2, <2>6, GivenStay DEF VInv, DeclsKept, VisibilityKept
<1> QED
  BY <1>1, <1>2

(* The arguments that a name is read with make a sequence.                    *)
LEMMA ArgsRead ==
    ASSUME NEW name, NEW g, g.params \in Seq(STRING), Range(DemangledArgs(name, g)) \subseteq Types
    PROVE  DemangledArgs(name, g) \in Seq(Types)
<1> DEFINE args == DemangledArgs(name, g)
<1>1. PICK n \in Nat : DOMAIN args = 1..n
  <2>1. CASE Len(g.params) = 1
    <3>1. DOMAIN args = 1..1
      BY <2>1 DEF DemangledArgs
    <3> QED
      BY <3>1
  <2>2. CASE Len(g.params) # 1
    BY <2>2 DEF DemangledArgs
  <2> QED
    BY <2>1, <2>2
<1>2. args = [i \in 1..n |-> args[i]]
  <2>1. args = [i \in DOMAIN args |-> args[i]]
    BY DEF DemangledArgs
  <2> HIDE DEF args
  <2> QED
    BY <1>1, <2>1
<1>3. \A i \in 1..n : args[i] \in Types
  <2> HIDE DEF args
  <2> QED
    BY <1>1 DEF Range, args
<1> HIDE DEF args
<1>4. [i \in 1..n |-> args[i]] \in Seq(Types)
  BY <1>3
<1> QED
  BY <1>2, <1>4 DEF args

LEMMA GenerateGives ==
    ASSUME VInv, GenerateSpecializations, pass = 1, graph' = graph
    PROVE  VInv'
<1>1. /\ stage = "generate" /\ stage' = "collect" /\ UNCHANGED <<input, symbolInfo, pass>>
      /\ \A name \in insts : WithinDepth(name)
      /\ decls' = decls \cup UNION {SpecializesTo(name) : name \in insts \ made}
  BY DEF GenerateSpecializations, Goes
<1>2. DOMAIN symbolInfo = GivenNames /\ \A d \in decls : DeclOK(d, GivenNames)
  BY <1>1 DEF VInv, DeclsKept, Unmerged
<1>3. ASSUME NEW name \in insts, NEW e \in SpecializesTo(name) PROVE DeclOK(e, GivenNames)
  <2>1. PICK g \in Generics : Demangles(name, g) /\ e = Specialize(g, DemangledArgs(name, g))
    BY DEF SpecializesTo, First
  <2>2. DeclOK(g, GivenNames) /\ g.params # <<>>
    BY <1>2 DEF Generics, IsGeneric
  <2>3. Range(DemangledArgs(name, g)) \subseteq Types
    BY <1>1, <2>1 DEF WithinDepth
  <2>4. g.params \in Seq(STRING) /\ IsName(g.name) /\ g.name \in GivenNames /\ DOMAIN g = DeclFields
    BY <2>2 DEF DeclOK
  <2> DEFINE args == DemangledArgs(name, g)
  <2>5. Begins(g.name, MangleName(g.name, args))
    BY <2>3, <2>4, ArgsRead, MangleBegins
  <2>6. /\ DOMAIN e = DeclFields /\ e.params = <<>> /\ e.from = g.name
        /\ e.name = MangleName(g.name, args)
    <3> HIDE DEF args
    <3> QED
      BY <2>1, <2>4 DEF args, Specialize, DeclFields
  <2> HIDE DEF args
  <2> QED
    BY <2>4, <2>5, <2>6 DEF DeclOK
<1>4. \A d \in decls' : DeclOK(d, GivenNames)
  BY <1>1, <1>2, <1>3
<1> QED
  BY <1>1, <1>2, <1>4, GivenStay DEF VInv, DeclsKept, VisibilityKept

LEMMA SubstituteGives ==
    ASSUME VInv, SubstituteInstantiations, pass = 1, graph' = graph
    PROVE  VInv'
<1>1. /\ stage = "substitute" /\ stage' = "info" /\ UNCHANGED <<input, symbolInfo, pass>>
      /\ \A d \in decls' : \E e \in decls : \E sig, uses : d = [e EXCEPT !.sig = sig, !.uses = uses]
  BY DEF SubstituteInstantiations, Goes
<1>2. DOMAIN symbolInfo = GivenNames /\ \A d \in decls : DeclOK(d, GivenNames)
  BY <1>1 DEF VInv, DeclsKept, Unmerged
<1>3. ASSUME NEW d \in decls' PROVE DeclOK(d, GivenNames)
  <2>1. PICK e \in decls : \E sig, uses : d = [e EXCEPT !.sig = sig, !.uses = uses]
    BY <1>1
  <2>2. DOMAIN d = DOMAIN e
    BY <2>1
  <2>3. DeclOK(e, GivenNames)
    BY <1>2
  <2>4. d.name = e.name /\ d.params = e.params /\ d.from = e.from
    BY <2>1, <2>3 DEF DeclOK, DeclFields
  <2> QED
    BY <2>2, <2>3, <2>4 DEF DeclOK
<1> QED
  BY <1>1, <1>2, <1>3, GivenStay DEF VInv, DeclsKept, VisibilityKept

LEMMA MakingGives ==
    ASSUME IInv, VInv, Making
    PROVE  VInv'
<1>1. UNCHANGED <<input, graph, pass>>
  BY MakingMoves DEF Quiet, Making, unmade, importVars, readVars
<1>2. CASE pass # 1
  <2>1. stage' # "check"
    BY MakingMoves DEF Moves
  <2> QED
    BY <1>1, <1>2, <2>1, VisibilityLeft
<1>3. CASE pass = 1
  <2>1. CASE Monomorphize
    BY <1>1, <2>1, VisibilityStays DEF Monomorphize, Goes, Unmerged
  <2>2. CASE CollectInstantiations
    BY <1>1, <2>2, VisibilityStays DEF CollectInstantiations, Goes, Unmerged
  <2>3. CASE GenerateSpecializations
    BY <1>1, <1>3, <2>3, GenerateGives
  <2>4. CASE SubstituteInstantiations
    BY <1>1, <1>3, <2>4, SubstituteGives
  <2> QED
    BY <2>1, <2>2, <2>3, <2>4 DEF Making
<1> QED
  BY <1>2, <1>3

(* A name that begins with one of a single part has that for its base.         *)
LEMMA BaseOfCopy ==
    ASSUME NEW base, NEW name, Begins(base, name), Len(base.parts) = 1
    PROVE  /\ Name(name.mod, <<name.parts[1]>>) = base
           /\ Len(name.parts) = 1 => name = base
<1>1. /\ base = Name(base.mod, base.parts) /\ base.parts \in Seq(STRING)
      /\ name = Name(name.mod, name.parts) /\ name.parts \in Seq(STRING)
      /\ name.mod = base.mod /\ name.parts[1] = base.parts[1]
  BY DEF Begins, IsName
<1>2. base.parts = <<base.parts[1]>>
  BY <1>1
<1>3. Len(name.parts) = 1 => name.parts = <<name.parts[1]>>
  BY <1>1
<1>4. name.mod = base.mod /\ <<name.parts[1]>> = base.parts
  BY <1>1, <1>2
<1> QED
  BY <1>1, <1>3, <1>4, Zenon

LEMMA InfoGives ==
    ASSUME IInv, VInv, UpdateInfo
    PROVE  VInv'
<1> DEFINE new == {d.name : d \in decls} \ DOMAIN symbolInfo
<1>1. stage = "info" /\ pass = 1 /\ UNCHANGED <<input, graph, decls>> /\ stage' \in {"done", "check"}
  BY CheckingMoves DEF UpdateInfo, Goes, IInv, Stages, unpassed, importVars, readVars
<1>2. DOMAIN symbolInfo = GivenNames /\ \A d \in decls : DeclOK(d, GivenNames)
  BY <1>1 DEF VInv, DeclsKept, Unmerged
<1>3. PICK info \in Settle(new, BaseInfo) :
          symbolInfo' = [n \in new \cup DOMAIN symbolInfo |->
                            IF n \in new THEN info[n] ELSE symbolInfo[n]]
  BY DEF UpdateInfo
<1>4. ASSUME NEW n \in new, NEW x, BaseInfo(n) = {x} PROVE info[n] = x
  <2> HIDE DEF new
  <2>1. info[n] \in BaseInfo(n) \/ info[n] = CHOOSE a \in BaseInfo(n) : TRUE
    BY <1>3 DEF Settle
  <2> QED
    BY <1>4, <2>1
<1>5. ASSUME NEW d \in decls, d.from # NoName, Len(d.from.parts) = 1, d.name \notin GivenNames
      PROVE  symbolInfo'[d.name] = symbolInfo'[d.from]
  <2>1. d.from \in GivenNames /\ Begins(d.from, d.name)
    BY <1>2, <1>5 DEF DeclOK
  <2>2. d.name \in new /\ d.from \in DOMAIN symbolInfo /\ d.from \notin new
    BY <1>2, <1>5, <2>1
  <2>3. Name(d.name.mod, <<d.name.parts[1]>>) = d.from /\ Len(d.name.parts) # 1
    BY <1>5, <2>1, BaseOfCopy
  <2>4. BaseInfo(d.name) = {symbolInfo[d.from]}
    BY <2>2, <2>3 DEF BaseInfo
  <2>5. info[d.name] = symbolInfo[d.from]
    <3> HIDE DEF new
    <3> QED
      BY <1>4, <2>2, <2>4
  <2> HIDE DEF new
  <2> QED
    BY <1>3, <2>2, <2>5
<1>6. VisibilityKept'
  <2>1. GivenNames' = GivenNames
    BY <1>1, GivenStay
  <2> HIDE DEF new
  <2> QED
    BY <1>1, <1>5, <2>1 DEF VisibilityKept
<1>7. DeclsKept'
  BY <1>1 DEF DeclsKept, Unmerged
<1> QED
  BY <1>6, <1>7 DEF VInv

LEMMA OthersLeave ==
    ASSUME IInv, Command \/ Reading \/ Searching \/ CheckProgram \/ Exit \/ Templating \/ Building \/ Fetching
                     \/ Testing
    PROVE  VInv'
<1> SUFFICES stage' # "check" /\ (stage' \notin Unmerged \/ pass' # 1)
  BY VisibilityLeft
<1> USE DEF Unmerged
<1>1. CASE Command
  BY <1>1, CommandMoves DEF Moves
<1>2. CASE Reading
  BY <1>2 DEF Reading, Resolve, SkipRead, ReadFile, ReadFails, FollowImport, IgnoreImport, ImportsFollowed,
     AllRead, Goes, programVars
<1>3. CASE Searching
  BY <1>3 DEF Searching, StartSearch, VisitNeighbour, CycleFound, LeaveNode, Acyclic, Goes, programVars
<1>4. CASE CheckProgram
  <2>1. stage = "check"
    BY <1>4 DEF CheckProgram
  <2> QED
    BY <1>4, <2>1, CheckingMoves DEF Moves
<1>5. CASE Exit
  BY <1>5, ExitMoves DEF Moves
<1>6. CASE Templating
  BY <1>6, TemplatingMoves DEF Moves, AfterTemplates
<1>7. CASE Building
  <2>1. CASE Build
    <3>1. CASE HasMain
      <4>1. stage' = "mono" /\ pass' = 2
        BY <2>1, <3>1, Zenon DEF Build, Goes
      <4> QED
        BY <4>1
    <3>2. CASE ~HasMain
      BY <2>1, <3>2 DEF Build, Goes
    <3> QED
      BY <3>1, <3>2
  <2>2. CASE EmitProgram
    BY <2>2 DEF EmitProgram, Goes, Returns
  <2>3. CASE Optimize
    BY <2>3 DEF Optimize, Goes, Returns
  <2>4. CASE Assemble
    BY <2>4 DEF Assemble, Goes, Returns
  <2>5. CASE Link
    BY <2>5 DEF Link, Goes, Returns
  <2> QED
    BY <1>7, <2>1, <2>2, <2>3, <2>4, <2>5 DEF Building
<1>8. CASE Fetching
  BY <1>8 DEF Fetching, unfetched, programVars, Goes, FetchAll, DownloadFails, UnpackFails, Unpack, Fetched
<1>9. CASE Testing
  BY <1>9 DEF Testing, SkipTest, StartTest, RunTest, TestsDone, TestFails, LeaveTest, Goes, programVars
<1> QED
  BY <1>1, <1>2, <1>3, <1>4, <1>5, <1>6, <1>7, <1>8, <1>9

(* In any program, in any modules, the copies of a generic whose name has no     *)
(* underscore are as visible as it is, unless the source declares their names. *)
THEOREM VisibilityCorrect == Spec => []VisibilityKept
<1>1. Init => VInv
  BY DEF Init, ProgramInit, VInv, DeclsKept, VisibilityKept, Unmerged
<1>2. IInv /\ VInv /\ [Next]_vars => VInv'
  <2> SUFFICES ASSUME IInv, VInv, [Next]_vars PROVE VInv'
    OBVIOUS
  <2>1. CASE Merge
    BY <2>1, MergeGives DEF IInv, Stages
  <2>2. CASE Next
    BY <2>1, <2>2, MakingGives, InfoGives, OthersLeave DEF Next, Importing
  <2>3. CASE UNCHANGED vars
    <3>1. UNCHANGED <<input, graph, pass, decls, symbolInfo, stage>>
      BY <2>3 DEF vars, programVars, importVars, readVars
    <3> QED
      BY <3>1, VisibilityStays
  <2> QED
    BY <2>2, <2>3
<1>3. VInv => VisibilityKept
  BY DEF VInv
<1> QED
  BY <1>1, <1>2, <1>3, Invariance, PTL DEF Spec

=============================================================================
