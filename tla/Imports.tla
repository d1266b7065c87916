------------------------------ MODULE Imports ------------------------------
(***************************************************************************)
(* compiler/resolver: read the files named on the command line and the files *)
(* that they import, refuse a cycle, and merge what they declare.           *)
(*                                                                          *)
(* A directory is the sequence of the names on the way to it, a file the     *)
(* directory with its own name, without ".skink", at the end.               *)
(*                                                                          *)
(* A definition whose name starts with Mut is a broken version of the one     *)
(* after it, used to test that a property notices; no specification uses it. *)
(***************************************************************************)
EXTENDS Program

VARIABLES
    queue,      \* the paths still to be read
    graph,      \* importGraph, over the paths that were read (parsedFiles)
    file, next, \* whose imports are being looked for, and which one is next
    trail,      \* the nodes that findCycle is visiting, each with its next neighbour
    over,       \* the nodes that it is done with
    cycle       \* what it answered

readVars   == <<queue, graph, file, next>>
cycleVars  == <<trail, over, cycle>>
importVars == <<readVars, cycleVars>>

ImportsInit ==
    /\ queue = <<>> /\ graph = <<>> /\ file = <<>> /\ next = 1
    /\ trail = <<>> /\ over = {} /\ cycle = <<>>

Paths == Seq(STRING)

(* The paths that the command line and the files give are sequences of names. *)
ASSUME InputAssumption ==
    \A i \in Inputs :
        /\ i.paths \in Seq(Paths)
        /\ i.tests \in Seq([dir : Paths, parses : BOOLEAN, named : BOOLEAN])
        /\ \A f \in Range(i.files) : f.path \in Paths /\ f.imports \in Seq(Paths)

(* A declaration has all of the fields, and is no copy when it is read.        *)
DeclFields == {"kind", "name", "params", "sig", "pub", "uses", "needs", "ctx", "from"}

ASSUME DeclAssumption ==
    \A i \in Inputs : \A f \in Range(i.files) :
        \A d \in Range(f.decls) \cup UNION {h.decls : h \in f.headers} :
            /\ DOMAIN d = DeclFields /\ d.from = NoName
            /\ d.name = Name(d.name.mod, d.name.parts)
            /\ d.name.parts \in Seq(STRING) /\ d.params \in Seq(STRING)

(* TLA+ knows this, the provers do not.                                      *)
ASSUME MainAssumption == "main" \in STRING

Root == <<>>
Dir(path)      == Front(path)
OnDisk         == {f.path : f \in Range(input.files)}
FileAt(path)   == CHOOSE f \in Range(input.files) : f.path = path
ImportsOf(path) == FileAt(path).imports

-----------------------------------------------------------------------------
(* tryPath: the files "base/imp.skink", "base/imp/main.skink" and              *)
(* "base/imp/imp.skink".                                                     *)
TryPath(base, imp) ==
    <<base \o imp, base \o imp \o <<"main">>, base \o imp \o <<Last(imp)>>>>

(* The directories from one up to the root.                                  *)
Ancestors(dir) == [i \in 1..(Len(dir) + 1) |-> SubSeq(dir, 1, Len(dir) + 1 - i)]

(* resolveImportPath: the directories to look in, in their order.             *)
SearchPath(dir) ==
    LET walk   == Ancestors(dir)
        within == <<<<"vendor">>, <<".skink", "cache">>, <<"std">>, <<>>>>
    IN  <<dir>> \o [k \in 1..(4 * Len(walk)) |-> walk[(k + 3) \div 4] \o within[((k - 1) % 4) + 1]]
        \o (IF home = Root THEN <<>> ELSE <<home, home \o <<"cache">>>>)

(* The places an import of a file in a directory may be in.                   *)
Places(imp, dir) ==
    LET bases == SearchPath(dir)
    IN  [k \in 1..(3 * Len(bases)) |-> TryPath(bases[(k + 2) \div 3], imp)[((k - 1) % 3) + 1]]

-----------------------------------------------------------------------------
(* The queue of Resolve.                                                     *)
unmerged == <<pass, paths, home, decls, symbolInfo>>

Resolve ==
    /\ stage = "resolve"
    /\ queue' = paths /\ graph' = <<>> /\ cycle' = <<>>
    /\ Goes("read")
    /\ UNCHANGED <<unmerged, file, next, trail, over>>

SkipRead ==
    /\ stage = "read" /\ queue # <<>> /\ Head(queue) \in DOMAIN graph
    /\ queue' = Tail(queue)
    /\ UNCHANGED <<programVars, graph, file, next, cycleVars>>

Unreadable(path) ==
    \/ path \notin OnDisk \/ ~FileAt(path).parses
    \/ input.manifest # "" /\ FileAt(path).module \notin {"", input.manifest}

ReadFile ==
    /\ stage = "read" /\ queue # <<>> /\ Head(queue) \notin DOMAIN graph
    /\ ~Unreadable(Head(queue))
    /\ queue' = Tail(queue)
    /\ graph' = [p \in DOMAIN graph \cup {Head(queue)} |-> IF p = Head(queue) THEN <<>> ELSE graph[p]]
    /\ file' = Head(queue) /\ next' = 1
    /\ Goes("imports")
    /\ UNCHANGED <<unmerged, cycleVars>>

ReadFails ==
    /\ stage = "read" /\ queue # <<>> /\ Head(queue) \notin DOMAIN graph
    /\ Unreadable(Head(queue))
    /\ Goes("unresolved")
    /\ UNCHANGED <<unmerged, importVars>>

(* Takes any place that has a file.                                          *)
MutFollowImport ==
    /\ stage = "imports" /\ next \in DOMAIN ImportsOf(file)
    /\ \E path \in Range(Places(ImportsOf(file)[next], Dir(file))) \cap OnDisk :
          /\ graph' = [graph EXCEPT ![file] = Append(@, path)]
          /\ queue' = IF path \in DOMAIN graph THEN queue ELSE Append(queue, path)
    /\ next' = next + 1
    /\ UNCHANGED <<programVars, file, cycleVars>>

(* The first place that has a file wins.                                     *)
FollowImport ==
    /\ stage = "imports" /\ next \in DOMAIN ImportsOf(file)
    /\ LET places == Places(ImportsOf(file)[next], Dir(file))
       IN  \E k \in DOMAIN places :
              /\ places[k] \in OnDisk /\ \A j \in 1..(k - 1) : places[j] \notin OnDisk
              /\ graph' = [graph EXCEPT ![file] = Append(@, places[k])]
              /\ queue' = IF places[k] \in DOMAIN graph THEN queue ELSE Append(queue, places[k])
    /\ next' = next + 1
    /\ UNCHANGED <<programVars, file, cycleVars>>

IgnoreImport ==
    /\ stage = "imports" /\ next \in DOMAIN ImportsOf(file)
    /\ Range(Places(ImportsOf(file)[next], Dir(file))) \cap OnDisk = {}
    /\ next' = next + 1
    /\ UNCHANGED <<programVars, queue, graph, file, cycleVars>>

ImportsFollowed ==
    /\ stage = "imports" /\ next \notin DOMAIN ImportsOf(file)
    /\ Goes("read")
    /\ UNCHANGED <<unmerged, importVars>>

AllRead ==
    /\ stage = "read" /\ queue = <<>>
    /\ trail' = <<>> /\ over' = {}
    /\ Goes("cycles")
    /\ UNCHANGED <<unmerged, readVars, cycle>>

-----------------------------------------------------------------------------
(* findCycle: a search in depth from every node that none before has reached,  *)
(* in the order of a map.                                                    *)
Visit(node) == [node |-> node, next |-> 1]
Top         == trail[Len(trail)]
Advanced    == [trail EXCEPT ![Len(trail)].next = @ + 1]
Visiting    == {trail[i].node : i \in DOMAIN trail}

StartSearch ==
    /\ stage = "cycles" /\ trail = <<>>
    /\ \E node \in DOMAIN graph \ over : trail' = <<Visit(node)>>
    /\ UNCHANGED <<programVars, readVars, over, cycle>>

VisitNeighbour ==
    /\ stage = "cycles" /\ trail # <<>> /\ Top.next \in DOMAIN graph[Top.node]
    /\ LET neighbour == graph[Top.node][Top.next]
       IN  /\ neighbour \notin Visiting
           /\ trail' = IF neighbour \in over THEN Advanced ELSE Append(Advanced, Visit(neighbour))
    /\ UNCHANGED <<programVars, readVars, over, cycle>>

CycleFound ==
    /\ stage = "cycles" /\ trail # <<>> /\ Top.next \in DOMAIN graph[Top.node]
    /\ \E i \in DOMAIN trail :
          /\ trail[i].node = graph[Top.node][Top.next]
          /\ cycle' = [j \in 1..(Len(trail) - i + 2) |->
                          IF j = Len(trail) - i + 2 THEN trail[i].node ELSE trail[i + j - 1].node]
    /\ Goes("unresolved")
    /\ UNCHANGED <<unmerged, readVars, trail, over>>

LeaveNode ==
    /\ stage = "cycles" /\ trail # <<>> /\ Top.next \notin DOMAIN graph[Top.node]
    /\ trail' = SubSeq(trail, 1, Len(trail) - 1)
    /\ over' = over \cup {Top.node}
    /\ UNCHANGED <<programVars, readVars, cycle>>

(* Searches from the first node only.                                       *)
MutAcyclic ==
    /\ stage = "cycles" /\ trail = <<>> /\ over # {}
    /\ Goes("merge")
    /\ UNCHANGED <<unmerged, importVars>>

Acyclic ==
    /\ stage = "cycles" /\ trail = <<>> /\ DOMAIN graph \subseteq over
    /\ Goes("merge")
    /\ UNCHANGED <<unmerged, importVars>>

-----------------------------------------------------------------------------
(* The places in input.files, which is in the order of the paths, of the files *)
(* that were read; a directory's instance lists its files in that order.     *)
MergedAt == {i \in DOMAIN input.files : input.files[i].path \in DOMAIN graph}

(* The names of a module other than main get its prefix; a template's not.    *)
Prefixed(d, module) ==
    IF module \in {"", "main"} \/ d.kind = "template" THEN d
    ELSE [d EXCEPT !.name = Name(module, d.name.parts)]

(* The walks over the merged program keep the module of the last declaration  *)
(* of one, and begin in main.                                                *)
ContextAt(i) ==
    LET before == {j \in MergedAt : j <= i /\ input.files[j].module # ""}
    IN  IF before = {} THEN "main" ELSE input.files[Max(before)].module

LastModule == ContextAt(Len(input.files))

DeclsOfFile(f, ctx) == {[Prefixed(d, f.module) EXCEPT !.ctx = ctx] : d \in Range(f.decls)}

MergedDecls == UNION {DeclsOfFile(input.files[i], ContextAt(i)) : i \in MergedAt}

(* C headers: their declarations come last, and are public.                  *)
Headers == UNION {input.files[i].headers : i \in MergedAt}
HeaderDecls == UNION {h.decls : h \in Headers}

Info(module, pub) == [module |-> module, pub |-> pub]

(* What a file says of the declarations of a name, and the last file that has *)
(* one.                                                                      *)
WithName(f, name) == {d \in Range(f.decls) : Prefixed(d, f.module).name = name}

InfoOf(f, name) == Info(f.module, \E d \in WithName(f, name) : d.pub)

LastWith(name) == input.files[Max({i \in MergedAt : WithName(input.files[i], name) # {}})]

GivenNames == {d.name : d \in MergedDecls \cup HeaderDecls}

Merge ==
    /\ stage = "merge"
    /\ IF \E h \in Headers : h.escapes \/ ~h.ok
       THEN Goes("unresolved") /\ UNCHANGED <<decls, symbolInfo>>
       ELSE /\ decls' = MergedDecls \cup {[d EXCEPT !.ctx = LastModule] : d \in HeaderDecls}
            /\ symbolInfo' = [name \in GivenNames |->
                                  IF \E d \in HeaderDecls : d.name = name THEN Info("", TRUE)
                                  ELSE InfoOf(LastWith(name), name)]
            /\ Goes("mono")
    /\ UNCHANGED <<pass, paths, home, importVars>>

=============================================================================
