# Verification of the Skink compiler, runtime and standard library

Skink is a language whose compiler is written in Go (`compiler/`), whose runtime is
written in C (`compiler/runtime/`) and whose standard library is written in Skink
itself (`std/`, `std/web/`). This directory holds TLA+ models of its front end, of the
command that drives it and of its concurrent runtime, TLC configurations that check them
on small instances, and TLAPS proofs of the properties that matter most for every value of
the constants.

Paths below are relative to `src/`; those of the compiler are relative to `compiler/` where
the directory is plain.

1. [The system](#1-the-system): inventory, state, operations, interactions, hazards
2. [The models](#2-the-models): module by module, how state and actions match the code
3. [The runs](#3-the-runs): what each checks and shows, its bounds, its fairness
4. [The proofs](#4-the-proofs): theorems, inductive invariants, assumptions
5. [Where the code and its documents differ](#5-where-the-code-and-its-documents-differ)
6. [What is not modelled](#6-what-is-not-modelled)
7. [The plan](#7-the-plan)

## 1. The system

### The compiler

`cmd/skink/main.go` builds the files it is given, prints or checks the program, runs tests, or
fetches packages. A compilation is a pipeline of passes, each a function of the result of the
one before:

| Part | State it keeps | Operations | Makes it correct | Modelled by |
|---|---|---|---|---|
| Lexer, parser (`lexer/`, `parser/`) | position; current and two next tokens; errors | token by token, recursive descent | ends on every input; brackets nest; one grouping of an expression | `Lex`, `Grammar`, `Parse`, against `Expressions` |
| Resolver, manifest (`resolver/`) | `parsedFiles`, the queue, `importGraph` | `Resolve`: read, parse, enqueue; `findCycle`; qualify and merge | every reachable file is merged; a cycle is reported iff there is one | `Imports` |
| Monomorphization (`ast/mono*.go`) | `instantiations`, `generatedSpecializations` | collect and specialize until nothing is added, then substitute | the loop ends; each use of an instance finds its copy | `Names`, `Slots`, `Mono` |
| Templates (`ast/template_monomorph.go`) | `insts`, `specialized` | infer from calls, copy, rename calls, remove originals | each call names the copy for its types | `Templates` |
| Type checker (`types/`) | scopes, symbol table, errors | one method per node | names resolve in the module of their use; private names stay private | the lookup of names: `Skink` |
| Code generator (`codegen/codegen.go`) | output, `scopeVars`, `deferred`, `loopLabels`, `terminated` | one `emitX` per node | blocks are well formed; releases match allocations on every path | statements: `Emit` |
| Build (`codegen/build.go`) | temporary files | both passes again, `EmitProgram`, `opt`, `llc` or `clang`, link | an artifact is returned only when every stage succeeded; nothing temporary stays | `Build` |
| Package manager (`pkgmanager/`) | `.skink/cache` on disk | `FetchAll`, `DownloadAndUnpack` | a run that ends well has fetched what was asked for | `Fetch` |
| Command and test runner (`cmd/skink/`) | symbol information; `SKINK_HOME`, directories of tests | `main`, `runTests` | a test leaves nothing to the next one | `Skink` |
| C import (`cimport/`) | none between calls | header text to declarations | | an input of `Imports` |

What is hard: each pass walks the syntax tree by itself, with its own list of the children it
goes into and its own idea of the module it is in, and the passes communicate by mangled names
alone. A place that one walk visits and the next does not, or a name that two of them write
differently, shows only as an undefined symbol at the end of the pipeline. The emitters share
mutable fields of one `Codegen` and recurse into each other, so an emitter that sets a field
too early or too late breaks code written far from it.

### The runtime and the concurrent library

| Part | State | Operations | Called by | Modelled by |
|---|---|---|---|---|
| Channels (`runtime/conc_rt.c`) | list, `tail`, `count`, `closed`, mutex, `recv_cv` | make, send, recv, close, select | generated code (`ch <- v`, `<-ch`, `close`, `select`, `for v in ch`), contexts | `Chan`, a refinement of `Channel` |
| Futures, spawn (`conc_rt.c`) | `value`, `ready`, mutex, cv per future; one detached thread per call | `Skink_spawn`, future make, set, get | generated thunks of `spawn`, `async`, `await` | `Future` |
| Reference counts (`rc_rt.c`) | a count and a magic number before each block | alloc, retain, release | generated code | `Emit` |
| Rulesets (`rules_rt.c` and `emitRulesetDecl`) | a global pointer; `running`, `rules`, `count`, `capacity`, mutex; loop threads | start, stop, restart, reset, registerRule; the loop | programs; `RuleSource` callbacks of `std/rules` | `Rules` |
| Contexts (`std/context.skink`) | `done` flag, `doneCh`, parent pointer, deadline | `WithCancel`, `WithValue`, `WithDeadline`, `Cancel`, `Done`; threads `propagate`, `timeout_worker` | programs; built on `spawn`, `select`, `close` | `Context`, composed with `Chan` |
| Once, WaitGroup (`std/sync`, `std/waitgroup`) | mutex, `done`; mutex, cv, `count` | `Do`; `Add`, `Done`, `Wait` | programs; built on pthread wrappers of `sync_rt.c` | `Sync` |

They interact through generated code: a context is three library calls over `Skink_spawn`
and `Skink_chan_select`; a ruleset's `start` spawns a loop; `defer`, blocks and returns
decide when `Skink_rc_release` is called. What is hard: every order of the critical
sections of several threads, what another thread does between two of them (select releases
the mutex between its test and its receive; `Cancel` tests, sets and closes in three steps;
the ruleset pointer is tested and set without a lock), spurious and missed wakeups, threads
that could not be created, polling that gives up, and things that must happen in the end.

### The rest of the library

Hash map, buffers, formatting, JSON, YAML, XML, CSV, regex, time, files, sockets, the web
framework (`server`, `router`, `static`, `tmpl`), MCP, SQLite, MQTT, tensors, models,
cryptography, hardware. Sequential, most of it without state between calls; `PROJECT.json`
lists each with the reason it is not modelled.

Smaller hazards seen on the way, outside of what the models reach: the smallest int prints as
"-" (`buf.skink:51`); `make(chan T)` takes 4 bytes for a struct (`codegen.go:6591`); the router
writes parameters of patterns that then fail (`router.skink:78`); a copied `Result` keeps a
finalized statement (`db.skink:56`); a waiter of a reused WaitGroup may wait for the next zero
(`waitgroup.skink:63`); `break`, `continue` and `f()?` skip releases (`codegen.go:5525`, `:3961`).

The list `hazards` of `PROJECT.json` is the reason for the properties: each names a line and
what can go wrong there, with the property that would notice or the reason there is none.

## 2. The models

A definition whose name starts with `Mut` is a broken version of the definition after it,
with the kind of mistake a change to the code could make; no specification uses it. It shows
that a property can fail.

### `Channel` and `Chan`: channels and select

`Channel` is what a channel promises: an unbounded FIFO queue per channel that any
thread can put to, get from and close; a get from an empty closed channel returns null.

`Chan` is `conc_rt.c`. Every access to a channel is made under its mutex, so one critical
section is one action and what a thread does between two of them is interleaved.

| Code | Model |
|---|---|
| the linked list, `count`, `closed` | `cells` (the nodes by address, each with its `next`), `head`, `tail`, `count`, `closed`; `nodes` is what one reads going from `head` along `next` |
| `Skink_chan_send` 35-55 | `SendBody` = `SendOpen` (`Enqueue`: link behind `tail`, count; signal one receiver) or `SendClosed` (the value is dropped) |
| `Skink_chan_recv` 57-76 | `RecvBody` = `RecvWait`, `RecvNull`, `Dequeue` (move `head`, reset `tail` after the last node, free, count); `Resume` tests the `while` again |
| `pthread_cond_signal`, `_broadcast`, spurious wakeups | `Signalled`, `Wake`, `Spurious`: "parked" threads become "woken" |
| `Skink_chan_select` 88-126 | `SelectStart`, one `PollReady` or `PollNextCase` per case, `PollNextRound`, `GiveUp`, then `ChosenSend` or `ChosenRecv` in a critical section of its own |
| `emitSelectStmt`, `emitInfixExpr`, `emitPrefixExpr`, `make`, `close` | which calls a thread makes: `Call` |

The capacity given to `make` is stored and never read, and nobody waits on `send_cv`; neither is a
variable. A freed address is not given again. `sent` and `taken` are history. `Chan` implements
`Channel` with `queue <- nodes, got <- out`: parking, waking and polling are stutters.

### `Future`: spawn, async, await

Each call made with `spawn` or `async` is a thread `k`. `task[k]` follows it through
`Skink_spawn` (created, or "lost" when `pthread_create` fails: the return value is ignored),
the trampoline and the generated thunk (running, returned) to `Skink_future_set` (over).
`Launch` is `SpawnStmt` or `AsyncExpr`; `Await` and `Resume` are `Skink_future_get` and its
wait loop. A thread can await the futures it holds, those of its own async calls and those passed
as arguments when it was launched (`holds`), and those that a thread has stored where others read
them: the code gives `async f()` the type of f's result (`codegen.go:979`), so a future fits in a
channel, a global or a field. `Share` stores one, and `shared` has them all. `Returns` says what the
thunk of each call may return: results for `async`, null for `spawn`.

### `Context`: std/context

`Context` extends `Chan`: the `done` channel of a context is a channel of `Chan`, and the
threads `propagate` and `timeout_worker` are in its select, so the interleavings of polling
and closing are those of the runtime. `CancelTest`, `CancelFlag` and `CancelClose` are the three
unlocked steps of `Cancel` (46-52). `PropagateSelect` and `PropagateCase` are `propagate` (91-98),
`TimerSelect`, `TimerCase`, `TimerCheck` one round of `timeout_worker` (157-173). `now` is a
clock and `Tick` advances it. A value context shares the channel of its parent (104).

### `Rules`: rulesets

`Test`, `Create`, `Load` are the unlocked test-and-set of the global pointer that
`emitRulesetDecl` and `emitRulesetRegisterRule` generate; `AddStatic`, `StartSet`, `Spawn`,
`Stop`, `Reset`, `Register` are the rest of the methods, each `Skink_ruleset_*` call under the
mutex `mu`. What the loops can look into while it is held are steps of their own: `AddRule` locks
and tests the capacity, `Grow` is `realloc` (the block is copied, and freed unless it could grow
where it is), `Swap` assigns its result to `rs->rules`, `StoreSelf` and `StoreRest` store the
fields of the entry, `CountUp` raises `count`, starts the source and unlocks. `Check`, `Pass`,
`Fetch` and `Eval` are the loop, the last three without the mutex: `i < count`, the load of
`rs->rules`, the read of the entry. `block[s]` numbers the blocks, so that one which was freed is
told from the one that replaced it; entries that were never stored are `Garbage`. The stores of
a thread are seen in its program order. `reset` sets `count` to zero, leaves the entries, and stops
no source. `live` records which sources had `start` as their last callback, `left` those among
them that a reset forgot.

### `Sync`: Once and WaitGroup

One Once and one WaitGroup shared by the program's threads. `Do`, `Lock`, `Test`, `FReturns`
and `Leave` are `Once.Do` with f running while the mutex is held; f may use the WaitGroup.
`Add`, `Done`, `Wait` hold their mutex from end to end and are one action each, `Resume` one
more turn of the loop of `Wait`. `Add` takes any int, as the code does; `lowered` records that an
`Add` has left the count at zero or below since it was last positive.

### `Emit`: function bodies

The first half is the emitter of `codegen.go`: the next statement is chosen when the emitter
reaches it, so all bodies up to a length are emitted. `open` is the Go call stack of
`emitXStmt` calls; opening a block writes what the emitter writes before it, closing it what
comes after. `out`, `terminated`, `scopes`, `deferred`, `loops`, `labels` and `regs` are the
fields of `Codegen`. The second half runs the emitted code under the reference counts of
`rc_rt.c`, taking every outcome of a branch.

| Code | Model |
|---|---|
| `emitVarStmt`, `emitIdentAssignment` | `VarNew`, `VarCopy`, `AssignNew`, `AssignCopy` (release the old value, then retain the new one) |
| `emitReturnStmt`, `emitAllDeallocations`, `emitDeferred` | `ReturnVoid`, `ReturnVar`, `ReturnNew` (the result of a concatenation), `ReturnMany` (several values), `Exit` |
| `popScope`, `emitDeallocationsForScope` | `PopReleases`, `Owned` |
| `emitIfStmt` | `IfStmt`, then `CloseIf`, or `OpenElse` and `CloseElse` |
| `emitWhileStmt`, `emitForStmt`, `emitForInRange` | `WhileStmt`, `ForStmt`; `CloseWhile`, `CloseFor`, `CloseRange` |
| `emitBreakStmt`, `emitContinueStmt`, panic, `f()?`, `defer` | `BreakStmt`, `ContinueStmt`, `PanicCall`, `TryVar`, `DeferStmt` |
| `emitFnDecl` | `Init`, `CloseFn` |
| `Skink_rc_alloc`, `_retain`, `_release` | `RunNew`, `RunRetain`, `RunRelease` |

Every variable is a string on the heap, the type whose releases the emitter manages in the
simplest way; a release of a scope is one instruction because the code iterates over a Go
map. Escape analysis reads the whole body before a line of it is emitted, so the names that
escape are chosen at the start and a return may name only those. The first statement of `for` is one
before the loop, and its last one is left out, like every expression: they are straight-line text.

### `Lex`, `Grammar`, `Expressions`, `Parse`: from a text to a tree

`Lex` is `NextToken`: for a sequence of characters and a position, the token that begins there.
The alphabet has the characters that the cases of the code tell apart.

`Grammar` is the parser as data: each parse function is the sequence of what it tests, takes,
reports and calls, in the order of its code. `Parse` runs it.

| Code | Model |
|---|---|
| the Go call stack | `todo`: the items left of every function that has not returned, innermost first |
| `curTok`, `peekTok`, `peek2Tok` | `window`: the tokens the code has looked at; `ReadToken` adds one when a test needs it |
| `nextToken` without a test, `expectPeek`-like tests, optional tokens | `Eat` and `Blind`, `Need` and `Expect`, `Opt` |
| `if` and `switch` on the window | `Pick` of the cases, each a `When`, and an `Else`: the first one whose test the window passes |
| the loops of lists and blocks, `break` | `Until`, `While`, `Break` |
| `return nil` that a caller passes on | `Reject`, `Must`, `ReturnedNil` |
| `parseExpressionFromLeft` and `precedences` | `Infix`, `Prec`, `InfixFn`, `AfterOperators` |
| the nodes of expressions | `Node`, in postfix order, in `tree` |

The text is not chosen in advance: it goes on with any token of its menu when the parser looks
for one, so texts are explored together as far as the parser cannot tell them apart. `nest`
and `unchecked` are history: the brackets open in what was consumed, and whether the code took
a token without looking at it. `Expressions` is the reference and not a model of code: the
grammar of expressions in layers, one for each precedence, and all trees it gives a text.
`ParseTrees` compares the tree that was built with it; it is a module of its own because the
reference is recursive, and `Parse` is a module that is proved about.

### `Names`, `Slots`, `Program`: what the passes share

`Names` is `mono_utils.go`: `MangleName`, `demangleName`, `typeMangleKey`, `typeFromMangleKey`,
`SubstituteType`. A name is its module and the parts between its underscores, which is all that
the code can tell about it, so `Box_Point` and a function that is called so are one name.

`Slots` says where the passes look. A slot is a child of a kind of node (`If.Then`); a place in
a declaration is a path of slots; a walk is the set of the slots it goes into, read off its
`switch` over the kinds of node. `Collected`, `Specialized` and `Replaced` are the walks of
`Monomorphize`, `Found`, `Copied` and `Renamed` those of `TemplateMonomorphize`, `Scanned` the
scans of `build.go`, of bodies, parameters, results and fields.

`Program` has the records that are handed on. A declaration has its name, type parameters,
signature, visibility and uses; a use has its path, kind, name, type arguments, and the types
that `infer` finds for its arguments (`given`). `want`, `as` and `from` are history: what the
source means in full, what it says, and which declaration a copy was made of. `stage` is the
place in the pipeline; `pass` is 1 while `main.go` runs `Monomorphize` and 2 when `Build` does.

### `Imports`, `Mono`, `Templates`, `Build`, `Fetch`

| Code | Model |
|---|---|
| `Resolve`: the queue, `parsedFiles`, `importGraph` | `queue`, the domain of `graph`, `graph`; `SkipRead`, `ReadFile`, `ReadFails`, `AllRead`; for each import of the file that was read, `FollowImport` or `IgnoreImport` |
| `resolveImportPath`, `tryPath` | `Places`: the files tried in order, three in each directory of `SearchPath`, the file's own, then `vendor`, `.skink/cache`, `std` and the directory itself on every level up to the root, then `SKINK_HOME` |
| `findCycle`: `path`, `state`, the calls of `dfs` | `trail`, the nodes visited, each with the neighbour it is at; `over`, those done; `StartSearch` (any node that is left: the order is that of a map), `VisitNeighbour`, `CycleFound`, `LeaveNode`, `Acyclic` |
| qualification and merging | `MergedAt`, `Prefixed`, `ContextAt`, `MergedDecls`, `Merge`; `InfoOf` the last file that declares the name (`WithName`, `LastWith`); declarations of C headers come last |
| `monomorphizer.run` | `Monomorphize`, then `CollectInstantiations` and `GenerateSpecializations` (as long as types are nested `WithinDepth`) until nothing is added, then `SubstituteInstantiations` |
| `specializeStruct`, `specializeFn`, `substituteExpr` | `Specialize`, `SubstituteUse`, `SubstituteMangledName` |
| `replaceType`, `replaceInExpr`, `qualifyMangledName` | `ReplaceType`, `ReplaceUse`, `ReplaceCall`, `QualifyMangledName`; a call that names its module is qualified once more, which the type checker reads as once |
| `tmplMono.run`, `infer`, which ranges over a map | `FindCalls` and `CopyFns` until nothing is added; `Mappings`: every answer `infer` can give; `MangleTemplate`, over the names in `TemplateNames`, which lists them in order |
| `replaceCalls`, `removeOriginals` | `RenameCalls` |
| `Build` and its deferred removals | `Build`, `EmitProgram`, `Optimize`, `Assemble`, `Link`, each with its failures; `Returns` runs `cleanup` |
| `detectNeededRuntimeFiles` | `Needed`, against what the code refers to (`Refers`) |
| `ParseManifestContent`, `FetchAll`, `DownloadAndUnpack` | `Requires`, `FetchAll`; `DownloadFails`, `UnpackFails`, `Unpack`; `Fill` removes a package with those below its directory |

A walk over the merged program takes a declaration to be in the module of its own qualifier, or
of the last `module` declaration before it; `ctx` keeps the latter.

### `Skink`: the command

`Skink` composes the five and is `main.go`. `Command` chooses what to do, `UpdateInfo` is the
inheritance of module and visibility by the copies of generics (186-215), `CheckProgram` the
type checker: `ResolveWithKey`, `ResolveName`, `CallAccepted` and `InitAccepted` look up the
names of calls and of struct values as `checker.go` does, and any program may be refused for
another reason. `SkipTest`, `StartTest`, `RunTest`, `TestFails` and `LeaveTest` are `runTests`,
which builds every test in a directory of its own that is `SKINK_HOME` meanwhile.

## 3. The runs

Each run is a module, a configuration and the list of its properties in `PROJECT.json`.
All the states within the bounds are explored; symmetry is not used, because most runs check
liveness.

| Run | Question | Properties |
|---|---|---|
| `parse` | texts that go on freely from 36 menus of tokens and all short texts of characters | `AcceptedNests`, `TreeMatches`; `Terminates` |
| `compile` | the command on some 1,100 small inputs | `UsesResolve`, `VisibilityKept`, `ImportsResolved`, `TemplateCallsResolve`, `NothingLeft`, `FetchedAsRequired`; `Ends` |
| `emit` | every body of at most four statements from eight mixes, every path | `FlagTruthful`, `WellFormed`, `NoUseAfterFree`, `ReferencesBalance` |
| `emit_defer` (violation) | do the deferred calls match the executed defers? | `DeferredRun` |
| `chan_queue` | one channel, three threads, sends, receives, closes and a select | `TypeOK`, `Fifo`, `NoLostWakeup`; `ValueReachesWaiter`, `CloseReleases` |
| `chan_select` | two channels, selects that mix receives and sends | `NothingAcceptedAfterClose`, `Implements`, `SelectSeesClosed` |
| `future` | main and three nested calls, futures passed and stored | `TypeOK`, `AwaitReturnsResult`, `NoSleeperOnReady`, `NoAwaitCycle`; `AwaitReturns` |
| `context` | a root and a context below it, two cancellers, workers, a clock | `ClosedHasCause`; `WatchedParentCloses`, `CancelClosesOwn`, `DeadlineCloses`, `WorkersEnd` |
| `context_lost` (violation) | does a cancelled ancestor close the channel? | `AncestorCancelReaches` |
| `rules` | two threads and up to two loops that read without the mutex | `ReadsWritten`, `SourcesFollow`; `StoppedForGood`, `RunningEvaluates` |
| `rules_stop` (violation) | does stop end the loop? | `StopEndsLoop` |
| `sync` | three threads | `TypeOK`, `OnceExactly`, `NoStrandedWaiter`; `WaitersReturn` |

### Bounds, and why they are enough

- `parse`: a text is a prefix, which brings the parser to the functions a menu is about, and up to
  eight tokens of the menu after it. That is enough to enter each loop of the parser, go round it
  and leave it by each exit, with an error at any token. Texts of characters have up to three free
  ones: enough for each pair of an operator and for a literal, an escape and a comment that are
  not closed. The expressions have three operators between operands: two decide how a pair groups,
  the third whether that lasts.
- `compile`: a family of inputs for each pass, and all passes run on all of them. One use at
  each slot of the syntax, of a generic and in one; one module that has generics, one that uses
  them and main; all import graphs of three files; all pairs of eleven places for a module;
  every failure of a file, of a header, of a tool, of a test, and of a download. `MaxRounds` 4
  and `MaxTurns` 3 are one more than the inputs need that end. `MaxDepth` 8 bounds the nesting of
  types, the domain of the functions on them; `MaxRounds` keeps every type below it.
- `MaxPolls` (10000 in C) is 1 or 2: the rounds of polling differ only in their number, and
  two are needed to see one fail and the next succeed, or the last fail and the select give up.
- `MaxSends` is 1 or 2 accepted values per channel: two values with different names are what
  it takes to swap, duplicate or lose one; no call that may send starts beyond it.
- Three threads on one channel: a sender, a sleeper, and a thief that takes the value between
  the signal and the wakeup. Two threads on two channels suffice for select, whose race is
  between one select and one other thread.
- Three calls and `Main` in `future`: a chain of awaits, two awaiters of one future, a future
  passed on to a third call, and one stored by a thread and taken by another, which can close a
  cycle of two. `Returns` gives each future a value of its own, so that one taken for the other
  is seen, and null to the call made with `spawn`, whose thunk drops the result.
- `context`: a root that can be cancelled or not and one context below it of every kind, with
  its workers, is the smallest tree in which a parent, a flag, a deadline and a select that
  gives up meet; trees of three with liveness have too many states. `ClosedHasCause` is proved
  for trees of any size (section 4). `context_lost` needs three contexts, of one kind.
  `MaxTime` 1: before and at the deadline. Each context keeps one kind for good.
- `rules`: capacity 1 (8 in C), so that the second registration grows the array; `MaxRules` 1:
  no source is registered once a ruleset has a rule, but `start` registers the declared rule after
  it, and both may be on their way at once; `MaxStarts` 2 gives two loops;
  `Calls` divides the methods between the threads (one starts and restarts, the other
  registers, stops and resets). `Sets` is one ruleset per thread that can find the pointer null.
- `sync`: `Add` of -1, 1 or 2, a count from -1 (`MaxDebt`) to 3, three threads.
- `emit`: `MaxStmts` 4 (3 for `emit_defer`) statements of one of the `Menus`, which group the
  statements that can disturb one another: returns under nesting, results, reference counts, jumps out
  of three kinds of loop, deferred calls with early exits. One parameter and one local name,
  which shadow each other; `MaxObjs` 3, `MaxCount` 4 and `MaxSched` 1 cut only runs that go
  round a loop again.

Deadlock is checked where a stop would be a flaw (`Chan`, `Rules`, `Sync`). It is not checked in
`Future` and `Context`, where everybody may be done, nor in `Emit`, `Parse` and `Skink`, where
the function, the parser or the command returns.

### Fairness, and why the code justifies it

- Threads: every thread in the runtime is weakly fair; the operating system schedules it, and
  the mutexes are held for a bounded time. A thread that is asleep is not helped by fairness:
  it needs a wakeup.
- Program code: `Once`'s f and the functions run by `spawn` return unless they await
  something that never comes. No program thread is obliged to send, close, cancel or call.
- `Lock` in `Sync` is weakly fair only: a pthread mutex does not promise that a particular
  thread gets it. No property says that every call of `Do` returns.
- Time passes (`Tick`) until `MaxTime`.
- Ruleset methods return, loops are scheduled. A loop takes the mutex to test `running`, and weak
  fairness does not give it one that calls of other threads take over and over: that the mutex is
  left free in the end is a premise of `StoppedForGood` and `RunningEvaluates`.
- The parser and the command are one sequential thread: `WF_vars(Next)`, some step is taken
  while one can be. Which outcome a tool or a server gives is not fair: `Ends` holds for all.

### What the properties exempt, and why

Where the code does less than a reader may expect, the property states the part it does, and
section 5 lists the rest.

- `AcceptedNests` leaves out texts in which the parser took a token without looking at it, or
  let a closing bracket be missing.
- `UsesResolve` is about the uses that are `Supported`: at a place that the three walks of
  `Monomorphize` go into, written the way they understand. `VisibilityKept` is about generics
  without an underscore in their names, and leaves out a copy whose name the source declares
  itself: it keeps the entry of that declaration. `TemplateCallsResolve` is about calls where both walks
  look, whose types can be inferred; a copy is promised for a callee named in full.
- `Ends` excepts a generic that uses itself at a larger type.
- `NothingLeft` lets a build keep the directory of its runtime objects, as the code does on purpose,
  and with `-c` does not ask for the object file that the command reports, since nothing is left.
- `ReadsWritten` is about loops whose block has not been freed under them, which `add_rule`
  may do, and lets the two fields of an entry come from two registrations, since after a reset
  the entries are stored again while a loop may read them.
- `SourcesFollow` lets a reset leave sources started, which it does, but no others. `StoppedForGood`
  says nothing of a ruleset that another thread's first call replaced: nobody can stop that one.
- `NoAwaitCycle` lets a cycle go through a stored future: nothing stops a program from making one.
- `NoStrandedWaiter` and `WaitersReturn` except an `Add` of a negative number that brings the count
  to zero or below: it wakes nobody.
- `FetchedAsRequired` excepts a package that lies in the directory of another one that is named.
- `NoUseAfterFree` excepts deferred calls, emitted after the releases and on paths that skipped the
  defer, and `x = x`, released before it is retained; `WellFormed` the releases of range loops, which
  follow the back edge.
- `ReferencesBalance` has three parts, each for the bodies it holds of. No argument loses the caller's
  reference, unless the body assigns to the parameter. Every result of a return has a reference of
  its own, a parameter among several values excepted. And nothing allocated is left in bodies that
  return no value, let no variable escape, assign to no parameter and have no `break`, `continue`,
  `f()?`, range loop or `panic`, which leave without the releases of their scopes. Bodies that return
  a value may leave a reference to it too many (section 5).
- `AwaitReturns` assumes that no thread creation failed and that no calls await one another in a cycle.

## 4. The proofs

| Module | Theorem | States |
|---|---|---|
| `ConcProofs` | `TypeCorrect`, `FifoCorrect`, `WakeupCorrect` | `Spec => []TypeOK`, `[]Fifo`, `[]NoLostWakeup` |
| | `CloseIsFinal` | `Spec => NothingAcceptedAfterClose` |
| | `Implementation` | `Spec => Implements`: the runtime implements `Channel` |
| | `TreeUsesRuntime` | `CtxSpec => Spec`: a tree of contexts is a program on the channel runtime |
| | `ContextCorrect` | `CtxSpec => []ClosedHasCause` |
| `RulesProofs` | `EvaluationSafe`, `SourcesCorrect` | `Spec => []ReadsWritten`, `[]SourcesFollow` |
| `FutureProofs` | `TypeCorrect`, `AwaitCorrect`, `SleeperCorrect`, `NoDeadlock` | `[]TypeOK`, `[]AwaitReturnsResult`, `[]NoSleeperOnReady`, `[]NoAwaitCycle` |
| `SyncProofs` | `TypeCorrect`, `OnceCorrect`, `WaitGroupCorrect` | `[]TypeOK`, `[]OnceExactly`, `[]NoStrandedWaiter` |
| `EmitProofs` | `FlagCorrect`, `CodeWellFormed` | `Spec => []FlagTruthful`, `[]WellFormed`: of every body, what is written is accepted by LLVM |
| | `MemorySafe`, `ReferencesSettled` | `Spec => []NoUseAfterFree`, `[]ReferencesBalance`: on every path of every body |
| `SkinkProofs` | `NothingStays`, `FetchCorrect` | `Spec => []NothingLeft`, `[]FetchedAsRequired`: after any command, test, build and fetch, whatever fails |
| | `ResolveCorrect` | `Spec => []ImportsResolved`: of any files, in any places, with any imports |
| | `VisibilityCorrect` | `Spec => []VisibilityKept`: of any declarations, whatever they are instantiated with |
| `ParseProofs` | `NestsCorrect` | `Spec => []AcceptedNests`: of any text, as long and as deeply nested as it may be |
| | `NextTokenAdvances` | `NextToken` of a text of any length skips blanks only, takes at least one character and none past the end, and answers `eof` exactly at the end |

The theorems about specifications hold for any sets of threads, channels, contexts, sources,
values, calls, variables and inputs, and any bounds, under the named assumptions of the
modules, which TLC evaluates on every run: `ChanAssumption` (finitely many threads and a
nonempty list of cases per select), `ContextAssumption` (the threads of a tree are its users
and workers, their selects are those of `propagate` and `timeout_worker`), `RulesAssumption`
(finitely many threads; the names of sources, static rules and labels differ),
`FutureAssumption`, `SyncAssumption` (`Add` takes integers), `EmitAssumption`,
`InputAssumption` (paths are sequences of names), `DeclAssumption` (a declaration of the source
has the fields of one and is no copy; its name and its type parameters are sequences of
strings), `NamesAssumption` (`TemplateNames` is a sequence of names) and `CacheAssumption` (the
cache has a place for each package). `DepthAssumption`,
`RoundsAssumption` and `TurnsAssumption` say that bounds are numbers, `MainAssumption` that a
literal is a string.

The inductive invariants, and what each conjunct is for:

- `Chan`: `TypeOK /\ PlaceOK /\ ListOK /\ CountMatches /\ Fifo /\ NoLostWakeup`. `PlaceOK` says that
  a thread which waits in recv waits on a channel, and `CountMatches` that `count` is the length of
  the list. `ListOK` is what the surgery on the pointers keeps: a channel that accepted n values and
  gave out m has its nodes at the addresses m+1 to n, each with the next one, `head` is the first
  and `tail` the last, and both are null when m is n. A lemma shows that such nodes are one way from
  `head` and no other, so that `nodes` is what it should be, and two more that `Enqueue` and
  `Dequeue` append to it and take from it. `NoLostWakeup` counts: while somebody sleeps there are at
  least as many woken threads as values. A send adds one of each, a receive that overtakes a woken
  thread takes a value and no thread, and a thread woken for nothing is one more than needed. The
  step of the proof is a comparison of cardinalities, hence the finite set of threads.
- `Context`: the invariant of `Chan`, which holds because a step of the tree is a step of the
  runtime, and `CtxTypeOK /\ OnlyCloses /\ TreeOK /\ WorkOK /\ Flagged /\ ClosedHasCause`.
  `OnlyCloses`: nothing is ever sent, so a select leaves only by a closed channel. `TreeOK`: a
  context that is made has the channel of a context of its lineage. `WorkOK`: a `propagate`
  that left its select by the first case knows that its parent's channel is closed, also after
  other threads have run. `Flagged`: the thread in the middle of `Cancel` has set the flag. A
  lineage is closed under the parent relation without recursion, so the lemmas about it
  (reflexive, transitive, growing by new leaves only) are first-order.
- `Rules`: types, `PointerOK`, `PlaceOK`, `AdderAt`, `Good` and `LoopOK`. `PointerOK` bounds the
  rulesets by the threads: each that is about to create one has seen the pointer null, and no thread
  sees that again. `AdderAt` follows a registration through `add_rule`: it owns the mutex, so nobody
  else moves `count` or the entries, there is room for its entry once the array has grown, and what it
  has stored is there. `Good` says of each ruleset that the registered entries lie in the array and
  are written, and it has `SourcesFollow`. `LoopOK` is what the unlocked loop relies on: the entry it
  is about to read is inside the newest block and written. `reset` lowers `count` under a loop that
  has passed its test, but no step makes the array shorter or an entry unwritten.
- `Future`: `TypeOK /\ Settled /\ Held /\ Acyclic /\ NoSleeperOnReady`. `Settled` ties the
  fields of a future and what awaits returned to the stage of its call; `Held` says that only
  launched calls are held or shared, and held only by launched calls, and that a thread awaits one it
  holds or one that is shared.
  `Acyclic` is the strengthening of `NoAwaitCycle`, which is not inductive: the graph of the
  futures held, awaited or not, has no cycle, because a call starts with futures its launcher
  already held and afterwards only gains those of the calls it launches itself.
- `Sync`: `TypeOK /\ Owner /\ Stands /\ NoStrandedWaiter`, where `TypeOK` also says when `lowered`
  holds. `Owner`: a thread inside `Do`, past its lock, owns the mutex. `Stands`: what `done` and
  `begun` are for each place of the owner.
- `Emit`: two invariants, for bodies of any length, nesting and mix of statements. `IInv` is about
  the code. `EmitRules` defines three judgements of a listing. `Shape`: each block ends in its one
  terminator. `Land`: each label placed is placed once, and the branches name labels of a set `T`.
  `Own`: a register set for each instruction, the registers that hold a reference whenever a path
  reaches it, which agrees with what the instructions do, as types agree with a program: a new
  object goes to a register that holds none, a release names registers that hold one, a store
  follows a retain of its value (and takes over that reference) or a release of its old value (and
  takes over that of the register it is stored from), a branch goes where no more is expected than
  is held, and a return is entered with the parameters. A lemma for each piece of code that an
  emitter writes says how the judgements go on; `EmitProofs` combines them, one lemma per action.
  What the properties say of the output is not inductive alone, because a loop branches to labels
  that it has yet to place: `IInv` also says of each construct on `open` which labels it will place
  (`Owed`, `Due`), that the branches written go to those or to labels placed (`Routed`), and that
  each of these labels is entered with the registers of the scopes around the construct
  (`Promised`), so that a `break` from inner scopes only forgets references. Two flags weaken the
  judgements to what the code does: in a body with a range loop, releases may stand after a
  terminator, and in one with an escaping variable or a statement of `Leaky`, a path may forget
  references it holds. `RInv` is about the run: the registers that `Own` gives the next instruction
  each hold an object, and no object has fewer references than such registers hold it, and exactly
  as many when the body has none of those statements (`Accounts`). Between the retain and the store
  of an assignment the register that is stored counts already, with the object it is about to hold
  (`Via`). From these follow `NoUseAfterFree` and the three parts of `ReferencesBalance`: the
  register of a result holds a reference like any other, beside those of the parameters.

- `Skink`: three invariants, for any inputs. In `IInv`, `Stages` says which run of the passes it is
  and which command gets where; `HomeKept` that while the passes go over a test, `oldHome` is the
  home to go back to and its directory the only one there is, and that outside of tests there is
  none; `FilesKept` what is on disk at each stage of Build and that the removals it has deferred
  cover it; `CacheKept` that each line of `skink.mod` that was taken is settled, by itself or by a
  later line for the same package, since a fetch fills one directory and those below it. The
  passes over the program in memory change nothing of that but the stage, which is one lemma each.
  `RInv` is about the resolver. `ClosureKept`: the files that were read and queued are closed
  under imports, and every such set that has the files of the command line has all of them, which
  is reachability without induction. `PlacesKept`: each import that was looked for comes from its
  first place. `OverKept`: the nodes that the search is done with import only one another, and each
  set of them has one that imports none of the set. That is what acyclic means, again without
  induction: a node that the search leaves imports done nodes only, so it is not on a cycle and
  breaks none of the sets. `TrailKept`: the nodes being visited differ, each imports the next, and
  the neighbours passed are done or the next; hence what `CycleFound` answers is a cycle.
  `VInv` is about the entries of `symbolInfo`, which `main.go` writes before it monomorphizes and
  completes afterwards, for the copies, by the part of their names before the underscore.
  `DeclsKept` says what it then finds: the entries are those of the names that were given, every
  generic is one that was given, and a copy has a name that begins with that of its generic. The
  last holds because what `MangleName` adds is a sequence of parts, for types nested to any depth
  (`KeyType`). That is an induction over the depth, whose hypothesis is here a set of numbers, so
  that no theorem with an operator as parameter is needed; that the recursive functions `TypesTo`,
  `TypeMangleKey` and `FlattenSeq` satisfy their equations follows from functions on the types up to
  each depth, which agree where both are defined.
- `Parse`: `TInv`, while neither an error was recorded nor a token was taken unseen, what is on the
  call stack will close the brackets that are open, and no others, given what the code knows of the
  tokens in its window. `AcceptedNests` is the case of an empty stack. The knowledge is
  needed because the code relies on it: `parseFnDecl` takes the token `fn` without looking, since its
  caller has, so its code has that type only where the current token is `fn`. `Run(c, k, o, l, p)` is
  the type of the code `c` (tokens known and brackets open, before it and after it). It is defined as
  membership in some set of such judgements that is closed, of which each code begins with an item that
  leads to another judgement of the set, or to an error, after which nothing is asked. The largest
  such relation needs no induction over the text, the stack or the grammar: a loop is in the
  relation together with the code after one round of it. The proof has a lemma for each action, which
  keeps `TInv` if every parse function, operand and operator has its type, and one lemma for each of
  these (49 functions, of which `Start` says what tokens their callers have seen), put together by
  rules for items, sequences, tests, loops and pairs of brackets. A function that would return
  with a bracket open, or skip a closing one, has no type: that is where a change of the grammar
  that breaks the property shows. `TInv` ranges over infinite sets, so TLC does not evaluate it.

`NextTokenAdvances` is about an algorithm, not a specification. The ends of tokens are defined with
CHOOSE, so the work is to show that there is something to choose: a nonempty set of positions has
a least and a greatest element. The library has that only as an induction over an operator; it
follows here from the fact that strict inclusion of finite sets is well-founded (`Least`).
The theorem is what the loops of the lexer and the parser that read "until eof" rely on to end.

Only model-checked: liveness, since fairness and ENABLED are out of the prover's reach; `TreeMatches`
of `Parse`, since its reference, the layered grammar, is recursive; and `UsesResolve` and
`TemplateCallsResolve` of `Skink`, which say that the walks of several passes meet in the same names.
They need more of the recursive functions than the type of their results: that reading a mangled name
back gives the types it was made of. The code does not do that for every name (section 5); where it
does, no theorem says so yet.

## 5. Where the code and its documents differ

Three violation runs, each against a sentence of the repository (quoted in `findings`):

- `context_lost`: `propagate` selects once, and select gives up after 10000 rounds; a parent
  cancelled later does not close the channel of its child (`context.skink:92`).
- `rules_stop`: `restart` may clear and set `running` between two tests of the old loop, which
  then goes on beside the new one (`codegen.go:1931`).
- `emit_defer`: a deferred call in a branch not taken is made all the same, and one in a loop
  is made once (`codegen.go:3977`).

What else was seen while modelling. The runtime and the library:

- Select tests a receive case under the mutex, releases it and calls the blocking receive. If
  another receiver took the value, it waits on that one channel although another case is ready
  (`conc_rt.c:121`).
- A send that select chose is dropped if the channel is closed before it is made, and select
  still returns that case (`conc_rt.c:97`, `:117`).
- "Background returns a non-nil, never-cancelled root context" (`context.skink:66`), yet a
  value context shares the channel of its parent (`:104`): cancelling one made from a
  background context closes the channel of the background context.
- `Add` of a negative number that brings the count to zero wakes nobody, and no `Done` does before the count
  was positive again: the waiters sleep on (`waitgroup.skink:42`).
- "A ruleset can also register dynamic rule sources at runtime" (`language_manual.md:353`). If the
  array grows for it, `realloc` may free the block between the loop's load of `rs->rules` and its
  read of an entry, which no mutex guards (`rules_rt.c:36`, `:88`); the read is then of freed memory.
- `reset` of a ruleset, which is to "clear all registered rules" (`language_manual.md:351`), stops the
  loop but no source: those of the rules it clears run on (`rules_rt.c:73`). The entries are stored
  again from the first one on while an older loop may still read them.
- Of two first calls of `start` or `registerRule` each may create a ruleset; the one that is
  overwritten goes on running and can be neither stopped nor reset (`codegen.go:1900`).
- Awaits can form a cycle through a future that was stored, and then none of them returns.
- A deadline closes the channel without setting the flag that the `Done` of a child reads
  (`context.skink:167`).
- The hash of a key reads the name of its type and not the key (`reflect_rt.c:43`): all keys of a
  map collide and lie in one run of slots.

The emitter:

- "The caller retains ownership" of parameters (`codegen.go:406`), yet assigning to a parameter
  releases the caller's reference (`codegen.go:3358`).
- The value of a return is retained "before deallocating locals" (`codegen.go:4636`), but a variable
  that is returned escapes and is not deallocated (`:398`), and a concatenation has its reference
  already, as "a fresh heap allocation that already starts with a refcount of 1" (`:578`): the result
  has two references and the caller drops one.
- The variables of a range loop are to be "properly cleaned up after the loop"
  (`codegen.go:5449`); their releases are emitted after the back edge (`codegen.go:5487`).
- The manual's own example of defer (`language_manual.md:106`) closes a value that the return
  has released.
- `emitRulesetRegisterRuleInline` calls `priority` (`codegen.go:2248`) where the interface and
  every other caller say `Priority`.

The parser:

- `1+2` is one token: a number takes every sign (`lexer.go:399`), and the parser reports it as a
  literal it cannot convert.
- `[x]`, for any identifier x, is an empty array with x as its element type (`parser.go:2914`).
- A block takes its first token for a brace without looking (`parser.go:644`), and one that the
  end of the text cuts off is accepted, as are attributes.
- A name with a capital before `<` is a generic, never a comparison (`parser.go:2590`), and new
  lines separate nothing (`parser.go:77`).

Monomorphization and templates:

- One walk or another leaves places out: else-if branches, var blocks, `until`, `unsafe`, tuple
  assignments, conditions of select cases, left sides of assignments, capacities of `make`,
  slice bounds, queries, element types of array literals, bodies of rules, function literals in
  a generic. A use of a generic there has no copy or keeps its name. `Slots` has the lists.
- Inside of a module: the unqualified use of a generic as a type is not collected; an argument
  that is a type of the module is a different type with and without the module's name.
- A call of a generic from a generic with the parameter as argument, written without a module,
  is copied as it is (`mono_specialize.go:221`).
- The name of an instance of several parameters is read back one part for each, so arguments
  that are instances or qualified themselves are mistaken (`mono_utils.go:102`). `f<Box<int>>()`
  makes a copy of f and none of `Box<int>`.
- A generic that uses itself at a larger type never ends (`monomorphize.go:83`).
- A copy keeps the entry of a declaration of the same name, as `Box_int` beside a generic `Box`: the
  inheritance skips names that have one (`main.go:186`).
- A copy of a generic with an underscore in its name is looked up by the part before it, and
  becomes public and of no module when there is none (`main.go:194`).
- A file without a module declaration is taken to be in the module of the file merged before it.
- `Build` monomorphizes again what `main.go` has: a copy of a template function that lies in a module
  and names a type of main, without a module, is qualified with the module it stands in
  (`mono_substitute.go:390`). In a module with a struct of that name it is about another type.
- A template taken twice by a function and called with two types is bound to one of them by the
  order of a map (`template_monomorph.go:367`).
- A call inside of a module without the module's name makes no copy, but is renamed to one
  (`template_monomorph.go:804`). Calls in the blocks of if and match expressions are not renamed,
  and the original is removed.

The command:

- With a manifest that names a module, every imported file of another module is refused
  (`resolver.go:146`).
- `-c` asks for an object file that a deferred removal deletes before `Build` returns
  (`build.go:91`).
- The scans for runtime files miss what stands in `switch`, `select`, `with`, else-if, conditions
  and methods (`build.go:430`, `:551`): the link fails with an undefined symbol.
- Each build that needs runtime files leaves a `.skink-rt-*` directory, on purpose (`build.go:664`).
- The old version of a package is removed before the new archive is opened
  (`pkgmanager.go:101`): a failure leaves neither. With it go the packages in directories below,
  also one that was fetched a moment ago.

## 6. What is not modelled

- Data: values, the characters of names, formatting; the casts between a result and the `i8*`
  that carries it; lines and columns; the messages of errors.
- In `Lex`, escapes other than that they hide a character; binary and octal literals.
- Of the type checker, scopes of local names, assignability and inference: rules about single
  expressions that read no state another pass leaves. It is an input of `Templates` which types
  `infer` finds for the arguments of a call.
- `cimport`: it has no state; `Imports` takes its result, declarations or an error, as an input.
- In `Skink`, `-version`, `-lex` and the text of the main that is generated for a test; the
  tools `opt`, `llc`, `clang` and the linker succeed or fail, and so do HTTP and zip.
- In `Emit`, switch, select, match and if expressions, closures, composite types, globals;
  objects shared between threads. The expression emitters write straight-line text.
- Program code inside callbacks: the start and stop callbacks of a ruleset are taken to return
  without calling the ruleset, whose mutex is not recursive.
- In `Rules`, what a read of a freed block gives, other orders of the stores of one thread than its
  program's, and the failure of `realloc` and of the spawn of a loop. `stop` and `reset` before any
  start pass null and are left out.
- In `Chan`, the reuse of a freed address: a node is freed under the mutex, after `head` has moved.
- In `Sync`, RWMutex, Cond and atomics, which are one call each.
- The hash map: open addressing in which all keys collide is a list; the load factor tested
  before each insertion keeps a slot free.
- The web server and MCP: one loop that blocks on one peer after another; sockets, databases
  and brokers, whose state is outside of the repository; text formats, tensors, cryptography,
  hardware: sequential code without state between calls.
- `skinkc/` is the start of a compiler in Skink and holds the token table alone.

## 7. The plan

Done: channels, futures, contexts, rulesets, Once and WaitGroup, function bodies; the parser;
the pipeline from the command line to the artifact. What is left, in order:

1. `Emit` with if and match expressions, switch, select and closures (the emitter saves and
   restores its state around a literal; a terminated branch of an expression is closed twice).
2. Theorems about `Mono` and `Templates`: what `made` holds has a copy, under which name each use
   reads it; `KeyType` is the first fact they need about the names of nested types.
3. `Owners`: reference counts shared by threads, a refinement of "freed once, when the last
   owner lets go".
4. Scopes of the type checker, once `Skink` has local names.
