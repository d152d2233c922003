# A TLA+ model of Cwhip

Cwhip is a compiler (C++, LLVM output) for an object-oriented language with
classes, exceptions, deterministic destructors and garbage collection, together
with a C runtime, a library of native modules and a package tool. This directory
models its core in TLA+: the runtime's threads, collector and child processes,
its collections, the callbacks of the GTK binding, the package resolver and the
package tool, and of the compiler the class hierarchy, the lowering of
statements and the expressions. TLC checks all of it on small instances. TLAPS
proves the invariants of the runtime, of its dict and of the GTK binding and the
rollback of the package tool for instances of any size.

Paths below start at the root of the repository, `src/`.

## 1. Inventory

| Component | State | Operations | Interaction | What is hard | What makes it correct | Module |
|---|---|---|---|---|---|---|
| Global lock and thread registry (`src/src/RuntimeGc.c` 304-382) | `cwhip_gil`, thread-local `gil_held`, registered threads with their root-frame chains | enter, exit, release, acquire, frame push and pop | every native that blocks; the collector reads the registry | which thread may touch what, at each line | one thread runs managed code; no `abort()` is reached | `Threads` |
| Thread start and join (`src/src/RuntimeThreads.c` 1-165) | start arguments, `ready` flag, handle | start, trampoline, join | hand-over of the receiver between two root chains | a third thread collects during the hand-over; freed arguments | receiver and arguments outlive their use | `Threads` |
| Collector (`RuntimeGc.c` 1060-1450) | node list, marks, worklist | allocate, mark, finalize, mark again, sweep | calls finalizers, which may do anything | user code in the middle of a collection | frees exactly what is unreachable and destroyed | `Threads`, `Heap` |
| Exceptions, construction, destruction (`RuntimeGc.c` 600-1300, `CodeGeneratorModule.cpp`) | exception frames, `destroy_stack`, `construction_stack`, flags of nodes | push, raise, rethrow, begin/end construction, begin/end destroy | longjmp over activations | one exception leaves several constructions, destructions and handlers | stacks stay exact; a destructor runs at most once | `Heap`, `Lowering` |
| Mutex, Condition (`RuntimeThreads.c` 217-464, `stdlib/synchronization`) | owner, waiters, sequence number | lock, unlock, wait, signal, broadcast, close | global lock released while blocked | a notification between any two steps of wait; close against contention | implements a monitor; no wake-up is lost | `Synchronization`, `Monitor` |
| Semaphore (`RuntimeThreads.c` 167-215) | count | create, wait, signal, close | as above | barging; several signals in a row | counts conserved; no count beside a sleeper | `Semaphore` |
| Asynchronous process (`RuntimeProcessAsync.c`, `stdlib/process`) | event queue, flags, pipes, references, pump thread | start, next, wait, cancel, close, status; the pump | pump, client threads, child, descendants, clock | completion, cancellation, close and consumers racing | COMPLETED once and last; no silent loss; no use after free; everything ends | `AsyncProcess` |
| Lists, dicts, buffers, Strings, decoder (`RuntimeGc.c` 1510-2599, `RuntimeProcessAsync.c` 829-1005) | blocks of cells, an index with open addressing, pending bytes | insert, remove, slice, convert, feed, finish | allocation may collect | growth, index arithmetic, bytes of cut characters | contents are those of the sequence, mapping or text; texts stay UTF-8 | `Utf8`, `Lists`, `Dicts`, `Strings`, `Collections` |
| Callbacks and GTK binding (`RuntimeGc.c` 384-594, `stdlib/gtk/0.1.0/native`) | contexts, transfers, `in_flight`; tokens, blocks and lists of the package; widgets; saves | connect, post, choose, bind, scan, save, cancel, dispose, shut down, run | handlers called from the main loop, which they may enter again | a handler ends what it is called from; late completions | nothing is released in use or called after its end; shutdown ends | `Gtk` |
| Registries (`PackageRegistry.cpp`, `ModuleRegistry.cpp`) | pins, requirements, load order | discover, select, resolve, verify, load | read disk and lock file of the tool | restarts with new pins; cycles; two search paths | a build uses an exact closure, or reports | `Versions`, `Packages` |
| Package tool (`tools/cwhip-pkg.py.in`) | manifest, lock, package directories | init, add, install | shares the disk with the compiler and with editors | failure or kill between two writes | failed commands change nothing; installed projects compile | `PackageTool` |
| Classes (`SemanticAnalyzer.cpp`, `SemanticInheritance.cpp`, `CodeGeneratorLayout.cpp`, `CodeGeneratorModule.cpp`, casts of `RuntimeGc.c`) | class graph, layout, method tables, metadata | declare, analyze, lay out, construct, destroy | four pieces of code compute the same place or name | repeated and virtual bases | all of them agree | `Classes` |
| Statements (`SemanticStatements.cpp`, `CodeGeneratorStatements.cpp`, frames of `RuntimeGc.c`) | scopes, initialization, loop targets, active tries | analyze, emit, execute | emitted code and exception runtime | jumps and exceptions crossing cleanups | code runs as written; accepted bodies read nothing unset | `Lowering` |
| Expressions (`Parser.cpp`, `SemanticExpressions.cpp`, `CodeGenerator.cpp`) | token position, nesting depth | parse, type, fold, emit | two folders and the emitted code | precedence at the nesting limit; edges of integers | one derivation; integer meaning | `Expressions` |
| Synchronous process, SQLite binding, lexer, source loader, driver, system services, other library modules | see section 6 | | | | | not modelled |

`PROJECT.json` has the same list with the status of each part, and the hazards:
the lines where a test would hardly reach what can go wrong, with the properties
that look there. Four hazards of this code have no property: `Semaphore.close`
with waiters (`RuntimeThreads.c:212`) and a handle joined twice
(`RuntimeThreads.c:161`), which the documentation forbids; `now + grace` near
INT64_MAX (`RuntimeProcessAsync.c:708`), since time is abstract; and two threads
that wait for one synchronous child (`RuntimeProcess.c:276`).

## 2. Plan

The modules were written in the order of section 3, the proofs in the order of
section 5. What is left is a module `SyncProcess` for the synchronous child
process, and one for the registries of the SQLite binding.

## 3. Modules

In every module an action carries the name of the function it models, or of the
function and the step (`condition_wait_unlock`). A section of code under one
native mutex is one step; a thread that blocks, releases the global lock or
calls user code ends its step there. Each module ends with its properties; a
property that a run names is often the conjunction of several named ones.
Definitions that a comment calls a mutant are wrong versions of a definition and
are used only to see that a property notices.

### Threads

State: holder of the lock, `gil_held`, the registry, one root chain per thread
(`rootFrame`), the start arguments, the heap as a set of objects with
`destroyed` and `marked`, and the local state of every collection in progress
(`toScan`, `todo`, `worklist`). Actions: the lock functions, `thread_enter` and
`thread_exit`, the steps of `cwhip_thread_start` and of the trampoline, join,
blocking natives, allocation, and the phases of `cwhip_gc_collect`: scan of one
registered thread per step, finalizer loop, destructors (which may block and
let other threads run), second scan, sweep. `added` remembers, for each collection,
the objects that others have allocated since it began. References between objects are left to
`Heap`. `collecting` and `running_destructor` are thread-local in the code and
part of a thread's `pc` here, so that two threads can be in a collection at once.

### Monitor and Synchronization

`Monitor` is what `doc/STDLIB.md` promises: lock, unlock, a wait that releases
the lock and starts to wait in one step, signal, broadcast, spurious wake-ups.
`Synchronization` has the steps of the code: fast path, slow path without the
global lock, the waiter counts, the sequence number of the condition and each
waiter's snapshot of it, close. `ImplementsMonitor` maps a waiter with a current
snapshot, or asleep, to `waiting`, and the owner that is about to unlock inside
wait to nobody. `ClosePolicy` says when a program calls `close()`: only when no
thread uses the object ("quiescent"), or at any time ("any").

### Semaphore

Count, threads asleep and woken, and the abort at the largest count, for which
`MaxCount` stands. `close()` is called on an unused semaphore, as
`doc/STDLIB.md` demands.

### AsyncProcess

The fields of `CwhipAsyncProcess`, the pump's position, the child and a
descendant that keeps the pipes open, the clients' positions inside `next`,
`wait` and `close`, and the wrapper's `_closed` and `_state`. An output event is
the n-th chunk of a stream. Times are abstract: a deadline that was set passes
at some time. The variable `world`, chosen in the initial state and never
changed, holds the circumstances of a behaviour: who uses the object, how much and where
the child writes, whether reads and allocations (of the object, of events, of error
messages) may fail, and whether SIGCHLD is ignored, so that the child leaves no
zombie.

### Heap

One thread, objects with one reference field, a stack of activations: method
calls, try statements, constructions and destructions. The roots are the slots
of these activations; exceptions cut the stack as `longjmp` does and reset the
two runtime stacks to what the exception frame saved. A collection marks,
finalizes dead objects (a finalizer may attach itself or others to live objects,
cut a live object off by clearing the field that refers to it, and destroy what
it refers to; if it allocates or raises, the process ends, as in the code), marks
again and sweeps. A destructor body may allocate, and so collect, while the chain
it belongs to keeps the exception of an earlier body. No root holds this
exception: `lost` has those that were freed under their chain, and a handler that
gets one reads freed memory, with any outcome (`Caught`, `read_freed`).

### Utf8, Lists, Dicts, Strings, Collections

The first four are pure: an operation of the runtime maps a block of memory to
the block after it and a result. Blocks keep what makes the code hard: capacity
beside length, cells that `realloc` left uninitialized, an index of buckets with
collisions, int64 arithmetic that wraps at `IntMax`. `Utf8` has both scanners of
the runtime, the strict one and the replacing one, and the encoding itself,
defined from code points, as the reference for both. `Collections` is the
program: one object, every operation in any order, and for the decoder every way
to cut a child's output into chunks; a call that throws keeps the bytes it threw
for in `lost`. Each operation is compared with its meaning
on a sequence, a mapping or a text. The index of a dict is searched from the hash
of a key, bucket after bucket; `Probe` is what the p-th bucket holds, and a loop
over probes is the least p at which it ends.

### Gtk

Registrations are numbered for good, as the code's tokens are. `reg[id]` is a
record: the flags of its block (listed, closed, cancelled, freed, ...) and its
callback context or transfer with the in-flight count. What the code does to one
registration is an operator from the record before to the record after; where the
code would end the process, `Check` sets the flag fatal. `widgets` are the widgets
with their parents, `disk` is the settings file. `stack` is the stack of handlers of
the GUI thread; a handler may connect, emit, post, choose, bind, scan, save,
cancel, dispose a widget or its container, quit and shut the application down.
Shutdown inside a handler waits in the main context until saves have ended, while
this context dispatches whatever is ready. GTK calls handlers in the middle of two
operations, when the first page of a notebook is added and when its current page
is removed: `notebook_append` and `dispose_page` push a frame of the page, the
handlers run on top of it, and `append_ends` and `dispose_ends` go on with whatever
they left. If they have disposed, filled or registered on this very page, or shut
the application down, the code goes on with a record that is not what it takes it
for; the model records this (`Reentered`; state "twice" for a root that is
released again) and ends there. The worker of a directory scan and
GIO's loading and replacing of the settings file are separate steps; somebody
else may write the file in between. GTK and GIO themselves are external and
modelled by what the binding asks of them.

### Versions, Packages, PackageTool

`Versions` parses and orders SemVer texts, numbers of any length. `Packages` is
the compiler: discovery along the search roots, selection, the resolver that
starts over with new pins when it meets a second version, locked builds, and the
order in which modules load. `PackageTool` adds `init`, `add` and `install` with
each write as a step, failures with their rollback, a kill between any two
writes, and a person who edits files. It is assumed that the rollback itself does
not fail. What lies in a package directory is absent, partial, as published or
edited; equal hashes stand for equal content.

### Classes

Classes are declared one after the other from a family of programs, the program
is analyzed, an object is constructed and destroyed. An address is the path of
field indices from the start of the object, so that two subobjects coincide
exactly if their addresses are equal. Analyzer, layout, metadata, emitted casts
and the runtime's checked cast are translated separately and compared with each
other and with the subobjects that the inheritance graph defines. Two exceptions are
part of the properties that pass, each with a property of its own that fails
(section 4.3): the generator may take a field of an earlier base that the context
may not use, and a call may miss an override off the path of its view.

### Lowering

A body is a tree of statements. The module holds the analyzer, the generator,
which emits instructions, and the machine that executes them with the runtime's
exception frames; reads, calls that may raise and conditions are what is left of
expressions. At the end of a run the machine is compared with `Meaning`, a
structural semantics, under the same outcomes of calls and conditions. Bodies of
three shapes are `Apart`: a cleanup that uses a name its try shadows (`Shadows`), a
return from a loop inside a try whose cleanup breaks or continues (`ReturnsFromLoop`),
and a handler that rethrows after it has caught what it rethrew (`RethrowsAgain`).
The machine runs them too; the property of section 4.3 leaves none of them out.

### Expressions

A statement grows token by token from a small vocabulary; at its end the
recursive-descent parser, with its two nesting limits, is compared with the
grammar as a derivation relation, the analyzer's two compile-time evaluators
(`constantBinary` and `enumBinary`, translated each from its own copy in the code)
with integer arithmetic, and the value the emitted instructions compute with the
meaning of the tree. Integers have `Width` bits.

## 4. Runs

| Run | Question | States |
|---|---|---|
| `threads` | 3 threads on 2 objects, 2 threads on 4, destructors that may block: lock discipline, aborts, roots, start arguments, frozen scans, the worklist | 1 747 362 |
| `synchronization` | 3 threads, mutex and condition: ownership and close, lost wake-ups, refinement of `Monitor` | 96 332 |
| `semaphore` | 4 threads, count up to 2: conservation, stranded counts, and that a count reaches a waiter | 11 529 |
| `async_process` | clients, pump and child in four worlds, under fairness: output, life time, signals, close, and that every call ends | 417 543 |
| `heap` | 3 objects, up to 5 activations: exact collection, unwinding, destroyed for ever | 639 819 |
| `collections` | all sequences of operations on one small object: contents, the mapping and the index of a dict, UTF-8, chunked decoding | 108 826 |
| `gtk` | eight programs with nested handlers, one of them with pages of a notebook: release, late callbacks, edits of settings, end of shutdown | 176 879 |
| `packages` | all graphs of two packages in two versions, and projects with tool, compiler and editor: resolution, rollback, installed projects | 298 946 |
| `classes` | four families of programs of four classes: layout, names, casts, dispatch, order of construction | 38 966 |
| `lowering` | 475 bodies under all outcomes: the code runs as written, the analyzer is sound | 51 098 |
| `expressions` | all statements of at most 9 tokens in 16 vocabularies: parse, execution, folding | 754 194 |

All of these hold. One more run, `lowering_documented`, checks what the documents
say of bodies without any exemption, and TLC finds a body that violates it.
Section 4.3 describes it, with the properties of the other modules that state what
a document says and do not hold.

### 4.1 Bounds

- Three threads are a spawner, its child and a third that collects; two objects
  are a receiver and garbage beside it. Two frames per thread give one that
  survives a call. The worklist needs four objects and longer chains (garbage with a
  destructor that blocks, and roots that outnumber what was there); the constraint
  `Bounded` gives these to two threads.
- For mutex and condition, three threads are an owner, a waiter and one that
  barges in, three notifications one more than the waiters. The semaphore needs
  four threads for two sleepers and two that barge in.
- `async_process`: two clients on a quiet child cover the races of two calls; one
  client of a child that writes two chunks, both to one stream or one to each, covers
  the order within a stream; one client with one chunk and failing reads and allocations
  covers loss and the abandonment of output; one client with SIGCHLD ignored covers reaping
  behind the pump's back.
- `heap`: three objects are a dead one, one it refers to and a live one. Stacks of
  up to `FlatDepth` = 3 activations are explored with every graph; up to
  `MaxDepth` = 5 only with null fields, no collection and a free address, since
  unwinding reads no field. Five activations are a destructor inside another
  one or inside a constructor, and a raising destructor inside two tries.
- `collections`: `IntMax` 5 stands for INT64_MAX, so that every bound, step and
  capacity reaches it; five keys whose hashes fall on two buckets, the last
  and the first; output of four bytes, the longest character, from bytes at
  the ends of every range the scanners distinguish; numerals on both sides of
  the limits `ParseMax` and `UnsignedMax`.
- `gtk`: two nested handlers and the frame of shutdown; two to four
  registrations of the kinds that meet in the code; two foreign edits;
  a notebook with two pages, the fewest with which removing one page switches to
  another.
- `packages`: two versions and a prerelease of three packages; 64 attempts, as in
  the code; up to four commands and edits. Two assumptions of `MCPackages`
  compare `Versions` with the grammar and the order of SemVer for all texts of
  up to six digits and dots, and for all tails of up to four characters after
  1.0.0.
- `classes`: four classes give the diamond, a virtual base beside a repeated one,
  an override beside an inherited method, and a cycle behind a class outside it.
- `lowering`: every leaf in every place of a loop around try, except and finally,
  a try nested in body or handler of another, and single bodies for the rest;
  five free outcomes, after which all are false, so that every loop ends.
- `expressions`: nesting limit 4 is reached by parentheses, prefix operators and
  chains of operators within 9 tokens; 4 bits have all the edges of 64.

Symmetry is used for threads and objects in runs without liveness properties;
`None`, `main` and `NoOwner` are not permuted. Deadlock is checked where the
system may not stop. It is off for `semaphore`, where all threads may wait for a
signal that nobody sends, and for `collections`, `gtk`, `packages`, `classes`,
`lowering` and `expressions`, whose programs end.

### 4.2 Fairness

- `AsyncProcess`: the pump and the calls that wait on `process->changed` need only
  `process->lock`, whose sections are short, so each of their steps is weakly
  fair. A child that got SIGKILL dies, and time passes. Nothing is assumed about
  other children, descendants, or about who gets the global lock: that a call
  returns to Cwhip code is not claimed, only that it stops waiting.
- `Semaphore`: a woken thread needs only the semaphore's own mutex, so its next
  test is weakly fair.
- `Gtk`: GIO completes every load and every replacement, successfully or not, and
  shutdown returns from the main context when no save is left. Nothing is
  assumed about users, handlers, choosers or directory scans.

### 4.3 Where code and documentation part

Documents are in `doc/`; the notes are `doc/CWHIP-LANGUAGE-NOTES.md`. The modules
state these sentences of the documents, and of one test, as properties, and the
code violates each of them:

| Module | Property | The code | The document |
|---|---|---|---|
| `Threads` | `CollectorExcludesMutators` | A destructor that blocks lets other threads run during a collection (`RuntimeGc.c:1422`) | notes 1433-1435 |
| `Threads` | `WorklistFits` | What they allocate then does not fit the worklist, and `mark_object` writes past its end (`RuntimeGc.c:1075`) | notes 1433-1435 |
| `Heap` | `KeptExceptionLives` | The exception that a destructor chain keeps is no root, and a later body may collect it (`CodeGeneratorModule.cpp:588`) | notes 1350-1352, 1368 |
| `Heap` | `FreedWasDestroyed` | An object cut off a live one by a finalizer is swept without its destructor (`RuntimeGc.c:1428`) | notes 1329 |
| `AsyncProcess` | `ExactlyOneCompleted` | A COMPLETED event that cannot be allocated is never delivered (`RuntimeProcessAsync.c:332`) | `STDLIB.md:623-624` |
| `AsyncProcess` | `LossIsReported` | An error message that cannot be allocated is no error (`RuntimeProcessAsync.c:128`, 138) | `STDLIB.md:655-657` |
| `Collections` | `InvalidBytesAreReplaced` | Bytes as long as their replacement are taken for a text, and the constructor of `String` throws (`RuntimeProcessAsync.c:914`) | `STDLIB.md:634-635` |
| `Gtk` | `RootReleasedOnce` | A handler disposes the page whose removal called it, and its root is released twice (`gtk.c:688-694`) | `GTK.md:453`, 501-502 |
| `Classes` | `AccessedIsAccessible` | The generator takes a field that the context may not use when it lies in an earlier base (`CodeGeneratorLayout.cpp:17-48`) | notes 612, 618-619 |
| `Classes` | `OverrideReached` | An override in another branch above a virtual base is missed (`CodeGeneratorModule.cpp:399-432`) | notes 502-503, 604-605 |
| `Classes` | `CyclesAreReported` | A class in front of a cycle of others makes the analyzer recurse without end (`SemanticAnalyzer.cpp:646`, 733-745) | `negative_inheritance_cycle.cw:1` |
| `Lowering` | `CleanupSeesItsScope` | A cleanup that a jump runs sees the variables of the block that is left (`CodeGeneratorStatements.cpp:121`, 315) | `LANGUAGE-REFERENCE.md:219-221` |
| `Lowering` | `CleanupBreaksItsLoop` | A cleanup that a return runs breaks the inner loop the return stands in (`CodeGeneratorStatements.cpp:314`) | notes 736-739 |
| `Lowering` | `RethrowStays` | The second rethrow of one handler aborts (`RuntimeGc.c:1013-1039`) | notes 682-683 |
| `Lowering` | `ReadsInitialized` | A cleanup may read a variable that an early exception left unset (`SemanticStatements.cpp:457`) | `LANGUAGE-REFERENCE.md:222-223` |

The run `lowering_documented` checks the four of `Lowering` together
(`AsDocumented`); its counterexample is a body whose call raises before the one
assignment to a variable that the cleanup reads. Each of the others, and each of
the four alone, is reproduced by naming it as the one INVARIANT of the cfg of its
module's run, with the constants as they are; a counterexample is found within
two minutes.

The passing properties next to them say all that is left: which objects still fit
the worklist (`WorklistHoldsNodes`), that everything else is exact although an
exception is lost, that no other bytes throw, that nothing but the page of the
handler is released wrongly, that a field or method taken wrongly is of just this
kind, and that all other bodies run as written.

What follows was met while modelling and is not stated as a property of its own.

Runtime:

- `close()` of a mutex does not see a thread between the fast path of `lock()`
  and its registration as a waiter (`RuntimeThreads.c:288`). The documentation asks
  a program to close only what no thread uses (`STDLIB.md:836-837`), which is
  `ClosePolicy = "quiescent"`; with "any" `CloseSafe` fails.
- Of two threads in `next(-1)` the one that finds the event taken returns null
  (`RuntimeProcessAsync.c:626`); a `wait(-1)` woken by `close()` returns false
  until the pump has finished (683); with SIGCHLD ignored `cancel` may signal an
  id the child no longer has (219).
- A first save of settings, of a file that was missing, passes no ETag, so that a
  file written in between is replaced; `SaveKeepsEdits` leaves it out.

Compiler:

- A break in a finally, on the path where no clause matched, leaves the exception
  of the frame in place.
- Access in conversions (`SemanticInheritance.cpp:16-48`, 570-600; notes 616-619).
- The rank of a conversion depends on the order of bases; an overload inherited
  from two bases is rejected only by the generator; a null list or dict stored in
  an `any` cannot be read back; symbols of view metadata may collide for names
  with an underscore.

Packages:

- The resolver keeps a pin of an earlier round where a higher version would be
  selected, and may report conflicting versions that are none (notes 1264-1266).

Driver, read but not modelled (`main.cpp`): on a diagnostic, temporary files stay;
IR and shim files are registered for removal only after they were written; the
sidecar is written after the object.

## 5. Proofs

Eight modules hold proofs, each about the component it extends. A theorem is about
every value of the constants that the assumptions of the component allow; TLC
evaluates these assumptions in the runs.

| Module | Theorem | States | If |
|---|---|---|---|
| `ThreadsProofs` | `TypeCorrect` | `TypeOK` | |
| | `MutualExclusion` | `LockDiscipline`: only the holder of the lock runs managed code | |
| | `AbortsUnreachable` | `NeverAborts` | |
| | `RootsAreSafe` | `RootSafety`: nothing a root frame or a start in progress refers to is freed | |
| | `ArgsAreSafe` | `ArgsOutliveChild` | |
| | `ScanIsExclusive` | `RootsFrozenDuringScan` (action property) | |
| | `WorklistIsLargeEnough` | `WorklistHoldsNodes`: the worklist holds what was there when its collection began, also when destructors block | |
| `SemaphoreProofs` | `CountIsExact` | `CountExact`: conservation, no stranded count | |
| `SynchronizationProofs` | `WakeupIsNeverLost` | `NoLostWakeup` | |
| | `ClosingIsSafe` | `CloseSafe` | `ClosePolicy # "any"` |
| | `RefinesMonitor` | `ImplementsMonitor`: refinement of `Monitor` | |
| `AsyncProcessProofs` | `FreedAfterLastUse` | `NoUseAfterFree` | |
| | `SignalsReachTheChild` | `SignalsOnlyOurChild` | |
| | `CloseIsComplete` | `CloseLeavesNothing` | |
| | `OutputIsExact` | `OutputExact` | |
| `HeapProofs` | `UnwindingIsExact` | `UnwindingExact` | |
| | `CollectionIsExact` | `CollectionExact` | |
| | `DestroyedStaysDestroyed` | `DestroyedForever` (action property) | |
| `PackageToolProofs` | `FailureChangesNothing` | `RollbackExact` | |
| `CollectionsProofs` | `DictIsExact` | `DictExact`: `DictIndexExact` and `DictMeetsMapping` | |
| `GtkProofs` | `GtkReleasesExactly` | `ReleasedExactly`, up to the first handler that uses the page it is called for | |
| | `GtkNoLateCallback` | `NoLateCallback` (action property) | |
| | `GtkSaveKeepsEdits` | `SaveKeepsEdits` (action property) | |

The one condition is the documented use of `close()`; without it the property is
false (section 4.3). The other theorems have none: blocking destructors, finalizers
that detach, chains that allocate and handlers in the middle of a disposal are
steps like any other.

The arguments. None of the invariants is inductive alone; each module defines
`IInv`, the conjunction that is, and proves one step per action. Only the
assumptions of the components are used: thread, client and object sets are finite
(counts are cardinalities), the distinguished values `None`, `NoOwner`, `main` are
what their names say, bounds are natural numbers, the disks that a project
starts from are well formed (`WorldsHaveDisks`), hashes are natural numbers and
slice bounds integers (`HashAssumption`, `BoundsAssumption`), and a program of the GTK binding
makes registrations and widgets of the kinds there are (`GtkAssumption`).

### Threads

`LockInv` ties every program position to the lock and to `gil_held`; mutual
exclusion and the absence of aborts follow. `StartInv` is the hand-shake between
a spawner and its child: in which state the arguments are at each position of the
child, and that the spawner goes on only when the child is past its last use of
them. `RootInv` says that roots, and the nodes a finalizer loop has still to
visit, are allocated, and that only registered threads have frames. It is
inductive only with `ScanInv`: what the second pass has visited is marked, and at
the sweep the roots of every registered thread are. Marking one thread after
another is sound because the scanning thread keeps the lock, so that no chain
changes. `HandOverInv` covers the receiver in the start arguments: until the new
thread has registered, some spawner keeps it in its frames. `StepIsLocal` states
that a step of one thread changes no position of another, except when it creates
it. The worklist bound is a second induction on top of `IInv`: the objects on the
heap that were not added since a collection began are no more than the entries
of its worklist. Collections of other threads, which run while a destructor
blocks, only take objects away; what other threads allocate is `added`. In the first
trace nothing is, since the thread has kept the lock.

### Semaphore

`CountExact` is inductive by itself. The work is in the cardinalities: a thread
that goes from one label to another leaves one set and joins the other
(`CountAfterGoto`), so a signal that finds sleepers moves one of them, and the
count that is left is bounded by the woken threads.

### Synchronization

`WaitersExact` says that the two waiter counters are the numbers of threads at
the labels between registering and leaving. `NoLostWakeup` needs it: unlock
decides by the counter whether to wake. `WaitInv` says where a thread inside
wait() can be and that its snapshot is never ahead of the sequence number, which
is why a changed sequence is seen as a later one. For the close of the mutex, a
second induction shows that after the close nobody is in the calls of the mutex.

The refinement is proved step by step: every action of the code is shown to be a
step of `Monitor` or to leave the mapped variables unchanged. The steps that count
are the snapshot of wait() (the owner that is about to unlock already maps to
nobody, so that releasing and starting to wait is one step), the notifications
(each makes the snapshots of threads on their way to sleep stale; a signal thus
releases these and the sleeper it wakes, at least one if any thread waits, as
`Signal(S)` of `Monitor` demands), and the step in which a woken waiter gets the mutex back.

### AsyncProcess

`ReferenceInv` makes the reference count the number of threads inside a call plus
the wrapper's own, and the object is freed exactly when both are gone.
`ReferencesKept` reduces its preservation to the steps that move references.
`LifeInv` orders the life of pump, child and pipes: completed implies reaped and
closed pipes, joined implies completed. `SignalInv` needs it because only the
pump's waitpid gives the process id up. `DrainInv`, `ChunksInv` and `QueueInv`
carry the output: the chunks written are those in the pipe, the queue and
delivered, numbers in the queue increase per stream and are bounded by what has
left the pipe, COMPLETED is the last entry, and a pipe that was closed at its end has no writer left. `OutputExact` says
nothing about the positions of pump and clients, which is why it needs these.

### Heap

`StackInv` relates the sequence of activations to the two runtime stacks: the
number of destructor and constructor activations below each position is the
number of entries of `destroy_stack` and `construction_stack`, and what an
exception handler saved are the numbers at its position. An exception cuts all
three sequences; what remains is exact because the saved numbers were.
`UnwindInv` ties the flags of nodes to the stacks, without repetition, and
`PauseInv` says that a body of a destructor chain, not the chain itself, is on top
while a collection runs. `HeapInv` says that references point to allocated objects,
and `StackInv` that slots do, except those that hold an exception in `lost`; a
collection moves the kept exceptions it frees there.

`TraceInv` is about marking. The reference is `Closure(LiveRoots)`, the least set
that holds the allocated roots and is closed under fields. That marking stays inside it is kept
as: every set that holds the roots and is closed under the fields of its marked
members contains all that is marked. That it covers it is: a marked object that
was scanned has a marked field. When nothing is left to scan, marked is itself
closed, so both inclusions follow without an induction over the graph. A second
induction (`ReclaimInv`) on top of `IInv` follows the finalizer loop: every node
was reached by the first trace, is destroyed, or is still to be finalized, whatever
the finalizers did to the graph meanwhile.

### Collections

The theorems are about dicts: `DictOK` is the invariant, kept by every call. It
says that no two entries have the same key, that the table is an index of the
entries (`IndexOK`) and at most half full. A table is an index when no entry is
in it twice and the probes from the hash of each key meet no free bucket before
its entry (`Reaches`). Filling a free bucket keeps this for all other keys
(`PlaceOne`), which is why insertion needs no more; emptying one would not, which
is why removal rebuilds the table. That the loops over probes end is part of it:
the probes from any hash reach every bucket (`ProbesReachAll`), and a table with
more buckets than entries has a free one (`SomeBucketFree`, by the pigeonhole
theorem). `FindsStored` and `FindsNoOther` say what a search returns, and from
these `DictMeetsMapping` follows call by call.

Rebuilding and slicing are recursive functions of the entries. Their proofs are
by a least counterexample: a set of numbers at which a statement fails has a
least element (`LeastNatural`, from the well-foundedness of Nat), and with the
statement true before it, it is true there. `RecursionExists` shows in the same
way that a function with such a recursive definition exists.

### PackageTool

While a command runs, manifest and lock differ from what they were only if the
tool has written them (`FilesInv`), and the disk differs only in directories that
the tool has made and that did not exist (`DirectoriesInv`); the directory being
filled is one of them (`FillingInv`). The rollback restores and removes exactly
these. As in the model, the rollback itself does not fail.

### Gtk

`RegInv` says, for each kind of registration, in which states its block, its root
and its closures may be together (`ConnectionOK`, `ShortcutOK`, ...): for instance
that a shortcut whose release is pending has its root and runs, and that a closed
connection has only closures that are being emitted. It also says that the
in-flight count is the number of frames of the registration on the stack, which is
what keeps a release from meeting a callback in flight. Each operation on a record
is a lemma of its own: it takes a record that is as it should be to one that is,
and tells what happens to its counts and its frames. `AppendFrames` and `PopFrames`
carry the counts over a call and a return.
`OwnerInv` says that what belongs to a disposed widget has ended, `StopInv` that
everything has after shutdown, except saves, which keep the frame of shutdown on
the stack; with it no root is left when the stack is empty. `ForestInv` says that
no widget is below itself. `Under` is the least set that holds a widget and is
closed under children, so an attachment that closes a cycle is refuted by a set
that has one end and not the other, without induction over the depth. `DiskInv`
gives `SaveKeepsEdits`: a save that has loaded the file remembers an ETag, and a
file that still has it still has the expected content. `NoLate`, the action
property for one step, is proved with the invariant, action by action. `BusyInv` is
about a page that is being added or disposed: it hangs from
nothing, and what was registered on it before its disposal has ended. It is what
`append_ends` and `dispose_ends` need when the handlers have left the page alone; when
they have not, the state is `Stuck`, where no step is enabled. `Safe`, which says
`IInv` or `Stuck`, is the inductive invariant, and `ReleasedExactly` follows from both.

### Only model-checked

- Liveness (`CountReachesWaiter`, `CallsEnd`, `DrainEnds`): the prover does not
  reason about fairness and ENABLED.
- `ContentExact`, `DecoderExact`, `ResolutionExact` and `InstalledCompiles`: they
  compare recursive functions over data (slices, the scanners of UTF-8, the
  restarting resolver) with a reference. The induction theorems of the library
  take an operator, which the provers cannot instantiate; an argument like the
  one for dicts would have to be made for each of these functions anew.
- `Classes`, `Lowering` and `Expressions`: their translations of recursive code
  are RECURSIVE operators, as are their references.

## 6. Not modelled

- Synchronous process: a handle, two pipes and a wait without the global lock,
  which has the shape of `native_block` of `Threads`.
- SQLite binding: connections, statements and transactions closed in the order of
  their owners; sequential under the global lock.
- Lexer, source loader, driver, system services, other library modules: one pass
  over text, or one system call after the other, without state that outlives
  them; the domain of texts is too large for a model checker to add to tests.
- The TOML parser below the GTK binding is third-party code.
- In `Heap` and `Threads`: stack traces and messages; several fields per object,
  lists and dicts as containers of references (one field already gives chains and
  cycles); failure of `pthread_create` and `malloc` in `Threads`, where the code
  ends the process.
- In `Collections`: floating-point conversions, formatting, and collections that
  an allocation starts while an operation is under way.
- In `Gtk`: setters and getters that pass a value on, text buffers, the wrappers
  the compiler emits for callbacks, and foreign threads that attach to call back.
- In `Packages` and `PackageTool`: fetching, bundled packages, listing, parsing
  of manifests, hashing.
- In the compiler: parsing of statements and declarations, checks of collections,
  callbacks and externs, floating point, class and callback operands, run-time
  type values, printing, debug information.
