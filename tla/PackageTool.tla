---------------------------- MODULE PackageTool ----------------------------
(***************************************************************************)
(* The commands of cwhip-pkg and the edits of a person, on the disk that   *)
(* the compiler of Packages reads.  Bundled packages are not modelled:     *)
(* every package here comes from a repository.                             *)
(***************************************************************************)
EXTENDS Packages

CONSTANT Edits     \* manifests a person may write by hand

ToolRoots == <<"project", "user">>
Pairs(pins) == {<<n, pins[n]>> : n \in Pinned(pins)}
RangeOf(s) == {s[i] : i \in DOMAIN s}

\* Everything S depends on, S included: a path has at most one step for each
\* package there is.
Closure(S) ==
  LET most == Cardinality(Names) * Cardinality(VersionTexts)
      reach[k \in 0 .. most] ==
        IF k = 0 THEN S
        ELSE UNION {T \cup UNION {RangeOf(DepsOf(p[1], p[2])) : p \in T} : T \in {reach[k - 1]}}
  IN reach[most]

Cyclic(S) == \E p \in S : p \in Closure(RangeOf(DepsOf(p[1], p[2])))
PinsOf(S) == [n \in Names |-> IF \E p \in S : p[1] = n THEN (CHOOSE p \in S : p[1] = n)[2] ELSE None]

\* resolve_graph and validate_graph: the exact graph below the direct
\* dependencies, or an error for a package nobody published, two versions of
\* one name or a cycle.
resolve_graph(direct) ==
  CHOOSE r \in {[ok |-> /\ \A p \in S : Published(p[1], p[2])
                        /\ \A p, q \in S : p[1] = q[1] => p[2] = q[2]
                        /\ ~Cyclic(S),
                 versions |-> PinsOf(S)] : S \in {Closure(Pairs(direct))}} : TRUE

\* inspect_installed: every locked package that is present in the first root
\* holding its name must be the locked content; the others are missing.
inspect_installed(versions) ==
  LET first(n) == LET I == {i \in DOMAIN ToolRoots : Present(ToolRoots[i], n) # {}}
                  IN IF I = {} THEN "nowhere" ELSE ToolRoots[CHOOSE i \in I : \A j \in I : i <= j]
      there(n) == IF first(n) = "nowhere" THEN "none" ELSE disk[first(n)][n][versions[n]]
  IN [ok |-> \A n \in Pinned(versions) :
               /\ there(n) \in {"none", "good"}
               /\ first(n) # "nowhere" =>
                    \A v \in VersionTexts \ {versions[n]} : disk[first(n)][n][v] # "partial",
      missing |-> {n \in Pinned(versions) : there(n) = "none"}]

\* The names S in the order the tool treats them.
InOrder(S) == SetToSeq(S)

\* What a command does up to its first write; persist inspects once more.
Tool(ok, direct, versions, staged, frozen) ==
  Command([kind |-> "tool",
           pc |-> IF ok /\ inspect_installed(versions).ok THEN "copy" ELSE "failed",
           direct |-> direct, versions |-> versions, staged |-> InOrder(staged),
           frozen |-> frozen, created |-> {}, wrote |-> {},
           before |-> [disk |-> disk, manifest |-> manifest, lock |-> lock]])

\* read_lock: fresh, and the graph of its manifest.
LockReadable == lock.present => lock.direct = manifest.direct

\* command_add: a present lock must be sound before anything is fetched.
command_add(n, v) ==
  LET direct == [manifest.direct EXCEPT ![n] = v]
  IN \E graph \in {resolve_graph(direct)} :
     Tool(/\ manifest.present /\ LockReadable
          /\ lock.present => inspect_installed(lock.versions).ok
          /\ Published(n, v) /\ graph.ok,
          direct, graph.versions, Pinned(graph.versions), FALSE)

\* command_install: restores what a lock misses, or makes the lock.
command_install ==
  \E graph \in {resolve_graph(manifest.direct)} :
     IF lock.present
     THEN Tool(manifest.present /\ LockReadable, manifest.direct, lock.versions,
               inspect_installed(lock.versions).missing, TRUE)
     ELSE Tool(manifest.present /\ graph.ok, manifest.direct, graph.versions,
               Pinned(graph.versions), FALSE)

\* command_init: refuses to overwrite a configuration.
command_init == Tool(~manifest.present /\ ~lock.present, NoPins, NoPins, {}, FALSE)

Running(pc) == job.kind = "tool" /\ job.pc = pc

\* Mutant: a package that any root holds is not copied.
persist_mkdir_mut ==
  /\ Running("copy") /\ job.staged # <<>>
  /\ LET n == Head(job.staged) v == job.versions[n] IN
     IF \E r \in RangeOf(ToolRoots) : disk[r][n][v] # "none"
     THEN job' = [job EXCEPT !.staged = Tail(@)] /\ UNCHANGED disk
     ELSE /\ disk' = [disk EXCEPT !["project"][n][v] = "partial"]
          /\ job' = [job EXCEPT !.pc = "copying", !.created = @ \cup {<<n, v>>}]
  /\ UNCHANGED <<remote, manifest, lock, budget, intact>>

\* persist: one package directory is made ...
persist_mkdir ==
  /\ Running("copy") /\ job.staged # <<>>
  /\ LET n == Head(job.staged) v == job.versions[n] IN
     IF disk["project"][n][v] # "none"
     THEN job' = [job EXCEPT !.staged = Tail(@)] /\ UNCHANGED disk
     ELSE /\ disk' = [disk EXCEPT !["project"][n][v] = "partial"]
          /\ job' = [job EXCEPT !.pc = "copying", !.created = @ \cup {<<n, v>>}]
  /\ UNCHANGED <<remote, manifest, lock, budget, intact>>

\* ... filled and verified.
persist_copy ==
  /\ Running("copying")
  /\ LET n == Head(job.staged) IN
     /\ disk' = [disk EXCEPT !["project"][n][job.versions[n]] = "good"]
     /\ job' = [job EXCEPT !.pc = "copy", !.staged = Tail(@)]
  /\ UNCHANGED <<remote, manifest, lock, budget, intact>>

\* The manifest is written before the lock, each by renaming a whole file.
persist_manifest ==
  /\ Running("copy") /\ job.staged = <<>> /\ ~job.frozen /\ job.wrote = {}
  /\ manifest' = [present |-> TRUE, direct |-> job.direct]
  /\ job' = [job EXCEPT !.wrote = {"manifest"}]
  /\ UNCHANGED <<remote, disk, lock, budget, intact>>

persist_lock ==
  /\ Running("copy") /\ job.staged = <<>> /\ ~job.frozen /\ job.wrote = {"manifest"}
  /\ lock' = [present |-> TRUE, direct |-> job.direct, versions |-> job.versions]
  /\ job' = [job EXCEPT !.wrote = @ \cup {"lock"}]
  /\ UNCHANGED <<remote, disk, manifest, budget, intact>>

persist_done ==
  /\ Running("copy") /\ job.staged = <<>> /\ (job.frozen \/ job.wrote = {"manifest", "lock"})
  /\ job' = [job EXCEPT !.pc = "done"]
  /\ intact' = TRUE
  /\ UNCHANGED <<remote, disk, manifest, lock, budget>>

\* An OSError or a failed verification in the step that is next.
persist_fails ==
  /\ Running("copy") \/ Running("copying")
  /\ job.pc = "copying" \/ job.staged # <<>> \/ (~job.frozen /\ job.wrote # {"manifest", "lock"})
  /\ job' = [job EXCEPT !.pc = "restore"]
  /\ UNCHANGED <<remote, disk, manifest, lock, budget, intact>>

\* Rollback: first the files that were written ...
rollback_files ==
  /\ Running("restore")
  /\ manifest' = IF "manifest" \in job.wrote THEN job.before.manifest ELSE manifest
  /\ lock' = IF "lock" \in job.wrote THEN job.before.lock ELSE lock
  /\ job' = [job EXCEPT !.pc = "remove"]
  /\ UNCHANGED <<remote, disk, budget, intact>>

\* Mutant: the directory that was being filled stays.
rollback_created_mut ==
  /\ Running("remove")
  /\ job' = [job EXCEPT !.pc = "failed"]
  /\ UNCHANGED <<remote, disk, manifest, lock, budget, intact>>

\* ... then the directories that were made.
rollback_created ==
  /\ Running("remove")
  /\ disk' = [disk EXCEPT !["project"] =
                [n \in Names |-> [v \in VersionTexts |->
                   IF <<n, v>> \in job.created THEN "none" ELSE @[n][v]]]]
  /\ job' = [job EXCEPT !.pc = "failed"]
  /\ UNCHANGED <<remote, manifest, lock, budget, intact>>

\* The tool is killed between two steps: a directory being filled stays, with
\* or without a manifest.
killed ==
  /\ job.kind = "tool" /\ ~Resting
  /\ LET n == IF job.pc = "copying" THEN {<<Head(job.staged), job.versions[Head(job.staged)]>>} ELSE {} IN
     \E c \in {"partial", "edited"} :
       disk' = [disk EXCEPT !["project"] =
                  [m \in Names |-> [v \in VersionTexts |->
                     IF <<m, v>> \in n THEN c ELSE @[m][v]]]]
  /\ job' = [job EXCEPT !.pc = "killed"]
  /\ intact' = FALSE
  /\ UNCHANGED <<remote, manifest, lock, budget>>

\* A person edits or removes an installed package, edits the manifest or
\* removes the lock.
Person ==
  /\ Resting /\ budget > 0 /\ manifest.present
  /\ budget' = budget - 1
  /\ intact' = FALSE
  /\ job' = Idle
  /\ \/ /\ \E n \in Names, v \in VersionTexts, c \in {"edited", "none"} :
             /\ disk["project"][n][v] \notin {"none", c}
             /\ disk' = [disk EXCEPT !["project"][n][v] = c]
        /\ UNCHANGED <<manifest, lock>>
     \/ /\ \E d \in Edits : manifest' = [manifest EXCEPT !.direct = d]
        /\ UNCHANGED <<disk, lock>>
     \/ lock.present /\ lock' = NoLock /\ UNCHANGED <<disk, manifest>>
  /\ UNCHANGED remote

Compile ==
  \E i \in Imports, cli \in BOOLEAN :
    /\ cli => \E n \in Names : Present("cli", n) # {}
    /\ compile_start(i, cli)

\* The steps of a command that has begun.
Steps ==
  \/ resolve_roots \/ visit \/ visit_leave \/ attempt_done
  \/ load_start \/ load \/ load_leave \/ compile_done
  \/ persist_mkdir \/ persist_copy \/ persist_manifest \/ persist_lock \/ persist_done
  \/ rollback_files \/ rollback_created

Next ==
  \/ Compile
  \/ \E n \in Names, v \in VersionTexts : command_add(n, v)
  \/ command_install
  \/ command_init
  \/ Steps
  \/ persist_fails
  \/ killed
  \/ Person

Spec == Init /\ [][Next]_vars

-----------------------------------------------------------------------------
Pins == [Names -> VersionTexts \cup {None}]

TypeOK ==
  /\ disk \in Disks
  /\ manifest \in [present : BOOLEAN, direct : Pins]
  /\ lock \in [present : BOOLEAN, direct : Pins, versions : Pins]
  /\ job.pc \in {"done", "failed", "built", "killed", "roots", "resolve", "settled", "load",
                 "copy", "copying", "restore", "remove"}
  /\ budget \in 0..MaxCommands

Built == job.kind = "compile" /\ job.pc = "built"
Chosen == Pairs(job.graph)

\* doc/PACKAGES.md and INSTALLATION.md: a build under a lock uses exactly the
\* graph the current manifest pins, each package in its published content,
\* whatever was edited, removed or left half-written by a tool that failed or
\* was killed, and whatever root was put in front.
LockedBuildExact ==
  Built /\ job.locked =>
    LET graph == resolve_graph(manifest.direct) IN
    /\ graph.ok
    /\ \A p \in Chosen : p[2] = graph.versions[p[1]] /\ disk[RootOf(p[1])][p[1]][p[2]] = "good"

\* The result of a resolution is the exact closure of the imported packages:
\* nothing unneeded, one version of a name, no cycle, and every package comes
\* from the first root that holds its name.
ResolutionSound ==
  Built =>
    LET roots == {p \in Chosen : p[1] \in RangeOf(job.imports)} IN
    /\ RangeOf(job.imports) \subseteq Pinned(job.graph)
    /\ Chosen = Closure(roots)
    /\ ~Cyclic(Chosen)
    /\ \A p \in Chosen : p[2] \in Present(RootOf(p[1]), p[1])
    /\ RangeOf(job.preorder) = Pinned(job.graph)

\* Modules are listed, each once, after every module they import: the order
\* in which their code is generated and their classes are declared.
LoadOrderTopological ==
  Built =>
    /\ IsInjective(job.order)
    /\ RangeOf(job.imports) \subseteq RangeOf(job.order)
    /\ \A i \in DOMAIN job.order :
         LET n == job.order[i] IN
         \A k \in DOMAIN remote[n][job.graph[n]].imports :
           \E j \in 1 .. i - 1 : job.order[j] = remote[n][job.graph[n]].imports[k]

\* A command of the tool that reports failure has changed nothing.
RollbackExact ==
  job.kind = "tool" /\ job.pc = "failed" =>
    job.before = [disk |-> disk, manifest |-> manifest, lock |-> lock]

\* After a tool command succeeded and while nothing was touched, the compiler
\* accepts what the tool wrote: the two read lock, roots and directories alike.
InstalledCompiles ==
  /\ intact /\ job.kind = "compile" /\ job.pc = "failed" /\ Head(job.roots) = "project"
  => \E n \in RangeOf(job.imports) : lock.versions[n] = None

\* The resolver settles or finds a contradiction; it never runs into the
\* bound on its rounds.
NeverExhausted == job.kind = "compile" => job.why # "limit"

\* A program that is built is built from the packages its imports, its lock
\* and the search path determine, and in their order.
ResolutionExact ==
  TypeOK /\ LockedBuildExact /\ ResolutionSound /\ LoadOrderTopological /\ NeverExhausted
=============================================================================
