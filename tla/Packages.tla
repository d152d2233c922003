------------------------------ MODULE Packages ------------------------------
(***************************************************************************)
(* A project's packages: the package tool that installs them               *)
(* (cwhip-pkg.py.in), the compiler that resolves and loads them            *)
(* (PackageRegistry.cpp, ModuleRegistry.cpp), the person who edits files   *)
(* in between, and the disk they share.  One command runs at a time, as    *)
(* doc/PACKAGES.md asks, but the tool may fail or be killed between any    *)
(* two of its writes.                                                      *)
(*                                                                         *)
(* A published package is its dependencies, exact name and version pairs   *)
(* in the order of the names, and the modules its source imports.  What    *)
(* lies in a directory of the disk is "good" (the published content),      *)
(* "edited" (a readable manifest, another content), "partial" (no usable   *)
(* manifest) or "none".  Equal content hashes stand for equal content.     *)
(***************************************************************************)
EXTENDS Versions, SequencesExt

CONSTANTS Names,         \* package names
          VersionTexts,  \* the versions published
          Worlds,        \* what is published, on disk and imported at first
          Imports,       \* the import lists of the programs compiled
          MaxAttempts,   \* Resolver::resolve gives up after this many (64)
          MaxCommands    \* bound on the commands and edits of a behaviour

VARIABLES remote,    \* [Names -> [VersionTexts -> published package]]
          disk,      \* [root -> [Names -> [VersionTexts -> content]]]
          manifest,  \* cwhip-pkg.toml
          lock,      \* cwhip-pkg.lock
          job,       \* the command that runs, or ran last
          budget,    \* commands left
          intact     \* nothing changed since a tool command succeeded
vars == <<remote, disk, manifest, lock, job, budget, intact>>

ASSUME PackagesAssumption ==
  /\ MaxAttempts \in Nat \ {0}
  /\ \A v \in VersionTexts : parseVersion(v).ok

Contents == {"none", "partial", "good", "edited"}
Disks == [{"cli", "project", "user"} -> [Names -> [VersionTexts -> Contents]]]

ASSUME WorldsHaveDisks == \A w \in Worlds : w.disk \in Disks

Parsed == [v \in VersionTexts |-> parseVersion(v)]
StableTexts == {v \in VersionTexts : Parsed[v].prerelease = <<>>}
None == <<>>           \* no version
NoPins == [n \in Names |-> None]
Pinned(pins) == {n \in Names : pins[n] # None}
Published(n, v) == v # None /\ remote[n][v].published
DepsOf(n, v) == remote[n][v].deps
NoLock == [present |-> FALSE, direct |-> NoPins, versions |-> NoPins]
Idle == [kind |-> "idle", pc |-> "done"]
Resting == job.pc \in {"done", "failed", "built", "killed"}

Init ==
  /\ \E w \in Worlds :
       /\ remote = w.remote
       /\ disk = w.disk
       /\ manifest = [present |-> w.project, direct |-> NoPins]
       /\ lock = [NoLock EXCEPT !.present = w.project]
       /\ budget = w.budget
  /\ job = Idle
  /\ intact = FALSE

Command(j) ==
  /\ Resting /\ budget > 0
  /\ budget' = budget - 1
  /\ job' = j
  /\ UNCHANGED <<remote, disk, manifest, lock, intact>>

-----------------------------------------------------------------------------
(* The compiler.                                                           *)

Search(cli) == IF cli THEN <<"cli", "project", "user">> ELSE <<"project", "user">>

\* resolveModuleSearchPaths refuses a manifest or a lock without the other;
\* readLockedPolicy refuses a lock whose manifest has changed since.
compile_start(imports, cli) ==
  LET refused == manifest.present # lock.present
                 \/ (lock.present /\ lock.direct # manifest.direct)
  IN Command([kind |-> "compile", pc |-> IF refused THEN "failed" ELSE "roots",
              why |-> IF refused THEN "lock" ELSE "none",
              imports |-> imports, roots |-> Search(cli), locked |-> lock.present,
              requested |-> <<>>, work |-> <<>>, attempt |-> 0, pins |-> NoPins,
              found |-> NoPins, seen |-> {}, restart |-> FALSE, graph |-> NoPins,
              active |-> {}, preorder |-> <<>>, loading |-> {}, order |-> <<>>])

\* Resolver::discover: the candidates of the first root that has any; a
\* directory without a usable manifest on the way is an error.
Present(root, n) == {v \in VersionTexts : disk[root][n][v] # "none"}
RootOf(n) ==
  LET holding == {i \in DOMAIN job.roots : Present(job.roots[i], n) # {}}
  IN IF holding = {} THEN "nowhere"
     ELSE job.roots[CHOOSE i \in holding : \A j \in holding : i <= j]
discover(n) ==
  LET root == RootOf(n)
      found == IF root = "nowhere" THEN {} ELSE Present(root, n)
  IN [ok |-> \A v \in found : disk[root][n][v] # "partial", versions |-> found]

\* The highest of the stable versions.
Stable(V) == V \cap StableTexts
NotBelow == {p \in VersionTexts \X VersionTexts : compareVersion(Parsed[p[1]], Parsed[p[2]]) >= 0}
Highest(V) == CHOOSE v \in V : \A o \in V : <<v, o>> \in NotBelow

\* Resolver::select.
select(n, required) ==
  LET d == discover(n)
      no(why) == [ok |-> FALSE, version |-> None, why |-> why]
      yes(v) == [ok |-> TRUE, version |-> v, why |-> "none"]
      listed == lock.versions[n]
  IN IF job.locked /\ listed = None THEN no("unlisted")
     ELSE IF ~d.ok THEN no("candidate")
     ELSE IF job.locked
          THEN IF listed \notin d.versions \/ (required # None /\ required # listed)
               THEN no("version")
               ELSE IF disk[RootOf(n)][n][listed] # "good" THEN no("integrity") ELSE yes(listed)
     ELSE IF required = None
          THEN IF Stable(d.versions) = {} THEN no("version") ELSE yes(Highest(Stable(d.versions)))
     ELSE IF required \in d.versions THEN yes(required) ELSE no("version")

Compiling(pc) == job.kind = "compile" /\ job.pc = pc
Continue(j) == job' = j /\ UNCHANGED <<remote, disk, manifest, lock, budget, intact>>
Refuse(why) == Continue([job EXCEPT !.pc = "failed", !.why = why])

\* One round over the requested names, from the pins known so far.
Attempt(j) ==
  [j EXCEPT !.pc = "resolve", !.found = NoPins, !.restart = FALSE, !.graph = NoPins,
            !.active = {}, !.preorder = <<>>,
            !.work = [i \in DOMAIN j.requested |->
                        [do |-> "visit", name |-> j.requested[i], version |-> j.pins[j.requested[i]]]]]

\* Resolver::resolve until its loop: without a lock, only the names with an
\* installed candidate are resolved.
resolve_roots ==
  LET wanted == SelectSeq(job.imports, LAMBDA n : job.locked \/ discover(n).versions # {})
  IN /\ Compiling("roots")
     /\ IF ~job.locked /\ \E i \in DOMAIN job.imports : ~discover(job.imports[i]).ok
        THEN Refuse("candidate")
        ELSE Continue(IF wanted = <<>> THEN [job EXCEPT !.pc = "settled"]
                      ELSE Attempt([job EXCEPT !.requested = wanted]))

\* Resolver::visit, its recursion kept as a list of calls to make.
visit ==
  LET call == Head(job.work)
      n == call.name
      conflict == /\ ~job.locked /\ call.version # None
                  /\ job.found[n] \notin {None, call.version}
      chosen == select(n, call.version)
      found == IF call.version # None /\ job.found[n] = None
               THEN [job.found EXCEPT ![n] = call.version] ELSE job.found
      next == [job EXCEPT !.work = Tail(@), !.found = found]
      deps == DepsOf(n, chosen.version)
      calls == [i \in DOMAIN deps |-> [do |-> "visit", name |-> deps[i][1], version |-> deps[i][2]]]
  IN /\ Compiling("resolve") /\ job.work # <<>> /\ call.do = "visit"
     /\ IF conflict THEN Refuse("conflict")
        ELSE IF ~chosen.ok THEN Refuse(chosen.why)
        ELSE IF job.graph[n] = None
             THEN Continue([next EXCEPT !.graph[n] = chosen.version,
                              !.active = @ \cup {n}, !.preorder = Append(@, n),
                              !.work = calls \o <<[do |-> "leave", name |-> n, version |-> None]>> \o @])
        ELSE IF job.graph[n] # chosen.version THEN Continue([next EXCEPT !.restart = TRUE])
        ELSE IF n \in job.active THEN Refuse("cycle")
        ELSE Continue(next)

visit_leave ==
  /\ Compiling("resolve") /\ job.work # <<>> /\ Head(job.work).do = "leave"
  /\ Continue([job EXCEPT !.active = @ \ {Head(job.work).name}, !.work = Tail(@)])

\* The imports i of owner (the program when it is "") as calls of load.
Loads(owner, i) == [k \in DOMAIN i |-> [do |-> "load", name |-> i[k], owner |-> owner]]

\* Mutant: a round that had to start over is taken as settled.
attempt_done_mut ==
  LET settled == job.found = job.pins \/ job.restart
      known == [job EXCEPT !.pins = job.found, !.seen = @ \cup {job.found}, !.attempt = @ + 1]
  IN /\ Compiling("resolve") /\ job.work = <<>>
     /\ IF settled THEN Continue([job EXCEPT !.pc = "settled"])
        ELSE IF job.found \in job.seen THEN Refuse("converge")
        ELSE IF job.attempt = MaxAttempts - 1 THEN Refuse("limit")
        ELSE Continue(Attempt(known))

\* The end of a round: settled when it found the pins it began with; a round
\* that met a second version of a package starts over without being counted
\* among the states seen.
attempt_done ==
  LET settled == ~job.restart /\ job.found = job.pins
      known == [job EXCEPT !.pins = job.found, !.attempt = @ + 1,
                           !.seen = IF job.restart THEN @ ELSE @ \cup {job.found}]
  IN /\ Compiling("resolve") /\ job.work = <<>>
     /\ IF settled THEN Continue([job EXCEPT !.pc = "settled"])
        ELSE IF ~job.restart /\ job.found \in job.seen THEN Refuse("converge")
        ELSE IF job.attempt = MaxAttempts - 1 THEN Refuse("limit")
        ELSE Continue(Attempt(known))

load_start ==
  /\ Compiling("settled")
  /\ Continue([job EXCEPT !.pc = "load", !.work = Loads("", job.imports)])

Declared(owner, n) ==
  \E i \in DOMAIN DepsOf(owner, job.graph[owner]) : DepsOf(owner, job.graph[owner])[i][1] = n

\* load of ModuleRegistry.cpp, its recursion as a list of calls.  A package
\* imports only what its manifest declares.  A name the resolution left out
\* is resolved once more there; it still has no candidate, so it is missing.
load ==
  LET call == Head(job.work)
      n == call.name
      next == [job EXCEPT !.work = Tail(@)]
  IN /\ Compiling("load") /\ job.work # <<>> /\ call.do = "load"
     /\ IF call.owner # "" /\ ~Declared(call.owner, n) THEN Refuse("undeclared")
        ELSE IF job.graph[n] = None THEN Refuse("missing")
        ELSE IF n \in job.loading THEN Refuse("import cycle")
        ELSE IF \E i \in DOMAIN job.order : job.order[i] = n THEN Continue(next)
        ELSE Continue([next EXCEPT !.loading = @ \cup {n},
                         !.work = Loads(n, remote[n][job.graph[n]].imports)
                                  \o <<[do |-> "loaded", name |-> n, owner |-> ""]>> \o @])

load_leave ==
  /\ Compiling("load") /\ job.work # <<>> /\ Head(job.work).do = "loaded"
  /\ Continue([job EXCEPT !.loading = @ \ {Head(job.work).name}, !.work = Tail(@),
                          !.order = Append(@, Head(job.work).name)])

compile_done ==
  /\ Compiling("load") /\ job.work = <<>>
  /\ Continue([job EXCEPT !.pc = "built"])
=============================================================================
