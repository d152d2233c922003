-------------------------- MODULE PackageToolProofs --------------------------
(***************************************************************************)
(* Proof that a command of cwhip-pkg which reports failure has changed     *)
(* nothing, for any set of packages, versions and published graphs.        *)
(***************************************************************************)
EXTENDS PackageTool, TLAPS

\* The fields of a command of the tool.
ToolShape ==
  job = [kind |-> job.kind, pc |-> job.pc, direct |-> job.direct, versions |-> job.versions,
         staged |-> job.staged, frozen |-> job.frozen, created |-> job.created,
         wrote |-> job.wrote, before |-> job.before]

\* Every job has a kind and a state, and the fields the tool's steps update.
JobInv ==
  /\ "kind" \in DOMAIN job /\ "pc" \in DOMAIN job
  /\ job.kind = "tool" => ToolShape

\* What the tool remembers of the state before it.
BeforeShape ==
  job.before = [disk |-> job.before.disk, manifest |-> job.before.manifest,
                lock |-> job.before.lock]

\* The writes of a command that has not failed yet.
Active == job.kind = "tool" /\ job.pc \in {"copy", "copying", "restore", "remove"}

\* The files differ from what they were only if the tool has written them and
\* not yet restored them.
FilesInv ==
  Active =>
    /\ "manifest" \notin job.wrote \/ job.pc = "remove" => manifest = job.before.manifest
    /\ "lock" \notin job.wrote \/ job.pc = "remove" => lock = job.before.lock

\* The disk differs only in the directories the tool has made, and these did
\* not exist.
DirectoriesInv ==
  Active =>
    /\ job.before.disk \in Disks
    /\ \A r \in {"cli", "user"} : disk[r] = job.before.disk[r]
    /\ \A n \in Names, v \in VersionTexts :
         IF <<n, v>> \in job.created
         THEN job.before.disk["project"][n][v] = "none"
         ELSE disk["project"][n][v] = job.before.disk["project"][n][v]

\* The directory that is being filled is one the tool has made.
FillingInv ==
  Active /\ job.pc = "copying" =>
    <<Head(job.staged), job.versions[Head(job.staged)]>> \in job.created

IInv ==
  /\ disk \in Disks
  /\ JobInv
  /\ job.kind = "tool" => BeforeShape
  /\ FilesInv /\ DirectoriesInv /\ FillingInv
  /\ RollbackExact

----------------------------------------------------------------------------
\* The steps of the compiler.
CompilerSteps ==
  \/ resolve_roots \/ visit \/ visit_leave \/ attempt_done
  \/ load_start \/ load \/ load_leave \/ compile_done

\* A step of the compiler writes nothing and stays the same command.
LEMMA CompilerWritesNothing ==
  ASSUME JobInv, CompilerSteps
  PROVE  /\ UNCHANGED disk
         /\ "kind" \in DOMAIN job' /\ "pc" \in DOMAIN job' /\ job'.kind = "compile"
<1> USE DEF JobInv, Continue, Refuse, Compiling
<1>1. CASE resolve_roots
  BY <1>1 DEF resolve_roots, Attempt
<1>2. CASE visit
  BY <1>2 DEF visit
<1>3. CASE visit_leave
  BY <1>3 DEF visit_leave
<1>4. CASE attempt_done
  BY <1>4 DEF attempt_done, Attempt
<1>5. CASE load_start
  BY <1>5 DEF load_start
<1>6. CASE load
  BY <1>6 DEF load
<1>7. CASE load_leave
  BY <1>7 DEF load_leave
<1>8. CASE compile_done
  BY <1>8 DEF compile_done
<1> QED
  BY <1>1, <1>2, <1>3, <1>4, <1>5, <1>6, <1>7, <1>8 DEF CompilerSteps

\* A command of the tool begins with the present state as the one to go back to.
LEMMA ToolBegins ==
  ASSUME IInv, NEW ok, NEW direct, NEW versions, NEW staged, NEW frozen,
         Tool(ok, direct, versions, staged, frozen)
  PROVE  IInv'
<1> DEFINE p == IF ok /\ inspect_installed(versions).ok THEN "copy" ELSE "failed"
<1>1. /\ UNCHANGED <<disk, manifest, lock>>
      /\ job' = [kind |-> "tool", pc |-> p,
                 direct |-> direct, versions |-> versions, staged |-> InOrder(staged),
                 frozen |-> frozen, created |-> {}, wrote |-> {},
                 before |-> [disk |-> disk, manifest |-> manifest, lock |-> lock]]
  BY DEF Tool, Command
<1>2. p \in {"copy", "failed"}
  OBVIOUS
<1> HIDE DEF p
<1> QED
  BY <1>1, <1>2 DEF IInv, JobInv, ToolShape, BeforeShape, Active, FilesInv, DirectoriesInv,
         FillingInv, RollbackExact

\* The steps by which a command of the tool writes keep its record exact.
LEMMA PersistKeepsRecord ==
  ASSUME IInv,
         \/ persist_mkdir \/ persist_copy \/ persist_manifest \/ persist_lock
         \/ persist_done \/ persist_fails
  PROVE  IInv'
<1> USE DEF Running
<1>1. job.kind = "tool" /\ ToolShape /\ BeforeShape /\ disk \in Disks
  BY DEF IInv, JobInv, persist_mkdir, persist_copy, persist_manifest, persist_lock,
         persist_done, persist_fails
<1>2. CASE persist_mkdir
  <2> DEFINE n == Head(job.staged)
             v == job.versions[n]
  <2>1. CASE disk["project"][n][v] # "none"
    <3>1. job' = [job EXCEPT !.staged = Tail(@)] /\ UNCHANGED <<disk, manifest, lock>>
      BY <1>2, <2>1 DEF persist_mkdir
    <3> QED
      BY <1>1, <1>2, <3>1 DEF IInv, JobInv, ToolShape, BeforeShape, Active, FilesInv,
             DirectoriesInv, FillingInv, RollbackExact, persist_mkdir
  <2>2. CASE disk["project"][n][v] = "none"
    <3>1. /\ disk' = [disk EXCEPT !["project"][n][v] = "partial"]
          /\ job' = [job EXCEPT !.pc = "copying", !.created = @ \cup {<<n, v>>}]
          /\ job.pc = "copy"
          /\ UNCHANGED <<manifest, lock>>
      BY <1>2, <2>2 DEF persist_mkdir
    <3>2. /\ disk' \in Disks
          /\ \A r \in {"cli", "user"} : disk'[r] = disk[r]
          /\ \A m \in Names, w \in VersionTexts :
               <<m, w>> # <<n, v>> => disk'["project"][m][w] = disk["project"][m][w]
      <4> HIDE DEF n, v
      <4>1. CASE n \in Names
        BY <1>1, <3>1, <4>1 DEF Disks, Contents
      <4>2. CASE n \notin Names
        BY <1>1, <3>1, <4>2 DEF Disks, Contents
      <4> QED
        BY <4>1, <4>2
    <3>3. JobInv' /\ BeforeShape' /\ RollbackExact'
      BY <1>1, <3>1 DEF JobInv, ToolShape, BeforeShape, RollbackExact
    <3>4. job'.before = job.before /\ job'.created = job.created \cup {<<n, v>>}
          /\ job'.wrote = job.wrote /\ job'.pc = "copying" /\ job'.kind = "tool"
          /\ job'.staged = job.staged /\ job'.versions = job.versions
      BY <1>1, <3>1 DEF ToolShape
    <3>5. FilesInv'
      BY <1>1, <3>1, <3>4 DEF IInv, FilesInv, Active
    <3>6. FillingInv'
      BY <3>4 DEF FillingInv, Active
    <3>7. DirectoriesInv'
      <4>1. /\ job.before.disk \in Disks
            /\ \A r \in {"cli", "user"} : disk[r] = job.before.disk[r]
            /\ \A m \in Names, w \in VersionTexts :
                 IF <<m, w>> \in job.created
                 THEN job.before.disk["project"][m][w] = "none"
                 ELSE disk["project"][m][w] = job.before.disk["project"][m][w]
        BY <1>1, <3>1 DEF IInv, DirectoriesInv, Active
      <4>2. ASSUME NEW m \in Names, NEW w \in VersionTexts
            PROVE  IF <<m, w>> \in job'.created
                   THEN job'.before.disk["project"][m][w] = "none"
                   ELSE disk'["project"][m][w] = job'.before.disk["project"][m][w]
        <5>1. CASE <<m, w>> = <<n, v>>
          BY <2>2, <3>4, <4>1, <5>1
        <5>2. CASE <<m, w>> # <<n, v>>
          BY <3>2, <3>4, <4>1, <5>2
        <5> QED
          BY <5>1, <5>2
      <4> QED
        BY <3>2, <3>4, <4>1, <4>2 DEF DirectoriesInv
    <3> QED
      BY <3>2, <3>3, <3>5, <3>6, <3>7 DEF IInv
  <2> QED
    BY <2>1, <2>2
<1>3. CASE persist_copy
  <2> DEFINE n == Head(job.staged)
             v == job.versions[n]
  <2>1. /\ disk' = [disk EXCEPT !["project"][n][v] = "good"]
        /\ job' = [job EXCEPT !.pc = "copy", !.staged = Tail(@)]
        /\ job.pc = "copying"
        /\ UNCHANGED <<manifest, lock>>
    BY <1>3 DEF persist_copy
  <2>2. /\ disk' \in Disks
        /\ \A r \in {"cli", "user"} : disk'[r] = disk[r]
        /\ \A m \in Names, w \in VersionTexts :
             <<m, w>> # <<n, v>> => disk'["project"][m][w] = disk["project"][m][w]
    <3> HIDE DEF n, v
    <3>1. CASE n \in Names
      BY <1>1, <2>1, <3>1 DEF Disks, Contents
    <3>2. CASE n \notin Names
      BY <1>1, <2>1, <3>2 DEF Disks, Contents
    <3> QED
      BY <3>1, <3>2
  <2>3. JobInv' /\ BeforeShape' /\ RollbackExact'
    BY <1>1, <2>1 DEF JobInv, ToolShape, BeforeShape, RollbackExact
  <2>4. job'.before = job.before /\ job'.created = job.created
        /\ job'.wrote = job.wrote /\ job'.pc = "copy" /\ job'.kind = "tool"
    BY <1>1, <2>1 DEF ToolShape
  <2>5. FilesInv' /\ FillingInv'
    BY <1>1, <2>1, <2>4 DEF IInv, FilesInv, FillingInv, Active
  <2>6. <<n, v>> \in job.created
    BY <1>1, <2>1 DEF IInv, FillingInv, Active
  <2>7. DirectoriesInv'
    BY <1>1, <2>1, <2>2, <2>4, <2>6 DEF IInv, DirectoriesInv, Active
  <2> QED
    BY <2>2, <2>3, <2>5, <2>7 DEF IInv
<1>4. CASE persist_manifest
  BY <1>1, <1>4 DEF IInv, JobInv, ToolShape, BeforeShape, Active, FilesInv,
         DirectoriesInv, FillingInv, RollbackExact, persist_manifest
<1>5. CASE persist_lock
  BY <1>1, <1>5 DEF IInv, JobInv, ToolShape, BeforeShape, Active, FilesInv,
         DirectoriesInv, FillingInv, RollbackExact, persist_lock
<1>6. CASE persist_done
  BY <1>1, <1>6 DEF IInv, JobInv, ToolShape, BeforeShape, Active, FilesInv,
         DirectoriesInv, FillingInv, RollbackExact, persist_done
<1>7. CASE persist_fails
  BY <1>1, <1>7 DEF IInv, JobInv, ToolShape, BeforeShape, Active, FilesInv,
         DirectoriesInv, FillingInv, RollbackExact, persist_fails
<1> QED
  BY <1>2, <1>3, <1>4, <1>5, <1>6, <1>7

\* The two steps of the rollback end in the state before the command.
LEMMA RollbackRestores ==
  ASSUME IInv, rollback_files \/ rollback_created
  PROVE  IInv'
<1> USE DEF Running
<1>1. job.kind = "tool" /\ ToolShape /\ BeforeShape /\ disk \in Disks
  BY DEF IInv, JobInv, rollback_files, rollback_created
<1>2. CASE rollback_files
  BY <1>1, <1>2 DEF IInv, JobInv, ToolShape, BeforeShape, Active, FilesInv,
         DirectoriesInv, FillingInv, RollbackExact, rollback_files
<1>3. CASE rollback_created
  <2> DEFINE cleared == [n \in Names |-> [v \in VersionTexts |->
                           IF <<n, v>> \in job.created THEN "none" ELSE disk["project"][n][v]]]
  <2>1. /\ disk' = [disk EXCEPT !["project"] = cleared]
        /\ job' = [job EXCEPT !.pc = "failed"] /\ job.pc = "remove"
        /\ UNCHANGED <<manifest, lock>>
    BY <1>3 DEF rollback_created
  <2>2. cleared \in [Names -> [VersionTexts -> Contents]]
    BY <1>1 DEF Disks, Contents
  <2>3. /\ job.before.disk \in Disks
        /\ \A r \in {"cli", "user"} : disk[r] = job.before.disk[r]
        /\ \A n \in Names, v \in VersionTexts :
             IF <<n, v>> \in job.created
             THEN job.before.disk["project"][n][v] = "none"
             ELSE disk["project"][n][v] = job.before.disk["project"][n][v]
        /\ manifest = job.before.manifest /\ lock = job.before.lock
    BY <1>1, <2>1 DEF IInv, DirectoriesInv, FilesInv, Active
  <2>4. cleared = job.before.disk["project"]
    <3>1. job.before.disk["project"] \in [Names -> [VersionTexts -> Contents]]
      BY <2>3 DEF Disks
    <3>2. \A n \in Names : cleared[n] = job.before.disk["project"][n]
      <4> TAKE n \in Names
      <4>1. \A v \in VersionTexts : cleared[n][v] = job.before.disk["project"][n][v]
        BY <2>3
      <4> QED
        BY <2>2, <3>1, <4>1
    <3> HIDE DEF cleared
    <3> QED
      BY <2>2, <3>1, <3>2
  <2>5. disk' \in Disks
    BY <1>1, <2>1, <2>2 DEF Disks
  <2> HIDE DEF cleared
  <2>6. disk' = job.before.disk
    BY <1>1, <2>1, <2>3, <2>4 DEF Disks
  <2>7. job'.kind = "tool" /\ job'.pc = "failed" /\ job'.before = job.before /\ ToolShape'
    BY <1>1, <2>1 DEF ToolShape
  <2> QED
    BY <1>1, <2>1, <2>3, <2>5, <2>6, <2>7 DEF IInv, JobInv, BeforeShape, Active, FilesInv,
           DirectoriesInv, FillingInv, RollbackExact
<1> QED
  BY <1>2, <1>3

\* A killed tool is no longer active, and it leaves a disk.
LEMMA KilledKeepsTypes == ASSUME IInv, killed PROVE IInv'
<1>1. job.kind = "tool" /\ ToolShape /\ BeforeShape /\ disk \in Disks
  BY DEF IInv, JobInv, killed
<1>2. job' = [job EXCEPT !.pc = "killed"]
  BY DEF killed
<1>3. job'.kind = "tool" /\ job'.pc = "killed" /\ job'.before = job.before /\ ToolShape'
  BY <1>1, <1>2 DEF ToolShape
<1>4. disk' \in Disks
  <2> DEFINE n == IF job.pc = "copying"
                  THEN {<<Head(job.staged), job.versions[Head(job.staged)]>>} ELSE {}
             left(c) == [m \in Names |-> [v \in VersionTexts |->
                           IF <<m, v>> \in n THEN c ELSE disk["project"][m][v]]]
  <2>1. PICK c \in {"partial", "edited"} : disk' = [disk EXCEPT !["project"] = left(c)]
    BY DEF killed
  <2> HIDE DEF n
  <2>2. left(c) \in [Names -> [VersionTexts -> Contents]]
    BY <1>1 DEF Disks, Contents
  <2> HIDE DEF left
  <2> QED
    BY <1>1, <2>1, <2>2 DEF Disks
<1> QED
  BY <1>1, <1>2, <1>3, <1>4 DEF IInv, JobInv, BeforeShape, Active, FilesInv,
         DirectoriesInv, FillingInv, RollbackExact

\* Another command, or a person, takes over from a command that has ended.
LEMMA OthersKeepTypes == ASSUME IInv, Compile \/ Person PROVE IInv'
<1>1. disk' \in Disks
  <2>1. CASE Compile
    BY <2>1 DEF IInv, Compile, compile_start, Command
  <2>2. CASE Person /\ UNCHANGED disk
    BY <2>2 DEF IInv
  <2>3. ASSUME NEW n \in Names, NEW v \in VersionTexts, NEW c \in {"edited", "none"},
               disk' = [disk EXCEPT !["project"][n][v] = c]
        PROVE  disk' \in Disks
    BY <2>3 DEF IInv, Disks, Contents
  <2> QED
    BY <2>1, <2>2, <2>3 DEF Person
<1>2. "kind" \in DOMAIN job' /\ "pc" \in DOMAIN job' /\ job'.kind \in {"idle", "compile"}
  BY DEF Compile, compile_start, Command, Person, Idle
<1> QED
  BY <1>1, <1>2 DEF IInv, JobInv, Active, FilesInv, DirectoriesInv, FillingInv, RollbackExact

\* A command of the tool that reports failure has changed nothing: whatever
\* step failed, package directories, manifest and lock are what they were.
THEOREM FailureChangesNothing == Spec => []RollbackExact
<1>1. Init => IInv
  BY WorldsHaveDisks DEF Init, Idle, IInv, JobInv, Active, FilesInv, DirectoriesInv,
         FillingInv, RollbackExact
<1>2. IInv /\ [Next]_vars => IInv'
  <2> SUFFICES ASSUME IInv, [Next]_vars PROVE IInv'
    OBVIOUS
  <2>1. CASE UNCHANGED vars
    BY <2>1 DEF vars, IInv, JobInv, ToolShape, BeforeShape, Active, FilesInv,
           DirectoriesInv, FillingInv, RollbackExact
  <2>2. CASE \/ \E n \in Names, v \in VersionTexts : command_add(n, v)
             \/ command_install \/ command_init
    BY <2>2, ToolBegins DEF command_add, command_install, command_init
  <2>3. CASE CompilerSteps
    BY <2>3, CompilerWritesNothing DEF IInv, JobInv, Active, FilesInv, DirectoriesInv,
           FillingInv, RollbackExact
  <2> QED
    BY <2>1, <2>2, <2>3, PersistKeepsRecord, RollbackRestores, KilledKeepsTypes,
       OthersKeepTypes DEF Next, Steps, CompilerSteps
<1>3. IInv => RollbackExact
  BY DEF IInv
<1> QED
  BY <1>1, <1>2, <1>3, PTL DEF Spec
=============================================================================
