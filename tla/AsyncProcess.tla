---------------------------- MODULE AsyncProcess ----------------------------
(***************************************************************************)
(* A child process with captured output: src/src/RuntimeProcessAsync.c and *)
(* class AsyncProcess of src/stdlib/process/0.1.0/process.cw.  The actors  *)
(* are the pump thread, the Cwhip threads that share one AsyncProcess      *)
(* object, the child with its descendants, and the clock.                  *)
(*                                                                         *)
(* A section under process->lock is one step.  A Cwhip thread holds the    *)
(* global lock exactly while it is at "run" (LockDiscipline of module      *)
(* Threads); calls start there and their blocking parts run without it.    *)
(* An output event is <<stream, n>>: the n-th chunk read from the stream.  *)
(* The clock is abstract: a deadline that was set passes some time.        *)
(***************************************************************************)
EXTENDS Naturals, Sequences, FiniteSets

CONSTANTS Clients,    \* Cwhip threads that may use the object
          Worlds      \* circumstances of a run, one of which holds throughout:
                      \* users      the Cwhip threads that use the object
                      \* output     the streams that the child writes to
                      \* maxWrites  bound on the chunks written to them
                      \* autoReap   SIGCHLD may be ignored, so that no zombie is left
                      \* faults     reads and allocations of events may fail

Streams == {"stdout", "stderr"}

ASSUME ClientsAreFinite == IsFiniteSet(Clients)
ASSUME WorldsAssumption ==
  \A w \in Worlds : /\ w.users \subseteq Clients
                     /\ w.output \subseteq Streams /\ w.maxWrites \in Nat
                     /\ w.autoReap \in BOOLEAN /\ w.faults \in BOOLEAN

COMPLETED == <<"completed", 0>>
FinalStates == {"EXITED", "SIGNALED", "CANCELLED", "LAUNCH_FAILED", "WAIT_FAILED"}

VARIABLES
  world,
  \* CwhipAsyncProcess
  object,       \* "none", "null" (no memory for it), "live" or "freed"
  references,
  events,       \* the list head..tail
  reaped, completed, completionTaken, closing,
  cancelRequested, cancelEffective, killed,
  state,
  error,        \* an error message is recorded
  fd,           \* stdout_fd, stderr_fd: open or closed
  pumpStarted, pumpJoining, pumpJoined,
  \* clock
  killDeadline, \* kill_deadline: "none", "pending" or "passed"
  drainOver,    \* CANCEL_DRAIN_MILLISECONDS have passed since cancel and reap
  \* the pump
  pump, abandon,
  \* the child and the pipes
  child,        \* "none", "running", "exited", "signaled", "gone"
  descendant,   \* a background process of the child holds the pipes open
  pipe,         \* chunks written and not yet read
  written,      \* history: chunks written
  \* Cwhip threads and the wrapper object
  pc, timed,
  closed, cachedState,   \* _closed, _state
  \* history
  delivered,    \* chunks handed out by next()
  strayKill,    \* a signal was sent to an id that no longer is the child's
  failed        \* a read failed, or an event could not be allocated

objectVars == <<object, references>>
flowVars == <<events, completed, completionTaken>>
cancelVars == <<closing, cancelRequested, cancelEffective, killed, killDeadline>>
reapVars == <<reaped, state>>
joinVars == <<pumpStarted, pumpJoining, pumpJoined>>
pumpVars == <<pump, abandon, fd, error>>
childVars == <<child, descendant, pipe, written>>
clientVars == <<pc, timed>>
wrapperVars == <<closed, cachedState>>
historyVars == <<delivered, strayKill, failed>>
vars == <<world, objectVars, flowVars, cancelVars, reapVars, joinVars, pumpVars,
          drainOver, childVars, clientVars, wrapperVars, historyVars>>

NextSteps == {"next_loop", "next_sleep"}
WaitSteps == {"wait_loop", "wait_sleep"}
ShutSteps == {"shut_join", "shut_loop", "shut_sleep"}
Returning == {"next_return", "wait_return_true", "wait_return_false", "shut_return"}
PCs == {"outside", "run"} \cup NextSteps \cup WaitSteps \cup ShutSteps \cup Returning
PumpPCs == {"none", "drain_stdout", "drain_stderr", "check", "finish", "done"}

TypeOK ==
  /\ world \in Worlds
  /\ object \in {"none", "null", "live", "freed"}
  /\ references \in 0..(Cardinality(Clients) + 1)
  /\ events \in Seq((Streams \X Nat) \cup {COMPLETED})
  /\ state \in FinalStates \cup {"RUNNING"}
  /\ fd \in [Streams -> BOOLEAN]
  /\ killDeadline \in {"none", "pending", "passed"}
  /\ pump \in PumpPCs
  /\ child \in {"none", "running", "exited", "signaled", "gone"}
  /\ pipe \in [Streams -> 0..world.maxWrites]
  /\ written \in [Streams -> 0..world.maxWrites]
  /\ delivered \in [Streams -> 0..world.maxWrites]
  /\ pc \in [Clients -> PCs]
  /\ timed \in [Clients -> BOOLEAN]
  /\ cachedState \in FinalStates \cup {"RUNNING"}
  /\ reaped \in BOOLEAN /\ completed \in BOOLEAN /\ completionTaken \in BOOLEAN
  /\ closing \in BOOLEAN /\ cancelRequested \in BOOLEAN /\ cancelEffective \in BOOLEAN
  /\ killed \in BOOLEAN /\ error \in BOOLEAN /\ drainOver \in BOOLEAN
  /\ pumpStarted \in BOOLEAN /\ pumpJoining \in BOOLEAN /\ pumpJoined \in BOOLEAN
  /\ abandon \in BOOLEAN /\ descendant \in BOOLEAN
  /\ closed \in BOOLEAN /\ strayKill \in BOOLEAN /\ failed \in BOOLEAN

Init ==
  /\ world \in Worlds
  /\ object = "none" /\ references = 0
  /\ events = <<>>
  /\ reaped = FALSE /\ completed = FALSE /\ completionTaken = FALSE
  /\ closing = FALSE
  /\ cancelRequested = FALSE /\ cancelEffective = FALSE /\ killed = FALSE
  /\ state = "RUNNING" /\ error = FALSE
  /\ fd = [s \in Streams |-> FALSE]
  /\ pumpStarted = FALSE /\ pumpJoining = FALSE /\ pumpJoined = FALSE
  /\ killDeadline = "none" /\ drainOver = FALSE
  /\ pump = "none" /\ abandon = FALSE
  /\ child = "none" /\ descendant = FALSE
  /\ pipe = [s \in Streams |-> 0] /\ written = [s \in Streams |-> 0]
  /\ pc = [c \in Clients |-> "outside"] /\ timed = [c \in Clients |-> FALSE]
  /\ closed = FALSE /\ cachedState = "RUNNING"
  /\ delivered = [s \in Streams |-> 0]
  /\ strayKill = FALSE /\ failed = FALSE

----------------------------------------------------------------------------
(* Building blocks.                                                        *)

Goto(c, label) == pc' = [pc EXCEPT ![c] = label]

\* The global lock is free, as every thread at "run" holds it.
GilFree == \A c \in Clients : pc[c] # "run"

\* pthread_cond_broadcast(&process->changed): sleeping calls test again.
Awake(label) == CASE label = "next_sleep" -> "next_loop"
                  [] label = "wait_sleep" -> "wait_loop"
                  [] label = "shut_sleep" -> "shut_loop"
                  [] OTHER -> label
Broadcast == pc' = [c \in Clients |-> Awake(pc[c])]

\* signal_child_locked: sent by process id, whoever has it now.
signal_child_locked == strayKill' = (strayKill \/ child = "gone")

\* The object is destroyed with its last reference.
release(count) ==
  /\ references' = references - count
  /\ object' = IF references = count THEN "freed" ELSE object

\* record_error_locked: there may be no memory for the message.
record_error_locked == error' = TRUE \/ (world.faults /\ UNCHANGED error)

Count(s) == Cardinality({i \in 1..Len(events) : events[i][1] = s})

----------------------------------------------------------------------------
(* The constructor: cwhip_process_async_start.                             *)

gil_acquire(c) ==
  /\ pc[c] = "outside" /\ GilFree
  /\ Goto(c, "run")
  /\ UNCHANGED <<objectVars, flowVars, cancelVars, reapVars, joinVars, pumpVars, drainOver,
                 childVars, timed, wrapperVars, historyVars>>

gil_release(c) ==
  /\ pc[c] = "run"
  /\ Goto(c, "outside")
  /\ UNCHANGED <<objectVars, flowVars, cancelVars, reapVars, joinVars, pumpVars, drainOver,
                 childVars, timed, wrapperVars, historyVars>>

async_start(c) ==
  /\ pc[c] = "run" /\ object = "none"
  /\ object' = "live" /\ references' = 1
  /\ child' = "running"
  /\ fd' = [s \in Streams |-> TRUE]
  /\ pump' = "drain_stdout" /\ pumpStarted' = TRUE
  /\ UNCHANGED <<flowVars, cancelVars, reapVars, pumpJoining, pumpJoined, abandon, error,
                 drainOver, descendant, pipe, written, clientVars, wrapperVars, historyVars>>

\* There is no memory for the object: the handle is null.
async_start_null(c) ==
  /\ pc[c] = "run" /\ object = "none" /\ world.faults
  /\ object' = "null"
  /\ UNCHANGED <<references, flowVars, cancelVars, reapVars, joinVars, pumpVars, drainOver,
                 childVars, clientVars, wrapperVars, historyVars>>

\* fail_launch, also after a failed pthread_create: the child was killed and
\* waited for, so the object is complete and has no pump.  The event may be
\* missing, as its allocation is not checked.
fail_launch(c) ==
  /\ pc[c] = "run" /\ object = "none"
  /\ object' = "live" /\ references' = 1
  /\ state' = "LAUNCH_FAILED" /\ reaped' = TRUE /\ completed' = TRUE
  /\ record_error_locked
  /\ \/ events' = <<COMPLETED>> /\ UNCHANGED failed
     \/ world.faults /\ failed' = TRUE /\ UNCHANGED events
  /\ UNCHANGED <<completionTaken, cancelVars, joinVars, pump, abandon, fd, drainOver,
                 childVars, clientVars, wrapperVars, delivered, strayKill>>

----------------------------------------------------------------------------
(* The child, its descendants and the clock (environment).                 *)

Writers == child = "running" \/ descendant

child_write(s) ==
  /\ Writers /\ s \in world.output
  /\ written["stdout"] + written["stderr"] < world.maxWrites
  /\ pipe' = [pipe EXCEPT ![s] = @ + 1]
  /\ written' = [written EXCEPT ![s] = @ + 1]
  /\ UNCHANGED <<objectVars, flowVars, cancelVars, reapVars, joinVars, pumpVars, drainOver,
                 child, descendant, clientVars, wrapperVars, historyVars>>

child_fork ==
  /\ child = "running" /\ ~descendant
  /\ descendant' = TRUE
  /\ UNCHANGED <<objectVars, flowVars, cancelVars, reapVars, joinVars, pumpVars, drainOver,
                 child, pipe, written, clientVars, wrapperVars, historyVars>>

descendant_exit ==
  /\ descendant
  /\ descendant' = FALSE
  /\ UNCHANGED <<objectVars, flowVars, cancelVars, reapVars, joinVars, pumpVars, drainOver,
                 child, pipe, written, clientVars, wrapperVars, historyVars>>

\* The child exits or is killed; it stays a zombie unless SIGCHLD is ignored.
child_exit ==
  /\ child = "running"
  /\ child' \in {"exited", "signaled"} \cup (IF world.autoReap THEN {"gone"} ELSE {})
  /\ UNCHANGED <<objectVars, flowVars, cancelVars, reapVars, joinVars, pumpVars, drainOver,
                 descendant, pipe, written, clientVars, wrapperVars, historyVars>>

kill_deadline_passes ==
  /\ killDeadline = "pending"
  /\ killDeadline' = "passed"
  /\ UNCHANGED <<objectVars, flowVars, closing, cancelRequested, cancelEffective, killed,
                 reapVars, joinVars, pumpVars, drainOver, childVars, clientVars,
                 wrapperVars, historyVars>>

drain_time_passes ==
  /\ reaped /\ cancelRequested /\ ~drainOver
  /\ drainOver' = TRUE
  /\ UNCHANGED <<objectVars, flowVars, cancelVars, reapVars, joinVars, pumpVars, childVars,
                 clientVars, wrapperVars, historyVars>>

----------------------------------------------------------------------------
(* pump_main                                                               *)

Label(s) == IF s = "stdout" THEN "drain_stdout" ELSE "drain_stderr"
After(s) == IF s = "stdout" THEN "drain_stderr" ELSE "check"

\* drain_stream: one chunk is read and appended, which wakes blocked calls.
\* After READS_PER_STREAM_PASS reads the pump goes on with output left.
drain_read(s) ==
  /\ pump = Label(s) /\ fd[s] /\ pipe[s] > 0
  /\ pump' \in {pump, After(s)}
  /\ events' = Append(events, <<s, written[s] - pipe[s] + 1>>)
  /\ pipe' = [pipe EXCEPT ![s] = @ - 1]
  /\ Broadcast
  /\ UNCHANGED <<objectVars, completed, completionTaken, cancelVars, reapVars, joinVars,
                 abandon, fd, error, drainOver, child, descendant, written, timed, wrapperVars,
                 historyVars>>

\* The event cannot be allocated: the chunk is dropped and an error recorded.
drain_drop(s) ==
  /\ world.faults
  /\ pump = Label(s) /\ fd[s] /\ pipe[s] > 0
  /\ pump' \in {pump, After(s)}
  /\ pipe' = [pipe EXCEPT ![s] = @ - 1]
  /\ record_error_locked
  /\ failed' = TRUE
  /\ UNCHANGED <<objectVars, flowVars, cancelVars, reapVars, joinVars, abandon, fd,
                 drainOver, child, descendant, written, clientVars, wrapperVars, delivered,
                 strayKill>>

\* Mutant: the stream is closed when the child is gone, with output left.
drain_close_early(s) ==
  /\ pump = Label(s) /\ fd[s]
  /\ ~Writers
  /\ fd' = [fd EXCEPT ![s] = FALSE]
  /\ pump' = After(s)
  /\ UNCHANGED <<objectVars, flowVars, cancelVars, reapVars, joinVars, abandon, error, drainOver,
                 childVars, clientVars, wrapperVars, historyVars>>

\* End of file, or a read error, which is recorded: close the descriptor.
drain_close(s) ==
  /\ pump = Label(s) /\ fd[s]
  /\ \/ pipe[s] = 0 /\ ~Writers /\ UNCHANGED <<error, failed>>
     \/ world.faults /\ record_error_locked /\ failed' = TRUE
  /\ fd' = [fd EXCEPT ![s] = FALSE]
  /\ pump' = After(s)
  /\ UNCHANGED <<objectVars, flowVars, cancelVars, reapVars, joinVars, abandon, drainOver,
                 childVars, clientVars, wrapperVars, delivered, strayKill>>

\* Nothing to read now, or the stream is closed already.
drain_pass(s) ==
  /\ pump = Label(s)
  /\ ~fd[s] \/ (pipe[s] = 0 /\ Writers)
  /\ pump' = After(s)
  /\ UNCHANGED <<objectVars, flowVars, cancelVars, reapVars, joinVars, abandon, fd, error,
                 drainOver, childVars, clientVars, wrapperVars, historyVars>>

\* reap_locked: waitpid(WNOHANG).
reap_locked ==
  IF reaped \/ child = "running"
    THEN UNCHANGED <<reaped, state, error, child>>
    ELSE /\ reaped' = TRUE
         /\ child' = "gone"
         /\ state' = CASE child = "gone" -> "WAIT_FAILED"
                       [] cancelEffective -> "CANCELLED"
                       [] child = "exited" -> "EXITED"
                       [] OTHER -> "SIGNALED"
         /\ IF child = "gone" THEN record_error_locked ELSE UNCHANGED error

\* The locked section of an iteration: reap, escalate to SIGKILL, decide
\* whether the output that is left is abandoned.
pump_check ==
  /\ pump = "check"
  /\ reap_locked
  /\ IF ~reaped' /\ cancelEffective /\ ~killed /\ killDeadline = "passed"
       THEN signal_child_locked /\ killed' = TRUE
       ELSE UNCHANGED <<strayKill, killed>>
  /\ abandon' = (reaped' /\ (closing \/ (cancelRequested /\ drainOver)))
  /\ pump' = "finish"
  /\ UNCHANGED <<objectVars, flowVars, closing, cancelRequested, cancelEffective, killDeadline,
                 joinVars, fd, drainOver, descendant, pipe, written, clientVars, wrapperVars,
                 delivered, failed>>

\* Mutant: completion does not wait for the exit status.
pump_finish_unreaped ==
  /\ pump = "finish"
  /\ fd' = IF abandon THEN [s \in Streams |-> FALSE] ELSE fd
  /\ IF \A s \in Streams : ~fd'[s]
       THEN /\ completed' = TRUE
            /\ events' = Append(events, COMPLETED)
            /\ Broadcast
            /\ pump' = "done"
       ELSE /\ pump' = "drain_stdout"
            /\ UNCHANGED <<completed, events, pc>>
  /\ UNCHANGED <<objectVars, completionTaken, cancelVars, reapVars, joinVars, abandon, error,
                 drainOver, childVars, timed, wrapperVars, historyVars>>

\* Mutant: completion wakes nobody.
pump_finish_silent ==
  /\ pump = "finish"
  /\ fd' = IF abandon THEN [s \in Streams |-> FALSE] ELSE fd
  /\ IF reaped /\ \A s \in Streams : ~fd'[s]
       THEN /\ completed' = TRUE
            /\ events' = Append(events, COMPLETED)
            /\ UNCHANGED pc
            /\ pump' = "done"
       ELSE /\ pump' = "drain_stdout"
            /\ UNCHANGED <<completed, events, pc>>
  /\ UNCHANGED <<objectVars, completionTaken, cancelVars, reapVars, joinVars, abandon, error,
                 drainOver, childVars, timed, wrapperVars, historyVars>>

\* Close abandoned descriptors; when nothing is left, complete and return.
pump_finish ==
  /\ pump = "finish"
  /\ fd' = IF abandon THEN [s \in Streams |-> FALSE] ELSE fd
  /\ IF reaped /\ \A s \in Streams : ~fd'[s]
       THEN /\ completed' = TRUE
            /\ \/ events' = Append(events, COMPLETED) /\ UNCHANGED <<error, failed>>
               \/ world.faults /\ record_error_locked /\ failed' = TRUE /\ UNCHANGED events
            /\ Broadcast
            /\ pump' = "done"
       ELSE /\ pump' = "drain_stdout"
            /\ UNCHANGED <<completed, events, error, failed, pc>>
  /\ UNCHANGED <<objectVars, completionTaken, cancelVars, reapVars, joinVars, abandon,
                 drainOver, childVars, timed, wrapperVars, delivered, strayKill>>

----------------------------------------------------------------------------
(* AsyncProcess.next: cwhip_process_async_next                             *)

\* The wrapper passes calls on until close() has finished.
Usable(c) == pc[c] = "run" /\ object = "live" /\ ~closed

\* Detach the head of the queue, if there is one.
TakeEvent ==
  IF events = <<>>
    THEN UNCHANGED <<events, completionTaken, delivered>>
    ELSE /\ events' = Tail(events)
         /\ completionTaken' = (completionTaken \/ Head(events) = COMPLETED)
         /\ delivered' = [s \in Streams |->
                            delivered[s] + IF Head(events)[1] = s THEN 1 ELSE 0]

\* An event is queued, or null is returned at once: polling, the completion
\* was taken, or the object is closing.  Pinned and unpinned in one step.
async_next(c) ==
  /\ Usable(c)
  /\ TakeEvent
  /\ UNCHANGED <<objectVars, completed, cancelVars, reapVars, joinVars, pumpVars, drainOver,
                 childVars, clientVars, wrapperVars, strayKill, failed>>

\* Mutant: the object is not pinned while the call blocks.
async_next_block_unpinned(c, isTimed) ==
  /\ Usable(c)
  /\ events = <<>> /\ ~completionTaken /\ ~closing
  /\ timed' = [timed EXCEPT ![c] = isTimed]
  /\ Goto(c, "next_loop")
  /\ UNCHANGED <<objectVars, flowVars, cancelVars, reapVars, joinVars, pumpVars, drainOver,
                 childVars, wrapperVars, historyVars>>

\* Otherwise pin the object, give up the global lock and enter the loop.
async_next_block(c, isTimed) ==
  /\ Usable(c)
  /\ events = <<>> /\ ~completionTaken /\ ~closing
  /\ references' = references + 1
  /\ timed' = [timed EXCEPT ![c] = isTimed]
  /\ Goto(c, "next_loop")
  /\ UNCHANGED <<object, flowVars, cancelVars, reapVars, joinVars, pumpVars, drainOver,
                 childVars, wrapperVars, historyVars>>

\* The test of the loop; a deadline may have passed.
next_test(c) ==
  /\ pc[c] = "next_loop"
  /\ \/ /\ events # <<>> \/ completionTaken \/ closing \/ timed[c]
        /\ Goto(c, "next_return")
     \/ /\ events = <<>> /\ ~completionTaken /\ ~closing
        /\ Goto(c, "next_sleep")
  /\ UNCHANGED <<objectVars, flowVars, cancelVars, reapVars, joinVars, pumpVars, drainOver,
                 childVars, timed, wrapperVars, historyVars>>

\* With the global lock again: take what is there now, unpin, return.
next_return(c) ==
  /\ pc[c] = "next_return" /\ GilFree
  /\ TakeEvent
  /\ release(1)
  /\ Goto(c, "run")
  /\ UNCHANGED <<completed, cancelVars, reapVars, joinVars, pumpVars, drainOver, childVars,
                 timed, wrapperVars, strayKill, failed>>

----------------------------------------------------------------------------
(* AsyncProcess.wait: cwhip_process_async_wait.  Polling, or waiting for a *)
(* completed process, returns at once and changes nothing.                 *)

async_wait_block(c, isTimed) ==
  /\ Usable(c) /\ ~completed
  /\ references' = references + 1
  /\ timed' = [timed EXCEPT ![c] = isTimed]
  /\ Goto(c, "wait_loop")
  /\ UNCHANGED <<object, flowVars, cancelVars, reapVars, joinVars, pumpVars, drainOver,
                 childVars, wrapperVars, historyVars>>

wait_test(c) ==
  /\ pc[c] = "wait_loop"
  /\ \/ /\ completed \/ closing \/ timed[c]
        /\ Goto(c, IF completed THEN "wait_return_true" ELSE "wait_return_false")
     \/ /\ ~completed /\ ~closing
        /\ Goto(c, "wait_sleep")
  /\ UNCHANGED <<objectVars, flowVars, cancelVars, reapVars, joinVars, pumpVars, drainOver,
                 childVars, timed, wrapperVars, historyVars>>

wait_return(c) ==
  /\ pc[c] \in {"wait_return_true", "wait_return_false"} /\ GilFree
  /\ release(1)
  /\ Goto(c, "run")
  /\ UNCHANGED <<flowVars, cancelVars, reapVars, joinVars, pumpVars, drainOver, childVars,
                 timed, wrapperVars, historyVars>>

\* pthread_cond_wait returns by itself, or the deadline of a timed call came.
spurious_wakeup(c) ==
  /\ pc[c] # Awake(pc[c])
  /\ Goto(c, Awake(pc[c]))
  /\ UNCHANGED <<objectVars, flowVars, cancelVars, reapVars, joinVars, pumpVars, drainOver,
                 childVars, timed, wrapperVars, historyVars>>

----------------------------------------------------------------------------
(* AsyncProcess.cancel: cwhip_process_async_cancel                         *)

\* Mutant: the signal is sent although the child was reaped.
async_cancel_late(c, now) ==
  /\ Usable(c) /\ ~completed /\ ~closing
  /\ cancelRequested' = TRUE /\ cancelEffective' = TRUE
  /\ killDeadline' = IF now THEN "passed" ELSE "pending"
  /\ killed' = now
  /\ signal_child_locked
  /\ UNCHANGED <<objectVars, flowVars, closing, reapVars, joinVars, pumpVars, drainOver,
                 childVars, clientVars, wrapperVars, delivered, failed>>

async_cancel(c, now) ==
  /\ Usable(c) /\ ~completed /\ ~closing
  /\ cancelRequested' = TRUE
  /\ IF reaped
       THEN UNCHANGED <<cancelEffective, killed, killDeadline, strayKill>>
       ELSE IF ~cancelEffective
         THEN /\ cancelEffective' = TRUE
              /\ killDeadline' = IF now THEN "passed" ELSE "pending"
              /\ signal_child_locked
              /\ killed' = now
         ELSE /\ killDeadline' = IF now /\ ~killed THEN "passed" ELSE killDeadline
              /\ UNCHANGED <<cancelEffective, killed, strayKill>>
  /\ UNCHANGED <<objectVars, flowVars, closing, reapVars, joinVars, pumpVars, drainOver,
                 childVars, clientVars, wrapperVars, delivered, failed>>

\* Nothing happens after completion or once the object is closing.
async_cancel_refused(c) ==
  /\ Usable(c)
  /\ completed \/ closing
  /\ UNCHANGED vars

----------------------------------------------------------------------------
(* AsyncProcess.close: shutdown, read the status, drop the last reference. *)

\* The locked section of cwhip_process_async_shutdown; c goes on at label.
ShutdownLocked(c, label) ==
  /\ closing' = TRUE
  /\ IF ~closing /\ ~reaped
       THEN /\ cancelRequested' = TRUE /\ cancelEffective' = TRUE
            /\ killed' = TRUE
            /\ IF killed THEN UNCHANGED strayKill ELSE signal_child_locked
       ELSE UNCHANGED <<cancelRequested, cancelEffective, killed, strayKill>>
  /\ pc' = [x \in Clients |-> IF x = c THEN label
                              ELSE IF closing THEN pc[x] ELSE Awake(pc[x])]

\* The first caller joins the pump; later ones wait for it.
shutdown_block(c) ==
  /\ Usable(c)
  /\ pumpStarted /\ ~pumpJoined
  /\ ShutdownLocked(c, IF pumpJoining THEN "shut_loop" ELSE "shut_join")
  /\ pumpJoining' = TRUE
  /\ references' = references + 1
  /\ UNCHANGED <<object, flowVars, killDeadline, reapVars, pumpStarted, pumpJoined, pumpVars,
                 drainOver, childVars, timed, wrapperVars, delivered, failed>>

\* pthread_join returns.
shutdown_join(c) ==
  /\ pc[c] = "shut_join" /\ pump = "done"
  /\ pumpJoined' = TRUE
  /\ pc' = [x \in Clients |-> IF x = c THEN "shut_return" ELSE Awake(pc[x])]
  /\ UNCHANGED <<objectVars, flowVars, cancelVars, reapVars, pumpStarted, pumpJoining,
                 pumpVars, drainOver, childVars, timed, wrapperVars, historyVars>>

shutdown_test(c) ==
  /\ pc[c] = "shut_loop"
  /\ Goto(c, IF pumpJoined THEN "shut_return" ELSE "shut_sleep")
  /\ UNCHANGED <<objectVars, flowVars, cancelVars, reapVars, joinVars, pumpVars, drainOver,
                 childVars, timed, wrapperVars, historyVars>>

\* read_int_locked, used by the getters.
VisibleState == IF completed THEN state ELSE "RUNNING"

\* close() goes on with the global lock: unless another thread was faster,
\* keep the status, forget the handle and give up the base reference.
close_finish(c) ==
  /\ pc[c] = "shut_return" /\ GilFree
  /\ IF closed
       THEN release(1) /\ UNCHANGED wrapperVars
       ELSE release(2) /\ closed' = TRUE /\ cachedState' = VisibleState
  /\ Goto(c, "run")
  /\ UNCHANGED <<flowVars, cancelVars, reapVars, joinVars, pumpVars, drainOver, childVars,
                 timed, historyVars>>

\* No pump was started, or it is joined already: close() does not block.
close_now(c) ==
  /\ Usable(c)
  /\ ~pumpStarted \/ pumpJoined
  /\ ShutdownLocked(c, "run")
  /\ closed' = TRUE /\ cachedState' = VisibleState
  /\ release(1)
  /\ UNCHANGED <<flowVars, killDeadline, reapVars, joinVars, pumpVars, drainOver, childVars,
                 timed, delivered, failed>>

\* Without a handle the getters say that the launch failed.
close_null(c) ==
  /\ pc[c] = "run" /\ object = "null" /\ ~closed
  /\ closed' = TRUE /\ cachedState' = "LAUNCH_FAILED"
  /\ UNCHANGED <<objectVars, flowVars, cancelVars, reapVars, joinVars, pumpVars, drainOver,
                 childVars, clientVars, historyVars>>

\* A method of a closed object returns from the wrapper, one of an object
\* without a handle from the native function.
call_refused(c) ==
  /\ pc[c] = "run" /\ (closed \/ object = "null")
  /\ UNCHANGED vars

----------------------------------------------------------------------------
Environment ==
  \/ \E s \in Streams : child_write(s)
  \/ child_fork
  \/ descendant_exit
  \/ child_exit
  \/ kill_deadline_passes
  \/ drain_time_passes

Pump ==
  \/ \E s \in Streams : drain_read(s) \/ drain_drop(s) \/ drain_close(s) \/ drain_pass(s)
  \/ pump_check
  \/ pump_finish

Client(c) ==
  \/ gil_acquire(c) \/ gil_release(c)
  \/ async_start(c) \/ async_start_null(c) \/ fail_launch(c)
  \/ async_next(c)
  \/ \E isTimed \in BOOLEAN : async_next_block(c, isTimed)
  \/ next_test(c) \/ next_return(c)
  \/ \E isTimed \in BOOLEAN : async_wait_block(c, isTimed)
  \/ wait_test(c) \/ wait_return(c)
  \/ spurious_wakeup(c)
  \/ \E now \in BOOLEAN : async_cancel(c, now)
  \/ async_cancel_refused(c)
  \/ shutdown_block(c) \/ shutdown_join(c) \/ shutdown_test(c)
  \/ close_finish(c) \/ close_now(c) \/ close_null(c)
  \/ call_refused(c)

Next == /\ Environment \/ Pump \/ \E c \in world.users : Client(c)
        /\ UNCHANGED world

\* The pump and the calls that wait on process->changed need only the process
\* lock, never the global lock; a killed child dies; time passes.
Fairness ==
  /\ WF_vars(Pump /\ UNCHANGED world)
  /\ WF_vars(killed /\ child_exit /\ UNCHANGED world)
  /\ WF_vars(kill_deadline_passes /\ UNCHANGED world)
  /\ WF_vars(drain_time_passes /\ UNCHANGED world)
  /\ \A c \in Clients : /\ WF_vars(next_test(c) /\ UNCHANGED world)
                        /\ WF_vars(wait_test(c) /\ UNCHANGED world)
                        /\ WF_vars(shutdown_test(c) /\ UNCHANGED world)
                        /\ WF_vars(shutdown_join(c) /\ UNCHANGED world)

Spec == Init /\ [][Next]_vars
FairSpec == Spec /\ Fairness

----------------------------------------------------------------------------
(* Properties.                                                             *)

\* The threads inside a call that holds a reference to the object.
InFlight == {c \in Clients : pc[c] \notin {"outside", "run"}}

\* COMPLETED is queued once, last, and no event follows it out of the queue
\* (STDLIB.md "Exactly one COMPLETED event is delivered, always last").
CompletedOnceLast ==
  /\ \A i \in 1..Len(events) : events[i] = COMPLETED => completed /\ i = Len(events)
  /\ completionTaken => completed /\ events = <<>>

\* After completion the COMPLETED event is queued or was taken, so that a
\* consumer that reads to the end sees it.
CompletionQueued ==
  completed => completionTaken \/ \E i \in 1..Len(events) : events[i] = COMPLETED

\* Within a stream events leave in the order they were read, without a gap as
\* long as no read and no allocation has failed: every chunk is in the pipe, in
\* the queue or delivered, a process that was neither cancelled nor closed
\* completes with empty pipes, and its completion is queued.  Completion comes
\* once and last in any case.
OutputExact ==
  /\ TypeOK
  /\ \A i, j \in 1..Len(events) :
       i < j /\ events[i][1] = events[j][1] => events[i][2] < events[j][2]
  /\ ~failed =>
       /\ \A s \in Streams :
            /\ delivered[s] + Count(s) + pipe[s] = written[s]
            /\ completed /\ ~cancelRequested /\ ~closing => pipe[s] = 0
       /\ CompletionQueued
  /\ CompletedOnceLast

\* Does not hold (STDLIB.md:623, "Exactly one `COMPLETED` event (with `data() ==
\* null`) is delivered, always last"): the pump has queued the event when it
\* ends.  Without memory for the event it ends all the same.
ExactlyOneCompleted == pump = "done" => CompletionQueued

\* Does not hold (STDLIB.md:655, "Stream read failures [...] and allocation failures
\* [...] are reported through `error()`"): output that is lost is reported.
\* There may be no memory for the report either.
LossIsReported == failed => error

\* The object is freed only when close() is over, no thread is inside a call
\* on it and the pump has ended; the reference count is the number of users.
NoUseAfterFree ==
  /\ references = Cardinality(InFlight) + (IF object = "live" /\ ~closed THEN 1 ELSE 0)
  /\ object = "freed" <=> object \notin {"none", "null"} /\ closed /\ InFlight = {}
  /\ closed => pump \in {"none", "done"}

\* No signal is sent to a process id after the child gave it up (STDLIB.md
\* "Signals are only sent before the child is reaped").  Where SIGCHLD is
\* ignored the kernel gives the id up by itself and nothing can keep this.
SignalsOnlyOurChild == ~world.autoReap => ~strayKill

\* When close() returns, the child was waited for and the wrapper holds the
\* final status of the process, whichever thread closed it.
CloseLeavesNothing ==
  closed => /\ child \in {"none", "gone"} /\ cachedState \in FinalStates
            /\ object # "null" => reaped /\ completed /\ cachedState = state
            /\ \A s \in Streams : ~fd[s]

\* A call that sleeps on process->changed although what it waits for has come:
\* for next an event or the end (unless the completion event was lost for want
\* of memory), for wait the completion, for close the end of the pump.
Overdue(c) == \/ pc[c] \in NextSteps /\ (closing \/ (completed /\ CompletionQueued))
              \/ pc[c] \in WaitSteps /\ (completed \/ closing)
              \/ pc[c] \in ShutSteps

\* Nothing waits for ever: a cancelled or closed child completes, even when it
\* ignores SIGTERM and when its descendants keep the pipes open, and a blocked
\* call returns.
CallsEnd ==
  /\ (cancelRequested \/ closing) ~> completed
  /\ \A c \in Clients : Overdue(c) ~> ~Overdue(c)
=============================================================================
