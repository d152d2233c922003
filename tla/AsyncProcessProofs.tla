------------------------- MODULE AsyncProcessProofs -------------------------
(***************************************************************************)
(* Proofs about module AsyncProcess, for any finite number of threads that *)
(* share the object and any amount of output: nothing of the object is     *)
(* used after it was freed, signals reach the child only, close() leaves   *)
(* nothing behind, and the output is complete and in order.                *)
(***************************************************************************)
EXTENDS AsyncProcess, FiniteSetTheorems, SequenceTheorems, TLAPS

----------------------------------------------------------------------------
(* The inductive invariant.                                                *)

Event == (Streams \X Nat) \cup {COMPLETED}

\* Types; the bounds of the counters follow from the other parts.
Types ==
  /\ world \in Worlds
  /\ object \in {"none", "null", "live", "freed"}
  /\ references \in Int
  /\ events \in Seq(Event)
  /\ state \in FinalStates \cup {"RUNNING"}
  /\ fd \in [Streams -> BOOLEAN]
  /\ killDeadline \in {"none", "pending", "passed"}
  /\ pump \in PumpPCs
  /\ child \in {"none", "running", "exited", "signaled", "gone"}
  /\ pipe \in [Streams -> Nat]
  /\ written \in [Streams -> Nat]
  /\ delivered \in [Streams -> Nat]
  /\ pc \in [Clients -> PCs]
  /\ timed \in [Clients -> BOOLEAN]
  /\ cachedState \in FinalStates \cup {"RUNNING"}

Flags ==
  /\ reaped \in BOOLEAN /\ completed \in BOOLEAN /\ completionTaken \in BOOLEAN
  /\ closing \in BOOLEAN /\ cancelRequested \in BOOLEAN /\ cancelEffective \in BOOLEAN
  /\ killed \in BOOLEAN /\ error \in BOOLEAN /\ drainOver \in BOOLEAN
  /\ pumpStarted \in BOOLEAN /\ pumpJoining \in BOOLEAN /\ pumpJoined \in BOOLEAN
  /\ abandon \in BOOLEAN /\ descendant \in BOOLEAN
  /\ closed \in BOOLEAN /\ strayKill \in BOOLEAN /\ failed \in BOOLEAN

\* The references are the threads inside a call and, until close(), the one of
\* the wrapper; the last one to go frees the object.
NoObject == object \in {"none", "null"}
BaseReference == IF object = "live" /\ ~closed THEN 1 ELSE 0
ReferenceInv ==
  /\ references = Cardinality(InFlight) + BaseReference
  /\ NoObject => InFlight = {}
  /\ object = "none" => ~closed
  /\ object = "freed" <=> ~NoObject /\ closed /\ InFlight = {}

\* The life of the pump and of the child: who has joined the pump finds a
\* complete process, and a complete process was waited for.
LifeInv ==
  /\ ~pumpStarted => pump = "none" /\ ~pumpJoined
  /\ pumpJoined => pump = "done"
  /\ \A c \in Clients : pc[c] = "shut_return" => pumpJoined
  /\ NoObject => /\ ~pumpStarted /\ ~completed /\ ~reaped
                 /\ child = "none" /\ \A s \in Streams : ~fd[s]
  /\ object = "none" => ~closed
  /\ pump = "done" => completed
  /\ ~NoObject /\ ~pumpStarted => completed
  /\ completed => reaped /\ pump \in {"none", "done"} /\ \A s \in Streams : ~fd[s]
  /\ reaped => child \in {"none", "gone"} /\ state \in FinalStates
  /\ closed => IF NoObject THEN cachedState = "LAUNCH_FAILED"
               ELSE (pumpJoined \/ ~pumpStarted) /\ cachedState = state

\* Only the pump's waitpid gives the child's id up, and it stops the signals.
SignalInv == ~world.autoReap => (child = "gone" => reaped) /\ ~strayKill

\* A stream that was closed without a failure, a cancel or a close is at its
\* end, and nobody can write to it any more.
DrainInv ==
  /\ abandon => closing \/ cancelRequested
  /\ \A s \in Streams : ~failed /\ ~fd[s] /\ ~cancelRequested /\ ~closing =>
       pipe[s] = 0 /\ ~Writers

\* The chunks: written, read, queued and delivered in this order.
ChunksInv ==
  /\ written["stdout"] + written["stderr"] <= world.maxWrites
  /\ \A s \in Streams : /\ delivered[s] + Count(s) + pipe[s] <= written[s]
                        /\ ~failed => delivered[s] + Count(s) + pipe[s] = written[s]
  /\ \A i \in 1..Len(events), s \in Streams :
       events[i][1] = s => events[i][2] + pipe[s] <= written[s]

QueueInv ==
  /\ \A i, j \in 1..Len(events) :
       i < j /\ events[i][1] = events[j][1] => events[i][2] < events[j][2]
  /\ CompletedOnceLast
  /\ ~failed => CompletionQueued
  /\ ~pumpStarted /\ ~completed => events = <<>>

IInv == /\ Types /\ Flags /\ ReferenceInv /\ LifeInv /\ SignalInv /\ DrainInv
        /\ ChunksInv /\ QueueInv

\* A waking broadcast keeps every thread in the call it is in.
LEMMA AwakeKeeps ==
  ASSUME NEW label \in PCs
  PROVE  /\ Awake(label) \in PCs
         /\ Awake(label) \in {"outside", "run"} <=> label \in {"outside", "run"}
         /\ Awake(label) = "shut_return" <=> label = "shut_return"
  BY DEF Awake, PCs, NextSteps, WaitSteps, ShutSteps, Returning

\* The threads of a world are threads.
LEMMA UsersAreClients ==
  ASSUME Types PROVE \A c \in world.users : c \in Clients
  BY WorldsAssumption DEF Types

\* No object, no child, no output yet.
LEMMA InitIInv == Init => IInv
<1> SUFFICES ASSUME Init PROVE IInv
  OBVIOUS
<1>1. Flags
  BY Zenon DEF Init, Flags
<1>2. events \in Seq(Event) /\ Len(events) = 0
  BY DEF Init
<1>3. Types
  BY <1>2 DEF Init, Types, PumpPCs, PCs
<1>4. InFlight = {}
  BY DEF Init, InFlight
<1>5. ~closed /\ ~pumpStarted /\ ~pumpJoined /\ ~completed /\ ~completionTaken /\ ~reaped
      /\ ~failed /\ ~strayKill /\ ~abandon /\ ~descendant
  BY Zenon DEF Init
<1>6. ReferenceInv
  BY <1>4, <1>5, FS_EmptySet DEF Init, ReferenceInv, BaseReference, NoObject
<1>7. LifeInv /\ SignalInv
  BY <1>5 DEF Init, LifeInv, SignalInv, NoObject
<1>8. DrainInv
  BY <1>5 DEF Init, DrainInv, Writers
<1>9. \A s \in Streams : Count(s) = 0
  <2>1. \A s \in Streams : {i \in 1..Len(events) : events[i][1] = s} = {}
    BY <1>2
  <2> QED
    BY <2>1, FS_EmptySet DEF Count
<1>10. ChunksInv
  BY <1>2, <1>3, <1>9, WorldsAssumption DEF Init, ChunksInv, Streams, Types
<1>11. QueueInv
  BY <1>2, <1>5 DEF Init, QueueInv, CompletedOnceLast, CompletionQueued
<1> QED
  BY <1>1, <1>3, <1>6, <1>7, <1>8, <1>10, <1>11 DEF IInv

----------------------------------------------------------------------------
(* Counting the events of a stream.                                        *)

\* The positions of the events of stream s in a queue; Count counts them.
EventsOf(queue, s) == {i \in 1..Len(queue) : queue[i][1] = s}

\* There are finitely many.
LEMMA EventsAreFinite ==
  ASSUME NEW queue \in Seq(Event), NEW s
  PROVE  IsFiniteSet(EventsOf(queue, s)) /\ Cardinality(EventsOf(queue, s)) \in Nat
<1>1. EventsOf(queue, s) \in SUBSET (1..Len(queue)) /\ Len(queue) \in Nat
  BY DEF EventsOf
<1>2. IsFiniteSet(1..Len(queue))
  BY <1>1, FS_Interval
<1> QED
  BY <1>1, <1>2, FS_Subset, FS_CardinalityType

\* An event that is appended counts for its stream.
LEMMA CountOfAppend ==
  ASSUME NEW queue \in Seq(Event), NEW e \in Event, NEW s
  PROVE  Cardinality(EventsOf(Append(queue, e), s))
           = Cardinality(EventsOf(queue, s)) + IF e[1] = s THEN 1 ELSE 0
<1> DEFINE n == Len(queue) + 1
<1>1. /\ n \in Nat /\ Len(Append(queue, e)) = n
      /\ Append(queue, e)[n] = e
      /\ \A i \in 1..Len(queue) : Append(queue, e)[i] = queue[i]
  BY AppendProperties
<1>2. CASE e[1] = s
  <2>1. EventsOf(Append(queue, e), s) = EventsOf(queue, s) \cup {n} /\ n \notin EventsOf(queue, s)
    BY <1>1, <1>2 DEF EventsOf
  <2> QED
    BY ZenonT(30), <1>2, <2>1, EventsAreFinite, FS_AddElement
<1>3. CASE e[1] # s
  <2>1. EventsOf(Append(queue, e), s) = EventsOf(queue, s)
    BY <1>1, <1>3 DEF EventsOf
  <2> QED
    BY <1>3, <2>1, EventsAreFinite
<1> QED
  BY <1>2, <1>3

\* Taking the head moves the others one place to the front.
LEMMA CountOfTail ==
  ASSUME NEW queue \in Seq(Event), NEW s, queue # <<>>
  PROVE  Cardinality(EventsOf(queue, s))
           = Cardinality(EventsOf(Tail(queue), s)) + IF Head(queue)[1] = s THEN 1 ELSE 0
<1> DEFINE Rest == EventsOf(queue, s) \ {1}
           T == EventsOf(Tail(queue), s)
           f == [i \in Rest |-> i - 1]
<1>1. /\ Len(queue) \in Nat \ {0} /\ Len(Tail(queue)) = Len(queue) - 1
      /\ Tail(queue) \in Seq(Event) /\ Head(queue) = queue[1]
      /\ \A i \in 1..Len(Tail(queue)) : Tail(queue)[i] = queue[i + 1]
  BY HeadTailProperties, EmptySeq
<1>2. \A i \in Rest : i \in 2..Len(queue) /\ queue[i][1] = s
  BY <1>1 DEF EventsOf
<1>3. \A i \in Rest : i - 1 \in T
  BY <1>1, <1>2 DEF EventsOf
<1>4. f \in Injection(Rest, T)
  <2>1. f \in [Rest -> T]
    BY <1>3
  <2>2. \A a, b \in Rest : f[a] = f[b] => a = b
    BY <1>2
  <2> HIDE DEF f
  <2> QED
    BY <2>1, <2>2 DEF Injection, IsInjective
<1>5. f \in Surjection(Rest, T)
  <2>1. \A j \in T : j + 1 \in Rest /\ f[j + 1] = j
    <3>1. \A j \in T : j \in 1..(Len(queue) - 1) /\ queue[j + 1][1] = s
      BY <1>1 DEF EventsOf
    <3>2. \A j \in T : j + 1 \in Rest
      BY <1>1, <3>1 DEF EventsOf
    <3> QED
      BY <3>1, <3>2
  <2>2. f \in [Rest -> T]
    BY <1>3
  <2> HIDE DEF f, Rest, T
  <2> QED
    BY <2>1, <2>2 DEF Surjection
<1>6. IsFiniteSet(Rest) /\ IsFiniteSet(EventsOf(queue, s))
  BY EventsAreFinite, FS_Subset
<1>7. Cardinality(T) = Cardinality(Rest)
  <2>1. ExistsBijection(Rest, T)
    <3> HIDE DEF f, Rest, T
    <3> QED
      BY <1>4, <1>5 DEF ExistsBijection, Bijection
  <2> HIDE DEF Rest, T
  <2> QED
    BY <1>6, <2>1, FS_Bijection
<1>8. Cardinality(EventsOf(queue, s)) \in Nat /\ Cardinality(T) \in Nat
  BY <1>1, EventsAreFinite
<1>9. CASE Head(queue)[1] = s
  <2>1. 1 \in EventsOf(queue, s)
    BY <1>1, <1>9 DEF EventsOf
  <2>2. Cardinality(Rest) = Cardinality(EventsOf(queue, s)) - 1
    BY <1>6, <2>1, FS_RemoveElement
  <2> HIDE DEF Rest, T
  <2> QED
    BY <1>7, <1>8, <1>9, <2>2 DEF T
<1>10. CASE Head(queue)[1] # s
  <2>1. Rest = EventsOf(queue, s)
    BY <1>1, <1>10 DEF EventsOf
  <2> HIDE DEF Rest, T
  <2> QED
    BY <1>7, <1>8, <1>10, <2>1 DEF T
<1> QED
  BY <1>9, <1>10

\* The number of events of a stream that are queued.
LEMMA CountType ==
  ASSUME Types, NEW s PROVE Count(s) \in Nat /\ Count(s) = Cardinality(EventsOf(events, s))
  BY EventsAreFinite DEF Types, Count, EventsOf

----------------------------------------------------------------------------
(* Each part is preserved.                                                 *)

\* The refused calls change nothing.
LEMMA Refusals ==
  ASSUME NEW c, async_cancel_refused(c) \/ call_refused(c)
  PROVE  UNCHANGED vars
  BY DEF async_cancel_refused, call_refused

\* What next() takes is the head of the queue.
LEMMA TakeEventTypes ==
  ASSUME Types, Flags, TakeEvent
  PROVE  /\ events' \in Seq(Event) /\ completionTaken' \in BOOLEAN
         /\ delivered' \in [Streams -> Nat]
<1>1. CASE events = <<>>
  BY <1>1 DEF TakeEvent, Types, Flags
<1>2. CASE events # <<>>
  <2>1. events' \in Seq(Event)
    <3>1. events \in Seq(Event) /\ events' = Tail(events)
      BY <1>2 DEF TakeEvent, Types
    <3> QED
      BY <1>2, <3>1, HeadTailProperties
  <2>2. completionTaken' \in BOOLEAN
    BY <1>2 DEF TakeEvent, Flags
  <2>3. \A s \in Streams : (delivered[s] + IF Head(events)[1] = s THEN 1 ELSE 0) \in Nat
    BY DEF Types
  <2> QED
    BY <1>2, <2>1, <2>2, <2>3 DEF TakeEvent
<1> QED
  BY <1>1, <1>2

\* Types.
LEMMA StepTypes == IInv /\ [Next]_vars => Types'
<1> SUFFICES ASSUME Types, Flags, ChunksInv, [Next]_vars PROVE Types'
  BY DEF IInv
<1> USE DEF Types, Goto, Broadcast, release, objectVars, flowVars, cancelVars, reapVars, joinVars,
            pumpVars, childVars, clientVars, wrapperVars, historyVars
<1>1. CASE Environment /\ UNCHANGED world
  <2>1. ASSUME NEW s \in Streams, child_write(s) PROVE Types'
    <3>1. pipe' \in [Streams -> Nat] /\ written' \in [Streams -> Nat]
      BY SMTT(30), <2>1 DEF child_write
    <3> QED
      BY <1>1, <2>1, <3>1 DEF child_write
  <2>2. CASE child_fork \/ descendant_exit \/ kill_deadline_passes \/ drain_time_passes
    BY <1>1, <2>2 DEF child_fork, descendant_exit, kill_deadline_passes, drain_time_passes
  <2>3. CASE child_exit
    BY <1>1, <2>3 DEF child_exit
  <2> QED
    BY <1>1, <2>1, <2>2, <2>3 DEF Environment
<1>2. ASSUME NEW s \in Streams, drain_read(s), UNCHANGED world PROVE Types'
  <2>1. written[s] - pipe[s] + 1 \in Nat
    <3>1. Count(s) \in Nat /\ delivered[s] \in Nat /\ pipe[s] \in Nat /\ written[s] \in Nat
      BY CountType
    <3>2. delivered[s] + Count(s) + pipe[s] <= written[s]
      BY DEF ChunksInv
    <3> QED
      BY <3>1, <3>2
  <2>2. events' \in Seq(Event)
    <3>1. <<s, written[s] - pipe[s] + 1>> \in Event
      BY <2>1 DEF Event
    <3> QED
      BY <1>2, <3>1, AppendProperties DEF drain_read
  <2>3. pc' \in [Clients -> PCs]
    BY <1>2, AwakeKeeps DEF drain_read
  <2>4. pipe' \in [Streams -> Nat] /\ pump' \in PumpPCs
    BY <1>2 DEF drain_read, After, PumpPCs
  <2> QED
    BY <1>2, <2>2, <2>3, <2>4 DEF drain_read
<1>3. ASSUME NEW s \in Streams, drain_drop(s) \/ drain_close(s) \/ drain_pass(s), UNCHANGED world
      PROVE  Types'
  <2>1. pump' \in PumpPCs
    BY <1>3 DEF drain_drop, drain_close, drain_pass, After, PumpPCs
  <2>2. fd' \in [Streams -> BOOLEAN]
    BY <1>3 DEF drain_drop, drain_close, drain_pass
  <2>3. pipe' \in [Streams -> Nat]
    <3>1. CASE drain_drop(s)
      BY <3>1 DEF drain_drop
    <3>2. CASE drain_close(s) \/ drain_pass(s)
      BY <3>2 DEF drain_close, drain_pass
    <3> QED
      BY <1>3, <3>1, <3>2
  <2> QED
    BY <1>3, <2>1, <2>2, <2>3 DEF drain_drop, drain_close, drain_pass
<1>4. CASE pump_check /\ UNCHANGED world
  <2>1. /\ state' \in FinalStates \cup {"RUNNING"}
        /\ child' \in {"none", "running", "exited", "signaled", "gone"}
    <3>1. CASE reaped \/ child = "running"
      BY <1>4, <3>1 DEF pump_check, reap_locked
    <3>2. CASE ~(reaped \/ child = "running")
      BY <1>4, <3>2 DEF pump_check, reap_locked, FinalStates
    <3> QED
      BY <3>1, <3>2
  <2> QED
    BY <1>4, <2>1 DEF pump_check, PumpPCs
<1>5. CASE pump_finish /\ UNCHANGED world
  <2>1. pc' \in [Clients -> PCs] /\ pump' \in PumpPCs /\ fd' \in [Streams -> BOOLEAN]
    BY <1>5, AwakeKeeps DEF pump_finish, PumpPCs
  <2>2. events' \in Seq(Event)
    <3>1. COMPLETED \in Event
      BY DEF Event
    <3>2. events' = events \/ events' = Append(events, COMPLETED)
      BY <1>5 DEF pump_finish
    <3>3. events \in Seq(Event)
      OBVIOUS
    <3> HIDE DEF Types
    <3> QED
      BY <3>1, <3>2, <3>3, AppendProperties
  <2> QED
    BY <1>5, <2>1, <2>2 DEF pump_finish
<1>6. ASSUME NEW c \in Clients, Client(c), UNCHANGED world PROVE Types'
  <2> USE DEF PCs, NextSteps, WaitSteps, ShutSteps, Returning
  <2>1. CASE gil_acquire(c) \/ gil_release(c)
    BY <1>6, <2>1 DEF gil_acquire, gil_release
  <2>2. CASE async_start(c)
    BY <1>6, <2>2 DEF async_start, PumpPCs
  <2>13. CASE async_start_null(c) \/ close_null(c)
    BY <1>6, <2>13 DEF async_start_null, close_null, FinalStates
  <2>3. CASE fail_launch(c)
    <3>1. events' \in Seq(Event)
      <4>1. COMPLETED \in Event
        BY DEF Event
      <4>2. <<COMPLETED>> \in Seq(Event)
        BY <4>1
      <4> QED
        BY <2>3, <4>2 DEF fail_launch
    <3> QED
      BY <1>6, <2>3, <3>1 DEF fail_launch, FinalStates
  <2>4. CASE async_next(c)
    BY <1>6, <2>4, TakeEventTypes DEF async_next
  <2>5. CASE next_return(c)
    BY <1>6, <2>5, TakeEventTypes DEF next_return
  <2>6. CASE \E isTimed \in BOOLEAN : async_next_block(c, isTimed) \/ async_wait_block(c, isTimed)
    <3>1. references' \in Int
      BY <2>6 DEF async_next_block, async_wait_block
    <3>2. timed' \in [Clients -> BOOLEAN]
      BY <2>6 DEF async_next_block, async_wait_block
    <3>3. pc' \in [Clients -> PCs]
      BY <2>6 DEF async_next_block, async_wait_block
    <3> QED
      BY <1>6, <2>6, <3>1, <3>2, <3>3 DEF async_next_block, async_wait_block
  <2>7. CASE next_test(c) \/ wait_test(c) \/ wait_return(c) \/ shutdown_test(c)
    <3>1. pc' \in [Clients -> PCs]
      BY <2>7 DEF next_test, wait_test, wait_return, shutdown_test
    <3>2. object' \in {"none", "null", "live", "freed"} /\ references' \in Int
      BY <2>7 DEF next_test, wait_test, wait_return, shutdown_test
    <3> QED
      BY <1>6, <2>7, <3>1, <3>2 DEF next_test, wait_test, wait_return, shutdown_test
  <2>8. CASE spurious_wakeup(c)
    BY <1>6, <2>8, AwakeKeeps DEF spurious_wakeup
  <2>9. CASE \E now \in BOOLEAN : async_cancel(c, now)
    BY <1>6, <2>9 DEF async_cancel
  <2>10. CASE shutdown_block(c) \/ shutdown_join(c) \/ close_now(c)
    <3>1. pc' \in [Clients -> PCs]
      <4> HIDE DEF PCs
      <4>1. PICK label \in PCs : \A x \in Clients : pc'[x] \in {label, pc[x], Awake(pc[x])}
        BY <2>10 DEF shutdown_block, shutdown_join, close_now, ShutdownLocked, PCs
      <4>2. \A x \in Clients : pc'[x] \in PCs
        <5>1. \A x \in Clients : Awake(pc[x]) \in PCs
          BY AwakeKeeps
        <5> QED
          BY <4>1, <5>1
      <4> QED
        BY <2>10, <4>2 DEF shutdown_block, shutdown_join, close_now, ShutdownLocked
    <3> QED
      BY <1>6, <2>10, <3>1 DEF shutdown_block, shutdown_join, close_now, ShutdownLocked, VisibleState
  <2>11. CASE close_finish(c)
    BY <1>6, <2>11 DEF close_finish, VisibleState
  <2>12. CASE UNCHANGED vars
    BY <2>12 DEF vars
  <2> QED
    BY <1>6, <2>1, <2>2, <2>3, <2>4, <2>5, <2>6, <2>7, <2>8, <2>9, <2>10, <2>11, <2>12, <2>13,
       Refusals
       DEF Client
<1>7. CASE UNCHANGED vars
  BY <1>7 DEF vars
<1> QED
  BY <1>1, <1>2, <1>3, <1>4, <1>5, <1>6, <1>7, UsersAreClients DEF Next, Pump

\* The flags are set and cleared as flags.
LEMMA StepFlags == IInv /\ [Next]_vars => Flags'
<1> SUFFICES ASSUME Types, Flags, [Next]_vars PROVE Flags'
  BY DEF IInv
<1> USE DEF Flags, objectVars, flowVars, cancelVars, reapVars, joinVars, pumpVars, childVars,
            clientVars, wrapperVars, historyVars
<1>1. CASE Environment
  <2>1. CASE \E s \in Streams : child_write(s)
    BY <2>1 DEF child_write
  <2>2. CASE child_fork
    <3>1. descendant' \in BOOLEAN
      BY <2>2, Zenon DEF child_fork
    <3> QED
      BY <2>2, <3>1 DEF child_fork
  <2>3. CASE descendant_exit
    <3>1. descendant' \in BOOLEAN
      BY <2>3, Zenon DEF descendant_exit
    <3> QED
      BY <2>3, <3>1 DEF descendant_exit
  <2>4. CASE child_exit
    BY <2>4 DEF child_exit
  <2>5. CASE kill_deadline_passes
    BY <2>5 DEF kill_deadline_passes
  <2>6. CASE drain_time_passes
    <3>1. drainOver' \in BOOLEAN
      BY <2>6, Zenon DEF drain_time_passes
    <3> QED
      BY <2>6, <3>1 DEF drain_time_passes
  <2> QED
    BY <1>1, <2>1, <2>2, <2>3, <2>4, <2>5, <2>6 DEF Environment
<1>2. ASSUME NEW s \in Streams, drain_read(s) \/ drain_drop(s) \/ drain_close(s) \/ drain_pass(s)
      PROVE  Flags'
  <2>1. CASE drain_read(s)
    BY <2>1 DEF drain_read
  <2>2. CASE drain_drop(s)
    <3>1. error' \in BOOLEAN /\ failed' \in BOOLEAN
      BY <2>2, Zenon DEF drain_drop, record_error_locked
    <3> QED
      BY <2>2, <3>1 DEF drain_drop
  <2>3. CASE drain_close(s)
    <3>1. error' \in BOOLEAN /\ failed' \in BOOLEAN
      BY <2>3, Zenon DEF drain_close, record_error_locked
    <3> QED
      BY <2>3, <3>1 DEF drain_close
  <2>4. CASE drain_pass(s)
    BY <2>4 DEF drain_pass
  <2> QED
    BY <1>2, <2>1, <2>2, <2>3, <2>4
<1>3. CASE pump_check
  <2>1. reaped' \in BOOLEAN /\ error' \in BOOLEAN
    BY <1>3 DEF pump_check, reap_locked, record_error_locked
  <2>2. killed' \in BOOLEAN /\ strayKill' \in BOOLEAN /\ abandon' \in BOOLEAN
    BY <1>3, <2>1 DEF pump_check, signal_child_locked
  <2> QED
    BY <1>3, <2>1, <2>2 DEF pump_check
<1>4. CASE pump_finish
  <2>1. completed' \in BOOLEAN /\ error' \in BOOLEAN /\ failed' \in BOOLEAN
    BY <1>4, Zenon DEF pump_finish, record_error_locked
  <2> QED
    BY <1>4, <2>1 DEF pump_finish
<1>5. ASSUME NEW c \in Clients, Client(c) PROVE Flags'
  <2>1. CASE gil_acquire(c) \/ gil_release(c) \/ wait_return(c) \/ spurious_wakeup(c)
    BY <2>1 DEF gil_acquire, gil_release, wait_return, spurious_wakeup
  <2>2. CASE next_test(c) \/ wait_test(c) \/ shutdown_test(c)
    BY <2>2 DEF next_test, wait_test, shutdown_test
  <2>3. CASE async_start(c)
    <3>1. pumpStarted' \in BOOLEAN
      BY <2>3, Zenon DEF async_start
    <3> QED
      BY <2>3, <3>1 DEF async_start
  <2>4. CASE fail_launch(c)
    <3>1. /\ reaped' \in BOOLEAN /\ completed' \in BOOLEAN /\ error' \in BOOLEAN
          /\ failed' \in BOOLEAN
      BY <2>4, Zenon DEF fail_launch, record_error_locked
    <3> QED
      BY <2>4, <3>1 DEF fail_launch
  <2>5. CASE shutdown_join(c)
    <3>1. pumpJoined' \in BOOLEAN
      BY <2>5, Zenon DEF shutdown_join
    <3> QED
      BY <2>5, <3>1 DEF shutdown_join
  <2>6. CASE async_next(c) \/ next_return(c)
    BY <2>6, TakeEventTypes DEF async_next, next_return
  <2>7. CASE \E isTimed \in BOOLEAN : async_next_block(c, isTimed) \/ async_wait_block(c, isTimed)
    BY <2>7 DEF async_next_block, async_wait_block
  <2>8. ASSUME NEW now \in BOOLEAN, async_cancel(c, now) PROVE Flags'
    <3>1. /\ cancelRequested' \in BOOLEAN /\ cancelEffective' \in BOOLEAN /\ killed' \in BOOLEAN
          /\ strayKill' \in BOOLEAN
      BY <2>8, Zenon DEF async_cancel, signal_child_locked
    <3> QED
      BY <2>8, <3>1 DEF async_cancel
  <2>9. CASE shutdown_block(c) \/ close_now(c)
    <3>1. ASSUME NEW label, ShutdownLocked(c, label)
          PROVE  /\ closing' \in BOOLEAN /\ cancelRequested' \in BOOLEAN
                 /\ cancelEffective' \in BOOLEAN /\ killed' \in BOOLEAN /\ strayKill' \in BOOLEAN
      BY <3>1, Zenon DEF ShutdownLocked, signal_child_locked
    <3>2. CASE shutdown_block(c)
      BY <3>1, <3>2, Zenon DEF shutdown_block
    <3>3. CASE close_now(c)
      BY <3>1, <3>3, Zenon DEF close_now
    <3> QED
      BY <2>9, <3>2, <3>3
  <2>10. CASE close_finish(c)
    <3>1. closed' \in BOOLEAN
      BY <2>10, Zenon DEF close_finish
    <3> QED
      BY <2>10, <3>1 DEF close_finish
  <2>12. CASE async_start_null(c)
    BY <2>12 DEF async_start_null
  <2>13. CASE close_null(c)
    <3>1. closed' \in BOOLEAN
      BY <2>13, Zenon DEF close_null
    <3> QED
      BY <2>13, <3>1 DEF close_null
  <2>11. CASE UNCHANGED vars
    BY <2>11 DEF vars
  <2> QED
    BY <1>5, <2>1, <2>2, <2>3, <2>4, <2>5, <2>6, <2>7, <2>8, <2>9, <2>10, <2>11, <2>12, <2>13,
       Refusals
       DEF Client
<1>6. CASE UNCHANGED vars
  BY <1>6 DEF vars
<1> QED
  BY <1>1, <1>2, <1>3, <1>4, <1>5, <1>6, UsersAreClients DEF Next, Pump

\* Only starting, entering, leaving and closing move references.
RefStep(c) ==
  \/ async_start(c) \/ async_start_null(c) \/ fail_launch(c)
  \/ \E isTimed \in BOOLEAN : async_next_block(c, isTimed) \/ async_wait_block(c, isTimed)
  \/ next_return(c) \/ wait_return(c)
  \/ shutdown_block(c) \/ close_finish(c) \/ close_now(c) \/ close_null(c)

\* Every other step keeps the references and the threads that hold them.
LEMMA ReferencesKept ==
  ASSUME Types, [Next]_vars, \A c \in Clients : ~RefStep(c)
  PROVE  InFlight' = InFlight /\ UNCHANGED <<object, references, closed>>
<1> USE DEF objectVars, wrapperVars
<1>1. ASSUME \A x \in Clients : pc'[x] \in {"outside", "run"} <=> pc[x] \in {"outside", "run"}
      PROVE  InFlight' = InFlight
  BY <1>1 DEF InFlight
<1>2. ASSUME Broadcast PROVE InFlight' = InFlight
  BY <1>1, <1>2, AwakeKeeps DEF Broadcast, Types
<1>3. ASSUME UNCHANGED pc PROVE InFlight' = InFlight
  BY <1>3 DEF InFlight
<1>4. CASE Environment
  BY <1>3, <1>4 DEF Environment, child_write, child_fork, descendant_exit, child_exit,
                    kill_deadline_passes, drain_time_passes, clientVars
<1>5. CASE Pump
  BY <1>2, <1>3, <1>5 DEF Pump, drain_read, drain_drop, drain_close, drain_pass, pump_check,
                          pump_finish, clientVars
<1>6. ASSUME NEW c \in Clients, Client(c)
      PROVE  InFlight' = InFlight /\ UNCHANGED <<object, references, closed>>
  <2> USE DEF Goto, Types
  <2>1. CASE gil_acquire(c) \/ gil_release(c)
    BY <1>1, <2>1 DEF gil_acquire, gil_release
  <2>2. CASE async_next(c) \/ \E now \in BOOLEAN : async_cancel(c, now)
    BY <1>3, <2>2 DEF async_next, async_cancel, clientVars
  <2>3. CASE next_test(c) \/ wait_test(c) \/ shutdown_test(c)
    BY <1>1, <2>3 DEF next_test, wait_test, shutdown_test
  <2>4. CASE spurious_wakeup(c)
    BY <1>1, <2>4, AwakeKeeps DEF spurious_wakeup
  <2>5. CASE shutdown_join(c)
    BY <1>1, <2>5, AwakeKeeps DEF shutdown_join
  <2>6. CASE UNCHANGED vars
    BY <1>3, <2>6 DEF vars, clientVars
  <2> QED
    BY <1>6, <2>1, <2>2, <2>3, <2>4, <2>5, <2>6, Refusals DEF Client, RefStep
<1>7. CASE UNCHANGED vars
  BY <1>3, <1>7 DEF vars, clientVars
<1> QED
  BY <1>4, <1>5, <1>6, <1>7, UsersAreClients DEF Next

\* The threads inside a call are finitely many.
LEMMA InFlightIsFinite ==
  IsFiniteSet(InFlight) /\ Cardinality(InFlight) \in Nat /\ Cardinality(InFlight) <= Cardinality(Clients)
<1>1. InFlight \in SUBSET Clients
  BY DEF InFlight
<1> QED
  BY <1>1, ClientsAreFinite, FS_Subset, FS_CardinalityType

\* A call pins the object before it gives up the global lock.
LEMMA EnterReferences ==
  ASSUME ReferenceInv, Types, NEW c \in Clients, Usable(c), references' = references + 1,
         UNCHANGED <<object, closed>>, InFlight' = InFlight \cup {c}
  PROVE  ReferenceInv'
<1>1. c \notin InFlight /\ object = "live" /\ ~closed
  BY DEF Usable, InFlight
<1>2. Cardinality(InFlight \cup {c}) = Cardinality(InFlight) + 1
  BY <1>1, InFlightIsFinite, FS_AddElement
<1> QED
  BY <1>1, <1>2, InFlightIsFinite DEF ReferenceInv, BaseReference, NoObject

\* A call that ends gives its reference up, and the last one frees a closed
\* object; close() gives up the reference of the wrapper as well.
LEMMA LeaveReferences ==
  ASSUME ReferenceInv, Types, NEW c \in InFlight, InFlight' = InFlight \ {c},
         \/ release(1) /\ UNCHANGED closed
         \/ ~closed /\ closed' = TRUE /\ release(2)
  PROVE  ReferenceInv'
<1>1. object = "live"
  BY DEF ReferenceInv, Types, NoObject
<1>2. Cardinality(InFlight \ {c}) = Cardinality(InFlight) - 1
  BY InFlightIsFinite, FS_RemoveElement
<1>3. /\ Cardinality(InFlight) = 1 <=> InFlight' = {}
      /\ Cardinality(InFlight) \in Nat
  <2>1. IsFiniteSet(InFlight \ {c}) /\ (Cardinality(InFlight \ {c}) = 0 <=> InFlight \ {c} = {})
    BY InFlightIsFinite, FS_RemoveElement, FS_EmptySet
  <2> QED
    BY <1>2, <2>1, InFlightIsFinite
<1>4. Cardinality(InFlight') = Cardinality(InFlight) - 1
  BY <1>2
<1>5. CASE release(1) /\ UNCHANGED closed
  <2>1. CASE closed
    BY <1>1, <1>3, <1>4, <1>5, <2>1 DEF ReferenceInv, BaseReference, NoObject, release
  <2>2. CASE ~closed
    <3>1. Cardinality(InFlight) # 0
      BY InFlightIsFinite, FS_EmptySet
    <3>2. references = Cardinality(InFlight) + 1 /\ object' = "live" /\ ~closed'
      BY <1>1, <1>3, <1>5, <2>2, <3>1 DEF ReferenceInv, BaseReference, NoObject, release
    <3> QED
      BY <1>1, <1>3, <1>4, <1>5, <2>2, <3>2 DEF ReferenceInv, BaseReference, NoObject, release
  <2> QED
    BY <2>1, <2>2
<1>6. CASE ~closed /\ closed' = TRUE /\ release(2)
  BY <1>1, <1>3, <1>4, <1>6 DEF ReferenceInv, BaseReference, NoObject, release
<1> QED
  BY <1>5, <1>6

\* The reference count.
LEMMA StepReferences == IInv /\ [Next]_vars => ReferenceInv'
<1> SUFFICES ASSUME Types, ReferenceInv, LifeInv, [Next]_vars PROVE ReferenceInv'
  BY DEF IInv
<1>1. CASE \A c \in Clients : ~RefStep(c)
  <2>1. InFlight' = InFlight /\ UNCHANGED <<object, references, closed>>
    BY <1>1, ReferencesKept
  <2> QED
    BY <2>1 DEF ReferenceInv, BaseReference, NoObject
<1>2. ASSUME NEW c \in Clients, RefStep(c) PROVE ReferenceInv'
  <2> USE DEF Types, Goto, objectVars, wrapperVars, clientVars
  <2>1. CASE async_start(c) \/ fail_launch(c)
    <3>1. /\ object = "none" /\ object' = "live" /\ references' = 1
          /\ UNCHANGED <<pc, closed>>
      BY <2>1 DEF async_start, fail_launch
    <3>2. InFlight' = InFlight
      BY <3>1 DEF InFlight
    <3>3. InFlight = {} /\ ~closed /\ Cardinality(InFlight') = 0
      BY <3>1, <3>2, FS_EmptySet DEF ReferenceInv, NoObject
    <3> QED
      BY <3>1, <3>2, <3>3 DEF ReferenceInv, BaseReference, NoObject
  <2>7. CASE async_start_null(c) \/ close_null(c)
    <3>1. /\ object' = "null" /\ NoObject /\ UNCHANGED <<pc, references>>
          /\ object = "none" => UNCHANGED closed
      BY <2>7 DEF async_start_null, close_null, NoObject
    <3>2. InFlight' = InFlight
      BY <3>1 DEF InFlight
    <3> QED
      BY <3>1, <3>2 DEF ReferenceInv, BaseReference, NoObject
  <2>2. CASE \E isTimed \in BOOLEAN : async_next_block(c, isTimed) \/ async_wait_block(c, isTimed)
    <3>1. InFlight' = InFlight \cup {c}
      BY <2>2 DEF async_next_block, async_wait_block, InFlight
    <3> QED
      BY <2>2, <3>1, EnterReferences DEF async_next_block, async_wait_block
  <2>3. CASE shutdown_block(c)
    <3>1. InFlight' = InFlight \cup {c}
      BY <2>3, AwakeKeeps DEF shutdown_block, ShutdownLocked, InFlight
    <3> QED
      BY <2>3, <3>1, EnterReferences DEF shutdown_block
  <2>4. CASE next_return(c) \/ wait_return(c)
    <3>1. c \in InFlight /\ InFlight' = InFlight \ {c}
      BY <2>4 DEF next_return, wait_return, InFlight
    <3> QED
      BY <2>4, <3>1, LeaveReferences DEF next_return, wait_return
  <2>5. CASE close_finish(c)
    <3>1. c \in InFlight /\ InFlight' = InFlight \ {c}
      BY <2>5 DEF close_finish, InFlight
    <3> QED
      BY <2>5, <3>1, LeaveReferences DEF close_finish
  <2>6. CASE close_now(c)
    <3>1. InFlight' = InFlight
      BY <2>6, AwakeKeeps DEF close_now, Usable, ShutdownLocked, InFlight
    <3>2. object = "live" /\ ~closed /\ closed' /\ release(1)
      BY <2>6 DEF close_now, Usable
    <3>3. Cardinality(InFlight) = 0 <=> InFlight = {}
      BY InFlightIsFinite, FS_EmptySet
    <3> QED
      BY <3>1, <3>2, <3>3, InFlightIsFinite DEF ReferenceInv, BaseReference, NoObject, release
  <2> QED
    BY <1>2, <2>1, <2>2, <2>3, <2>4, <2>5, <2>6, <2>7 DEF RefStep
<1> QED
  BY <1>1, <1>2

\* Steps that touch neither pump, child nor status keep LifeInv.
LEMMA LifeKept ==
  ASSUME LifeInv,
         UNCHANGED <<pumpStarted, pumpJoined, pump, completed, closed, reaped, child, fd, state,
                     cachedState>>,
         object' = object \/ (~NoObject /\ ~NoObject'),
         \A c \in Clients : pc'[c] = "shut_return" => pc[c] = "shut_return" \/ pumpJoined
  PROVE  LifeInv'
  BY DEF LifeInv, NoObject

\* The steps of child and clock.
LEMMA EnvironmentLife ==
  ASSUME Types, LifeInv, SignalInv, Environment, UNCHANGED world PROVE LifeInv' /\ SignalInv'
<1> USE DEF objectVars, flowVars, cancelVars, reapVars, joinVars, pumpVars, childVars, clientVars,
            wrapperVars, historyVars
<1>1. ASSUME NEW s \in Streams, child_write(s) PROVE LifeInv' /\ SignalInv'
  BY <1>1, LifeKept DEF child_write, SignalInv
<1>2. CASE child_fork \/ descendant_exit \/ kill_deadline_passes \/ drain_time_passes
  BY <1>2, LifeKept DEF child_fork, descendant_exit, kill_deadline_passes, drain_time_passes,
                        SignalInv
<1>3. CASE child_exit
  <2>1. ~reaped /\ ~NoObject /\ child = "running"
    BY <1>3 DEF child_exit, LifeInv, NoObject
  <2>2. LifeInv'
    BY <1>3, <2>1 DEF child_exit, LifeInv, NoObject
  <2>3. SignalInv'
    BY <1>3, <2>1 DEF child_exit, SignalInv
  <2> QED
    BY <2>2, <2>3
<1> QED
  BY <1>1, <1>2, <1>3 DEF Environment

\* The steps of the pump.
LEMMA PumpLife ==
  ASSUME Types, Flags, LifeInv, SignalInv, Pump, UNCHANGED world PROVE LifeInv' /\ SignalInv'
<1> USE DEF objectVars, flowVars, cancelVars, reapVars, joinVars, pumpVars, childVars, clientVars,
            wrapperVars, historyVars
<1>1. /\ pumpStarted /\ ~pumpJoined /\ ~completed /\ ~closed /\ ~NoObject
      /\ pump \notin {"none", "done"}
      /\ \A c \in Clients : pc[c] # "shut_return"
  BY DEF Pump, drain_read, drain_drop, drain_close, drain_pass, pump_check, pump_finish, Label,
         LifeInv, NoObject
<1>2. ASSUME pc' = pc \/ Broadcast PROVE \A c \in Clients : pc'[c] # "shut_return"
  BY <1>1, <1>2, AwakeKeeps DEF Broadcast, Types
<1>3. ASSUME NEW s \in Streams, drain_read(s) \/ drain_drop(s) \/ drain_close(s) \/ drain_pass(s)
      PROVE  LifeInv' /\ SignalInv'
  <2>1. /\ pump' \notin {"none", "done"} /\ (pc' = pc \/ Broadcast)
        /\ UNCHANGED <<pumpStarted, pumpJoined, completed, closed, object, reaped, child, state,
                       cachedState, strayKill>>
    BY <1>1, <1>3 DEF drain_read, drain_drop, drain_close, drain_pass, After
  <2>2. \A x \in Clients : pc'[x] # "shut_return"
    BY <1>2, <2>1
  <2>3. LifeInv'
    BY <1>1, <2>1, <2>2 DEF LifeInv, NoObject
  <2> QED
    BY <2>1, <2>3 DEF SignalInv
<1>4. CASE pump_check
  <2>1. /\ pump' = "finish"
        /\ UNCHANGED <<pumpStarted, pumpJoined, completed, closed, object, cachedState, pc>>
    BY <1>4 DEF pump_check
  <2>2. CASE reaped \/ child = "running"
    <3>1. UNCHANGED <<reaped, state, child>>
      BY <1>4, <2>2 DEF pump_check, reap_locked
    <3>2. ~world.autoReap => ~strayKill'
      BY <1>4, <2>2, <3>1 DEF pump_check, signal_child_locked, SignalInv
    <3> QED
      BY <1>1, <2>1, <3>1, <3>2 DEF LifeInv, SignalInv, NoObject
  <2>3. CASE ~(reaped \/ child = "running")
    <3>1. reaped' /\ child' = "gone" /\ state' \in FinalStates
      BY <1>4, <2>3 DEF pump_check, reap_locked, FinalStates
    <3>2. UNCHANGED strayKill
      BY <1>4, <3>1 DEF pump_check
    <3> QED
      BY <1>1, <2>1, <3>1, <3>2 DEF LifeInv, SignalInv, NoObject
  <2> QED
    BY <2>2, <2>3
<1>5. CASE pump_finish
  <2>1. /\ pc' = pc \/ Broadcast
        /\ UNCHANGED <<pumpStarted, pumpJoined, closed, object, reaped, child, state, cachedState,
                       strayKill>>
    BY <1>5 DEF pump_finish
  <2>2. \/ completed' /\ reaped /\ pump' = "done" /\ \A s \in Streams : ~fd'[s]
        \/ ~completed' /\ pump' = "drain_stdout"
    BY <1>1, <1>5 DEF pump_finish
  <2> QED
    BY <1>1, <1>2, <2>1, <2>2 DEF LifeInv, SignalInv, NoObject
<1> QED
  BY <1>3, <1>4, <1>5 DEF Pump

\* The calls.
LEMMA ClientLife ==
  ASSUME IInv, NEW c \in Clients, Client(c), UNCHANGED world PROVE LifeInv' /\ SignalInv'
<1>1. Types /\ Flags /\ LifeInv /\ SignalInv /\ ReferenceInv
  BY DEF IInv
<1>2. c \in InFlight => ~NoObject
  BY <1>1 DEF ReferenceInv
<1> USE DEF objectVars, flowVars, cancelVars, reapVars, joinVars, pumpVars, childVars, clientVars,
            wrapperVars, historyVars
<1>3. CASE gil_acquire(c) \/ gil_release(c)
  BY <1>1, <1>3, LifeKept DEF gil_acquire, gil_release, Goto, Types, SignalInv
<1>4. CASE async_start(c)
  BY <1>1, <1>4 DEF async_start, LifeInv, SignalInv, NoObject
<1>5. CASE fail_launch(c)
  <2>1. ~pumpStarted /\ ~pumpJoined /\ ~closed /\ pump = "none" /\ child = "none"
        /\ \A s \in Streams : ~fd[s]
    BY <1>1, <1>5 DEF fail_launch, LifeInv, NoObject
  <2> QED
    BY <1>1, <1>5, <2>1 DEF fail_launch, LifeInv, SignalInv, FinalStates, NoObject
<1>19. CASE async_start_null(c) \/ close_null(c)
  <2>1. /\ NoObject /\ object' = "null"
        /\ closed' => cachedState' = "LAUNCH_FAILED"
        /\ UNCHANGED <<pumpStarted, pumpJoined, pump, completed, reaped, child, fd, state, pc,
                       strayKill>>
    BY <1>1, <1>19 DEF async_start_null, close_null, NoObject, LifeInv
  <2> QED
    BY <1>1, <2>1 DEF LifeInv, SignalInv, NoObject
<1>6. CASE async_next(c)
  BY <1>1, <1>6, LifeKept DEF async_next, SignalInv
<1>7. CASE \E isTimed \in BOOLEAN : async_next_block(c, isTimed) \/ async_wait_block(c, isTimed)
  BY <1>1, <1>7, LifeKept DEF async_next_block, async_wait_block, Goto, Types, SignalInv
<1>8. CASE next_test(c) \/ wait_test(c)
  BY <1>1, <1>8, LifeKept DEF next_test, wait_test, Goto, Types, SignalInv
<1>9. CASE shutdown_test(c)
  BY <1>1, <1>9, LifeKept DEF shutdown_test, Goto, Types, SignalInv
<1>10. CASE spurious_wakeup(c)
  BY <1>1, <1>10, LifeKept, AwakeKeeps DEF spurious_wakeup, Goto, Types, SignalInv
<1>11. CASE next_return(c) \/ wait_return(c)
  <2>1. c \in InFlight
    BY <1>11 DEF next_return, wait_return, InFlight
  <2>2. ~NoObject /\ ~NoObject'
    BY <1>2, <1>11, <2>1 DEF next_return, wait_return, release, NoObject
  <2> QED
    BY <1>1, <1>11, <2>2, LifeKept DEF next_return, wait_return, Goto, Types, SignalInv
<1>12. ASSUME NEW now \in BOOLEAN, async_cancel(c, now) PROVE LifeInv' /\ SignalInv'
  <2>1. ~world.autoReap => ~strayKill'
    BY <1>1, <1>12 DEF async_cancel, signal_child_locked, SignalInv
  <2> QED
    BY <1>1, <1>12, <2>1, LifeKept DEF async_cancel, SignalInv
<1>13. ASSUME NEW label, ShutdownLocked(c, label)
       PROVE  /\ ~world.autoReap => ~strayKill'
              /\ \A x \in Clients : x # c => (pc'[x] = "shut_return" <=> pc[x] = "shut_return")
  <2>1. ~world.autoReap => ~strayKill'
    BY <1>1, <1>13 DEF ShutdownLocked, signal_child_locked, SignalInv
  <2>2. \A x \in Clients : x # c => (pc'[x] = "shut_return" <=> pc[x] = "shut_return")
    BY <1>1, <1>13, AwakeKeeps DEF ShutdownLocked, Types
  <2> QED
    BY <2>1, <2>2
<1>14. CASE shutdown_block(c)
  <2>1. pc'[c] # "shut_return"
    BY <1>1, <1>14 DEF shutdown_block, ShutdownLocked, Types
  <2>2. /\ ~world.autoReap => ~strayKill'
        /\ \A x \in Clients : pc'[x] = "shut_return" => pc[x] = "shut_return"
    BY <1>13, <1>14, <2>1 DEF shutdown_block
  <2> QED
    BY <1>1, <1>14, <2>2, LifeKept DEF shutdown_block, SignalInv
<1>15. CASE close_now(c)
  <2>1. pc'[c] # "shut_return" /\ object = "live" /\ ~NoObject'
    BY <1>1, <1>15 DEF close_now, ShutdownLocked, Usable, Types, release, NoObject
  <2>2. /\ ~world.autoReap => ~strayKill'
        /\ \A x \in Clients : pc'[x] = "shut_return" => pc[x] = "shut_return"
    BY <1>13, <1>15, <2>1 DEF close_now
  <2>3. completed
    BY <1>1, <1>15, <2>1 DEF close_now, LifeInv, NoObject
  <2>4. closed' /\ cachedState' = state /\ (pumpJoined \/ ~pumpStarted)
    BY <1>15, <2>3 DEF close_now, VisibleState
  <2>5. UNCHANGED <<pumpStarted, pumpJoined, pump, completed, reaped, child, fd, state>>
    BY <1>15 DEF close_now
  <2>6. LifeInv'
    BY <1>1, <2>1, <2>2, <2>4, <2>5 DEF LifeInv, NoObject
  <2>7. SignalInv'
    BY <1>1, <2>2, <2>5 DEF SignalInv
  <2> QED
    BY <2>6, <2>7
<1>16. CASE shutdown_join(c)
  <2>1. pumpJoined' /\ pump = "done" /\ completed /\ pumpStarted
    BY <1>1, <1>16 DEF shutdown_join, LifeInv, NoObject
  <2>2. UNCHANGED <<pumpStarted, pump, completed, closed, reaped, child, fd, state, cachedState,
                    object, strayKill>>
    BY <1>16 DEF shutdown_join
  <2> QED
    BY <1>1, <2>1, <2>2 DEF LifeInv, SignalInv, NoObject
<1>17. CASE close_finish(c)
  <2>1. c \in InFlight /\ pumpJoined /\ completed
    BY <1>1, <1>17 DEF close_finish, InFlight, LifeInv, NoObject
  <2>2. ~NoObject /\ ~NoObject'
    BY <1>2, <1>17, <2>1 DEF close_finish, release, NoObject
  <2>3. closed' /\ cachedState' = state
    BY <1>1, <1>17, <2>1 DEF close_finish, VisibleState, LifeInv, NoObject
  <2>4. UNCHANGED <<pumpStarted, pumpJoined, pump, completed, reaped, child, fd, state, strayKill>>
    BY <1>17 DEF close_finish
  <2>5. LifeInv'
    BY <1>1, <2>1, <2>2, <2>3, <2>4 DEF LifeInv, NoObject
  <2> QED
    BY <1>1, <2>4, <2>5 DEF SignalInv
<1>18. CASE UNCHANGED vars
  BY <1>1, <1>18, LifeKept DEF vars, SignalInv
<1> QED
  BY <1>3, <1>4, <1>5, <1>6, <1>7, <1>8, <1>9, <1>10, <1>11, <1>12, <1>14, <1>15, <1>16, <1>17,
     <1>18, <1>19, Refusals DEF Client

\* The life of pump and child.
LEMMA StepLife == IInv /\ [Next]_vars => LifeInv' /\ SignalInv'
<1> SUFFICES ASSUME IInv, [Next]_vars PROVE LifeInv' /\ SignalInv'
  OBVIOUS
<1>1. CASE UNCHANGED vars
  BY <1>1, LifeKept DEF IInv, vars, SignalInv, objectVars, flowVars, reapVars, joinVars,
     pumpVars, childVars, clientVars, wrapperVars, historyVars
<1> QED
  BY <1>1, EnvironmentLife, PumpLife, ClientLife, UsersAreClients DEF Next, IInv

\* Failures, cancels and closes are never taken back, so a stream stays at its
\* end if nobody starts to write.
LEMMA DrainKept ==
  ASSUME DrainInv, UNCHANGED <<pipe, fd>>, Writers' => Writers, abandon' => abandon,
         failed => failed', closing => closing', cancelRequested => cancelRequested'
  PROVE  DrainInv'
  BY DEF DrainInv

\* What a closed stream has left.
LEMMA StepDrain == IInv /\ [Next]_vars => DrainInv'
<1> SUFFICES ASSUME Types, Flags, LifeInv, DrainInv, [Next]_vars PROVE DrainInv'
  BY DEF IInv
<1> USE DEF objectVars, flowVars, cancelVars, reapVars, joinVars, pumpVars, childVars, clientVars,
            wrapperVars, historyVars
<1>1. CASE Environment
  <2>1. ASSUME NEW s \in Streams, child_write(s) PROVE DrainInv'
    BY <2>1 DEF child_write, DrainInv, Writers
  <2>2. CASE child_fork
    BY <2>2 DEF child_fork, DrainInv, Writers
  <2>3. CASE descendant_exit \/ child_exit
    BY <2>3, DrainKept DEF descendant_exit, child_exit, Writers
  <2>4. CASE kill_deadline_passes \/ drain_time_passes
    BY <2>4, DrainKept DEF kill_deadline_passes, drain_time_passes, Writers
  <2> QED
    BY <1>1, <2>1, <2>2, <2>3, <2>4 DEF Environment
<1>2. ASSUME NEW s \in Streams, drain_read(s) \/ drain_drop(s) PROVE DrainInv'
  <2>1. /\ fd[s] /\ \A x \in Streams : x # s => pipe'[x] = pipe[x]
        /\ UNCHANGED <<fd, abandon, closing, cancelRequested, child, descendant>>
        /\ failed => failed'
    BY <1>2 DEF drain_read, drain_drop, Types
  <2> QED
    BY <2>1 DEF DrainInv, Writers
<1>3. ASSUME NEW s \in Streams, drain_close(s) PROVE DrainInv'
  <2>1. /\ \A x \in Streams : x # s => fd'[x] = fd[x]
        /\ UNCHANGED <<pipe, abandon, closing, cancelRequested, child, descendant>>
        /\ failed' \/ (pipe[s] = 0 /\ ~Writers /\ failed' = failed)
    BY <1>3 DEF drain_close, Types
  <2>2. failed => failed'
    BY <1>3 DEF drain_close
  <2> QED
    BY <2>1, <2>2 DEF DrainInv, Writers
<1>4. ASSUME NEW s \in Streams, drain_pass(s) PROVE DrainInv'
  BY <1>4, DrainKept DEF drain_pass, Writers
<1>5. CASE pump_check
  <2>1. /\ abandon' => closing \/ cancelRequested
        /\ UNCHANGED <<pipe, fd, closing, cancelRequested, descendant>>
    BY <1>5 DEF pump_check
  <2>2. child' = "running" => child = "running"
    BY <1>5 DEF pump_check, reap_locked
  <2>3. failed => failed'
    BY <1>5 DEF pump_check, reap_locked
  <2> QED
    BY <2>1, <2>2, <2>3 DEF DrainInv, Writers
<1>6. CASE pump_finish
  <2>1. /\ UNCHANGED <<pipe, abandon, closing, cancelRequested, child, descendant>>
        /\ abandon \/ fd' = fd
        /\ failed => failed'
    BY <1>6 DEF pump_finish
  <2> QED
    BY <2>1 DEF DrainInv, Writers
<1>7. ASSUME NEW c \in Clients, Client(c) PROVE DrainInv'
  <2>1. CASE async_start(c)
    BY <2>1 DEF async_start, DrainInv
  <2>2. CASE fail_launch(c)
    BY <2>2, DrainKept DEF fail_launch, Writers
  <2>3. CASE ~async_start(c) /\ ~fail_launch(c)
    <3>1. /\ UNCHANGED <<pipe, fd, child, descendant, abandon, failed>>
          /\ closing => closing'
          /\ cancelRequested => cancelRequested'
      BY <1>7, <2>3 DEF Client, gil_acquire, async_start_null, close_null, gil_release, async_next, async_next_block, next_test,
         next_return, async_wait_block, wait_test, wait_return, spurious_wakeup, async_cancel,
         async_cancel_refused, shutdown_block, shutdown_join, shutdown_test, close_finish,
         close_now, call_refused, ShutdownLocked, vars
    <3> QED
      BY <3>1, DrainKept DEF Writers
  <2> QED
    BY <2>1, <2>2, <2>3
<1>8. CASE UNCHANGED vars
  BY <1>8, DrainKept DEF vars, Writers
<1> QED
  BY <1>1, <1>2, <1>3, <1>4, <1>5, <1>6, <1>7, <1>8, UsersAreClients DEF Next, Pump

----------------------------------------------------------------------------
(* The queue.                                                              *)

\* Every queued event is a chunk of a stream or the completion.
LEMMA EventKinds ==
  ASSUME NEW e \in Event
  PROVE  e[2] \in Nat /\ (e[1] \in Streams \/ e = COMPLETED) /\ COMPLETED[1] \notin Streams
  BY DEF Event, COMPLETED, Streams

\* Taking the head keeps the queue in order and every chunk accounted for.
LEMMA TakeKeeps ==
  ASSUME Types, Flags, ChunksInv, QueueInv, TakeEvent,
         UNCHANGED <<pipe, written, failed, completed, pumpStarted, world>>
  PROVE  ChunksInv' /\ QueueInv'
<1>1. CASE events = <<>>
  <2>1. UNCHANGED <<events, completionTaken, delivered>>
    BY <1>1 DEF TakeEvent
  <2>2. \A s \in Streams : Count(s)' = Count(s)
    BY <2>1 DEF Count
  <2>3. ChunksInv'
    BY <2>1, <2>2 DEF ChunksInv
  <2>4. QueueInv'
    BY <2>1 DEF QueueInv, CompletedOnceLast, CompletionQueued
  <2> QED
    BY <2>3, <2>4
<1>2. CASE events # <<>>
  <2>1. /\ events' = Tail(events) /\ events \in Seq(Event)
        /\ completionTaken' = (completionTaken \/ Head(events) = COMPLETED)
        /\ \A s \in Streams : delivered'[s] = delivered[s] + IF Head(events)[1] = s THEN 1 ELSE 0
    BY <1>2 DEF TakeEvent, Types
  <2>2. /\ Len(events) \in Nat \ {0} /\ Len(events') = Len(events) - 1
        /\ events' \in Seq(Event) /\ Head(events) = events[1]
        /\ \A i \in 1..Len(events') : events'[i] = events[i + 1]
    BY <1>2, <2>1, HeadTailProperties, EmptySeq
  <2>3. \A i \in 1..Len(events') : i + 1 \in 1..Len(events)
    BY <2>2
  <2>4. \A s \in Streams : delivered'[s] + Count(s)' = delivered[s] + Count(s)
    <3> TAKE s \in Streams
    <3>1. Cardinality(EventsOf(events, s))
            = Cardinality(EventsOf(events', s)) + IF Head(events)[1] = s THEN 1 ELSE 0
      BY <1>2, <2>1, CountOfTail
    <3>2. Cardinality(EventsOf(events', s)) \in Nat /\ delivered[s] \in Nat
      BY <2>2, EventsAreFinite DEF Types
    <3>3. /\ Count(s) = Cardinality(EventsOf(events, s))
          /\ Count(s)' = Cardinality(EventsOf(events', s))
      BY DEF Count, EventsOf
    <3> QED
      BY <2>1, <3>1, <3>2, <3>3
  <2>5. ChunksInv'
    BY <2>2, <2>3, <2>4 DEF ChunksInv
  <2>6. \A i, j \in 1..Len(events') :
          i < j /\ events'[i][1] = events'[j][1] => events'[i][2] < events'[j][2]
    <3>1. \A i, j \in 1..Len(events') :
            i < j => i + 1 \in 1..Len(events) /\ j + 1 \in 1..Len(events) /\ i + 1 < j + 1
      BY <2>2, <2>3
    <3> QED
      BY <2>2, <3>1 DEF QueueInv
  <2>7. CompletedOnceLast'
    <3>1. \A i \in 1..Len(events') : events'[i] = COMPLETED => completed' /\ i = Len(events')
      BY <2>2, <2>3 DEF QueueInv, CompletedOnceLast
    <3>2. ~completionTaken
      BY <1>2 DEF QueueInv, CompletedOnceLast
    <3>3. Head(events) = COMPLETED => completed' /\ events' = <<>>
      BY <2>2, EmptySeq DEF QueueInv, CompletedOnceLast
    <3> QED
      BY <2>1, <3>1, <3>2, <3>3 DEF CompletedOnceLast
  <2>8. ASSUME CompletionQueued PROVE CompletionQueued'
    <3>1. ASSUME NEW i \in 1..Len(events), events[i] = COMPLETED, Head(events) # COMPLETED
          PROVE  \E j \in 1..Len(events') : events'[j] = COMPLETED
      <4>1. i - 1 \in 1..Len(events') /\ (i - 1) + 1 = i
        BY <2>2, <3>1
      <4> QED
        BY <2>2, <3>1, <4>1
    <3> QED
      BY <2>1, <2>8, <3>1 DEF CompletionQueued
  <2>9. ~(~pumpStarted /\ ~completed)
    BY <1>2 DEF QueueInv
  <2> QED
    BY <2>5, <2>6, <2>7, <2>8, <2>9 DEF QueueInv
<1> QED
  BY <1>1, <1>2

\* A queue with one more event at its end.
LEMMA AppendedQueue ==
  ASSUME Types, NEW e \in Event, events' = Append(events, e)
  PROVE  /\ Len(events) \in Nat /\ Len(events') = Len(events) + 1
         /\ events'[Len(events')] = e
         /\ \A i \in 1..Len(events') : i # Len(events') => i \in 1..Len(events) /\ events'[i] = events[i]
         /\ \A s \in Streams : Count(s)' = Count(s) + IF e[1] = s THEN 1 ELSE 0
<1>1. events \in Seq(Event)
  BY DEF Types
<1>2. /\ Len(events) \in Nat /\ Len(events') = Len(events) + 1
      /\ events'[Len(events) + 1] = e
      /\ \A i \in 1..Len(events) : events'[i] = events[i]
  BY <1>1, AppendProperties
<1>3. \A s \in Streams : Count(s)' = Count(s) + IF e[1] = s THEN 1 ELSE 0
  <2>1. \A s \in Streams : /\ Count(s) = Cardinality(EventsOf(events, s))
                          /\ Count(s)' = Cardinality(EventsOf(Append(events, e), s))
    BY DEF Count, EventsOf
  <2>2. \A s \in Streams : Cardinality(EventsOf(Append(events, e), s))
                            = Cardinality(EventsOf(events, s)) + IF e[1] = s THEN 1 ELSE 0
    BY <1>1, CountOfAppend
  <2> QED
    BY <2>1, <2>2
<1> QED
  BY <1>2, <1>3

\* The events of one kind are numbered in the order of the queue, and so are
\* they after an append with a higher number.
LEMMA OrderAfterAppend ==
  ASSUME Types, QueueInv, NEW e \in Event, events' = Append(events, e),
         \A i \in 1..Len(events) : events[i][1] = e[1] => events[i][2] < e[2]
  PROVE  \A i, j \in 1..Len(events') :
           i < j /\ events'[i][1] = events'[j][1] => events'[i][2] < events'[j][2]
<1> SUFFICES ASSUME NEW i \in 1..Len(events'), NEW j \in 1..Len(events'),
                    i < j, events'[i][1] = events'[j][1]
             PROVE  events'[i][2] < events'[j][2]
  OBVIOUS
<1>1. i # Len(events') /\ i \in 1..Len(events) /\ events'[i] = events[i]
  BY AppendedQueue
<1>2. CASE j = Len(events')
  <2>1. events'[j] = e
    BY <1>2, AppendedQueue
  <2> QED
    BY <1>1, <2>1
<1>3. CASE j # Len(events')
  <2>1. j \in 1..Len(events) /\ events'[j] = events[j]
    BY <1>3, AppendedQueue
  <2> QED
    BY <1>1, <2>1 DEF QueueInv
<1> QED
  BY <1>2, <1>3

\* Steps that leave the output alone.
LEMMA QueueKept ==
  ASSUME ChunksInv, QueueInv, failed => failed', pumpStarted => pumpStarted',
         UNCHANGED <<events, completed, completionTaken, pipe, written, delivered, world>>
  PROVE  ChunksInv' /\ QueueInv'
<1>1. \A s \in Streams : Count(s)' = Count(s)
  BY DEF Count
<1>2. ChunksInv'
  BY <1>1 DEF ChunksInv
<1>3. QueueInv'
  BY DEF QueueInv, CompletedOnceLast, CompletionQueued
<1> QED
  BY <1>2, <1>3

\* Reading a chunk moves it from the pipe to the end of the queue.
LEMMA ReadKeeps ==
  ASSUME IInv, NEW s \in Streams, drain_read(s), UNCHANGED world
  PROVE  ChunksInv' /\ QueueInv'
<1>1. Types /\ Flags /\ LifeInv /\ ChunksInv /\ QueueInv
  BY DEF IInv
<1> DEFINE n == written[s] - pipe[s] + 1
           e == <<s, n>>
<1>2. /\ pipe[s] > 0 /\ events' = Append(events, e)
      /\ UNCHANGED <<completed, completionTaken, written, delivered, failed, pumpStarted>>
      /\ \A x \in Streams : pipe'[x] = IF x = s THEN pipe[x] - 1 ELSE pipe[x]
  BY <1>1 DEF drain_read, Types, flowVars, joinVars, childVars, historyVars
<1>3. \A x \in Streams : /\ pipe[x] \in Nat /\ written[x] \in Nat /\ delivered[x] \in Nat
                         /\ Count(x) \in Nat
  BY <1>1, CountType DEF Types
<1>4. n \in Nat /\ e \in Event /\ e[1] = s /\ e[2] = n
  <2>1. n \in Nat
    BY <1>1, <1>3 DEF ChunksInv
  <2> QED
    BY <2>1 DEF Event
<1>5. pump \notin {"none", "done"} /\ ~completed /\ pumpStarted
  BY <1>1 DEF drain_read, Label, LifeInv
<1>6. \A i \in 1..Len(events) : events[i] \in Event /\ events[i][2] \in Nat
  <2>1. \A i \in 1..Len(events) : events[i] \in Event
    BY <1>1, ElementOfSeq DEF Types
  <2> QED
    BY <2>1, EventKinds
<1>7. \A i \in 1..Len(events) : events[i][1] = s => events[i][2] < n
  BY SMTT(30), <1>1, <1>3, <1>6 DEF ChunksInv
<1>8. written' = written /\ delivered' = delivered /\ failed' = failed /\ e \in Event
  BY <1>2, <1>4
<1> HIDE DEF e
<1>9. \A x \in Streams : Count(x)' = Count(x) + IF x = s THEN 1 ELSE 0
  <2>1. \A x \in Streams : Count(x)' = Count(x) + IF e[1] = x THEN 1 ELSE 0
    BY <1>1, <1>2, <1>4, AppendedQueue
  <2> QED
    BY <1>4, <2>1
<1>10. \A i \in 1..Len(events'), x \in Streams :
         events'[i][1] = x => events'[i][2] + pipe'[x] <= written'[x]
  <2> SUFFICES ASSUME NEW i \in 1..Len(events'), NEW x \in Streams, events'[i][1] = x
               PROVE  events'[i][2] + pipe'[x] <= written[x]
    BY <1>8
  <2>1. CASE i = Len(events')
    <3>1. events'[i] = e
      BY <1>1, <1>2, <1>4, <2>1, AppendedQueue
    <3> QED
      BY SMTT(30), <1>2, <1>3, <1>4, <3>1
  <2>2. CASE i # Len(events')
    <3>1. i \in 1..Len(events) /\ events'[i] = events[i]
      BY <1>1, <1>2, <1>4, <2>2, AppendedQueue
    <3>2. events[i][2] + pipe[x] <= written[x] /\ events[i][2] \in Nat
      BY <1>1, <1>6, <3>1 DEF ChunksInv
    <3> QED
      BY SMTT(30), <1>2, <1>3, <3>1, <3>2
  <2> QED
    BY <2>1, <2>2
<1>11. ChunksInv'
  <2>1. \A x \in Streams : delivered'[x] + Count(x)' + pipe'[x] = delivered[x] + Count(x) + pipe[x]
    <3> TAKE x \in Streams
    <3>1. CASE x = s
      <4>1. Count(x)' = Count(x) + 1 /\ pipe'[x] = pipe[x] - 1 /\ delivered'[x] = delivered[x]
        BY <1>2, <1>8, <1>9, <3>1
      <4> QED
        BY <1>3, <4>1
    <3>2. CASE x # s
      <4>1. Count(x)' = Count(x) + 0 /\ pipe'[x] = pipe[x] /\ delivered'[x] = delivered[x]
        BY <1>2, <1>8, <1>9, <3>2
      <4> QED
        BY <1>3, <4>1
    <3> QED
      BY <3>1, <3>2
  <2> QED
    BY <1>1, <1>8, <1>10, <2>1 DEF ChunksInv
<1>12. QueueInv'
  <2>1. \A i, j \in 1..Len(events') :
           i < j /\ events'[i][1] = events'[j][1] => events'[i][2] < events'[j][2]
    <3>1. \A i \in 1..Len(events) : events[i][1] = e[1] => events[i][2] < e[2]
      BY <1>4, <1>7
    <3> QED
      BY <1>1, <1>2, <1>4, <3>1, OrderAfterAppend
  <2>2. \A i \in 1..Len(events') : events'[i] # COMPLETED
    <3>1. e # COMPLETED
      BY <1>4, EventKinds
    <3>2. \A i \in 1..Len(events) : events[i] # COMPLETED
      BY <1>1, <1>5 DEF QueueInv, CompletedOnceLast
    <3> QED
      BY <1>1, <1>2, <1>4, <3>1, <3>2, AppendedQueue
  <2>3. ~completed' /\ ~completionTaken' /\ pumpStarted'
    BY <1>1, <1>2, <1>5 DEF QueueInv, CompletedOnceLast
  <2> QED
    BY <2>1, <2>2, <2>3 DEF QueueInv, CompletedOnceLast, CompletionQueued
<1> QED
  BY <1>11, <1>12

\* Completion is the last event.
LEMMA FinishKeeps ==
  ASSUME IInv, pump_finish, UNCHANGED world
  PROVE  ChunksInv' /\ QueueInv'
<1>1. Types /\ Flags /\ LifeInv /\ ChunksInv /\ QueueInv
  BY DEF IInv
<1>2. UNCHANGED <<completionTaken, pipe, written, delivered, pumpStarted>> /\ (failed => failed')
  BY DEF pump_finish, joinVars, childVars, historyVars
<1>3. ~completed /\ ~completionTaken
  BY <1>1 DEF pump_finish, LifeInv, QueueInv, CompletedOnceLast
<1>4. \A i \in 1..Len(events) : events[i] # COMPLETED
  BY <1>1, <1>3 DEF QueueInv, CompletedOnceLast
<1>5. CASE UNCHANGED <<events, completed>>
  BY <1>1, <1>2, <1>5, QueueKept
<1>6. CASE completed' /\ UNCHANGED events /\ failed'
  <2>1. \A s \in Streams : Count(s)' = Count(s)
    BY <1>6 DEF Count
  <2>2. ChunksInv'
    BY <1>1, <1>2, <1>6, <2>1 DEF ChunksInv
  <2>3. QueueInv'
    BY <1>1, <1>2, <1>3, <1>4, <1>6 DEF QueueInv, CompletedOnceLast
  <2> QED
    BY <2>2, <2>3
<1>7. CASE completed' /\ events' = Append(events, COMPLETED) /\ UNCHANGED failed
  <2>1. COMPLETED \in Event /\ COMPLETED[1] \notin Streams
    BY EventKinds DEF Event
  <2>2. /\ Len(events) \in Nat /\ Len(events') = Len(events) + 1
        /\ events'[Len(events')] = COMPLETED
        /\ \A i \in 1..Len(events') : i # Len(events') =>
             i \in 1..Len(events) /\ events'[i] = events[i]
        /\ \A s \in Streams : Count(s)' = Count(s) + IF COMPLETED[1] = s THEN 1 ELSE 0
    BY <1>1, <1>7, <2>1, AppendedQueue
  <2>3. \A s \in Streams : Count(s)' = Count(s)
    BY <1>1, <2>1, <2>2, CountType
  <2>4. ChunksInv'
    BY <1>1, <1>2, <1>7, <2>1, <2>2, <2>3 DEF ChunksInv
  <2>5. \A i \in 1..Len(events) : events[i][1] # COMPLETED[1]
    <3>1. \A i \in 1..Len(events) : events[i] \in Event
      BY <1>1, ElementOfSeq DEF Types
    <3> QED
      BY <1>4, <2>1, <3>1, EventKinds
  <2>6. \A i, j \in 1..Len(events') :
           i < j /\ events'[i][1] = events'[j][1] => events'[i][2] < events'[j][2]
    BY <1>1, <1>7, <2>1, <2>5, OrderAfterAppend
  <2>7. Len(events') \in 1..Len(events')
    BY <2>2
  <2>8. CompletedOnceLast' /\ CompletionQueued'
    BY <1>2, <1>3, <1>4, <1>7, <2>2, <2>7 DEF CompletedOnceLast, CompletionQueued
  <2> QED
    BY <1>7, <2>4, <2>6, <2>8 DEF QueueInv
<1> QED
  BY <1>5, <1>6, <1>7 DEF pump_finish

\* The output.
LEMMA StepQueue == IInv /\ [Next]_vars => ChunksInv' /\ QueueInv'
<1> SUFFICES ASSUME IInv, [Next]_vars PROVE ChunksInv' /\ QueueInv'
  OBVIOUS
<1>1. Types /\ Flags /\ LifeInv /\ ChunksInv /\ QueueInv
  BY DEF IInv
<1> USE DEF objectVars, flowVars, cancelVars, reapVars, joinVars, pumpVars, childVars, clientVars,
            wrapperVars, historyVars
<1>2. ASSUME NEW s \in Streams, child_write(s), UNCHANGED world PROVE ChunksInv' /\ QueueInv'
  <2>1. /\ \A x \in Streams : /\ pipe'[x] = IF x = s THEN pipe[x] + 1 ELSE pipe[x]
                              /\ written'[x] = IF x = s THEN written[x] + 1 ELSE written[x]
        /\ written["stdout"] + written["stderr"] < world.maxWrites
        /\ UNCHANGED <<events, completed, completionTaken, delivered, failed, pumpStarted>>
    BY <1>1, <1>2 DEF child_write, Types
  <2>2. \A x \in Streams : /\ pipe[x] \in Nat /\ written[x] \in Nat /\ delivered[x] \in Nat
                           /\ Count(x) \in Nat /\ Count(x)' = Count(x)
    BY <1>1, <2>1, CountType DEF Types, Count
  <2>3. \A i \in 1..Len(events) : events[i][2] \in Nat
    <3>1. \A i \in 1..Len(events) : events[i] \in Event
      BY <1>1, ElementOfSeq DEF Types
    <3> QED
      BY <3>1, EventKinds
  <2>4. written'["stdout"] + written'["stderr"] <= world'.maxWrites
    <3>1. world.maxWrites \in Nat
      BY <1>1, WorldsAssumption DEF Types
    <3> QED
      BY <1>2, <2>1, <2>2, <3>1 DEF Streams
  <2>5. \A x \in Streams : /\ delivered'[x] + Count(x)' + pipe'[x] <= written'[x]
                           /\ ~failed' => delivered'[x] + Count(x)' + pipe'[x] = written'[x]
    BY SMTT(30), <1>1, <2>1, <2>2 DEF ChunksInv
  <2>6. ASSUME NEW i \in 1..Len(events), NEW x \in Streams, events[i][1] = x
        PROVE  events[i][2] + pipe'[x] <= written'[x]
    <3>1. events[i][2] + pipe[x] <= written[x]
      BY <1>1, <2>6 DEF ChunksInv
    <3>2. events[i][2] \in Nat
      BY <2>3
    <3>3. /\ pipe[x] \in Nat /\ written[x] \in Nat
          /\ \/ pipe'[x] = pipe[x] + 1 /\ written'[x] = written[x] + 1
             \/ pipe'[x] = pipe[x] /\ written'[x] = written[x]
      BY <2>1, <2>2
    <3> QED
      BY <3>1, <3>2, <3>3
  <2>7. ChunksInv'
    BY <2>1, <2>4, <2>5, <2>6 DEF ChunksInv
  <2>8. QueueInv'
    BY <1>1, <1>2, <2>1 DEF QueueInv, CompletedOnceLast, CompletionQueued
  <2> QED
    BY <2>7, <2>8
<1>3. CASE /\ child_fork \/ descendant_exit \/ child_exit \/ kill_deadline_passes
              \/ drain_time_passes
           /\ UNCHANGED world
  BY <1>1, <1>3, QueueKept DEF child_fork, descendant_exit, child_exit, kill_deadline_passes,
     drain_time_passes
<1>4. ASSUME NEW s \in Streams, drain_drop(s), UNCHANGED world PROVE ChunksInv' /\ QueueInv'
  <2>1. /\ \A x \in Streams : pipe'[x] = IF x = s THEN pipe[x] - 1 ELSE pipe[x]
        /\ UNCHANGED <<events, completed, completionTaken, delivered, written>>
        /\ failed' /\ UNCHANGED pumpStarted
    BY <1>1, <1>4 DEF drain_drop, Types
  <2>2. \A x \in Streams : /\ pipe[x] \in Nat /\ written[x] \in Nat /\ delivered[x] \in Nat
                           /\ Count(x) \in Nat /\ Count(x)' = Count(x)
    BY <1>1, <2>1, CountType DEF Types, Count
  <2>3. \A i \in 1..Len(events) : events[i][2] \in Nat
    <3>1. \A i \in 1..Len(events) : events[i] \in Event
      BY <1>1, ElementOfSeq DEF Types
    <3> QED
      BY <3>1, EventKinds
  <2>4. \A x \in Streams : delivered'[x] + Count(x)' + pipe'[x] <= written'[x]
    BY SMTT(30), <1>1, <2>1, <2>2 DEF ChunksInv
  <2>5. ASSUME NEW i \in 1..Len(events), NEW x \in Streams, events[i][1] = x
        PROVE  events[i][2] + pipe'[x] <= written'[x]
    <3>1. events[i][2] + pipe[x] <= written[x]
      BY <1>1, <2>5 DEF ChunksInv
    <3>2. events[i][2] \in Nat
      BY <2>3
    <3>3. /\ pipe[x] \in Nat /\ written[x] \in Nat
          /\ pipe'[x] \in Int /\ pipe'[x] <= pipe[x] /\ written'[x] = written[x]
      BY <2>1, <2>2
    <3> QED
      BY <3>1, <3>2, <3>3
  <2>6. ChunksInv'
    BY <1>1, <1>4, <2>1, <2>4, <2>5 DEF ChunksInv
  <2>7. QueueInv'
    BY <1>1, <1>4, <2>1 DEF QueueInv, CompletedOnceLast, CompletionQueued
  <2> QED
    BY <2>6, <2>7
<1>5. ASSUME NEW s \in Streams, drain_close(s) \/ drain_pass(s), UNCHANGED world
      PROVE  ChunksInv' /\ QueueInv'
  BY <1>1, <1>5, QueueKept DEF drain_close, drain_pass
<1>6. CASE pump_check /\ UNCHANGED world
  <2>1. failed => failed'
    BY <1>6 DEF pump_check, reap_locked
  <2> QED
    BY <1>1, <1>6, <2>1, QueueKept DEF pump_check
<1>7. ASSUME NEW c \in Clients, Client(c), UNCHANGED world PROVE ChunksInv' /\ QueueInv'
  <2>1. CASE async_next(c) \/ next_return(c)
    BY <1>1, <1>7, <2>1, TakeKeeps DEF async_next, next_return
  <2>2. CASE fail_launch(c)
    <3>1. ~completed /\ ~completionTaken
      BY <1>1, <2>2 DEF fail_launch, LifeInv, QueueInv, CompletedOnceLast, NoObject
    <3>2. \A i \in 1..Len(events) : events[i] # COMPLETED
      BY <1>1, <3>1 DEF QueueInv, CompletedOnceLast
    <3>3. completed' /\ UNCHANGED <<completionTaken, pipe, written, delivered>>
      BY <2>2 DEF fail_launch
    <3>6. events = <<>>
      BY <1>1, <2>2 DEF fail_launch, LifeInv, QueueInv, NoObject
    <3>4. CASE UNCHANGED events /\ failed'
      <4>1. \A s \in Streams : Count(s)' = Count(s)
        BY <3>4 DEF Count
      <4>2. ChunksInv'
        BY <1>1, <1>7, <3>3, <3>4, <4>1 DEF ChunksInv
      <4>3. QueueInv'
        BY <1>1, <1>7, <3>1, <3>2, <3>3, <3>4 DEF QueueInv, CompletedOnceLast
      <4> QED
        BY <4>2, <4>3
    <3>5. CASE events' = <<COMPLETED>> /\ UNCHANGED failed
      <4>1. Len(events') = 1 /\ events'[1] = COMPLETED /\ COMPLETED[1] \notin Streams
        BY <3>5, EventKinds DEF Event
      <4>2. \A s \in Streams : Count(s)' = 0 /\ Count(s) = 0
        <5>1. \A s \in Streams : /\ {i \in 1..Len(events') : events'[i][1] = s} = {}
                                 /\ {i \in 1..Len(events) : events[i][1] = s} = {}
          BY <3>6, <4>1
        <5> QED
          BY <1>1, <5>1, CountType, FS_EmptySet DEF Count
      <4>3. ChunksInv'
        <5>1. \A s \in Streams : pipe[s] \in Nat /\ delivered[s] \in Nat /\ written[s] \in Nat
          BY <1>1 DEF Types
        <5>2. \A s \in Streams :
                /\ delivered'[s] + Count(s)' + pipe'[s] <= written'[s]
                /\ ~failed' => delivered'[s] + Count(s)' + pipe'[s] = written'[s]
          BY <1>1, <3>3, <3>5, <4>2, <5>1 DEF ChunksInv
        <5> QED
          BY <1>1, <1>7, <3>3, <4>1, <5>2 DEF ChunksInv
      <4>4. QueueInv'
        BY <3>1, <3>3, <4>1 DEF QueueInv, CompletedOnceLast, CompletionQueued
      <4> QED
        BY <4>3, <4>4
    <3> QED
      BY <2>2, <3>4, <3>5 DEF fail_launch
  <2>3. CASE ~async_next(c) /\ ~next_return(c) /\ ~fail_launch(c)
    <3>1. /\ UNCHANGED <<events, completed, completionTaken, pipe, written, delivered, failed>>
          /\ pumpStarted => pumpStarted'
      BY <1>7, <2>3 DEF Client, gil_acquire, gil_release, async_start, async_start_null, close_null, async_next_block, next_test,
         async_wait_block, wait_test, wait_return, spurious_wakeup, async_cancel,
         async_cancel_refused, shutdown_block, shutdown_join, shutdown_test, close_finish,
         close_now, call_refused, vars
    <3> QED
      BY <1>1, <1>7, <3>1, QueueKept
  <2> QED
    BY <2>1, <2>2, <2>3
<1>8. CASE UNCHANGED vars
  BY <1>1, <1>8, QueueKept DEF vars
<1> QED
  BY <1>2, <1>3, <1>4, <1>5, <1>6, <1>7, <1>8, ReadKeeps, FinishKeeps, UsersAreClients, <1>1
     DEF Next, Pump, Environment

\* The conjunction of all parts is inductive.
LEMMA Inductive == Spec => []IInv
<1>1. IInv /\ [Next]_vars => IInv'
  BY StepTypes, StepFlags, StepReferences, StepLife, StepDrain, StepQueue DEF IInv
<1> QED
  BY <1>1, InitIInv, PTL DEF Spec

----------------------------------------------------------------------------
(* What the run checks.                                                    *)

\* The bounds of the counters: there are no more references than threads and
\* one, and no more chunks anywhere than were written.
LEMMA TypesAreBounded == IInv => TypeOK
<1> SUFFICES ASSUME IInv PROVE TypeOK
  OBVIOUS
<1>1. Types /\ Flags /\ ReferenceInv /\ ChunksInv
  BY DEF IInv
<1>2. references \in 0..(Cardinality(Clients) + 1)
  <2>1. Cardinality(Clients) \in Nat
    BY ClientsAreFinite, FS_CardinalityType
  <2> QED
    BY <1>1, <2>1, InFlightIsFinite DEF ReferenceInv, BaseReference
<1>3. \A s \in Streams : /\ pipe[s] \in 0..world.maxWrites
                         /\ written[s] \in 0..world.maxWrites
                         /\ delivered[s] \in 0..world.maxWrites
  <2>1. world.maxWrites \in Nat
    BY <1>1, WorldsAssumption DEF Types
  <2>2. \A s \in Streams : /\ pipe[s] \in Nat /\ written[s] \in Nat /\ delivered[s] \in Nat
                           /\ Count(s) \in Nat
    BY <1>1, CountType DEF Types
  <2>3. \A s \in Streams : written[s] <= world.maxWrites
    BY SMTT(30), <1>1, <2>1, <2>2 DEF ChunksInv, Streams
  <2>4. \A s \in Streams : pipe[s] <= written[s] /\ delivered[s] <= written[s]
    BY <1>1, <2>2 DEF ChunksInv
  <2> QED
    BY <2>1, <2>2, <2>3, <2>4
<1>4. /\ pipe \in [Streams -> 0..world.maxWrites]
      /\ written \in [Streams -> 0..world.maxWrites]
      /\ delivered \in [Streams -> 0..world.maxWrites]
  BY <1>1, <1>3 DEF Types
<1>5. events \in Seq((Streams \X Nat) \cup {COMPLETED})
  BY <1>1 DEF Types, Event
<1> QED
  BY <1>1, <1>2, <1>4, <1>5 DEF TypeOK, Types, Flags

\* The reference count is the number of users, and the object is freed with
\* the last of them, after close() and after the pump has ended.
THEOREM FreedAfterLastUse == Spec => []NoUseAfterFree
<1>1. IInv => NoUseAfterFree
  <2> SUFFICES ASSUME IInv PROVE NoUseAfterFree
    OBVIOUS
  <2>1. Types /\ ReferenceInv /\ LifeInv
    BY DEF IInv
  <2>2. object = "freed" <=> object \notin {"none", "null"} /\ closed /\ InFlight = {}
    BY <2>1 DEF ReferenceInv, NoObject
  <2>3. closed => pump \in {"none", "done"}
    BY <2>1 DEF LifeInv, NoObject
  <2> QED
    BY <2>1, <2>2, <2>3 DEF NoUseAfterFree, ReferenceInv, BaseReference
<1> QED
  BY <1>1, Inductive, PTL

\* No signal goes to a process id after waitpid gave it up, however cancel,
\* close and the pump interleave.
THEOREM SignalsReachTheChild == Spec => []SignalsOnlyOurChild
<1>1. IInv => SignalsOnlyOurChild
  BY DEF IInv, SignalInv, SignalsOnlyOurChild
<1> QED
  BY <1>1, Inductive, PTL

\* close() returns after the child was waited for, with the final status and
\* closed pipes.
THEOREM CloseIsComplete == Spec => []CloseLeavesNothing
<1>1. IInv => CloseLeavesNothing
  <2> SUFFICES ASSUME LifeInv, closed PROVE CloseLeavesNothing
    BY DEF IInv, CloseLeavesNothing
  <2>1. CASE NoObject
    BY <2>1 DEF LifeInv, NoObject, CloseLeavesNothing, FinalStates
  <2>2. CASE ~NoObject
    <3>1. completed
      BY <2>2 DEF LifeInv
    <3> QED
      BY <2>2, <3>1 DEF LifeInv, NoObject, CloseLeavesNothing
  <2> QED
    BY <2>1, <2>2
<1> QED
  BY <1>1, Inductive, PTL

\* Chunks are delivered in order and none is lost without an error, and the
\* completion comes once and last, for any amount of output.
THEOREM OutputIsExact == Spec => []OutputExact
<1>1. IInv => OutputExact
  <2> SUFFICES ASSUME IInv PROVE OutputExact
    OBVIOUS
  <2>1. LifeInv /\ DrainInv /\ ChunksInv /\ QueueInv
    BY DEF IInv
  <2>2. ~failed => \A s \in Streams :
          /\ delivered[s] + Count(s) + pipe[s] = written[s]
          /\ completed /\ ~cancelRequested /\ ~closing => pipe[s] = 0
    BY <2>1 DEF LifeInv, DrainInv, ChunksInv
  <2> QED
    BY <2>1, <2>2, TypesAreBounded DEF OutputExact, QueueInv
<1> QED
  BY <1>1, Inductive, PTL
=============================================================================
