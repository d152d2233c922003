------------------------------- MODULE Lowering -------------------------------
(***************************************************************************)
(* Statements: the analyzer's checks on a body, the control flow that the  *)
(* generator emits for it, and the machine that executes what was emitted  *)
(* with the runtime's stack of exception frames.  A body is a tree of      *)
(* statement records; an expression is abstracted to what control flow     *)
(* tells apart: a read of a variable, a call that may raise E, a condition *)
(* of unknown outcome.  At the end of a run the machine is compared with   *)
(* Meaning, a structural semantics of the language, on the same outcomes.  *)
(***************************************************************************)
EXTENDS Integers, Sequences, SequencesExt, FiniteSets, TLC

CONSTANTS Programs,     \* a tuple of [kind |-> "void", "value" or "main", body |-> statements]
          MaxOutcomes   \* conditions and calls whose outcome is left open in a run

Types == {"Exception", "E", "F"}

ASSUME LoweringAssumption ==
  /\ Len(Programs) > 0 /\ MaxOutcomes \in Nat
  /\ \A p \in 1..Len(Programs) : Programs[p].kind \in {"void", "value", "main"}

\* isSubclassOf on the three exception classes: F derives from E, E from Exception.
isSubclassOf(t, u) == t = u \/ u = "Exception" \/ (t = "F" /\ u = "E")

\* The innermost scope that declares a name, 0 when none does.
ScopeOf(scopes, n) ==
  LET within == {i \in 1..Len(scopes) : n \in DOMAIN scopes[i]}
  IN  IF within = {} THEN 0 ELSE CHOOSE i \in within : \A j \in within : j <= i

\* Every statement of a list and of the statements inside it.
RECURSIVE Nested(_)
Nested(ss) ==
  IF ss = <<>> THEN <<>>
  ELSE LET s == Head(ss)
           inner == CASE s.k = "try" -> Nested(s.body) \o Nested(s.cleanup)
                                          \o FlattenSeq([i \in 1..Len(s.handlers) |-> Nested(s.handlers[i].body)])
                      [] s.k = "if" -> Nested(s.body) \o Nested(s.alternate)
                      [] s.k \in {"block", "while", "do", "each"} -> Nested(s.body)
                      [] OTHER -> <<>>
       IN  <<s>> \o inner \o Nested(Tail(ss))

-------------------------------------------------------------------------------
(* The analyzer.  Its state: ok is false once a diagnostic was raised, init *)
(* says which of the symbols declared so far are initialized.               *)

\* canFallThrough: whether control can reach the end of a list of statements.
RECURSIVE canFallThrough(_)
canFallThrough(ss) ==
  \A i \in 1..Len(ss) :
    LET s == ss[i] IN
    CASE s.k \in {"return", "raise", "rethrow", "break", "continue"} -> FALSE
      [] s.k = "block" -> canFallThrough(s.body)
      [] s.k = "if" -> canFallThrough(s.body) \/ ~s.hasAlternate \/ canFallThrough(s.alternate)
      [] s.k = "try" -> /\ s.hasCleanup => canFallThrough(s.cleanup)
                        /\ \/ canFallThrough(s.body)
                           \/ \E h \in 1..Len(s.handlers) : canFallThrough(s.handlers[h].body)
      [] OTHER -> TRUE

\* The checks on the except clauses of a try; "" is the type of a catch-all clause.
handlersValid(hs) ==
  /\ Cardinality({i \in 1..Len(hs) : hs[i].type = ""}) <= 1
  /\ \A i \in 1..Len(hs) :
       IF hs[i].type = "" THEN i = Len(hs) /\ \A j \in 1..(i - 1) : hs[j].type # "Exception"
       ELSE \A j \in 1..(i - 1) : hs[j].type # "" /\ ~isSubclassOf(hs[i].type, hs[j].type)

\* Declares a symbol in the innermost scope.
declareSymbol(a, n, initialized) ==
  [a EXCEPT !.ok = @ /\ n \notin DOMAIN Last(a.scopes),
            !.scopes = Append(Front(@), (n :> Len(a.init) + 1) @@ Last(@)),
            !.init = Append(@, initialized)]

findSymbolIndex(a, n) == IF ScopeOf(a.scopes, n) = 0 THEN 0 ELSE a.scopes[ScopeOf(a.scopes, n)][n]

\* Puts a saved state back; symbols declared since keep theirs.
restoreInitializationState(a, saved) ==
  [a EXCEPT !.init = [i \in 1..Len(@) |-> IF i <= Len(saved) THEN saved[i] ELSE @[i]]]

\* Both of two states, for the symbols of the shorter first one.
BothInit(s, t) == [i \in 1..Len(s) |-> s[i] /\ t[i]]

RECURSIVE analyzeStatements(_, _)
RECURSIVE analyzeStatement(_, _)

analyzeStatements(ss, a) ==
  IF ss = <<>> \/ ~a.ok THEN a ELSE analyzeStatements(Tail(ss), analyzeStatement(Head(ss), a))

\* The statements in a scope of their own.
analyzeScope(ss, a) ==
  LET r == analyzeStatements(ss, [a EXCEPT !.scopes = Append(@, <<>>)])
  IN  [r EXCEPT !.scopes = a.scopes]

analyzeLoop(s, a) ==
  LET opened == [a EXCEPT !.scopes = Append(@, <<>>), !.loopDepth = @ + 1]
      r == analyzeStatements(s.body, IF s.k = "each" THEN declareSymbol(opened, s.n, TRUE) ELSE opened)
  IN  restoreInitializationState([r EXCEPT !.scopes = a.scopes, !.loopDepth = a.loopDepth], a.init)

analyzeIf(s, a) ==
  LET taken  == analyzeScope(s.body, a)
      before == restoreInitializationState(taken, a.init)
      other  == analyzeScope(s.alternate, before)
  IN  IF s.hasAlternate
        THEN restoreInitializationState(other, BothInit(SubSeq(taken.init, 1, Len(a.init)), other.init))
        ELSE before

\* One except clause after the state the body left; merged is the state both leave.
analyzeHandler(h, a, before, merged) ==
  LET opened == [restoreInitializationState(a, before) EXCEPT !.scopes = Append(@, <<>>), !.handlerDepth = @ + 1]
      r == analyzeStatements(h.body, IF h.n = "" THEN opened
                                     ELSE LET d == declareSymbol(opened, h.n, TRUE)
                                          IN  [d EXCEPT !.readOnly = @ \cup {Len(d.init)}])
  IN  [a |-> [r EXCEPT !.scopes = a.scopes, !.handlerDepth = a.handlerDepth],
       merged |-> BothInit(merged, r.init)]

\* Mutant: the state after a try is the one its body leaves, whatever its handlers assign.
analyzeTry_mut(s, a) ==
  LET valid == [a EXCEPT !.ok = @ /\ handlersValid(s.handlers)]
      body  == analyzeScope(s.body, valid)
      done  == FoldLeft(LAMBDA acc, h : analyzeHandler(h, acc.a, a.init, acc.merged),
                        [a |-> body, merged |-> body.init], s.handlers)
      after == restoreInitializationState(done.a, body.init)
      r == analyzeScope(s.cleanup, [after EXCEPT !.finallyDepth = @ + 1])
  IN  IF s.hasCleanup THEN [r EXCEPT !.finallyDepth = a.finallyDepth] ELSE after

\* Every handler starts from the state before the body, finally from what body and handlers share.
analyzeTry(s, a) ==
  LET valid == [a EXCEPT !.ok = @ /\ handlersValid(s.handlers)]
      body  == analyzeScope(s.body, valid)
      done  == FoldLeft(LAMBDA acc, h : analyzeHandler(h, acc.a, a.init, acc.merged),
                        [a |-> body, merged |-> body.init], s.handlers)
      after == restoreInitializationState(done.a, done.merged)
      r == analyzeScope(s.cleanup, [after EXCEPT !.finallyDepth = @ + 1])
  IN  IF s.hasCleanup THEN [r EXCEPT !.finallyDepth = a.finallyDepth] ELSE after

analyzeAssignment(s, a) ==
  LET i == findSymbolIndex(a, s.n)
  IN  IF i = 0 \/ i \in a.readOnly THEN [a EXCEPT !.ok = FALSE] ELSE [a EXCEPT !.init[i] = TRUE]

analyzeRead(s, a) == LET i == findSymbolIndex(a, s.n) IN [a EXCEPT !.ok = i # 0 /\ a.init[i]]

analyzeStatement(s, a) ==
  CASE s.k = "declare" -> declareSymbol(a, s.n, s.initialized)
    [] s.k = "assign" -> analyzeAssignment(s, a)
    [] s.k = "read" -> analyzeRead(s, a)
    [] s.k = "if" -> analyzeIf(s, a)
    [] s.k \in {"while", "do", "each"} -> analyzeLoop(s, a)
    [] s.k \in {"break", "continue"} -> [a EXCEPT !.ok = a.loopDepth > 0]
    [] s.k = "rethrow" -> [a EXCEPT !.ok = a.handlerDepth > 0]
    [] s.k = "try" -> analyzeTry(s, a)
    [] s.k = "block" -> analyzeScope(s.body, a)
    [] s.k = "return" -> [a EXCEPT !.ok = a.finallyDepth = 0 /\ a.kind # "main"]
    [] OTHER -> a

\* Whether a method or the start block passes the analyzer.
analyzeMethod(p) ==
  LET a == analyzeStatements(p.body, [ok |-> TRUE, kind |-> p.kind, scopes |-> <<<<>>>>, init |-> <<>>,
                                      readOnly |-> {}, loopDepth |-> 0, handlerDepth |-> 0, finallyDepth |-> 0])
  IN  a.ok /\ ~(p.kind = "value" /\ canFallThrough(p.body))

-------------------------------------------------------------------------------
(* The generator.  Its state g: the code emitted so far, a counter for      *)
(* slots, labels and frames, scopes_, loopTargets_, activeTryTransfers_,    *)
(* activeExceptionHandlers_ and blockTerminated_ (term).                    *)

emit(g, code) == [g EXCEPT !.code = @ \o code]
Label(l) == <<[op |-> "label", l |-> l]>>
Branch(l) == <<[op |-> "br", l |-> l]>>
Frame(op, f) == <<[op |-> op, f |-> f]>>
Store(slot, v) == <<[op |-> "store", slot |-> slot, v |-> v]>>

RECURSIVE emitStatements(_, _)
RECURSIVE emitStatement(_, _)

emitStatements(ss, g) ==
  IF ss = <<>> \/ g.term THEN g ELSE emitStatements(Tail(ss), emitStatement(Head(ss), g))

\* The statements in a scope of their own, binding the given names, from a live block.
emitScope(ss, g, bound) ==
  LET r == emitStatements(ss, [g EXCEPT !.scopes = Append(@, bound), !.term = FALSE])
  IN  [r EXCEPT !.scopes = g.scopes]

findVariable(g, n) == g.scopes[ScopeOf(g.scopes, n)][n]

emitDeclaration(s, g) ==
  [g EXCEPT !.fresh = @ + 1,
            !.scopes = Append(Front(@), (s.n :> g.fresh) @@ Last(@)),
            !.code = @ \o Store(g.fresh, IF s.initialized THEN s.t ELSE "zero")]

RECURSIVE unwind(_, _)

\* Mutant: the frame of a try without cleanup is not popped.
unwind_mut(g, depth) ==
  IF Len(g.trys) <= depth \/ g.term THEN g
  ELSE LET a == Last(g.trys)
           popped == [g EXCEPT !.trys = Front(@), !.handlers = IF a.handled = 0 THEN @ ELSE Front(@),
                               !.code = @ \o (IF a.hasCleanup THEN Frame("pop", a.frame) ELSE <<>>)
                                          \o (IF a.handled = 0 THEN <<>> ELSE Frame("clear", a.handled))]
       IN  unwind(IF a.hasCleanup THEN emitScope(a.cleanup, popped, <<>>) ELSE popped, depth)

\* Leaves the try statements deeper than depth, innermost first, unless a cleanup leaves by itself.
unwind(g, depth) ==
  IF Len(g.trys) <= depth \/ g.term THEN g
  ELSE LET a == Last(g.trys)
           popped == [g EXCEPT !.trys = Front(@), !.handlers = IF a.handled = 0 THEN @ ELSE Front(@),
                               !.code = @ \o Frame("pop", a.frame)
                                          \o (IF a.handled = 0 THEN <<>> ELSE Frame("clear", a.handled))]
       IN  unwind(IF a.hasCleanup THEN emitScope(a.cleanup, popped, <<>>) ELSE popped, depth)

emitLoopTransfer(s, g) ==
  LET target == Last(g.loops)
      u == unwind(g, target.tryDepth)
  IN  [emit(u, IF u.term THEN <<>> ELSE Branch(IF s.k = "break" THEN target.break ELSE target.continue))
         EXCEPT !.term = TRUE, !.trys = g.trys, !.handlers = g.handlers]

emitReturn(s, g) ==
  LET u == unwind(g, 0)
  IN  [emit(u, IF u.term THEN <<>> ELSE <<[op |-> "ret", v |-> s.t]>>)
         EXCEPT !.term = TRUE, !.trys = g.trys, !.handlers = g.handlers]

emitIf(s, g) ==
  LET then == g.fresh  else == then + 1  end == then + 2
      g1 == emit([g EXCEPT !.fresh = @ + 3],
                 <<[op |-> "brif", yes |-> then, no |-> IF s.hasAlternate THEN else ELSE end]>> \o Label(then))
      g2 == emitScope(s.body, g1, <<>>)
      g3 == IF g2.term THEN g2 ELSE emit(g2, Branch(end))
      g4 == emitScope(s.alternate, emit(g3, Label(else)), <<>>)
      g5 == IF ~s.hasAlternate THEN g3 ELSE IF g4.term THEN g4 ELSE emit(g4, Branch(end))
      dead == g2.term /\ s.hasAlternate /\ g4.term
  IN  [emit(g5, Label(end) \o (IF dead THEN <<[op |-> "unreachable"]>> ELSE <<>>)) EXCEPT !.term = dead]

\* The body of a loop: its targets are known to the transfers inside it.
emitLoopBody(s, g, bound, break, continue) ==
  LET r == emitScope(s.body, [g EXCEPT !.loops = Append(@, [break |-> break, continue |-> continue,
                                                             tryDepth |-> Len(g.trys)])], bound)
  IN  [r EXCEPT !.loops = g.loops, !.term = FALSE,
                !.code = @ \o (IF r.term THEN <<>> ELSE Branch(continue))]

emitWhile(s, g) ==
  LET cond == g.fresh  body == cond + 1  end == cond + 2
      head == emit([g EXCEPT !.fresh = @ + 3], Branch(cond) \o Label(cond)
                     \o <<[op |-> "brif", yes |-> body, no |-> end]>> \o Label(body))
  IN  emit(emitLoopBody(s, head, <<>>, end, cond), Label(end))

emitDoWhile(s, g) ==
  LET body == g.fresh  cond == body + 1  end == body + 2
      head == emit([g EXCEPT !.fresh = @ + 3], Branch(body) \o Label(body))
  IN  emit(emitLoopBody(s, head, <<>>, end, cond),
           Label(cond) \o <<[op |-> "brif", yes |-> body, no |-> end]>> \o Label(end))

\* A snapshot of the collection's count elements is taken, and its length, before the loop.
emitForEach(s, g) ==
  LET value == g.fresh  index == value + 1  cond == value + 2  body == value + 3  step == value + 4  end == value + 5
      head == emit([g EXCEPT !.fresh = @ + 6],
                   <<[op |-> "index", slot |-> index, add |-> FALSE]>> \o Branch(cond) \o Label(cond)
                   \o <<[op |-> "inrange", slot |-> index, count |-> s.count, yes |-> body, no |-> end]>>
                   \o Label(body) \o Store(value, s.t))
  IN  emit(emitLoopBody(s, head, s.n :> value, end, step),
           Label(step) \o <<[op |-> "index", slot |-> index, add |-> TRUE]>> \o Branch(cond) \o Label(end))

\* setjmp on a fresh frame: the frame is pushed on the first return, the second goes to the label.
Protect(frame, body, exception) ==
  Frame("init", frame) \o <<[op |-> "setjmp", f |-> frame, l |-> exception]>> \o Label(body) \o Frame("push", frame)

\* The cleanup of a try, on one of the paths that run it.
Cleaned(s, g) == IF s.hasCleanup THEN emitScope(s.cleanup, g, <<>>) ELSE g

\* Appends the code that ends a path, unless the cleanup on it left already.
Ending(g, code) == IF g.term THEN g ELSE [emit(g, code) EXCEPT !.term = TRUE]

\* An except clause: its body under a frame of its own, then the path of an exception raised in it.
emitHandler(s, h, label, frame, end, g) ==
  LET catch == g.fresh  body == catch + 1  error == catch + 2  slot == catch + 3
      g1 == emit([g EXCEPT !.fresh = @ + 4], Label(label) \o Protect(catch, body, error)
                   \o (IF h.n = "" THEN <<>> ELSE <<[op |-> "bind", f |-> frame, slot |-> slot]>>))
      g2 == emitScope(h.body, [g1 EXCEPT !.trys = Append(@, [frame |-> catch, hasCleanup |-> s.hasCleanup,
                                                             cleanup |-> s.cleanup, handled |-> frame]),
                                         !.handlers = Append(@, frame)],
                      IF h.n = "" THEN <<>> ELSE h.n :> slot)
      g3 == [g2 EXCEPT !.trys = g.trys, !.handlers = g.handlers]
      g4 == Cleaned(s, emit(g3, Frame("pop", catch) \o Frame("clear", frame)))
      g5 == IF g3.term THEN g3 ELSE Ending(g4, Branch(end))
      g6 == Cleaned(s, emit([g5 EXCEPT !.term = FALSE], Label(error) \o Frame("clear", frame)))
  IN  [g |-> Ending(g6, Frame("rethrow", catch)), ends |-> ~g3.term /\ ~g4.term]

\* The path of an exception that no handler takes.
emitUnmatched(s, g, frame) == Ending(Cleaned(s, g), Frame("rethrow", frame))

emitTry(s, g) ==
  LET frame == g.fresh  body == frame + 1  exception == frame + 2  end == frame + 3  done == frame + 4
      N == Len(s.handlers)
      match(i) == frame + 4 + i
      catchAll == N > 0 /\ s.handlers[N].type = ""
      g1 == emitScope(s.body,
              [emit([g EXCEPT !.fresh = @ + 5 + N], Protect(frame, body, exception)) EXCEPT
                 !.trys = Append(@, [frame |-> frame, hasCleanup |-> s.hasCleanup,
                                     cleanup |-> s.cleanup, handled |-> 0])], <<>>)
      tests == [i \in 1..N |-> IF s.handlers[i].type = "" THEN [op |-> "br", l |-> match(i)]
                               ELSE [op |-> "matches", f |-> frame, type |-> s.handlers[i].type, yes |-> match(i)]]
      g2 == [emit(g1, (IF g1.term THEN <<>> ELSE Frame("pop", frame) \o Branch(done))
                      \o Label(exception) \o tests) EXCEPT !.trys = g.trys, !.term = FALSE]
      g3 == IF catchAll THEN g2 ELSE emitUnmatched(s, g2, frame)
      hs == FoldLeft(LAMBDA acc, i : LET r == emitHandler(s, s.handlers[i], match(i), frame, end, acc.g)
                                     IN  [g |-> r.g, ends |-> acc.ends \/ r.ends],
                     [g |-> g3, ends |-> FALSE], [i \in 1..N |-> i])
      g4 == Cleaned(s, emit([hs.g EXCEPT !.term = FALSE], Label(done)))
      g5 == IF g1.term THEN hs.g ELSE Ending(g4, Branch(end))
      ends == hs.ends \/ (~g1.term /\ ~g4.term)
  IN  [emit(g5, IF ends THEN Label(end) ELSE <<>>) EXCEPT !.term = ~ends]

emitAssignment(s, g) == emit(g, Store(findVariable(g, s.n), s.t))

emitStatement(s, g) ==
  CASE s.k = "declare" -> emitDeclaration(s, g)
    [] s.k = "assign" -> emitAssignment(s, g)
    [] s.k = "read" -> emit(g, <<[op |-> "print", t |-> s.t, slot |-> findVariable(g, s.n)]>>)
    [] s.k = "call" -> emit(g, <<[op |-> "call", t |-> s.t]>>)
    [] s.k = "block" -> LET r == emitStatements(s.body, [g EXCEPT !.scopes = Append(@, <<>>)])
                        IN  [r EXCEPT !.scopes = g.scopes]
    [] s.k = "if" -> emitIf(s, g)
    [] s.k = "while" -> emitWhile(s, g)
    [] s.k = "do" -> emitDoWhile(s, g)
    [] s.k = "each" -> emitForEach(s, g)
    [] s.k = "raise" -> Ending(g, <<[op |-> "raise", type |-> s.type]>>)
    [] s.k = "rethrow" -> Ending(g, Frame("rethrow", Last(g.handlers)))
    [] s.k = "try" -> emitTry(s, g)
    [] s.k = "return" -> emitReturn(s, g)
    [] OTHER -> emitLoopTransfer(s, g)

\* A method ends with ret void when control can reach its end, the start block with an exit.
emitMethod(p) ==
  LET g == emitStatements(p.body, [code |-> <<>>, fresh |-> 1, scopes |-> <<<<>>>>, loops |-> <<>>,
                                   trys |-> <<>>, handlers |-> <<>>, term |-> FALSE])
  IN  g.code \o (IF p.kind # "main" /\ g.term THEN <<>> ELSE <<[op |-> "retvoid"]>>)

-------------------------------------------------------------------------------
(* The machine.  frames[f] is an exception frame of the function: the frame *)
(* below it, whether it holds an exception, and where its setjmp returns to *)
(* a second time.  Frame 0 is the caller's.                                 *)

VARIABLES program, phase, code, pc, slots, frames, active, outcomes, trace, result

vars == <<program, phase, code, pc, slots, frames, active, outcomes, trace, result>>
machine == <<pc, slots, frames, active, outcomes, trace, result>>

At(op) == phase = "running" /\ code[pc].op = op
Ins == code[pc]
Target(l) == CHOOSE i \in 1..Len(code) : code[i].op = "label" /\ code[i].l = l

EmptyFrame == [previous |-> 0, has |-> "none", buffer |-> 0]
FrameOf(f) == IF f \in DOMAIN frames THEN frames[f] ELSE EmptyFrame

Init ==
  /\ program \in 1..Len(Programs)
  /\ phase = "source" /\ code = <<>> /\ pc = 1 /\ slots = <<>> /\ frames = <<>> /\ active = 0
  /\ outcomes = <<>> /\ trace = <<>> /\ result = "none"

\* Analysis, and generation when it finds nothing to report.
compile ==
  /\ phase = "source"
  /\ IF analyzeMethod(Programs[program])
       THEN phase' = "running" /\ code' = emitMethod(Programs[program])
       ELSE phase' = "rejected" /\ UNCHANGED code
  /\ UNCHANGED <<program, machine>>

Step(next) == pc' = next /\ UNCHANGED <<program, phase, code, result>>
Halt(r) == phase' = "halted" /\ result' = r /\ UNCHANGED <<program, code, pc>>

\* raise_exception: the innermost frame takes the exception and is left; the caller's ends the run.
raise_exception(type, others) ==
  IF active = 0
    THEN Halt(type) /\ frames' = others /\ UNCHANGED <<slots, active>>
    ELSE /\ frames' = (active :> [FrameOf(active) EXCEPT !.has = type, !.previous = 0]) @@ others
         /\ active' = FrameOf(active).previous
         /\ Step(Target(FrameOf(active).buffer))
         /\ UNCHANGED slots

\* An outcome that the program does not determine: the first MaxOutcomes are free, then all are false.
Outcome(b) == /\ Len(outcomes) < MaxOutcomes \/ ~b
              /\ outcomes' = Append(outcomes, b)

label == At("label") /\ Step(pc + 1) /\ UNCHANGED <<slots, frames, active, outcomes, trace>>
br == At("br") /\ Step(Target(Ins.l)) /\ UNCHANGED <<slots, frames, active, outcomes, trace>>

brif == /\ At("brif")
        /\ \E b \in BOOLEAN : Outcome(b) /\ Step(Target(IF b THEN Ins.yes ELSE Ins.no))
        /\ UNCHANGED <<slots, frames, active, trace>>

store == /\ At("store")
         /\ slots' = (Ins.slot :> Ins.v) @@ slots
         /\ Step(pc + 1) /\ UNCHANGED <<frames, active, outcomes, trace>>

print == /\ At("print")
         /\ trace' = Append(trace, <<Ins.t, slots[Ins.slot]>>)
         /\ Step(pc + 1) /\ UNCHANGED <<slots, frames, active, outcomes>>

call == /\ At("call")
        /\ trace' = Append(trace, <<Ins.t, "call">>)
        /\ \/ Outcome(FALSE) /\ Step(pc + 1) /\ UNCHANGED <<slots, frames, active>>
           \/ Outcome(TRUE) /\ raise_exception("E", frames)

\* The index of a for loop counts in unary, so that every slot holds strings.
index == /\ At("index")
         /\ slots' = (Ins.slot :> IF Ins.add THEN Append(slots[Ins.slot], "i") ELSE <<>>) @@ slots
         /\ Step(pc + 1) /\ UNCHANGED <<frames, active, outcomes, trace>>

inrange == /\ At("inrange")
           /\ Step(Target(IF Len(slots[Ins.slot]) < Ins.count THEN Ins.yes ELSE Ins.no))
           /\ UNCHANGED <<slots, frames, active, outcomes, trace>>

cwhip_exception_frame_init ==
  /\ At("init")
  /\ frames' = (Ins.f :> EmptyFrame) @@ frames
  /\ Step(pc + 1) /\ UNCHANGED <<slots, active, outcomes, trace>>

setjmp == /\ At("setjmp")
          /\ frames' = (Ins.f :> [FrameOf(Ins.f) EXCEPT !.buffer = Ins.l]) @@ frames
          /\ Step(pc + 1) /\ UNCHANGED <<slots, active, outcomes, trace>>

cwhip_exception_push ==
  /\ At("push")
  /\ IF active = Ins.f THEN Halt("aborted") /\ UNCHANGED <<frames, active>>
     ELSE /\ frames' = (Ins.f :> [FrameOf(Ins.f) EXCEPT !.previous = active, !.has = "none"]) @@ frames
          /\ active' = Ins.f /\ Step(pc + 1)
  /\ UNCHANGED <<slots, outcomes, trace>>

cwhip_exception_pop ==
  /\ At("pop")
  /\ IF active # Ins.f \/ FrameOf(Ins.f).has # "none" THEN Halt("aborted") /\ UNCHANGED <<frames, active>>
     ELSE /\ active' = FrameOf(Ins.f).previous
          /\ frames' = (Ins.f :> [FrameOf(Ins.f) EXCEPT !.previous = 0]) @@ frames
          /\ Step(pc + 1)
  /\ UNCHANGED <<slots, outcomes, trace>>

cwhip_exception_clear ==
  /\ At("clear")
  /\ frames' = (Ins.f :> [FrameOf(Ins.f) EXCEPT !.has = "none"]) @@ frames
  /\ Step(pc + 1) /\ UNCHANGED <<slots, active, outcomes, trace>>

cwhip_exception_matches ==
  /\ At("matches")
  /\ IF FrameOf(Ins.f).has = "none" THEN Halt("aborted")
     ELSE Step(IF isSubclassOf(FrameOf(Ins.f).has, Ins.type) THEN Target(Ins.yes) ELSE pc + 1)
  /\ UNCHANGED <<slots, frames, active, outcomes, trace>>

\* The name of an except clause is bound to the exception of the frame.
bind == /\ At("bind")
        /\ slots' = (Ins.slot :> FrameOf(Ins.f).has) @@ slots
        /\ Step(pc + 1) /\ UNCHANGED <<frames, active, outcomes, trace>>

raise == At("raise") /\ raise_exception(Ins.type, frames) /\ UNCHANGED <<outcomes, trace>>

cwhip_exception_rethrow ==
  /\ At("rethrow")
  /\ IF FrameOf(Ins.f).has = "none" THEN Halt("aborted") /\ UNCHANGED <<slots, frames, active>>
     ELSE raise_exception(FrameOf(Ins.f).has, (Ins.f :> [FrameOf(Ins.f) EXCEPT !.has = "none"]) @@ frames)
  /\ UNCHANGED <<outcomes, trace>>

\* A method that returns a value must not run into ret void, nor any into unreachable.
ret == /\ phase = "running" /\ code[pc].op \in {"ret", "retvoid", "unreachable"}
       /\ Halt(CASE Ins.op = "ret" -> Ins.v
                 [] Ins.op = "retvoid" /\ Programs[program].kind # "value" -> "end"
                 [] OTHER -> "aborted")
       /\ UNCHANGED <<slots, frames, active, outcomes, trace>>

Next == \/ compile \/ label \/ br \/ brif \/ store \/ print \/ call \/ index \/ inrange
        \/ cwhip_exception_frame_init \/ setjmp \/ cwhip_exception_push \/ cwhip_exception_pop
        \/ cwhip_exception_clear \/ cwhip_exception_matches \/ bind
        \/ raise \/ cwhip_exception_rethrow \/ ret

Spec == Init /\ [][Next]_vars

-------------------------------------------------------------------------------
(* The reference: a structural semantics.  m holds the values of the names  *)
(* in scope, the outcomes not used yet, the trace, the exceptions being     *)
(* handled and the completion c: "normal", "break", "continue", "return"    *)
(* (with the value v) or the type of an exception.                          *)

RECURSIVE Meaning(_, _)
RECURSIVE MeaningOf(_, _)

Meaning(ss, m) == IF ss = <<>> \/ m.c # "normal" THEN m ELSE Meaning(Tail(ss), MeaningOf(Head(ss), m))

Within(ss, m, bound) ==
  LET r == Meaning(ss, [m EXCEPT !.env = Append(@, bound)])
  IN  [r EXCEPT !.env = SubSeq(@, 1, Len(m.env))]

NextOutcome(m) == m.left # <<>> /\ Head(m.left)
Used(m) == [m EXCEPT !.left = IF @ = <<>> THEN @ ELSE Tail(@)]

\* After a loop's body: break ends the loop, continue does not, anything else leaves it.
RECURSIVE Loop(_, _, _)
Loop(s, m, n) ==
  LET more == IF s.k = "each" THEN n < s.count ELSE (s.k = "do" /\ n = 0) \/ NextOutcome(m)
      m1   == IF s.k = "each" \/ (s.k = "do" /\ n = 0) THEN m ELSE Used(m)
      r    == Within(s.body, m1, IF s.k = "each" THEN s.n :> s.t ELSE <<>>)
  IN  IF ~more THEN m1
      ELSE IF r.c \in {"normal", "continue"} THEN Loop(s, [r EXCEPT !.c = "normal"], n + 1)
      ELSE IF r.c = "break" THEN [r EXCEPT !.c = "normal"] ELSE r

\* finally runs once, whatever the completion of body and handler, and overrides it only by its own.
MeaningOfTry(s, m) ==
  LET b == Within(s.body, m, <<>>)
      takes == {i \in 1..Len(s.handlers) : b.c \in Types /\ (s.handlers[i].type = "" \/ isSubclassOf(b.c, s.handlers[i].type))}
      h == s.handlers[CHOOSE i \in takes : \A j \in takes : i <= j]
      r == IF takes = {} THEN b
           ELSE [Within(h.body, [b EXCEPT !.c = "normal", !.handling = Append(@, b.c)],
                        IF h.n = "" THEN <<>> ELSE h.n :> b.c) EXCEPT !.handling = m.handling]
      f == Within(s.cleanup, [r EXCEPT !.c = "normal"], <<>>)
  IN  IF f.c = "normal" THEN [f EXCEPT !.c = r.c, !.v = r.v] ELSE f

MeaningOf(s, m) ==
  CASE s.k = "declare" -> [m EXCEPT !.env = Append(Front(@), (s.n :> IF s.initialized THEN s.t ELSE "zero") @@ Last(@))]
    [] s.k = "assign" -> [m EXCEPT !.env[ScopeOf(m.env, s.n)][s.n] = s.t]
    [] s.k = "read" -> [m EXCEPT !.trace = Append(@, <<s.t, m.env[ScopeOf(m.env, s.n)][s.n]>>)]
    [] s.k = "call" -> [Used(m) EXCEPT !.trace = Append(@, <<s.t, "call">>), !.c = IF NextOutcome(m) THEN "E" ELSE @]
    [] s.k = "block" -> Within(s.body, m, <<>>)
    [] s.k = "if" -> IF NextOutcome(m) THEN Within(s.body, Used(m), <<>>) ELSE Within(s.alternate, Used(m), <<>>)
    [] s.k \in {"while", "do", "each"} -> Loop(s, m, 0)
    [] s.k = "raise" -> [m EXCEPT !.c = s.type]
    [] s.k = "rethrow" -> [m EXCEPT !.c = Last(m.handling)]
    [] s.k = "try" -> MeaningOfTry(s, m)
    [] s.k = "return" -> [m EXCEPT !.c = "return", !.v = s.t]
    [] OTHER -> [m EXCEPT !.c = s.k]

\* The trace and the result that the language gives a program under the outcomes of the run.
Reference ==
  LET r == Meaning(Programs[program].body, [env |-> <<<<>>>>, left |-> outcomes, trace |-> <<>>,
                                            handling |-> <<>>, c |-> "normal", v |-> "none"])
  IN  <<r.trace, CASE r.c = "normal" -> "end" [] r.c = "return" -> r.v [] OTHER -> r.c>>

-------------------------------------------------------------------------------
(* Properties *)

Tries(ss) == SelectSeq(Nested(ss), LAMBDA s : s.k = "try")
Inside(s) == Nested(s.body) \o FlattenSeq([i \in 1..Len(s.handlers) |-> Nested(s.handlers[i].body)])
Kinds(ss) == {s.k : s \in ToSet(ss)}

\* Names that a list of statements, of a try's body and handlers, declares.
DeclaredIn(s) == {ss.n : ss \in {d \in ToSet(Inside(s)) : d.k \in {"declare", "each"}}}
                   \cup {s.handlers[i].n : i \in 1..Len(s.handlers)}

\* Shapes of a try statement that the properties below treat on their own.
\* A cleanup names a variable that body or handler declares again, and they
\* leave the try by break, continue or return.
Shadows(s) ==
  /\ \E r \in ToSet(Nested(s.cleanup)) : r.k \in {"read", "assign"} /\ r.n \in DeclaredIn(s)
  /\ Kinds(Inside(s)) \cap {"break", "continue", "return"} # {}
\* A return inside a loop of the body meets a break or continue of the cleanup.
ReturnsFromLoop(s) ==
  /\ Kinds(Nested(s.cleanup)) \cap {"break", "continue"} # {}
  /\ \E l \in ToSet(Inside(s)) : l.k \in {"while", "do", "each"} /\ "return" \in Kinds(Nested(l.body))
\* A handler has more than one rethrow.
RethrowsAgain(s) ==
  \E i \in 1..Len(s.handlers) :
    Len(SelectSeq(Nested(s.handlers[i].body), LAMBDA r : r.k = "rethrow")) > 1

TriesOf(p) == ToSet(Tries(Programs[p].body))
Apart(p) == \E s \in TriesOf(p) : Shadows(s) \/ ReturnsFromLoop(s) \/ RethrowsAgain(s)
Halted == phase = "halted" /\ ~Apart(program)

\* Every variable stays within the values that the generated function can give it.
TypeOK ==
  /\ program \in 1..Len(Programs)
  /\ phase \in {"source", "rejected", "running", "halted"}
  /\ phase = "running" => pc \in 1..Len(code)
  /\ DOMAIN frames \subseteq 1..(4 * Len(code) + 1) /\ active \in DOMAIN frames \cup {0}
  /\ \A f \in DOMAIN frames : frames[f].has \in Types \cup {"none"}
  /\ Len(outcomes) <= MaxOutcomes + 2 * Len(code)

(* No accepted body, but for the three shapes above, makes the runtime      *)
(* abort: every frame popped is the innermost one and holds no exception,    *)
(* what is rethrown is there, and a method with a result never runs into the *)
(* generator's ret void.                                                     *)
NeverAborts == Halted => result # "aborted"

(* What the emitted code does is what the statements mean: the same calls    *)
(* and reads with the same values in the same order, and the same result,    *)
(* through the breaks, continues, returns and exceptions that cross handlers *)
(* and cleanups, in every body but those of the three shapes above.          *)
MeetsReference == Halted => <<trace, result>> = Reference

(* Whichever way a function is left, the frame its caller was protected by   *)
(* is the innermost one again.                                               *)
FramesBalanced == Halted /\ result # "aborted" => active = 0

\* What the reference says of locals: a block has its own, so that a cleanup
\* works on the variables in whose scope it is written, also when a break, a
\* continue or a return runs it (CodeGeneratorStatements.cpp 120-123).
CleanupSeesItsScope ==
  phase = "halted" /\ (\E s \in TriesOf(program) : Shadows(s)) => <<trace, result>> = Reference

\* What the notes say of break in a finally: it leaves the loop around the try,
\* whichever statement the cleanup runs for (CodeGeneratorStatements.cpp 311-320).
CleanupBreaksItsLoop ==
  phase = "halted" /\ (\E s \in TriesOf(program) : ReturnsFromLoop(s)) => <<trace, result>> = Reference

\* What the notes say of an empty raise(): wherever it stands in the handler, it
\* raises the exception that the handler took (cwhip_exception_rethrow).
RethrowStays ==
  phase = "halted" /\ (\E s \in TriesOf(program) : RethrowsAgain(s)) => <<trace, result>> = Reference

\* Tags of the reads in a cleanup of a variable that its try assigns.
LateReads(p) ==
  UNION {{r.t : r \in {c \in ToSet(Nested(s.cleanup)) :
             c.k = "read" /\ \E x \in ToSet(Inside(s)) : x.k = "assign" /\ x.n = c.n}} : s \in TriesOf(p)}

(* The analyzer's definite-initialization check is enough: an accepted        *)
(* program never reads a variable that was not assigned, but in the cleanup   *)
(* of a try whose body or handlers assign it.                                 *)
InitializedReads ==
  phase \in {"running", "halted"} =>
    \A i \in 1..Len(trace) : trace[i][2] = "zero" => trace[i][1] \in LateReads(program)

\* What the reference says of every read: the compiler diagnoses one that may
\* occur before initialization, also in a cleanup that an exception of the body
\* reaches before its assignments (SemanticStatements.cpp 425-463).
ReadsInitialized ==
  phase \in {"running", "halted"} => \A i \in 1..Len(trace) : trace[i][2] # "zero"

\* What the reference and the notes say of bodies, no shape and no read left
\* out: each of the four parts fails (the cleanups and the rethrow of the code
\* generator, the cleanup of the analyzer).
AsDocumented == CleanupSeesItsScope /\ CleanupBreaksItsLoop /\ RethrowStays /\ ReadsInitialized

(* The order of except clauses is refused exactly when some clause can take   *)
(* no exception because the clauses before it take them all.                  *)
HandlersReachable ==
  phase # "source" =>
    \A s \in ToSet(Tries(Programs[program].body)) :
      LET Takes(i, t) == s.handlers[i].type = "" \/ isSubclassOf(t, s.handlers[i].type)
          reachable == \A i \in 1..Len(s.handlers) : \E t \in Types : Takes(i, t) /\ \A j \in 1..(i - 1) : ~Takes(j, t)
      IN  /\ phase \in {"running", "halted"} => reachable
          /\ reachable => handlersValid(s.handlers)

\* Compiled code does what the statements mean, and leaves the exception
\* frames of the thread as it found them without reaching an abort, in every
\* body without one of the three shapes above.
RunsAsWritten == TypeOK /\ NeverAborts /\ MeetsReference /\ FramesBalanced

\* What the analyzer promises of the bodies it accepts is true when they run,
\* late reads of cleanups apart.
AnalyzerSound == InitializedReads /\ HandlersReachable
===============================================================================
