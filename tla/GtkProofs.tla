----------------------------- MODULE GtkProofs -----------------------------
(***************************************************************************)
(* Proofs about module Gtk, for any programs, any number of registrations  *)
(* and widgets and any depth of handlers: nothing is released in use or    *)
(* twice, no callback begins after its registration has ended, and a save  *)
(* keeps what others wrote.                                                *)
(***************************************************************************)
EXTENDS Gtk, FiniteSetTheorems, SequenceTheorems, TLAPS

----------------------------------------------------------------------------
(* The inductive invariant.                                                *)

Flags == {"listed", "closed", "detached", "freed", "request", "completion", "cancelled",
          "release", "orphaned", "native", "gui", "worker", "dispatch", "done", "load", "write",
          "fatal"}

Registration ==
  [kind : Kinds, owner : Nat, ctx : {"none", "transfer", "live"}, flight : Nat,
   active : Nat, closures : SUBSET Nat, left : Int, expected : Nat, etag : Nat,
   flags : SUBSET Flags]

\* A connection is freed with its last closure; once it is closed, it has only
\* closures that run.
ConnectionOK(r, emitting) ==
  /\ r.active = r.flight /\ emitting \subseteq r.closures
  /\ IF Has(r, "freed")
     THEN r.ctx = "none" /\ r.closures = {} /\ Has(r, "closed") /\ Has(r, "detached")
     ELSE /\ r.ctx = "live" /\ r.closures # {} /\ Has(r, "listed") /\ ~Has(r, "detached")
          /\ Has(r, "closed") => r.closures \subseteq emitting

\* A posted call is listed, or its block is gone and it runs or has ended.
PostOK(r) ==
  /\ r.active = 0
  /\ Has(r, "listed") => r.ctx = "transfer" /\ r.flight = 0 /\ ~Has(r, "freed")
  /\ ~Has(r, "listed") =>
       /\ Has(r, "freed")
       /\ IF r.flight = 0 THEN r.ctx = "none" ELSE r.ctx = "live" /\ r.flight = 1

\* A chooser waits for its answer or for the loop to tell it, was cancelled,
\* or its block is gone and it runs or has ended.
DialogOK(r) ==
  /\ r.active = 0
  /\ Has(r, "request") => r.flight = 0 /\ ~Has(r, "freed") /\ ~Has(r, "completion")
  /\ Has(r, "completion") /\ ~Has(r, "freed") => Has(r, "listed")
  /\ Has(r, "listed") => /\ r.ctx = "live" /\ r.flight = 0
                         /\ ~Has(r, "freed") /\ ~Has(r, "cancelled")
  /\ ~Has(r, "listed") =>
       IF Has(r, "cancelled")
       THEN r.ctx = "none" /\ r.flight = 0 /\ (Has(r, "request") \/ Has(r, "freed"))
       ELSE /\ ~Has(r, "request") /\ Has(r, "freed")
            /\ IF r.flight = 0 THEN r.ctx = "none" ELSE r.ctx = "live" /\ r.flight = 1

\* A shortcut that is released or dropped by GTK while it runs keeps its root
\* and its block until the last handler has returned.
ShortcutOK(r) ==
  /\ r.active = r.flight /\ r.ctx \in {"live", "none"}
  /\ Has(r, "listed") => Has(r, "native") /\ r.ctx = "live" /\ ~Has(r, "release")
  /\ Has(r, "release") => r.ctx = "live" /\ r.active > 0
  /\ r.ctx = "none" => r.active = 0
  /\ r.ctx = "live" /\ ~Has(r, "listed") => Has(r, "release")
  /\ Has(r, "native") => ~Has(r, "freed") /\ ~Has(r, "orphaned")
  /\ Has(r, "freed") => r.active = 0
  /\ ~Has(r, "native") /\ ~Has(r, "freed") => Has(r, "orphaned") /\ r.active > 0

\* A tree has its root until it is closed and no handler runs, and its state
\* until GTK has dropped it too.
TreeOK(r) ==
  /\ r.active = r.flight /\ r.ctx \in {"live", "none"}
  /\ ~Has(r, "closed") => Has(r, "native") /\ r.ctx = "live"
  /\ r.ctx = "none" <=> Has(r, "closed") /\ r.active = 0
  /\ Has(r, "freed") <=> ~Has(r, "native") /\ r.active = 0

\* A scan has its root until it is closed and its handler has returned, and
\* its job as long as GUI thread, worker or dispatch hold it.
ScanOK(r) ==
  /\ r.active = r.flight /\ r.flight <= 1 /\ r.ctx \in {"live", "none"}
  /\ Has(r, "listed") <=> ~Has(r, "closed")
  /\ Has(r, "gui") <=> ~Has(r, "closed")
  /\ Has(r, "done") <=> ~Has(r, "worker")
  /\ Has(r, "dispatch") <=> r.flight = 1
  /\ r.ctx = "none" <=> Has(r, "closed") /\ r.flight = 0
  /\ Has(r, "freed") <=> ~(Has(r, "gui") \/ Has(r, "worker") \/ Has(r, "dispatch"))

\* A save loads, writes, tells its result, or is gone.
SaveOK(r) ==
  /\ r.active = 0
  /\ Has(r, "listed") <=> Has(r, "load") \/ Has(r, "write")
  /\ ~(Has(r, "load") /\ Has(r, "write"))
  /\ Has(r, "listed") => r.ctx = "live" /\ r.flight = 0 /\ ~Has(r, "freed")
  /\ ~Has(r, "listed") => IF Has(r, "freed") THEN r.ctx = "none" /\ r.flight = 0
                                             ELSE r.ctx = "live" /\ r.flight = 1

\* Flags that only some kinds of registration have.
OwnFlags(r) ==
  /\ Has(r, "closed") => r.kind \in Connections \cup {"tree", "scan"}
  /\ Has(r, "request") \/ Has(r, "completion") \/ Has(r, "cancelled") => r.kind \in Dialogs
  /\ Has(r, "release") => r.kind = "shortcut"
  /\ Has(r, "native") => r.kind \in {"shortcut", "tree"}
  /\ Has(r, "worker") => r.kind = "scan"
  /\ Has(r, "load") \/ Has(r, "write") => r.kind = "save"

RegOK(r, emitting) ==
  /\ r \in Registration /\ ~Has(r, "fatal") /\ OwnFlags(r)
  /\ r.kind \in Connections => ConnectionOK(r, emitting)
  /\ r.kind = "post" => PostOK(r)
  /\ r.kind \in Dialogs => DialogOK(r)
  /\ r.kind = "shortcut" => ShortcutOK(r)
  /\ r.kind = "tree" => TreeOK(r)
  /\ r.kind = "scan" => ScanOK(r)
  /\ r.kind = "save" => SaveOK(r)

\* A registration that no new callback can come from.
Ended(r) ==
  /\ r.kind \in Dialogs \cup {"scan", "shortcut", "post"} => ~Has(r, "listed")
  /\ r.kind \in Connections \cup {"tree", "scan"} => Has(r, "closed")

\* A file that has still the ETag a save has seen has the content it has seen.
WriteOK(r, file) ==
  Has(r, "write") => /\ r.etag <= file.etag
                     /\ r.etag = file.etag => file.content = r.expected

FramesOf(frames, id) == {k \in DOMAIN frames : frames[k].id = id}
Handlers(frames) == {k \in DOMAIN frames : frames[k].id # 0}

FrameSet == [id : Nat, part : Int]
WidgetSet == [type : WidgetTypes, state : {"live", "disposed", "twice"}, parent : Nat,
              busy : {"no", "append", "dispose", "reentered"}, page : Nat, since : Nat]
FileSet == [content : Nat, etag : Nat, by : Nat]

Types ==
  /\ program \in Programs
  /\ phase \in {"setup", "running", "over"} /\ quit \in BOOLEAN /\ stopped \in BOOLEAN
  /\ reg \in Seq(Registration)
  /\ widgets \in Seq(WidgetSet) /\ stack \in Seq(FrameSet) /\ disk \in FileSet

\* The in-flight count of a registration is the number of its frames.
RegInv ==
  \A id \in Ids :
    /\ RegOK(reg[id], Emitting(stack, id))
    /\ reg[id].flight = Cardinality(FramesOf(stack, id))

DiskInv == \A id \in Ids : WriteOK(reg[id], disk)

\* Frames name registrations or pages, or shutdown waits in them.
StackInv ==
  /\ \A k \in DOMAIN stack : stack[k].id <= Len(reg)
  /\ Cardinality(Handlers(stack)) <= MaxDepth
  /\ \A k \in DOMAIN stack : stack[k].id = 0 =>
       stack[k].part \in 0..Len(widgets) /\ (stack[k].part = 0 => stopped)
WaitsIn(frames) == \E k \in DOMAIN frames : frames[k].id = 0 /\ frames[k].part = 0

\* What has an owner ends with it, and all ends with the application.
OwnerInv ==
  \A id \in Ids :
    /\ reg[id].owner <= Len(widgets)
    /\ reg[id].owner = 0 => reg[id].kind \in {"signal", "post", "save"}
    /\ reg[id].kind \in {"post", "save"} => reg[id].owner = 0
    /\ reg[id].owner # 0 /\ widgets[reg[id].owner].state = "disposed" => Ended(reg[id])
    /\ stopped => Ended(reg[id])

StopInv ==
  stopped => /\ \A w \in Widgets : widgets[w].state = "disposed"
             /\ Saving => WaitsIn(stack)

\* Parents form a forest of live widgets.
ForestInv ==
  /\ \A w \in Widgets : widgets[w].parent \in 0..Len(widgets)
  /\ \A w, x \in Widgets : x \in Under(w) /\ w \in Under(x) => x = w
  /\ \A w \in Widgets : widgets[w].state = "disposed" =>
       widgets[w].parent = 0 /\ \A x \in Widgets : widgets[x].parent # w

\* A page that GTK adds or removes hangs from nothing, and what was registered
\* on it when its disposal began has ended.
BusyInv ==
  \A w \in Widgets :
    /\ widgets[w].state # "twice" /\ widgets[w].busy # "reentered"
    /\ widgets[w].busy # "no" => widgets[w].parent = 0 /\ widgets[w].page \in Widgets
    /\ widgets[w].since <= Len(reg)
    /\ widgets[w].busy = "dispose" =>
         \A id \in Ids : reg[id].owner = w /\ id <= widgets[w].since => Ended(reg[id])

IInv ==
  Types /\ RegInv /\ DiskInv /\ StackInv /\ OwnerInv /\ StopInv /\ ForestInv /\ BusyInv

\* The invariant holds until a handler uses the page that is added or removed
\* under it; there the model ends.
Stuck ==
  /\ Types /\ RegInv /\ StackInv /\ Reentered
  /\ stack # <<>> /\ Top.id = 0 /\ Top.part # 0
Safe == IInv \/ Stuck

----------------------------------------------------------------------------
(* What the operations do to one registration.                             *)

\* t is r later: nothing that has ended begins again.
Follows(r, t) ==
  /\ t.kind = r.kind /\ t.owner = r.owner
  /\ Ended(r) => Ended(t)
  /\ Has(t, "listed") => Has(r, "listed")
  /\ Has(t, "write") => Has(r, "write") /\ t.etag = r.etag /\ t.expected = r.expected

\* Fields that hardly an operation changes.
Kept(r, t) == /\ t.kind = r.kind /\ t.owner = r.owner
              /\ t.expected = r.expected /\ t.etag = r.etag
Same(r, t) == /\ Kept(r, t) /\ t.ctx = r.ctx /\ t.flight = r.flight /\ t.active = r.active
              /\ t.closures = r.closures /\ t.left = r.left

\* Flags are added and removed one set at a time.
LEMMA FlagFields ==
  ASSUME NEW r \in Registration, NEW S \in SUBSET Flags
  PROVE  /\ Mark(r, S) \in Registration /\ Same(r, Mark(r, S)) /\ Mark(r, S).flags = r.flags \cup S
         /\ Clear(r, S) \in Registration /\ Same(r, Clear(r, S)) /\ Clear(r, S).flags = r.flags \ S
  BY DEF Registration, Same, Kept, Mark, Clear

\* Without an error a root is released that is there and not in use, ...
LEMMA ReleaseFields ==
  ASSUME NEW r \in Registration, r.ctx = "live", r.flight = 0
  PROVE  /\ release(r) \in Registration /\ release(r).ctx = "none" /\ Kept(r, release(r))
         /\ release(r).flight = 0 /\ release(r).active = r.active
         /\ release(r).closures = r.closures /\ release(r).left = r.left
         /\ release(r).flags = r.flags
  BY DEF Registration, Kept, release, Check
\* ... a handler called, ...
LEMMA InvokeFields ==
  ASSUME NEW r \in Registration, r.ctx = "live"
  PROVE  /\ invoke(r) \in Registration /\ invoke(r).ctx = "live" /\ Kept(r, invoke(r))
         /\ invoke(r).flight = r.flight + 1 /\ invoke(r).active = r.active
         /\ invoke(r).closures = r.closures /\ invoke(r).left = r.left
         /\ invoke(r).flags = r.flags
  BY DEF Registration, Kept, invoke, Check
\* ... and a block freed.
LEMMA FreedFields ==
  ASSUME NEW r \in Registration, ~Has(r, "freed")
  PROVE  /\ Freed(r) \in Registration /\ Same(r, Freed(r))
         /\ Freed(r).flags = (r.flags \cup {"freed"}) \ {"listed"}
  BY DEF Registration, Same, Kept, Freed, Check, Has, Mark, Clear, Flags

\* What counts the frames of a registration counts nothing else.
LEMMA FlightFields ==
  ASSUME NEW r \in Registration, NEW n \in Nat
  PROVE  LET t == [r EXCEPT !.flight = n]
         IN /\ t \in Registration /\ Kept(r, t) /\ t.ctx = r.ctx /\ t.flight = n
            /\ t.active = r.active /\ t.closures = r.closures /\ t.left = r.left
            /\ t.flags = r.flags
  BY DEF Registration, Kept
\* The same for the package's own count.
LEMMA ActiveFields ==
  ASSUME NEW r \in Registration, NEW n \in Nat
  PROVE  LET t == [r EXCEPT !.active = n]
         IN /\ t \in Registration /\ Kept(r, t) /\ t.ctx = r.ctx /\ t.flight = r.flight
            /\ t.active = n /\ t.closures = r.closures /\ t.left = r.left
            /\ t.flags = r.flags
  BY DEF Registration, Kept

\* cwhip_gtk_disconnect closes a connection, and frees it unless it runs.
LEMMA DisconnectOK ==
  ASSUME NEW r, NEW E, RegOK(r, E), r.kind \in Connections, E = {} <=> r.flight = 0
  PROVE  LET t == disconnect(r, E)
         IN RegOK(t, E) /\ Follows(r, t) /\ t.flight = r.flight /\ Ended(t)
<1> DEFINE t == disconnect(r, E)
<1> SUFFICES RegOK(t, E) /\ Follows(r, t) /\ t.flight = r.flight /\ Ended(t)
  OBVIOUS
<1> USE DEF Same, Kept
<1>0. /\ r \in Registration /\ r.closures \in SUBSET Nat /\ r.flags \in SUBSET Flags
      /\ r.flight \in Nat /\ r.active = r.flight
  BY DEF RegOK, ConnectionOK, Registration
<1>1. CASE Has(r, "closed")
  BY <1>1 DEF disconnect, Ended, Follows, Connections, Dialogs
<1>2. CASE ~Has(r, "closed")
  <2> DEFINE u == Mark(r, {"closed"})
  <2>1. u \in Registration /\ Same(r, u) /\ u.flags = r.flags \cup {"closed"}
    BY <1>0, FlagFields DEF Flags
  <2>2. ~Has(r, "freed") /\ r.ctx = "live"
    BY <1>2 DEF RegOK, ConnectionOK
  <2>3. CASE r.closures \subseteq E
    <3>1. t = u
      BY <1>2, <2>1, <2>3 DEF disconnect, DropClosures
    <3> HIDE DEF u
    <3> QED
      BY <1>2, <2>1, <2>2, <2>3, <3>1
         DEF RegOK, ConnectionOK, OwnFlags, Follows, Ended, Has, Connections, Dialogs
  <2>4. CASE ~(r.closures \subseteq E)
    <3> DEFINE v == [u EXCEPT !.closures = @ \ (r.closures \ E)]
    <3>1. /\ v \in Registration /\ Kept(u, v) /\ v.ctx = u.ctx /\ v.flight = u.flight
          /\ v.active = u.active /\ v.flags = u.flags /\ v.closures = r.closures \cap E
      BY <1>0, <2>1 DEF Registration
    <3>2. t = connection_collect(IF v.closures = {} THEN Mark(v, {"closed", "detached"}) ELSE v)
      BY <1>2, <2>1, <2>4 DEF disconnect, DropClosures, connection_destroy
    <3> HIDE DEF u, v
    <3>3. CASE v.closures = {}
      <4> DEFINE x == Mark(v, {"closed", "detached"})
      <4>1. /\ x \in Registration /\ Same(v, x) /\ x.flags = v.flags \cup {"closed", "detached"}
        BY <3>1, FlagFields DEF Flags
      <4>2. r.flight = 0
        BY <3>1, <3>3 DEF RegOK, ConnectionOK
      <4>3. t = Freed(release(x))
        BY <1>0, <2>1, <3>1, <3>2, <3>3, <4>1, <4>2 DEF connection_collect, Has
      <4>4. x.ctx = "live" /\ x.flight = 0
        BY <2>1, <2>2, <3>1, <4>1, <4>2
      <4> HIDE DEF x
      <4>5. /\ release(x) \in Registration /\ Kept(x, release(x)) /\ release(x).ctx = "none"
            /\ release(x).flight = 0 /\ release(x).active = x.active
            /\ release(x).closures = x.closures /\ release(x).flags = x.flags
        BY <4>1, <4>4, ReleaseFields
      <4>6. ~Has(release(x), "freed")
        BY <2>1, <2>2, <3>1, <4>1, <4>5 DEF Has
      <4>7. /\ t \in Registration /\ Same(release(x), t)
            /\ t.flags = (release(x).flags \cup {"freed"}) \ {"listed"}
        BY <4>3, <4>5, <4>6, FreedFields
      <4> HIDE DEF t
      <4> QED
        BY <1>0, <2>1, <2>2, <3>1, <3>3, <4>1, <4>2, <4>4, <4>5, <4>7
           DEF RegOK, ConnectionOK, OwnFlags, Follows, Ended, Has, Connections, Dialogs
    <3>4. CASE v.closures # {}
      <4>1. t = v
        BY <2>1, <2>2, <3>1, <3>2, <3>4 DEF connection_collect, Has, RegOK, ConnectionOK
      <4> QED
        BY <1>0, <2>1, <2>2, <3>1, <3>4, <4>1
           DEF RegOK, ConnectionOK, OwnFlags, Follows, Ended, Has, Connections, Dialogs
    <3> QED
      BY <3>3, <3>4
  <2> QED
    BY <2>3, <2>4
<1> QED
  BY <1>1, <1>2


\* dialog_cancel ends a chooser that has not answered.
LEMMA DialogCancelOK ==
  ASSUME NEW r, NEW E, RegOK(r, E), r.kind \in Dialogs, Has(r, "listed")
  PROVE  LET t == dialog_cancel(r)
         IN RegOK(t, E) /\ Follows(r, t) /\ t.flight = r.flight /\ Ended(t)
<1> DEFINE m == Mark(r, {"cancelled"})
           c == Clear(m, {"listed"})
           l == release(c)
           t == dialog_cancel(r)
<1> SUFFICES RegOK(t, E) /\ Follows(r, t) /\ t.flight = r.flight /\ Ended(t)
  OBVIOUS
<1> USE DEF Same, Kept
<1>1. r \in Registration /\ r.flight \in Nat
  BY DEF RegOK, Registration
<1>2. m \in Registration /\ Same(r, m) /\ m.flags = r.flags \cup {"cancelled"}
  BY <1>1, FlagFields DEF Flags
<1>3. c \in Registration /\ Same(m, c) /\ c.flags = m.flags \ {"listed"}
  BY <1>2, FlagFields DEF Flags
<1>4. c.ctx = "live" /\ c.flight = 0
  BY <1>2, <1>3 DEF RegOK, DialogOK
<1>5. l \in Registration /\ Kept(c, l) /\ l.ctx = "none" /\ l.flight = 0 /\ l.active = c.active
      /\ l.flags = c.flags
  BY <1>3, <1>4, ReleaseFields
<1>6. Freed(l) \in Registration /\ Same(l, Freed(l)) /\ Freed(l).flags = (l.flags \cup {"freed"}) \ {"listed"}
  BY <1>2, <1>3, <1>5, FreedFields DEF RegOK, DialogOK, Has
<1>7. t = IF Has(l, "request") THEN l ELSE Freed(l)
  BY DEF dialog_cancel, dialog_drop
<1> HIDE DEF m, c, l, t
<1> QED
  BY <1>1, <1>2, <1>3, <1>4, <1>5, <1>6, <1>7
     DEF RegOK, DialogOK, OwnFlags, Follows, Ended, Has, Connections, Dialogs

\* signal_enter: a connection that is not closed is called.
LEMMA EmitOK ==
  ASSUME NEW r, NEW E, RegOK(r, E), r.kind \in Connections, ~Has(r, "closed"),
         NEW c \in r.closures
  PROVE  LET t == invoke(signal_enter(r))
         IN RegOK(t, E \cup {c}) /\ Follows(r, t) /\ t.flight = r.flight + 1
<1> DEFINE m == signal_enter(r)
           t == invoke(m)
<1> SUFFICES RegOK(t, E \cup {c}) /\ Follows(r, t) /\ t.flight = r.flight + 1
  OBVIOUS
<1> USE DEF Kept
<1>1. r \in Registration /\ r.flight \in Nat /\ r.active \in Nat
  BY DEF RegOK, Registration
<1>2. r.ctx = "live" /\ ~Has(r, "freed")
  BY DEF RegOK, ConnectionOK
<1>3. /\ m \in Registration /\ Kept(r, m) /\ m.ctx = r.ctx /\ m.flight = r.flight
      /\ m.active = r.active + 1 /\ m.closures = r.closures /\ m.flags = r.flags
  BY <1>1 DEF signal_enter, Registration
<1>4. /\ t \in Registration /\ Kept(m, t) /\ t.ctx = "live" /\ t.flight = m.flight + 1
      /\ t.active = m.active /\ t.closures = m.closures /\ t.flags = m.flags
  BY <1>2, <1>3, InvokeFields
<1> HIDE DEF m, t
<1> QED
  BY <1>1, <1>2, <1>3, <1>4
     DEF RegOK, ConnectionOK, OwnFlags, Follows, Ended, Has, Connections, Dialogs

\* signal_leave: a closed connection drops the closure unless another emission
\* runs it, and is freed with the last one.
LEMMA SignalLeaveOK ==
  ASSUME NEW r, NEW E, RegOK(r, E), r.kind \in Connections, r.flight > 0,
         NEW F \in SUBSET E, E # {}, F = {} <=> r.flight = 1
  PROVE  LET t == signal_leave([r EXCEPT !.flight = @ - 1], F)
         IN RegOK(t, F) /\ Follows(r, t) /\ t.flight = r.flight - 1
<1> DEFINE q == [r EXCEPT !.flight = @ - 1]
           u == [q EXCEPT !.active = @ - 1]
           t == signal_leave(q, F)
<1> SUFFICES RegOK(t, F) /\ Follows(r, t) /\ t.flight = r.flight - 1
  OBVIOUS
<1> USE DEF Same, Kept
<1>0. /\ r \in Registration /\ r.closures \in SUBSET Nat /\ r.flags \in SUBSET Flags
      /\ r.flight \in Nat /\ r.active = r.flight
  BY DEF RegOK, ConnectionOK, Registration
<1>1. ~Has(r, "freed") /\ r.ctx = "live" /\ ~Has(r, "detached") /\ E \subseteq r.closures
  BY DEF RegOK, ConnectionOK
<1> HIDE DEF q
<1>q. /\ q \in Registration /\ Kept(r, q) /\ q.ctx = r.ctx /\ q.flight = r.flight - 1
      /\ q.active = r.flight /\ q.closures = r.closures /\ q.flags = r.flags
  BY <1>0 DEF Registration, q
<1>2. /\ u \in Registration /\ Kept(r, u) /\ u.ctx = r.ctx /\ u.flight = r.flight - 1
      /\ u.active = r.flight - 1 /\ u.closures = r.closures /\ u.flags = r.flags
  BY <1>0, <1>q DEF Registration
<1>3. t = IF Has(u, "closed") THEN DropClosures(u, F) ELSE u
  BY <1>1, <1>2 DEF signal_leave, connection_collect, Has
<1> HIDE DEF u
<1>4. CASE ~Has(r, "closed") \/ r.closures \subseteq F
  <2>1. t = u
    BY <1>2, <1>3, <1>4 DEF DropClosures, Has
  <2> QED
    BY <1>0, <1>1, <1>2, <1>4, <2>1
       DEF RegOK, ConnectionOK, OwnFlags, Follows, Ended, Has, Connections, Dialogs
<1>5. CASE Has(r, "closed") /\ ~(r.closures \subseteq F)
  <2> DEFINE v == [u EXCEPT !.closures = @ \ (u.closures \ F)]
  <2>1. /\ v \in Registration /\ Kept(u, v) /\ v.ctx = u.ctx /\ v.flight = u.flight
        /\ v.active = u.active /\ v.flags = u.flags /\ v.closures = F
    BY <1>0, <1>1, <1>2 DEF Registration
  <2>2. t = connection_collect(IF v.closures = {} THEN Mark(v, {"closed", "detached"}) ELSE v)
    BY <1>2, <1>3, <1>5 DEF DropClosures, connection_destroy, Has
  <2> HIDE DEF v, t
  <2>3. CASE F = {}
    <3> DEFINE x == Mark(v, {"closed", "detached"})
               y == release(x)
    <3>1. x \in Registration /\ Same(v, x) /\ x.flags = v.flags \cup {"closed", "detached"}
      BY <2>1, FlagFields DEF Flags
    <3>2. x.ctx = "live" /\ x.flight = 0 /\ x.active = 0
      BY <1>0, <1>1, <1>2, <2>1, <2>3, <3>1
    <3>3. t = Freed(y)
      BY <2>1, <2>2, <2>3, <3>1, <3>2 DEF connection_collect, Has
    <3> HIDE DEF x
    <3>4. /\ y \in Registration /\ Kept(x, y) /\ y.ctx = "none" /\ y.flight = 0
          /\ y.active = x.active /\ y.closures = x.closures /\ y.flags = x.flags
      BY <3>1, <3>2, ReleaseFields
    <3> HIDE DEF y
    <3>5. ~Has(y, "freed")
      BY <1>1, <1>2, <2>1, <3>1, <3>4 DEF Has
    <3>6. t \in Registration /\ Same(y, t) /\ t.flags = (y.flags \cup {"freed"}) \ {"listed"}
      BY <3>3, <3>4, <3>5, FreedFields
    <3> QED
      BY <1>0, <1>1, <1>2, <1>5, <2>1, <2>3, <3>1, <3>2, <3>4, <3>6
         DEF RegOK, ConnectionOK, OwnFlags, Follows, Ended, Has, Connections, Dialogs
  <2>4. CASE F # {}
    <3>1. t = v
      BY <1>1, <1>2, <2>1, <2>2, <2>4 DEF connection_collect, Has
    <3> QED
      BY <1>0, <1>1, <1>2, <1>5, <2>1, <2>4, <3>1
         DEF RegOK, ConnectionOK, OwnFlags, Follows, Ended, Has, Connections, Dialogs
  <2> QED
    BY <2>3, <2>4
<1> QED
  BY <1>4, <1>5

\* post_cancel ends a call that waits.
LEMMA PostCancelOK ==
  ASSUME NEW r, NEW E, RegOK(r, E), r.kind = "post", Has(r, "listed")
  PROVE  LET t == post_cancel(r)
         IN RegOK(t, E) /\ Follows(r, t) /\ t.flight = r.flight /\ Ended(t)
<1> DEFINE m == [r EXCEPT !.ctx = "none"]
           t == Freed(m)
<1> SUFFICES RegOK(t, E) /\ Follows(r, t) /\ t.flight = r.flight /\ Ended(t)
  BY DEF post_cancel
<1> USE DEF Same, Kept
<1>1. m \in Registration /\ Kept(r, m) /\ m.ctx = "none" /\ m.flight = r.flight
      /\ m.active = r.active /\ m.flags = r.flags
  BY DEF RegOK, Registration
<1>2. ~Has(m, "freed")
  BY <1>1 DEF RegOK, PostOK, Has
<1>3. t \in Registration /\ Same(m, t) /\ t.flags = (m.flags \cup {"freed"}) \ {"listed"}
  BY <1>1, <1>2, FreedFields
<1> HIDE DEF m, t
<1> QED
  BY <1>1, <1>2, <1>3
     DEF RegOK, PostOK, OwnFlags, Follows, Ended, Has, Connections, Dialogs

\* dispatch frees the block of a posted call and calls it.
LEMMA DispatchOK ==
  ASSUME NEW r, NEW E, NEW F, RegOK(r, E), r.kind = "post", Has(r, "listed")
  PROVE  LET t == invoke(Freed([r EXCEPT !.ctx = "live"]))
         IN RegOK(t, F) /\ Follows(r, t) /\ t.flight = r.flight + 1
<1> DEFINE m == [r EXCEPT !.ctx = "live"]
           d == Freed(m)
           t == invoke(d)
<1> SUFFICES RegOK(t, F) /\ Follows(r, t) /\ t.flight = r.flight + 1
  OBVIOUS
<1> USE DEF Same, Kept
<1>1. m \in Registration /\ Kept(r, m) /\ m.ctx = "live" /\ m.flight = r.flight
      /\ m.active = r.active /\ m.flags = r.flags
  BY DEF RegOK, Registration
<1>2. ~Has(m, "freed")
  BY <1>1 DEF RegOK, PostOK, Has
<1>3. d \in Registration /\ Same(m, d) /\ d.flags = (m.flags \cup {"freed"}) \ {"listed"}
  BY <1>1, <1>2, FreedFields
<1>4. /\ t \in Registration /\ Kept(d, t) /\ t.ctx = "live" /\ t.flight = d.flight + 1
      /\ t.active = d.active /\ t.flags = d.flags
  BY <1>1, <1>3, InvokeFields
<1> HIDE DEF m, d, t
<1> QED
  BY <1>1, <1>2, <1>3, <1>4
     DEF RegOK, PostOK, OwnFlags, Follows, Ended, Has, Connections, Dialogs

\* When the handler of a posted call or of a chooser returns for the last
\* time, its root goes.
LEMMA LastReturnOK ==
  ASSUME NEW r, NEW E, NEW F, RegOK(r, E), r.kind \in Dialogs \cup {"post"}, r.flight > 0
  PROVE  LET t == release([r EXCEPT !.flight = @ - 1])
         IN RegOK(t, F) /\ Follows(r, t) /\ t.flight = r.flight - 1
<1> DEFINE q == [r EXCEPT !.flight = @ - 1]
           t == release(q)
<1> SUFFICES RegOK(t, F) /\ Follows(r, t) /\ t.flight = r.flight - 1
  OBVIOUS
<1> USE DEF Same, Kept
<1>0. r \in Registration /\ r.flight \in Nat
  BY DEF RegOK, Registration
<1>1. r.flight = 1 /\ r.ctx = "live"
  BY <1>0 DEF RegOK, PostOK, DialogOK
<1>2. q \in Registration /\ Kept(r, q) /\ q.ctx = "live" /\ q.flight = 0
      /\ q.active = r.active /\ q.flags = r.flags
  BY <1>0, <1>1 DEF Registration
<1>3. /\ t \in Registration /\ Kept(q, t) /\ t.ctx = "none" /\ t.flight = 0
      /\ t.active = q.active /\ t.flags = q.flags
  BY <1>2, ReleaseFields
<1> HIDE DEF q, t
<1> QED
  BY <1>1, <1>2, <1>3
     DEF RegOK, PostOK, DialogOK, OwnFlags, Follows, Ended, Has, Connections, Dialogs

\* file_dialog_completed: an answer is kept for the loop, or the last of a
\* cancelled chooser.
LEMMA AnswerOK ==
  ASSUME NEW r, NEW E, RegOK(r, E), Has(r, "request"), NEW n \in Nat
  PROVE  LET t == file_dialog_completed(r, n)
         IN RegOK(t, E) /\ Follows(r, t) /\ t.flight = r.flight
<1> DEFINE c == Clear(r, {"request"})
           m == [c EXCEPT !.left = n]
           t == file_dialog_completed(r, n)
<1> SUFFICES RegOK(t, E) /\ Follows(r, t) /\ t.flight = r.flight
  OBVIOUS
<1> USE DEF Same, Kept
<1>0. r \in Registration /\ r.kind \in Dialogs /\ ~Has(r, "freed")
  BY DEF RegOK, OwnFlags, DialogOK
<1>1. c \in Registration /\ Same(r, c) /\ c.flags = r.flags \ {"request"}
  BY <1>0, FlagFields DEF Flags
<1>2. m \in Registration /\ Kept(c, m) /\ m.ctx = c.ctx /\ m.flight = c.flight
      /\ m.active = c.active /\ m.flags = c.flags
  BY <1>1 DEF Registration
<1>3. t = IF Has(m, "cancelled") THEN Freed(m) ELSE Mark(m, {"completion"})
  BY DEF file_dialog_completed, dialog_drop
<1>4. Freed(m) \in Registration /\ Same(m, Freed(m)) /\ Freed(m).flags = (m.flags \cup {"freed"}) \ {"listed"}
  BY <1>0, <1>1, <1>2, FreedFields DEF Has
<1> HIDE DEF m
<1>5. /\ Mark(m, {"completion"}) \in Registration /\ Same(m, Mark(m, {"completion"}))
      /\ Mark(m, {"completion"}).flags = m.flags \cup {"completion"}
  BY <1>2, FlagFields DEF Flags
<1> HIDE DEF c, m, t
<1> QED
  BY <1>0, <1>1, <1>2, <1>3, <1>4, <1>5
     DEF RegOK, DialogOK, OwnFlags, Follows, Ended, Has, Connections, Dialogs

\* dialog_finish frees the block of an answered chooser and calls it.
LEMMA ResultOK ==
  ASSUME NEW r, NEW E, NEW F, RegOK(r, E), Has(r, "completion"), ~Has(r, "freed")
  PROVE  LET t == invoke(dialog_finish(r))
         IN RegOK(t, F) /\ Follows(r, t) /\ t.flight = r.flight + 1
<1> DEFINE c == Clear(r, {"completion"})
           d == Freed(c)
           t == invoke(d)
<1> SUFFICES RegOK(t, F) /\ Follows(r, t) /\ t.flight = r.flight + 1
  BY DEF dialog_finish
<1> USE DEF Same, Kept
<1>0. r \in Registration /\ r.kind \in Dialogs /\ r.ctx = "live" /\ r.flight = 0
  BY DEF RegOK, OwnFlags, DialogOK
<1>1. c \in Registration /\ Same(r, c) /\ c.flags = r.flags \ {"completion"}
  BY <1>0, FlagFields DEF Flags
<1>2. d \in Registration /\ Same(c, d) /\ d.flags = (c.flags \cup {"freed"}) \ {"listed"}
  BY <1>1, FreedFields DEF Has
<1>3. /\ t \in Registration /\ Kept(d, t) /\ t.ctx = "live" /\ t.flight = d.flight + 1
      /\ t.active = d.active /\ t.flags = d.flags
  BY <1>0, <1>1, <1>2, InvokeFields
<1> HIDE DEF c, d, t
<1> QED
  BY <1>0, <1>1, <1>2, <1>3
     DEF RegOK, DialogOK, OwnFlags, Follows, Ended, Has, Connections, Dialogs

\* The handler of a chooser is called again for the next path.
LEMMA NextPathOK ==
  ASSUME NEW r, NEW E, NEW F, RegOK(r, E), r.kind \in Dialogs, r.flight > 0
  PROVE  LET t == invoke([r EXCEPT !.flight = @ - 1])
         IN RegOK(t, F) /\ Follows(r, t) /\ t.flight = r.flight
<1> DEFINE q == [r EXCEPT !.flight = @ - 1]
           t == invoke(q)
<1> SUFFICES RegOK(t, F) /\ Follows(r, t) /\ t.flight = r.flight
  OBVIOUS
<1> USE DEF Same, Kept
<1>0. r \in Registration /\ r.flight \in Nat
  BY DEF RegOK, Registration
<1>1. r.flight = 1 /\ r.ctx = "live"
  BY <1>0 DEF RegOK, DialogOK
<1>2. q \in Registration /\ Kept(r, q) /\ q.ctx = "live" /\ q.flight = 0
      /\ q.active = r.active /\ q.flags = r.flags
  BY <1>0, <1>1 DEF Registration
<1>3. /\ t \in Registration /\ Kept(q, t) /\ t.ctx = "live" /\ t.flight = q.flight + 1
      /\ t.active = q.active /\ t.flags = q.flags
  BY <1>2, InvokeFields
<1> HIDE DEF q, t
<1> QED
  BY <1>1, <1>2, <1>3
     DEF RegOK, DialogOK, OwnFlags, Follows, Ended, Has, Connections, Dialogs

\* shortcut_release takes the root of a shortcut at once, or when the handler
\* has returned.
LEMMA ShortcutReleaseFields ==
  ASSUME NEW r \in Registration, r.ctx \in {"live", "none"}, r.active = r.flight
  PROVE  LET t == shortcut_release(r)
         IN /\ t \in Registration /\ Kept(r, t) /\ t.flight = r.flight /\ t.active = r.active
            /\ t.ctx = IF r.active > 0 THEN r.ctx ELSE "none"
            /\ t.flags = IF r.ctx = "none" THEN r.flags
                         ELSE IF r.active > 0 THEN r.flags \cup {"release"}
                         ELSE r.flags \ {"release"}
<1> DEFINE t == shortcut_release(r)
           l == release(r)
<1> SUFFICES /\ t \in Registration /\ Kept(r, t) /\ t.flight = r.flight /\ t.active = r.active
             /\ t.ctx = IF r.active > 0 THEN r.ctx ELSE "none"
             /\ t.flags = IF r.ctx = "none" THEN r.flags
                          ELSE IF r.active > 0 THEN r.flags \cup {"release"}
                          ELSE r.flags \ {"release"}
  OBVIOUS
<1> USE DEF Same, Kept
<1>0. r.active \in Nat
  BY DEF Registration
<1>1. CASE r.ctx = "none"
  BY <1>0, <1>1 DEF shortcut_release
<1>2. CASE r.ctx = "live" /\ r.active > 0
  <2>1. /\ t \in Registration /\ Same(r, t) /\ t.flags = r.flags \cup {"release"}
    BY <1>2, FlagFields DEF shortcut_release, Flags
  <2> QED
    BY <1>2, <2>1
<1>3. CASE r.ctx = "live" /\ r.active = 0
  <2>1. t = Clear(l, {"release"})
    BY <1>3 DEF shortcut_release
  <2>2. /\ l \in Registration /\ Kept(r, l) /\ l.ctx = "none" /\ l.flight = 0
        /\ l.active = r.active /\ l.flags = r.flags
    BY <1>3, ReleaseFields
  <2> HIDE DEF l, t
  <2>3. t \in Registration /\ Same(l, t) /\ t.flags = l.flags \ {"release"}
    BY <2>1, <2>2, FlagFields DEF Flags
  <2> QED
    BY <1>3, <2>2, <2>3
<1> QED
  BY <1>0, <1>1, <1>2, <1>3

\* A shortcut of a disposed widget is released and taken from the list.
LEMMA ShortcutUnlistOK ==
  ASSUME NEW r, NEW E, RegOK(r, E), r.kind = "shortcut", Has(r, "listed")
  PROVE  LET t == Clear(shortcut_release(r), {"listed"})
         IN RegOK(t, E) /\ Follows(r, t) /\ t.flight = r.flight /\ Ended(t)
<1> DEFINE u == shortcut_release(r)
           t == Clear(u, {"listed"})
<1> SUFFICES RegOK(t, E) /\ Follows(r, t) /\ t.flight = r.flight /\ Ended(t)
  OBVIOUS
<1> USE DEF Same, Kept
<1>0. r \in Registration /\ r.active = r.flight /\ r.flight \in Nat /\ r.ctx = "live"
  BY DEF RegOK, ShortcutOK, Registration
<1>1. /\ u \in Registration /\ Kept(r, u) /\ u.flight = r.flight /\ u.active = r.active
      /\ u.ctx = IF r.active > 0 THEN r.ctx ELSE "none"
      /\ u.flags = IF r.active > 0 THEN r.flags \cup {"release"} ELSE r.flags \ {"release"}
  BY <1>0, ShortcutReleaseFields
<1>2. t \in Registration /\ Same(u, t) /\ t.flags = u.flags \ {"listed"}
  BY <1>1, FlagFields DEF Flags
<1> HIDE DEF u, t
<1> QED
  BY <1>0, <1>1, <1>2
     DEF RegOK, ShortcutOK, OwnFlags, Follows, Ended, Has, Connections, Dialogs

\* shortcut_context_dispose: GTK drops a shortcut, whose block waits for its
\* handlers.
LEMMA ShortcutDisposeOK ==
  ASSUME NEW r, NEW E, RegOK(r, E), r.kind = "shortcut", Has(r, "native")
  PROVE  LET t == shortcut_context_dispose(r)
         IN RegOK(t, E) /\ Follows(r, t) /\ t.flight = r.flight /\ Ended(t)
<1> DEFINE u == shortcut_release(r)
           v == Clear(u, {"listed", "native"})
           t == shortcut_context_dispose(r)
<1> SUFFICES RegOK(t, E) /\ Follows(r, t) /\ t.flight = r.flight /\ Ended(t)
  OBVIOUS
<1> USE DEF Same, Kept
<1>0. r \in Registration /\ r.active = r.flight /\ r.flight \in Nat /\ r.ctx \in {"live", "none"}
  BY DEF RegOK, ShortcutOK, Registration
<1>1. /\ u \in Registration /\ Kept(r, u) /\ u.flight = r.flight /\ u.active = r.active
      /\ u.ctx = IF r.active > 0 THEN r.ctx ELSE "none"
      /\ u.flags = IF r.ctx = "none" THEN r.flags
                   ELSE IF r.active > 0 THEN r.flags \cup {"release"} ELSE r.flags \ {"release"}
  BY <1>0, ShortcutReleaseFields
<1>2. v \in Registration /\ Same(u, v) /\ v.flags = u.flags \ {"listed", "native"}
  BY <1>1, FlagFields DEF Flags
<1>3. t = IF v.active > 0 THEN Mark(v, {"orphaned"}) ELSE Freed(v)
  BY DEF shortcut_context_dispose
<1> HIDE DEF u, v, t
<1>4. CASE v.active > 0
  <2>1. t \in Registration /\ Same(v, t) /\ t.flags = v.flags \cup {"orphaned"}
    BY <1>2, <1>3, <1>4, FlagFields DEF Flags
  <2> QED
    BY <1>0, <1>1, <1>2, <1>4, <2>1
       DEF RegOK, ShortcutOK, OwnFlags, Follows, Ended, Has, Connections, Dialogs
<1>5. CASE ~(v.active > 0)
  <2>1. ~Has(v, "freed")
    BY <1>1, <1>2 DEF RegOK, ShortcutOK, Has
  <2>2. t \in Registration /\ Same(v, t) /\ t.flags = (v.flags \cup {"freed"}) \ {"listed"}
    BY <1>2, <1>3, <1>5, <2>1, FreedFields
  <2> QED
    BY <1>0, <1>1, <1>2, <1>5, <2>2
       DEF RegOK, ShortcutOK, OwnFlags, Follows, Ended, Has, Connections, Dialogs
<1> QED
  BY <1>4, <1>5

\* shortcut_invoke calls a shortcut that GTK has and nothing has released.
LEMMA ShortcutEnterOK ==
  ASSUME NEW r, NEW E, NEW F, RegOK(r, E), r.kind = "shortcut", Has(r, "native"), bound(r)
  PROVE  LET t == invoke(shortcut_enter(r))
         IN RegOK(t, F) /\ Follows(r, t) /\ t.flight = r.flight + 1
<1> DEFINE m == [r EXCEPT !.active = r.active + 1]
           t == invoke(m)
<1> SUFFICES RegOK(t, F) /\ Follows(r, t) /\ t.flight = r.flight + 1
  BY DEF shortcut_enter
<1> USE DEF Kept
<1>0. /\ r \in Registration /\ r.active = r.flight /\ r.flight \in Nat /\ r.ctx = "live"
      /\ ~Has(r, "release")
  BY DEF RegOK, ShortcutOK, Registration, bound
<1>1. /\ m \in Registration /\ Kept(r, m) /\ m.ctx = r.ctx /\ m.flight = r.flight
      /\ m.active = r.active + 1 /\ m.flags = r.flags
  BY <1>0, ActiveFields
<1>2. /\ t \in Registration /\ Kept(m, t) /\ t.ctx = "live" /\ t.flight = m.flight + 1
      /\ t.active = m.active /\ t.flags = m.flags
  BY <1>0, <1>1, InvokeFields
<1> HIDE DEF m, t
<1> QED
  BY <1>0, <1>1, <1>2
     DEF RegOK, ShortcutOK, OwnFlags, Follows, Ended, Has, Connections, Dialogs

\* shortcut_invoke after the handler does what had to wait for it.
LEMMA ShortcutLeaveOK ==
  ASSUME NEW r, NEW E, NEW F, RegOK(r, E), r.kind = "shortcut", r.flight > 0
  PROVE  LET t == shortcut_leave([r EXCEPT !.flight = @ - 1])
         IN RegOK(t, F) /\ Follows(r, t) /\ t.flight = r.flight - 1
<1> DEFINE q == [r EXCEPT !.flight = r.flight - 1]
           m == [q EXCEPT !.active = q.active - 1]
           u == IF Has(m, "release") THEN shortcut_release(m) ELSE m
           t == shortcut_leave(q)
<1> SUFFICES RegOK(t, F) /\ Follows(r, t) /\ t.flight = r.flight - 1
  OBVIOUS
<1> USE DEF Same, Kept
<1>0. /\ r \in Registration /\ r.active = r.flight /\ r.flight \in Nat /\ r.flight - 1 \in Nat
      /\ r.ctx = "live" /\ ~Has(r, "freed")
  BY DEF RegOK, ShortcutOK, Registration
<1>1. /\ q \in Registration /\ Kept(r, q) /\ q.ctx = "live" /\ q.flight = r.flight - 1
      /\ q.active = r.flight /\ q.flags = r.flags
  BY <1>0, FlightFields
<1> HIDE DEF q
<1>2. /\ m \in Registration /\ Kept(q, m) /\ m.ctx = "live" /\ m.flight = r.flight - 1
      /\ m.active = r.flight - 1 /\ m.flags = q.flags
  BY <1>0, <1>1, ActiveFields
<1>3. t = IF m.active > 0 THEN m ELSE IF Has(u, "orphaned") THEN Freed(u) ELSE u
  BY DEF shortcut_leave
<1> HIDE DEF m, t
<1>4. CASE m.active > 0
  <2>1. t = m
    BY <1>3, <1>4
  <2> QED
    BY <1>0, <1>1, <1>2, <1>4, <2>1
       DEF RegOK, ShortcutOK, OwnFlags, Follows, Ended, Has, Connections, Dialogs
<1>5. CASE ~(m.active > 0)
  <2>1. /\ u \in Registration /\ Kept(m, u) /\ u.flight = m.flight /\ u.active = m.active
        /\ u.ctx = IF Has(m, "release") THEN "none" ELSE "live"
        /\ u.flags = m.flags \ {"release"}
    <3>1. CASE Has(m, "release")
      BY <1>2, <1>5, <3>1, ShortcutReleaseFields
    <3>2. CASE ~Has(m, "release")
      BY <1>2, <3>2 DEF Has
    <3> QED
      BY <3>1, <3>2
  <2> HIDE DEF u
  <2>2. CASE Has(u, "orphaned")
    <3>1. t = Freed(u)
      BY <1>3, <1>5, <2>2
    <3>2. ~Has(u, "freed")
      BY <1>0, <1>1, <1>2, <2>1 DEF Has
    <3>3. t \in Registration /\ Same(u, t) /\ t.flags = (u.flags \cup {"freed"}) \ {"listed"}
      BY <2>1, <3>1, <3>2, FreedFields
    <3> QED
      BY <1>0, <1>1, <1>2, <1>5, <2>1, <2>2, <3>3
         DEF RegOK, ShortcutOK, OwnFlags, Follows, Ended, Has, Connections, Dialogs
  <2>3. CASE ~Has(u, "orphaned")
    <3>1. t = u
      BY <1>3, <1>5, <2>3
    <3> QED
      BY <1>0, <1>1, <1>2, <1>5, <2>1, <2>3, <3>1
         DEF RegOK, ShortcutOK, OwnFlags, Follows, Ended, Has, Connections, Dialogs
  <2> QED
    BY <2>2, <2>3
<1> QED
  BY <1>4, <1>5

\* tree_stop closes a tree, whose root waits for its handlers.
LEMMA TreeStopOK ==
  ASSUME NEW r, NEW E, RegOK(r, E), r.kind = "tree"
  PROVE  LET t == tree_stop(r)
         IN RegOK(t, E) /\ Follows(r, t) /\ t.flight = r.flight /\ Ended(t)
<1> DEFINE m == Mark(r, {"closed"})
           l == release(m)
           t == tree_stop(r)
<1> SUFFICES RegOK(t, E) /\ Follows(r, t) /\ t.flight = r.flight /\ Ended(t)
  OBVIOUS
<1> USE DEF Same, Kept
<1>0. r \in Registration /\ r.active = r.flight /\ r.flight \in Nat
  BY DEF RegOK, TreeOK, Registration
<1>1. m \in Registration /\ Same(r, m) /\ m.flags = r.flags \cup {"closed"}
  BY <1>0, FlagFields DEF Flags
<1>2. t = IF m.active > 0 \/ m.ctx = "none" THEN m ELSE l
  BY DEF tree_stop, tree_release_callbacks
<1> HIDE DEF m, t
<1>3. CASE m.active > 0 \/ m.ctx = "none"
  <2>1. t = m
    BY <1>2, <1>3
  <2> QED
    BY <1>0, <1>1, <1>3, <2>1
       DEF RegOK, TreeOK, OwnFlags, Follows, Ended, Has, Connections, Dialogs
<1>4. CASE ~(m.active > 0 \/ m.ctx = "none")
  <2>1. t = l
    BY <1>2, <1>4
  <2>2. m.ctx = "live" /\ m.flight = 0
    BY <1>0, <1>1, <1>4 DEF RegOK, TreeOK
  <2>3. /\ t \in Registration /\ Kept(m, t) /\ t.ctx = "none" /\ t.flight = 0
        /\ t.active = m.active /\ t.flags = m.flags
    BY <1>1, <2>1, <2>2, ReleaseFields
  <2>4. r.flight = 0 /\ m.active = 0
    BY <1>0, <1>1, <2>2
  <2> QED
    BY <1>1, <2>2, <2>3, <2>4
       DEF RegOK, TreeOK, OwnFlags, Follows, Ended, Has, Connections, Dialogs
<1> QED
  BY <1>3, <1>4

\* tree_invoke calls a tree that is not closed.
LEMMA TreeEnterOK ==
  ASSUME NEW r, NEW E, NEW F, RegOK(r, E), r.kind = "tree", ~Has(r, "closed")
  PROVE  LET t == invoke(tree_enter(r))
         IN RegOK(t, F) /\ Follows(r, t) /\ t.flight = r.flight + 1
<1> DEFINE m == [r EXCEPT !.active = r.active + 1]
           t == invoke(m)
<1> SUFFICES RegOK(t, F) /\ Follows(r, t) /\ t.flight = r.flight + 1
  BY DEF tree_enter
<1> USE DEF Kept
<1>0. r \in Registration /\ r.active = r.flight /\ r.flight \in Nat /\ r.ctx = "live"
  BY DEF RegOK, TreeOK, Registration
<1>1. /\ m \in Registration /\ Kept(r, m) /\ m.ctx = r.ctx /\ m.flight = r.flight
      /\ m.active = r.active + 1 /\ m.flags = r.flags
  BY <1>0, ActiveFields
<1>2. /\ t \in Registration /\ Kept(m, t) /\ t.ctx = "live" /\ t.flight = m.flight + 1
      /\ t.active = m.active /\ t.flags = m.flags
  BY <1>0, <1>1, InvokeFields
<1> HIDE DEF m, t
<1> QED
  BY <1>0, <1>1, <1>2
     DEF RegOK, TreeOK, OwnFlags, Follows, Ended, Has, Connections, Dialogs

\* tree_invoke after the handler: a closed tree loses its root with the last
\* handler, and its state too if GTK has dropped it.
LEMMA TreeLeaveOK ==
  ASSUME NEW r, NEW E, NEW F, RegOK(r, E), r.kind = "tree", r.flight > 0
  PROVE  LET t == tree_leave([r EXCEPT !.flight = @ - 1])
         IN RegOK(t, F) /\ Follows(r, t) /\ t.flight = r.flight - 1
<1> DEFINE q == [r EXCEPT !.flight = r.flight - 1]
           m == [q EXCEPT !.active = q.active - 1]
           l == release(m)
           u == IF Has(m, "closed") /\ m.active = 0 THEN l ELSE m
           t == tree_leave(q)
<1> SUFFICES RegOK(t, F) /\ Follows(r, t) /\ t.flight = r.flight - 1
  OBVIOUS
<1> USE DEF Same, Kept
<1>0. /\ r \in Registration /\ r.active = r.flight /\ r.flight \in Nat /\ r.flight - 1 \in Nat
      /\ r.ctx = "live" /\ ~Has(r, "freed")
  BY DEF RegOK, TreeOK, Registration
<1>1. /\ q \in Registration /\ Kept(r, q) /\ q.ctx = "live" /\ q.flight = r.flight - 1
      /\ q.active = r.flight /\ q.flags = r.flags
  BY <1>0, FlightFields
<1> HIDE DEF q
<1>2. /\ m \in Registration /\ Kept(q, m) /\ m.ctx = "live" /\ m.flight = r.flight - 1
      /\ m.active = r.flight - 1 /\ m.flags = q.flags
  BY <1>0, <1>1, ActiveFields
<1>3. t = IF Has(u, "native") \/ u.active > 0 THEN u ELSE Freed(u)
  <2>1. t = tree_unref(IF Has(m, "closed") THEN tree_release_callbacks(m) ELSE m)
    BY DEF tree_leave
  <2> HIDE DEF m
  <2>2. (IF Has(m, "closed") THEN tree_release_callbacks(m) ELSE m) = u
    BY <1>0, <1>2 DEF tree_release_callbacks
  <2> QED
    BY <2>1, <2>2 DEF tree_unref
<1> HIDE DEF m
<1>4. /\ u \in Registration /\ Kept(m, u) /\ u.flight = m.flight /\ u.active = m.active
      /\ u.ctx = IF Has(m, "closed") /\ m.active = 0 THEN "none" ELSE "live"
      /\ u.flags = m.flags
  <2>1. CASE Has(m, "closed") /\ m.active = 0
    BY <1>2, <2>1, ReleaseFields
  <2>2. CASE ~(Has(m, "closed") /\ m.active = 0)
    BY <1>2, <2>2
  <2> QED
    BY <2>1, <2>2
<1> HIDE DEF u, t
<1>5. CASE Has(u, "native") \/ u.active > 0
  <2>1. t = u
    BY <1>3, <1>5
  <2> QED
    BY <1>0, <1>1, <1>2, <1>4, <1>5, <2>1
       DEF RegOK, TreeOK, OwnFlags, Follows, Ended, Has, Connections, Dialogs
<1>6. CASE ~(Has(u, "native") \/ u.active > 0)
  <2>1. t = Freed(u)
    BY <1>3, <1>6
  <2>2. ~Has(u, "freed")
    BY <1>0, <1>1, <1>2, <1>4 DEF Has
  <2>3. t \in Registration /\ Same(u, t) /\ t.flags = (u.flags \cup {"freed"}) \ {"listed"}
    BY <1>4, <2>1, <2>2, FreedFields
  <2> QED
    BY <1>0, <1>1, <1>2, <1>4, <1>6, <2>3
       DEF RegOK, TreeOK, OwnFlags, Follows, Ended, Has, Connections, Dialogs
<1> QED
  BY <1>5, <1>6

\* tree_unref when GTK drops the data of a closed tree.
LEMMA TreeDropOK ==
  ASSUME NEW r, NEW E, RegOK(r, E), r.kind = "tree", Has(r, "native"), Has(r, "closed")
  PROVE  LET t == tree_unref(Clear(r, {"native"}))
         IN RegOK(t, E) /\ Follows(r, t) /\ t.flight = r.flight
<1> DEFINE c == Clear(r, {"native"})
           t == tree_unref(c)
<1> SUFFICES RegOK(t, E) /\ Follows(r, t) /\ t.flight = r.flight
  OBVIOUS
<1> USE DEF Same, Kept
<1>0. r \in Registration /\ r.active = r.flight /\ r.flight \in Nat /\ ~Has(r, "freed")
  BY DEF RegOK, TreeOK, Registration
<1>1. c \in Registration /\ Same(r, c) /\ c.flags = r.flags \ {"native"}
  BY <1>0, FlagFields DEF Flags
<1>2. t = IF c.active > 0 THEN c ELSE Freed(c)
  BY <1>1 DEF tree_unref, Has
<1>3. Freed(c) \in Registration /\ Same(c, Freed(c)) /\ Freed(c).flags = (c.flags \cup {"freed"}) \ {"listed"}
  BY <1>0, <1>1, FreedFields DEF Has
<1> HIDE DEF c, t
<1> QED
  BY <1>0, <1>1, <1>2, <1>3
     DEF RegOK, TreeOK, OwnFlags, Follows, Ended, Has, Connections, Dialogs

\* directory_unref frees the job with its last user.
LEMMA UnrefFields ==
  ASSUME NEW r \in Registration, ~Has(r, "freed"), NEW user \in {"gui", "worker", "dispatch"}
  PROVE  LET t == directory_unref(r, user)
         IN /\ t \in Registration /\ Same(r, t)
            /\ t.flags = IF (r.flags \ {user}) \cap {"gui", "worker", "dispatch"} = {}
                         THEN (r.flags \cup {"freed"}) \ {"listed", user} ELSE r.flags \ {user}
<1> DEFINE c == Clear(r, {user})
           t == directory_unref(r, user)
<1> SUFFICES /\ t \in Registration /\ Same(r, t)
             /\ t.flags = IF (r.flags \ {user}) \cap {"gui", "worker", "dispatch"} = {}
                          THEN (r.flags \cup {"freed"}) \ {"listed", user} ELSE r.flags \ {user}
  OBVIOUS
<1>1. c \in Registration /\ Same(r, c) /\ c.flags = r.flags \ {user}
  BY FlagFields DEF Flags
<1>2. t = IF c.flags \cap {"gui", "worker", "dispatch"} = {} THEN Freed(c) ELSE c
  BY DEF directory_unref
<1>3. Freed(c) \in Registration /\ Same(c, Freed(c)) /\ Freed(c).flags = (c.flags \cup {"freed"}) \ {"listed"}
  BY <1>1, FreedFields DEF Has
<1> HIDE DEF c, t
<1>4. CASE c.flags \cap {"gui", "worker", "dispatch"} = {}
  <2>1. t = Freed(c)
    BY <1>2, <1>4
  <2>2. t.flags = (r.flags \cup {"freed"}) \ {"listed", user}
    BY <1>1, <1>3, <2>1
  <2> QED
    BY <1>1, <1>3, <1>4, <2>1, <2>2 DEF Same, Kept
<1>5. CASE ~(c.flags \cap {"gui", "worker", "dispatch"} = {})
  BY <1>1, <1>2, <1>5
<1> QED
  BY <1>4, <1>5

\* directory_close gives up the root and the GUI thread's hold of the job.
LEMMA CloseFields ==
  ASSUME NEW r \in Registration, ~Has(r, "closed"), ~Has(r, "freed"), r.ctx = "live",
         r.active = r.flight
  PROVE  LET t == directory_close(r)
         IN /\ t \in Registration /\ Kept(r, t) /\ t.flight = r.flight /\ t.active = r.active
            /\ t.ctx = IF r.active > 0 THEN "live" ELSE "none"
            /\ t.flags = IF Has(r, "worker") \/ Has(r, "dispatch")
                         THEN (r.flags \cup {"closed"}) \ {"listed", "gui"}
                         ELSE (r.flags \cup {"closed", "freed"}) \ {"listed", "gui"}
<1> DEFINE m == Mark(r, {"closed"})
           c == Clear(m, {"listed"})
           d == directory_release(c)
           t == directory_close(r)
<1> SUFFICES /\ t \in Registration /\ Kept(r, t) /\ t.flight = r.flight /\ t.active = r.active
             /\ t.ctx = IF r.active > 0 THEN "live" ELSE "none"
             /\ t.flags = IF Has(r, "worker") \/ Has(r, "dispatch")
                          THEN (r.flags \cup {"closed"}) \ {"listed", "gui"}
                          ELSE (r.flags \cup {"closed", "freed"}) \ {"listed", "gui"}
  OBVIOUS
<1> USE DEF Same, Kept
<1>0. r.active \in Nat /\ r.flags \in SUBSET Flags
  BY DEF Registration
<1>1. m \in Registration /\ Same(r, m) /\ m.flags = r.flags \cup {"closed"}
  BY FlagFields DEF Flags
<1> HIDE DEF m
<1>2. c \in Registration /\ Same(m, c) /\ c.flags = m.flags \ {"listed"}
  BY <1>1, FlagFields DEF Flags
<1> HIDE DEF c
<1>3. /\ d \in Registration /\ Kept(c, d) /\ d.flight = c.flight /\ d.active = c.active
      /\ d.flags = c.flags /\ d.ctx = IF c.active > 0 THEN "live" ELSE "none"
  <2>1. CASE c.active > 0
    BY <1>1, <1>2, <2>1 DEF directory_release
  <2>2. CASE ~(c.active > 0)
    <3>1. c.ctx = "live" /\ c.flight = 0
      BY <1>0, <1>1, <1>2, <2>2
    <3>2. d = release(c)
      BY <2>2, <3>1 DEF directory_release
    <3> QED
      BY <1>2, <2>2, <3>1, <3>2, ReleaseFields
  <2> QED
    BY <2>1, <2>2
<1>4. t = directory_unref(d, "gui")
  BY DEF directory_close, m, c
<1> HIDE DEF d, t
<1>5. ~Has(d, "freed")
  BY <1>1, <1>2, <1>3 DEF Has
<1>6. /\ t \in Registration /\ Same(d, t)
      /\ t.flags = IF (d.flags \ {"gui"}) \cap {"gui", "worker", "dispatch"} = {}
                   THEN (d.flags \cup {"freed"}) \ {"listed", "gui"} ELSE d.flags \ {"gui"}
  BY <1>3, <1>4, <1>5, UnrefFields
<1>7. d.flags = (r.flags \cup {"closed"}) \ {"listed"}
  BY <1>1, <1>2, <1>3
<1>8. (d.flags \ {"gui"}) \cap {"gui", "worker", "dispatch"} = {}
        <=> ~(Has(r, "worker") \/ Has(r, "dispatch"))
  BY <1>7 DEF Has
<1>9. CASE Has(r, "worker") \/ Has(r, "dispatch")
  <2>1. t.flags = (r.flags \cup {"closed"}) \ {"listed", "gui"}
    BY <1>6, <1>7, <1>8, <1>9
  <2> QED
    BY <1>1, <1>2, <1>3, <1>6, <1>9, <2>1
<1>10. CASE ~(Has(r, "worker") \/ Has(r, "dispatch"))
  <2>1. t.flags = (r.flags \cup {"closed", "freed"}) \ {"listed", "gui"}
    BY <1>6, <1>7, <1>8, <1>10
  <2> QED
    BY <1>1, <1>2, <1>3, <1>6, <1>10, <2>1
<1> QED
  BY <1>9, <1>10

\* directory_close by the program or by the disposal of its widget.
LEMMA ScanCloseOK ==
  ASSUME NEW r, NEW E, RegOK(r, E), r.kind = "scan"
  PROVE  LET t == directory_close(r)
         IN RegOK(t, E) /\ Follows(r, t) /\ t.flight = r.flight /\ Ended(t)
<1> DEFINE t == directory_close(r)
<1> SUFFICES RegOK(t, E) /\ Follows(r, t) /\ t.flight = r.flight /\ Ended(t)
  OBVIOUS
<1> USE DEF Same, Kept
<1>0. r \in Registration /\ r.active = r.flight /\ r.flight \in Nat
  BY DEF RegOK, ScanOK, Registration
<1>1. CASE Has(r, "closed")
  <2>1. t = r
    BY <1>1 DEF directory_close
  <2> QED
    BY <1>1, <2>1 DEF RegOK, ScanOK, Follows, Ended, Has, Connections, Dialogs
<1>2. CASE ~Has(r, "closed")
  <2>1. r.ctx = "live" /\ ~Has(r, "freed")
    BY <1>2 DEF RegOK, ScanOK
  <2>2. /\ t \in Registration /\ Kept(r, t) /\ t.flight = r.flight /\ t.active = r.active
        /\ t.ctx = IF r.active > 0 THEN "live" ELSE "none"
        /\ t.flags = IF Has(r, "worker") \/ Has(r, "dispatch")
                     THEN (r.flags \cup {"closed"}) \ {"listed", "gui"}
                     ELSE (r.flags \cup {"closed", "freed"}) \ {"listed", "gui"}
    BY <1>0, <1>2, <2>1, CloseFields
  <2> HIDE DEF t
  <2> QED
    BY <1>0, <1>2, <2>1, <2>2
       DEF RegOK, ScanOK, OwnFlags, Follows, Ended, Has, Connections, Dialogs
<1> QED
  BY <1>1, <1>2

\* The worker of a scan ends, of an open one or of one that waits for it.
LEMMA WorkerOK ==
  ASSUME NEW r, NEW E, RegOK(r, E), Has(r, "worker"), NEW n \in Nat
  PROVE  LET t == directory_unref([Mark(r, {"done"}) EXCEPT !.left = n], "worker")
         IN RegOK(t, E) /\ Follows(r, t) /\ t.flight = r.flight
<1> DEFINE m == Mark(r, {"done"})
           c == [m EXCEPT !.left = n]
           t == directory_unref(c, "worker")
<1> SUFFICES RegOK(t, E) /\ Follows(r, t) /\ t.flight = r.flight
  OBVIOUS
<1> USE DEF Same, Kept
<1>0. r \in Registration /\ r.kind = "scan" /\ ~Has(r, "freed") /\ r.flight \in Nat
  BY DEF RegOK, OwnFlags, ScanOK, Registration
<1>1. m \in Registration /\ Same(r, m) /\ m.flags = r.flags \cup {"done"}
  BY <1>0, FlagFields DEF Flags
<1> HIDE DEF m
<1>2. c \in Registration /\ Kept(m, c) /\ c.ctx = m.ctx /\ c.flight = m.flight
      /\ c.active = m.active /\ c.flags = m.flags
  BY <1>1 DEF Registration
<1> HIDE DEF c
<1>3. ~Has(c, "freed")
  BY <1>0, <1>1, <1>2 DEF Has
<1>4. /\ t \in Registration /\ Same(c, t)
      /\ t.flags = IF (c.flags \ {"worker"}) \cap {"gui", "worker", "dispatch"} = {}
                   THEN (c.flags \cup {"freed"}) \ {"listed", "worker"} ELSE c.flags \ {"worker"}
  BY <1>2, <1>3, UnrefFields
<1> HIDE DEF t
<1>5. (c.flags \ {"worker"}) \cap {"gui", "worker", "dispatch"} = {}
        <=> ~(Has(r, "gui") \/ Has(r, "dispatch"))
  BY <1>1, <1>2 DEF Has
<1>6. CASE Has(r, "gui") \/ Has(r, "dispatch")
  <2>1. t.flags = c.flags \ {"worker"}
    BY <1>4, <1>5, <1>6
  <2> QED
    BY <1>0, <1>1, <1>2, <1>4, <1>6, <2>1
       DEF RegOK, ScanOK, OwnFlags, Follows, Ended, Has, Connections, Dialogs
<1>7. CASE ~(Has(r, "gui") \/ Has(r, "dispatch"))
  <2>1. t.flags = (c.flags \cup {"freed"}) \ {"listed", "worker"}
    BY <1>4, <1>5, <1>7
  <2> QED
    BY <1>0, <1>1, <1>2, <1>4, <1>7, <2>1
       DEF RegOK, ScanOK, OwnFlags, Follows, Ended, Has, Connections, Dialogs
<1> QED
  BY <1>6, <1>7

\* directory_dispatch calls an open scan that is not being told already.
LEMMA ScanEnterOK ==
  ASSUME NEW r, NEW E, NEW F, RegOK(r, E), r.kind = "scan", Has(r, "listed"), r.flight = 0
  PROVE  LET t == invoke(directory_dispatch(r))
         IN RegOK(t, F) /\ Follows(r, t) /\ t.flight = r.flight + 1
<1> DEFINE c == Mark(r, {"dispatch"})
           m == [c EXCEPT !.active = c.active + 1]
           t == invoke(m)
<1> SUFFICES RegOK(t, F) /\ Follows(r, t) /\ t.flight = r.flight + 1
  BY DEF directory_dispatch
<1> USE DEF Same, Kept
<1>0. r \in Registration /\ r.active = 0 /\ r.ctx = "live" /\ ~Has(r, "closed")
  BY DEF RegOK, ScanOK
<1>1. c \in Registration /\ Same(r, c) /\ c.flags = r.flags \cup {"dispatch"}
  BY <1>0, FlagFields DEF Flags
<1> HIDE DEF c
<1>2. /\ m \in Registration /\ Kept(c, m) /\ m.ctx = c.ctx /\ m.flight = c.flight
      /\ m.active = 1 /\ m.flags = c.flags
  BY <1>0, <1>1, ActiveFields
<1> HIDE DEF m
<1>3. /\ t \in Registration /\ Kept(m, t) /\ t.ctx = "live" /\ t.flight = m.flight + 1
      /\ t.active = m.active /\ t.flags = m.flags
  BY <1>0, <1>1, <1>2, InvokeFields
<1> HIDE DEF t
<1> QED
  BY <1>0, <1>1, <1>2, <1>3
     DEF RegOK, ScanOK, OwnFlags, Follows, Ended, Has, Connections, Dialogs

\* directory_deliver after the handler: a scan that the handler closed gives
\* up its root.
LEMMA DirectoryLeaveFields ==
  ASSUME NEW r, NEW E, RegOK(r, E), r.kind = "scan", r.flight > 0, NEW final
  PROVE  LET t == directory_leave([r EXCEPT !.flight = @ - 1], final)
         IN /\ t \in Registration /\ Kept(r, t) /\ t.flight = 0 /\ t.active = 0
            /\ t.ctx = (IF Has(r, "closed") THEN "none" ELSE "live")
            /\ t.flags = r.flags
            /\ r.flight = 1 /\ Has(r, "dispatch") /\ ~Has(r, "freed")
<1> DEFINE q == [r EXCEPT !.flight = r.flight - 1]
           n == IF final THEN q.left ELSE q.left - 1
           m == [q EXCEPT !.active = q.active - 1, !.left = n]
           t == directory_leave(q, final)
<1> SUFFICES /\ t \in Registration /\ Kept(r, t) /\ t.flight = 0 /\ t.active = 0
             /\ t.ctx = (IF Has(r, "closed") THEN "none" ELSE "live")
             /\ t.flags = r.flags
             /\ r.flight = 1 /\ Has(r, "dispatch") /\ ~Has(r, "freed")
  OBVIOUS
<1> USE DEF Same, Kept
<1>0. /\ r \in Registration /\ r.active = 1 /\ r.flight = 1 /\ r.ctx = "live"
      /\ Has(r, "dispatch") /\ ~Has(r, "freed")
  BY DEF RegOK, ScanOK, Registration
<1>1. /\ q \in Registration /\ Kept(r, q) /\ q.ctx = "live" /\ q.flight = 0
      /\ q.active = 1 /\ q.flags = r.flags
  BY <1>0, FlightFields
<1> HIDE DEF q
<1>2. /\ m \in Registration /\ Kept(q, m) /\ m.ctx = "live" /\ m.flight = 0
      /\ m.active = 0 /\ m.flags = q.flags
  <2>1. n \in Int
    BY <1>1 DEF Registration
  <2> HIDE DEF n
  <2> DEFINE p == [q EXCEPT !.active = 0]
  <2>2. /\ p \in Registration /\ Kept(q, p) /\ p.ctx = q.ctx /\ p.flight = q.flight
        /\ p.active = 0 /\ p.flags = q.flags
    BY <1>1, ActiveFields
  <2>3. m = [p EXCEPT !.left = n]
    BY <1>1
  <2> HIDE DEF p, m
  <2> QED
    BY <1>1, <2>1, <2>2, <2>3 DEF Registration
<1>3. t = IF Has(m, "closed") THEN directory_release(m) ELSE m
  BY DEF directory_leave
<1> HIDE DEF m, t
<1>4. CASE Has(m, "closed")
  <2>1. t = release(m)
    BY <1>2, <1>3, <1>4 DEF directory_release
  <2>2. /\ t \in Registration /\ Kept(m, t) /\ t.ctx = "none" /\ t.flight = 0
        /\ t.active = m.active /\ t.flags = m.flags
    BY <1>2, <2>1, ReleaseFields
  <2> QED
    BY <1>0, <1>1, <1>2, <1>4, <2>2 DEF Has
<1>5. CASE ~Has(m, "closed")
  BY <1>0, <1>1, <1>2, <1>3, <1>5 DEF Has
<1> QED
  BY <1>4, <1>5

\* The end of a scan that is still open is told at once.
LEMMA ScanAgainOK ==
  ASSUME NEW r, NEW E, NEW F, RegOK(r, E), r.kind = "scan", r.flight > 0, NEW final,
         directory_goes_on(directory_leave([r EXCEPT !.flight = @ - 1], final))
  PROVE  LET d == directory_leave([r EXCEPT !.flight = @ - 1], final)
             t == invoke([d EXCEPT !.active = @ + 1])
         IN RegOK(t, F) /\ Follows(r, t) /\ t.flight = r.flight
<1> DEFINE d == directory_leave([r EXCEPT !.flight = r.flight - 1], final)
           m == [d EXCEPT !.active = d.active + 1]
           t == invoke(m)
<1> SUFFICES RegOK(t, F) /\ Follows(r, t) /\ t.flight = r.flight
  OBVIOUS
<1> USE DEF Same, Kept
<1>0. ~Has(d, "closed")
  BY DEF directory_goes_on
<1>1. /\ d \in Registration /\ Kept(r, d) /\ d.flight = 0 /\ d.active = 0
      /\ d.ctx = (IF Has(r, "closed") THEN "none" ELSE "live")
      /\ d.flags = r.flags
      /\ r.flight = 1 /\ Has(r, "dispatch") /\ ~Has(r, "freed")
  BY DirectoryLeaveFields
<1> HIDE DEF d
<1>2. d.ctx = "live" /\ ~Has(r, "closed")
  BY <1>0, <1>1 DEF Has
<1>3. /\ m \in Registration /\ Kept(d, m) /\ m.ctx = d.ctx /\ m.flight = 0
      /\ m.active = 1 /\ m.flags = d.flags
  BY <1>1, ActiveFields
<1> HIDE DEF m
<1>4. /\ t \in Registration /\ Kept(m, t) /\ t.ctx = "live" /\ t.flight = 1
      /\ t.active = m.active /\ t.flags = m.flags
  BY <1>2, <1>3, InvokeFields
<1> HIDE DEF t
<1> QED
  BY <1>1, <1>2, <1>3, <1>4
     DEF RegOK, ScanOK, OwnFlags, Follows, Ended, Has, Connections, Dialogs

\* directory_dispatch gives up the job, and closes the scan after its end.
LEMMA ScanLeaveOK ==
  ASSUME NEW r, NEW E, NEW F, RegOK(r, E), r.kind = "scan", r.flight > 0, NEW final
  PROVE  LET d == directory_leave([r EXCEPT !.flight = @ - 1], final)
             t == directory_ends(d, final)
         IN RegOK(t, F) /\ Follows(r, t) /\ t.flight = r.flight - 1
<1> DEFINE d == directory_leave([r EXCEPT !.flight = r.flight - 1], final)
           c == IF final THEN directory_close(d) ELSE d
           t == directory_unref(c, "dispatch")
<1> SUFFICES RegOK(t, F) /\ Follows(r, t) /\ t.flight = r.flight - 1
  BY DEF directory_ends
<1> USE DEF Same, Kept
<1>1. /\ d \in Registration /\ Kept(r, d) /\ d.flight = 0 /\ d.active = 0
      /\ d.ctx = (IF Has(r, "closed") THEN "none" ELSE "live")
      /\ d.flags = r.flags
      /\ r.flight = 1 /\ Has(r, "dispatch") /\ ~Has(r, "freed")
  BY DirectoryLeaveFields
<1> HIDE DEF d
<1>2. CASE Has(r, "closed") \/ ~final
  <2>1. t = directory_unref(d, "dispatch") /\ ~Has(d, "freed")
    BY <1>1, <1>2 DEF directory_close, Has
  <2> HIDE DEF t
  <2>2. /\ t \in Registration /\ Same(d, t)
        /\ t.flags = IF (d.flags \ {"dispatch"}) \cap {"gui", "worker", "dispatch"} = {}
                     THEN (d.flags \cup {"freed"}) \ {"listed", "dispatch"}
                     ELSE d.flags \ {"dispatch"}
    BY <1>1, <2>1, UnrefFields
  <2>3. (d.flags \ {"dispatch"}) \cap {"gui", "worker", "dispatch"} = {}
          <=> ~(Has(r, "gui") \/ Has(r, "worker"))
    BY <1>1 DEF Has
  <2>4. CASE Has(r, "gui") \/ Has(r, "worker")
    <3>1. t.flags = r.flags \ {"dispatch"}
      BY <1>1, <2>2, <2>3, <2>4
    <3> QED
      BY <1>1, <2>2, <2>4, <3>1
         DEF RegOK, ScanOK, OwnFlags, Follows, Ended, Has, Connections, Dialogs
  <2>5. CASE ~(Has(r, "gui") \/ Has(r, "worker"))
    <3>1. t.flags = (r.flags \cup {"freed"}) \ {"listed", "dispatch"}
      BY <1>1, <2>2, <2>3, <2>5
    <3> QED
      BY <1>1, <2>2, <2>5, <3>1
         DEF RegOK, ScanOK, OwnFlags, Follows, Ended, Has, Connections, Dialogs
  <2> QED
    BY <2>4, <2>5
<1>3. CASE ~Has(r, "closed") /\ final
  <2>1. /\ c = directory_close(d) /\ ~Has(d, "closed") /\ ~Has(d, "freed") /\ Has(d, "dispatch")
        /\ d.ctx = "live" /\ d.active = d.flight /\ ~(d.active > 0)
    BY <1>1, <1>3 DEF Has
  <2> HIDE DEF c
  <2>2. /\ c \in Registration /\ Kept(d, c) /\ c.flight = 0 /\ c.active = 0 /\ c.ctx = "none"
        /\ c.flags = (d.flags \cup {"closed"}) \ {"listed", "gui"}
    BY <1>1, <2>1, CloseFields
  <2>3. /\ t \in Registration /\ Same(c, t)
        /\ t.flags = IF (c.flags \ {"dispatch"}) \cap {"gui", "worker", "dispatch"} = {}
                     THEN (c.flags \cup {"freed"}) \ {"listed", "dispatch"}
                     ELSE c.flags \ {"dispatch"}
    BY <1>1, <2>2, UnrefFields DEF Has
  <2> HIDE DEF t
  <2>4. (c.flags \ {"dispatch"}) \cap {"gui", "worker", "dispatch"} = {} <=> ~Has(r, "worker")
    BY <1>1, <2>2 DEF Has
  <2>5. CASE Has(r, "worker")
    <3>1. t.flags = (r.flags \cup {"closed"}) \ {"listed", "gui", "dispatch"}
      BY <1>1, <2>2, <2>3, <2>4, <2>5
    <3> QED
      BY <1>1, <1>3, <2>2, <2>3, <2>5, <3>1
         DEF RegOK, ScanOK, OwnFlags, Follows, Ended, Has, Connections, Dialogs
  <2>6. CASE ~Has(r, "worker")
    <3>1. t.flags = (r.flags \cup {"closed", "freed"}) \ {"listed", "gui", "dispatch"}
      BY <1>1, <2>2, <2>3, <2>4, <2>6
    <3> QED
      BY <1>1, <1>3, <2>2, <2>3, <2>6, <3>1
         DEF RegOK, ScanOK, OwnFlags, Follows, Ended, Has, Connections, Dialogs
  <2> QED
    BY <2>5, <2>6
<1> QED
  BY <1>2, <1>3

\* config_complete after shutdown: the save goes without telling anybody.
LEMMA SaveDropOK ==
  ASSUME NEW r, NEW E, RegOK(r, E), Has(r, "load") \/ Has(r, "write")
  PROVE  LET t == Freed(release(Clear(r, {"listed", "load", "write"})))
         IN RegOK(t, E) /\ Follows(r, t) /\ t.flight = r.flight
<1> DEFINE c == Clear(r, {"listed", "load", "write"})
           l == release(c)
           t == Freed(l)
<1> SUFFICES RegOK(t, E) /\ Follows(r, t) /\ t.flight = r.flight
  OBVIOUS
<1> USE DEF Same, Kept
<1>0. /\ r \in Registration /\ r.kind = "save" /\ r.ctx = "live" /\ r.flight = 0
      /\ ~Has(r, "freed")
  BY DEF RegOK, OwnFlags, SaveOK
<1>1. c \in Registration /\ Same(r, c) /\ c.flags = r.flags \ {"listed", "load", "write"}
  BY <1>0, FlagFields DEF Flags
<1> HIDE DEF c
<1>2. /\ l \in Registration /\ Kept(c, l) /\ l.ctx = "none" /\ l.flight = 0
      /\ l.active = c.active /\ l.flags = c.flags
  BY <1>0, <1>1, ReleaseFields
<1> HIDE DEF l
<1>3. t \in Registration /\ Same(l, t) /\ t.flags = (l.flags \cup {"freed"}) \ {"listed"}
  BY <1>0, <1>1, <1>2, FreedFields DEF Has
<1> HIDE DEF t
<1> QED
  BY <1>0, <1>1, <1>2, <1>3
     DEF RegOK, SaveOK, OwnFlags, Follows, Ended, Has, Connections, Dialogs

\* config_complete tells the result of a save.
LEMMA SaveTellOK ==
  ASSUME NEW r, NEW E, NEW F, RegOK(r, E), Has(r, "load") \/ Has(r, "write")
  PROVE  LET t == invoke(Clear(r, {"listed", "load", "write"}))
         IN RegOK(t, F) /\ Follows(r, t) /\ t.flight = r.flight + 1
<1> DEFINE c == Clear(r, {"listed", "load", "write"})
           t == invoke(c)
<1> SUFFICES RegOK(t, F) /\ Follows(r, t) /\ t.flight = r.flight + 1
  OBVIOUS
<1> USE DEF Same, Kept
<1>0. /\ r \in Registration /\ r.kind = "save" /\ r.ctx = "live" /\ r.flight = 0
      /\ ~Has(r, "freed")
  BY DEF RegOK, OwnFlags, SaveOK
<1>1. c \in Registration /\ Same(r, c) /\ c.flags = r.flags \ {"listed", "load", "write"}
  BY <1>0, FlagFields DEF Flags
<1> HIDE DEF c
<1>2. /\ t \in Registration /\ Kept(c, t) /\ t.ctx = "live" /\ t.flight = 1
      /\ t.active = c.active /\ t.flags = c.flags
  BY <1>0, <1>1, InvokeFields
<1> HIDE DEF t
<1> QED
  BY <1>0, <1>1, <1>2
     DEF RegOK, SaveOK, OwnFlags, Follows, Ended, Has, Connections, Dialogs

\* After the handler of a save its root and its block go.
LEMMA SaveReturnOK ==
  ASSUME NEW r, NEW E, NEW F, RegOK(r, E), r.kind = "save", r.flight > 0
  PROVE  LET t == Freed(release([r EXCEPT !.flight = @ - 1]))
         IN RegOK(t, F) /\ Follows(r, t) /\ t.flight = r.flight - 1
<1> DEFINE q == [r EXCEPT !.flight = r.flight - 1]
           l == release(q)
           t == Freed(l)
<1> SUFFICES RegOK(t, F) /\ Follows(r, t) /\ t.flight = r.flight - 1
  OBVIOUS
<1> USE DEF Same, Kept
<1>0. /\ r \in Registration /\ r.flight \in Nat /\ r.ctx = "live" /\ r.flight = 1
      /\ ~Has(r, "freed") /\ ~Has(r, "listed")
  BY DEF RegOK, SaveOK, Registration
<1>1. /\ q \in Registration /\ Kept(r, q) /\ q.ctx = "live" /\ q.flight = 0
      /\ q.active = r.active /\ q.flags = r.flags
  BY <1>0, FlightFields
<1> HIDE DEF q
<1>2. /\ l \in Registration /\ Kept(q, l) /\ l.ctx = "none" /\ l.flight = 0
      /\ l.active = q.active /\ l.flags = q.flags
  BY <1>1, ReleaseFields
<1> HIDE DEF l
<1>3. t \in Registration /\ Same(l, t) /\ t.flags = (l.flags \cup {"freed"}) \ {"listed"}
  BY <1>0, <1>1, <1>2, FreedFields DEF Has
<1> HIDE DEF t
<1> QED
  BY <1>0, <1>1, <1>2, <1>3
     DEF RegOK, SaveOK, OwnFlags, Follows, Ended, Has, Connections, Dialogs

\* config_loaded goes on with the replacement of the file.
LEMMA SaveWriteOK ==
  ASSUME NEW r, NEW E, RegOK(r, E), Has(r, "load"), NEW n \in Nat
  PROVE  LET t == [Mark(Clear(r, {"load"}), {"write"}) EXCEPT !.etag = n]
         IN /\ RegOK(t, E) /\ t.kind = r.kind /\ t.owner = r.owner /\ Ended(t) /\ Has(r, "listed")
            /\ t.flight = r.flight /\ t.etag = n /\ t.expected = r.expected
<1> DEFINE c == Clear(r, {"load"})
           m == Mark(c, {"write"})
           t == [m EXCEPT !.etag = n]
<1> SUFFICES /\ RegOK(t, E) /\ t.kind = r.kind /\ t.owner = r.owner /\ Ended(t) /\ Has(r, "listed")
             /\ t.flight = r.flight /\ t.etag = n /\ t.expected = r.expected
  OBVIOUS
<1> USE DEF Same, Kept
<1>0. r \in Registration /\ r.kind = "save" /\ Has(r, "listed") /\ ~Has(r, "write")
  BY DEF RegOK, OwnFlags, SaveOK
<1>1. c \in Registration /\ Same(r, c) /\ c.flags = r.flags \ {"load"}
  BY <1>0, FlagFields DEF Flags
<1> HIDE DEF c
<1>2. m \in Registration /\ Same(c, m) /\ m.flags = c.flags \cup {"write"}
  BY <1>1, FlagFields DEF Flags
<1> HIDE DEF m
<1>3. /\ t \in Registration /\ t.kind = m.kind /\ t.owner = m.owner /\ t.expected = m.expected
      /\ t.ctx = m.ctx /\ t.flight = m.flight /\ t.active = m.active /\ t.flags = m.flags
      /\ t.etag = n
  BY <1>2 DEF Registration
<1> HIDE DEF t
<1> QED
  BY <1>0, <1>1, <1>2, <1>3
     DEF RegOK, SaveOK, OwnFlags, Ended, Has, Connections, Dialogs

\* What widget_dispose does to a registration of the widget ends it.
LEMMA DisposeOneOK ==
  ASSUME NEW r, NEW E, RegOK(r, E), E = {} <=> r.flight = 0, r.kind \notin {"post", "save"}
  PROVE  LET t == dispose_one(r, E)
         IN RegOK(t, E) /\ Follows(r, t) /\ t.flight = r.flight /\ Ended(t)
<1> DEFINE t == dispose_one(r, E)
<1> SUFFICES RegOK(t, E) /\ Follows(r, t) /\ t.flight = r.flight /\ Ended(t)
  OBVIOUS
<1>0. r.kind \in Kinds
  BY DEF RegOK, Registration
<1>1. CASE r.kind = "scan"
  <2>1. CASE Has(r, "listed")
    <3>1. t = directory_close(r)
      BY <1>1, <2>1 DEF dispose_one, Connections, Dialogs
    <3> QED
      BY <1>1, <3>1, ScanCloseOK
  <2>2. CASE ~Has(r, "listed")
    <3>1. t = r
      BY <1>1, <2>2 DEF dispose_one, Connections, Dialogs
    <3> QED
      BY <1>1, <2>2, <3>1 DEF RegOK, ScanOK, Ended, Follows, Connections, Dialogs
  <2> QED
    BY <2>1, <2>2
<1>2. CASE r.kind = "tree"
  <2>1. CASE ~Has(r, "freed")
    <3>1. t = tree_stop(r)
      BY <1>2, <2>1 DEF dispose_one, Connections, Dialogs
    <3> QED
      BY <1>2, <3>1, TreeStopOK
  <2>2. CASE Has(r, "freed")
    <3>1. t = r
      BY <1>2, <2>2 DEF dispose_one, Connections, Dialogs
    <3> QED
      BY <1>2, <2>2, <3>1 DEF RegOK, TreeOK, Ended, Follows, Connections, Dialogs
  <2> QED
    BY <2>1, <2>2
<1>3. CASE r.kind \in Dialogs
  <2>1. CASE Has(r, "listed")
    <3>1. t = dialog_cancel(r)
      BY <1>3, <2>1 DEF dispose_one, Connections, Dialogs
    <3> QED
      BY <1>3, <2>1, <3>1, DialogCancelOK
  <2>2. CASE ~Has(r, "listed")
    <3>1. t = r
      BY <1>3, <2>2 DEF dispose_one, Connections, Dialogs
    <3> QED
      BY <1>3, <2>2, <3>1 DEF Ended, Follows, Connections, Dialogs
  <2> QED
    BY <2>1, <2>2
<1>4. CASE r.kind \in Connections
  <2>1. CASE Has(r, "listed")
    <3>1. t = disconnect(r, E)
      BY <1>4, <2>1 DEF dispose_one, Connections, Dialogs
    <3> QED
      BY <1>4, <3>1, DisconnectOK
  <2>2. CASE ~Has(r, "listed")
    <3>1. t = r
      BY <1>4, <2>2 DEF dispose_one, Connections, Dialogs
    <3> QED
      BY <1>4, <2>2, <3>1 DEF RegOK, ConnectionOK, Ended, Follows, Connections, Dialogs
  <2> QED
    BY <2>1, <2>2
<1>5. CASE r.kind = "shortcut"
  <2>1. CASE Has(r, "listed")
    <3>1. t = Clear(shortcut_release(r), {"listed"})
      BY <1>5, <2>1 DEF dispose_one, Connections, Dialogs
    <3> QED
      BY <1>5, <2>1, <3>1, ShortcutUnlistOK
  <2>2. CASE ~Has(r, "listed")
    <3>1. t = r
      BY <1>5, <2>2 DEF dispose_one, Connections, Dialogs
    <3> QED
      BY <1>5, <2>2, <3>1 DEF Ended, Follows, Connections, Dialogs
  <2> QED
    BY <2>1, <2>2
<1> QED
  BY <1>0, <1>1, <1>2, <1>3, <1>4, <1>5 DEF Kinds

\* The first loops of cwhip_gtk_shutdown end what no widget owns.
LEMMA StopOneOK ==
  ASSUME NEW r, NEW E, RegOK(r, E), E = {} <=> r.flight = 0
  PROVE  LET t == stop_one(r, E)
         IN /\ RegOK(t, E) /\ Follows(r, t) /\ t.flight = r.flight
            /\ r.kind \in Connections \cup Dialogs \cup {"post", "save"} => Ended(t)
<1> DEFINE t == stop_one(r, E)
<1> SUFFICES /\ RegOK(t, E) /\ Follows(r, t) /\ t.flight = r.flight
             /\ r.kind \in Connections \cup Dialogs \cup {"post", "save"} => Ended(t)
  OBVIOUS
<1>1. CASE r.kind = "post" /\ Has(r, "listed")
  <2>1. t = post_cancel(r)
    BY <1>1 DEF stop_one, Connections, Dialogs
  <2> QED
    BY <1>1, <2>1, PostCancelOK
<1>2. CASE r.kind \in Dialogs /\ Has(r, "listed")
  <2>1. t = dialog_cancel(r)
    BY <1>2 DEF stop_one, Connections, Dialogs
  <2> QED
    BY <1>2, <2>1, DialogCancelOK
<1>3. CASE r.kind \in Connections /\ Has(r, "listed")
  <2>1. t = disconnect(r, E)
    BY <1>3 DEF stop_one, Dialogs, Connections
  <2> QED
    BY <1>3, <2>1, DisconnectOK
<1>4. CASE ~(r.kind \in Connections \cup Dialogs \cup {"post"} /\ Has(r, "listed"))
  <2>1. t = r
    BY <1>4 DEF stop_one, Connections, Dialogs
  <2> QED
    BY <1>4, <2>1 DEF RegOK, ConnectionOK, Ended, Follows, Connections, Dialogs
<1> QED
  BY <1>1, <1>2, <1>3, <1>4

----------------------------------------------------------------------------
(* The stack of handlers.                                                  *)

\* The frames of a stack are finitely many.
LEMMA FramesFinite ==
  ASSUME NEW s \in Seq(FrameSet), NEW id
  PROVE  /\ IsFiniteSet(FramesOf(s, id)) /\ IsFiniteSet(Handlers(s))
         /\ Cardinality(FramesOf(s, id)) \in Nat /\ Cardinality(Handlers(s)) \in Nat
         /\ Emitting(s, id) = {} <=> Cardinality(FramesOf(s, id)) = 0
<1>1. IsFiniteSet(1..Len(s)) /\ DOMAIN s = 1..Len(s)
  BY FS_Interval, LenProperties
<1>2. IsFiniteSet(FramesOf(s, id)) /\ IsFiniteSet(Handlers(s))
  BY <1>1, FS_Subset DEF FramesOf, Handlers
<1>3. Emitting(s, id) = {} <=> FramesOf(s, id) = {}
  BY DEF Emitting, FramesOf
<1> QED
  BY <1>2, <1>3, FS_CardinalityType, FS_EmptySet

\* The stack t is s with a frame of id on top.
Pushed(s, id, part, t) ==
  /\ t \in Seq(FrameSet) /\ Len(t) = Len(s) + 1 /\ t[Len(t)].id = id
  /\ \A k \in DOMAIN s : k \in DOMAIN t /\ t[k] = s[k]
  /\ \A k \in DOMAIN t : k \in DOMAIN s \/ k = Len(t)
  /\ Cardinality(FramesOf(t, id)) = Cardinality(FramesOf(s, id)) + 1
  /\ Emitting(t, id) = Emitting(s, id) \cup {part}
  /\ \A j \in Nat : j # id => /\ FramesOf(t, j) = FramesOf(s, j)
                             /\ Emitting(t, j) = Emitting(s, j)
  /\ id = 0 => Cardinality(Handlers(t)) = Cardinality(Handlers(s))
  /\ id # 0 => Cardinality(Handlers(t)) = Cardinality(Handlers(s)) + 1

\* A call adds one frame, of one registration.
LEMMA AppendFrames ==
  ASSUME NEW s \in Seq(FrameSet), NEW f \in FrameSet
  PROVE  Pushed(s, f.id, f.part, Append(s, f))
<1> DEFINE n == Len(s) + 1
           t == Append(s, f)
<1>1. /\ t \in Seq(FrameSet) /\ Len(t) = n /\ t[n] = f /\ n \in Nat
      /\ \A k \in 1..Len(s) : t[k] = s[k]
      /\ DOMAIN s = 1..Len(s) /\ DOMAIN t = 1..n
  BY AppendProperties, LenProperties
<1>2. n \notin DOMAIN s /\ DOMAIN t = DOMAIN s \cup {n}
  BY <1>1
<1>3. FramesOf(t, f.id) = FramesOf(s, f.id) \cup {n} /\ n \notin FramesOf(s, f.id)
  BY <1>1, <1>2 DEF FramesOf
<1>4. Emitting(t, f.id) = Emitting(s, f.id) \cup {f.part}
  BY <1>1, <1>2 DEF Emitting
<1>5. \A id : id # f.id => FramesOf(t, id) = FramesOf(s, id) /\ Emitting(t, id) = Emitting(s, id)
  BY <1>1, <1>2 DEF FramesOf, Emitting
<1>6. /\ f.id # 0 => Handlers(t) = Handlers(s) \cup {n} /\ n \notin Handlers(s)
      /\ f.id = 0 => Handlers(t) = Handlers(s)
  BY <1>1, <1>2 DEF Handlers
<1>7. Cardinality(FramesOf(t, f.id)) = Cardinality(FramesOf(s, f.id)) + 1
  BY <1>3, FramesFinite, FS_AddElement
<1>8. f.id # 0 => Cardinality(Handlers(t)) = Cardinality(Handlers(s)) + 1
  BY <1>6, FramesFinite, FS_AddElement
<1> QED
  BY <1>1, <1>2, <1>4, <1>5, <1>6, <1>7, <1>8 DEF Pushed

\* A return takes the frame on top.
LEMMA PopFrames ==
  ASSUME NEW s \in Seq(FrameSet), s # <<>>
  PROVE  LET p == SubSeq(s, 1, Len(s) - 1)
         IN p \in Seq(FrameSet) /\ s[Len(s)] \in FrameSet /\ s = Append(p, s[Len(s)])
<1> DEFINE p == SubSeq(s, 1, Len(s) - 1)
<1>1. Len(s) \in Nat /\ Len(s) > 0 /\ DOMAIN s = 1..Len(s) /\ s[Len(s)] \in FrameSet
  BY LenProperties, EmptySeq, ElementOfSeq
<1>2. /\ p \in Seq(FrameSet) /\ Len(p) = Len(s) - 1
      /\ \A i \in 1..Len(s) - 1 : p[i] = s[i]
  <2> DEFINE m == Len(s) - 1
  <2>1. m \in 0..Len(s)
    BY <1>1
  <2> HIDE DEF m
  <2>2. SubSeq(s, 1, m) \in Seq(FrameSet) /\ Len(SubSeq(s, 1, m)) = m
    BY <2>1, SubSeqProperties
  <2>3. \A i \in 1..m : SubSeq(s, 1, m)[i] = s[i]
    BY <2>1, SubSeqProperties
  <2> QED
    BY <2>2, <2>3 DEF m
<1> HIDE DEF p
<1>3. /\ Append(p, s[Len(s)]) \in Seq(FrameSet) /\ Len(Append(p, s[Len(s)])) = Len(s)
      /\ \A i \in 1..Len(p) : Append(p, s[Len(s)])[i] = p[i]
      /\ Append(p, s[Len(s)])[Len(s)] = s[Len(s)]
  <2>1. Len(p) + 1 = Len(s)
    BY <1>1, <1>2
  <2> DEFINE e == s[Len(s)]
  <2>2. e \in FrameSet /\ p \in Seq(FrameSet)
    BY <1>1, <1>2
  <2> HIDE DEF e
  <2>3. /\ Append(p, e) \in Seq(FrameSet) /\ Len(Append(p, e)) = Len(p) + 1
        /\ \A i \in 1..Len(p) : Append(p, e)[i] = p[i]
        /\ Append(p, e)[Len(p) + 1] = e
    BY <2>2, AppendProperties
  <2> QED
    BY <2>1, <2>3 DEF e
<1>4. \A i \in 1..Len(s) : Append(p, s[Len(s)])[i] = s[i]
  BY <1>1, <1>2, <1>3
<1>5. s = Append(p, s[Len(s)])
  BY <1>3, <1>4, SeqEqual
<1> QED
  BY <1>1, <1>2, <1>5 DEF p

----------------------------------------------------------------------------
(* Steps of the binding.                                                   *)

\* What Follows says of the state of others.
Later(r, t) == /\ t.kind = r.kind /\ t.owner = r.owner /\ (Ended(r) => Ended(t))
               /\ (Has(t, "listed") => Has(r, "listed"))

\* The indices of a sequence.
LEMMA Indices ==
  ASSUME Types
  PROVE  /\ Ids = 1..Len(reg) /\ Len(reg) \in Nat
         /\ \A id \in Ids : reg[id] \in Registration
         /\ Widgets = 1..Len(widgets) /\ Len(widgets) \in Nat
         /\ \A w \in Widgets : widgets[w] \in WidgetSet
         /\ DOMAIN stack = 1..Len(stack) /\ Len(stack) \in Nat
         /\ \A k \in DOMAIN stack : stack[k] \in FrameSet
  BY LenProperties, ElementOfSeq DEF Types, Ids, Widgets

\* Neither registrations that go on ending nor widgets that go disturb a page.
LEMMA BusyKept ==
  ASSUME IInv, Ids' = Ids, Len(reg') = Len(reg), Widgets' = Widgets,
         \A id \in Ids : reg'[id].owner = reg[id].owner /\ (Ended(reg[id]) => Ended(reg'[id])),
         \A w \in Widgets : /\ widgets'[w].state # "twice" /\ widgets'[w].busy = widgets[w].busy
                            /\ widgets'[w].page = widgets[w].page
                            /\ widgets'[w].since = widgets[w].since
                            /\ widgets'[w].parent \in {0, widgets[w].parent}
  PROVE  BusyInv'
<1>1. \A w \in Widgets :
        /\ widgets[w].busy # "reentered" /\ widgets[w].since <= Len(reg)
        /\ widgets[w].busy # "no" => widgets[w].parent = 0 /\ widgets[w].page \in Widgets
        /\ widgets[w].busy = "dispose" =>
             \A id \in Ids : reg[id].owner = w /\ id <= widgets[w].since => Ended(reg[id])
  BY DEF IInv, BusyInv
<1> SUFFICES ASSUME NEW w \in Widgets
             PROVE  /\ widgets'[w].state # "twice" /\ widgets'[w].busy # "reentered"
                    /\ widgets'[w].busy # "no" => widgets'[w].parent = 0 /\ widgets'[w].page \in Widgets
                    /\ widgets'[w].since <= Len(reg)
                    /\ widgets'[w].busy = "dispose" =>
                         \A id \in Ids : reg'[id].owner = w /\ id <= widgets'[w].since => Ended(reg'[id])
  BY DEF BusyInv
<1> QED
  BY <1>1

\* The steps that change registrations and frames, but neither widgets nor the
\* state of the application.
LEMMA RegsStep ==
  ASSUME IInv, UNCHANGED <<appVars, widgets>>,
         disk' \in FileSet, DiskInv', stack' \in Seq(FrameSet), StackInv',
         reg' \in Seq(Registration), Len(reg') = Len(reg),
         \A id \in Ids : /\ RegOK(reg'[id], Emitting(stack', id))
                         /\ reg'[id].flight = Cardinality(FramesOf(stack', id))
                         /\ Later(reg[id], reg'[id]),
         WaitsIn(stack) /\ Saving => WaitsIn(stack')
  PROVE  IInv'
<1>1. /\ Ids' = Ids /\ Ids = 1..Len(reg)
  BY LenProperties, Indices DEF IInv, Types, Ids
<1>2. Types'
  BY DEF IInv, Types, appVars
<1>3. RegInv'
  BY <1>1 DEF RegInv
<1>4. OwnerInv'
  BY <1>1 DEF IInv, OwnerInv, Later, appVars
<1>5. Saving' => Saving
  BY <1>1 DEF Saving, Later
<1>6. StopInv'
  <2>1. stopped' = stopped /\ widgets' = widgets
    BY DEF appVars
  <2>2. stopped => (\A w \in Widgets : widgets[w].state = "disposed") /\ (Saving => WaitsIn(stack))
    BY DEF IInv, StopInv
  <2> QED
    BY <1>5, <2>1, <2>2 DEF StopInv, Widgets
<1>7. ForestInv'
  BY SMTT(40) DEF IInv, ForestInv, Widgets, Under
<1>8. BusyInv'
  <2>1. \A id \in Ids : reg'[id].owner = reg[id].owner /\ (Ended(reg[id]) => Ended(reg'[id]))
    BY DEF Later
  <2>2. \A w \in Widgets : widgets[w].state # "twice"
    BY DEF IInv, BusyInv
  <2>3. widgets' = widgets /\ Widgets' = Widgets
    BY DEF Widgets
  <2> QED
    BY <1>1, <2>1, <2>2, <2>3, BusyKept
<1> QED
  BY <1>2, <1>3, <1>4, <1>6, <1>7, <1>8 DEF IInv

\* The file keeps what a save has seen of it, or has a new ETag.
LEMMA DiskStep ==
  ASSUME IInv, NEW id \in Ids, NEW t \in Registration, reg' = [reg EXCEPT ![id] = t],
         Follows(reg[id], t), disk' \in FileSet, disk' = disk \/ disk'.etag = disk.etag + 1
  PROVE  DiskInv'
<1>1. Ids' = Ids
  BY DEF Ids
<1>2. /\ disk \in FileSet /\ disk.etag \in Nat /\ disk'.etag \in Nat
      /\ \A j \in Ids : reg[j].etag \in Nat
  BY Indices DEF IInv, Types, FileSet, Registration
<1> SUFFICES ASSUME NEW j \in Ids, Has(reg'[j], "write")
             PROVE  /\ reg'[j].etag <= disk'.etag
                    /\ reg'[j].etag = disk'.etag => disk'.content = reg'[j].expected
  BY <1>1 DEF DiskInv, WriteOK
<1>3. Has(reg[j], "write") /\ reg'[j].etag = reg[j].etag /\ reg'[j].expected = reg[j].expected
  BY DEF Follows, Ids
<1>4. reg[j].etag <= disk.etag /\ (reg[j].etag = disk.etag => disk.content = reg[j].expected)
  BY <1>3 DEF IInv, DiskInv, WriteOK
<1> QED
  BY <1>2, <1>3, <1>4

\* One registration changes, and neither its frames nor others.
LEMMA BecomesStep ==
  ASSUME IInv, NEW id \in Ids, NEW t, reg' = [reg EXCEPT ![id] = t],
         RegOK(t, Emitting(stack, id)), Later(reg[id], t), t.flight = reg[id].flight,
         UNCHANGED <<appVars, widgets, stack>>, disk' \in FileSet, DiskInv'
  PROVE  IInv'
<1>1. t \in Registration /\ reg \in Seq(Registration)
  BY DEF RegOK, IInv, Types
<1>2. reg' \in Seq(Registration) /\ Len(reg') = Len(reg)
  BY <1>1, ExceptSeq DEF Ids
<1>3. StackInv'
  BY <1>2 DEF IInv, StackInv, appVars
<1>4. \A j \in Ids : /\ RegOK(reg'[j], Emitting(stack', j))
                     /\ reg'[j].flight = Cardinality(FramesOf(stack', j))
                     /\ Later(reg[j], reg'[j])
  BY DEF IInv, RegInv, Ids, Later
<1>5. stack' \in Seq(FrameSet)
  BY DEF IInv, Types
<1> QED
  BY <1>2, <1>3, <1>4, <1>5, RegsStep

\* The handler of a registration is called.
LEMMA CallsStep ==
  ASSUME IInv, NEW id \in Ids, NEW t, reg' = [reg EXCEPT ![id] = t],
         NEW part \in Int, stack' = Append(stack, Frame(id, part)), ~Deep,
         RegOK(t, Emitting(stack, id) \cup {part}), Later(reg[id], t),
         t.flight = reg[id].flight + 1,
         UNCHANGED <<appVars, widgets>>, disk' \in FileSet, DiskInv'
  PROVE  IInv'
<1>1. t \in Registration /\ reg \in Seq(Registration) /\ id \in Nat /\ id # 0 /\ id <= Len(reg)
  BY Indices DEF RegOK, IInv, Types
<1>2. reg' \in Seq(Registration) /\ Len(reg') = Len(reg)
  BY <1>1, ExceptSeq DEF Ids
<1>3. /\ stack \in Seq(FrameSet) /\ Frame(id, part) \in FrameSet
      /\ Frame(id, part).id = id /\ Frame(id, part).part = part
  BY <1>1 DEF IInv, Types, FrameSet, Frame
<1>p. Pushed(stack, id, part, stack')
  BY <1>3, AppendFrames
<1>4. /\ stack' \in Seq(FrameSet) /\ Len(stack') = Len(stack) + 1
      /\ stack'[Len(stack')].id = id
      /\ \A k \in DOMAIN stack : k \in DOMAIN stack' /\ stack'[k] = stack[k]
      /\ \A k \in DOMAIN stack' : k \in DOMAIN stack \/ k = Len(stack')
      /\ Cardinality(FramesOf(stack', id)) = Cardinality(FramesOf(stack, id)) + 1
      /\ Emitting(stack', id) = Emitting(stack, id) \cup {part}
      /\ \A j \in Ids : j # id => /\ FramesOf(stack', j) = FramesOf(stack, j)
                                 /\ Emitting(stack', j) = Emitting(stack, j)
      /\ Cardinality(Handlers(stack')) = Cardinality(Handlers(stack)) + 1
  BY <1>1, <1>p, Indices DEF Pushed, IInv
<1>5. Cardinality(Handlers(stack')) <= MaxDepth
  <2>1. Cardinality(Handlers(stack)) \in Nat /\ MaxDepth \in Nat
    BY <1>3, FramesFinite, GtkAssumption
  <2>2. Cardinality(Handlers(stack)) < MaxDepth
    BY <2>1 DEF Deep, Handlers
  <2> QED
    BY <1>4, <2>1, <2>2
<1>6. StackInv'
  BY <1>1, <1>2, <1>4, <1>5 DEF IInv, StackInv, appVars
<1>7. \A j \in Ids : /\ RegOK(reg'[j], Emitting(stack', j))
                     /\ reg'[j].flight = Cardinality(FramesOf(stack', j))
                     /\ Later(reg[j], reg'[j])
  <2> TAKE j \in Ids
  <2>1. CASE j = id
    BY <1>4, <2>1 DEF IInv, RegInv, Ids
  <2>2. CASE j # id
    BY <1>4, <2>2 DEF IInv, RegInv, Ids, Later
  <2> QED
    BY <2>1, <2>2
<1>8. WaitsIn(stack) => WaitsIn(stack')
  BY <1>4 DEF WaitsIn
<1> QED
  BY <1>2, <1>4, <1>6, <1>7, <1>8, RegsStep

\* A handler returns, and may be called again by the code that called it.
LEMMA ReturnsStep ==
  ASSUME IInv, InHandler, NEW t, reg' = [reg EXCEPT ![Top.id] = t],
         \/ stack' = Popped /\ t.flight = reg[Top.id].flight - 1
            /\ RegOK(t, Emitting(Popped, Top.id))
         \/ \E part \in Int : /\ stack' = Append(Popped, Frame(Top.id, part))
                              /\ t.flight = reg[Top.id].flight
                              /\ RegOK(t, Emitting(Popped, Top.id) \cup {part}),
         Later(reg[Top.id], t),
         UNCHANGED <<appVars, widgets>>, disk' \in FileSet, DiskInv'
  PROVE  IInv'
<1> DEFINE id == Top.id
<1>1. /\ stack \in Seq(FrameSet) /\ stack # <<>> /\ Popped \in Seq(FrameSet) /\ Top \in FrameSet
      /\ stack = Append(Popped, Top) /\ id # 0
  BY PopFrames DEF IInv, Types, InHandler, Popped, Top
<1>p. Pushed(Popped, id, Top.part, stack)
  BY <1>1, AppendFrames
<1>2. /\ Len(stack) = Len(Popped) + 1 /\ stack[Len(stack)] = Top
      /\ \A k \in DOMAIN Popped : k \in DOMAIN stack /\ stack[k] = Popped[k]
      /\ \A k \in DOMAIN stack : k \in DOMAIN Popped \/ k = Len(stack)
      /\ Cardinality(FramesOf(stack, id)) = Cardinality(FramesOf(Popped, id)) + 1
      /\ \A j \in Ids : j # id => /\ FramesOf(stack, j) = FramesOf(Popped, j)
                                 /\ Emitting(stack, j) = Emitting(Popped, j)
      /\ Cardinality(Handlers(stack)) = Cardinality(Handlers(Popped)) + 1
  BY <1>1, <1>p, Indices DEF Pushed, Top, IInv
<1>3. /\ DOMAIN stack = 1..Len(stack) /\ Len(stack) \in Nat /\ Len(stack) > 0
      /\ DOMAIN Popped = 1..Len(Popped) /\ Len(Popped) \in Nat
  BY <1>1, <1>2, LenProperties, EmptySeq
<1>4. id \in Ids /\ id \in Nat
  <2>1. id \in Nat /\ id # 0
    BY <1>1 DEF FrameSet, InHandler
  <2>2. Len(stack) \in DOMAIN stack /\ id = stack[Len(stack)].id
    BY <1>3 DEF Top
  <2>3. id <= Len(reg)
    BY <2>2 DEF IInv, StackInv
  <2> HIDE DEF id
  <2> QED
    BY <2>1, <2>3, Indices DEF IInv
<1>5. t \in Registration /\ reg \in Seq(Registration)
  BY DEF RegOK, IInv, Types
<1>6. reg' \in Seq(Registration) /\ Len(reg') = Len(reg)
  BY <1>4, <1>5, ExceptSeq DEF Ids
<1>7. \A k \in DOMAIN stack : stack[k].id = 0 => k \in DOMAIN Popped /\ Popped[k] = stack[k]
  BY <1>1, <1>2
<1>8. /\ Cardinality(Handlers(Popped)) \in Nat /\ Cardinality(FramesOf(Popped, id)) \in Nat
      /\ MaxDepth \in Nat /\ Cardinality(Handlers(stack)) <= MaxDepth
      /\ reg[id].flight = Cardinality(FramesOf(stack, id))
  BY <1>1, <1>4, FramesFinite, GtkAssumption DEF IInv, StackInv, RegInv
<1>9. CASE stack' = Popped /\ t.flight = reg[id].flight - 1 /\ RegOK(t, Emitting(Popped, id))
  <2>1. StackInv'
    BY <1>2, <1>6, <1>8, <1>9 DEF IInv, StackInv, appVars
  <2>2. \A j \in Ids : /\ RegOK(reg'[j], Emitting(stack', j))
                       /\ reg'[j].flight = Cardinality(FramesOf(stack', j))
                       /\ Later(reg[j], reg'[j])
    <3> TAKE j \in Ids
    <3>1. CASE j = id
      BY <1>2, <1>8, <1>9, <3>1 DEF Ids
    <3>2. CASE j # id
      BY <1>2, <1>9, <3>2 DEF IInv, RegInv, Ids, Later
    <3> QED
      BY <3>1, <3>2
  <2> QED
    BY <1>1, <1>6, <1>7, <1>9, <2>1, <2>2, RegsStep DEF WaitsIn
<1>10. ASSUME NEW part \in Int, stack' = Append(Popped, Frame(id, part)),
              t.flight = reg[id].flight, RegOK(t, Emitting(Popped, id) \cup {part})
       PROVE  IInv'
  <2>1. Frame(id, part) \in FrameSet /\ Frame(id, part).id = id /\ Frame(id, part).part = part
    BY <1>4 DEF FrameSet, Frame
  <2>p. Pushed(Popped, id, part, stack')
    BY <1>1, <1>10, <2>1, AppendFrames
  <2>2. /\ stack' \in Seq(FrameSet) /\ Len(stack') = Len(Popped) + 1
        /\ stack'[Len(stack')].id = id
        /\ \A k \in DOMAIN Popped : k \in DOMAIN stack' /\ stack'[k] = Popped[k]
        /\ \A k \in DOMAIN stack' : k \in DOMAIN Popped \/ k = Len(stack')
        /\ Cardinality(FramesOf(stack', id)) = Cardinality(FramesOf(Popped, id)) + 1
        /\ Emitting(stack', id) = Emitting(Popped, id) \cup {part}
        /\ \A j \in Ids : j # id => /\ FramesOf(stack', j) = FramesOf(Popped, j)
                                   /\ Emitting(stack', j) = Emitting(Popped, j)
        /\ Cardinality(Handlers(stack')) = Cardinality(Handlers(Popped)) + 1
    BY <1>1, <2>p, Indices DEF Pushed, IInv
  <2>3. /\ \A k \in DOMAIN stack' : stack'[k].id <= Len(reg)
        /\ \A k \in DOMAIN stack' : stack'[k].id = 0 => k \in DOMAIN stack /\ stack[k] = stack'[k]
    <3>1. id <= Len(reg) /\ id # 0
      BY <1>1, <1>4, Indices DEF IInv
    <3>2. \A k \in DOMAIN stack : stack[k].id <= Len(reg)
      BY DEF IInv, StackInv
    <3>3. ASSUME NEW k \in DOMAIN stack'
          PROVE  /\ stack'[k].id <= Len(reg)
                 /\ stack'[k].id = 0 => k \in DOMAIN stack /\ stack[k] = stack'[k]
      <4>1. CASE k \in DOMAIN Popped
        BY <1>2, <2>2, <3>2, <4>1
      <4>2. CASE k = Len(stack')
        BY <2>2, <3>1, <4>2
      <4> QED
        BY <2>2, <4>1, <4>2
    <3> QED
      BY <3>3
  <2>4. StackInv'
    BY <1>2, <1>6, <1>8, <2>2, <2>3 DEF IInv, StackInv, appVars
  <2>5. \A j \in Ids : /\ RegOK(reg'[j], Emitting(stack', j))
                       /\ reg'[j].flight = Cardinality(FramesOf(stack', j))
                       /\ Later(reg[j], reg'[j])
    <3> TAKE j \in Ids
    <3>1. CASE j = id
      BY <1>2, <1>8, <1>10, <2>2, <3>1 DEF Ids
    <3>2. CASE j # id
      BY <1>2, <2>2, <3>2 DEF IInv, RegInv, Ids, Later
    <3> QED
      BY <3>1, <3>2
  <2>6. WaitsIn(stack) => WaitsIn(stack')
    BY <1>7, <2>2 DEF WaitsIn
  <2> QED
    BY <1>6, <2>2, <2>4, <2>5, <2>6, RegsStep
<1> QED
  BY <1>9, <1>10

\* No callback begins that NoLateCallback forbids.
NoLate ==
  \A id \in Ids :
    reg'[id].flight > reg[id].flight =>
      ~stopped /\ reg[id].flags \cap {"closed", "cancelled", "freed", "release"} = {}

\* What the invariant says of one registration.
LEMMA RegFacts ==
  ASSUME Types, RegInv, NEW id \in Ids
  PROVE  /\ RegOK(reg[id], Emitting(stack, id)) /\ reg[id] \in Registration
         /\ reg[id].flight \in Nat /\ id \in Nat /\ id # 0
         /\ Emitting(stack, id) = {} <=> reg[id].flight = 0
<1>1. /\ reg[id] \in Registration /\ id \in Nat /\ id # 0 /\ stack \in Seq(FrameSet)
  BY Indices DEF Types
<1>2. RegOK(reg[id], Emitting(stack, id)) /\ reg[id].flight = Cardinality(FramesOf(stack, id))
  BY DEF RegInv
<1>3. Emitting(stack, id) = {} <=> Cardinality(FramesOf(stack, id)) = 0
  BY <1>1, FramesFinite
<1> QED
  BY <1>1, <1>2, <1>3 DEF Registration
\* The same with what the end of the application does to it.
LEMMA OneReg ==
  ASSUME IInv, NEW id \in Ids
  PROVE  /\ RegOK(reg[id], Emitting(stack, id)) /\ reg[id] \in Registration
         /\ reg[id].flight \in Nat /\ id \in Nat /\ id # 0
         /\ Emitting(stack, id) = {} <=> reg[id].flight = 0
         /\ stopped => Ended(reg[id])
<1>1. stopped => Ended(reg[id])
  BY DEF IInv, OwnerInv
<1> QED
  BY <1>1, RegFacts DEF IInv

\* A registration changes and no handler is called.
LEMMA BecomesInv ==
  ASSUME IInv, NEW id \in Ids, NEW t, reg' = [reg EXCEPT ![id] = t],
         UNCHANGED <<appVars, widgets, stack>>,
         RegOK(t, Emitting(stack, id)), Follows(reg[id], t), t.flight = reg[id].flight,
         disk' \in FileSet, disk' = disk \/ disk'.etag = disk.etag + 1
  PROVE  IInv' /\ NoLate
<1>1. t \in Registration /\ Later(reg[id], t)
  BY DEF RegOK, Follows, Later
<1>2. DiskInv'
  BY <1>1, DiskStep
<1>3. IInv'
  BY <1>1, <1>2, BecomesStep
<1>4. \A j \in Ids : reg'[j].flight = reg[j].flight /\ reg[j].flight \in Nat
  BY OneReg DEF Ids
<1>5. NoLate
  BY <1>4 DEF NoLate
<1> QED
  BY <1>3, <1>5

\* A handler is called.
LEMMA CallsInv ==
  ASSUME IInv, NEW id \in Ids, NEW r, NEW part \in Int, Calls(id, r, part), ~Deep,
         LET t == invoke(r)
         IN /\ RegOK(t, Emitting(stack, id) \cup {part}) /\ Follows(reg[id], t)
            /\ t.flight = reg[id].flight + 1,
         disk' \in FileSet, disk' = disk \/ disk'.etag = disk.etag + 1,
         ~stopped, reg[id].flags \cap {"closed", "cancelled", "freed", "release"} = {}
  PROVE  IInv' /\ NoLate
<1> DEFINE t == invoke(r)
<1>0. /\ RegOK(t, Emitting(stack, id) \cup {part}) /\ Follows(reg[id], t)
      /\ t.flight = reg[id].flight + 1
  OBVIOUS
<1>c. /\ reg' = [reg EXCEPT ![id] = t] /\ stack' = Append(stack, Frame(id, part))
      /\ UNCHANGED <<appVars, widgets>>
  BY DEF Calls
<1> HIDE DEF t
<1>1. t \in Registration /\ Later(reg[id], t)
  BY <1>0 DEF RegOK, Follows, Later
<1>2. DiskInv'
  BY <1>0, <1>1, <1>c, DiskStep
<1>3. IInv'
  BY <1>0, <1>1, <1>2, <1>c, CallsStep
<1>4. \A j \in Ids : j # id => reg'[j].flight = reg[j].flight /\ reg[j].flight \in Nat
  BY <1>c, OneReg DEF Ids
<1>5. NoLate
  BY <1>4 DEF NoLate
<1> QED
  BY <1>3, <1>5

\* The file that an unchanged disk holds.
LEMMA SameDisk ==
  ASSUME IInv, UNCHANGED disk
  PROVE  disk' \in FileSet /\ disk' = disk
  BY DEF IInv, Types

\* emit.
LEMMA EmitStep == ASSUME IInv, emit PROVE IInv' /\ NoLate
<1>1. ~Deep /\ UNCHANGED disk
  BY DEF emit
<1>2. PICK id \in Ids : \E c \in reg[id].closures :
        /\ reg[id].kind \in Connections /\ ~Has(reg[id], "closed")
        /\ Calls(id, signal_enter(reg[id]), c)
  BY DEF emit
<1>3. PICK c \in reg[id].closures :
        /\ reg[id].kind \in Connections /\ ~Has(reg[id], "closed")
        /\ Calls(id, signal_enter(reg[id]), c)
  BY <1>2
<1>4. c \in Int
  BY OneReg DEF Registration
<1>5. LET t == invoke(signal_enter(reg[id]))
      IN /\ RegOK(t, Emitting(stack, id) \cup {c}) /\ Follows(reg[id], t)
         /\ t.flight = reg[id].flight + 1
  BY <1>3, OneReg, EmitOK
<1>6. ~stopped
  BY <1>3, OneReg DEF Ended
<1>7. reg[id].flags \cap {"closed", "cancelled", "freed", "release"} = {}
  BY <1>3, OneReg DEF RegOK, ConnectionOK, OwnFlags, Has, Connections, Dialogs
<1> QED
  BY <1>1, <1>3, <1>4, <1>5, <1>6, <1>7, SameDisk, CallsInv

\* dispatch.
LEMMA DispatchStep == ASSUME IInv, dispatch PROVE IInv' /\ NoLate
<1>1. ~Deep /\ UNCHANGED disk
  BY DEF dispatch
<1>2. PICK id \in Ids : /\ reg[id].kind = "post" /\ Has(reg[id], "listed")
                        /\ Calls(id, Freed([reg[id] EXCEPT !.ctx = "live"]), 0)
  BY DEF dispatch
<1>5. LET t == invoke(Freed([reg[id] EXCEPT !.ctx = "live"]))
      IN /\ RegOK(t, Emitting(stack, id) \cup {0}) /\ Follows(reg[id], t)
         /\ t.flight = reg[id].flight + 1
  BY <1>2, OneReg, DispatchOK
<1>6. ~stopped
  BY <1>2, OneReg DEF Ended
<1>7. reg[id].flags \cap {"closed", "cancelled", "freed", "release"} = {}
  BY <1>2, OneReg DEF RegOK, PostOK, OwnFlags, Has, Connections, Dialogs
<1> QED
  BY <1>1, <1>2, <1>5, <1>6, <1>7, SameDisk, CallsInv

\* file_dialog_completed.
LEMMA ChooserAnswersStep == ASSUME IInv, chooser_answers PROVE IInv' /\ NoLate
<1>1. PICK id \in Ids, n \in 0..MaxBatches :
        Has(reg[id], "request") /\ Becomes(id, file_dialog_completed(reg[id], n))
  BY DEF chooser_answers
<1>2. n \in Nat
  BY GtkAssumption
<1> DEFINE t == file_dialog_completed(reg[id], n)
<1>3. RegOK(t, Emitting(stack, id)) /\ Follows(reg[id], t) /\ t.flight = reg[id].flight
  BY <1>1, <1>2, OneReg, AnswerOK
<1>4. reg' = [reg EXCEPT ![id] = t] /\ UNCHANGED <<appVars, widgets, stack, disk>>
  BY <1>1 DEF Becomes
<1> HIDE DEF t
<1> QED
  BY <1>3, <1>4, SameDisk, BecomesInv

\* dialog_complete.
LEMMA ChooserResultStep == ASSUME IInv, chooser_result PROVE IInv' /\ NoLate
<1>1. ~Deep /\ UNCHANGED disk
  BY DEF chooser_result
<1>2. PICK id \in Ids : /\ Has(reg[id], "completion") /\ ~Has(reg[id], "freed")
                        /\ Calls(id, dialog_finish(reg[id]), Paths(reg[id]))
  BY DEF chooser_result
<1>3. Paths(reg[id]) \in Int
  BY OneReg DEF Paths, Registration
<1>5. LET t == invoke(dialog_finish(reg[id]))
      IN /\ RegOK(t, Emitting(stack, id) \cup {Paths(reg[id])}) /\ Follows(reg[id], t)
         /\ t.flight = reg[id].flight + 1
  BY <1>2, OneReg, ResultOK
<1>6. ~stopped
  BY <1>2, OneReg DEF Ended, RegOK, OwnFlags, DialogOK
<1>7. reg[id].flags \cap {"closed", "cancelled", "freed", "release"} = {}
  BY <1>2, OneReg DEF RegOK, DialogOK, OwnFlags, Has, Connections, Dialogs
<1> QED
  BY <1>1, <1>2, <1>3, <1>5, <1>6, <1>7, SameDisk, CallsInv

\* shortcut_invoke.
LEMMA ShortcutStep == ASSUME IInv, shortcut PROVE IInv' /\ NoLate
<1>1. ~Deep /\ UNCHANGED disk
  BY DEF shortcut
<1>2. PICK id \in Ids :
        /\ reg[id].kind = "shortcut" /\ Has(reg[id], "native") /\ bound(reg[id])
        /\ Calls(id, shortcut_enter(reg[id]), 0)
  BY DEF shortcut
<1>5. LET t == invoke(shortcut_enter(reg[id]))
      IN /\ RegOK(t, Emitting(stack, id) \cup {0}) /\ Follows(reg[id], t)
         /\ t.flight = reg[id].flight + 1
  BY <1>2, OneReg, ShortcutEnterOK
<1>6. ~stopped
  BY <1>2, OneReg DEF Ended, RegOK, ShortcutOK, bound
<1>7. reg[id].flags \cap {"closed", "cancelled", "freed", "release"} = {}
  BY <1>2, OneReg DEF RegOK, ShortcutOK, OwnFlags, Has, bound, Connections, Dialogs
<1> QED
  BY <1>1, <1>2, <1>5, <1>6, <1>7, SameDisk, CallsInv

\* tree_invoke.
LEMMA TreeEventStep == ASSUME IInv, tree_event PROVE IInv' /\ NoLate
<1>1. ~Deep /\ UNCHANGED disk
  BY DEF tree_event
<1>2. PICK id \in Ids :
        /\ reg[id].kind = "tree" /\ Has(reg[id], "native") /\ ~Has(reg[id], "closed")
        /\ Calls(id, tree_enter(reg[id]), 0)
  BY DEF tree_event
<1>5. LET t == invoke(tree_enter(reg[id]))
      IN /\ RegOK(t, Emitting(stack, id) \cup {0}) /\ Follows(reg[id], t)
         /\ t.flight = reg[id].flight + 1
  BY <1>2, OneReg, TreeEnterOK
<1>6. ~stopped
  BY <1>2, OneReg DEF Ended
<1>7. reg[id].flags \cap {"closed", "cancelled", "freed", "release"} = {}
  BY <1>2, OneReg DEF RegOK, TreeOK, OwnFlags, Has, Connections, Dialogs
<1> QED
  BY <1>1, <1>2, <1>5, <1>6, <1>7, SameDisk, CallsInv

\* shortcut_context_dispose and tree_unref, by GTK.
LEMMA WidgetFinalizedStep == ASSUME IInv, widget_finalized PROVE IInv' /\ NoLate
<1>1. PICK id \in Ids :
        /\ Has(reg[id], "native") /\ ~Live(reg[id].owner)
        /\ Becomes(id, IF reg[id].kind = "shortcut" THEN shortcut_context_dispose(reg[id])
                       ELSE tree_unref(Clear(reg[id], {"native"})))
  BY DEF widget_finalized
<1> DEFINE t == IF reg[id].kind = "shortcut" THEN shortcut_context_dispose(reg[id])
                ELSE tree_unref(Clear(reg[id], {"native"}))
<1>2. CASE reg[id].kind = "shortcut"
  <2>1. RegOK(t, Emitting(stack, id)) /\ Follows(reg[id], t) /\ t.flight = reg[id].flight
    BY <1>1, <1>2, OneReg, ShortcutDisposeOK
  <2>2. reg' = [reg EXCEPT ![id] = t] /\ UNCHANGED <<appVars, widgets, stack, disk>>
    BY <1>1 DEF Becomes
  <2> HIDE DEF t
  <2> QED
    BY <2>1, <2>2, SameDisk, BecomesInv
<1>3. CASE reg[id].kind # "shortcut"
  <2>1. reg[id].kind = "tree"
    BY <1>1, <1>3, OneReg DEF RegOK, OwnFlags
  <2>2. reg[id].owner \in Widgets /\ reg[id].owner # 0
    <3>1. reg[id].owner # 0 /\ reg[id].owner <= Len(widgets) /\ reg[id].owner \in Nat
      BY <2>1, OneReg DEF IInv, OwnerInv, Registration
    <3> QED
      BY <3>1, Indices DEF IInv
  <2>3. widgets[reg[id].owner].state = "disposed"
    <3>1. widgets[reg[id].owner] \in WidgetSet /\ widgets[reg[id].owner].state # "twice"
      BY <2>2, Indices DEF IInv, BusyInv
    <3> QED
      BY <1>1, <3>1 DEF Live, WidgetSet
  <2>4. Has(reg[id], "closed")
    BY <2>1, <2>2, <2>3 DEF IInv, OwnerInv, Ended
  <2>5. RegOK(t, Emitting(stack, id)) /\ Follows(reg[id], t) /\ t.flight = reg[id].flight
    BY <1>1, <1>3, <2>1, <2>4, OneReg, TreeDropOK
  <2>6. reg' = [reg EXCEPT ![id] = t] /\ UNCHANGED <<appVars, widgets, stack, disk>>
    BY <1>1 DEF Becomes
  <2> HIDE DEF t
  <2> QED
    BY <2>5, <2>6, SameDisk, BecomesInv
<1> QED
  BY <1>2, <1>3

\* The worker of a scan ends.
LEMMA DirectoryWorkerStep == ASSUME IInv, directory_worker PROVE IInv' /\ NoLate
<1>1. PICK id \in Ids, n \in 0..MaxBatches :
        /\ Has(reg[id], "worker")
        /\ Becomes(id, directory_unref([Mark(reg[id], {"done"}) EXCEPT !.left = n], "worker"))
  BY DEF directory_worker
<1>2. n \in Nat
  BY GtkAssumption
<1> DEFINE t == directory_unref([Mark(reg[id], {"done"}) EXCEPT !.left = n], "worker")
<1>3. RegOK(t, Emitting(stack, id)) /\ Follows(reg[id], t) /\ t.flight = reg[id].flight
  BY <1>1, <1>2, OneReg, WorkerOK
<1>4. reg' = [reg EXCEPT ![id] = t] /\ UNCHANGED <<appVars, widgets, stack, disk>>
  BY <1>1 DEF Becomes
<1> HIDE DEF t
<1> QED
  BY <1>3, <1>4, SameDisk, BecomesInv

\* directory_dispatch: an open scan is told from the loop of the application
\* alone, where no handler runs.
LEMMA ScanTickStep == ASSUME IInv, scan_tick PROVE IInv' /\ NoLate
<1>1. ~Deep /\ UNCHANGED disk /\ InLoop
  BY DEF scan_tick
<1>2. PICK id \in Ids :
       /\ reg[id].kind = "scan" /\ Has(reg[id], "listed") /\ Has(reg[id], "done")
       /\ Calls(id, directory_dispatch(reg[id]), IF reg[id].left > 0 THEN 1 ELSE 2)
  BY DEF scan_tick
<1>3. ~stopped
  BY <1>2, OneReg DEF Ended
<1>4. reg[id].flight = 0
  <2>1. ~Draining
    <3>1. SUFFICES ASSUME stack # <<>>, stack[Len(stack)].id = 0, stack[Len(stack)].part = 0
                   PROVE  FALSE
      BY DEF Draining, Top, Frame
    <3>2. Len(stack) \in DOMAIN stack
      BY <3>1, Indices, EmptySeq DEF IInv, Types
    <3> QED
      BY <1>3, <3>1, <3>2 DEF IInv, StackInv
  <2>2. stack = <<>>
    BY <1>1, <2>1 DEF InLoop
  <2>3. Emitting(stack, id) = {}
    BY <2>2 DEF Emitting
  <2> QED
    BY <2>3, OneReg
<1> DEFINE part == IF reg[id].left > 0 THEN 1 ELSE 2
<1>5. part \in Int
  OBVIOUS
<1>6. LET t == invoke(directory_dispatch(reg[id]))
      IN /\ RegOK(t, Emitting(stack, id) \cup {part}) /\ Follows(reg[id], t)
         /\ t.flight = reg[id].flight + 1
  BY <1>2, <1>4, OneReg, ScanEnterOK
<1>7. reg[id].flags \cap {"closed", "cancelled", "freed", "release"} = {}
  BY <1>2, OneReg DEF RegOK, ScanOK, OwnFlags, Has, Connections, Dialogs
<1>8. Calls(id, directory_dispatch(reg[id]), part)
  BY <1>2
<1> HIDE DEF part
<1> QED
  BY <1>1, <1>3, <1>5, <1>6, <1>7, <1>8, SameDisk, CallsInv

\* config_complete, whether the file has been replaced or not.
LEMMA ConfigComplete ==
  ASSUME IInv, NEW id \in Ids, Has(reg[id], "load") \/ Has(reg[id], "write"),
         config_complete(id), ~stopped => ~Deep,
         disk' \in FileSet, disk' = disk \/ disk'.etag = disk.etag + 1
  PROVE  IInv' /\ NoLate
<1> DEFINE r == Clear(reg[id], {"listed", "load", "write"})
<1>1. CASE stopped
  <2> DEFINE t == Freed(release(r))
  <2>1. RegOK(t, Emitting(stack, id)) /\ Follows(reg[id], t) /\ t.flight = reg[id].flight
    BY OneReg, SaveDropOK
  <2>2. reg' = [reg EXCEPT ![id] = t] /\ UNCHANGED <<appVars, widgets, stack>>
    BY <1>1 DEF config_complete
  <2> HIDE DEF t
  <2> QED
    BY <2>1, <2>2, BecomesInv
<1>2. CASE ~stopped
  <2>1. LET t == invoke(r)
        IN /\ RegOK(t, Emitting(stack, id) \cup {0}) /\ Follows(reg[id], t)
           /\ t.flight = reg[id].flight + 1
    BY OneReg, SaveTellOK
  <2>2. Calls(id, r, 0)
    BY <1>2 DEF config_complete
  <2>3. reg[id].flags \cap {"closed", "cancelled", "freed", "release"} = {}
    BY OneReg DEF RegOK, SaveOK, OwnFlags, Has, Connections, Dialogs
  <2> HIDE DEF r
  <2> QED
    BY <1>2, <2>1, <2>2, <2>3, CallsInv
<1> QED
  BY <1>1, <1>2

\* config_loaded.
LEMMA SettingsLoadedStep == ASSUME IInv, settings_loaded PROVE IInv' /\ NoLate
<1>1. PICK id \in Ids :
        /\ Has(reg[id], "load")
        /\ \/ config_complete(id) /\ UNCHANGED disk
           \/ /\ ~unexpected(id)
              /\ Becomes(id, [Mark(Clear(reg[id], {"load"}), {"write"}) EXCEPT !.etag = disk.etag])
  BY DEF settings_loaded
<1>2. ~stopped => ~Deep
  BY DEF settings_loaded
<1>3. CASE config_complete(id) /\ UNCHANGED disk
  BY <1>1, <1>2, <1>3, SameDisk, ConfigComplete
<1>4. CASE /\ ~unexpected(id)
           /\ Becomes(id, [Mark(Clear(reg[id], {"load"}), {"write"}) EXCEPT !.etag = disk.etag])
  <2> DEFINE t == [Mark(Clear(reg[id], {"load"}), {"write"}) EXCEPT !.etag = disk.etag]
  <2>1. disk.etag \in Nat
    BY DEF IInv, Types, FileSet
  <2>2. /\ RegOK(t, Emitting(stack, id)) /\ t.kind = reg[id].kind /\ t.owner = reg[id].owner
        /\ Ended(t) /\ Has(reg[id], "listed")
        /\ t.flight = reg[id].flight /\ t.etag = disk.etag /\ t.expected = reg[id].expected
    BY <1>1, <2>1, OneReg, SaveWriteOK
  <2>3. reg' = [reg EXCEPT ![id] = t] /\ UNCHANGED <<appVars, widgets, stack, disk>>
    BY <1>4 DEF Becomes
  <2> HIDE DEF t
  <2>4. Later(reg[id], t)
    BY <2>2 DEF Later
  <2>5. DiskInv'
    BY <1>4, <2>1, <2>2, <2>3 DEF IInv, DiskInv, WriteOK, unexpected, Ids
  <2>6. IInv'
    BY <2>2, <2>3, <2>4, <2>5, SameDisk, BecomesStep
  <2>7. \A j \in Ids : reg'[j].flight = reg[j].flight /\ reg[j].flight \in Nat
    BY <2>2, <2>3, OneReg DEF Ids
  <2>8. NoLate
    BY <2>7 DEF NoLate
  <2> QED
    BY <2>6, <2>8
<1> QED
  BY <1>1, <1>3, <1>4

\* config_saved.
LEMMA SettingsSavedStep == ASSUME IInv, settings_saved PROVE IInv' /\ NoLate
<1>1. PICK id \in Ids :
       /\ Has(reg[id], "write") /\ config_complete(id)
       /\ \/ UNCHANGED disk
          \/ disk' = [content |-> 3, etag |-> disk.etag + 1, by |-> id]
  BY DEF settings_saved
<1>2. ~stopped => ~Deep
  BY DEF settings_saved
<1>3. disk.etag \in Nat /\ id \in Nat /\ disk \in FileSet
  BY OneReg DEF IInv, Types, FileSet
<1>4. disk' \in FileSet /\ (disk' = disk \/ disk'.etag = disk.etag + 1)
  BY <1>1, <1>3 DEF FileSet
<1> QED
  BY <1>1, <1>2, <1>4, ConfigComplete

\* Somebody else writes the file: whoever has its ETag has not any more.
LEMMA EditStep == ASSUME IInv, edit PROVE IInv' /\ NoLate
<1>1. /\ disk' = [content |-> 2, etag |-> disk.etag + 1, by |-> 0]
      /\ UNCHANGED <<appVars, reg, widgets, stack>>
  BY DEF edit
<1>2. disk.etag \in Nat /\ disk \in FileSet
  BY DEF IInv, Types, FileSet
<1>3. disk' \in FileSet /\ disk'.etag = disk.etag + 1
  BY <1>1, <1>2 DEF FileSet
<1>4. DiskInv'
  <2> SUFFICES ASSUME NEW j \in Ids, Has(reg[j], "write")
               PROVE  reg[j].etag < disk'.etag
    <3>1. \A j \in Ids : reg[j].etag \in Nat
      BY OneReg DEF Registration
    <3> QED
      BY <1>1, <1>2, <1>3, <3>1 DEF DiskInv, WriteOK, Ids
  <2>1. reg[j].etag <= disk.etag /\ reg[j].etag \in Nat
    BY OneReg DEF IInv, DiskInv, WriteOK, Registration
  <2> QED
    BY <1>2, <1>3, <2>1
<1>5. /\ reg' \in Seq(Registration) /\ Len(reg') = Len(reg) /\ stack' \in Seq(FrameSet)
  BY <1>1 DEF IInv, Types
<1>6. StackInv'
  BY <1>1 DEF IInv, StackInv, appVars
<1>7. \A j \in Ids : /\ RegOK(reg'[j], Emitting(stack', j))
                     /\ reg'[j].flight = Cardinality(FramesOf(stack', j))
                     /\ Later(reg[j], reg'[j])
  BY <1>1 DEF IInv, RegInv, Later
<1>8. IInv'
  BY <1>1, <1>3, <1>4, <1>5, <1>6, <1>7, RegsStep
<1>9. NoLate
  BY <1>1, OneReg DEF NoLate
<1> QED
  BY <1>8, <1>9

\* Shutdown goes on.
LEMMA DrainedStep == ASSUME IInv, drained PROVE IInv' /\ NoLate
<1>1. /\ stack # <<>> /\ Top.id = 0 /\ ~Saving /\ stack' = Popped
      /\ UNCHANGED <<appVars, reg, widgets, disk>>
  BY DEF drained, Draining, Frame
<1>2. /\ stack \in Seq(FrameSet) /\ Popped \in Seq(FrameSet) /\ Top \in FrameSet
      /\ stack = Append(Popped, Top)
  BY <1>1, PopFrames DEF IInv, Types, Popped, Top
<1>3. Pushed(Popped, 0, Top.part, stack)
  BY <1>1, <1>2, AppendFrames
<1>4. /\ Ids \subseteq Nat /\ 0 \notin Ids
  BY OneReg
<1>5. /\ \A k \in DOMAIN Popped : k \in DOMAIN stack /\ stack[k] = Popped[k]
      /\ \A j \in Ids : FramesOf(stack, j) = FramesOf(Popped, j) /\ Emitting(stack, j) = Emitting(Popped, j)
      /\ Cardinality(Handlers(stack)) = Cardinality(Handlers(Popped))
  BY <1>3, <1>4 DEF Pushed
<1>6. StackInv'
  BY <1>1, <1>5 DEF IInv, StackInv, appVars
<1>7. \A j \in Ids : /\ RegOK(reg'[j], Emitting(stack', j))
                     /\ reg'[j].flight = Cardinality(FramesOf(stack', j))
                     /\ Later(reg[j], reg'[j])
  BY <1>1, <1>5 DEF IInv, RegInv, Later
<1>8. DiskInv' /\ disk' \in FileSet /\ reg' \in Seq(Registration) /\ Len(reg') = Len(reg)
  BY <1>1 DEF IInv, DiskInv, Types, Ids
<1>9. IInv'
  BY <1>1, <1>2, <1>6, <1>7, <1>8, RegsStep
<1>10. NoLate
  BY <1>1, OneReg DEF NoLate
<1> QED
  BY <1>9, <1>10

\* A handler returns, with what its code does then.
LEMMA ReturnsInv ==
  ASSUME IInv, InHandler, Top.id \in Ids, NEW t, reg' = [reg EXCEPT ![Top.id] = t],
         \/ stack' = Popped /\ t.flight = reg[Top.id].flight - 1
            /\ RegOK(t, Emitting(Popped, Top.id))
         \/ \E part \in Int : /\ stack' = Append(Popped, Frame(Top.id, part))
                              /\ t.flight = reg[Top.id].flight
                              /\ RegOK(t, Emitting(Popped, Top.id) \cup {part}),
         Follows(reg[Top.id], t), UNCHANGED <<appVars, widgets, disk>>
  PROVE  IInv' /\ NoLate
<1>1. t \in Registration /\ Later(reg[Top.id], t)
  BY DEF RegOK, Follows, Later
<1>2. DiskInv' /\ disk' \in FileSet
  BY <1>1, DiskStep, SameDisk
<1>3. IInv'
  BY <1>1, <1>2, ReturnsStep
<1>4. t.flight = reg[Top.id].flight - 1 \/ t.flight = reg[Top.id].flight
  OBVIOUS
<1>5. \A j \in Ids : reg'[j].flight \in Nat /\ reg[j].flight \in Nat
                     /\ (reg'[j].flight = reg[j].flight - 1 \/ reg'[j].flight = reg[j].flight)
  <2>1. t.flight \in Nat /\ \A j \in Ids : reg[j].flight \in Nat
    BY <1>1, OneReg DEF Registration
  <2>2. \A j \in Ids : reg'[j] = IF j = Top.id THEN t ELSE reg[j]
    BY DEF Ids
  <2> QED
    BY <1>4, <2>1, <2>2
<1>6. NoLate
  BY <1>5 DEF NoLate
<1> QED
  BY <1>3, <1>6

\* A handler returns: what waited for it happens now.
LEMMA ReturnStep == ASSUME IInv, return PROVE IInv' /\ NoLate
<1> DEFINE id == Top.id
           kind == reg[id].kind
           q == [reg[id] EXCEPT !.flight = @ - 1]
           F == Emitting(Popped, id)
<1>0. InHandler /\ UNCHANGED <<appVars, widgets, disk>>
  BY DEF return
<1>1. /\ stack \in Seq(FrameSet) /\ stack # <<>> /\ Popped \in Seq(FrameSet) /\ Top \in FrameSet
      /\ stack = Append(Popped, Top) /\ id # 0
  BY <1>0, PopFrames DEF IInv, Types, InHandler, Popped, Top
<1>2. Pushed(Popped, id, Top.part, stack)
  BY <1>1, AppendFrames
<1>3. id \in Ids /\ Top.part \in Int
  <2>1. Len(stack) \in DOMAIN stack
    BY <1>1, Indices, EmptySeq DEF IInv
  <2>2. Top = stack[Len(stack)] /\ Top.id <= Len(reg) /\ Top.id \in Nat
    BY <1>1, <2>1 DEF Top, IInv, StackInv, FrameSet
  <2> QED
    BY <1>1, <2>2, Indices DEF IInv, FrameSet
<1>4. /\ RegOK(reg[id], Emitting(stack, id))
      /\ Emitting(stack, id) = F \cup {Top.part}
      /\ reg[id].flight = Cardinality(FramesOf(Popped, id)) + 1
      /\ Cardinality(FramesOf(Popped, id)) \in Nat
      /\ F = {} <=> Cardinality(FramesOf(Popped, id)) = 0
  BY <1>1, <1>2, <1>3, OneReg, FramesFinite DEF IInv, RegInv, Pushed
<1>5. reg[id].flight > 0 /\ reg[id].flight \in Nat /\ (F = {} <=> reg[id].flight = 1)
  BY <1>4
<1>6. CASE kind \in Connections /\ Returns(signal_leave(q, F))
  <2> DEFINE t == signal_leave(q, F)
  <2>1. F \in SUBSET Emitting(stack, id) /\ Emitting(stack, id) # {}
    BY <1>4
  <2>2. RegOK(t, F) /\ Follows(reg[id], t) /\ t.flight = reg[id].flight - 1
    BY <1>4, <1>5, <1>6, <2>1, SignalLeaveOK
  <2>3. reg' = [reg EXCEPT ![id] = t] /\ stack' = Popped
    BY <1>6 DEF Returns
  <2> HIDE DEF t
  <2> QED
    BY <1>0, <1>3, <2>2, <2>3, ReturnsInv
<1>7. CASE kind \in Dialogs \cup {"post"} /\ Returns(release(q))
  <2> DEFINE t == release(q)
  <2>1. RegOK(t, F) /\ Follows(reg[id], t) /\ t.flight = reg[id].flight - 1
    BY <1>4, <1>5, <1>7, LastReturnOK
  <2>2. reg' = [reg EXCEPT ![id] = t] /\ stack' = Popped
    BY <1>7 DEF Returns
  <2> HIDE DEF t
  <2> QED
    BY <1>0, <1>3, <2>1, <2>2, ReturnsInv
<1>8. CASE kind \in Dialogs /\ CallsAgain(q, Top.part - 1)
  <2> DEFINE t == invoke(q)
             part == Top.part - 1
  <2>1. RegOK(t, F \cup {part}) /\ Follows(reg[id], t) /\ t.flight = reg[id].flight
    BY <1>4, <1>5, <1>8, NextPathOK
  <2>2. /\ reg' = [reg EXCEPT ![id] = t] /\ stack' = Append(Popped, Frame(id, part))
        /\ part \in Int
    BY <1>3, <1>8 DEF CallsAgain
  <2> HIDE DEF t, part
  <2> QED
    BY <1>0, <1>3, <2>1, <2>2, ReturnsInv
<1>9. CASE kind = "shortcut" /\ Returns(shortcut_leave(q))
  <2> DEFINE t == shortcut_leave(q)
  <2>1. RegOK(t, F) /\ Follows(reg[id], t) /\ t.flight = reg[id].flight - 1
    BY <1>4, <1>5, <1>9, ShortcutLeaveOK
  <2>2. reg' = [reg EXCEPT ![id] = t] /\ stack' = Popped
    BY <1>9 DEF Returns
  <2> HIDE DEF t
  <2> QED
    BY <1>0, <1>3, <2>1, <2>2, ReturnsInv
<1>10. CASE kind = "tree" /\ Returns(tree_leave(q))
  <2> DEFINE t == tree_leave(q)
  <2>1. RegOK(t, F) /\ Follows(reg[id], t) /\ t.flight = reg[id].flight - 1
    BY <1>4, <1>5, <1>10, TreeLeaveOK
  <2>2. reg' = [reg EXCEPT ![id] = t] /\ stack' = Popped
    BY <1>10 DEF Returns
  <2> HIDE DEF t
  <2> QED
    BY <1>0, <1>3, <2>1, <2>2, ReturnsInv
<1> DEFINE final == Top.part = 2
           d == directory_leave(q, final)
<1>11. CASE kind = "scan" /\ ~final /\ directory_goes_on(d) /\ CallsAgain([d EXCEPT !.active = @ + 1], 2)
  <2> DEFINE t == invoke([d EXCEPT !.active = @ + 1])
             part == 2
  <2>1. RegOK(t, F \cup {part}) /\ Follows(reg[id], t) /\ t.flight = reg[id].flight
    BY <1>4, <1>5, <1>11, ScanAgainOK
  <2>2. reg' = [reg EXCEPT ![id] = t] /\ stack' = Append(Popped, Frame(id, part)) /\ part \in Int
    BY <1>11 DEF CallsAgain
  <2> HIDE DEF t, part
  <2> QED
    BY <1>0, <1>3, <2>1, <2>2, ReturnsInv
<1>12. CASE kind = "scan" /\ Returns(directory_ends(d, final))
  <2> DEFINE t == directory_ends(d, final)
  <2>1. RegOK(t, F) /\ Follows(reg[id], t) /\ t.flight = reg[id].flight - 1
    BY <1>4, <1>5, <1>12, ScanLeaveOK
  <2>2. reg' = [reg EXCEPT ![id] = t] /\ stack' = Popped
    BY <1>12 DEF Returns
  <2> HIDE DEF t
  <2> QED
    BY <1>0, <1>3, <2>1, <2>2, ReturnsInv
<1>13. CASE kind = "save" /\ Returns(Freed(release(q)))
  <2> DEFINE t == Freed(release(q))
  <2>1. RegOK(t, F) /\ Follows(reg[id], t) /\ t.flight = reg[id].flight - 1
    BY <1>4, <1>5, <1>13, SaveReturnOK
  <2>2. reg' = [reg EXCEPT ![id] = t] /\ stack' = Popped
    BY <1>13 DEF Returns
  <2> HIDE DEF t
  <2> QED
    BY <1>0, <1>3, <2>1, <2>2, ReturnsInv
<1> QED
  BY <1>6, <1>7, <1>8, <1>9, <1>10, <1>11, <1>12, <1>13 DEF return

----------------------------------------------------------------------------
(* What a program does.                                                    *)

\* A new registration, of the application or of a live widget.
LEMMA RegistersInv ==
  ASSUME IInv, NEW r, Registers(r), RegOK(r, {}), r.flight = 0, ~Has(r, "write"),
         \/ r.owner = 0 /\ r.kind \in {"signal", "post", "save"}
         \/ r.owner \in Widgets /\ Live(r.owner) /\ r.kind \notin {"post", "save"}
  PROVE  IInv' /\ NoLate
<1> DEFINE new == Len(reg) + 1
<1>1. /\ reg' = Append(reg, r) /\ UNCHANGED <<appVars, widgets, stack, disk>> /\ ~stopped
      /\ reg \in Seq(Registration) /\ r \in Registration
  BY DEF Registers, RegOK, IInv, Types
<1>2. /\ reg' \in Seq(Registration) /\ Len(reg') = new /\ reg'[new] = r
      /\ \A j \in Ids : reg'[j] = reg[j]
      /\ Len(reg) \in Nat /\ Ids = 1..Len(reg) /\ Ids' = 1..new
  BY <1>1, AppendProperties, LenProperties DEF Ids
<1>3. \A j \in Ids' : j \in Ids \/ j = new
  BY <1>2
<1>4. FramesOf(stack, new) = {} /\ Emitting(stack, new) = {} /\ Cardinality(FramesOf(stack, new)) = 0
  <2>1. \A k \in DOMAIN stack : stack[k].id # new
    <3>1. \A k \in DOMAIN stack : stack[k].id <= Len(reg) /\ stack[k].id \in Nat
      BY Indices DEF IInv, StackInv, FrameSet
    <3> QED
      BY <1>2, <3>1
  <2>2. FramesOf(stack, new) = {} /\ Emitting(stack, new) = {}
    BY <2>1 DEF FramesOf, Emitting
  <2> QED
    BY <2>2, FS_EmptySet
<1>5. Types'
  BY <1>1, <1>2 DEF IInv, Types, appVars
<1>6. RegInv'
  <2> SUFFICES ASSUME NEW j \in Ids'
               PROVE  /\ RegOK(reg'[j], Emitting(stack, j))
                      /\ reg'[j].flight = Cardinality(FramesOf(stack, j))
    BY <1>1 DEF RegInv
  <2>1. CASE j \in Ids
    BY <1>2, <2>1 DEF IInv, RegInv
  <2>2. CASE j = new
    BY <1>2, <1>4, <2>2
  <2> QED
    BY <1>3, <2>1, <2>2
<1>7. DiskInv'
  BY <1>1, <1>2, <1>3 DEF IInv, DiskInv, WriteOK
<1>8. StackInv'
  <2>1. \A k \in DOMAIN stack : stack[k].id <= new
    BY <1>2, Indices DEF IInv, StackInv, FrameSet
  <2> QED
    BY <1>1, <1>2, <2>1 DEF IInv, StackInv, appVars
<1>9. OwnerInv'
  <2> SUFFICES ASSUME NEW j \in Ids'
               PROVE  /\ reg'[j].owner <= Len(widgets)
                      /\ reg'[j].owner = 0 => reg'[j].kind \in {"signal", "post", "save"}
                      /\ reg'[j].kind \in {"post", "save"} => reg'[j].owner = 0
                      /\ reg'[j].owner # 0 /\ widgets[reg'[j].owner].state = "disposed" => Ended(reg'[j])
    BY <1>1 DEF OwnerInv, appVars
  <2>1. CASE j \in Ids
    BY <1>2, <2>1 DEF IInv, OwnerInv
  <2>2. CASE j = new
    <3>1. reg'[j] = r /\ r.owner \in Nat
      BY <1>1, <1>2, <2>2 DEF Registration
    <3>2. CASE r.owner = 0 /\ r.kind \in {"signal", "post", "save"}
      BY <3>1, <3>2, Indices DEF IInv
    <3>3. CASE r.owner \in Widgets /\ Live(r.owner) /\ r.kind \notin {"post", "save"}
      <4>1. r.owner # 0 /\ r.owner <= Len(widgets)
        BY <3>3, Indices DEF IInv
      <4> QED
        BY <3>1, <3>3, <4>1 DEF Live
    <3> QED
      BY <3>2, <3>3
  <2> QED
    BY <1>3, <2>1, <2>2
<1>10. StopInv'
  BY <1>1 DEF StopInv, appVars
<1>11. ForestInv'
  BY <1>1, SMTT(40) DEF IInv, ForestInv, Widgets, Under
<1>12. NoLate
  BY <1>2, OneReg DEF NoLate
<1>13. BusyInv'
  <2>1. widgets' = widgets /\ Widgets' = Widgets
    BY <1>1 DEF Widgets
  <2>2. ASSUME NEW w \in Widgets
        PROVE  /\ widgets[w].since <= new
               /\ widgets[w].busy = "dispose" =>
                    \A j \in Ids' : reg'[j].owner = w /\ j <= widgets[w].since => Ended(reg'[j])
    <3>1. /\ widgets[w].since \in Nat /\ widgets[w].since <= Len(reg)
          /\ widgets[w].busy = "dispose" =>
               \A j \in Ids : reg[j].owner = w /\ j <= widgets[w].since => Ended(reg[j])
      BY Indices DEF IInv, BusyInv, WidgetSet
    <3> QED
      BY <1>2, <1>3, <3>1
  <2>3. \A w \in Widgets :
          /\ widgets[w].state # "twice" /\ widgets[w].busy # "reentered"
          /\ widgets[w].busy # "no" => widgets[w].parent = 0 /\ widgets[w].page \in Widgets
    BY DEF IInv, BusyInv
  <2> QED
    BY <1>2, <2>1, <2>2, <2>3 DEF BusyInv
<1> QED
  BY <1>5, <1>6, <1>7, <1>8, <1>9, <1>10, <1>11, <1>12, <1>13 DEF IInv

\* A registration that Creates makes.
LEMMA CreatesInv ==
  ASSUME IInv, NEW kind, NEW owner, NEW closures, NEW flags,
         Creates(kind, owner, closures, flags),
         RegOK(acquire(kind, owner, "live", closures, flags), {}), "write" \notin flags,
         (owner = 0 /\ kind = "signal") \/ (owner \in Widgets /\ kind \notin {"post", "save"})
  PROVE  IInv' /\ NoLate
<1> DEFINE r == acquire(kind, owner, "live", closures, flags)
<1>1. /\ r.kind = kind /\ r.owner = owner /\ r.flight = 0 /\ ~Has(r, "write")
  BY DEF acquire, Has
<1>2. Registers(r) /\ (owner # 0 => Live(owner))
  BY DEF Creates
<1>3. \/ owner = 0 /\ kind \in {"signal", "post", "save"}
      \/ owner \in Widgets /\ Live(owner) /\ kind \notin {"post", "save"}
  <2>1. 0 \notin Widgets
    BY Indices DEF IInv
  <2> QED
    BY <1>2, <2>1
<1> HIDE DEF r
<1> QED
  BY <1>1, <1>2, <1>3, RegistersInv DEF r

\* connect_signal.
LEMMA ConnectSignalStep == ASSUME IInv, connect_signal PROVE IInv' /\ NoLate
<1> USE DEF RegOK, Registration, acquire, OwnFlags, Has, Flags, Kinds, Connections, Dialogs
<1>0. Widgets \subseteq Nat
  BY Indices DEF IInv
<1>1. ASSUME NEW w \in {0} \cup Widgets, Creates("signal", w, {1}, {}) PROVE IInv' /\ NoLate
  <2>1. RegOK(acquire("signal", w, "live", {1}, {}), {})
    BY <1>0 DEF ConnectionOK
  <2> QED
    BY <1>1, <2>1, CreatesInv
<1>2. ASSUME NEW w \in Widgets, Creates("group", w, {1, 2}, {}) PROVE IInv' /\ NoLate
  <2>1. RegOK(acquire("group", w, "live", {1, 2}, {}), {})
    BY <1>0 DEF ConnectionOK
  <2> QED
    BY <1>2, <2>1, CreatesInv
<1> QED
  BY <1>1, <1>2 DEF connect_signal

\* file_dialog_create.
LEMMA FileDialogStep == ASSUME IInv, file_dialog_create PROVE IInv' /\ NoLate
<1>1. PICK w \in Widgets, kind \in Dialogs : Creates(kind, w, {}, {"request"})
  BY DEF file_dialog_create
<1>2. w \in Nat
  BY Indices DEF IInv
<1>3. RegOK(acquire(kind, w, "live", {}, {"request"}), {})
  BY <1>2 DEF DialogOK, RegOK, Registration, acquire, OwnFlags, Has, Flags, Kinds, Connections, Dialogs
<1> QED
  BY <1>1, <1>3, CreatesInv DEF Dialogs

\* cwhip_gtk_source_view_bind_shortcut.
LEMMA BindShortcutStep == ASSUME IInv, bind_shortcut PROVE IInv' /\ NoLate
<1>1. PICK w \in Widgets : Creates("shortcut", w, {}, {"native"})
  BY DEF bind_shortcut
<1>2. w \in Nat
  BY Indices DEF IInv
<1>3. RegOK(acquire("shortcut", w, "live", {}, {"native"}), {})
  BY <1>2 DEF ShortcutOK, RegOK, Registration, acquire, OwnFlags, Has, Flags, Kinds, Connections, Dialogs
<1> QED
  BY <1>1, <1>3, CreatesInv

\* cwhip_gtk_tree_setup.
LEMMA TreeSetupStep == ASSUME IInv, tree_setup PROVE IInv' /\ NoLate
<1>1. PICK w \in Widgets : Creates("tree", w, {}, {"native"})
  BY DEF tree_setup
<1>2. w \in Nat
  BY Indices DEF IInv
<1>3. RegOK(acquire("tree", w, "live", {}, {"native"}), {})
  BY <1>2 DEF TreeOK, RegOK, Registration, acquire, OwnFlags, Has, Flags, Kinds, Connections, Dialogs
<1> QED
  BY <1>1, <1>3, CreatesInv

\* directory_start.
LEMMA DirectoryStartStep == ASSUME IInv, directory_start PROVE IInv' /\ NoLate
<1>1. PICK w \in Widgets : Creates("scan", w, {}, {"gui", "worker"})
  BY DEF directory_start
<1>2. w \in Nat
  BY Indices DEF IInv
<1>3. RegOK(acquire("scan", w, "live", {}, {"gui", "worker"}), {})
  BY <1>2 DEF ScanOK, RegOK, Registration, acquire, OwnFlags, Has, Flags, Kinds, Connections, Dialogs
<1> QED
  BY <1>1, <1>3, CreatesInv

\* cwhip_gtk_post.
LEMMA PostStep == ASSUME IInv, post PROVE IInv' /\ NoLate
<1> DEFINE r == acquire("post", 0, "transfer", {}, {})
<1>1. RegOK(r, {}) /\ r.flight = 0 /\ ~Has(r, "write") /\ r.owner = 0 /\ r.kind = "post"
  BY DEF PostOK, RegOK, Registration, acquire, OwnFlags, Has, Flags, Kinds, Connections, Dialogs
<1>2. Registers(r)
  BY DEF post
<1> HIDE DEF r
<1> QED
  BY <1>1, <1>2, RegistersInv

\* cwhip_gtk_config_save.
LEMMA ConfigSaveStep == ASSUME IInv, config_save PROVE IInv' /\ NoLate
<1>1. PICK e \in {0, 1} :
        Registers([acquire("save", 0, "live", {}, {"load"}) EXCEPT !.expected = e])
  BY DEF config_save
<1> DEFINE r == [acquire("save", 0, "live", {}, {"load"}) EXCEPT !.expected = e]
<1>2. r = [kind |-> "save", owner |-> 0, ctx |-> "live", flight |-> 0, active |-> 0,
           closures |-> {}, left |-> 0, expected |-> e, etag |-> 0,
           flags |-> {"listed", "load"}]
  BY DEF acquire
<1> HIDE DEF r
<1>3. RegOK(r, {}) /\ r.flight = 0 /\ ~Has(r, "write") /\ r.owner = 0 /\ r.kind = "save"
  BY <1>2 DEF SaveOK, RegOK, Registration, OwnFlags, Has, Flags, Kinds, Connections, Dialogs
<1> QED
  BY <1>1, <1>3, RegistersInv DEF r

\* The cancelling operations.
LEMMA CancelStep == ASSUME IInv, cancel PROVE IInv' /\ NoLate
<1>1. PICK id \in Ids :
        /\ Has(reg[id], "listed")
        /\ \/ reg[id].kind \in Connections /\ Becomes(id, disconnect(reg[id], Emitting(stack, id)))
           \/ reg[id].kind \in Dialogs /\ Becomes(id, dialog_cancel(reg[id]))
           \/ reg[id].kind = "post" /\ Becomes(id, post_cancel(reg[id]))
           \/ reg[id].kind = "scan" /\ Becomes(id, directory_close(reg[id]))
  BY DEF cancel
<1>2. ASSUME NEW t, Becomes(id, t), RegOK(t, Emitting(stack, id)), Follows(reg[id], t),
             t.flight = reg[id].flight
      PROVE  IInv' /\ NoLate
  BY <1>2, SameDisk, BecomesInv DEF Becomes
<1>3. CASE reg[id].kind \in Connections /\ Becomes(id, disconnect(reg[id], Emitting(stack, id)))
  BY <1>2, <1>3, OneReg, DisconnectOK
<1>4. CASE reg[id].kind \in Dialogs /\ Becomes(id, dialog_cancel(reg[id]))
  BY <1>1, <1>2, <1>4, OneReg, DialogCancelOK
<1>5. CASE reg[id].kind = "post" /\ Becomes(id, post_cancel(reg[id]))
  BY <1>1, <1>2, <1>5, OneReg, PostCancelOK
<1>6. CASE reg[id].kind = "scan" /\ Becomes(id, directory_close(reg[id]))
  BY <1>2, <1>6, OneReg, ScanCloseOK
<1> QED
  BY <1>1, <1>3, <1>4, <1>5, <1>6

\* cwhip_gtk_source_view_clear_shortcuts.
LEMMA ClearShortcutsStep == ASSUME IInv, clear_shortcuts PROVE IInv' /\ NoLate
<1>1. PICK own \in SUBSET Ids :
        /\ \A id \in own : reg[id].kind = "shortcut" /\ Has(reg[id], "listed")
        /\ reg' = [id \in Ids |->
                     IF id \in own THEN shortcut_context_dispose(reg[id]) ELSE reg[id]]
        /\ UNCHANGED <<appVars, widgets, stack, disk>>
  <2>1. PICK w \in Widgets :
          LET own == {id \in Of({"shortcut"}, w) : Has(reg[id], "listed")}
          IN /\ reg' = [id \in Ids |->
                          IF id \in own THEN shortcut_context_dispose(reg[id]) ELSE reg[id]]
             /\ UNCHANGED <<appVars, widgets, stack, disk>>
    BY DEF clear_shortcuts
  <2> DEFINE own == {id \in Of({"shortcut"}, w) : Has(reg[id], "listed")}
  <2>2. own \in SUBSET Ids /\ \A id \in own : reg[id].kind = "shortcut" /\ Has(reg[id], "listed")
    BY DEF Of
  <2> QED
    BY <2>1, <2>2
<1>2. ASSUME NEW id \in Ids
      PROVE  /\ RegOK(reg'[id], Emitting(stack, id)) /\ Follows(reg[id], reg'[id])
             /\ reg'[id].flight = reg[id].flight
  <2>1. CASE id \in own
    <3>1. reg'[id] = shortcut_context_dispose(reg[id]) /\ Has(reg[id], "native")
      BY <1>1, <2>1, OneReg DEF RegOK, ShortcutOK
    <3> QED
      BY <1>1, <2>1, <3>1, OneReg, ShortcutDisposeOK
  <2>2. CASE id \notin own
    BY <1>1, <2>2, OneReg DEF Follows
  <2> QED
    BY <2>1, <2>2
<1>3. reg' \in Seq(Registration) /\ Len(reg') = Len(reg) /\ Ids' = Ids
  <2>1. reg' \in [1..Len(reg) -> Registration] /\ Len(reg) \in Nat
    BY <1>1, <1>2, Indices DEF RegOK, IInv
  <2>2. DOMAIN reg' = 1..Len(reg)
    BY <2>1
  <2> QED
    BY <2>1, <2>2, IsASeq, LenProperties, Indices DEF Ids, IInv
<1>4. DiskInv'
  BY <1>1, <1>2, <1>3, ZenonT(60) DEF IInv, DiskInv, WriteOK, Follows
<1>5. StackInv'
  BY <1>1, <1>3 DEF IInv, StackInv, appVars
<1>6. \A id \in Ids : /\ RegOK(reg'[id], Emitting(stack', id))
                      /\ reg'[id].flight = Cardinality(FramesOf(stack', id))
                      /\ Later(reg[id], reg'[id])
  BY <1>1, <1>2 DEF IInv, RegInv, Follows, Later
<1>7. disk' \in FileSet /\ stack' \in Seq(FrameSet)
  BY <1>1 DEF IInv, Types
<1>8. IInv'
  BY <1>1, <1>3, <1>4, <1>5, <1>6, <1>7, RegsStep
<1>9. NoLate
  BY <1>2, OneReg DEF NoLate
<1> QED
  BY <1>8, <1>9

----------------------------------------------------------------------------
(* The forest of widgets.                                                  *)

\* Under, for any widgets.
ClosedIn(ws, T) == \A y \in DOMAIN ws : ws[y].parent \in T => y \in T
UnderIn(ws, w) ==
  {x \in DOMAIN ws : \A T \in SUBSET (DOMAIN ws) : w \in T /\ ClosedIn(ws, T) => x \in T}

\* A widget is under itself, with all whose parent is under it, and nothing
\* else is.
LEMMA UnderLeast ==
  ASSUME NEW ws, NEW w \in DOMAIN ws
  PROVE  /\ UnderIn(ws, w) \in SUBSET (DOMAIN ws) /\ w \in UnderIn(ws, w)
         /\ ClosedIn(ws, UnderIn(ws, w))
         /\ \A T \in SUBSET (DOMAIN ws) : w \in T /\ ClosedIn(ws, T) => UnderIn(ws, w) \subseteq T
<1>1. UnderIn(ws, w) \in SUBSET (DOMAIN ws) /\ w \in UnderIn(ws, w)
  BY DEF UnderIn
<1>2. \A T \in SUBSET (DOMAIN ws) : w \in T /\ ClosedIn(ws, T) => UnderIn(ws, w) \subseteq T
  BY DEF UnderIn
<1>3. ClosedIn(ws, UnderIn(ws, w))
  <2> SUFFICES ASSUME NEW y \in DOMAIN ws, ws[y].parent \in UnderIn(ws, w),
                      NEW T \in SUBSET (DOMAIN ws), w \in T, ClosedIn(ws, T)
               PROVE  y \in T
    BY DEF ClosedIn, UnderIn
  <2>1. ws[y].parent \in T
    BY DEF UnderIn
  <2> QED
    BY <2>1 DEF ClosedIn
<1> QED
  BY <1>1, <1>2, <1>3

\* What is under a widget has under it no more than that.
LEMMA UnderTransitive ==
  ASSUME NEW ws, NEW w \in DOMAIN ws, NEW x \in UnderIn(ws, w)
  PROVE  UnderIn(ws, x) \subseteq UnderIn(ws, w)
<1>1. x \in DOMAIN ws
  BY DEF UnderIn
<1>2. UnderIn(ws, w) \in SUBSET (DOMAIN ws) /\ ClosedIn(ws, UnderIn(ws, w))
  BY UnderLeast
<1> QED
  BY <1>1, <1>2, UnderLeast

\* No widget is under one that is under it.
Acyclic(ws) == \A w, x \in DOMAIN ws : x \in UnderIn(ws, w) /\ w \in UnderIn(ws, x) => x = w

\* Under is UnderIn.
LEMMA UnderDef ==
  /\ \A w : Under(w) = UnderIn(widgets, w)
  /\ \A w : Under(w)' = UnderIn(widgets', w)
  BY DEF Under, UnderIn, ClosedIn, Widgets

\* The invariant with Acyclic.
Forest(ws) ==
  /\ \A w \in DOMAIN ws : ws[w].parent \in 0..Len(ws)
  /\ Acyclic(ws)
  /\ \A w \in DOMAIN ws : ws[w].state = "disposed" =>
       ws[w].parent = 0 /\ \A x \in DOMAIN ws : ws[x].parent # w

\* ForestInv is Forest.
LEMMA ForestDef ==
  /\ ForestInv <=> Forest(widgets)
  /\ ForestInv' <=> Forest(widgets')
<1>1. ForestInv <=> Forest(widgets)
  BY UnderDef DEF ForestInv, Forest, Acyclic, Widgets
<1>2. ForestInv' <=> Forest(widgets')
  BY UnderDef DEF ForestInv, Forest, Acyclic, Widgets
<1> QED
  BY <1>1, <1>2

\* Where parents go or widgets are new, less is under a widget than before.
LEMMA DetachedAcyclic ==
  ASSUME NEW ws \in Seq(WidgetSet), Acyclic(ws), NEW vs \in Seq(WidgetSet),
         DOMAIN ws \subseteq DOMAIN vs,
         \A w \in DOMAIN ws : vs[w].parent \in {0, ws[w].parent},
         \A w \in DOMAIN vs \ DOMAIN ws : vs[w].parent = 0,
         \A w \in DOMAIN ws : ws[w].parent \in 0..Len(ws)
  PROVE  Acyclic(vs)
<1>0. /\ DOMAIN ws = 1..Len(ws) /\ DOMAIN vs = 1..Len(vs) /\ Len(ws) \in Nat /\ Len(vs) \in Nat
      /\ 0 \notin DOMAIN vs /\ 0 \notin DOMAIN ws
  BY LenProperties
<1>1. ASSUME NEW w \in DOMAIN ws PROVE UnderIn(vs, w) \subseteq UnderIn(ws, w)
  <2> DEFINE T == UnderIn(ws, w)
  <2>1. T \in SUBSET (DOMAIN ws) /\ w \in T /\ ClosedIn(ws, T)
    BY UnderLeast
  <2> HIDE DEF T
  <2>2. T \in SUBSET (DOMAIN vs) /\ 0 \notin T
    BY <1>0, <2>1
  <2>3. ClosedIn(vs, T)
    BY <2>1, <2>2 DEF ClosedIn
  <2> QED
    BY <2>1, <2>2, <2>3, UnderLeast DEF T
<1>2. ASSUME NEW w \in DOMAIN vs, w \notin DOMAIN ws PROVE UnderIn(vs, w) \subseteq {w}
  <2>1. {w} \in SUBSET (DOMAIN vs) /\ w # 0
    BY <1>0
  <2>2. \A y \in DOMAIN vs : vs[y].parent # w
    <3> TAKE y \in DOMAIN vs
    <3>1. CASE y \in DOMAIN ws
      BY <1>0, <1>2, <2>1, <3>1
    <3>2. CASE y \notin DOMAIN ws
      BY <2>1, <3>2
    <3> QED
      BY <3>1, <3>2
  <2>3. ClosedIn(vs, {w})
    BY <2>2 DEF ClosedIn
  <2> QED
    BY <2>1, <2>3, UnderLeast
<1>3. SUFFICES ASSUME NEW w \in DOMAIN vs, NEW x \in DOMAIN vs,
                      x \in UnderIn(vs, w), w \in UnderIn(vs, x)
               PROVE  x = w
  BY DEF Acyclic
<1>4. CASE w \in DOMAIN ws /\ x \in DOMAIN ws
  BY <1>1, <1>3, <1>4 DEF Acyclic
<1>5. CASE w \notin DOMAIN ws \/ x \notin DOMAIN ws
  BY <1>2, <1>3, <1>5
<1> QED
  BY <1>4, <1>5

\* cwhip_gtk_widget_attach asks the right question: a parent that is not under
\* its child makes no cycle.
LEMMA AttachedAcyclic ==
  ASSUME NEW ws, Acyclic(ws), NEW p \in DOMAIN ws, NEW c \in DOMAIN ws, p \notin UnderIn(ws, c),
         NEW vs, DOMAIN vs = DOMAIN ws, vs[c].parent = p,
         \A w \in DOMAIN ws \ {c} : vs[w].parent = ws[w].parent
  PROVE  Acyclic(vs)
<1>1. ASSUME NEW w \in DOMAIN ws, p \notin UnderIn(ws, w)
      PROVE  UnderIn(vs, w) \subseteq UnderIn(ws, w)
  <2> DEFINE T == UnderIn(ws, w)
  <2>1. T \in SUBSET (DOMAIN ws) /\ w \in T /\ ClosedIn(ws, T) /\ p \notin T
    BY <1>1, UnderLeast
  <2> HIDE DEF T
  <2>2. ClosedIn(vs, T)
    BY <2>1 DEF ClosedIn
  <2> QED
    BY <2>1, <2>2, UnderLeast DEF T
<1>2. ASSUME NEW w \in DOMAIN ws
      PROVE  UnderIn(vs, w) \subseteq UnderIn(ws, w) \cup UnderIn(ws, c)
  <2> DEFINE T == UnderIn(ws, w) \cup UnderIn(ws, c)
  <2>1. /\ UnderIn(ws, w) \in SUBSET (DOMAIN ws) /\ w \in UnderIn(ws, w)
        /\ ClosedIn(ws, UnderIn(ws, w))
    BY UnderLeast
  <2>2. /\ UnderIn(ws, c) \in SUBSET (DOMAIN ws) /\ c \in UnderIn(ws, c)
        /\ ClosedIn(ws, UnderIn(ws, c))
    BY UnderLeast
  <2>3. T \in SUBSET (DOMAIN ws) /\ w \in T /\ c \in T
    BY <2>1, <2>2
  <2>4. ClosedIn(vs, T)
    BY <2>1, <2>2 DEF ClosedIn
  <2> HIDE DEF T
  <2> QED
    BY <2>3, <2>4, UnderLeast DEF T
<1>3. SUFFICES ASSUME NEW w \in DOMAIN ws, NEW x \in DOMAIN ws,
                      x \in UnderIn(vs, w), w \in UnderIn(vs, x)
               PROVE  x = w
  BY DEF Acyclic
<1>4. CASE x \in UnderIn(ws, w) /\ w \in UnderIn(ws, x)
  BY <1>4 DEF Acyclic
<1>5. CASE x \notin UnderIn(ws, w)
  <2>1. p \in UnderIn(ws, w) /\ x \in UnderIn(ws, c)
    BY <1>1, <1>2, <1>3, <1>5
  <2>2. UnderIn(ws, x) \subseteq UnderIn(ws, c)
    BY <2>1, UnderTransitive
  <2>3. w \in UnderIn(ws, c)
    BY <1>2, <1>3, <2>2
  <2>4. UnderIn(ws, w) \subseteq UnderIn(ws, c)
    BY <2>3, UnderTransitive
  <2> QED
    BY <2>1, <2>4
<1>6. CASE w \notin UnderIn(ws, x)
  <2>1. p \in UnderIn(ws, x) /\ w \in UnderIn(ws, c)
    BY <1>1, <1>2, <1>3, <1>6
  <2>2. UnderIn(ws, w) \subseteq UnderIn(ws, c)
    BY <2>1, UnderTransitive
  <2>3. x \in UnderIn(ws, c)
    BY <1>2, <1>3, <2>2
  <2>4. UnderIn(ws, x) \subseteq UnderIn(ws, c)
    BY <2>3, UnderTransitive
  <2> QED
    BY <2>1, <2>4
<1> QED
  BY <1>4, <1>5, <1>6

\* No registration's handlers come or go.
SameFrames ==
  /\ stack' \in Seq(FrameSet)
  /\ \A id \in Ids : FramesOf(stack', id) = FramesOf(stack, id) /\ Emitting(stack', id) = Emitting(stack, id)

\* A forest is one by its parents and states.
LEMMA SameForest ==
  ASSUME ForestInv, widgets \in Seq(WidgetSet), widgets' \in Seq(WidgetSet),
         Len(widgets') = Len(widgets), DOMAIN widgets' = DOMAIN widgets,
         \A w \in Widgets : widgets'[w].state = widgets[w].state /\ widgets'[w].parent = widgets[w].parent
  PROVE  Forest(widgets')
<1>1. Forest(widgets) /\ DOMAIN widgets = Widgets
  BY ForestDef DEF Widgets
<1>2. Acyclic(widgets')
  <2>1. /\ \A w \in DOMAIN widgets : widgets'[w].parent \in {0, widgets[w].parent}
        /\ \A w \in DOMAIN widgets' \ DOMAIN widgets : widgets'[w].parent = 0
        /\ \A w \in DOMAIN widgets : widgets[w].parent \in 0..Len(widgets)
        /\ DOMAIN widgets \subseteq DOMAIN widgets' /\ Acyclic(widgets)
    BY <1>1 DEF Forest
  <2> QED
    BY <2>1, DetachedAcyclic
<1> QED
  BY <1>1, <1>2 DEF Forest

\* Widgets come, are moved, or go when nothing is registered on them.
LEMMA WidgetsInv ==
  ASSUME IInv, UNCHANGED <<appVars, reg, disk>>, ~stopped, StackInv', SameFrames,
         widgets' \in Seq(WidgetSet), Len(widgets') >= Len(widgets),
         \A w \in Widgets : widgets'[w].state = "disposed" =>
           widgets[w].state = "disposed" \/ \A id \in Ids : reg[id].owner = w => Ended(reg[id]),
         Forest(widgets'), BusyInv'
  PROVE  IInv' /\ NoLate
<1>1. Types'
  BY DEF IInv, Types, appVars, SameFrames
<1>2. RegInv'
  BY DEF IInv, RegInv, SameFrames, Ids
<1>3. DiskInv'
  BY DEF IInv, DiskInv, Ids
<1>4. OwnerInv'
  <2> SUFFICES ASSUME NEW id \in Ids
               PROVE  /\ reg[id].owner <= Len(widgets')
                      /\ reg[id].owner = 0 => reg[id].kind \in {"signal", "post", "save"}
                      /\ reg[id].kind \in {"post", "save"} => reg[id].owner = 0
                      /\ reg[id].owner # 0 /\ widgets'[reg[id].owner].state = "disposed" => Ended(reg[id])
    BY DEF OwnerInv, appVars, Ids
  <2>1. reg[id].owner \in Nat /\ Len(widgets) \in Nat /\ Len(widgets') \in Nat
    BY OneReg, Indices, LenProperties DEF Registration, IInv
  <2>2. reg[id].owner <= Len(widgets)
    BY DEF IInv, OwnerInv
  <2>3. reg[id].owner # 0 => reg[id].owner \in Widgets
    BY <2>1, <2>2, Indices DEF IInv
  <2>4. /\ reg[id].owner = 0 => reg[id].kind \in {"signal", "post", "save"}
        /\ reg[id].kind \in {"post", "save"} => reg[id].owner = 0
        /\ reg[id].owner # 0 /\ widgets[reg[id].owner].state = "disposed" => Ended(reg[id])
    BY DEF IInv, OwnerInv
  <2> QED
    BY <2>1, <2>2, <2>3, <2>4
<1>5. StopInv'
  BY DEF StopInv, appVars
<1>6. ForestInv'
  BY ForestDef
<1>7. NoLate
  BY OneReg DEF NoLate
<1> QED
  BY <1>1, <1>2, <1>3, <1>4, <1>5, <1>6, <1>7 DEF IInv

\* Widgets change and no frame does.
LEMMA SameStack ==
  ASSUME IInv, UNCHANGED <<appVars, reg, stack>>, Len(widgets') \in Nat,
         Len(widgets') >= Len(widgets)
  PROVE  StackInv' /\ SameFrames
<1>1. Len(widgets) \in Nat /\ stack \in Seq(FrameSet)
  BY Indices DEF IInv, Types
<1>2. SameFrames
  BY <1>1 DEF SameFrames
<1>3. \A k \in DOMAIN stack : stack[k].id = 0 => stack[k].part \in 0..Len(widgets')
  BY <1>1 DEF IInv, StackInv
<1> QED
  BY <1>2, <1>3 DEF IInv, StackInv, appVars

\* GTK's code for a page is entered, ...
LEMMA PushPage ==
  ASSUME IInv, NEW w \in Widgets, stack' = Append(stack, Frame(0, w)),
         UNCHANGED appVars, Len(reg') = Len(reg), Len(widgets') = Len(widgets)
  PROVE  StackInv' /\ SameFrames
<1>1. /\ stack \in Seq(FrameSet) /\ w \in 1..Len(widgets) /\ Len(widgets) \in Nat
      /\ Ids \subseteq Nat \ {0} /\ Len(reg) \in Nat
  BY Indices DEF IInv, Types
<1>2. Frame(0, w) \in FrameSet /\ Frame(0, w).id = 0 /\ Frame(0, w).part = w
  BY <1>1 DEF Frame, FrameSet
<1>3. Pushed(stack, 0, w, stack') /\ stack'[Len(stack')] = Frame(0, w)
  <2>1. Pushed(stack, 0, w, stack')
    BY <1>1, <1>2, AppendFrames
  <2>2. stack'[Len(stack) + 1] = Frame(0, w) /\ Len(stack') = Len(stack) + 1
    BY <1>1, <1>2, AppendProperties
  <2> QED
    BY <2>1, <2>2
<1>4. /\ stack' \in Seq(FrameSet)
      /\ \A k \in DOMAIN stack : k \in DOMAIN stack' /\ stack'[k] = stack[k]
      /\ \A k \in DOMAIN stack' : k \in DOMAIN stack \/ k = Len(stack')
      /\ \A j \in Ids : FramesOf(stack', j) = FramesOf(stack, j) /\ Emitting(stack', j) = Emitting(stack, j)
      /\ Cardinality(Handlers(stack')) = Cardinality(Handlers(stack))
  BY <1>1, <1>3 DEF Pushed
<1>5. ASSUME NEW k \in DOMAIN stack'
      PROVE  /\ stack'[k].id <= Len(reg)
             /\ stack'[k].id = 0 => /\ stack'[k].part \in 0..Len(widgets)
                                    /\ stack'[k].part = 0 => stopped
  <2>1. CASE k \in DOMAIN stack
    BY <1>4, <2>1 DEF IInv, StackInv
  <2>2. CASE k = Len(stack')
    BY <1>1, <1>2, <1>3, <2>2
  <2> QED
    BY <1>4, <2>1, <2>2
<1>6. StackInv'
  BY <1>4, <1>5 DEF IInv, StackInv, appVars
<1> QED
  BY <1>4, <1>6 DEF SameFrames

\* ... and left.
LEMMA PopPage ==
  ASSUME IInv, stack # <<>>, Top.id = 0, stack' = Popped,
         UNCHANGED <<appVars, reg>>, Len(widgets') = Len(widgets)
  PROVE  StackInv' /\ SameFrames
<1>1. /\ stack \in Seq(FrameSet) /\ Popped \in Seq(FrameSet) /\ Top \in FrameSet
      /\ stack = Append(Popped, Top) /\ Ids \subseteq Nat \ {0}
  BY PopFrames, Indices DEF IInv, Types, Popped, Top
<1>2. Pushed(Popped, 0, Top.part, stack)
  BY <1>1, AppendFrames
<1>3. /\ \A k \in DOMAIN Popped : k \in DOMAIN stack /\ stack[k] = Popped[k]
      /\ \A j \in Ids : FramesOf(stack, j) = FramesOf(Popped, j) /\ Emitting(stack, j) = Emitting(Popped, j)
      /\ Cardinality(Handlers(stack)) = Cardinality(Handlers(Popped))
  BY <1>1, <1>2 DEF Pushed
<1>4. StackInv'
  BY <1>3 DEF IInv, StackInv, appVars
<1> QED
  BY <1>1, <1>3, <1>4 DEF SameFrames

\* The page on top of the stack is a widget.
LEMMA TopPage ==
  ASSUME Types, StackInv, stack # <<>>, Top.id = 0, Top.part # 0
  PROVE  Top.part \in Widgets
<1>1. Len(stack) \in DOMAIN stack
  BY Indices, EmptySeq DEF Types
<1>2. Top.part \in 0..Len(widgets)
  BY <1>1 DEF StackInv, Top
<1> QED
  BY <1>2, Indices

\* One widget changes.
LEMMA OneWidget ==
  ASSUME Types, NEW c \in Widgets, NEW e \in WidgetSet, widgets' = [widgets EXCEPT ![c] = e]
  PROVE  /\ widgets' \in Seq(WidgetSet) /\ Len(widgets') = Len(widgets) /\ Len(widgets) \in Nat
         /\ DOMAIN widgets' = DOMAIN widgets /\ Widgets' = Widgets /\ widgets'[c] = e
         /\ \A w \in Widgets : w # c => widgets'[w] = widgets[w]
<1>1. widgets \in Seq(WidgetSet) /\ c \in DOMAIN widgets
  BY DEF Types, Widgets
<1>2. widgets' \in Seq(WidgetSet) /\ Len(widgets') = Len(widgets)
  BY <1>1, ExceptSeq
<1> QED
  BY <1>1, <1>2, Indices DEF Widgets

\* A page begins to be added, or a widget is no page any more.
LEMMA BusyOne ==
  ASSUME IInv, UNCHANGED reg, Widgets' = Widgets, NEW c \in Widgets,
         \A w \in Widgets : w # c => widgets'[w] = widgets[w],
         widgets'[c].state # "twice", widgets'[c].since = widgets[c].since,
         \/ widgets'[c].busy = "no"
         \/ widgets'[c].busy = "append" /\ widgets'[c].parent = 0 /\ widgets'[c].page \in Widgets
  PROVE  BusyInv'
<1>1. Ids' = Ids
  BY DEF Ids
<1>2. widgets[c].since <= Len(reg)
  BY DEF IInv, BusyInv
<1>3. ASSUME NEW w \in Widgets
      PROVE  /\ widgets'[w].state # "twice" /\ widgets'[w].busy # "reentered"
             /\ widgets'[w].busy # "no" => widgets'[w].parent = 0 /\ widgets'[w].page \in Widgets
             /\ widgets'[w].since <= Len(reg)
             /\ widgets'[w].busy = "dispose" =>
                  \A id \in Ids : reg[id].owner = w /\ id <= widgets'[w].since => Ended(reg[id])
  <2>1. CASE w = c
    BY <1>2, <2>1
  <2>2. CASE w # c
    BY <2>2 DEF IInv, BusyInv
  <2> QED
    BY <2>1, <2>2
<1> QED
  BY <1>1, <1>3 DEF BusyInv

\* cwhip_gtk_widget_create.
LEMMA WidgetCreateStep == ASSUME IInv, widget_create PROVE IInv' /\ NoLate
<1> DEFINE n == Len(widgets) + 1
           e == [type |-> program.widgets[n], state |-> "live", parent |-> 0,
                 busy |-> "no", page |-> 0, since |-> 0]
<1>1. /\ ~stopped /\ Len(widgets) < Len(program.widgets) /\ widgets' = Append(widgets, e)
      /\ UNCHANGED <<appVars, reg, stack, disk>>
  BY DEF widget_create
<1>2. /\ widgets \in Seq(WidgetSet) /\ Len(widgets) \in Nat /\ DOMAIN widgets = 1..Len(widgets)
      /\ program.widgets \in Seq(WidgetTypes)
  BY Indices, GtkAssumption DEF IInv, Types, Widgets
<1>3. program.widgets[n] \in WidgetTypes
  <2>1. n \in 1..Len(program.widgets) /\ Len(program.widgets) \in Nat
    BY <1>1, <1>2, LenProperties
  <2> QED
    BY <1>2, <2>1, ElementOfSeq
<1>4. e \in WidgetSet /\ e.parent = 0 /\ e.state = "live" /\ e.busy = "no" /\ e.since = 0
  BY <1>3 DEF WidgetSet
<1> HIDE DEF e
<1>5. /\ widgets' \in Seq(WidgetSet) /\ Len(widgets') = n /\ DOMAIN widgets' = 1..n
      /\ widgets'[n] = e /\ \A w \in DOMAIN widgets : widgets'[w] = widgets[w]
  BY <1>1, <1>2, <1>4, AppendProperties, LenProperties
<1>6. DOMAIN widgets' = DOMAIN widgets \cup {n} /\ n \notin DOMAIN widgets /\ n # 0
  BY <1>2, <1>5
<1>7. Forest(widgets)
  BY ForestDef DEF IInv
<1>8. Acyclic(widgets')
  <2>1. /\ \A w \in DOMAIN widgets : widgets'[w].parent \in {0, widgets[w].parent}
        /\ \A w \in DOMAIN widgets' \ DOMAIN widgets : widgets'[w].parent = 0
        /\ \A w \in DOMAIN widgets : widgets[w].parent \in 0..Len(widgets)
        /\ DOMAIN widgets \subseteq DOMAIN widgets' /\ Acyclic(widgets)
    BY <1>4, <1>5, <1>6, <1>7 DEF Forest
  <2> QED
    BY <1>2, <1>5, <2>1, DetachedAcyclic
<1>9. /\ \A w \in DOMAIN widgets' : widgets'[w].parent \in 0..n
      /\ \A w \in DOMAIN widgets' : widgets'[w].state = "disposed" =>
           widgets'[w].parent = 0 /\ \A x \in DOMAIN widgets' : widgets'[x].parent # w
  <2>1. \A w \in DOMAIN widgets' : w \in DOMAIN widgets \/ w = n
    BY <1>6
  <2>2. \A w \in DOMAIN widgets : widgets'[w].parent \in 0..n
    BY <1>2, <1>5, <1>7 DEF Forest
  <2>3. \A w \in DOMAIN widgets : widgets'[w].state = "disposed" =>
           widgets'[w].parent = 0 /\ w # 0 /\ \A x \in DOMAIN widgets : widgets'[x].parent # w
    BY <1>2, <1>5, <1>7 DEF Forest
  <2>4. widgets'[n].parent = 0 /\ widgets'[n].state = "live" /\ 0 \in 0..n
    BY <1>2, <1>4, <1>5
  <2> QED
    BY <2>1, <2>2, <2>3, <2>4
<1>10. Forest(widgets')
  BY <1>5, <1>8, <1>9 DEF Forest
<1>11. /\ Len(widgets') >= Len(widgets) /\ Len(widgets') \in Nat
       /\ \A w \in Widgets : widgets'[w].state = widgets[w].state
  BY <1>2, <1>5 DEF Widgets
<1>12. BusyInv'
  <2>1. Ids' = Ids /\ Len(reg) \in Nat
    BY <1>1, Indices DEF Ids, IInv
  <2>2. ASSUME NEW w \in Widgets'
        PROVE  /\ widgets'[w].state # "twice" /\ widgets'[w].busy # "reentered"
               /\ widgets'[w].busy # "no" => widgets'[w].parent = 0 /\ widgets'[w].page \in Widgets'
               /\ widgets'[w].since <= Len(reg)
               /\ widgets'[w].busy = "dispose" =>
                    \A id \in Ids : reg[id].owner = w /\ id <= widgets'[w].since => Ended(reg[id])
    <3>1. CASE w \in DOMAIN widgets
      <4>1. widgets'[w] = widgets[w] /\ w \in Widgets /\ Widgets \subseteq Widgets'
        BY <1>5, <1>6, <3>1 DEF Widgets
      <4> QED
        BY <4>1 DEF IInv, BusyInv
    <3>2. CASE w = n
      BY <1>4, <1>5, <2>1, <3>2
    <3> QED
      BY <1>6, <3>1, <3>2 DEF Widgets
  <2> QED
    BY <1>1, <2>1, <2>2 DEF BusyInv
<1> QED
  BY <1>1, <1>5, <1>10, <1>11, <1>12, SameStack, WidgetsInv

\* A widget gets another parent.
LEMMA SetParentFields ==
  ASSUME IInv, NEW c \in Widgets, NEW p \in Nat, SetParent(c, p)
  PROVE  /\ widgets' \in Seq(WidgetSet) /\ Len(widgets') = Len(widgets)
         /\ DOMAIN widgets' = DOMAIN widgets /\ widgets'[c].parent = p
         /\ \A w \in DOMAIN widgets : w # c => widgets'[w] = widgets[w]
         /\ \A w \in DOMAIN widgets : widgets'[w].state = widgets[w].state
         /\ widgets'[c].busy = widgets[c].busy /\ widgets'[c].page = widgets[c].page
         /\ widgets'[c].since = widgets[c].since
         /\ UNCHANGED <<appVars, reg, stack, disk>>
         /\ StackInv' /\ SameFrames
<1> DEFINE e == [widgets[c] EXCEPT !.parent = p]
<1>1. widgets \in Seq(WidgetSet) /\ widgets[c] \in WidgetSet /\ c \in DOMAIN widgets
  BY Indices DEF IInv, Types, Widgets
<1>2. /\ e \in WidgetSet /\ e.parent = p /\ e.state = widgets[c].state
      /\ e.busy = widgets[c].busy /\ e.page = widgets[c].page /\ e.since = widgets[c].since
  BY <1>1 DEF WidgetSet
<1>3. widgets' = [widgets EXCEPT ![c] = e] /\ UNCHANGED <<appVars, reg, stack, disk>>
  BY DEF SetParent
<1> HIDE DEF e
<1>4. widgets' \in Seq(WidgetSet) /\ Len(widgets') = Len(widgets)
  BY <1>1, <1>2, <1>3, ExceptSeq
<1>5. StackInv' /\ SameFrames
  BY <1>3, <1>4, Indices, SameStack DEF IInv
<1> QED
  BY <1>1, <1>2, <1>3, <1>4, <1>5

\* A parent that may be one is set, in GTK or at the end of what GTK does.
LEMMA ParentInv ==
  ASSUME IInv, ~stopped, NEW p \in Widgets, NEW c \in Widgets, Live(p), Live(c), p \notin Under(c),
         UNCHANGED <<appVars, reg, disk>>, StackInv', SameFrames,
         widgets' \in Seq(WidgetSet), Len(widgets') = Len(widgets), DOMAIN widgets' = DOMAIN widgets,
         \A w \in Widgets : w # c => widgets'[w] = widgets[w],
         widgets'[c].parent = p, widgets'[c].state = widgets[c].state, widgets'[c].busy = "no",
         widgets'[c].since = widgets[c].since
  PROVE  IInv' /\ NoLate
<1>1. p \in 1..Len(widgets) /\ Widgets = 1..Len(widgets) /\ Len(widgets) \in Nat
  BY Indices DEF IInv
<1>2. Forest(widgets)
  BY ForestDef DEF IInv
<1>3. Acyclic(widgets')
  <2>1. p \notin UnderIn(widgets, c) /\ Acyclic(widgets)
    BY <1>2, UnderDef DEF Forest
  <2>2. \A w \in DOMAIN widgets \ {c} : widgets'[w].parent = widgets[w].parent
    BY DEF Widgets
  <2> QED
    BY <2>1, <2>2, AttachedAcyclic DEF Widgets
<1>4. \A w \in Widgets : widgets'[w].state = widgets[w].state
  OBVIOUS
<1>5. /\ \A w \in DOMAIN widgets' : widgets'[w].parent \in 0..Len(widgets')
      /\ \A w \in DOMAIN widgets' : widgets'[w].state = "disposed" =>
           widgets'[w].parent = 0 /\ \A x \in DOMAIN widgets' : widgets'[x].parent # w
  BY <1>1, <1>2, <1>4, SMTT(40) DEF Forest, Live, Widgets
<1>6. Forest(widgets')
  BY <1>3, <1>5 DEF Forest
<1>7. BusyInv'
  <2>1. widgets'[c].state # "twice" /\ Widgets' = Widgets
    BY DEF Live, Widgets
  <2> QED
    BY <2>1, BusyOne
<1> QED
  BY <1>1, <1>4, <1>6, <1>7, WidgetsInv

\* cwhip_gtk_widget_attach.
LEMMA WidgetAttachStep == ASSUME IInv, widget_attach PROVE IInv' /\ NoLate
<1>1. PICK p \in Widgets, c \in Widgets :
        Live(p) /\ Live(c) /\ may_attach(p, c) /\ SetParent(c, p)
  BY DEF widget_attach
<1>2. ~stopped /\ p \in Nat
  BY Indices DEF widget_attach, IInv
<1> QED
  BY <1>1, <1>2, SetParentFields, ParentInv DEF may_attach, Widgets

\* cwhip_gtk_notebook_append: the parent is set now, or when GTK has switched.
LEMMA NotebookAppendStep == ASSUME IInv, notebook_append PROVE IInv' /\ NoLate
<1>1. PICK p \in Widgets, c \in Widgets :
        /\ Live(p) /\ Live(c) /\ may_attach(p, c)
        /\ \/ SetParent(c, p)
           \/ /\ widgets' = [widgets EXCEPT ![c].busy = "append", ![c].page = p]
              /\ stack' = Append(stack, Frame(0, c))
              /\ UNCHANGED <<appVars, reg, disk>>
  BY DEF notebook_append
<1>2. ~stopped /\ p \in Nat
  BY Indices DEF notebook_append, IInv
<1>3. CASE SetParent(c, p)
  BY <1>1, <1>2, <1>3, SetParentFields, ParentInv DEF may_attach, Widgets
<1>4. CASE /\ widgets' = [widgets EXCEPT ![c].busy = "append", ![c].page = p]
           /\ stack' = Append(stack, Frame(0, c))
           /\ UNCHANGED <<appVars, reg, disk>>
  <2> DEFINE e == [widgets[c] EXCEPT !.busy = "append", !.page = p]
  <2>1. widgets \in Seq(WidgetSet) /\ widgets[c] \in WidgetSet /\ c \in DOMAIN widgets
    BY Indices DEF IInv, Types, Widgets
  <2>2. /\ e \in WidgetSet /\ e.state = widgets[c].state /\ e.parent = widgets[c].parent
        /\ e.busy = "append" /\ e.page = p /\ e.since = widgets[c].since
    BY <1>2, <2>1 DEF WidgetSet
  <2>3. widgets' = [widgets EXCEPT ![c] = e]
    BY <1>4, <2>1
  <2> HIDE DEF e
  <2>4. /\ widgets' \in Seq(WidgetSet) /\ Len(widgets') = Len(widgets) /\ Len(widgets) \in Nat
        /\ DOMAIN widgets' = DOMAIN widgets /\ Widgets' = Widgets /\ widgets'[c] = e
        /\ \A w \in Widgets : w # c => widgets'[w] = widgets[w]
    BY <2>2, <2>3, OneWidget DEF IInv
  <2>5. \A w \in Widgets : widgets'[w].state = widgets[w].state /\ widgets'[w].parent = widgets[w].parent
    BY <2>2, <2>4
  <2>6. Forest(widgets')
    BY <2>1, <2>4, <2>5, SameForest DEF IInv
  <2>7. BusyInv'
    <3>1. e.state # "twice" /\ e.parent = 0
      BY <1>1, <2>2 DEF Live, may_attach
    <3>2. UNCHANGED <<appVars, reg, disk>>
      BY <1>4
    <3> QED
      BY <2>2, <2>4, <3>1, <3>2, BusyOne
  <2>8. StackInv' /\ SameFrames
    BY <1>4, <2>4, PushPage
  <2>9. UNCHANGED <<appVars, reg, disk>> /\ Len(widgets') >= Len(widgets)
    BY <1>4, <2>4
  <2>10. \A w \in Widgets : widgets'[w].state = "disposed" => widgets[w].state = "disposed"
    BY <2>5
  <2> QED
    BY <1>2, <2>4, <2>6, <2>7, <2>8, <2>9, <2>10, WidgetsInv
<1> QED
  BY <1>1, <1>3, <1>4

\* cwhip_gtk_widget_remove.
LEMMA WidgetRemoveStep == ASSUME IInv, widget_remove PROVE IInv' /\ NoLate
<1>1. PICK c \in Widgets : SetParent(c, 0)
  BY DEF widget_remove
<1>2. ~stopped /\ Widgets = 1..Len(widgets) /\ Len(widgets) \in Nat
  BY Indices DEF widget_remove, IInv
<1>3. /\ widgets' \in Seq(WidgetSet) /\ Len(widgets') = Len(widgets)
      /\ DOMAIN widgets' = DOMAIN widgets /\ widgets'[c].parent = 0
      /\ \A w \in DOMAIN widgets : w # c => widgets'[w] = widgets[w]
      /\ \A w \in DOMAIN widgets : widgets'[w].state = widgets[w].state
      /\ widgets'[c].busy = widgets[c].busy /\ widgets'[c].page = widgets[c].page
      /\ widgets'[c].since = widgets[c].since
      /\ UNCHANGED <<appVars, reg, stack, disk>> /\ StackInv' /\ SameFrames
  BY <1>1, <1>2, SetParentFields
<1>4. Forest(widgets) /\ widgets \in Seq(WidgetSet)
  BY ForestDef DEF IInv, Types
<1>5. Acyclic(widgets')
  <2>1. /\ \A w \in DOMAIN widgets : widgets'[w].parent \in {0, widgets[w].parent}
        /\ \A w \in DOMAIN widgets' \ DOMAIN widgets : widgets'[w].parent = 0
        /\ \A w \in DOMAIN widgets : widgets[w].parent \in 0..Len(widgets)
        /\ DOMAIN widgets \subseteq DOMAIN widgets' /\ Acyclic(widgets)
    BY <1>3, <1>4 DEF Forest
  <2> QED
    BY <1>3, <1>4, <2>1, DetachedAcyclic
<1>6. /\ \A w \in DOMAIN widgets' : widgets'[w].parent \in 0..Len(widgets')
      /\ \A w \in DOMAIN widgets' : widgets'[w].state = "disposed" =>
           widgets'[w].parent = 0 /\ \A x \in DOMAIN widgets' : widgets'[x].parent # w
  <2>1. /\ \A w \in DOMAIN widgets : widgets[w].parent \in 0..Len(widgets)
        /\ \A w \in DOMAIN widgets : widgets[w].state = "disposed" =>
             widgets[w].parent = 0 /\ \A x \in DOMAIN widgets : widgets[x].parent # w
    BY <1>4 DEF Forest
  <2>2. \A w \in DOMAIN widgets : widgets'[w].parent \in {0, widgets[w].parent}
    BY <1>3
  <2>3. \A w \in DOMAIN widgets : w # 0
    BY <1>2 DEF Widgets
  <2> QED
    BY <1>2, <1>3, <2>1, <2>2, <2>3
<1>7. Forest(widgets')
  BY <1>5, <1>6 DEF Forest
<1>8. BusyInv'
  <2>1. \A w \in Widgets : /\ widgets'[w].state # "twice" /\ widgets'[w].busy = widgets[w].busy
                           /\ widgets'[w].page = widgets[w].page
                           /\ widgets'[w].since = widgets[w].since
                           /\ widgets'[w].parent \in {0, widgets[w].parent}
    BY <1>3 DEF IInv, BusyInv, Widgets
  <2>2. Ids' = Ids /\ Widgets' = Widgets /\ reg' = reg
    BY <1>3 DEF Ids, Widgets
  <2> QED
    BY <2>1, <2>2, BusyKept
<1> QED
  BY <1>2, <1>3, <1>7, <1>8, WidgetsInv DEF Widgets

----------------------------------------------------------------------------
(* Disposal and shutdown.                                                  *)

\* What widget_dispose does to the registrations of some widgets ends them.
LEMMA DisposeRegs ==
  ASSUME IInv, NEW regs, NEW ws \in SUBSET Widgets,
         reg' = [id \in Ids |-> IF regs[id].owner \in ws
                                THEN dispose_one(regs[id], Emitting(stack, id)) ELSE regs[id]],
         \A id \in Ids : /\ RegOK(regs[id], Emitting(stack, id)) /\ Follows(reg[id], regs[id])
                         /\ regs[id].flight = reg[id].flight
  PROVE  /\ reg' \in Seq(Registration) /\ Len(reg') = Len(reg) /\ Ids' = Ids
         /\ \A id \in Ids : /\ RegOK(reg'[id], Emitting(stack, id)) /\ Follows(reg[id], reg'[id])
                            /\ reg'[id].flight = reg[id].flight
                            /\ Ended(regs[id]) \/ regs[id].owner \in ws => Ended(reg'[id])
<1>1. ASSUME NEW id \in Ids
      PROVE  /\ RegOK(reg'[id], Emitting(stack, id)) /\ Follows(reg[id], reg'[id])
             /\ reg'[id].flight = reg[id].flight
             /\ Ended(regs[id]) \/ regs[id].owner \in ws => Ended(reg'[id])
  <2> DEFINE r == regs[id]
             t == dispose_one(r, Emitting(stack, id))
  <2>1. RegOK(r, Emitting(stack, id)) /\ Follows(reg[id], r) /\ r.flight = reg[id].flight
    OBVIOUS
  <2>2. CASE r.owner \in ws
    <3>1. r.owner # 0 /\ r.owner = reg[id].owner /\ r.kind = reg[id].kind
      BY <2>1, <2>2, Indices DEF IInv, Follows
    <3>2. r.kind \notin {"post", "save"}
      BY <3>1 DEF IInv, OwnerInv
    <3>3. Emitting(stack, id) = {} <=> r.flight = 0
      BY <2>1, OneReg
    <3> HIDE DEF r
    <3>4. RegOK(t, Emitting(stack, id)) /\ Follows(r, t) /\ t.flight = r.flight /\ Ended(t)
      BY <2>1, <3>2, <3>3, DisposeOneOK
    <3>5. reg'[id] = t
      BY <2>2 DEF r
    <3> HIDE DEF t
    <3> QED
      BY <2>1, <3>4, <3>5 DEF Follows
  <2>3. CASE r.owner \notin ws
    BY <2>1, <2>3
  <2> QED
    BY <2>2, <2>3
<1>2. reg' \in Seq(Registration) /\ Len(reg') = Len(reg) /\ Ids' = Ids
  <2>1. reg' \in [1..Len(reg) -> Registration] /\ Len(reg) \in Nat
    <3>1. \A id \in Ids : reg'[id] \in Registration
      BY <1>1 DEF RegOK
    <3>2. reg' = [id \in Ids |-> reg'[id]]
      OBVIOUS
    <3> QED
      BY ONLY <3>1, <3>2, IInv, Indices DEF IInv
  <2>2. DOMAIN reg' = 1..Len(reg)
    BY <2>1
  <2> QED
    BY <2>1, <2>2, IsASeq, LenProperties, Indices DEF Ids, IInv
<1> QED
  BY <1>1, <1>2

\* Widgets go with all that is attached to them, others may be detached, and
\* what is left is a forest of live widgets.
LEMMA DisposeWidgets ==
  ASSUME IInv, NEW ws \in SUBSET Widgets, ClosedIn(widgets, ws),
         widgets' = [x \in Widgets |-> widgets'[x]],
         \A w \in Widgets : /\ widgets'[w] \in WidgetSet
                            /\ widgets'[w].state = IF w \in ws THEN "disposed" ELSE widgets[w].state
                            /\ widgets'[w].parent \in {0, widgets[w].parent}
                            /\ w \in ws => widgets'[w].parent = 0
  PROVE  /\ widgets' \in Seq(WidgetSet) /\ Len(widgets') = Len(widgets) /\ Widgets' = Widgets
         /\ Forest(widgets')
<1>4. /\ Widgets = 1..Len(widgets) /\ Len(widgets) \in Nat /\ widgets \in Seq(WidgetSet)
      /\ \A w \in Widgets : widgets[w] \in WidgetSet
  BY Indices DEF IInv, Types
<1>6. widgets' \in Seq(WidgetSet) /\ Len(widgets') = Len(widgets) /\ DOMAIN widgets' = Widgets
  <2>1. widgets' \in [1..Len(widgets) -> WidgetSet]
    BY <1>4
  <2>2. DOMAIN widgets' = 1..Len(widgets)
    BY <2>1
  <2> QED
    BY <1>4, <2>1, <2>2, IsASeq, LenProperties
<1>7. Forest(widgets) /\ DOMAIN widgets = Widgets /\ 0 \notin Widgets
  BY <1>4, ForestDef DEF IInv, Widgets
<1>8. Acyclic(widgets')
  <2>1. /\ \A w \in DOMAIN widgets : widgets'[w].parent \in {0, widgets[w].parent}
        /\ \A w \in DOMAIN widgets' \ DOMAIN widgets : widgets'[w].parent = 0
        /\ \A w \in DOMAIN widgets : widgets[w].parent \in 0..Len(widgets)
        /\ DOMAIN widgets \subseteq DOMAIN widgets' /\ Acyclic(widgets)
    BY <1>6, <1>7 DEF Forest
  <2> QED
    BY <1>4, <1>6, <2>1, DetachedAcyclic
<1>9. \A w \in Widgets : widgets'[w].parent \in 0..Len(widgets)
  BY <1>4, <1>7 DEF Forest
<1>10. ASSUME NEW w \in Widgets, widgets'[w].state = "disposed"
       PROVE  widgets'[w].parent = 0 /\ \A x \in Widgets : widgets'[x].parent # w
  <2>1. CASE w \in ws
    <3>1. \A x \in Widgets : widgets'[x].parent # w
      <4> TAKE x \in Widgets
      <4>1. CASE x \in ws
        BY <1>7, <4>1
      <4>2. CASE x \notin ws
        BY <1>7, <2>1, <4>2 DEF ClosedIn
      <4> QED
        BY <4>1, <4>2
    <3> QED
      BY <2>1, <3>1
  <2>2. CASE w \notin ws
    <3>1. widgets[w].parent = 0 /\ \A x \in Widgets : widgets[x].parent # w
      BY <1>7, <1>10, <2>2 DEF Forest
    <3> QED
      BY <1>7, <2>2, <3>1
  <2> QED
    BY <2>1, <2>2
<1>11. Forest(widgets')
  BY <1>6, <1>8, <1>9, <1>10 DEF Forest
<1> QED
  BY <1>6, <1>11 DEF Widgets

\* widget_dispose of all that is attached to some widgets ends their
\* registrations, and leaves a forest of live widgets.
LEMMA DisposeFields ==
  ASSUME IInv, NEW regs, NEW ws \in SUBSET Widgets, ClosedIn(widgets, ws),
         widget_dispose(regs, ws),
         \A id \in Ids : /\ RegOK(regs[id], Emitting(stack, id)) /\ Follows(reg[id], regs[id])
                         /\ regs[id].flight = reg[id].flight
  PROVE  /\ reg' \in Seq(Registration) /\ Len(reg') = Len(reg) /\ Ids' = Ids
         /\ \A id \in Ids : /\ RegOK(reg'[id], Emitting(stack, id)) /\ Follows(reg[id], reg'[id])
                            /\ reg'[id].flight = reg[id].flight
                            /\ Ended(regs[id]) \/ regs[id].owner \in ws => Ended(reg'[id])
         /\ widgets' \in Seq(WidgetSet) /\ Len(widgets') = Len(widgets)
         /\ \A w \in Widgets : widgets'[w].state = IF w \in ws THEN "disposed" ELSE widgets[w].state
         /\ Forest(widgets') /\ BusyInv'
<1>1. /\ reg' = [id \in Ids |-> IF regs[id].owner \in ws
                                THEN dispose_one(regs[id], Emitting(stack, id)) ELSE regs[id]]
      /\ widgets' = [x \in Widgets |->
                       IF x \in ws THEN [widgets[x] EXCEPT !.state = "disposed", !.parent = 0]
                       ELSE widgets[x]]
  BY DEF widget_dispose
<1>2. /\ reg' \in Seq(Registration) /\ Len(reg') = Len(reg) /\ Ids' = Ids
      /\ \A id \in Ids : /\ RegOK(reg'[id], Emitting(stack, id)) /\ Follows(reg[id], reg'[id])
                         /\ reg'[id].flight = reg[id].flight
                         /\ Ended(regs[id]) \/ regs[id].owner \in ws => Ended(reg'[id])
  BY <1>1, DisposeRegs
<1>3. ASSUME NEW w \in Widgets
      PROVE  /\ widgets'[w] \in WidgetSet
             /\ widgets'[w].state = IF w \in ws THEN "disposed" ELSE widgets[w].state
             /\ widgets'[w].parent = IF w \in ws THEN 0 ELSE widgets[w].parent
             /\ widgets'[w].busy = widgets[w].busy /\ widgets'[w].page = widgets[w].page
             /\ widgets'[w].since = widgets[w].since
  <2>0. widgets[w] \in WidgetSet
    BY Indices DEF IInv
  <2>1. CASE w \in ws
    <3> DEFINE e == widgets[w]
               v == [e EXCEPT !.state = "disposed", !.parent = 0]
    <3>1. e \in WidgetSet /\ widgets'[w] = v
      BY <1>1, <2>0, <2>1
    <3> HIDE DEF e
    <3>2. /\ v \in WidgetSet /\ v.state = "disposed" /\ v.parent = 0 /\ v.busy = e.busy
          /\ v.page = e.page /\ v.since = e.since
      BY <3>1 DEF WidgetSet
    <3> QED
      BY <2>1, <3>1, <3>2 DEF e
  <2>2. CASE w \notin ws
    BY <1>1, <2>0, <2>2
  <2> QED
    BY <2>1, <2>2
<1>4. widgets' = [x \in Widgets |-> widgets'[x]]
  BY <1>1
<1>5. /\ widgets' \in Seq(WidgetSet) /\ Len(widgets') = Len(widgets) /\ Widgets' = Widgets
      /\ Forest(widgets')
  <2>1. \A w \in Widgets : /\ widgets'[w] \in WidgetSet
                           /\ widgets'[w].state = IF w \in ws THEN "disposed" ELSE widgets[w].state
                           /\ widgets'[w].parent \in {0, widgets[w].parent}
                           /\ w \in ws => widgets'[w].parent = 0
    BY <1>3
  <2> HIDE <1>1
  <2> QED
    BY <1>4, <2>1, DisposeWidgets
<1>6. BusyInv'
  <2>1. \A w \in Widgets : /\ widgets'[w].state # "twice" /\ widgets'[w].busy = widgets[w].busy
                           /\ widgets'[w].page = widgets[w].page
                           /\ widgets'[w].since = widgets[w].since
                           /\ widgets'[w].parent \in {0, widgets[w].parent}
    BY <1>3 DEF IInv, BusyInv
  <2>2. \A id \in Ids : reg'[id].owner = reg[id].owner /\ (Ended(reg[id]) => Ended(reg'[id]))
    BY <1>2 DEF Follows
  <2> QED
    BY <1>2, <1>5, <2>1, <2>2, BusyKept
<1> QED
  BY <1>2, <1>3, <1>5, <1>6

\* The parts of the invariant that neither disposal nor shutdown endanger.
LEMMA DisposeInv ==
  ASSUME IInv, UNCHANGED <<program, disk>>,
         phase' \in {"setup", "running", "over"}, quit' \in BOOLEAN, stopped' \in BOOLEAN,
         stack' \in Seq(FrameSet), StackInv', StopInv', OwnerInv', BusyInv',
         reg' \in Seq(Registration), Len(reg') = Len(reg),
         \A id \in Ids : /\ RegOK(reg'[id], Emitting(stack', id))
                         /\ reg'[id].flight = Cardinality(FramesOf(stack', id))
                         /\ Follows(reg[id], reg'[id]) /\ reg'[id].flight = reg[id].flight,
         widgets' \in Seq(WidgetSet), Forest(widgets')
  PROVE  IInv' /\ NoLate
<1>1. Ids' = Ids
  BY LenProperties, Indices DEF IInv, Ids
<1>2. Types'
  BY DEF IInv, Types
<1>3. RegInv'
  BY <1>1 DEF RegInv
<1>4. DiskInv'
  BY <1>1 DEF IInv, DiskInv, WriteOK, Follows
<1>5. ForestInv'
  BY ForestDef
<1>6. NoLate
  BY OneReg DEF NoLate
<1> QED
  BY <1>2, <1>3, <1>4, <1>5, <1>6 DEF IInv

\* cwhip_gtk_widget_dispose, or a window that GTK destroys.
LEMMA DisposeStep == ASSUME IInv, dispose PROVE IInv' /\ NoLate
<1>1. PICK w \in Widgets : Live(w) /\ widget_dispose(reg, Under(w))
  BY DEF dispose
<1>2. ~stopped /\ UNCHANGED <<appVars, stack, disk>>
  BY DEF dispose
<1> DEFINE ws == UnderIn(widgets, w)
<1>3. ws \in SUBSET Widgets /\ ClosedIn(widgets, ws) /\ widget_dispose(reg, ws)
  BY <1>1, UnderLeast, UnderDef DEF Widgets
<1> HIDE DEF ws
<1>4. \A id \in Ids : /\ RegOK(reg[id], Emitting(stack, id)) /\ Follows(reg[id], reg[id])
                      /\ reg[id].flight = reg[id].flight
  BY OneReg DEF Follows
<1>5. /\ reg' \in Seq(Registration) /\ Len(reg') = Len(reg) /\ Ids' = Ids
      /\ \A id \in Ids : /\ RegOK(reg'[id], Emitting(stack, id)) /\ Follows(reg[id], reg'[id])
                         /\ reg'[id].flight = reg[id].flight
                         /\ Ended(reg[id]) \/ reg[id].owner \in ws => Ended(reg'[id])
      /\ widgets' \in Seq(WidgetSet) /\ Len(widgets') = Len(widgets)
      /\ \A x \in Widgets : widgets'[x].state = IF x \in ws THEN "disposed" ELSE widgets[x].state
      /\ Forest(widgets') /\ BusyInv'
  BY <1>3, <1>4, DisposeFields
<1>6. OwnerInv'
  <2> SUFFICES ASSUME NEW id \in Ids
               PROVE  /\ reg'[id].owner <= Len(widgets)
                      /\ reg'[id].owner = 0 => reg'[id].kind \in {"signal", "post", "save"}
                      /\ reg'[id].kind \in {"post", "save"} => reg'[id].owner = 0
                      /\ reg'[id].owner # 0 /\ widgets'[reg'[id].owner].state = "disposed" => Ended(reg'[id])
    BY <1>2, <1>5 DEF OwnerInv, appVars
  <2>1. reg'[id].owner = reg[id].owner /\ reg'[id].kind = reg[id].kind /\ (Ended(reg[id]) => Ended(reg'[id]))
    BY <1>5 DEF Follows
  <2>2. /\ reg[id].owner <= Len(widgets)
        /\ reg[id].owner = 0 => reg[id].kind \in {"signal", "post", "save"}
        /\ reg[id].kind \in {"post", "save"} => reg[id].owner = 0
        /\ reg[id].owner # 0 /\ widgets[reg[id].owner].state = "disposed" => Ended(reg[id])
    BY DEF IInv, OwnerInv
  <2>3. reg[id].owner # 0 => reg[id].owner \in Widgets
    BY <2>2, OneReg, Indices DEF IInv, Registration
  <2> QED
    BY <1>5, <2>1, <2>2, <2>3
<1>7. StackInv' /\ StopInv' /\ stack' \in Seq(FrameSet)
  BY <1>2, <1>5 DEF IInv, StackInv, StopInv, Types, appVars
<1>8. \A id \in Ids : /\ RegOK(reg'[id], Emitting(stack', id))
                      /\ reg'[id].flight = Cardinality(FramesOf(stack', id))
                      /\ Follows(reg[id], reg'[id]) /\ reg'[id].flight = reg[id].flight
  BY <1>2, <1>5 DEF IInv, RegInv
<1>9. /\ phase' \in {"setup", "running", "over"} /\ quit' \in BOOLEAN /\ stopped' \in BOOLEAN
      /\ UNCHANGED <<program, disk>>
  BY <1>2 DEF IInv, Types, appVars
<1> QED
  BY <1>5, <1>6, <1>7, <1>8, <1>9, DisposeInv

\* The current page of a notebook is disposed: all it had has ended when the
\* handlers of the notebook are called.
LEMMA DisposePageStep == ASSUME IInv, dispose_page PROVE IInv' /\ NoLate
<1> DEFINE D(w) == [id \in Ids |-> IF reg[id].owner \in Under(w)
                                   THEN dispose_one(reg[id], Emitting(stack, id)) ELSE reg[id]]
           V(w) == [x \in Widgets |->
                      CASE x = w -> [widgets[x] EXCEPT !.parent = 0, !.busy = "dispose",
                                                       !.page = widgets[w].parent, !.since = Len(reg)]
                        [] x \in Under(w) \ {w} -> [widgets[x] EXCEPT !.state = "disposed", !.parent = 0]
                        [] OTHER -> widgets[x]]
<1>1. PICK w \in Widgets : /\ Live(w) /\ widgets[w].parent # 0 /\ reg' = D(w) /\ widgets' = V(w)
                           /\ stack' = Append(stack, Frame(0, w))
  BY DEF dispose_page
<1>2. ~stopped /\ UNCHANGED <<appVars, disk>>
  BY DEF dispose_page
<1> HIDE DEF D, V
<1> DEFINE p == widgets[w].parent
           all == UnderIn(widgets, w)
           below == all \ {w}
<1>3. /\ Widgets = 1..Len(widgets) /\ Len(widgets) \in Nat /\ Len(reg) \in Nat
      /\ \A x \in Widgets : widgets[x] \in WidgetSet
      /\ Forest(widgets) /\ DOMAIN widgets = Widgets
  BY Indices, ForestDef DEF IInv, Widgets
<1>4. p \in Widgets
  <2>1. p \in 0..Len(widgets) /\ p # 0
    BY <1>1, <1>3 DEF Forest
  <2> HIDE DEF p
  <2> QED
    BY <1>3, <2>1
<1>5. all \in SUBSET Widgets /\ w \in all /\ ClosedIn(widgets, all) /\ Under(w) = all
  BY <1>3, UnderLeast, UnderDef
<1>6. p \notin below
  <2> SUFFICES ASSUME p \in all PROVE p = w
    OBVIOUS
  <2>1. p \in UnderIn(widgets, p) /\ ClosedIn(widgets, UnderIn(widgets, p))
    BY <1>3, <1>4, UnderLeast
  <2>2. w \in UnderIn(widgets, p)
    BY <1>3, <2>1 DEF ClosedIn
  <2> QED
    BY <1>3, <1>4, <2>2 DEF Forest, Acyclic
<1>7. below \in SUBSET Widgets /\ ClosedIn(widgets, below)
  BY <1>3, <1>5, <1>6 DEF ClosedIn
<1>8. /\ reg' = [id \in Ids |-> IF reg[id].owner \in all
                                THEN dispose_one(reg[id], Emitting(stack, id)) ELSE reg[id]]
      /\ widgets' = [x \in Widgets |->
                      CASE x = w -> [widgets[x] EXCEPT !.parent = 0, !.busy = "dispose",
                                                       !.page = p, !.since = Len(reg)]
                        [] x \in below -> [widgets[x] EXCEPT !.state = "disposed", !.parent = 0]
                        [] OTHER -> widgets[x]]
  BY <1>1, <1>5 DEF D, V
<1> HIDE DEF all
<1>9. \A id \in Ids : /\ RegOK(reg[id], Emitting(stack, id)) /\ Follows(reg[id], reg[id])
                      /\ reg[id].flight = reg[id].flight
  BY OneReg DEF Follows
<1>10. /\ reg' \in Seq(Registration) /\ Len(reg') = Len(reg) /\ Ids' = Ids
       /\ \A id \in Ids : /\ RegOK(reg'[id], Emitting(stack, id)) /\ Follows(reg[id], reg'[id])
                          /\ reg'[id].flight = reg[id].flight
                          /\ Ended(reg[id]) \/ reg[id].owner \in all => Ended(reg'[id])
  BY <1>5, <1>8, <1>9, DisposeRegs
<1>11. /\ widgets'[w] \in WidgetSet /\ widgets'[w].state = widgets[w].state /\ widgets'[w].parent = 0
       /\ widgets'[w].busy = "dispose" /\ widgets'[w].page = p /\ widgets'[w].since = Len(reg)
  <2> DEFINE e == widgets[w]
             v == [e EXCEPT !.parent = 0, !.busy = "dispose", !.page = p, !.since = Len(reg)]
  <2>1. e \in WidgetSet
    BY <1>3
  <2>2. widgets'[w] = v
    BY <1>8
  <2>3. p \in Nat
    <3> HIDE DEF p
    <3> QED
      BY <1>3, <1>4
  <2> HIDE DEF e, p
  <2>4. /\ v \in WidgetSet /\ v.state = e.state /\ v.parent = 0 /\ v.busy = "dispose"
        /\ v.page = p /\ v.since = Len(reg)
    BY <1>3, <2>1, <2>3 DEF WidgetSet
  <2> QED
    BY <2>2, <2>4 DEF e
<1>12. ASSUME NEW x \in Widgets, x # w
       PROVE  /\ widgets'[x] \in WidgetSet
              /\ widgets'[x].state = IF x \in below THEN "disposed" ELSE widgets[x].state
              /\ widgets'[x].parent = IF x \in below THEN 0 ELSE widgets[x].parent
              /\ widgets'[x].busy = widgets[x].busy /\ widgets'[x].page = widgets[x].page
              /\ widgets'[x].since = widgets[x].since
  <2>1. CASE x \in below
    <3> DEFINE e == widgets[x]
               v == [e EXCEPT !.state = "disposed", !.parent = 0]
    <3>1. e \in WidgetSet /\ widgets'[x] = v
      BY <1>3, <1>8, <1>12, <2>1
    <3> HIDE DEF e
    <3>2. /\ v \in WidgetSet /\ v.state = "disposed" /\ v.parent = 0 /\ v.busy = e.busy
          /\ v.page = e.page /\ v.since = e.since
      BY <3>1 DEF WidgetSet
    <3> QED
      BY <2>1, <3>1, <3>2 DEF e
  <2>2. CASE x \notin below
    BY <1>3, <1>8, <1>12, <2>2
  <2> QED
    BY <2>1, <2>2
<1>13. widgets' = [x \in Widgets |-> widgets'[x]]
  BY <1>8
<1>14. /\ widgets' \in Seq(WidgetSet) /\ Len(widgets') = Len(widgets) /\ Widgets' = Widgets
       /\ Forest(widgets')
  <2>1. \A x \in Widgets : /\ widgets'[x] \in WidgetSet
                           /\ widgets'[x].state = IF x \in below THEN "disposed" ELSE widgets[x].state
                           /\ widgets'[x].parent \in {0, widgets[x].parent}
                           /\ x \in below => widgets'[x].parent = 0
    BY <1>11, <1>12
  <2> HIDE DEF below
  <2> QED
    BY ONLY IInv, <1>7, <1>13, <2>1, DisposeWidgets
<1>15. OwnerInv'
  <2> SUFFICES ASSUME NEW id \in Ids
               PROVE  /\ reg'[id].owner <= Len(widgets)
                      /\ reg'[id].owner = 0 => reg'[id].kind \in {"signal", "post", "save"}
                      /\ reg'[id].kind \in {"post", "save"} => reg'[id].owner = 0
                      /\ reg'[id].owner # 0 /\ widgets'[reg'[id].owner].state = "disposed" => Ended(reg'[id])
    BY <1>2, <1>10, <1>14 DEF OwnerInv, appVars
  <2>1. reg'[id].owner = reg[id].owner /\ reg'[id].kind = reg[id].kind /\ (Ended(reg[id]) => Ended(reg'[id]))
    BY <1>10 DEF Follows
  <2>2. /\ reg[id].owner <= Len(widgets)
        /\ reg[id].owner = 0 => reg[id].kind \in {"signal", "post", "save"}
        /\ reg[id].kind \in {"post", "save"} => reg[id].owner = 0
        /\ reg[id].owner # 0 /\ widgets[reg[id].owner].state = "disposed" => Ended(reg[id])
    BY DEF IInv, OwnerInv
  <2>3. reg[id].owner # 0 => reg[id].owner \in Widgets
    BY <2>2, OneReg, Indices DEF IInv, Registration
  <2>4. ASSUME reg[id].owner # 0, widgets'[reg[id].owner].state = "disposed" PROVE Ended(reg'[id])
    <3>1. CASE reg[id].owner \in all
      BY <1>10, <3>1
    <3>2. CASE reg[id].owner \notin all
      BY <1>5, <1>12, <2>1, <2>2, <2>3, <2>4, <3>2
    <3> QED
      BY <3>1, <3>2
  <2> QED
    BY <2>1, <2>2, <2>4
<1>16. BusyInv'
  <2> SUFFICES ASSUME NEW x \in Widgets
               PROVE  /\ widgets'[x].state # "twice" /\ widgets'[x].busy # "reentered"
                      /\ widgets'[x].busy # "no" => widgets'[x].parent = 0 /\ widgets'[x].page \in Widgets
                      /\ widgets'[x].since <= Len(reg)
                      /\ widgets'[x].busy = "dispose" =>
                           \A id \in Ids : reg'[id].owner = x /\ id <= widgets'[x].since => Ended(reg'[id])
    BY <1>10, <1>14 DEF BusyInv
  <2>1. \A id \in Ids : reg'[id].owner = reg[id].owner /\ (Ended(reg[id]) => Ended(reg'[id]))
    BY <1>10 DEF Follows
  <2>2. CASE x = w
    <3>1. \A id \in Ids : reg'[id].owner = w => Ended(reg'[id])
      BY <1>5, <1>10, <2>1
    <3> QED
      BY <1>1, <1>3, <1>4, <1>11, <2>2, <3>1 DEF Live
  <2>3. CASE x # w
    <3>1. /\ widgets[x].state # "twice" /\ widgets[x].busy # "reentered"
          /\ widgets[x].busy # "no" => widgets[x].parent = 0 /\ widgets[x].page \in Widgets
          /\ widgets[x].since <= Len(reg)
          /\ widgets[x].busy = "dispose" =>
               \A id \in Ids : reg[id].owner = x /\ id <= widgets[x].since => Ended(reg[id])
      BY DEF IInv, BusyInv
    <3>2. /\ widgets'[x].state \in {"disposed", widgets[x].state}
          /\ widgets'[x].parent \in {0, widgets[x].parent}
          /\ widgets'[x].busy = widgets[x].busy /\ widgets'[x].page = widgets[x].page
          /\ widgets'[x].since = widgets[x].since
      BY <1>12, <2>3
    <3> QED
      BY <2>1, <3>1, <3>2
  <2> QED
    BY <2>2, <2>3
<1>17. StackInv' /\ SameFrames
  BY <1>1, <1>2, <1>10, <1>14, PushPage
<1>18. StopInv' /\ stack' \in Seq(FrameSet)
  BY <1>2, <1>17 DEF StopInv, SameFrames, appVars
<1>19. \A id \in Ids : /\ RegOK(reg'[id], Emitting(stack', id))
                       /\ reg'[id].flight = Cardinality(FramesOf(stack', id))
                       /\ Follows(reg[id], reg'[id]) /\ reg'[id].flight = reg[id].flight
  BY <1>10, <1>17 DEF IInv, RegInv, SameFrames
<1>20. /\ phase' \in {"setup", "running", "over"} /\ quit' \in BOOLEAN /\ stopped' \in BOOLEAN
       /\ UNCHANGED <<program, disk>>
  BY <1>2 DEF IInv, Types, appVars
<1> QED
  BY <1>10, <1>14, <1>15, <1>16, <1>17, <1>18, <1>19, <1>20, DisposeInv

\* The model ends in front of the frame of a page that was used.
LEMMA StuckStep ==
  ASSUME IInv, UNCHANGED <<appVars, reg, stack, disk>>, NEW w \in Widgets, NEW e \in WidgetSet,
         widgets' = [widgets EXCEPT ![w] = e], e.busy = "reentered",
         stack # <<>>, Top.id = 0, Top.part # 0
  PROVE  Stuck' /\ NoLate
<1>1. /\ widgets' \in Seq(WidgetSet) /\ Len(widgets') = Len(widgets) /\ Len(widgets) \in Nat
      /\ Widgets' = Widgets /\ widgets'[w] = e
  BY OneWidget DEF IInv
<1>2. Types' /\ RegInv' /\ StackInv'
  BY <1>1 DEF IInv, Types, RegInv, StackInv, appVars, Ids
<1>3. Reentered'
  BY <1>1 DEF Reentered
<1>4. stack' # <<>> /\ Top'.id = 0 /\ Top'.part # 0
  BY DEF Top
<1>5. NoLate
  BY OneReg DEF NoLate
<1> QED
  BY <1>2, <1>3, <1>4, <1>5 DEF Stuck

\* cwhip_gtk_notebook_append goes on.
LEMMA AppendEndsStep == ASSUME IInv, append_ends PROVE Safe' /\ NoLate
<1> DEFINE w == Top.part
           p == widgets[w].page
           changed == ~Live(w) \/ ~Live(p) \/ p \in Under(w)
           b == IF changed THEN "reentered" ELSE "no"
           e == [widgets[w] EXCEPT !.parent = p, !.busy = b]
<1>1. /\ stack # <<>> /\ Top.id = 0 /\ w # 0 /\ widgets[w].busy = "append"
      /\ widgets' = [widgets EXCEPT ![w].parent = p, ![w].busy = b]
      /\ stack' = IF changed THEN stack ELSE Popped
      /\ UNCHANGED <<appVars, reg, disk>>
  BY DEF append_ends, InPage
<1>2. w \in Widgets
  BY <1>1, TopPage DEF IInv
<1>3. widgets[w] \in WidgetSet /\ p \in Widgets /\ p \in Nat
  BY <1>1, <1>2, Indices DEF IInv, BusyInv
<1>4. /\ e \in WidgetSet /\ e.parent = p /\ e.state = widgets[w].state /\ e.busy = b
      /\ e.since = widgets[w].since
  <2> DEFINE q == widgets[w]
  <2>1. q \in WidgetSet /\ p \in Nat /\ b \in {"no", "reentered"}
    BY <1>3
  <2> HIDE DEF q, p, b
  <2>2. LET v == [q EXCEPT !.parent = p, !.busy = b]
        IN v \in WidgetSet /\ v.parent = p /\ v.state = q.state /\ v.busy = b /\ v.since = q.since
    BY <2>1 DEF WidgetSet
  <2> QED
    BY <2>2 DEF q
<1>5. widgets' = [widgets EXCEPT ![w] = e]
  BY <1>1, <1>2 DEF Widgets
<1>6. CASE changed
  <2>1. e.busy = "reentered" /\ stack' = stack
    BY <1>1, <1>4, <1>6
  <2> HIDE DEF e, b, changed, p, w
  <2> QED
    BY <1>1, <1>2, <1>4, <1>5, <2>1, StuckStep DEF Safe, w
<1>7. CASE ~changed
  <2>1. e.busy = "no" /\ stack' = Popped /\ Live(w) /\ Live(p) /\ p \notin Under(w)
    BY <1>1, <1>4, <1>7
  <2>2. ~stopped
    BY <1>2, <2>1 DEF IInv, StopInv, Live
  <2> HIDE DEF e, b, changed, p, w
  <2>3. /\ widgets' \in Seq(WidgetSet) /\ Len(widgets') = Len(widgets)
        /\ DOMAIN widgets' = DOMAIN widgets /\ widgets'[w] = e
        /\ \A x \in Widgets : x # w => widgets'[x] = widgets[x]
    BY <1>2, <1>4, <1>5, OneWidget DEF IInv
  <2>4. StackInv' /\ SameFrames
    BY <1>1, <2>1, <2>3, PopPage DEF w
  <2> QED
    BY <1>1, <1>2, <1>3, <1>4, <2>1, <2>2, <2>3, <2>4, ParentInv DEF Safe
<1> QED
  BY <1>6, <1>7

\* widget_dispose goes on.
LEMMA DisposeEndsStep == ASSUME IInv, dispose_ends PROVE Safe' /\ NoLate
<1> DEFINE w == Top.part
           changed == \/ ~Live(w) \/ HasChildren(w)
                      \/ \E id \in Ids : reg[id].owner = w /\ id > widgets[w].since
           b == IF changed THEN "reentered" ELSE "no"
           t == IF Live(w) THEN "disposed" ELSE "twice"
           e == [widgets[w] EXCEPT !.state = t, !.busy = b]
<1>1. /\ stack # <<>> /\ Top.id = 0 /\ w # 0 /\ widgets[w].busy = "dispose"
      /\ widgets' = [widgets EXCEPT ![w].state = t, ![w].busy = b]
      /\ stack' = IF changed THEN stack ELSE Popped
      /\ UNCHANGED <<appVars, reg, disk>>
  BY DEF dispose_ends, InPage
<1>2. w \in Widgets
  BY <1>1, TopPage DEF IInv
<1>3. widgets[w] \in WidgetSet
  BY <1>2, Indices DEF IInv
<1>4. /\ e \in WidgetSet /\ e.parent = widgets[w].parent /\ e.state = t /\ e.busy = b
      /\ e.since = widgets[w].since
  <2> DEFINE q == widgets[w]
  <2>1. q \in WidgetSet /\ t \in {"disposed", "twice"} /\ b \in {"no", "reentered"}
    BY <1>3
  <2> HIDE DEF q, t, b
  <2>2. LET v == [q EXCEPT !.state = t, !.busy = b]
        IN v \in WidgetSet /\ v.parent = q.parent /\ v.state = t /\ v.busy = b /\ v.since = q.since
    BY <2>1 DEF WidgetSet
  <2> QED
    BY <2>2 DEF q
<1>5. widgets' = [widgets EXCEPT ![w] = e]
  BY <1>1, <1>2 DEF Widgets
<1>6. CASE changed
  <2>1. e.busy = "reentered" /\ stack' = stack
    BY <1>1, <1>4, <1>6
  <2> HIDE DEF e, b, changed, t, w
  <2> QED
    BY <1>1, <1>2, <1>4, <1>5, <2>1, StuckStep DEF Safe, w
<1>7. CASE ~changed
  <2>1. /\ e.busy = "no" /\ e.state = "disposed" /\ stack' = Popped /\ Live(w) /\ ~HasChildren(w)
        /\ \A id \in Ids : reg[id].owner = w => ~(id > widgets[w].since)
    BY <1>1, <1>4, <1>7
  <2>2. ~stopped
    BY <1>2, <2>1 DEF IInv, StopInv, Live
  <2>3. \A id \in Ids : reg[id].owner = w => Ended(reg[id])
    <3>1. \A id \in Ids : id \in Nat
      BY OneReg
    <3>2. widgets[w].since \in Nat
      BY <1>3 DEF WidgetSet
    <3>3. \A id \in Ids : reg[id].owner = w /\ id <= widgets[w].since => Ended(reg[id])
      BY <1>1, <1>2 DEF IInv, BusyInv
    <3> QED
      BY <2>1, <3>1, <3>2, <3>3
  <2>4. widgets[w].parent = 0
    BY <1>1, <1>2 DEF IInv, BusyInv
  <2> HIDE DEF e, b, changed, t, w
  <2>5. /\ widgets' \in Seq(WidgetSet) /\ Len(widgets') = Len(widgets) /\ Widgets' = Widgets
        /\ DOMAIN widgets' = DOMAIN widgets /\ widgets'[w] = e /\ Len(widgets) \in Nat
        /\ \A x \in Widgets : x # w => widgets'[x] = widgets[x]
    BY <1>2, <1>4, <1>5, OneWidget DEF IInv
  <2>6. StackInv' /\ SameFrames
    BY <1>1, <2>1, <2>5, PopPage DEF w
  <2>7. Forest(widgets')
    <3>1. ClosedIn(widgets, {w})
      BY <2>1 DEF ClosedIn, HasChildren, Widgets
    <3>2. \A x \in Widgets : /\ widgets'[x] \in WidgetSet
                             /\ widgets'[x].state = IF x \in {w} THEN "disposed" ELSE widgets[x].state
                             /\ widgets'[x].parent \in {0, widgets[x].parent}
                             /\ x \in {w} => widgets'[x].parent = 0
      BY <1>4, <2>1, <2>4, <2>5, Indices DEF IInv
    <3>3. widgets' = [x \in Widgets |-> widgets'[x]]
      BY <1>5 DEF Widgets
    <3> QED
      BY <1>2, <3>1, <3>2, <3>3, DisposeWidgets
  <2>8. BusyInv'
    BY <1>1, <1>2, <1>4, <2>1, <2>5, BusyOne
  <2>9. \A x \in Widgets : widgets'[x].state = "disposed" =>
          widgets[x].state = "disposed" \/ \A id \in Ids : reg[id].owner = x => Ended(reg[id])
    BY <2>3, <2>5
  <2>10. UNCHANGED <<appVars, reg, disk>> /\ Len(widgets') >= Len(widgets)
    BY <1>1, <2>5
  <2>11. IInv' /\ NoLate
    BY <2>2, <2>5, <2>6, <2>7, <2>8, <2>9, <2>10, WidgetsInv
  <2> QED
    BY <2>11 DEF Safe
<1> QED
  BY <1>6, <1>7

\* cwhip_gtk_shutdown, the first time.
LEMMA ShutdownStep ==
  ASSUME IInv, ~stopped, shutdown, UNCHANGED <<program, disk>>,
         phase' \in {"setup", "running", "over"}
  PROVE  IInv' /\ NoLate
<1> DEFINE ws == UNION {Under(w) : w \in {x \in Widgets : Live(x)}}
           regs == [id \in Ids |-> stop_one(reg[id], Emitting(stack, id))]
<1>1. /\ stopped' = TRUE /\ quit' = TRUE /\ widget_dispose(regs, ws)
      /\ stack' = IF Saving THEN Append(stack, Frame(0, 0)) ELSE stack
  BY DEF shutdown
<1>2. ws \in SUBSET Widgets /\ ClosedIn(widgets, ws) /\ \A w \in Widgets : Live(w) => w \in ws
  <2>1. \A w \in Widgets : /\ Under(w) \in SUBSET Widgets /\ w \in Under(w)
                           /\ ClosedIn(widgets, Under(w))
    BY UnderLeast, UnderDef DEF Widgets
  <2> QED
    BY <2>1 DEF ClosedIn
<1>3. ASSUME NEW id \in Ids
      PROVE  /\ RegOK(regs[id], Emitting(stack, id)) /\ Follows(reg[id], regs[id])
             /\ regs[id].flight = reg[id].flight
             /\ reg[id].kind \in Connections \cup Dialogs \cup {"post", "save"} => Ended(regs[id])
  BY OneReg, StopOneOK
<1> HIDE DEF ws, regs
<1>4. /\ reg' \in Seq(Registration) /\ Len(reg') = Len(reg) /\ Ids' = Ids
      /\ \A id \in Ids : /\ RegOK(reg'[id], Emitting(stack, id)) /\ Follows(reg[id], reg'[id])
                         /\ reg'[id].flight = reg[id].flight
                         /\ Ended(regs[id]) \/ regs[id].owner \in ws => Ended(reg'[id])
      /\ widgets' \in Seq(WidgetSet) /\ Len(widgets') = Len(widgets)
      /\ \A x \in Widgets : widgets'[x].state = IF x \in ws THEN "disposed" ELSE widgets[x].state
      /\ Forest(widgets') /\ BusyInv'
  BY <1>1, <1>2, <1>3, DisposeFields
<1>5. \A w \in Widgets : widgets'[w].state = "disposed"
  <2>1. \A w \in Widgets : widgets[w].state \in {"live", "disposed", "twice"}
    BY Indices DEF IInv, WidgetSet
  <2>2. \A w \in Widgets : widgets[w].state # "twice"
    BY DEF IInv, BusyInv
  <2>3. \A w \in Widgets : widgets[w].state = "live" => w \in ws
    BY <1>2 DEF Live
  <2> QED
    BY <1>4, <2>1, <2>2, <2>3
<1>6. OwnerInv'
  <2> SUFFICES ASSUME NEW id \in Ids
               PROVE  /\ reg'[id].owner <= Len(widgets)
                      /\ reg'[id].owner = 0 => reg'[id].kind \in {"signal", "post", "save"}
                      /\ reg'[id].kind \in {"post", "save"} => reg'[id].owner = 0
                      /\ Ended(reg'[id])
    BY <1>4 DEF OwnerInv
  <2>1. /\ reg'[id].owner = reg[id].owner /\ reg'[id].kind = reg[id].kind
        /\ (Ended(reg[id]) => Ended(reg'[id])) /\ regs[id].owner = reg[id].owner
    BY <1>3, <1>4 DEF Follows
  <2>2. /\ reg[id].owner <= Len(widgets)
        /\ reg[id].owner = 0 => reg[id].kind \in {"signal", "post", "save"}
        /\ reg[id].kind \in {"post", "save"} => reg[id].owner = 0
        /\ reg[id].owner # 0 /\ widgets[reg[id].owner].state = "disposed" => Ended(reg[id])
    BY DEF IInv, OwnerInv
  <2>3. reg[id].owner # 0 => reg[id].owner \in Widgets
    BY <2>2, OneReg, Indices DEF IInv, Registration
  <2>4. Ended(reg'[id])
    <3>1. CASE reg[id].owner = 0
      BY <1>3, <1>4, <2>2, <3>1 DEF Connections
    <3>2. CASE reg[id].owner # 0 /\ Live(reg[id].owner)
      BY <1>2, <1>4, <2>1, <2>3, <3>2
    <3>3. CASE reg[id].owner # 0 /\ ~Live(reg[id].owner)
      BY <2>1, <2>2, <2>3, <3>3, Indices DEF Live, IInv, WidgetSet, BusyInv
    <3> QED
      BY <3>1, <3>2, <3>3
  <2> QED
    BY <2>1, <2>2, <2>4
<1>7. Saving' => Saving
  BY <1>4 DEF Saving, Follows
<1>8. Ids \subseteq Nat \ {0} /\ stack \in Seq(FrameSet)
  BY OneReg DEF IInv, Types
<1>9. CASE Saving
  <2>1. /\ stack' = Append(stack, Frame(0, 0)) /\ Frame(0, 0) \in FrameSet
        /\ Frame(0, 0).id = 0 /\ Frame(0, 0).part = 0
    BY <1>1, <1>9 DEF Frame, FrameSet
  <2>2. Pushed(stack, 0, 0, stack') /\ stack'[Len(stack) + 1] = Frame(0, 0) /\ Len(stack') = Len(stack) + 1
    <3>1. Pushed(stack, 0, 0, stack')
      BY <1>8, <2>1, AppendFrames
    <3>2. stack'[Len(stack) + 1] = Frame(0, 0) /\ Len(stack') = Len(stack) + 1
      BY <1>8, <2>1, AppendProperties
    <3> QED
      BY <3>1, <3>2
  <2>3. /\ stack' \in Seq(FrameSet) /\ Len(stack') = Len(stack) + 1
        /\ stack'[Len(stack')].id = 0 /\ stack'[Len(stack')].part = 0
        /\ \A k \in DOMAIN stack : k \in DOMAIN stack' /\ stack'[k] = stack[k]
        /\ \A k \in DOMAIN stack' : k \in DOMAIN stack \/ k = Len(stack')
        /\ \A j \in Ids : FramesOf(stack', j) = FramesOf(stack, j) /\ Emitting(stack', j) = Emitting(stack, j)
        /\ Cardinality(Handlers(stack')) = Cardinality(Handlers(stack))
    BY <1>8, <2>1, <2>2 DEF Pushed
  <2>4. \A k \in DOMAIN stack : stack[k].id = 0 => stack[k].part \in 0..Len(widgets)
    BY DEF IInv, StackInv
  <2>5. \A k \in DOMAIN stack' : stack'[k].id <= Len(reg)
    BY <2>3, Indices DEF IInv, StackInv
  <2>6. StackInv'
    <3>1. Len(widgets') = Len(widgets) /\ Len(widgets) \in Nat /\ stopped'
      BY <1>1, <1>4, Indices DEF IInv
    <3>2. \A k \in DOMAIN stack' : stack'[k].id = 0 => stack'[k].part \in 0..Len(widgets)
      BY <2>3, <2>4, <3>1
    <3> QED
      BY <1>4, <2>3, <2>5, <3>1, <3>2 DEF IInv, StackInv
  <2>7. Len(stack') \in DOMAIN stack'
    BY <2>3, Indices, LenProperties DEF IInv
  <2>8. StopInv'
    <3>1. WaitsIn(stack')
      BY <2>3, <2>7 DEF WaitsIn
    <3>2. Widgets' = Widgets
      BY <1>4, Indices, LenProperties DEF IInv, Widgets
    <3> QED
      BY <1>5, <3>1, <3>2 DEF StopInv
  <2>9. \A id \in Ids : /\ RegOK(reg'[id], Emitting(stack', id))
                        /\ reg'[id].flight = Cardinality(FramesOf(stack', id))
                        /\ Follows(reg[id], reg'[id]) /\ reg'[id].flight = reg[id].flight
    BY <1>4, <2>3 DEF IInv, RegInv
  <2> QED
    BY <1>1, <1>4, <1>6, <2>3, <2>6, <2>8, <2>9, DisposeInv
<1>10. CASE ~Saving
  <2>1. stack' = stack
    BY <1>1, <1>10
  <2>2. StackInv'
    BY <1>1, <1>4, <2>1 DEF IInv, StackInv
  <2>3. StopInv'
    BY <1>4, <1>5, <1>7, <1>10, Indices, LenProperties DEF StopInv, Widgets, IInv
  <2>4. \A id \in Ids : /\ RegOK(reg'[id], Emitting(stack', id))
                        /\ reg'[id].flight = Cardinality(FramesOf(stack', id))
                        /\ Follows(reg[id], reg'[id]) /\ reg'[id].flight = reg[id].flight
    BY <1>4, <2>1 DEF IInv, RegInv
  <2> QED
    BY <1>1, <1>4, <1>6, <1>8, <2>1, <2>2, <2>3, <2>4, DisposeInv
<1> QED
  BY <1>9, <1>10

\* Only the application's own state changes, and it has not stopped.
LEMMA AppStep ==
  ASSUME IInv, UNCHANGED <<program, stopped, reg, widgets, stack, disk>>,
         phase' \in {"setup", "running", "over"}, quit' \in BOOLEAN
  PROVE  IInv' /\ NoLate
<1>1. Types'
  BY DEF IInv, Types
<1>2. RegInv' /\ DiskInv' /\ StackInv' /\ OwnerInv'
  BY DEF IInv, RegInv, DiskInv, StackInv, OwnerInv, Ids
<1>3. StopInv'
  BY DEF IInv, StopInv, Saving, Widgets, Ids
<1>4. ForestInv' /\ BusyInv'
  BY DEF IInv, ForestInv, BusyInv, Widgets, Under, Ids
<1>5. NoLate
  BY OneReg DEF NoLate
<1> QED
  BY <1>1, <1>2, <1>3, <1>4, <1>5 DEF IInv

----------------------------------------------------------------------------
(* The theorems.                                                           *)

\* Before the program has begun there is nothing.
LEMMA InitInv == Init => IInv
<1> SUFFICES ASSUME Init PROVE IInv
  OBVIOUS
<1>1. /\ program \in Programs /\ reg = <<>> /\ widgets = <<>> /\ stack = <<>>
      /\ phase = "setup" /\ quit = FALSE /\ stopped = FALSE
  BY DEF Init
<1>2. PICK content \in {0, 1} : disk = [content |-> content, etag |-> content, by |-> 0]
  BY DEF Init
<1>3. Types
  <2>1. disk \in FileSet
    BY <1>2 DEF FileSet
  <2>2. <<>> \in Seq(Registration) /\ <<>> \in Seq(WidgetSet) /\ <<>> \in Seq(FrameSet)
    OBVIOUS
  <2>3. /\ reg \in Seq(Registration) /\ widgets \in Seq(WidgetSet)
        /\ stack \in Seq(FrameSet)
    BY <1>1, <2>2, Zenon
  <2>4. quit \in BOOLEAN /\ stopped \in BOOLEAN
    BY <1>1, Zenon
  <2>5. phase \in {"setup", "running", "over"} /\ program \in Programs
    BY <1>1
  <2> QED
    BY <2>1, <2>3, <2>4, <2>5, Zenon DEF Types
<1>4. Ids = {} /\ Widgets = {} /\ DOMAIN stack = {}
  BY <1>1 DEF Ids, Widgets
<1>5. RegInv /\ DiskInv /\ OwnerInv /\ StopInv /\ ForestInv /\ BusyInv
  BY <1>1, <1>4 DEF RegInv, DiskInv, OwnerInv, StopInv, ForestInv, BusyInv
<1>6. StackInv
  <2>1. Handlers(stack) = {}
    BY <1>4 DEF Handlers
  <2>2. Cardinality(Handlers(stack)) <= MaxDepth
    BY <2>1, FS_EmptySet, GtkAssumption
  <2> QED
    BY <1>4, <2>2 DEF StackInv
<1> QED
  BY <1>3, <1>5, <1>6 DEF IInv

\* Every step keeps the invariant, or is where the model ends, and begins no
\* callback too late.
LEMMA NextInv == ASSUME IInv, Next PROVE Safe' /\ NoLate
<1> USE DEF Safe
<1>1. CASE Native
  BY <1>1, EmitStep, DispatchStep, ChooserAnswersStep, ChooserResultStep, ShortcutStep,
     TreeEventStep, WidgetFinalizedStep, DirectoryWorkerStep, ScanTickStep,
     SettingsLoadedStep, SettingsSavedStep, EditStep, DrainedStep, AppendEndsStep,
     DisposeEndsStep DEF Native
<1>2. CASE return
  BY <1>2, ReturnStep
<1>3. CASE Program
  <2>1. CASE \/ connect_signal \/ file_dialog_create \/ bind_shortcut \/ tree_setup
             \/ directory_start \/ post \/ config_save \/ cancel \/ clear_shortcuts
             \/ widget_create \/ widget_attach \/ notebook_append \/ widget_remove \/ dispose
             \/ dispose_page
    BY <2>1, ConnectSignalStep, FileDialogStep, BindShortcutStep, TreeSetupStep,
       DirectoryStartStep, PostStep, ConfigSaveStep, CancelStep, ClearShortcutsStep,
       WidgetCreateStep, WidgetAttachStep, NotebookAppendStep, WidgetRemoveStep, DisposeStep,
       DisposePageStep
  <2>2. CASE shut_down
    BY <2>2, ShutdownStep DEF shut_down, IInv, Types
  <2>3. CASE quit_main
    BY <2>3, AppStep DEF quit_main, IInv, Types
  <2>4. CASE run
    BY <2>4, AppStep DEF run, IInv, Types
  <2>5. CASE run_ends
    <3>1. CASE stopped
      <4>1. UNCHANGED <<program, stopped, reg, widgets, stack, disk>> /\ UNCHANGED quit /\ phase' = "over"
        BY <2>5, <3>1 DEF run_ends, shutdown
      <4> QED
        BY <4>1, AppStep DEF IInv, Types
    <3>2. CASE ~stopped
      BY <2>5, <3>2, ShutdownStep DEF run_ends
    <3> QED
      BY <3>1, <3>2
  <2> QED
    BY <1>3, <2>1, <2>2, <2>3, <2>4, <2>5 DEF Program
<1> QED
  BY <1>1, <1>2, <1>3 DEF Next

\* A stuttering step changes nothing.
LEMMA StutterInv == ASSUME IInv, UNCHANGED vars PROVE IInv'
<1> USE DEF vars
<1>1. Types' /\ RegInv' /\ DiskInv' /\ StackInv' /\ OwnerInv'
  BY DEF IInv, Types, RegInv, DiskInv, StackInv, OwnerInv, Ids
<1>2. StopInv'
  BY DEF IInv, StopInv, Saving, Widgets, Ids
<1>3. ForestInv' /\ BusyInv'
  BY DEF IInv, ForestInv, BusyInv, Widgets, Under, Ids
<1> QED
  BY <1>1, <1>2, <1>3 DEF IInv

\* Where the model ends it takes no step.
LEMMA StuckEnds == ASSUME Stuck PROVE ~Next
<1>1. /\ ~InHandler /\ ~InProgram /\ ~InPage /\ stack # <<>> /\ Reentered
  BY DEF Stuck, InHandler, InProgram, InPage
<1>2. ~Draining
  BY DEF Stuck, Draining, Frame
<1>3. ~InLoop
  BY <1>1, <1>2 DEF InLoop
<1>4. ~Native
  BY <1>1, <1>2, <1>3 DEF Native, emit, dispatch, chooser_answers, chooser_result, shortcut,
     tree_event, widget_finalized, directory_worker, scan_tick, settings_loaded,
     settings_saved, edit, drained, append_ends, dispose_ends
<1>5. ~Program
  BY <1>1, ZenonT(60) DEF Program, connect_signal, file_dialog_create, bind_shortcut, tree_setup,
     directory_start, post, config_save, cancel, clear_shortcuts, widget_create,
     widget_attach, notebook_append, widget_remove, dispose, dispose_page, shut_down,
     quit_main, run, run_ends, Creates
<1>6. ~return
  BY <1>1 DEF return
<1> QED
  BY <1>4, <1>5, <1>6 DEF Next

\* Nor does it change by itself.
LEMMA StutterStuck == ASSUME Stuck, UNCHANGED vars PROVE Stuck'
<1> USE DEF vars
<1>1. Types' /\ RegInv' /\ StackInv'
  BY DEF Stuck, Types, RegInv, StackInv, Ids
<1> QED
  BY <1>1 DEF Stuck, Reentered, Widgets, Top

\* The invariant of the binding: what state a registration of each kind may be
\* in, that its in-flight count is the number of its frames, and that what has
\* an owner ends with it, until a handler uses the page whose removal or
\* addition called it.
THEOREM Inductive == Spec => []Safe
<1>1. Safe /\ [Next]_vars => Safe'
  <2>1. IInv /\ [Next]_vars => Safe'
    BY NextInv, StutterInv DEF Safe
  <2>2. Stuck /\ [Next]_vars => Safe'
    BY StuckEnds, StutterStuck DEF Safe
  <2> QED
    BY <2>1, <2>2 DEF Safe
<1>2. Init => Safe
  BY InitInv DEF Safe
<1> QED
  BY <1>1, <1>2, PTL DEF Spec

\* A registration that has ended holds no root once no handler of it runs, and
\* a save not before it has ended.
LEMMA EndedHasNoRoot ==
  ASSUME IInv, NEW id \in Ids, Ended(reg[id]), reg[id].flight = 0,
         reg[id].kind = "save" => ~Has(reg[id], "listed")
  PROVE  reg[id].ctx = "none"
<1>1. RegOK(reg[id], {}) /\ reg[id].kind \in Kinds
  BY OneReg DEF Registration
<1> QED
  BY <1>1 DEF RegOK, Ended, ConnectionOK, PostOK, DialogOK, ShortcutOK, TreeOK, ScanOK,
     SaveOK, Kinds, Connections, Dialogs

\* Blocks, roots and widgets of the binding go when the last frame that reads
\* them has returned, not earlier and not twice.
THEOREM GtkReleasesExactly == Spec => []ReleasedExactly
<1>1. ASSUME Types, RegInv, StackInv PROVE TypeOK /\ NeverFatal /\ FramesHaveBlocks
  <2>1. TypeOK
    <3>1. /\ phase \in {"setup", "running", "over"} /\ {quit, stopped} \subseteq BOOLEAN
      BY <1>1 DEF Types
    <3>2. ASSUME NEW id \in Ids
          PROVE  /\ reg[id].kind \in Kinds /\ reg[id].ctx \in {"none", "transfer", "live"}
                 /\ reg[id].flight = Cardinality({k \in DOMAIN stack : stack[k].id = id})
                 /\ reg[id].active \in 0 .. reg[id].flight
      <4>1. /\ reg[id].kind \in Kinds /\ reg[id].ctx \in {"none", "transfer", "live"}
            /\ reg[id].flight \in Nat
        BY <1>1, RegFacts DEF Registration
      <4>2. reg[id].flight = Cardinality({k \in DOMAIN stack : stack[k].id = id})
        BY <1>1 DEF RegInv, FramesOf
      <4>3. reg[id].active = reg[id].flight \/ reg[id].active = 0
        BY <1>1, <4>1, RegFacts
           DEF RegOK, ConnectionOK, PostOK, DialogOK, ShortcutOK, TreeOK, ScanOK, SaveOK, Kinds
      <4> QED
        BY <4>1, <4>2, <4>3
    <3>3. Cardinality({k \in DOMAIN stack : stack[k].id # 0}) <= MaxDepth
      BY <1>1 DEF StackInv, Handlers
    <3> QED
      BY <3>1, <3>2, <3>3 DEF TypeOK
  <2>2. NeverFatal
    BY <1>1, RegFacts DEF NeverFatal, RegOK
  <2>3. FramesHaveBlocks
    <3> SUFFICES ASSUME NEW k \in DOMAIN stack, stack[k].id # 0,
                        reg[stack[k].id].kind \in Connections \cup {"shortcut", "tree", "scan", "save"}
                 PROVE  ~Has(reg[stack[k].id], "freed")
      BY DEF FramesHaveBlocks
    <3> DEFINE id == stack[k].id
    <3>1. id \in Ids
      <4>1. id \in Nat /\ id <= Len(reg) /\ id # 0
        BY <1>1, Indices DEF StackInv, FrameSet
      <4> QED
        BY <1>1, <4>1, Indices
    <3>2. Emitting(stack, id) # {}
      BY DEF Emitting
    <3> HIDE DEF id
    <3>3. RegOK(reg[id], Emitting(stack, id)) /\ reg[id].flight \in Nat /\ reg[id].flight # 0
      BY <1>1, <3>1, <3>2, RegFacts
    <3>4. reg[id].kind \in Connections \cup {"shortcut", "tree", "scan", "save"}
      BY DEF id
    <3>5. ~Has(reg[id], "freed")
      BY <3>2, <3>3, <3>4 DEF RegOK, ConnectionOK, ShortcutOK, TreeOK, ScanOK, SaveOK
    <3> QED
      BY <3>5 DEF id
  <2> QED
    BY <2>1, <2>2, <2>3
<1>2. ASSUME IInv PROVE ShutdownReleasesAll
  <2> SUFFICES ASSUME stopped, stack = <<>>, NEW id \in Ids PROVE reg[id].ctx = "none"
    BY DEF ShutdownReleasesAll
  <2>1. Ended(reg[id]) /\ reg[id].flight = 0
    <3>1. Emitting(stack, id) = {}
      BY DEF Emitting
    <3> QED
      BY <1>2, <3>1, OneReg
  <2>2. ~Saving
    BY <1>2 DEF IInv, StopInv, WaitsIn
  <2> QED
    BY <1>2, <2>1, <2>2, EndedHasNoRoot DEF Saving
<1>3. ASSUME IInv PROVE DisposedIsBare
  <2> SUFFICES ASSUME NEW w \in Widgets
               PROVE  /\ w \notin UNION {Under(x) : x \in Under(w) \ {w}}
                      /\ widgets[w].state = "disposed" =>
                           /\ widgets[w].parent = 0 /\ \A x \in Widgets : widgets[x].parent # w
                           /\ \A id \in Of(Kinds, w) :
                                /\ reg[id].kind \in Dialogs \cup {"scan", "shortcut"} => ~Has(reg[id], "listed")
                                /\ reg[id].kind \in Connections \cup {"tree", "scan"} => Has(reg[id], "closed")
                                /\ reg[id].flight = 0 => reg[id].ctx = "none"
    BY DEF DisposedIsBare
  <2>1. w \notin UNION {Under(x) : x \in Under(w) \ {w}}
    <3> SUFFICES ASSUME NEW x \in Under(w), x # w, w \in Under(x) PROVE FALSE
      OBVIOUS
    <3>1. x \in Widgets
      BY DEF Under
    <3> QED
      BY <1>3, <3>1 DEF IInv, ForestInv
  <2>2. ASSUME widgets[w].state = "disposed", NEW id \in Of(Kinds, w)
        PROVE  /\ reg[id].kind \in Dialogs \cup {"scan", "shortcut"} => ~Has(reg[id], "listed")
               /\ reg[id].kind \in Connections \cup {"tree", "scan"} => Has(reg[id], "closed")
               /\ reg[id].flight = 0 => reg[id].ctx = "none"
    <3>1. id \in Ids /\ reg[id].owner = w /\ w # 0
      BY <1>3, <2>2, Indices DEF Of, IInv
    <3>2. Ended(reg[id]) /\ reg[id].kind # "save"
      BY <1>3, <2>2, <3>1 DEF IInv, OwnerInv
    <3> QED
      BY <1>3, <3>1, <3>2, EndedHasNoRoot DEF Ended
  <2>3. widgets[w].state = "disposed" =>
          widgets[w].parent = 0 /\ \A x \in Widgets : widgets[x].parent # w
    BY <1>3 DEF IInv, ForestInv
  <2> QED
    BY <2>1, <2>2, <2>3
<1>4. ASSUME Safe PROVE ReleasedExactly
  <2>1. CASE IInv
    BY <1>1, <1>2, <1>3, <2>1 DEF ReleasedExactly, IInv
  <2>2. CASE Stuck
    BY <1>1, <2>2 DEF ReleasedExactly, Stuck, ShutdownReleasesAll
  <2> QED
    BY <1>4, <2>1, <2>2 DEF Safe
<1> QED
  BY <1>4, Inductive, PTL

\* A callback never begins after its registration was disconnected, cancelled
\* or freed, nor after shutdown.
THEOREM GtkNoLateCallback == Spec => NoLateCallback
<1> DEFINE A == \A id \in Ids :
                  reg'[id].flight > reg[id].flight =>
                    /\ ~stopped
                    /\ reg[id].flags \cap {"closed", "cancelled", "freed", "release"} = {}
<1>1. Safe /\ [Next]_vars => [A]_vars
  BY NextInv, StuckEnds DEF NoLate, Safe
<1>2. Spec => [][A]_vars
  BY <1>1, Inductive, PTL DEF Spec
<1> QED
  BY <1>2 DEF NoLateCallback

\* A save replaces the settings file only while it holds what the program
\* expected.
THEOREM GtkSaveKeepsEdits == Spec => SaveKeepsEdits
<1> DEFINE A == \A id \in Ids :
                  disk' # disk /\ disk'.by = id /\ reg[id].etag # 0
                    => disk.content = reg[id].expected
<1>1. ASSUME Safe, [Next]_vars PROVE A
  <2> SUFFICES ASSUME NEW id \in Ids, disk' # disk, disk'.by = id, reg[id].etag # 0
               PROVE  disk.content = reg[id].expected
    OBVIOUS
  <2>0. Next /\ IInv
    BY <1>1, StuckEnds DEF vars, Safe
  <2>1. id # 0
    BY <2>0, OneReg
  <2>2. ~edit
    BY <2>1 DEF edit
  <2>3. settings_saved
    <3>1. ~return
      BY DEF return
    <3>2. ~Program
      BY DEF Program, connect_signal, file_dialog_create, bind_shortcut, tree_setup,
         directory_start, post, config_save, cancel, clear_shortcuts, widget_create,
         widget_attach, notebook_append, widget_remove, dispose, dispose_page, shut_down,
         quit_main, run, run_ends, Creates, Registers, Becomes, SetParent
    <3> QED
      BY <2>0, <2>2, <3>1, <3>2 DEF Next, Native, emit, dispatch, chooser_answers,
         chooser_result, shortcut, tree_event, widget_finalized, directory_worker, scan_tick,
         settings_loaded, drained, append_ends, dispose_ends, Becomes
  <2>4. PICK j \in Ids : /\ Has(reg[j], "write") /\ reg[j].etag \in {0, disk.etag}
                         /\ disk' = [content |-> 3, etag |-> disk.etag + 1, by |-> j]
    BY <2>3 DEF settings_saved
  <2>5. j = id
    BY <2>4
  <2> QED
    BY <2>0, <2>4, <2>5 DEF IInv, DiskInv, WriteOK
<1>2. Safe /\ [Next]_vars => [A]_vars
  BY <1>1
<1>3. Spec => [][A]_vars
  BY <1>2, Inductive, PTL DEF Spec
<1> QED
  BY <1>3 DEF SaveKeepsEdits

=============================================================================
