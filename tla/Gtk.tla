-------------------------------- MODULE Gtk --------------------------------
(***************************************************************************)
(* The GTK binding and the callback registrations of the runtime it is     *)
(* built on: what the GUI thread does with signals, posted work, choosers, *)
(* shortcuts, trees, directory scans and saves of settings, and what a     *)
(* handler may do while it runs: connect, disconnect, cancel, dispose      *)
(* widgets, emit again, shut the application down.                         *)
(*                                                                         *)
(* A token names a registration for good (token_new): reg[id] is the block *)
(* with what the package keeps of it and the callback context or transfer  *)
(* it holds; an operation on a registration takes the record before it to  *)
(* the one after it.  stack is the GUI thread's stack of handlers; a frame  *)
(* of no handler is shutdown waiting in the main context for saves to end, *)
(* or an operation on a page inside GTK's code, which calls the handlers   *)
(* of the notebook.  The GUI thread holds the runtime lock except while it *)
(* waits in run, so an operation that calls no handler is one step, and a  *)
(* handler may be interrupted between two.                                 *)
(***************************************************************************)
EXTENDS Integers, Sequences, FiniteSets

CONSTANTS Programs,    \* for each program, the kinds of registration it uses, how
                       \* many it makes, and the types of the widgets it creates
          MaxDepth,    \* handlers nested in each other
          MaxBatches,  \* batches of a scan, paths of a chooser
          MaxEdits     \* how often somebody else writes the settings file

Connections == {"signal", "group"}
Dialogs == {"dialog", "files"}
Kinds == Connections \cup Dialogs \cup {"post", "shortcut", "tree", "scan", "save"}
WidgetTypes == {"box", "view", "window", "notebook"}

ASSUME GtkAssumption ==
  /\ {MaxDepth, MaxBatches} \subseteq Nat \ {0}
  /\ MaxEdits \in Nat
  /\ \A p \in Programs : /\ p.tokens \in Nat /\ p.uses \subseteq Kinds
                           /\ p.widgets \in Seq(WidgetTypes)

VARIABLES program,  \* the program that runs, one of Programs
          reg,      \* the registrations, by token
          widgets,  \* the widgets, by token
          stack,    \* the handlers that run
          phase,    \* of the program: setup, running or over
          quit, stopped,
          disk      \* the settings file; content 0: there is none
vars == <<program, reg, widgets, stack, phase, quit, stopped, disk>>
appVars == <<program, phase, quit, stopped>>

Ids == DOMAIN reg
Widgets == DOMAIN widgets

Init ==
  /\ program \in Programs
  /\ reg = <<>> /\ widgets = <<>> /\ stack = <<>>
  /\ phase = "setup" /\ quit = FALSE /\ stopped = FALSE
  /\ \E content \in IF "save" \in program.uses THEN {0, 1} ELSE {0} :
       disk = [content |-> content, etag |-> content, by |-> 0]

-----------------------------------------------------------------------------
(* Callback registrations (RuntimeGc.c).                                   *)

\* cwhip_callback_acquire, cwhip_callback_transfer_prepare: a registration
\* with a root of its own.
acquire(kind, owner, ctx, closures, flags) ==
  [kind |-> kind, owner |-> owner, ctx |-> ctx, flight |-> 0, active |-> 0,
   closures |-> closures, left |-> 0, expected |-> 0, etag |-> 0,
   flags |-> {"listed"} \cup flags]

Has(r, flag) == flag \in r.flags
Mark(r, set) == [r EXCEPT !.flags = @ \cup set]
Clear(r, set) == [r EXCEPT !.flags = @ \ set]

\* What would end the process is marked where it happens.
Check(r, ok) == IF ok THEN r ELSE Mark(r, {"fatal"})

\* cwhip_callback_release and cwhip_callback_dispose: fatal for a context
\* that is in flight or gone.
release(r) == [Check(r, r.ctx = "live" /\ r.flight = 0) EXCEPT !.ctx = "none"]

\* cwhip_callback_context_invoke; the handler goes on top of the stack.
invoke(r) == [Check(r, r.ctx = "live") EXCEPT !.flight = @ + 1]
Frame(id, part) == [id |-> id, part |-> part]

\* free() of the block, which is unlinked before.
Freed(r) == Clear(Mark(Check(r, ~Has(r, "freed")), {"freed"}), {"listed"})
Of(kinds, owner) == {id \in Ids : reg[id].kind \in kinds /\ reg[id].owner = owner}

-----------------------------------------------------------------------------
(* Signal connections.                                                     *)

\* connection_collect.
connection_collect(r) ==
  IF Has(r, "detached") /\ r.active = 0 THEN Freed(release(r)) ELSE r

\* connection_destroy for each of the closures that GLib has dropped: the
\* last one detaches the connection.
connection_destroy(r, dropped) ==
  LET t == [r EXCEPT !.closures = @ \ dropped]
  IN connection_collect(IF t.closures = {} THEN Mark(t, {"closed", "detached"}) ELSE t)

\* GLib keeps a closure until no emission runs it.
Emitting(frames, id) == {frames[k].part : k \in {j \in DOMAIN frames : frames[j].id = id}}
DropClosures(r, emitting) ==
  IF r.closures \subseteq emitting THEN r ELSE connection_destroy(r, r.closures \ emitting)

\* cwhip_gtk_disconnect.
disconnect(r, emitting) ==
  IF Has(r, "closed") THEN r ELSE DropClosures(Mark(r, {"closed"}), emitting)

\* signal_enter, and signal_leave with the end of GLib's emission.
signal_enter(r) == [r EXCEPT !.active = @ + 1]
signal_leave(r, emitting) ==
  LET t == connection_collect([r EXCEPT !.active = @ - 1])
  IN IF Has(t, "closed") /\ ~Has(t, "freed") THEN DropClosures(t, emitting) ELSE t

-----------------------------------------------------------------------------
(* Choosers.                                                               *)

\* dialog_finish without a result.
dialog_drop(r) == Freed(r)

\* dialog_cancel: the root goes at once, the block stays with GTK's request.
dialog_cancel(r) ==
  LET t == release(Clear(Mark(r, {"cancelled"}), {"listed"}))
  IN IF Has(t, "request") THEN t ELSE dialog_drop(t)

\* file_dialog_completed: GTK answers with a number of paths.
file_dialog_completed(r, paths) ==
  LET t == [Clear(r, {"request"}) EXCEPT !.left = paths]
  IN IF Has(t, "cancelled") THEN dialog_drop(t) ELSE Mark(t, {"completion"})

\* dialog_complete, dialog_finish: the block goes before the handler runs.
dialog_finish(r) == Freed(Clear(r, {"completion"}))
Paths(r) == IF r.kind = "files" THEN r.left + 1 ELSE 1

-----------------------------------------------------------------------------
(* Shortcuts.                                                              *)

\* shortcut_release.
shortcut_release(r) ==
  IF r.ctx = "none" THEN r
  ELSE IF r.active > 0 THEN Mark(r, {"release"})
  ELSE Clear(release(r), {"release"})

\* shortcut_context_dispose: GTK has dropped the action.
shortcut_context_dispose(r) ==
  LET t == Clear(shortcut_release(r), {"listed", "native"})
  IN IF t.active > 0 THEN Mark(t, {"orphaned"}) ELSE Freed(t)

\* shortcut_invoke, before and after the handler.
shortcut_enter(r) == [r EXCEPT !.active = @ + 1]
shortcut_leave(r) ==
  LET t == [r EXCEPT !.active = @ - 1]
      u == IF Has(t, "release") THEN shortcut_release(t) ELSE t
  IN IF t.active > 0 THEN t
     ELSE IF Has(u, "orphaned") THEN Freed(u) ELSE u

-----------------------------------------------------------------------------
(* Trees and directory scans.                                              *)

\* tree_release_callbacks and tree_unref: the state goes with its last user.
tree_release_callbacks(r) == IF r.active > 0 \/ r.ctx = "none" THEN r ELSE release(r)
tree_unref(r) == IF Has(r, "native") \/ r.active > 0 THEN r ELSE Freed(r)
tree_stop(r) == tree_release_callbacks(Mark(r, {"closed"}))

\* tree_invoke, before and after the handler.
tree_enter(r) == [r EXCEPT !.active = @ + 1]
tree_leave(r) ==
  LET t == [r EXCEPT !.active = @ - 1]
  IN tree_unref(IF Has(t, "closed") THEN tree_release_callbacks(t) ELSE t)

\* directory_unref: the GUI thread, the worker and a running dispatch each
\* hold the job.
directory_unref(r, user) ==
  LET t == Clear(r, {user})
  IN IF t.flags \cap {"gui", "worker", "dispatch"} = {} THEN Freed(t) ELSE t

\* directory_release, directory_close.
directory_release(r) == IF r.active > 0 \/ r.ctx = "none" THEN r ELSE release(r)
directory_close(r) ==
  IF Has(r, "closed") THEN r
  ELSE directory_unref(directory_release(Clear(Mark(r, {"closed"}), {"listed"})), "gui")

\* directory_dispatch enters directory_deliver: part 1 of a frame delivers a
\* batch, part 2 the end.
directory_dispatch(r) == [Mark(r, {"dispatch"}) EXCEPT !.active = @ + 1]

\* directory_deliver returns to directory_dispatch.  After the last batch the
\* end is reported at once, unless the handler closed the scan.
directory_leave(r, final) ==
  LET t == [r EXCEPT !.active = @ - 1, !.left = IF final THEN @ ELSE @ - 1]
  IN IF Has(t, "closed") THEN directory_release(t) ELSE t
directory_goes_on(r) == ~Has(r, "closed") /\ r.left = 0
directory_ends(r, final) == directory_unref(IF final THEN directory_close(r) ELSE r, "dispatch")

-----------------------------------------------------------------------------
(* Widgets, shutdown.                                                      *)

\* post_cancel.
post_cancel(r) == Freed([r EXCEPT !.ctx = "none"])

\* w and what is attached below it.
Under(w) ==
  {x \in Widgets : \A T \in SUBSET Widgets :
     w \in T /\ (\A y \in Widgets : widgets[y].parent \in T => y \in T) => x \in T}

\* What widget_dispose does to the registrations of the widget, each loop to
\* those of its kind, before it goes on to the widget's children.
dispose_one(r, emitting) ==
  CASE r.kind = "scan" /\ Has(r, "listed") -> directory_close(r)
    [] r.kind = "tree" /\ ~Has(r, "freed") -> tree_stop(r)
    [] r.kind \in Dialogs /\ Has(r, "listed") -> dialog_cancel(r)
    [] r.kind \in Connections /\ Has(r, "listed") -> disconnect(r, emitting)
    [] r.kind = "shortcut" /\ Has(r, "listed") -> Clear(shortcut_release(r), {"listed"})
    [] OTHER -> r

\* widget_dispose of the widgets ws, which through its calls of itself hold
\* all that is attached below them; widget_destroyed and window_removed end
\* here.
widget_dispose(regs, ws) ==
  /\ reg' = [id \in Ids |-> IF regs[id].owner \in ws
                            THEN dispose_one(regs[id], Emitting(stack, id)) ELSE regs[id]]
  /\ widgets' = [x \in Widgets |->
                   IF x \in ws THEN [widgets[x] EXCEPT !.state = "disposed", !.parent = 0]
                   ELSE widgets[x]]

Live(w) == widgets[w].state = "live"
HasChildren(p) == \E x \in Widgets : widgets[x].parent = p

\* The first loops of cwhip_gtk_shutdown.
stop_one(r, emitting) ==
  CASE r.kind = "post" /\ Has(r, "listed") -> post_cancel(r)
    [] r.kind \in Dialogs /\ Has(r, "listed") -> dialog_cancel(r)
    [] r.kind \in Connections /\ Has(r, "listed") -> disconnect(r, emitting)
    [] OTHER -> r

Saving == \E id \in Ids : reg[id].kind = "save" /\ Has(reg[id], "listed")

\* cwhip_gtk_shutdown: it returns at once, or waits for the saves in
\* config_finish_shutdown.
shutdown ==
  IF stopped THEN UNCHANGED <<reg, widgets, stack, quit, stopped>>
  ELSE /\ stopped' = TRUE /\ quit' = TRUE
       /\ widget_dispose([id \in Ids |-> stop_one(reg[id], Emitting(stack, id))],
                         UNION {Under(w) : w \in {x \in Widgets : Live(x)}})
       /\ stack' = IF Saving THEN Append(stack, Frame(0, 0)) ELSE stack

\* A handler of the notebook has used the page that was added or removed
\* under it; the operation ends in front of its frame, and the model there.
Reentered == \E w \in Widgets : widgets[w].busy = "reentered"

-----------------------------------------------------------------------------
(* What a program does: at its start, or in a handler.                     *)

Top == stack[Len(stack)]
InHandler == stack # <<>> /\ Top.id # 0
InProgram == (phase = "setup" /\ stack = <<>>) \/ InHandler
NewId == Len(reg) + 1

\* The registration id becomes r; nothing else changes.
Becomes(id, r) == reg' = [reg EXCEPT ![id] = r] /\ UNCHANGED <<appVars, widgets, stack, disk>>

\* The handler of id runs.
Calls(id, r, part) ==
  /\ reg' = [reg EXCEPT ![id] = invoke(r)]
  /\ stack' = Append(stack, Frame(id, part))
  /\ UNCHANGED <<appVars, widgets>>

Registers(r) ==
  /\ NewId <= program.tokens /\ r.kind \in program.uses /\ ~stopped
  /\ reg' = Append(reg, r)
  /\ UNCHANGED <<appVars, widgets, stack, disk>>

\* require_live and token_new, of an operation that makes a registration.
Creates(kind, owner, closures, flags) ==
  /\ InProgram
  /\ owner # 0 => Live(owner)
  /\ Registers(acquire(kind, owner, "live", closures, flags))

\* connect_signal on the application or on a widget; connect_state adds a
\* closure to it.
connect_signal ==
  \/ \E w \in {0} \cup Widgets : (w = 0 => phase = "setup") /\ Creates("signal", w, {1}, {})
  \/ \E w \in Widgets : widgets[w].type = "view" /\ Creates("group", w, {1, 2}, {})

\* file_dialog_create.
file_dialog_create ==
  \E w \in Widgets, kind \in Dialogs :
    widgets[w].type = "window" /\ Creates(kind, w, {}, {"request"})

\* cwhip_gtk_source_view_bind_shortcut.
bind_shortcut ==
  \E w \in Widgets : widgets[w].type = "view" /\ Creates("shortcut", w, {}, {"native"})

\* cwhip_gtk_tree_setup, once for a widget; directory_start for a live tree.
tree_setup ==
  \E w \in Widgets : /\ widgets[w].type = "view" /\ Of({"tree"}, w) = {}
                     /\ Creates("tree", w, {}, {"native"})
directory_start ==
  \E w \in Widgets : /\ \E t \in Of({"tree"}, w) : ~Has(reg[t], "closed")
                     /\ Creates("scan", w, {}, {"gui", "worker"})

\* cwhip_gtk_post, from the program or from a worker.
post == ~Reentered /\ Registers(acquire("post", 0, "transfer", {}, {}))

\* cwhip_gtk_config_save: expected is what the program last knew.
config_save ==
  /\ InProgram
  /\ \E e \in {0, 1} :
       Registers([acquire("save", 0, "live", {}, {"load"}) EXCEPT !.expected = e])

\* The cancelling operations, with any token the program ever had.
cancel ==
  /\ InProgram
  /\ \E id \in Ids :
       LET r == reg[id] IN
       /\ Has(r, "listed")
       /\ \/ r.kind \in Connections /\ Becomes(id, disconnect(r, Emitting(stack, id)))
          \/ r.kind \in Dialogs /\ Becomes(id, dialog_cancel(r))
          \/ r.kind = "post" /\ ~stopped /\ Becomes(id, post_cancel(r))
          \/ r.kind = "scan" /\ Becomes(id, directory_close(r))

\* cwhip_gtk_source_view_clear_shortcuts.
clear_shortcuts ==
  /\ InHandler /\ ~stopped
  /\ \E w \in Widgets :
       LET own == {id \in Of({"shortcut"}, w) : Has(reg[id], "listed")}
       IN /\ Live(w) /\ own # {}
          /\ reg' = [id \in Ids |->
                       IF id \in own THEN shortcut_context_dispose(reg[id]) ELSE reg[id]]
          /\ UNCHANGED <<appVars, widgets, stack, disk>>

\* cwhip_gtk_widget_create, during or after activation.
widget_create ==
  /\ InHandler /\ ~stopped
  /\ Len(widgets) < Len(program.widgets)
  /\ widgets' = Append(widgets, [type |-> program.widgets[Len(widgets) + 1],
                                 state |-> "live", parent |-> 0,
                                 busy |-> "no", page |-> 0, since |-> 0])
  /\ UNCHANGED <<appVars, reg, stack, disk>>

\* What cwhip_gtk_widget_attach and cwhip_gtk_notebook_append ask: anything
\* else is fatal.  A page that GTK is adding or removing has a native parent.
may_attach(p, c) ==
  /\ p # c /\ widgets[c].parent = 0 /\ widgets[c].type # "window"
  /\ widgets[c].busy = "no" /\ p \notin Under(c)

SetParent(c, p) ==
  /\ widgets' = [widgets EXCEPT ![c].parent = p]
  /\ UNCHANGED <<appVars, reg, stack, disk>>

widget_attach ==
  /\ InHandler /\ ~stopped
  /\ \E p, c \in Widgets :
       /\ Live(p) /\ Live(c) /\ may_attach(p, c)
       /\ widgets[p].type \in {"box", "window"}
       /\ widgets[p].type = "window" => ~HasChildren(p)
       /\ SetParent(c, p)

\* cwhip_gtk_notebook_append.  The first page is switched to, and the
\* handlers of that run before the record of the page has its parent.
notebook_append ==
  /\ InHandler /\ ~stopped
  /\ \E p, c \in Widgets :
       /\ Live(p) /\ Live(c) /\ may_attach(p, c)
       /\ widgets[p].type = "notebook"
       /\ \/ HasChildren(p) /\ SetParent(c, p)
          \/ /\ ~HasChildren(p)
             /\ widgets' = [widgets EXCEPT ![c].busy = "append", ![c].page = p]
             /\ stack' = Append(stack, Frame(0, c))
             /\ UNCHANGED <<appVars, reg, disk>>

\* cwhip_gtk_widget_remove: when a handler runs in it, all is done.
widget_remove ==
  /\ InHandler /\ ~stopped
  /\ \E c \in Widgets : widgets[c].parent # 0 /\ SetParent(c, 0)

\* cwhip_gtk_widget_dispose, or GTK destroys a window.
dispose ==
  /\ InHandler /\ ~stopped
  /\ \E w \in Widgets : Live(w) /\ widget_dispose(reg, Under(w))
  /\ UNCHANGED <<appVars, stack, disk>>

\* cwhip_gtk_widget_dispose of the current page of a notebook that has
\* another one: detach makes GTK switch, and the handlers of that run when
\* the page has lost all that was registered on it, its children and its
\* parent, and has still its widget and its root.
dispose_page ==
  /\ InHandler /\ ~stopped
  /\ \E w \in Widgets :
       LET p == widgets[w].parent
           below == Under(w) \ {w}
       IN /\ Live(w) /\ p # 0 /\ widgets[p].type = "notebook"
          /\ \E x \in Widgets \ {w} : widgets[x].parent = p
          /\ reg' = [id \in Ids |-> IF reg[id].owner \in Under(w)
                                    THEN dispose_one(reg[id], Emitting(stack, id)) ELSE reg[id]]
          /\ widgets' = [x \in Widgets |->
               CASE x = w -> [widgets[x] EXCEPT !.parent = 0, !.busy = "dispose", !.page = p,
                                                !.since = Len(reg)]
                 [] x \in below -> [widgets[x] EXCEPT !.state = "disposed", !.parent = 0]
                 [] OTHER -> widgets[x]]
          /\ stack' = Append(stack, Frame(0, w))
  /\ UNCHANGED <<appVars, disk>>

\* cwhip_gtk_shutdown from the program or a handler, cwhip_gtk_quit.
shut_down == InProgram /\ ~stopped /\ shutdown /\ UNCHANGED <<program, phase, disk>>
quit_main ==
  /\ InHandler /\ phase = "running" /\ ~stopped /\ ~quit
  /\ quit' = TRUE
  /\ UNCHANGED <<program, phase, stopped, reg, widgets, stack, disk>>

\* cwhip_gtk_run: it enters the main context, and shuts down when that ends.
run ==
  /\ phase = "setup" /\ stack = <<>> /\ ~stopped
  /\ phase' = "running"
  /\ UNCHANGED <<program, quit, stopped, reg, widgets, stack, disk>>
run_ends ==
  /\ phase = "running" /\ stack = <<>> /\ quit
  /\ shutdown
  /\ phase' = "over"
  /\ UNCHANGED <<program, disk>>

-----------------------------------------------------------------------------
(* What the main context dispatches, in run or while shutdown drains it.   *)

Draining == stack # <<>> /\ Top = Frame(0, 0)
InPage == stack # <<>> /\ Top.id = 0 /\ Top.part # 0 /\ ~Reentered
InLoop == Draining \/ (phase = "running" /\ stack = <<>> /\ ~quit)
Deep == Cardinality({k \in DOMAIN stack : stack[k].id # 0}) >= MaxDepth

\* A signal of a live object (clicked, text_changed, close_request, ...), from
\* the loop or from what a handler does; page_switched from the notebook that
\* adds or removes a page.
emit ==
  /\ ~Deep
  /\ \E id \in Ids : \E c \in reg[id].closures :
       /\ InLoop \/ InHandler \/ (InPage /\ reg[id].owner = widgets[Top.part].page)
       /\ reg[id].kind \in Connections /\ ~Has(reg[id], "closed")
       /\ Calls(id, signal_enter(reg[id]), c)
  /\ UNCHANGED disk

\* dispatch: the transfer becomes a context of the GUI thread.
dispatch ==
  /\ InLoop /\ ~Deep
  /\ \E id \in Ids :
       /\ reg[id].kind = "post" /\ Has(reg[id], "listed")
       /\ Calls(id, Freed([reg[id] EXCEPT !.ctx = "live"]), 0)
  /\ UNCHANGED disk

chooser_answers ==
  /\ InLoop
  /\ \E id \in Ids, n \in 0 .. MaxBatches :
       Has(reg[id], "request") /\ Becomes(id, file_dialog_completed(reg[id], n))
chooser_result ==
  /\ InLoop /\ ~Deep
  /\ \E id \in Ids :
       /\ Has(reg[id], "completion") /\ ~Has(reg[id], "freed")
       /\ Calls(id, dialog_finish(reg[id]), Paths(reg[id]))
  /\ UNCHANGED disk

\* Mutant: a binding whose release is pending is invoked again.
bound_mut(r) == r.ctx = "live"

\* What shortcut_invoke asks of the binding.
bound(r) == r.ctx = "live" /\ ~Has(r, "release")

shortcut ==
  /\ InLoop /\ ~Deep
  /\ \E id \in Ids :
       /\ reg[id].kind = "shortcut" /\ Has(reg[id], "native") /\ bound(reg[id])
       /\ Calls(id, shortcut_enter(reg[id]), 0)
  /\ UNCHANGED disk

\* A row is expanded or activated, by the user or by setExpanded.
tree_event ==
  /\ (InLoop \/ InHandler) /\ ~Deep
  /\ \E id \in Ids :
       /\ reg[id].kind = "tree" /\ Has(reg[id], "native") /\ ~Has(reg[id], "closed")
       /\ Calls(id, tree_enter(reg[id]), 0)
  /\ UNCHANGED disk

\* The package's native references to a disposed widget go: GTK drops the
\* actions of its shortcuts and the data of its tree.
widget_finalized ==
  /\ ~Reentered
  /\ \E id \in Ids :
       /\ Has(reg[id], "native") /\ ~Live(reg[id].owner)
       /\ Becomes(id, IF reg[id].kind = "shortcut" THEN shortcut_context_dispose(reg[id])
                      ELSE tree_unref(Clear(reg[id], {"native"})))

\* directory_worker ends, on its own thread.
directory_worker ==
  /\ ~Reentered
  /\ \E id \in Ids, n \in 0 .. MaxBatches :
       /\ Has(reg[id], "worker")
       /\ Becomes(id, directory_unref([Mark(reg[id], {"done"}) EXCEPT !.left = n], "worker"))

scan_tick ==
  /\ InLoop /\ ~Deep
  /\ \E id \in Ids :
       /\ reg[id].kind = "scan" /\ Has(reg[id], "listed") /\ Has(reg[id], "done")
       /\ Calls(id, directory_dispatch(reg[id]), IF reg[id].left > 0 THEN 1 ELSE 2)
  /\ UNCHANGED disk

\* Mutant: a save that ends during shutdown stays in the list.
config_complete_mut(id) ==
  LET r == Clear(reg[id], {"load", "write"})
  IN IF stopped THEN /\ reg' = [reg EXCEPT ![id] = release(r)]
                     /\ UNCHANGED <<appVars, widgets, stack>>
     ELSE Calls(id, Clear(r, {"listed"}), 0)

\* config_complete: the result is told unless the application has stopped.
config_complete(id) ==
  LET r == Clear(reg[id], {"listed", "load", "write"})
  IN IF stopped THEN /\ reg' = [reg EXCEPT ![id] = Freed(release(r))]
                     /\ UNCHANGED <<appVars, widgets, stack>>
     ELSE Calls(id, r, 0)

\* Mutant: the settings file is not compared with what the program expects.
unexpected_mut(id) == FALSE

\* config_loaded: what makes a loaded file one that somebody else wrote.
unexpected(id) == disk.content # reg[id].expected

\* config_loaded and config_saved; an I/O error ends either.
settings_loaded ==
  /\ InLoop /\ (~stopped => ~Deep)
  /\ \E id \in Ids :
       /\ Has(reg[id], "load")
       /\ \/ config_complete(id) /\ UNCHANGED disk
          \/ /\ ~unexpected(id)
             /\ Becomes(id, [Mark(Clear(reg[id], {"load"}), {"write"}) EXCEPT !.etag = disk.etag])
settings_saved ==
  /\ InLoop /\ (~stopped => ~Deep)
  /\ \E id \in Ids :
       /\ Has(reg[id], "write") /\ config_complete(id)
       /\ \/ UNCHANGED disk
          \/ /\ reg[id].etag \in {0, disk.etag}
             /\ disk' = [content |-> 3, etag |-> disk.etag + 1, by |-> id]

\* Somebody else writes the settings file.
edit ==
  /\ "save" \in program.uses /\ disk.etag < MaxEdits /\ ~Reentered
  /\ disk' = [content |-> 2, etag |-> disk.etag + 1, by |-> 0]
  /\ UNCHANGED <<appVars, reg, widgets, stack>>

Popped == SubSeq(stack, 1, Len(stack) - 1)

\* shutdown goes on once no save is left.
drained ==
  /\ Draining /\ ~Saving
  /\ stack' = Popped
  /\ UNCHANGED <<appVars, reg, widgets, disk>>

\* Mutant: a page is left with its record untouched when GTK has removed it.
dispose_ends_mut ==
  /\ InPage /\ widgets[Top.part].busy = "dispose"
  /\ widgets' = [widgets EXCEPT ![Top.part].busy = "no", ![Top.part].state = "disposed",
                                ![Top.part].parent = widgets[Top.part].page]
  /\ stack' = Popped
  /\ UNCHANGED <<appVars, reg, disk>>

\* cwhip_gtk_notebook_append goes on: it sets the parent, whatever the
\* handlers did to the two widgets.
append_ends ==
  /\ InPage /\ widgets[Top.part].busy = "append"
  /\ LET w == Top.part
         p == widgets[w].page
         changed == ~Live(w) \/ ~Live(p) \/ p \in Under(w)
     IN /\ widgets' = [widgets EXCEPT ![w].parent = p,
                                      ![w].busy = IF changed THEN "reentered" ELSE "no"]
        /\ stack' = IF changed THEN stack ELSE Popped
  /\ UNCHANGED <<appVars, reg, disk>>

\* widget_dispose goes on: it gives up the widget and releases the root,
\* whatever the handlers did to the page; a root that is gone is released
\* twice, which is fatal, or after shutdown in a record that is freed.
dispose_ends ==
  /\ InPage /\ widgets[Top.part].busy = "dispose"
  /\ LET w == Top.part
         changed == \/ ~Live(w) \/ HasChildren(w)
                    \/ \E id \in Ids : reg[id].owner = w /\ id > widgets[w].since
     IN /\ widgets' = [widgets EXCEPT ![w].state = IF Live(w) THEN "disposed" ELSE "twice",
                                      ![w].busy = IF changed THEN "reentered" ELSE "no"]
        /\ stack' = IF changed THEN stack ELSE Popped
  /\ UNCHANGED <<appVars, reg, disk>>

\* A handler returns to the native code that called it: to the end, or to
\* code that calls the handler again.
Returns(r) == reg' = [reg EXCEPT ![Top.id] = r] /\ stack' = Popped
CallsAgain(r, part) ==
  reg' = [reg EXCEPT ![Top.id] = invoke(r)] /\ stack' = Append(Popped, Frame(Top.id, part))

return ==
  /\ InHandler
  /\ LET kind == reg[Top.id].kind
         r == [reg[Top.id] EXCEPT !.flight = @ - 1]
     IN \/ kind \in Connections /\ Returns(signal_leave(r, Emitting(Popped, Top.id)))
        \/ kind = "post" /\ Returns(release(r))
        \/ kind \in Dialogs /\ Top.part > 1 /\ CallsAgain(r, Top.part - 1)
        \/ kind \in Dialogs /\ Top.part <= 1 /\ Returns(release(r))
        \/ kind = "shortcut" /\ Returns(shortcut_leave(r))
        \/ kind = "tree" /\ Returns(tree_leave(r))
        \/ /\ kind = "scan"
           /\ LET final == Top.part = 2
                  t == directory_leave(r, final)
              IN IF ~final /\ directory_goes_on(t)
                 THEN CallsAgain([t EXCEPT !.active = @ + 1], 2)
                 ELSE Returns(directory_ends(t, final))
        \/ kind = "save" /\ Returns(Freed(release(r)))
  /\ UNCHANGED <<appVars, widgets, disk>>

Native ==
  \/ emit \/ dispatch \/ chooser_answers \/ chooser_result \/ shortcut \/ tree_event
  \/ widget_finalized \/ directory_worker \/ scan_tick
  \/ settings_loaded \/ settings_saved \/ edit \/ drained \/ append_ends \/ dispose_ends

Program ==
  \/ connect_signal \/ file_dialog_create \/ bind_shortcut \/ tree_setup \/ directory_start
  \/ post \/ config_save \/ cancel \/ clear_shortcuts \/ widget_create \/ widget_attach
  \/ notebook_append \/ widget_remove \/ dispose \/ dispose_page \/ shut_down \/ quit_main \/ run \/ run_ends

Next == Native \/ Program \/ return

\* GIO completes what it was asked to do, and shutdown then goes on.
Fairness == WF_vars(settings_loaded) /\ WF_vars(settings_saved) /\ WF_vars(drained)

Spec == Init /\ [][Next]_vars /\ Fairness

-----------------------------------------------------------------------------
TypeOK ==
  /\ phase \in {"setup", "running", "over"}
  /\ {quit, stopped} \subseteq BOOLEAN
  /\ \A id \in Ids :
       /\ reg[id].kind \in Kinds /\ reg[id].ctx \in {"none", "transfer", "live"}
       /\ reg[id].flight = Cardinality({k \in DOMAIN stack : stack[k].id = id})
       /\ reg[id].active \in 0 .. reg[id].flight
  /\ Cardinality({k \in DOMAIN stack : stack[k].id # 0}) <= MaxDepth

\* No handler, whatever it disconnects, cancels, disposes or shuts down while
\* it or another one runs, makes the binding release a registration that is
\* in flight, invoke or release one twice, or free a block twice: the fatal
\* errors of callback_context_check, cwhip_callback_release and
\* cwhip_callback_dispose are never the binding's own.
NeverFatal == \A id \in Ids : ~Has(reg[id], "fatal")

\* The block that native code reads after a handler returns is there: a
\* connection, a shortcut, a tree, a scan is not freed while a frame of it
\* is on the stack.
FramesHaveBlocks ==
  \A k \in DOMAIN stack :
    LET id == stack[k].id
    IN id # 0 /\ reg[id].kind \in Connections \cup {"shortcut", "tree", "scan", "save"}
         => ~Has(reg[id], "freed")

\* After shutdown, once the last handler has returned, no registration holds
\* a root: the GUI thread may exit (callback_thread_exit_check) and nothing
\* keeps a receiver alive.
ShutdownReleasesAll ==
  stopped /\ stack = <<>> => \A id \in Ids : reg[id].ctx = "none"

\* A disposed widget, also one disposed through its container, leaves
\* nothing behind that could call back or hang from it, and parents form a
\* forest.
DisposedIsBare ==
  \A w \in Widgets :
    /\ w \notin UNION {Under(x) : x \in Under(w) \ {w}}
    /\ widgets[w].state = "disposed" =>
         /\ widgets[w].parent = 0 /\ \A x \in Widgets : widgets[x].parent # w
         /\ \A id \in Of(Kinds, w) :
              /\ reg[id].kind \in Dialogs \cup {"scan", "shortcut"} => ~Has(reg[id], "listed")
              /\ reg[id].kind \in Connections \cup {"tree", "scan"} => Has(reg[id], "closed")
              /\ reg[id].flight = 0 => reg[id].ctx = "none"

\* Blocks, roots and widgets of the binding go when the last frame that reads
\* them has returned, not earlier and not twice, whatever the handlers do;
\* the one exception is a handler of a notebook that uses, disposes or shuts
\* down the very page whose removal or addition called it.
ReleasedExactly ==
  /\ TypeOK /\ NeverFatal /\ FramesHaveBlocks /\ ShutdownReleasesAll
  /\ ~Reentered => DisposedIsBare

\* Does not hold.  What the guide says of disposal: it is idempotent, and
\* disposing or shutting down inside a handler is supported.  The root of a
\* widget is released once, also when a handler that GTK calls from detach
\* disposes the page again (gtk.c 688-694).
RootReleasedOnce == \A w \in Widgets : widgets[w].state # "twice"

\* A callback never begins after its registration was disconnected,
\* cancelled or freed, nor after shutdown: not even by a late answer of a
\* chooser or scan, nor by what the loop dispatches while shutdown drains it.
NoLateCallback ==
  [][\A id \in Ids :
       reg'[id].flight > reg[id].flight =>
         /\ ~stopped
         /\ reg[id].flags \cap {"closed", "cancelled", "freed", "release"} = {}]_vars

\* A save replaces the settings file only while it holds what the program
\* expected, however the file was edited between the check and the
\* replacement; a first save, of a file that was missing, has no ETag.
SaveKeepsEdits ==
  [][\A id \in Ids :
       disk' # disk /\ disk'.by = id /\ reg[id].etag # 0
         => disk.content = reg[id].expected]_vars

\* Shutdown does not wait for ever in the main context.
DrainEnds == Draining ~> ~Draining
=============================================================================
