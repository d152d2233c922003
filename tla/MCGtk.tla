------------------------------- MODULE MCGtk -------------------------------
EXTENDS Gtk

P(uses, tokens, types) == [uses |-> uses, tokens |-> tokens, widgets |-> types]

\* Each program opens with one registration that gives it a handler; the
\* others meet it, and each other, while it runs.  The last one adds and disposes
\* the pages of a notebook, which calls its handlers in the middle of both.
MCPrograms ==
  {P({"signal", "group"}, 3, <<"box", "view">>),
   P({"post", "signal"}, 2, <<"box", "box">>),
   P({"post", "dialog", "files"}, 3, <<"window">>),
   P({"post", "shortcut"}, 3, <<"window", "view">>),
   P({"post", "tree", "scan"}, 4, <<"view">>),
   P({"save", "shortcut"}, 3, <<"view">>),
   P({"save", "dialog"}, 3, <<"window">>),
   P({"signal"}, 2, <<"notebook", "box", "box">>)}
=============================================================================
