--------------------------- MODULE MCAsyncProcess ---------------------------
EXTENDS AsyncProcess, TLC

CONSTANTS c1, c2

World(users, output, maxWrites, autoReap, faults) ==
  [users |-> users, output |-> output, maxWrites |-> maxWrites,
   autoReap |-> autoReap, faults |-> faults]

\* Two users of a quiet child; one user of a child that writes several chunks;
\* one of a child that writes once, where system calls fail; one of a child that
\* may be reaped behind the pump's back.
MCWorlds == {World({c1, c2}, {}, 0, FALSE, FALSE), World({c1}, Streams, 2, FALSE, FALSE),
             World({c1}, {"stderr"}, 1, FALSE, TRUE), World({c1}, {}, 0, TRUE, FALSE)}
=============================================================================
