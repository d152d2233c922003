--------------------------- MODULE MCCollections ---------------------------
(* Small objects: five colliding keys, three list values, texts of one- and *)
(* two-byte characters and numerals at the edges of a 5-bit range.         *)
EXTENDS Collections

MCHash == [a |-> 7, b |-> 7, c |-> 0, d |-> 8, e |-> 15]
MCBounds == -5..5
MCSteps == {-6, -5, -2, -1, 0, 1, 2, 5}
\* "aa ", "a" and e-acute, "Z", and numerals
MCInitialTexts ==
  {<<97, 97, 32>>, <<97, 195, 169>>, <<90>>, <<43, 49, 53>>, <<45, 49, 54>>, <<45, 49, 55>>,
   <<49, 54>>, <<51, 49>>, <<51, 50>>}
MCArgTexts == {<<>>, <<97>>, <<97, 97>>, <<195, 169>>}
\* Bytes at the ends of every range the scanners distinguish.
MCOutputBytes == {65, 128, 144, 160, 191, 194, 224, 237, 240, 244, 255}
=============================================================================
