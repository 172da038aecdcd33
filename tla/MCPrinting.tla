----------------------------- MODULE MCPrinting -----------------------------
(* Definitions for TLC. *)
EXTENDS Printing

\* The empty text, "a", and two code points of which one has two bytes and the
\* other is escaped by repr.
MCTexts == {<<>>, <<97>>, <<233, 39>>}
MCIndexes == {-2, 0, 1}
=============================================================================
