----------------------------- MODULE MCLibrary -----------------------------
(* Definitions for TLC. *)
EXTENDS LibraryCalls

MCData == {OfInt(1), OfBool(TRUE)}
MCLists == {<<OfInt(1), OfInt(1)>>, <<OfBool(TRUE), OfInt(1)>>, <<StringArg, OfInt(1)>>}
MCIndexes == {1, 2}
=============================================================================
