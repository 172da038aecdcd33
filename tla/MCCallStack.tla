---------------------------- MODULE MCCallStack ----------------------------
(***************************************************************************)
(* Programs for CallStack: main, and functions f, of one argument, g, that *)
(* has only a rest parameter, and h, with one argument before the rest.    *)
(***************************************************************************)
EXTENDS CallStack

Sizes == [x \in Fn |-> CASE x = "main" /\ "h" \in Fn -> 3
                         [] x = "main" /\ "h" \notin Fn -> 2
                         [] OTHER -> 1]
EnvSizes == [x \in Fn |-> CASE x = "main" -> 0 [] x = "h" -> 2 [] OTHER -> 1]
Params == [x \in Fn |-> CASE x = "main" -> 0 [] x = "h" -> 2 [] OTHER -> 1]
Rests == [x \in Fn |-> x \in {"g", "h"}]
=============================================================================
