------------------------------ MODULE Display ------------------------------
(***************************************************************************)
(* How print, error and print_llist write values: the pieces of text that  *)
(* they hand to the printer of the host, one after the other, are added to *)
(* m.log.  The host's printer is in Runner.                                *)
(***************************************************************************)
EXTENDS Strings

SIVMFN_PRINT(m, text) == IF Stopped(m) THEN m ELSE [m EXCEPT !.log = Append(@, text)]

\* Parts with a separator between them.
Separated(m, parts, separator, Write(_, _)) ==
  FoldLeft(LAMBDA p, i : Write(IF i > 1 THEN SIVMFN_PRINT(p, separator) ELSE p, parts[i]),
           m, [i \in DOMAIN parts |-> i])

\* The text of a strpair is written piece by piece, as it is.
RECURSIVE sidisplay_strobj(_, _)
sidisplay_strobj(m, v) ==
  IF ~ Has(m, v, "strpair") THEN SIVMFN_PRINT(m, CString(m.obj[v[2]].fn))
  ELSE FoldLeft(sidisplay_strobj, m, SelectSeq(m.obj[v[2]].data, IsPtr))

Marked(m, v, displayed) == [m EXCEPT !.obj[v[2]].displayed = displayed]
Elements(m, v) == [i \in 1 .. m.obj[v[2]].count |-> m.obj[v[2]].data[i]]

\* An array that is being displayed is not displayed again inside itself.
RECURSIVE sidisplay_nanbox(_, _)
sidisplay_nanbox(m, v) ==
  CASE v[1] = "int" -> SIVMFN_PRINT(m, Digits(v))
    [] v[1] = "bool" -> SIVMFN_PRINT(m, Truth(v))
    [] v = Undef -> SIVMFN_PRINT(m, Word("undefined"))
    [] v = Null -> SIVMFN_PRINT(m, Word("None"))
    [] IsPtr(v) /\ ~ Live(m, v) -> Stale(m)
    [] IsText(m, v) -> sidisplay_strobj(m, v)
    [] Has(m, v, "array") ->
         IF m.obj[v[2]].displayed THEN SIVMFN_PRINT(m, Word("...<circular>"))
         ELSE LET inside == Separated(SIVMFN_PRINT(Marked(m, v, TRUE), Char.open), Elements(m, v),
                                      Char.comma, sidisplay_nanbox)
              IN Marked(SIVMFN_PRINT(inside, Char.close), v, FALSE)
    [] Has(m, v, "iterator") -> SIVMFN_PRINT(m, Word("<range_iterator>"))
    [] Has(m, v, "intcont") -> SIVMFN_PRINT(m, Word("<function (internal continuation)>"))
    [] IsPtr(v) -> SIVMFN_PRINT(m, Word("<function>"))
    [] OTHER -> SIVMFN_PRINT(m, Word("<internal function>"))

\* handle_display, up to the flush.
handle_display(m, argv) == Separated(m, argv, Char.space, sidisplay_nanbox)

-----------------------------------------------------------------------------
(***************************************************************************)
(* print_llist                                                             *)
(***************************************************************************)
print_llist_is_pair(m, v) == Has(m, v, "array") /\ m.obj[v[2]].count = 2

RECURSIVE print_llist_is_proper(_, _)
print_llist_is_proper(m, v) ==
  v = Null \/ (print_llist_is_pair(m, v) /\ print_llist_is_proper(m, siarray_get(m, v, 1)))

RECURSIVE Heads(_, _)
Heads(m, v) == IF v = Null THEN <<>> ELSE <<siarray_get(m, v, 0)>> \o Heads(m, siarray_get(m, v, 1))

\* A string is put together, and written with its quotes, byte by byte.
print_llist_string(m, v) ==
  Then(sistrobj_tocharptr(m, v), LAMBDA f :
    LET s == Chars(f, v)
        Single(b) == IF b \in {Quote, Backslash} THEN <<Backslash, b>> ELSE <<b>>
    IN [f EXCEPT !.log = @ \o <<Char.quote>> \o [i \in DOMAIN s |-> Single(s[i])] \o <<Char.quote>>])

print_llist_leaf(m, v) ==
  CASE v \in {Null, Undef} -> SIVMFN_PRINT(m, Word("None"))
    [] v[1] = "bool" -> SIVMFN_PRINT(m, Truth(v))
    [] v[1] = "int" -> SIVMFN_PRINT(m, Digits(v))
    [] IsPtr(v) /\ siheap_is_string(m, v) -> print_llist_string(m, v)
    [] OTHER -> SIVMFN_PRINT(m, Word("<function>"))

\* n is a value and whether it is known that it continues an improper list.
RECURSIVE print_llist_helper(_, _)
print_llist_helper(m, n) ==
  LET v == n[1]
      proper == ~ n[2] /\ print_llist_is_proper(m, v)
      parts == IF proper THEN [i \in DOMAIN Heads(m, v) |-> <<Heads(m, v)[i], FALSE>>]
               ELSE <<<<siarray_get(m, v, 0), FALSE>>, <<siarray_get(m, v, 1), TRUE>>>>
      open == IF proper THEN Word("llist(") ELSE Char.open
      close == IF proper THEN Char.end ELSE Char.close
  IN IF Stopped(m) THEN m
     ELSE IF ~ proper /\ ~ print_llist_is_pair(m, v) THEN print_llist_leaf(m, v)
     ELSE SIVMFN_PRINT(Separated(SIVMFN_PRINT(m, open), parts, Char.comma, print_llist_helper), close)

print_llist(m, v) == print_llist_helper(m, <<v, FALSE>>)

-----------------------------------------------------------------------------
\* set_result, with the value that the runner prints at the end of a run.
set_result(m, v) ==
  IF IsPtr(v) /\ siheap_is_string(m, v) THEN sistrobj_tocharptr(m, v) ELSE m
=============================================================================
