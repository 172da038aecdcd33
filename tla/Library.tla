------------------------------ MODULE Library ------------------------------
(***************************************************************************)
(* The functions on pairs, lists and streams of primitives.c, and          *)
(* siexec_nanbox, by which they run functions of the program.              *)
(*                                                                         *)
(* a is the argument vector.  Arguments stay the caller's; the result is a *)
(* new reference.  The reference to an argument of a function that is run  *)
(* passes to that function.                                                *)
(***************************************************************************)
EXTENDS Cells

CONSTANT FirstSize  \* the size of the array that stream_reverse starts with (4)
ASSUME FirstSizeAssumption == FirstSize \in Nat \ {0}

\* The internal functions and the number of arguments they check for
\* (CHECK_ARGC; is_pair and is_list: CHECK_ARGC_EXACT, stream and list: none).
Argc ==
  [pair |-> 2, head |-> 1, tail |-> 1, set_head |-> 2, set_tail |-> 2, is_pair |-> 1,
   is_list |-> 1, accumulate |-> 3, append |-> 2, build_list |-> 2, enum_list |-> 2,
   filter |-> 2, for_each |-> 2, length |-> 1, list |-> 0, list_ref |-> 2, map |-> 2,
   member |-> 2, remove |-> 2, remove_all |-> 2, reverse |-> 1, array_length |-> 1,
   gen_list |-> 1, equal |-> 2,
   list_to_stream |-> 1, build_stream |-> 2, enum_stream |-> 2, eval_stream |-> 2,
   integers_from |-> 1, stream |-> 0, stream_append |-> 2, stream_filter |-> 2,
   stream_for_each |-> 2, stream_length |-> 1, stream_map |-> 2, stream_member |-> 2,
   stream_ref |-> 2, stream_remove |-> 2, stream_remove_all |-> 2, stream_reverse |-> 1,
   stream_tail |-> 1, stream_to_list |-> 1, is_stream |-> 1]
IsIfn(v) == v[1] \in DOMAIN Argc

\* Values by which a step of a loop says that it goes on without a new element,
\* or that the loop ends here.
Skip == <<"skip", 0>>
Stop == <<"stop", 0>>

RECURSIVE siexec_nanbox(_, _, _)

-----------------------------------------------------------------------------
(***************************************************************************)
(* Pairs                                                                   *)
(***************************************************************************)

pair(m, a) == source_pair(Ref(Ref(m, a[1]), a[2]), a[1], a[2])

head(m, a) == OnPair(m, a[1], LAMBDA hd, tl : Return(Ref(m, hd), hd))
tail(m, a) == OnPair(m, a[1], LAMBDA hd, tl : Return(Ref(m, tl), tl))

\* set_head and set_tail.
set_element(m, a, i) ==
  OnPair(m, a[1], LAMBDA hd, tl : Return(siarray_put(Ref(m, a[2]), a[1], i, a[2]), Null))

IsPair(m, v) == Has(m, v, "array") /\ m.obj[v[2]].count = 2
is_pair(m, a) == Return(m, OfBool(IsPair(m, a[1])))

-----------------------------------------------------------------------------
(***************************************************************************)
(* Lists.  A new list is built from the front; last is its last pair.      *)
(***************************************************************************)

\* The functions that count the first pair of the list that they make as an
\* internal reference, until it is complete.
Counting == {"build_list", "map", "filter", "remove_all", "eval_stream", "stream_to_list"}

\* v goes to a new pair at the end of the list.
Link(m, name, last, v) ==
  Then(source_pair(m, v, Null), LAMBDA p :
    Return(CASE last # Null -> siarray_put(p, last, 1, p.ret)
             [] name \in Counting -> IntRef(p, p.ret)
             [] OTHER -> p,
           p.ret))

\* The list ends, with rest (a list that exists) as its tail.
Ended(m, name, first, last, rest) ==
  LET m1 == IF name \in Counting THEN IntDeref(m, first) ELSE m
  IN IF last = Null THEN Return(Ref(m, rest), rest)
     ELSE Return(siarray_put(Ref(m1, rest), last, 1, rest), first)

RECURSIVE is_list(_, _)
is_list(m, a) ==
  IF a[1] = Null THEN Return(m, OfBool(TRUE))
  ELSE IF ~ IsPair(m, a[1]) THEN Return(m, OfBool(FALSE))
  ELSE is_list(m, <<siarray_get(m, a[1], 1)>>)

\* source_tail, n times.
RECURSIVE Nth(_, _, _)
Nth(m, l, n) ==
  IF n <= 0 \/ Stopped(m) THEN Return(m, l)
  ELSE OnPair(m, l, LAMBDA hd, tl : Nth(m, tl, n - 1))

RECURSIVE source_list_length(_, _, _)
source_list_length(m, l, n) ==
  IF l = Null THEN Return(m, OfInt(n))
  ELSE OnPair(m, l, LAMBDA hd, tl : source_list_length(m, tl, n + 1))
length(m, a) == source_list_length(m, a[1], 0)

list_ref(m, a) == Then(Nth(m, a[1], a[2][2]), LAMBDA r : head(r, <<r.ret>>))

\* The list is copied to an array, and then taken from its end.
RECURSIVE Flatten(_, _, _, _)
Flatten(m, arr, l, i) ==
  IF l = Null \/ Stopped(m) THEN m
  ELSE OnPair(m, l, LAMBDA hd, tl : Flatten(siarray_put(Ref(m, hd), arr, i, hd), arr, tl, i + 1))

RECURSIVE Accumulate(_, _, _, _, _)
Accumulate(m, f, arr, i, acc) ==
  IF i = 0 \/ Stopped(m) THEN Return(m, acc)
  ELSE LET v == siarray_get(m, arr, i - 1)
       IN Then(siexec_nanbox(Ref(m, v), f, <<v, acc>>), LAMBDA r : Accumulate(r, f, arr, i - 1, r.ret))

accumulate(m, a) ==
  Then(source_list_length(m, a[3], 0), LAMBDA n :
  Then(siarray_new(n, n.ret[2]), LAMBDA s :
  Then(Flatten(IntRef(s, s.ret), s.ret, a[3], 0), LAMBDA flat :
  Then(Accumulate(Ref(flat, a[2]), a[1], s.ret, n.ret[2], a[2]), LAMBDA r :
    Return(Deref(IntDeref(r, s.ret), s.ret), r.ret)))))

-----------------------------------------------------------------------------
\* What the loop over a list does with its element cur, and the value that goes
\* to the new list.
map_step(m, f, cur) == siexec_nanbox(Ref(m, cur), f, <<cur>>)

\* The element is kept if the predicate has returned True.
Kept(r, cur) ==
  CASE r.ret = OfBool(TRUE) -> Return(Ref(r, cur), cur)
    [] r.ret = OfBool(FALSE) -> Return(r, Skip)
    [] OTHER -> Fault(r)

\* Mutant of filter_step: the predicate gives up a reference that was not taken.
filter_step_Unreferenced(m, f, cur) ==
  Then(siexec_nanbox(m, f, <<cur>>), LAMBDA r : Kept(r, cur))
filter_step(m, f, cur) ==
  Then(siexec_nanbox(Ref(m, cur), f, <<cur>>), LAMBDA r : Kept(r, cur))

for_each_step(m, f, cur) ==
  Then(siexec_nanbox(Ref(m, cur), f, <<cur>>), LAMBDA r : Return(Deref(r, r.ret), Skip))

append_step(m, cur) == Return(Ref(m, cur), cur)
remove_step(m, x, cur) ==
  IF sivm_equal(m, cur, x) THEN Return(m, Stop) ELSE Return(Ref(m, cur), cur)
remove_all_step(m, x, cur) ==
  IF sivm_equal(m, cur, x) THEN Return(m, Skip) ELSE Return(Ref(m, cur), cur)

ListStep(m, name, x, cur) ==
  CASE name = "map" -> map_step(m, x, cur)
    [] name = "filter" -> filter_step(m, x, cur)
    [] name = "for_each" -> for_each_step(m, x, cur)
    [] name = "append" -> append_step(m, cur)
    [] name = "remove" -> remove_step(m, x, cur)
    [] name = "remove_all" -> remove_all_step(m, x, cur)

\* The loop over the list l.  The rest of the list is read before the element is
\* dealt with.
RECURSIVE Walk(_, _, _, _, _, _)
Walk(m, name, x, l, first, last) ==
  IF Stopped(m) THEN m
  ELSE IF l = Null THEN Ended(m, name, first, last, IF name = "append" THEN x ELSE Null)
  ELSE OnPair(m, l, LAMBDA cur, rest :
         Then(ListStep(m, name, x, cur), LAMBDA s :
           CASE s.ret = Skip -> Walk(s, name, x, rest, first, last)
             [] s.ret = Stop -> Ended(s, name, first, last, rest)
             [] OTHER -> Then(Link(s, name, last, s.ret), LAMBDA p :
                           Walk(p, name, x, rest, IF first = Null THEN p.ret ELSE first, p.ret))))

\* map, filter, for_each, remove and remove_all; append, with the lists swapped.
OverList(m, name, x, l) ==
  IF name = "for_each" /\ l # Null
  THEN Then(Walk(m, name, x, l, Null, Null), LAMBDA r : Return(r, Undef))
  ELSE Walk(m, name, x, l, Null, Null)

RECURSIVE member(_, _)
member(m, a) ==
  IF a[2] = Null THEN Return(m, Null)
  ELSE OnPair(m, a[2], LAMBDA cur, rest :
         IF sivm_equal(m, a[1], cur) THEN Return(Ref(m, a[2]), a[2])
         ELSE member(m, <<a[1], rest>>))

RECURSIVE Reversed(_, _, _)
Reversed(m, l, done) ==
  IF l = Null \/ Stopped(m) THEN Return(m, done)
  ELSE OnPair(m, l, LAMBDA cur, rest :
         Then(source_pair(Ref(m, cur), cur, done), LAMBDA p : Reversed(p, rest, p.ret)))
reverse(m, a) == Reversed(m, a[1], Null)

\* The loops that make a list of the elements i, i + 1, ..., n.
NewElement(m, name, a, i) ==
  CASE name = "list" -> Return(Ref(m, a[i]), a[i])
    [] name = "build_list" -> siexec_nanbox(m, a[2], <<OfInt(i)>>)
    [] name = "enum_list" -> Return(m, OfInt(i))

RECURSIVE Produce(_, _, _, _, _, _, _)
Produce(m, name, a, i, n, first, last) ==
  IF Stopped(m) THEN m
  ELSE IF i > n THEN Ended(m, name, first, last, Null)
  ELSE Then(NewElement(m, name, a, i), LAMBDA e :
       Then(Link(e, name, last, e.ret), LAMBDA p :
         Produce(p, name, a, i + 1, n, IF first = Null THEN p.ret ELSE first, p.ret)))

NewList(m, name, a) ==
  CASE name = "list" -> Produce(m, name, a, 1, Len(a), Null, Null)
    [] name = "build_list" -> Produce(m, name, a, 0, a[1][2] - 1, Null, Null)
    [] name = "enum_list" -> Produce(m, name, a, a[1][2], a[2][2], Null, Null)

array_length(m, a) ==
  OnPair(m, a[1], LAMBDA hd, tl : Return(m, OfInt(m.obj[a[1][2]].count)))

gen_list(m, a) ==
  LET n == a[1][2] IN IF n < 0 THEN Fault(m) ELSE New(m, "array", "", [i \in 1 .. n |-> Null])

\* structural_equal.
equal(m, a) == Return(m, OfBool(sivm_equal(m, a[1], a[2])))

-----------------------------------------------------------------------------
(***************************************************************************)
(* Streams.  The tail of a stream is a function of no arguments: one of    *)
(* the program, or a continuation, which is a C function with its argument *)
(* vector.                                                                 *)
(***************************************************************************)

\* A pair whose tail is a new continuation.
LazyPair(m, hd, fn, data) ==
  Then(New(m, "intcont", fn, data), LAMBDA c : source_pair(c, hd, c.ret))

list_to_stream(m, a) ==
  IF a[1] = Null THEN Return(m, Null)
  ELSE OnPair(m, a[1], LAMBDA hd, tl :
         LazyPair(Ref(Ref(m, hd), tl), hd, "list_to_stream", <<tl>>))

\* The function is run before the continuation's vector is read again.
NextBuilt(m, self, a) ==
  Then(siexec_nanbox(m, a[3], <<a[1]>>), LAMBDA r :
    IF IsPtr(self) /\ ~ Live(r, self) THEN Stale(r)
    ELSE LazyPair(Ref(r, a[3]), r.ret, "build_stream", <<OfInt(a[1][2] + 1), a[2], a[3]>>))

\* Mutant of build_stream_cont: the limit is included.
build_stream_cont_OneMore(m, self, a) ==
  IF a[1][2] > a[2][2] THEN Return(m, Null) ELSE NextBuilt(m, self, a)
build_stream_cont(m, self, a) ==
  IF a[1][2] >= a[2][2] THEN Return(m, Null) ELSE NextBuilt(m, self, a)
build_stream(m, a) == build_stream_cont(m, Null, <<OfInt(0), a[1], a[2]>>)

enum_stream(m, a) ==
  IF a[1][2] > a[2][2] THEN Return(m, Null)
  ELSE LazyPair(m, a[1], "enum_stream", <<OfInt(a[1][2] + 1), a[2]>>)

integers_from(m, a) == LazyPair(m, a[1], "integers_from", <<OfInt(a[1][2] + 1)>>)

stream_cont(m, a) ==
  LET i == a[2][2]
      hd == siarray_get(m, a[1], i)
  IN IF a[1] = Null THEN Return(m, Null)
     ELSE IF i >= m.obj[a[1][2]].count THEN Return(m, Null)
     ELSE LazyPair(Ref(Ref(m, hd), a[1]), hd, "stream", <<a[1], OfInt(i + 1)>>)

stream(m, a) ==
  CASE a = <<>> -> Return(m, Null)
    [] Len(a) = 1 -> LazyPair(Ref(m, a[1]), a[1], "stream", <<Null>>)
    [] OTHER -> Then(New(FoldLeft(Ref, m, a), "array", "", Tail(a)), LAMBDA arr :
                  LazyPair(arr, a[1], "stream", <<arr.ret, OfInt(0)>>))

stream_append(m, a) ==
  IF a[1] = Null THEN Return(Ref(m, a[2]), a[2])
  ELSE OnPair(m, a[1], LAMBDA hd, tl :
         LazyPair(Ref(Ref(Ref(m, a[2]), hd), tl), hd, "stream_append", <<tl, a[2]>>))
stream_append_cont(m, a) ==
  Then(siexec_nanbox(m, a[1], <<>>), LAMBDA xs :
  Then(stream_append(xs, <<xs.ret, a[2]>>), LAMBDA r : Return(Deref(r, xs.ret), r.ret)))

stream_tail(m, a) == OnPair(m, a[1], LAMBDA hd, tl : siexec_nanbox(m, tl, <<>>))

MapHead(m, f, hd, tl) ==
  Then(siexec_nanbox(Ref(m, hd), f, <<hd>>), LAMBDA r :
    LazyPair(Ref(Ref(r, f), tl), r.ret, "stream_map", <<f, tl>>))

\* Mutant of stream_map: the next element is asked for at once.
stream_map_Eager(m, a) ==
  IF a[2] = Null THEN Return(m, Null)
  ELSE OnPair(m, a[2], LAMBDA hd, tl :
         Then(siexec_nanbox(m, tl, <<>>), LAMBDA t : MapHead(Deref(t, t.ret), a[1], hd, tl)))
stream_map(m, a) ==
  IF a[2] = Null THEN Return(m, Null)
  ELSE OnPair(m, a[2], LAMBDA hd, tl : MapHead(m, a[1], hd, tl))

stream_remove(m, a) ==
  IF a[2] = Null THEN Return(m, Null)
  ELSE OnPair(m, a[2], LAMBDA hd, tl :
         IF sivm_equal(m, hd, a[1]) THEN siexec_nanbox(m, tl, <<>>)
         ELSE LazyPair(Ref(Ref(Ref(m, hd), a[1]), tl), hd, "stream_remove", <<a[1], tl>>))

-----------------------------------------------------------------------------
\* A function is run while xs has an internal reference.
Holding(m, xs, fn, args) ==
  Then(siexec_nanbox(IntRef(m, xs), fn, args), LAMBDA r : Return(IntDeref(r, xs), r.ret))

\* The loops of stream_to_list and eval_stream (which ends after limit elements):
\* the tail is run before the element gets its reference, and only then the pair
\* is given up.
RECURSIVE Collect(_, _, _, _, _, _)
Collect(m, name, xs, limit, first, last) ==
  IF Stopped(m) THEN m
  ELSE IF IF name = "eval_stream" THEN limit = 0 ELSE xs = Null
  THEN Ended(Deref(m, xs), name, first, last, Null)
  ELSE OnPair(m, xs, LAMBDA hd, tl :
         Then(Holding(m, xs, tl, <<>>), LAMBDA t :
         Then(Link(Deref(Ref(t, hd), xs), name, last, hd), LAMBDA p :
           Collect(p, name, t.ret, limit - 1, IF first = Null THEN p.ret ELSE first, p.ret))))

eval_stream(m, a) ==
  IF a[2][2] <= 0 THEN Return(m, Null)
  ELSE Collect(Ref(m, a[1]), "eval_stream", a[1], a[2][2], Null, Null)
stream_to_list(m, a) == Collect(Ref(m, a[1]), "stream_to_list", a[1], 0, Null, Null)

\* What the loop over a stream does with an element: Skip, or the result of the
\* function.
stream_filter_step(m, f, xs, hd, tl) ==
  Then(Holding(Ref(m, hd), xs, f, <<hd>>), LAMBDA r :
    CASE r.ret = OfBool(TRUE) ->
           LazyPair(Deref(Ref(Ref(Ref(r, hd), f), tl), xs), hd, "stream_filter", <<f, tl>>)
      [] r.ret = OfBool(FALSE) -> Return(r, Skip)
      [] OTHER -> Fault(r))

stream_for_each_step(m, f, xs, hd) ==
  Then(Holding(Ref(m, hd), xs, f, <<hd>>), LAMBDA r : Return(Deref(r, r.ret), Skip))

stream_member_step(m, x, xs, hd) ==
  Return(m, IF sivm_equal(m, hd, x) THEN xs ELSE Skip)

stream_remove_all_step(m, x, xs, hd, tl) ==
  IF sivm_equal(m, x, hd) THEN Return(m, Skip)
  ELSE LazyPair(Deref(Ref(Ref(Ref(m, hd), x), tl), xs), hd, "stream_remove_all", <<x, tl>>)

StreamStep(m, name, x, xs, hd, tl, i) ==
  CASE name = "stream_filter" -> stream_filter_step(m, x, xs, hd, tl)
    [] name = "stream_for_each" -> stream_for_each_step(m, x, xs, hd)
    [] name = "stream_member" -> stream_member_step(m, x, xs, hd)
    [] name = "stream_remove_all" -> stream_remove_all_step(m, x, xs, hd, tl)
    [] name = "stream_reverse" -> Return(siarray_put(Ref(m, hd), x, i, hd), Skip)
    [] name \in {"stream_length", "stream_ref"} -> Return(m, Skip)

\* The loop over the stream xs, whose tails are run one after the other; the
\* loop owns a reference to xs.
RECURSIVE Traverse(_, _, _, _, _)
Traverse(m, name, x, xs, i) ==
  IF Stopped(m) \/ (name = "stream_ref" /\ i >= x) \/ (name # "stream_ref" /\ xs = Null)
  THEN Return(m, <<Skip, xs, i>>)
  ELSE OnPair(m, xs, LAMBDA hd, tl :
         Then(StreamStep(m, name, x, xs, hd, tl, i), LAMBDA s :
           IF s.ret # Skip THEN Return(s, <<s.ret, xs, i>>)
           ELSE Then(Holding(s, xs, tl, <<>>), LAMBDA t :
                  Traverse(Deref(t, xs), name, x, t.ret, i + 1))))

\* stream_filter, stream_member, stream_remove_all and stream_for_each.
OverStream(m, name, x, xs) ==
  Then(Traverse(Ref(m, xs), name, x, xs, 0), LAMBDA r :
    Return(r, CASE r.ret[1] # Skip -> r.ret[1]
                [] name = "stream_for_each" -> Undef
                [] OTHER -> Null))

stream_length(m, a) ==
  Then(Traverse(Ref(m, a[1]), "stream_length", Null, a[1], 0), LAMBDA r :
    Return(r, OfInt(r.ret[3])))

stream_ref(m, a) ==
  Then(Traverse(Ref(m, a[1]), "stream_ref", a[2][2], a[1], 0), LAMBDA r :
    OnPair(r, r.ret[2], LAMBDA hd, tl : Return(Deref(Ref(r, hd), r.ret[2]), hd)))

stream_reverse_cont(m, a) ==
  LET i == a[2][2]
      hd == siarray_get(m, a[1], i - 1)
  IN IF i = 0 THEN Return(m, Null)
     ELSE LazyPair(Ref(Ref(m, hd), a[1]), hd, "stream_reverse", <<a[1], OfInt(i - 1)>>)

stream_reverse(m, a) ==
  IF a[1] = Null THEN Return(m, Null)
  ELSE Then(siarray_new(m, FirstSize), LAMBDA s :
       Then(Traverse(Ref(IntRef(s, s.ret), a[1]), "stream_reverse", s.ret, a[1], 0), LAMBDA r :
         LET n == r.ret[3]
             hd == siarray_get(r, s.ret, n - 1)
         IN LazyPair(IntDeref(Ref(r, hd), s.ret), hd, "stream_reverse", <<s.ret, OfInt(n - 1)>>)))

\* Every tail is run, also to find that the stream is one.
RECURSIVE IsStream(_, _)
IsStream(m, xs) ==
  IF Stopped(m) \/ xs = Null THEN Return(m, OfBool(TRUE))
  ELSE IF ~ IsPair(m, xs) THEN Return(Deref(m, xs), OfBool(FALSE))
  ELSE LET tl == siarray_get(m, xs, 1)
       IN IF IsIfn(tl) \/ Has(m, tl, "function") \/ Has(m, tl, "intcont")
          THEN Then(Holding(m, xs, tl, <<>>), LAMBDA t : IsStream(Deref(t, xs), t.ret))
          ELSE Return(Deref(m, xs), OfBool(FALSE))
is_stream(m, a) == IsStream(Ref(m, a[1]), a[1])

-----------------------------------------------------------------------------
(***************************************************************************)
(* Functions that are run                                                  *)
(***************************************************************************)

\* The functions that give a stream from a stream, or from the rest of one.
StreamFrom(m, name, a) ==
  CASE name = "stream_map" -> stream_map(m, a)
    [] name = "stream_remove" -> stream_remove(m, a)
    [] OTHER -> OverStream(m, name, a[1], a[2])

sivmfn_primitives(m, name, a) ==
  CASE Len(a) < Argc[name] \/ (name \in {"is_pair", "is_list"} /\ Len(a) # 1) -> Fault(m)
    [] name = "pair" -> pair(m, a)
    [] name = "head" -> head(m, a)
    [] name = "tail" -> tail(m, a)
    [] name \in {"set_head", "set_tail"} -> set_element(m, a, IF name = "set_head" THEN 0 ELSE 1)
    [] name = "is_pair" -> is_pair(m, a)
    [] name = "is_list" -> is_list(m, a)
    [] name = "accumulate" -> accumulate(m, a)
    [] name \in {"list", "build_list", "enum_list"} -> NewList(m, name, a)
    [] name \in {"map", "filter", "for_each", "remove", "remove_all"} ->
         OverList(m, name, a[1], a[2])
    [] name = "append" -> OverList(m, name, a[2], a[1])
    [] name = "length" -> length(m, a)
    [] name = "list_ref" -> list_ref(m, a)
    [] name = "member" -> member(m, a)
    [] name = "reverse" -> reverse(m, a)
    [] name = "array_length" -> array_length(m, a)
    [] name = "gen_list" -> gen_list(m, a)
    [] name = "equal" -> equal(m, a)
    [] name = "list_to_stream" -> list_to_stream(m, a)
    [] name = "build_stream" -> build_stream(m, a)
    [] name = "enum_stream" -> enum_stream(m, a)
    [] name = "eval_stream" -> eval_stream(m, a)
    [] name = "integers_from" -> integers_from(m, a)
    [] name = "stream" -> stream(m, a)
    [] name = "stream_append" -> stream_append(m, a)
    [] name \in {"stream_filter", "stream_map", "stream_member", "stream_remove",
                 "stream_remove_all", "stream_for_each"} -> StreamFrom(m, name, a)
    [] name = "stream_length" -> stream_length(m, a)
    [] name = "stream_ref" -> stream_ref(m, a)
    [] name = "stream_reverse" -> stream_reverse(m, a)
    [] name = "stream_tail" -> stream_tail(m, a)
    [] name = "stream_to_list" -> stream_to_list(m, a)
    [] name = "is_stream" -> is_stream(m, a)

\* Mutant of Resume: the stream that the tail returned is not counted for
\* debug_memorycheck.
Resume_Unseen(m, name, a) ==
  Then(siexec_nanbox(m, a[2], <<>>), LAMBDA xs :
  Then(StreamFrom(xs, name, <<a[1], xs.ret>>), LAMBDA r : Return(Deref(r, xs.ret), r.ret)))

\* prim_stream_map_cont and those of filter, remove and remove_all: the tail is
\* run, and the function goes on with what it returns.
Resume(m, name, a) ==
  Then(siexec_nanbox(m, a[2], <<>>), LAMBDA xs :
  Then(StreamFrom(IntRef(xs, xs.ret), name, <<a[1], xs.ret>>), LAMBDA r :
    Return(Deref(IntDeref(r, xs.ret), xs.ret), r.ret)))

\* A continuation is run with its own argument vector.
Continue(m, self, name, a) ==
  CASE name = "build_stream" -> build_stream_cont(m, self, a)
    [] name = "stream" -> stream_cont(m, a)
    [] name = "stream_append" -> stream_append_cont(m, a)
    [] name = "stream_reverse" -> stream_reverse_cont(m, a)
    [] name = "list_to_stream" -> list_to_stream(m, a)
    [] name = "enum_stream" -> enum_stream(m, a)
    [] name = "integers_from" -> integers_from(m, a)
    [] OTHER -> Resume(m, name, a)

(***************************************************************************)
(* A function of the program: siexec, which moves the arguments to the     *)
(* function's environment.  Before it returns, debug_memorycheck looks at  *)
(* the heap.  What it returns:                                             *)
(*   same    its argument,          tag   a pair of it and None,           *)
(*   isOne   whether it is 1,       cons  a pair of its two arguments,     *)
(*   later   (no argument) the stream that it was made with.               *)
(***************************************************************************)
Closure(m, f, args) ==
  LET o == m.obj[f[2]]
      m1 == [m EXCEPT !.log = Append(@, <<o.fn, [i \in DOMAIN args |-> Content(m, args[i])]>>),
                      !.tally = @ /\ debug_memorycheck(m, args)]
  IN CASE o.fn = "same" -> Return(m1, args[1])
       [] o.fn = "tag" -> source_pair(m1, args[1], Null)
       [] o.fn = "isOne" -> Return(Deref(m1, args[1]), OfBool(AsInt(args[1]) = OfInt(1)))
       [] o.fn = "cons" -> source_pair(m1, args[1], args[2])
       [] o.fn = "later" -> Return(Ref(m1, o.data[1]), o.data[1])

siexec_nanbox(m, f, args) ==
  CASE Stopped(m) -> m
    [] IsIfn(f) -> Then(sivmfn_primitives(m, f[1], args), LAMBDA r :
                     Return(DerefAll(r, args), r.ret))
    [] IsPtr(f) /\ ~ Live(m, f) -> Stale(m)
    [] Has(m, f, "function") -> Closure(m, f, args)
    [] Has(m, f, "intcont") -> Continue(m, f, m.obj[f[2]].fn, m.obj[f[2]].data)
    [] OTHER -> Fault(m)
=============================================================================
