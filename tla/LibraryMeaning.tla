--------------------------- MODULE LibraryMeaning ---------------------------
(***************************************************************************)
(* What the functions of Library promise, without memory: lists are        *)
(* sequences, and a stream is a script that says which elements it gives   *)
(* and which functions of the program run before each of them:             *)
(*                                                                         *)
(*   items   the elements,                                                 *)
(*   ev      ev[i]: the functions run (with their arguments) to get to     *)
(*           element i from the one before, and at last to its end,        *)
(*   end     "end"; "fault", if its last tail faults; or "open", if it     *)
(*           goes on with elements that are not known here.                *)
(*                                                                         *)
(* Each function maps scripts to scripts.  A list is a script that has run *)
(* to its end: a function on lists does what the one on streams would do   *)
(* if the whole result were asked for at once.                             *)
(***************************************************************************)
EXTENDS Cells

CONSTANT Horizon  \* the number of elements that are known of an endless stream
ASSUME HorizonAssumption == Horizon \in Nat \ {0}

List(s) == [kind |-> "list", items |-> s]
Nothing == [kind |-> "nothing", items |-> <<>>]  \* the None of a function without a result
Item(c) == [kind |-> "item", content |-> c]
Function(f) == [kind |-> "function", fn |-> f]
Script(items, ev, end) == [kind |-> "stream", items |-> items, ev |-> ev, end |-> end]

Plain(items, end) == Script(items, [i \in 1 .. Len(items) + 1 |-> <<>>], end)
AsScript(x) == IF x.kind = "list" THEN Plain(x.items, "end") ELSE x

\* The contents that stand for lists, and back.
PairOf(x, y) == <<"array", <<x, y>>>>
ListContent(s) == FoldRight(PairOf, s, Null)
ContentOf(x) ==
  CASE x.kind = "list" -> ListContent(x.items)
    [] x.kind = "item" -> x.content
    [] x.kind = "nothing" -> Null
    [] OTHER -> PairOf(x.items[1], <<"function", "">>)
RECURSIVE OfContent(_)
OfContent(c) ==
  IF c = Null THEN List(<<>>)
  ELSE IF c[1] # "array" \/ Len(c[2]) # 2 THEN Item(c)
  ELSE LET rest == OfContent(c[2][2])
       IN IF rest.kind = "list" THEN List(<<c[2][1]>> \o rest.items) ELSE Item(c)

\* Equality to the program: True and False are the numbers 1 and 0.
RECURSIVE Normal(_)
Normal(c) ==
  IF c[1] = "array" THEN <<"array", [i \in DOMAIN c[2] |-> Normal(c[2][i])]>> ELSE AsInt(c)
Same(c, d) == Normal(c) = Normal(d)

\* What the program's functions return, and the trace that they leave.
IsPairContent(c) == c[1] = "array" /\ Len(c[2]) = 2
Apply(f, c) ==
  CASE f = "same" -> c
    [] f = "tag" -> PairOf(c, Null)
    [] f = "isOne" -> OfBool(Same(c, OfInt(1)))
    [] f = "is_pair" -> OfBool(IsPairContent(c))
Trace(f, args) == IF f \in {"is_pair", "pair"} THEN <<>> ELSE <<<<f, args>>>>

-----------------------------------------------------------------------------
(***************************************************************************)
(* Scripts from scripts                                                    *)
(***************************************************************************)
MapScript(f, s) ==
  Script([i \in DOMAIN s.items |-> Apply(f, s.items[i])],
         [i \in DOMAIN s.ev |->
            s.ev[i] \o IF i \in DOMAIN s.items THEN Trace(f, <<s.items[i]>>) ELSE <<>>],
         s.end)

\* Of the elements for which Test is True the rest is dropped; what runs to get
\* past them runs before the next element.
KeepScript(Test(_), Traced(_), s) ==
  LET Step(acc, i) ==
        LET run == acc.run \o s.ev[i] \o Traced(s.items[i])
        IN CASE acc.bad -> acc
             [] Test(s.items[i]) = OfBool(TRUE) ->
                  [acc EXCEPT !.items = Append(@, s.items[i]), !.ev = Append(@, run), !.run = <<>>]
             [] Test(s.items[i]) = OfBool(FALSE) -> [acc EXCEPT !.run = run]
             [] OTHER -> [acc EXCEPT !.run = run, !.bad = TRUE]
      all == FoldLeftDomain(Step, [items |-> <<>>, ev |-> <<>>, run |-> <<>>, bad |-> FALSE],
                            s.items)
      last == all.run \o IF all.bad THEN <<>> ELSE s.ev[Len(s.ev)]
  IN Script(all.items, Append(all.ev, last), IF all.bad THEN "fault" ELSE s.end)

FilterScript(f, s) == KeepScript(LAMBDA c : Apply(f, c), LAMBDA c : Trace(f, <<c>>), s)
RemoveAllScript(x, s) == KeepScript(LAMBDA c : OfBool(~ Same(c, x)), LAMBDA c : <<>>, s)

\* The first occurrence only.
RemoveScript(x, s) ==
  IF \A c \in ToSet(s.items) : ~ Same(c, x) THEN s
  ELSE LET i == SelectInSeq(s.items, LAMBDA c : Same(c, x))
       IN Script(RemoveAt(s.items, i),
                 [RemoveAt(s.ev, i + 1) EXCEPT ![i] = s.ev[i] \o s.ev[i + 1]], s.end)

AppendScript(s, t) ==
  IF s.end # "end" THEN s
  ELSE Script(s.items \o t.items,
              Front(s.ev) \o [t.ev EXCEPT ![1] = s.ev[Len(s.ev)] \o @], t.end)

BuildScript(n, f) == MapScript(f, Plain([i \in 1 .. n |-> OfInt(i - 1)], "end"))
Interval(i, j) == [k \in 1 .. j - i + 1 |-> OfInt(i + k - 1)]

\* What is left after k elements, and what runs on the way.
After(s, k) ==
  Script(SubSeq(s.items, k + 1, Len(s.items)), <<<<>>>> \o SubSeq(s.ev, k + 2, Len(s.ev)), s.end)
Run(s, k) == FlattenSeq(SubSeq(s.ev, 2, k + 1))

-----------------------------------------------------------------------------
(***************************************************************************)
(* Results: a fault or a value, and what has run.  A result is known if it *)
(* does not depend on elements that are not.                               *)
(***************************************************************************)
Result(known, fault, log, value) ==
  [known |-> known, fault |-> fault, log |-> log, value |-> value]

Value(log, x) == Result(TRUE, FALSE, log, x)
Of(c) == Value(<<>>, OfContent(c))
Faulting(log) == Result(TRUE, TRUE, log, List(<<>>))

\* A stream: only what comes before its first element has run.
Lazy(s) ==
  Result(s.items # <<>> \/ s.end # "open", s.items = <<>> /\ s.end = "fault", s.ev[1],
         IF s.items = <<>> THEN List(<<>>) ELSE [s EXCEPT !.ev[1] = <<>>])

\* The script s has run to its end, and the result is x.
Eager(s, x) == Result(s.end # "open", s.end = "fault", FlattenSeq(s.ev), x)
EagerList(s) == Eager(s, List(s.items))

\* k tails are run, and then the result is x.
Forced(s, k, x) ==
  IF k < Len(s.items) \/ (k = Len(s.items) /\ s.end = "end") THEN Value(Run(s, k), x)
  ELSE Result(s.end # "open", TRUE, FlattenSeq(s.ev), List(<<>>))

\* The part of s from the first occurrence of x.
From(s, x) ==
  LET i == SelectInSeq(s.items, LAMBDA c : Same(c, x))
  IN After(s, IF i = 0 THEN Len(s.items) ELSE i - 1)

FoldedTrace(f, xs, init) ==
  IF f = "pair" THEN <<>>
  ELSE [i \in DOMAIN xs |->
          LET k == Len(xs) + 1 - i
          IN <<f, <<xs[k], FoldRight(PairOf, SubSeq(xs, k + 1, Len(xs)), init)>>>>]

-----------------------------------------------------------------------------
(***************************************************************************)
(* What the functions promise, by their name and arguments.                *)
(***************************************************************************)
OfList(name, a, s) ==
  LET xs == s.items
  IN CASE name = "head" -> IF xs = <<>> THEN Faulting(<<>>) ELSE Of(xs[1])
       [] name = "tail" -> IF xs = <<>> THEN Faulting(<<>>) ELSE Value(<<>>, List(Tail(xs)))
       [] name = "array_length" -> IF xs = <<>> THEN Faulting(<<>>) ELSE Of(OfInt(2))
       [] name = "is_pair" -> Of(OfBool(xs # <<>>))
       [] name = "is_list" -> Of(OfBool(a[1].kind = "list"))
       [] name = "length" -> Of(OfInt(Len(xs)))
       [] name = "reverse" -> Value(<<>>, List(Reverse(xs)))
       [] name = "map" -> EagerList(MapScript(a[1].fn, s))
       [] name = "filter" -> EagerList(FilterScript(a[1].fn, s))
       [] name = "for_each" -> Eager(MapScript(a[1].fn, s), Nothing)
       [] name = "remove" -> EagerList(RemoveScript(ContentOf(a[1]), s))
       [] name = "remove_all" -> EagerList(RemoveAllScript(ContentOf(a[1]), s))
       [] name = "append" -> Value(<<>>, List(a[1].items \o xs))
       [] name = "accumulate" ->
            Value(FoldedTrace(a[1].fn, xs, ContentOf(a[2])), List(xs \o a[2].items))
       [] name = "member" -> Value(<<>>, List(From(s, ContentOf(a[1])).items))
       [] name = "equal" -> Of(OfBool(Same(ContentOf(a[1]), ContentOf(a[2]))))
       [] name = "list_to_stream" -> Lazy(s)

OfStream(name, a, s) ==
  LET n == Len(s.items)
  IN CASE name = "stream_tail" ->
            IF n = 0 THEN Faulting(<<>>) ELSE Lazy([After(s, 1) EXCEPT !.ev[1] = s.ev[2]])
       [] name = "stream_map" -> Lazy(MapScript(a[1].fn, s))
       [] name = "stream_filter" -> Lazy(FilterScript(a[1].fn, s))
       [] name = "stream_remove" -> Lazy(RemoveScript(ContentOf(a[1]), s))
       [] name = "stream_remove_all" -> Lazy(RemoveAllScript(ContentOf(a[1]), s))
       [] name = "stream_append" -> Lazy(AppendScript(AsScript(a[1]), s))
       [] name = "stream_for_each" -> Eager(MapScript(a[1].fn, s), Nothing)
       [] name = "stream_length" -> Eager(s, Item(OfInt(n)))
       [] name = "stream_to_list" -> EagerList(s)
       [] name = "stream_reverse" -> Eager(s, Lazy(Plain(Reverse(s.items), "end")).value)
       [] name = "is_stream" -> Eager(s, Item(OfBool(TRUE)))
       [] name = "stream_member" ->
            LET t == From(s, ContentOf(a[1]))
            IN IF t.items = <<>> THEN Eager(s, List(<<>>)) ELSE Forced(s, n - Len(t.items), t)

\* Those that take an index k.
OfIndex(name, s, k) ==
  CASE name = "list_ref" -> IF k < Len(s.items) THEN Of(s.items[k + 1]) ELSE Faulting(<<>>)
    [] name = "stream_ref" ->
         IF k < Len(s.items) THEN Forced(s, k, OfContent(s.items[k + 1]))
         ELSE [Forced(s, Len(s.items), List(<<>>)) EXCEPT !.fault = TRUE]
    [] name = "eval_stream" -> Forced(s, k, List(SubSeq(s.items, 1, k)))

\* Those that make a list or a stream; i and j are numbers.
OfElements(name, cs) ==
  IF name = "list" THEN Value(<<>>, List(cs)) ELSE Lazy(Plain(cs, "end"))
OfNumbers(name, i, j) ==
  CASE name = "enum_list" -> Value(<<>>, List(Interval(i, j)))
    [] name = "enum_stream" -> Lazy(Plain(Interval(i, j), "end"))
    [] name = "integers_from" -> Lazy(Plain(Interval(i, i + Horizon - 1), "open"))
    [] name = "gen_list" -> Of(<<"array", [k \in 1 .. i |-> Null]>>)

\* A pair with a list, or with a function (later) that returns a stream.
OfPair(c, x) ==
  IF x.kind = "list" THEN Value(<<>>, List(<<c>> \o x.items))
  ELSE LET s == AsScript(x.rest)
       IN Lazy(Script(<<c>> \o s.items, <<<<>>, Trace("later", <<>>)>> \o Tail(s.ev), s.end))

Promise(name, a) ==
  CASE name \in {"list", "stream"} -> OfElements(name, [i \in DOMAIN a |-> ContentOf(a[i])])
    [] name = "build_list" -> EagerList(BuildScript(a[1].content[2], a[2].fn))
    [] name = "build_stream" -> Lazy(BuildScript(a[1].content[2], a[2].fn))
    [] name \in {"enum_list", "enum_stream", "integers_from", "gen_list"} ->
         OfNumbers(name, a[1].content[2], a[Len(a)].content[2])
    [] name = "pair" -> OfPair(ContentOf(a[1]), a[2])
    [] name \in {"list_ref", "stream_ref", "eval_stream"} ->
         OfIndex(name, AsScript(a[1]), a[2].content[2])
    [] name \in {"stream_tail", "stream_map", "stream_filter", "stream_remove",
                 "stream_remove_all", "stream_append", "stream_for_each", "stream_length",
                 "stream_to_list", "stream_reverse", "is_stream", "stream_member"} ->
         OfStream(name, a, AsScript(a[Len(a)]))
    [] OTHER -> OfList(name, a, AsScript(a[Len(a)]))
=============================================================================
