------------------------------ MODULE Printing ------------------------------
(***************************************************************************)
(* A program that makes strings and lists, compares them and prints them   *)
(* through the runner, and keeps its last results.                         *)
(***************************************************************************)
EXTENDS Display, Runner

CONSTANTS
  Size,      \* the number of results that the program keeps
  Texts,     \* the constants of the program, as sequences of code points
  Indexes,   \* subscripts that it uses
  MaxLen,    \* the code points of the sums that it makes
  MaxSteps   \* the number of steps of a run

ASSUME BoundsAssumption == Size \in Nat \ {0} /\ MaxLen \in Nat /\ MaxSteps \in Nat

VARIABLES
  obj,       \* the objects
  env,       \* the last results, in the environment of the program
  meaning,   \* what they stand for
  lists,     \* the lists that the program has made: what their elements stand for
  queue,     \* what the last step prints: pieces that have not been handed to the
             \* runner, their type, and whether the line is to be ended
  last,      \* what the last step was to do, and did
  over,      \* the run has ended
  steps
vars == <<obj, env, meaning, lists, display, line, queue, last, over, steps>>

Var == 1 .. Size
Machine == [EmptyMachine EXCEPT !.obj = obj, !.stack = env]

-----------------------------------------------------------------------------
(***************************************************************************)
(* What Python says: a text is a sequence of code points, a list has an    *)
(* identity (its place in lists), and None is None.                        *)
(***************************************************************************)
Text(t) == <<"text", t>>
IsTextVar(x) == meaning[x][1] = "text"
IsListVar(x) == meaning[x][1] = "list"
Length(x) == Len(meaning[x][2])
Items(w) == lists[w[2]]

Utf8(t) ==
  FlattenSeq([i \in DOMAIN t |->
    IF t[i] \in 128 .. 999 THEN <<192 + t[i] \div 64, 128 + (t[i] % 64)>> ELSE <<t[i]>>])

ReprOf(t) == <<Quote>> \o FlattenSeq([i \in DOMAIN t |->
               IF t[i] \in {Quote, Backslash} THEN <<Backslash, t[i]>> ELSE <<t[i]>>]) \o <<Quote>>

Joined(parts, separator) ==
  FlattenSeq([i \in DOMAIN parts |-> (IF i > 1 THEN separator ELSE <<>>) \o parts[i]])

\* print shows a list by its elements, and as circular inside itself.
RECURSIVE Printed(_, _)
Printed(w, inside) ==
  CASE w[1] = "text" -> Utf8(w[2])
    [] w = Null -> Word("None")
    [] w[1] = "list" ->
         IF w[2] \in inside THEN Word("...<circular>")
         ELSE Char.open
              \o Joined([i \in DOMAIN Items(w) |-> Printed(Items(w)[i], inside \cup {w[2]})], Char.comma)
              \o Char.close

IsPairOf(w) == w[1] = "list" /\ Len(Items(w)) = 2

\* The elements of a linked list that ends in None, or nothing.
RECURSIVE Linked(_)
Linked(w) ==
  IF w = Null THEN [proper |-> TRUE, items |-> <<>>]
  ELSE IF ~ IsPairOf(w) THEN [proper |-> FALSE, items |-> <<>>]
  ELSE LET rest == Linked(Items(w)[2])
       IN [rest EXCEPT !.items = <<Items(w)[1]>> \o @]

\* print_llist shows a linked list as llist(...), and any other pair in brackets.
RECURSIVE PrintedLlist(_)
PrintedLlist(w) ==
  IF w[1] = "text" THEN Utf8(ReprOf(w[2]))
  ELSE IF Linked(w).proper
  THEN Word("llist(") \o Joined([i \in DOMAIN Linked(w).items |-> PrintedLlist(Linked(w).items[i])], Char.comma)
       \o Char.end
  ELSE IF IsPairOf(w) THEN Char.open \o Joined([i \in 1 .. 2 |-> PrintedLlist(Items(w)[i])], Char.comma)
                           \o Char.close
  ELSE Word("<function>")

\* The lists that a value leads to.
RECURSIVE Reach(_, _)
Reach(w, seen) ==
  IF w[1] # "list" \/ w[2] \in seen THEN seen
  ELSE FoldLeft(LAMBDA s, i : Reach(i, s), seen \cup {w[2]}, Items(w))
Inside(k) == FoldLeft(LAMBDA s, i : Reach(i, s), {}, lists[k])
Circular(w) == \E k \in Reach(w, {}) : k \in Inside(k)

RECURSIVE SameAs(_, _)
SameAs(w, u) ==
  IF w[1] = "list" /\ u[1] = "list"
  THEN \/ w = u
       \/ /\ Len(Items(w)) = Len(Items(u))
          /\ \A i \in DOMAIN Items(w) : SameAs(Items(w)[i], Items(u)[i])
  ELSE w = u

Before(t, u) ==
  \E i \in DOMAIN u \cap 1 .. Len(t) + 1 :
    /\ SubSeq(t, 1, i - 1) = SubSeq(u, 1, i - 1)
    /\ i <= Len(t) => t[i] < u[i]

-----------------------------------------------------------------------------
Nothing == [fault |-> FALSE, stale |-> FALSE, want |-> FALSE, got |-> Null, answer |-> Null]
NoQueue == [pieces |-> <<>>, error |-> FALSE, flush |-> FALSE]

Init ==
  /\ RunnerInit
  /\ obj = <<>>
  /\ env = [x \in Var |-> Null]
  /\ meaning = [x \in Var |-> Null]
  /\ lists = <<>>
  /\ queue = NoQueue
  /\ last = Nothing
  /\ over = FALSE
  /\ steps = 0

\* Instructions that put the variables xs on the stack.
Loaded(xs) == FoldLeft(LAMBDA m, x : Ref(m, env[x]), Machine, xs)

\* m is the machine after a step, and want is whether it is to fault.  What the
\* last one prints has been printed.
Step(m, want, note) ==
  /\ ~ over /\ queue = NoQueue /\ steps < MaxSteps
  /\ steps' = steps + 1
  /\ obj' = m.obj
  /\ last' = [note EXCEPT !.fault = m.fault, !.stale = m.stale, !.want = want]
  /\ over' = Stopped(m)
  /\ UNCHANGED <<display, line>>

\* The newest result takes the place of the oldest.
Keep(m, want, w) ==
  LET stored == Then(m, LAMBDA r : Deref(r, env[Size]))
  IN /\ Step(stored, want, Nothing)
     /\ IF Stopped(stored) THEN UNCHANGED <<env, meaning>>
        ELSE /\ env' = <<m.ret>> \o Front(env)
             /\ meaning' = <<w>> \o Front(meaning)
     /\ UNCHANGED queue

-----------------------------------------------------------------------------
Constant(t) == Keep(op_lgc_s(Machine, Utf8(t)), FALSE, Text(t)) /\ UNCHANGED lists

Add(x, y) ==
  /\ IsTextVar(x) /\ IsTextVar(y) /\ Length(x) + Length(y) <= MaxLen
  /\ Keep(op_add_g(Loaded(<<x, y>>), env[x], env[y]), FALSE, Text(meaning[x][2] \o meaning[y][2]))
  /\ UNCHANGED lists

Subscript(x, i) ==
  LET n == Length(x)
      at == IF i < 0 THEN i + n ELSE i
  IN /\ IsTextVar(x)
     /\ Keep(op_lda_g_string(Loaded(<<x>>), env[x], OfInt(i)), at \notin 0 .. n - 1,
             IF at \in 0 .. n - 1 THEN Text(<<meaning[x][2][at + 1]>>) ELSE Null)
     /\ UNCHANGED lists

\* str and repr; a list is a fault.
Convert(x, is_repr) ==
  /\ Keep(Then(str_or_repr(Loaded(<<x>>), env[x], is_repr), LAMBDA r : Deref(r, env[x])),
          IsListVar(x),
          IF ~ IsTextVar(x) THEN Text(Word("None"))
          ELSE IF is_repr THEN Text(ReprOf(meaning[x][2])) ELSE meaning[x])
  /\ UNCHANGED lists

\* op_new_a and op_sta_g.
MakeList(xs) ==
  LET n == siarray_new(Machine, Len(xs))
      Put(m, i) == siarray_put(Ref(m, env[xs[i]]), n.ret, i - 1, env[xs[i]])
  IN /\ Keep(Return(FoldLeft(Put, n, [i \in DOMAIN xs |-> i]), n.ret), FALSE, <<"list", Len(lists) + 1>>)
     /\ lists' = Append(lists, [i \in DOMAIN xs |-> meaning[xs[i]]])

StoreItem(x, i, y) ==
  /\ IsListVar(x) /\ i + 1 \in DOMAIN Items(meaning[x])
  /\ Step(Deref(siarray_put(Loaded(<<x, y>>), env[x], i, env[y]), env[x]), FALSE, Nothing)
  /\ lists' = [lists EXCEPT ![meaning[x][2]][i + 1] = meaning[y]]
  /\ UNCHANGED <<env, meaning, queue>>

Answered(m, want) ==
  /\ Step(m, FALSE, [Nothing EXCEPT !.answer = OfBool(want), !.got = m.ret])
  /\ UNCHANGED <<env, meaning, lists, queue>>

Compare(x, y) ==
  /\ ~ Circular(meaning[x]) /\ ~ Circular(meaning[y])
  /\ Answered(op_eq_g(Loaded(<<x, y>>), env[x], env[y]), SameAs(meaning[x], meaning[y]))

Order(x, y) ==
  /\ IsTextVar(x) /\ IsTextVar(y)
  /\ Answered(COMPARISON_OP("lt", Loaded(<<x, y>>), env[x], env[y]),
              Before(meaning[x][2], meaning[y][2]))

-----------------------------------------------------------------------------
(***************************************************************************)
(* Printing: the pieces in m.log go to the runner, one by one, and then a  *)
(* flush.  The text is to be expected.                                     *)
(***************************************************************************)
Output(m, error, expected, xs) ==
  /\ Step(DerefAll([m EXCEPT !.fault = error], [i \in DOMAIN xs |-> env[xs[i]]]), error,
          [Nothing EXCEPT !.got = Text(FlattenSeq(m.log)), !.answer = Text(expected)])
  /\ queue' = [pieces |-> m.log, error |-> error, flush |-> TRUE]
  /\ UNCHANGED <<env, meaning, lists>>

HandPiece ==
  /\ queue.pieces # <<>>
  /\ PrintPiece(Head(queue.pieces), queue.error)
  /\ queue' = IF ~ queue.flush /\ Len(queue.pieces) = 1 THEN NoQueue
              ELSE [queue EXCEPT !.pieces = Tail(@)]
  /\ UNCHANGED <<obj, env, meaning, lists, last, over, steps>>

HandFlush ==
  /\ queue.pieces = <<>> /\ queue.flush
  /\ EndLine(queue.error)
  /\ queue' = NoQueue
  /\ UNCHANGED <<obj, env, meaning, lists, last, over, steps>>

LineOf(xs) == Joined([i \in DOMAIN xs |-> Printed(meaning[xs[i]], {})], Char.space)

\* print, which returns its first operand, and error, which faults.
PrintLine(error, xs) ==
  Output(handle_display(Loaded(xs), [i \in DOMAIN xs |-> env[xs[i]]]), error, LineOf(xs), xs)
Blank == Output(Machine, FALSE, <<>>, <<>>)

\* A linked list that ends in itself is walked forever.
PrintLlist(x) ==
  /\ ~ Circular(meaning[x])
  /\ Output(print_llist(Loaded(<<x>>), env[x]), FALSE, PrintedLlist(meaning[x]), <<x>>)

\* The program returns x.  The runner prints None, and lists, without a flush.
End(x) ==
  LET m == set_result(Machine, env[x])
      text == IF IsTextVar(x) THEN Chars(m, env[x]) ELSE <<>>
  IN /\ ~ over /\ queue = NoQueue /\ steps < MaxSteps
     /\ steps' = steps + 1
     /\ obj' = m.obj
     /\ over' = TRUE
     /\ last' = [Nothing EXCEPT !.stale = m.stale, !.got = Text(text),
                   !.answer = Text(IF IsTextVar(x) THEN Utf8(meaning[x][2]) ELSE <<>>)]
     /\ queue' = IF IsTextVar(x) THEN NoQueue
                 ELSE [NoQueue EXCEPT !.pieces = sidisplay_nanbox(m, env[x]).log]
     /\ UNCHANGED <<env, meaning, lists, display, line>>

NewRun ==
  /\ steps > 0 /\ queue = NoQueue
  /\ Restart
  /\ obj' = <<>>
  /\ env' = [x \in Var |-> Null]
  /\ meaning' = [x \in Var |-> Null]
  /\ lists' = <<>>
  /\ UNCHANGED queue
  /\ last' = Nothing
  /\ over' = FALSE
  /\ steps' = 0

Vars == {<<x>> : x \in Var} \cup {<<x, y>> : x, y \in Var}

Next ==
  \/ \E t \in Texts : Constant(t)
  \/ \E x, y \in Var : Add(x, y) \/ Compare(x, y) \/ Order(x, y)
  \/ \E x \in Var, i \in Indexes : Subscript(x, i)
  \/ \E x \in Var, is_repr \in BOOLEAN : Convert(x, is_repr)
  \/ \E xs \in Vars : MakeList(xs) \/ PrintLine(FALSE, xs)
  \/ \E x, y \in Var, i \in 0 .. 1 : StoreItem(x, i, y)
  \/ \E x \in Var : PrintLine(TRUE, <<x>>) \/ PrintLlist(x) \/ End(x)
  \/ Blank \/ HandPiece \/ HandFlush
  \/ NewRun

Spec == Init /\ [][Next]_vars

-----------------------------------------------------------------------------
RECURSIVE StandsFor(_, _, _)
StandsFor(v, w, seen) ==
  CASE w[1] = "text" -> IsPtr(v) /\ siheap_is_string(Machine, v) /\ write_strobj(Machine, v) = Utf8(w[2])
    [] w[1] = "list" ->
         \/ w[2] \in seen
         \/ /\ Has(Machine, v, "array") /\ obj[v[2]].count = Len(Items(w))
            /\ \A i \in DOMAIN Items(w) : StandsFor(obj[v[2]].data[i], Items(w)[i], seen \cup {w[2]})
    [] OTHER -> v = w

\* Every variable has the text, or the elements, that it should have, whatever
\* shares its parts and in whichever order the texts were put together
\* (memory.c:196-293).
TextsExact == ~ over => \A x \in Var : StandsFor(env[x], meaning[x], {})

\* What debug_memorycheck checks holds after every step, also of the shape of the
\* string objects (debug_memorycheck.c:210-231), and no array is left marked as
\* being displayed.
HeapChecks ==
  /\ ~ last.stale
  /\ ~ over => debug_memorycheck(Machine, <<>>) /\ StringsOK(Machine)
  /\ \A a \in DOMAIN obj : ~ obj[a].displayed

\* Comparisons order texts by their code points, str, repr and subscripts fault
\* where they should, what is handed to the runner is the text of what is printed,
\* and the result of a run has the text of the value.  (A list is printed as
\* display.h:97-196 says, with strings as they are: not as CPython does.)
AnswersExact == last.fault = last.want /\ last.got = last.answer
=============================================================================
