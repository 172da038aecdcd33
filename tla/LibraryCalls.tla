---------------------------- MODULE LibraryCalls ----------------------------
(***************************************************************************)
(* A program that calls the functions of Library, one after the other, on  *)
(* the values of its variables, and keeps what they return.                *)
(***************************************************************************)
EXTENDS Library, LibraryMeaning

CONSTANTS
  Size,      \* the number of results that the program keeps
  Data,      \* immediate values that the program uses
  Lists,     \* the elements of lists and streams that it makes
  Indexes,   \* and indexes
  MaxCalls,  \* the number of calls of a run
  MaxLen     \* the length of what append makes

ASSUME BoundsAssumption == Size \in Nat \ {0} /\ MaxCalls \in Nat /\ MaxLen \in Nat

VARIABLES
  obj,       \* the objects
  env,       \* the results of the last calls, in the environment of the program
  meaning,   \* what they stand for
  expected,  \* of the last call: whether it faults, and what it runs
  done,      \* what it has done: also, whether it used a freed object, or
             \* debug_memorycheck found something
  calls      \* the number of calls of this run
vars == <<obj, env, meaning, expected, done, calls>>

Var == 1 .. Size
String == <<97>>

Init ==
  /\ obj = <<>>
  /\ env = [x \in Var |-> Null]
  /\ meaning = [x \in Var |-> List(<<>>)]
  /\ expected = [fault |-> FALSE, log |-> <<>>]
  /\ done = [fault |-> FALSE, stale |-> FALSE, tally |-> TRUE, log |-> <<>>]
  /\ calls = 0

-----------------------------------------------------------------------------
(***************************************************************************)
(* Operands: variables, immediate values, the string, internal functions,  *)
(* and functions of the program, of which later has its variable with it.  *)
(***************************************************************************)
VarArg(x) == <<"var", x>>
StringArg == <<"string", 0>>
ClosureArg(f) == <<"closure", f>>
IfnArg(f) == <<f, 0>>
LaterArg(x) == <<"later", x>>

Arg(v) ==
  CASE v[1] = "var" -> meaning[v[2]]
    [] v[1] = "string" -> Item(<<"string", String>>)
    [] v[1] = "closure" -> Function(v[2])
    [] v[1] = "later" -> [kind |-> "function", fn |-> "later", rest |-> meaning[v[2]]]
    [] IsIfn(v) -> Function(v[1])
    [] OTHER -> Item(v)

\* The instructions that put an operand on the stack.
Load(m, v) ==
  LET r == CASE v[1] = "var" -> Return(Ref(m, env[v[2]]), env[v[2]])
             [] v[1] = "string" -> New(m, "strconst", String, <<>>)
             [] v[1] = "closure" -> New(m, "function", v[2], <<>>)
             [] v[1] = "later" -> New(Ref(m, env[v[2]]), "function", "later", <<env[v[2]]>>)
             [] OTHER -> Return(m, v)
  IN [r EXCEPT !.stack = Append(@, r.ret)]

\* op_call of an internal function, which gives up the operands, as siexec_nanbox
\* does.
Executed(name, args) ==
  Then(FoldLeft(Load, [EmptyMachine EXCEPT !.obj = obj, !.stack = env], args), LAMBDA m :
    [siexec_nanbox(m, IfnArg(name), SubSeq(m.stack, Size + 1, Size + Len(args)))
       EXCEPT !.stack = env])

\* The result is the newest of those that the program keeps, and the oldest is
\* given up.
Stored(r) ==
  Then(r, LAMBDA m : [Deref(m, Last(env)) EXCEPT !.stack = <<m.ret>> \o Front(env)])

Ready == calls < MaxCalls /\ ~ done.fault /\ ~ done.stale

\* m is the machine after the call, and new what the results are to stand for.
Done(m, promise, new) ==
  /\ obj' = m.obj
  /\ env' = m.stack
  /\ meaning' = IF Stopped(m) THEN meaning ELSE new
  /\ expected' = [fault |-> promise.fault, log |-> promise.log]
  /\ done' = [fault |-> m.fault, stale |-> m.stale, log |-> m.log,
              tally |-> m.tally /\ (Stopped(m) \/ debug_memorycheck(m, <<>>))]
  /\ calls' = calls + 1

Called(name, args) ==
  LET promise == Promise(name, [i \in DOMAIN args |-> Arg(args[i])])
  IN /\ Ready
     /\ promise.known
     /\ Done(Stored(Executed(name, args)), promise, <<promise.value>> \o Front(meaning))

IsListVar(x) == meaning[x].kind = "list"
IsStreamVar(x) == meaning[x].kind = "stream" \/ meaning[x] = List(<<>>)
Length(x) == Len(meaning[x].items)

Elements == Data \cup {StringArg}
Functions == {ClosureArg("tag"), ClosureArg("same"), IfnArg("is_pair")}
Predicates == {ClosureArg("isOne"), ClosureArg("same"), IfnArg("is_pair")}

-----------------------------------------------------------------------------
(***************************************************************************)
(* The calls that the program can make, as sets of names with operands.    *)
(***************************************************************************)
Makings ==
  {"list", "stream"} \X Lists
  \cup {"build_list", "build_stream"} \X {<<OfInt(2), f>> : f \in Functions}
  \cup {"enum_list", "enum_stream"} \X {<<OfInt(0), OfInt(i)>> : i \in Indexes}
  \cup {"integers_from", "gen_list"} \X {<<OfInt(i)>> : i \in Indexes}

\* A pair of a value and a list, or a function that returns a stream.
Pairs(x) ==
  {<<"pair", <<c, v>>>> : c \in Elements,
     v \in {VarArg(y) : y \in {x} \cap {y \in Var : IsListVar(y)}}
           \cup {LaterArg(y) : y \in {x} \cap {y \in Var : IsStreamVar(y)}}}

Couples(Is(_), x) == {y \in Var : Is(y) /\ Length(x) + Length(y) <= MaxLen}

OnList(x) ==
  {"head", "tail", "is_pair", "is_list", "length", "reverse", "array_length", "list_to_stream"}
     \X {<<VarArg(x)>>}
  \cup {"map", "for_each"} \X {<<f, VarArg(x)>> : f \in Functions}
  \cup {"filter"} \X {<<f, VarArg(x)>> : f \in Predicates}
  \cup {"member", "remove", "remove_all"} \X {<<c, VarArg(x)>> : c \in Elements}
  \cup {"append", "equal"} \X {<<VarArg(y), VarArg(x)>> : y \in Couples(IsListVar, x)}
  \cup {"accumulate"} \X {<<f, VarArg(y), VarArg(x)>> :
                            f \in {ClosureArg("cons"), IfnArg("pair")}, y \in Couples(IsListVar, x)}
  \cup {"list_ref"} \X {<<VarArg(x), OfInt(i)>> : i \in Indexes}

OnStream(x) ==
  {"head", "stream_tail", "stream_length", "stream_reverse", "stream_to_list", "is_stream"}
     \X {<<VarArg(x)>>}
  \cup {"stream_map", "stream_for_each"} \X {<<f, VarArg(x)>> : f \in Functions}
  \cup {"stream_filter"} \X {<<f, VarArg(x)>> : f \in Predicates}
  \cup {"stream_member", "stream_remove", "stream_remove_all"}
        \X {<<c, VarArg(x)>> : c \in Elements}
  \cup {"stream_append"} \X {<<VarArg(y), VarArg(x)>> : y \in Couples(IsStreamVar, x)}
  \cup {"stream_ref", "eval_stream"} \X {<<VarArg(x), OfInt(i)>> : i \in Indexes}

Calls ==
  Makings \cup UNION {Pairs(x) : x \in Var}
  \cup UNION {OnList(x) : x \in {y \in Var : IsListVar(y)}}
  \cup UNION {OnStream(x) : x \in {y \in Var : IsStreamVar(y)}}
Call == \E c \in Calls : Called(c[1], c[2])

(***************************************************************************)
(* set_head and set_tail on the first pair of a variable's list.  The pair *)
(* may be shared: every list that runs through it changes.  (Excluded are  *)
(* pairs that streams, functions or elements refer to, and rings.)         *)
(***************************************************************************)
RECURSIVE Spine(_)
Spine(v) == IF v = Null THEN <<>> ELSE <<v>> \o Spine(obj[v[2]].data[2])

SharedByLists(p) ==
  LET lists == {z \in Var : IsListVar(z)}
      before == {q \in UNION {ToSet(Spine(env[z])) : z \in lists} : obj[q[2]].data[2] = p}
  IN obj[p[2]].rc = Cardinality({z \in lists : env[z] = p}) + Cardinality(before)

\* What the list of z is when the head or tail of the pair p has become new.
Changed(name, z, p, new) ==
  LET i == IF IsListVar(z) THEN SelectInSeq(Spine(env[z]), LAMBDA q : q = p) ELSE 0
      xs == meaning[z].items
  IN CASE i = 0 -> meaning[z]
       [] name = "set_head" -> List([xs EXCEPT ![i] = ContentOf(new)])
       [] name = "set_tail" -> List(SubSeq(xs, 1, i) \o new.items)

Mutate(name, x, v) ==
  LET p == env[x]
      new == IF v = Null THEN List(<<>>) ELSE Arg(v)
      changed == [z \in Var |-> Changed(name, z, p, new)]
  IN /\ Ready
     /\ IsListVar(x) /\ p # Null /\ SharedByLists(p)
     /\ \A y \in Var : v = VarArg(y) => IsListVar(y) /\ p \notin ToSet(Spine(env[y]))
     /\ \A z \in Var : IsListVar(z) => Len(changed[z].items) <= MaxLen
     /\ Done(Executed(name, <<VarArg(x), v>>), Of(Null), changed)
Mutations ==
  \E x, y \in Var :
    \/ \E v \in Elements \cup {VarArg(y)} : Mutate("set_head", x, v)
    \/ \E v \in {Null, VarArg(y)} : Mutate("set_tail", x, v)

\* pynter_run starts from nothing.
NewRun ==
  /\ calls > 0
  /\ obj' = <<>>
  /\ env' = [x \in Var |-> Null]
  /\ meaning' = [x \in Var |-> List(<<>>)]
  /\ expected' = [fault |-> FALSE, log |-> <<>>]
  /\ done' = [fault |-> FALSE, stale |-> FALSE, tally |-> TRUE, log |-> <<>>]
  /\ calls' = 0

Next ==
  \/ Call
  \/ Mutations
  \/ NewRun

Spec == Init /\ [][Next]_vars

-----------------------------------------------------------------------------
(***************************************************************************)
(* What can be seen of a value: its contents, and for a stream its         *)
(* elements when its tails are run, up to n of them, and what runs.        *)
(***************************************************************************)
RECURSIVE Watch(_, _, _, _)
Resumed(t, v, n, seen) ==
  LET there == [seen EXCEPT !.ev = Append(@, t.log)]
  IN IF Stopped(t) THEN <<t, [there EXCEPT !.end = "fault"]>>
     ELSE Watch(Deref(t, v), t.ret, n - 1, there)
Watch(m, v, n, seen) ==
  IF v = Null THEN <<m, seen>>
  ELSE IF ~ Has(m, v, "array") THEN <<m, [seen EXCEPT !.end = "none"]>>
  ELSE LET more == [seen EXCEPT !.items = Append(@, Content(m, siarray_get(m, v, 0)))]
       IN IF n = 1 THEN <<Deref(m, v), [more EXCEPT !.end = "open", !.ev = Append(@, <<>>)]>>
          ELSE Resumed(Holding([m EXCEPT !.log = <<>>], v, siarray_get(m, v, 1), <<>>), v, n, more)

Watched(x) ==
  LET m == Ref([EmptyMachine EXCEPT !.obj = obj, !.stack = env], env[x])
  IN Watch(m, env[x], IF meaning[x].end = "open" THEN Len(meaning[x].items) ELSE -1,
           Script(<<>>, <<<<>>>>, "end"))

Quiet(script) == IF script.end = "open" THEN [script EXCEPT !.ev[Len(script.ev)] = <<>>] ELSE script

\* Every variable has the contents that it should have, whatever was shared,
\* forced, changed or given up before: a list has its elements; a stream gives
\* its elements, and runs what is to run before each, no matter how often others
\* have run it.  (A function without a result should return None; what it returns
\* may be undefined instead, see NothingIsNone.)
ContentsExact ==
  ~ done.fault =>
    \A x \in Var :
      CASE meaning[x].kind = "stream" -> Watched(x)[2] = Quiet(meaning[x])
        [] meaning[x].kind = "nothing" -> env[x] \in {Null, Undef}
        [] OTHER -> Content([EmptyMachine EXCEPT !.obj = obj], env[x]) = ContentOf(meaning[x])

\* A function without a result returns None, and undefined is "never a value a
\* Python program should actually observe" (primitives.c:1290-1293).
NothingIsNone == \A x \in Var : ~ done.fault /\ meaning[x] = Nothing => env[x] = Null

\* The library faults where it should, and runs the functions of the program that
\* it should, with the arguments and in the order that it should: those of a
\* stream only when its element is asked for.
AsDefined == done.fault = expected.fault /\ done.log = expected.log

\* No function uses an object that has been freed.
NoStale == ~ done.stale

\* References are given back exactly once: what debug_memorycheck checks holds
\* whenever a function of the program runs and after every call, and to run a
\* stream leaves no trace.
Tallies ==
  /\ done.tally
  /\ ~ done.fault =>
       \A x \in Var :
         meaning[x].kind = "stream" =>
           LET m == Watched(x)[1] IN m.tally /\ (~ m.fault => m.obj = obj)
=============================================================================
