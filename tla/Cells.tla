------------------------------- MODULE Cells -------------------------------
(***************************************************************************)
(* Heap objects as the library functions of primitives.c see them: arrays  *)
(* (a pair is an array of two), strings, functions and continuations, with *)
(* their reference counts.  A library function is one C function that runs *)
(* from its call to its return, so it is an operator on a machine m:       *)
(*                                                                         *)
(*   m.obj    the objects in use, by address                               *)
(*   m.stack  the references that the operand stack and the environments   *)
(*            hold                                                         *)
(*   m.ret    the value that the last function called has returned         *)
(*   m.fault  sifault was called                                           *)
(*   m.stale  an object was used that had been freed                       *)
(*   m.log    what the functions of the program have seen that were run    *)
(*   m.tally  debug_memorycheck has found nothing so far                   *)
(*                                                                         *)
(* After a fault, or the use of a freed object, nothing more happens.      *)
(* Which block an object gets, and the collector, are left to Allocator,   *)
(* RefHeap and CallRooting.                                                *)
(***************************************************************************)
EXTENDS CStrings, FiniteSets

\* Values (NaN-boxes) have a tag and a number.  An internal function has its
\* name as the tag.
Null == <<"null", 0>>
Undef == <<"undef", 0>>
OfInt(n) == <<"int", n>>
OfBool(b) == <<"bool", IF b THEN 1 ELSE 0>>
OfPtr(a) == <<"ptr", a>>
IsPtr(v) == v[1] = "ptr"
AsInt(v) == IF v[1] = "bool" THEN OfInt(v[2]) ELSE v

EmptyMachine ==
  [obj |-> <<>>, stack |-> <<>>, ret |-> Null, fault |-> FALSE, stale |-> FALSE,
   log |-> <<>>, tally |-> TRUE]

Return(m, v) == [m EXCEPT !.ret = v]
Fault(m) == [m EXCEPT !.fault = TRUE]
Stale(m) == [m EXCEPT !.stale = TRUE]
Stopped(m) == m.fault \/ m.stale

\* What comes after r has been done, unless that is the end.
Then(r, Body(_)) == IF Stopped(r) THEN r ELSE Body(r)

Live(m, v) == v[2] \in DOMAIN m.obj
Has(m, v, type) == IsPtr(v) /\ Live(m, v) /\ m.obj[v[2]].type = type

-----------------------------------------------------------------------------
(***************************************************************************)
(* Reference counts                                                        *)
(***************************************************************************)

\* siheap_refbox.
Ref(m, v) ==
  IF ~ IsPtr(v) \/ Stopped(m) THEN m
  ELSE IF ~ Live(m, v) THEN Stale(m)
  ELSE [m EXCEPT !.obj[v[2]].rc = @ + 1]

\* siheap_derefbox, with siheap_mdestroy and siheap_mfree at the last reference.
RECURSIVE Deref(_, _)
Deref(m, v) ==
  IF ~ IsPtr(v) \/ Stopped(m) THEN m
  ELSE IF ~ Live(m, v) THEN Stale(m)
  ELSE LET a == v[2]
           o == m.obj[a]
       IN IF o.destroying THEN m
          ELSE IF o.rc > 1 THEN [m EXCEPT !.obj[a].rc = @ - 1]
          ELSE LET d == FoldLeft(Deref, [m EXCEPT !.obj[a].destroying = TRUE], o.data)
               IN [d EXCEPT !.obj = [b \in DOMAIN @ \ {a} |-> @[b]]]

DerefAll(m, vs) == FoldLeft(Deref, m, vs)

\* siheap_intrefbox and siheap_intderefbox: references that C variables hold,
\* for debug_memorycheck.
IntRef(m, v) ==
  IF ~ IsPtr(v) \/ Stopped(m) THEN m
  ELSE IF ~ Live(m, v) THEN Stale(m) ELSE [m EXCEPT !.obj[v[2]].internal = @ + 1]
IntDeref(m, v) ==
  IF ~ IsPtr(v) \/ Stopped(m) THEN m
  ELSE IF ~ Live(m, v) THEN Stale(m) ELSE [m EXCEPT !.obj[v[2]].internal = @ - 1]

\* A new object takes over the references in data.  fn is the function of a
\* function object, and the text of a string.
New(m, type, fn, data) ==
  IF Stopped(m) THEN m
  ELSE LET used == DOMAIN m.obj
           a == CHOOSE b \in 1 .. Cardinality(used) + 1 :
                  b \notin used /\ \A c \in 1 .. b - 1 : c \in used
           o == [type |-> type, fn |-> fn, data |-> data, count |-> Len(data),
                 rc |-> 1, internal |-> 0, destroying |-> FALSE, displayed |-> FALSE]
       IN Return([m EXCEPT !.obj = [b \in used \cup {a} |-> IF b = a THEN o ELSE @[b]]], OfPtr(a))

-----------------------------------------------------------------------------
(***************************************************************************)
(* Arrays and pairs.  data is as long as alloc_size.                       *)
(***************************************************************************)

siarray_new(m, size) ==
  LET n == New(m, "array", "", [i \in 1 .. size |-> Undef])
  IN IF Stopped(m) THEN m ELSE [n EXCEPT !.obj[n.ret[2]].count = 0]

siarray_get(m, v, i) == LET o == m.obj[v[2]] IN IF i < o.count THEN o.data[i + 1] ELSE Undef

\* The size doubles until it is above the index.
Doubled(size, i) ==
  CHOOSE s \in {size * 2 ^ k : k \in 0 .. i + 1} :
    s > i /\ \A k \in 0 .. i + 1 : size * 2 ^ k > i => s <= size * 2 ^ k

Grown(m, a, size) ==
  [m EXCEPT !.obj[a].data = [j \in 1 .. size |-> IF j <= Len(@) THEN @[j] ELSE Undef]]
siarray_put(m, v, i, w) ==
  IF Stopped(m) THEN m
  ELSE IF ~ Live(m, v) THEN Stale(m)
  ELSE Then(Return(Grown(m, v[2], Doubled(Len(m.obj[v[2]].data), i)), v), LAMBDA g :
       Then(Deref(g, g.obj[v[2]].data[i + 1]), LAMBDA d :
         IF ~ Live(d, v) THEN Stale(d)
         ELSE [d EXCEPT !.obj[v[2]].data[i + 1] = w,
                        !.obj[v[2]].count = IF @ <= i THEN i + 1 ELSE @]))

source_pair(m, l, r) == New(m, "array", "", <<l, r>>)

\* nanbox_toarray, and the two elements that are read from a pair.
OnPair(m, v, Body(_, _)) ==
  IF Stopped(m) THEN m
  ELSE IF Has(m, v, "array") THEN Body(siarray_get(m, v, 0), siarray_get(m, v, 1))
  ELSE IF IsPtr(v) /\ ~ Live(m, v) THEN Stale(m)
  ELSE Fault(m)

-----------------------------------------------------------------------------
(***************************************************************************)
(* Strings: a strconst and a string have a text, which is a sequence of    *)
(* bytes; a strpair stands for the text of its left and then of its right, *)
(* if it has one.                                                          *)
(***************************************************************************)
StringTypes == {"strconst", "strpair", "string"}
IsText(m, v) == IsPtr(v) /\ Live(m, v) /\ m.obj[v[2]].type \in StringTypes

\* write_strobj: the text that is put together.
RECURSIVE write_strobj(_, _)
write_strobj(m, v) ==
  IF v = Null THEN <<>>
  ELSE IF ~ Has(m, v, "strpair") THEN m.obj[v[2]].fn
  ELSE write_strobj(m, m.obj[v[2]].data[1]) \o write_strobj(m, m.obj[v[2]].data[2])

-----------------------------------------------------------------------------
\* sivm_equal: numbers by value, strings and arrays by content, all else by
\* identity.
RECURSIVE sivm_equal(_, _, _)
sivm_equal(m, l, r) ==
  \/ AsInt(l) = AsInt(r)
  \/ /\ IsText(m, l) /\ IsText(m, r)
     /\ CString(write_strobj(m, l)) = CString(write_strobj(m, r))
  \/ /\ Has(m, l, "array") /\ Has(m, r, "array")
     /\ m.obj[l[2]].count = m.obj[r[2]].count
     /\ \A i \in 0 .. m.obj[l[2]].count - 1 :
          sivm_equal(m, siarray_get(m, l, i), siarray_get(m, r, i))

-----------------------------------------------------------------------------
\* What a value stands for, wherever it is in memory.
RECURSIVE Content(_, _)
Content(m, v) ==
  IF ~ IsPtr(v) THEN v
  ELSE IF ~ Live(m, v) THEN <<"freed", 0>>
  ELSE LET o == m.obj[v[2]]
       IN CASE o.type \in StringTypes -> <<"string", write_strobj(m, v)>>
            [] o.type = "array" -> <<"array", [i \in 1 .. o.count |-> Content(m, o.data[i])]>>
            [] OTHER -> <<"function", o.fn>>

\* debug_memorycheck: every reference leads to an object in use, no object is
\* being destroyed, and every count is that of the references from the stack,
\* from environments (held: that of the function that is being run) and from
\* other objects, and of the internal ones.
Count(s, v) == Cardinality({i \in DOMAIN s : s[i] = v})
References(m, a) == Count(m.stack, OfPtr(a)) + Cardinality(
  UNION {{b} \X {i \in DOMAIN m.obj[b].data : m.obj[b].data[i] = OfPtr(a)} : b \in DOMAIN m.obj})
debug_memorycheck(m, held) ==
  /\ \A s \in {m.stack, held} \cup {m.obj[b].data : b \in DOMAIN m.obj} :
       \A i \in DOMAIN s : IsPtr(s[i]) => Live(m, s[i])
  /\ \A a \in DOMAIN m.obj :
       /\ ~ m.obj[a].destroying
       /\ m.obj[a].rc > 0
       /\ m.obj[a].rc = References(m, a) + Count(held, OfPtr(a)) + m.obj[a].internal
=============================================================================
