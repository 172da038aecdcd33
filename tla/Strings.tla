------------------------------ MODULE Strings ------------------------------
(***************************************************************************)
(* Strings.  The sum of two strings is a strpair that refers to both; its  *)
(* text is put together, once and in place, when a C function asks for it: *)
(* the strpair then has the text in a string of its own on the left, and   *)
(* nothing on the right.  A string object is never a value of the program. *)
(*                                                                         *)
(* A byte is a number below 256.  A text that the C code spells out        *)
(* (None, <function>) is one symbol above 999.                             *)
(***************************************************************************)
EXTENDS Cells

CONSTANT Wide  \* the numbers of an address_t are modulo this

ASSUME WideAssumption == Wide \in Nat \ {0}

Words == <<"None", "True", "False", "undefined", "<function>", "<internal function>",
           "<range_iterator>", "...<circular>", "llist(", "<function (internal continuation)>">>
Word(w) == <<1000 + SelectInSeq(Words, LAMBDA x : x = w)>>
Quote == 39
Backslash == 92
Char == [open |-> <<91>>, close |-> <<93>>, end |-> <<41>>, comma |-> <<44, 32>>,
         space |-> <<32>>, quote |-> <<Quote>>]

\* Integers of one digit.
Digits(v) == <<48 + v[2]>>

-----------------------------------------------------------------------------
(***************************************************************************)
(* String objects                                                          *)
(***************************************************************************)
Left(m, v) == m.obj[v[2]].data[1]
Right(m, v) == m.obj[v[2]].data[2]

sistrconst_new(m, text) == New(m, "strconst", text, <<>>)

\* count is the size that is allocated, and text what is written there.
sistring_new(m, size, text) ==
  Then(New(m, "string", text, <<>>), LAMBDA n : [n EXCEPT !.obj[n.ret[2]].count = size])

sistrpair_new(m, l, r) == New(Ref(Ref(m, l), r), "strpair", "", <<l, r>>)

RECURSIVE sizeof_strobj(_, _)
sizeof_strobj(m, v) ==
  IF v = Null THEN 0
  ELSE CASE Has(m, v, "strconst") -> Len(m.obj[v[2]].fn)
         [] Has(m, v, "string") -> m.obj[v[2]].count - 1
         [] OTHER -> (sizeof_strobj(m, Left(m, v)) + sizeof_strobj(m, Right(m, v))) % Wide

\* The right part is still there.
sistrpair_flatten_RightStays(m, v) ==
  IF Right(m, v) = Null THEN m
  ELSE Then(sistring_new(m, (sizeof_strobj(m, v) + 1) % Wide, write_strobj(m, v)), LAMBDA n :
       Then(Deref(n, Left(m, v)), LAMBDA d :
         [d EXCEPT !.obj[v[2]].data = <<n.ret, Right(m, v)>>, !.ret = m.ret]))

sistrpair_flatten(m, v) ==
  IF Right(m, v) = Null THEN m
  ELSE Then(sistring_new(m, (sizeof_strobj(m, v) + 1) % Wide, write_strobj(m, v)), LAMBDA n :
       Then(DerefAll(n, <<Left(m, v), Right(m, v)>>), LAMBDA d :
         [d EXCEPT !.obj[v[2]].data = <<n.ret, Null>>, !.ret = m.ret]))

sistrobj_tocharptr(m, v) ==
  IF Stopped(m) THEN m
  ELSE IF ~ Live(m, v) THEN Stale(m)
  ELSE IF Has(m, v, "strpair") THEN sistrpair_flatten(m, v) ELSE m

\* What is found at that pointer.
Chars(m, v) == CString(write_strobj(m, v))

\* siheap_is_string, of two operands: a string object among them is a fault.
siheap_is_string(m, v) == Has(m, v, "strconst") \/ Has(m, v, "strpair")
OnStrings(m, l, r, Body(_)) ==
  IF Stopped(m) THEN m
  ELSE IF ~ Live(m, l) \/ ~ Live(m, r) THEN Stale(m)
  ELSE IF siheap_is_string(m, l) /\ siheap_is_string(m, r) THEN Body(m) ELSE Fault(m)

\* As sistrpair_new does, although the string's only reference is handed over.
make_string_value_Shared(m, size, text) ==
  Then(sistring_new(m, size, text), LAMBDA n :
    New(Ref(n, n.ret), "strpair", "", <<n.ret, Null>>))

\* make_string_value: a value of the program with a new text.
make_string_value(m, size, text) ==
  Then(sistring_new(m, size, text), LAMBDA n : New(n, "strpair", "", <<n.ret, Null>>))

-----------------------------------------------------------------------------
(***************************************************************************)
(* Instructions.  The operands v0 and v1 have been popped.                 *)
(***************************************************************************)
Popped(m, v0, v1) == DerefAll(m, <<v0, v1>>)

op_lgc_s(m, text) == sistrconst_new(m, text)

IsEmptyConst(m, v) == Has(m, v, "strconst") /\ CString(m.obj[v[2]].fn) = <<>>
op_add_g(m, v0, v1) ==
  Then(OnStrings(m, v0, v1, LAMBDA n :
         IF IsEmptyConst(n, v0) THEN Return(Ref(n, v1), v1)
         ELSE IF IsEmptyConst(n, v1) THEN Return(Ref(n, v0), v0)
         ELSE sistrpair_new(n, v0, v1)),
       LAMBDA r : Popped(r, v0, v1))

Holds(op, n) == CASE op = "lt" -> n < 0 [] op = "gt" -> n > 0
                  [] op = "le" -> n <= 0 [] op = "ge" -> n >= 0
COMPARISON_OP(op, m, v0, v1) ==
  Then(OnStrings(m, v0, v1, LAMBDA n :
         Then(sistrobj_tocharptr(sistrobj_tocharptr(n, v0), v1), LAMBDA f :
           Return(f, OfBool(Holds(op, strcmp(Chars(f, v0), Chars(f, v1))))))),
       LAMBDA r : Popped(r, v0, v1))

\* sivm_equal puts the texts together that it compares.
RECURSIVE Compared(_, _, _)
Compared(m, l, r) ==
  IF l = r \/ ~ IsPtr(l) \/ ~ IsPtr(r) THEN m
  ELSE IF siheap_is_string(m, l) /\ siheap_is_string(m, r)
       THEN sistrobj_tocharptr(sistrobj_tocharptr(m, l), r)
  ELSE IF ~ Has(m, l, "array") \/ ~ Has(m, r, "array") THEN m
  ELSE LET n == m.obj[l[2]].count
           Item(v, i) == siarray_get(m, v, i)
           same == SelectInSeq([i \in 1 .. n |-> i - 1],
                     LAMBDA i : ~ sivm_equal(m, Item(l, i), Item(r, i)))
       IN IF n # m.obj[r[2]].count THEN m
          ELSE FoldLeft(LAMBDA k, i : Compared(k, Item(l, i), Item(r, i)), m,
                        [i \in 1 .. (IF same = 0 THEN n ELSE same) |-> i - 1])

op_eq_g(m, v1, v0) ==
  Then(Compared(m, v1, v0), LAMBDA c :
    DerefAll(Return(c, OfBool(sivm_equal(m, v1, v0))), <<v0, v1>>))

-----------------------------------------------------------------------------
(***************************************************************************)
(* Subscripts count code points, of one to four bytes.                     *)
(***************************************************************************)
utf8_char_len(lead) ==
  CASE lead \div 32 = 6 -> 2
    [] lead \div 16 = 14 -> 3
    [] lead \div 8 = 30 -> 4
    [] OTHER -> 1

\* Where the code points of a text start.
Starts(s) ==
  LET from[p \in 1 .. Len(s) + 1] ==
        IF p > Len(s) THEN <<>> ELSE <<p>> \o from[p + utf8_char_len(s[p])]
  IN from[1]

\* Bytes are counted, not code points.
string_index_Bytes(m, v, index) ==
  IF index[1] # "int" THEN Fault(m)
  ELSE Then(sistrobj_tocharptr(m, v), LAMBDA f :
         LET s == Chars(f, v)
             i == IF index[2] < 0 THEN index[2] + Len(s) ELSE index[2]
         IN IF i < 0 \/ i >= Len(s) THEN Fault(f)
            ELSE make_string_value(f, 2, <<s[i + 1]>>))

string_index(m, v, index) ==
  IF index[1] # "int" THEN Fault(m)
  ELSE Then(sistrobj_tocharptr(m, v), LAMBDA f :
         LET s == Chars(f, v)
             starts == Starts(s)
             i == IF index[2] < 0 THEN index[2] + Len(starts) ELSE index[2]
             p == starts[i + 1]
             char_len == utf8_char_len(s[p])
         IN IF i < 0 \/ i >= Len(starts) THEN Fault(f)
            ELSE make_string_value(f, char_len + 1, SubSeq(s, p, p + char_len - 1)))

op_lda_g_string(m, v, index) ==
  Then(string_index(m, v, index), LAMBDA r : Deref(r, v))

-----------------------------------------------------------------------------
(***************************************************************************)
(* str and repr                                                            *)
(***************************************************************************)
Escaped(s) ==
  FlattenSeq([i \in DOMAIN s |->
    IF s[i] \in {Quote, Backslash} THEN <<Backslash, s[i]>> ELSE <<s[i]>>])
Quoted(s) == Char.quote \o Escaped(s) \o Char.quote
EscapedSize(s) == Len(s) + 2 + Cardinality({i \in DOMAIN s : s[i] \in {Quote, Backslash}})

Truth(v) == Word(IF v[2] = 1 THEN "True" ELSE "False")

str_or_repr(m, v, is_repr) ==
  LET Made(text) == make_string_value(m, Len(text) + 1, text)
  IN CASE v \in {Null, Undef} -> Made(Word("None"))
       [] v[1] = "bool" -> Made(Truth(v))
       [] v[1] = "int" -> Made(Digits(v))
       [] Has(m, v, "function") -> Made(Word("<function>"))
       [] IsPtr(v) /\ siheap_is_string(m, v) ->
            Then(sistrobj_tocharptr(m, v), LAMBDA f :
              LET s == Chars(f, v)
              IN IF is_repr THEN make_string_value(f, EscapedSize(s) + 1, Quoted(s))
                 ELSE make_string_value(f, Len(s) + 1, s))
       [] OTHER -> Fault(m)

-----------------------------------------------------------------------------
\* What debug_memorycheck checks of the string objects, and that a string object
\* is only ever the text of a strpair.
StringsOK(m) ==
  \A a \in DOMAIN m.obj :
    LET o == m.obj[a]
        Kind(v) == m.obj[v[2]].type
    IN CASE o.type = "string" -> o.count = Len(o.fn) + 1
         [] o.type = "strpair" ->
              IF o.data[2] = Null THEN Kind(o.data[1]) = "string"
              ELSE {Kind(o.data[1]), Kind(o.data[2])} \subseteq {"strpair", "strconst"}
         [] OTHER -> TRUE
=============================================================================
