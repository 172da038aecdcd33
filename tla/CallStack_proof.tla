-------------------------- MODULE CallStack_proof ---------------------------
(***************************************************************************)
(* No activation reaches the operands or frames of another, a result       *)
(* always finds room, and main loops end with the calls they were started  *)
(* for: for any functions, stack sizes, depth of calls and code.           *)
(***************************************************************************)
EXTENDS CallStack, FiniteSetTheorems, SequenceTheorems, TLAPS

USE FnAssumption, PlainAssumption, BoundAssumption, NullAssumption

EnvRecord == [fn : Fn, scope : 0 .. MaxScope, args : Seq(Value), rest : Seq(Value) \cup {NULL}]
Exec == [by : {"siexec"}, env : Env, pc : PC]
Inner == [by : {"internal"}, pops : Nat, tail : BOOLEAN]

\* The innermost call on the C stack.
Innermost == cstack[Len(cstack)]

\* How many of the frames up to p were made by siexec.
Rank(p) == Cardinality({q \in BaseFrames : q <= p})

\* The activation below a call of siexec, e, which was made by the internal function
\* c: it is where it was, with room for one more operand, and c still finds what it
\* is going to pop.
Suspended(e, c, b, l, top) ==
  /\ e.pc \in Fn \X (0 .. Last) /\ e.env \in EnvRecord /\ e.env.fn = e.pc[1]
  /\ Room(b, l, e.pc[1], 1)
  /\ c.pops <= top - b
  /\ ~ c.tail => e.pc[2] < Last

\* A frame of siexec, the j-th, agrees with the C stack.
BaseOK(j, fr) ==
  /\ fr.env = cstack[2 * j - 1].env
  /\ j = 1 => fr.bottom = 0 /\ fr.limit = 1
  /\ j # 1 => /\ fr.bottom # 0
              /\ Suspended(cstack[2 * j - 1], cstack[2 * j - 2], fr.bottom, fr.limit, fr.top)

\* The stretch below a frame.
Stretch(p) ==
  LET fr == stack[p]
  IN  /\ fr.top = p - 1
      /\ fr.bottom \in FramePos \cup {0}
      /\ fr.bottom < p
      /\ \A q \in FramePos : q < p => q <= fr.bottom
      /\ fr.top < fr.limit

\* The activation below a frame of a call instruction.
Called(fr) ==
  /\ fr.bottom # 0
  /\ fr.ret \in Fn \X (0 .. Last) /\ fr.env \in EnvRecord /\ fr.env.fn = fr.ret[1]
  /\ Room(fr.bottom, fr.limit, fr.ret[1], 0)

FramesOK ==
  /\ \A p \in FramePos : p <= bottom /\ Stretch(p)
  /\ \A p \in FramePos \ BaseFrames : Called(stack[p])
  /\ \A p \in BaseFrames : BaseOK(Rank(p), stack[p])

\* Calls of siexec and of internal functions alternate, and there is one frame for
\* each call of siexec in progress.
LoopsOK ==
  /\ Len(cstack) # 0
  /\ \A i \in DOMAIN cstack : cstack[i].by = IF i % 2 = 1 THEN "siexec" ELSE "internal"
  /\ Cardinality(Siexecs) = Cardinality(BaseFrames) + (IF pc = NULL THEN 1 ELSE 0)
  /\ Len(cstack) = 2 * Cardinality(Siexecs) - (IF Innermost.by = "siexec" THEN 1 ELSE 0)

\* The activation that runs, or has just returned to siexec.
TopOK ==
  /\ bottom \in FramePos \cup {0}
  /\ pc # NULL =>
       /\ bottom # 0
       /\ env \in EnvRecord /\ env.fn = pc[1]
       /\ Room(bottom, limit, pc[1], 0)
       /\ Len(stack) <= limit
       /\ Innermost.by = "internal" =>
            Innermost.pops <= Operands /\ (~ Innermost.tail => pc[2] < Last)
  /\ pc = NULL =>
       /\ Innermost.by = "siexec"
       /\ Len(cstack) = 1 => limit = 1
       /\ Len(cstack) # 1 =>
            /\ bottom # 0
            /\ Suspended(Innermost, cstack[Len(cstack) - 1], bottom, limit, Len(stack) - 1)
            /\ bottom < Len(stack) /\ Len(stack) <= limit

Inv == TypeOK /\ (mode = "run" => FramesOK /\ LoopsOK /\ TopOK)

-----------------------------------------------------------------------------
(***************************************************************************)
(* Frames and values                                                       *)
(***************************************************************************)

LEMMA FrameFields ==
  /\ \A x \in FrameRecord :
       /\ IsFrame(x)
       /\ x.bottom \in Nat /\ x.limit \in Nat /\ x.top \in Nat /\ x.ret \in PC /\ x.env \in Env
  /\ \A x \in Value : ~ IsFrame(x)
<1>1. \A x \in FrameRecord :
       /\ IsFrame(x)
       /\ x.bottom \in Nat /\ x.limit \in Nat /\ x.top \in Nat /\ x.ret \in PC /\ x.env \in Env
  BY DEF FrameRecord, IsFrame
<1>2. \A x \in Value : ~ IsFrame(x)  BY DEF Value, IsFrame
<1> QED  BY <1>1, <1>2

LEMMA Dropped ==
  ASSUME NEW S, NEW s \in Seq(S), NEW n \in 0 .. Len(s)
  PROVE  /\ Drop(s, n) \in Seq(S)
         /\ Len(Drop(s, n)) = Len(s) - n
         /\ \A i \in 1 .. Len(s) - n : Drop(s, n)[i] = s[i]
<1> DEFINE m == Len(s) - n
<1>1. m \in Nat /\ \A i \in 1 .. m : s[i] \in S  OBVIOUS
<1>2. Drop(s, n) = SubSeq(s, 1, m)  BY DEF Drop
<1> HIDE DEF m
<1>3. /\ Drop(s, n) \in Seq(S)
      /\ Len(Drop(s, n)) = IF 1 <= m THEN m - 1 + 1 ELSE 0
      /\ \A i \in 1 .. m - 1 + 1 : Drop(s, n)[i] = s[1 + i - 1]
  BY <1>1, <1>2, SubSeqProperties
<1>4. Len(Drop(s, n)) = m /\ \A i \in 1 .. m : Drop(s, n)[i] = s[i]  BY <1>1, <1>3
<1> QED  BY <1>3, <1>4 DEF m

LEMMA StackFacts ==
  ASSUME TypeOK
  PROVE  /\ stack \in Seq(Value \cup FrameRecord)
         /\ Len(stack) \in Nat /\ DOMAIN stack = 1 .. Len(stack)
         /\ bottom \in Nat /\ bottom <= Len(stack) /\ limit \in Nat
         /\ FramePos \subseteq 1 .. Len(stack)
         /\ \A p \in FramePos : stack[p] \in FrameRecord
         /\ \A i \in 1 .. Len(stack) : i \notin FramePos => stack[i] \in Value
<1>1. /\ stack \in Seq(Value \cup FrameRecord)
      /\ bottom \in 0 .. Len(stack) /\ limit \in Nat
  BY DEF TypeOK
<1>2. Len(stack) \in Nat /\ DOMAIN stack = 1 .. Len(stack)  BY <1>1
<1>3. \A i \in 1 .. Len(stack) : stack[i] \in Value \cup FrameRecord  BY <1>1
<1>4. \A i \in 1 .. Len(stack) : i \in FramePos <=> IsFrame(stack[i])  BY <1>2 DEF FramePos
<1>5. FramePos \subseteq 1 .. Len(stack)  BY <1>2 DEF FramePos
<1>6. \A p \in FramePos : stack[p] \in FrameRecord  BY <1>3, <1>4, <1>5, FrameFields
<1>7. \A i \in 1 .. Len(stack) : i \notin FramePos => stack[i] \in Value
  BY <1>3, <1>4, FrameFields
<1> QED  BY <1>1, <1>2, <1>5, <1>6, <1>7

LEMMA RankFacts ==
  ASSUME TypeOK
  PROVE  /\ IsFiniteSet(BaseFrames) /\ Cardinality(BaseFrames) \in Nat
         /\ \A p \in BaseFrames : /\ Rank(p) \in Nat \ {0}
                                  /\ Rank(p) <= Cardinality(BaseFrames)
         /\ BaseFrames \subseteq FramePos
<1>1. IsFiniteSet(1 .. Len(stack))  BY StackFacts, FS_Interval
<1>2. BaseFrames \subseteq 1 .. Len(stack) /\ BaseFrames \subseteq FramePos
  BY StackFacts DEF BaseFrames
<1>3. IsFiniteSet(BaseFrames)  BY <1>1, <1>2, FS_Subset
<1>4. ASSUME NEW p \in BaseFrames
      PROVE  Rank(p) \in Nat \ {0} /\ Rank(p) <= Cardinality(BaseFrames)
  <2> DEFINE Q == {q \in BaseFrames : q <= p}
  <2>1. Q \subseteq BaseFrames /\ p \in Q  BY <1>2, StackFacts
  <2> HIDE DEF Q
  <2>2. IsFiniteSet(Q) /\ Cardinality(Q) <= Cardinality(BaseFrames)
    BY <1>3, <2>1, FS_Subset
  <2>3. Cardinality(Q) \in Nat /\ Cardinality(Q) # 0
    BY <2>1, <2>2, FS_CardinalityType, FS_EmptySet
  <2> QED  BY <2>2, <2>3 DEF Rank, Q
<1> QED  BY <1>2, <1>3, <1>4, FS_CardinalityType

LEMMA CFacts ==
  ASSUME TypeOK
  PROVE  /\ cstack \in Seq(Exec \cup Inner)
         /\ Len(cstack) \in Nat /\ DOMAIN cstack = 1 .. Len(cstack)
         /\ \A i \in 1 .. Len(cstack) :
              /\ cstack[i].by \in {"siexec", "internal"}
              /\ cstack[i].by = "siexec" => cstack[i].env \in Env /\ cstack[i].pc \in PC
              /\ cstack[i].by = "internal" => cstack[i].pops \in Nat /\ cstack[i].tail \in BOOLEAN
<1>1. cstack \in Seq(Exec \cup Inner)  BY DEF TypeOK, Exec, Inner
<1>2. Len(cstack) \in Nat /\ DOMAIN cstack = 1 .. Len(cstack)  BY <1>1
<1>3. \A i \in 1 .. Len(cstack) : cstack[i] \in Exec \cup Inner  BY <1>1
<1>4. \A x \in Exec : x.by = "siexec" /\ x.env \in Env /\ x.pc \in PC  BY DEF Exec
<1>5. \A x \in Inner : x.by = "internal" /\ x.pops \in Nat /\ x.tail \in BOOLEAN  BY DEF Inner
<1> QED  BY <1>1, <1>2, <1>3, <1>4, <1>5

\* Operands may change; the frames stay.
LEMMA OperandsChange ==
  ASSUME TypeOK, FramesOK, UNCHANGED bottom,
         stack' \in Seq(Value \cup FrameRecord),
         bottom <= Len(stack'),
         \A i \in 1 .. bottom : stack'[i] = stack[i],
         \A i \in 1 .. Len(stack') : i > bottom => stack'[i] \in Value
  PROVE  /\ FramePos' = FramePos /\ BaseFrames' = BaseFrames
         /\ \A p \in FramePos : stack'[p] = stack[p]
<1>1. Len(stack') \in Nat /\ DOMAIN stack' = 1 .. Len(stack')  OBVIOUS
<1>2. FramePos \subseteq 1 .. bottom
  BY StackFacts DEF FramesOK
<1>3. \A p \in FramePos : stack'[p] = stack[p]  BY <1>2
<1>4. \A i \in 1 .. Len(stack') : IsFrame(stack'[i]) <=> i \in FramePos
  <2> TAKE i \in 1 .. Len(stack')
  <2>1. CASE i <= bottom
    <3>1. i \in 1 .. bottom /\ i \in DOMAIN stack  BY <2>1, StackFacts
    <3> QED  BY <3>1 DEF FramePos
  <2>2. CASE i > bottom
    <3>1. ~ IsFrame(stack'[i])  BY <2>2, FrameFields
    <3>2. i \notin FramePos  BY <1>2, <2>2, StackFacts
    <3> QED  BY <3>1, <3>2
  <2> QED  BY <2>1, <2>2, StackFacts
<1>5. FramePos \subseteq 1 .. Len(stack')  BY <1>1, <1>2, StackFacts
<1>6. FramePos' = FramePos  BY <1>1, <1>4, <1>5 DEF FramePos
<1>7. BaseFrames' = BaseFrames  BY <1>3, <1>6 DEF BaseFrames
<1> QED  BY <1>3, <1>6, <1>7

LEMMA FramesKept ==
  ASSUME TypeOK, FramesOK, UNCHANGED bottom,
         FramePos' = FramePos, BaseFrames' = BaseFrames,
         \A p \in FramePos : stack'[p] = stack[p],
         \A i \in 1 .. 2 * Cardinality(BaseFrames) - 1 : cstack'[i] = cstack[i]
  PROVE  FramesOK'
<1>1. \A p \in FramePos' : p <= bottom' /\ Stretch(p)'  BY DEF FramesOK, Stretch
<1>2. \A p \in FramePos' \ BaseFrames' : Called(stack[p])'
  BY DEF FramesOK, Called, Room
<1>3. ASSUME NEW p \in BaseFrames  PROVE BaseOK(Rank(p), stack[p])'
  <2> DEFINE j == Rank(p)
  <2>1. Rank(p)' = j  BY DEF Rank
  <2>2. j \in Nat \ {0} /\ j <= Cardinality(BaseFrames) /\ Cardinality(BaseFrames) \in Nat
        /\ p \in FramePos
    BY RankFacts
  <2>3. BaseOK(j, stack[p])  BY DEF FramesOK
  <2> QED BY <2>1, <2>2, <2>3 DEF BaseOK, Suspended, Room
<1> QED  BY <1>1, <1>2, <1>3 DEF FramesOK

-----------------------------------------------------------------------------
(***************************************************************************)
(* The C stack                                                             *)
(***************************************************************************)

LEMMA SiexecsFinite ==
  ASSUME TypeOK
  PROVE  /\ IsFiniteSet(Siexecs) /\ Cardinality(Siexecs) \in Nat
         /\ Siexecs \subseteq 1 .. Len(cstack)
<1>1. IsFiniteSet(1 .. Len(cstack))  BY CFacts, FS_Interval
<1>2. Siexecs \subseteq 1 .. Len(cstack)  BY CFacts DEF Siexecs
<1> QED  BY <1>1, <1>2, FS_Subset, FS_CardinalityType

\* A call of siexec, or of an internal function, starts.
LEMMA CPush ==
  ASSUME TypeOK, NEW c \in Exec \cup Inner, cstack' = Append(cstack, c)
  PROVE  /\ cstack' \in Seq(Exec \cup Inner)
         /\ Len(cstack') = Len(cstack) + 1
         /\ \A i \in 1 .. Len(cstack) : cstack'[i] = cstack[i]
         /\ Innermost' = c
         /\ Cardinality(Siexecs') =
              Cardinality(Siexecs) + (IF c.by = "siexec" THEN 1 ELSE 0)
<1>1. /\ cstack' \in Seq(Exec \cup Inner)
      /\ Len(cstack') = Len(cstack) + 1
      /\ \A i \in 1 .. Len(cstack) : cstack'[i] = cstack[i]
      /\ cstack'[Len(cstack) + 1] = c
  BY CFacts
<1>2. Len(cstack) \in Nat /\ DOMAIN cstack = 1 .. Len(cstack)
      /\ DOMAIN cstack' = 1 .. Len(cstack) + 1
  BY <1>1, CFacts
<1>3. Innermost' = c  BY <1>1 DEF Innermost
<1>4. CASE c.by = "siexec"
  <2>1. Siexecs' = Siexecs \cup {Len(cstack) + 1}  BY <1>1, <1>2, <1>4 DEF Siexecs
  <2>2. Len(cstack) + 1 \notin Siexecs  BY <1>2, SiexecsFinite
  <2> QED  BY <1>1, <1>3, <1>4, <2>1, <2>2, SiexecsFinite, FS_AddElement
<1>5. CASE c.by # "siexec"
  <2>1. Siexecs' = Siexecs  BY <1>1, <1>2, <1>5 DEF Siexecs
  <2> QED  BY <1>1, <1>3, <1>5, <2>1, SiexecsFinite
<1> QED  BY <1>4, <1>5

\* The innermost call returns.
LEMMA CDrop ==
  ASSUME TypeOK, Len(cstack) # 0, cstack' = Drop(cstack, 1)
  PROVE  /\ cstack' \in Seq(Exec \cup Inner)
         /\ Len(cstack') = Len(cstack) - 1
         /\ \A i \in 1 .. Len(cstack) - 1 : cstack'[i] = cstack[i]
         /\ Cardinality(Siexecs') =
              Cardinality(Siexecs) - (IF Innermost.by = "siexec" THEN 1 ELSE 0)
<1>1. cstack \in Seq(Exec \cup Inner) /\ 1 \in 0 .. Len(cstack)  BY CFacts
<1>2. /\ cstack' \in Seq(Exec \cup Inner)
      /\ Len(cstack') = Len(cstack) - 1
      /\ \A i \in 1 .. Len(cstack) - 1 : cstack'[i] = cstack[i]
  BY <1>1, Dropped
<1>3. Len(cstack) \in Nat /\ DOMAIN cstack = 1 .. Len(cstack)
      /\ DOMAIN cstack' = 1 .. Len(cstack) - 1
  BY <1>2, CFacts
<1>4. CASE Innermost.by = "siexec"
  <2>1. \A n \in Nat : 1 .. n - 1 = (1 .. n) \ {n}  OBVIOUS
  <2>2. DOMAIN cstack' = DOMAIN cstack \ {Len(cstack)}  BY <1>3, <2>1
  <2>3. \A i \in DOMAIN cstack' : cstack'[i] = cstack[i]  BY <1>2, <1>3
  <2>4. Siexecs' = Siexecs \ {Len(cstack)}  BY <2>2, <2>3 DEF Siexecs
  <2>5. Len(cstack) \in Siexecs  BY <1>3, <1>4 DEF Siexecs, Innermost
  <2> QED  BY <1>2, <1>4, <2>5, <2>4, SiexecsFinite, FS_RemoveElement
<1>5. CASE Innermost.by # "siexec"
  <2>1. Siexecs' = Siexecs  BY <1>2, <1>3, <1>5 DEF Siexecs, Innermost
  <2> QED  BY <1>2, <1>5, <2>1, SiexecsFinite
<1> QED  BY <1>4, <1>5

-----------------------------------------------------------------------------
(***************************************************************************)
(* Frames come and go                                                      *)
(***************************************************************************)

\* A frame fr is pushed on what an activation leaves on the stack, st.
LEMMA FramePushed ==
  ASSUME TypeOK, FramesOK, NEW st \in Seq(Value \cup FrameRecord),
         bottom <= Len(st), Len(st) <= Len(stack),
         \A i \in 1 .. Len(st) : st[i] = stack[i],
         NEW fr \in FrameRecord, stack' = Append(st, fr)
  PROVE  /\ stack' \in Seq(Value \cup FrameRecord) /\ Len(stack') = Len(st) + 1
         /\ stack'[Len(st) + 1] = fr
         /\ FramePos' = FramePos \cup {Len(st) + 1}
         /\ BaseFrames' = IF fr.ret = NULL THEN BaseFrames \cup {Len(st) + 1} ELSE BaseFrames
         /\ \A p \in FramePos : stack'[p] = stack[p] /\ p <= bottom /\ p # Len(st) + 1
<1> DEFINE n == Len(st)
<1>1. n \in Nat /\ DOMAIN st = 1 .. n /\ bottom <= n /\ n <= Len(stack)  OBVIOUS
<1>2. /\ stack' \in Seq(Value \cup FrameRecord) /\ Len(stack') = n + 1
      /\ stack'[n + 1] = fr
      /\ \A i \in 1 .. n : stack'[i] = stack[i]
      /\ DOMAIN stack' = 1 .. n + 1
  OBVIOUS
<1> HIDE DEF n
<1>3. FramePos \subseteq 1 .. n /\ \A p \in FramePos : p <= bottom /\ p # n + 1
  BY <1>1, StackFacts DEF FramesOK
<1>4. IsFrame(fr)  BY FrameFields
<1>5. FramePos' = FramePos \cup {n + 1}
  BY <1>1, <1>2, <1>3, <1>4, StackFacts DEF FramePos
<1>6. \A p \in FramePos : stack'[p] = stack[p]  BY <1>2, <1>3
<1>7. BaseFrames' = IF fr.ret = NULL THEN BaseFrames \cup {n + 1} ELSE BaseFrames
  BY <1>2, <1>5, <1>6 DEF BaseFrames
<1> QED  BY <1>2, <1>3, <1>5, <1>6, <1>7 DEF n

\* The running activation ends: its frame goes, and v is pushed.
LEMMA FrameCut ==
  ASSUME TypeOK, FramesOK, bottom \in FramePos, NEW v \in Value,
         stack' = Append(SubSeq(stack, 1, bottom - 1), v)
  PROVE  /\ stack' \in Seq(Value \cup FrameRecord) /\ Len(stack') = bottom
         /\ FramePos' = FramePos \ {bottom}
         /\ BaseFrames' = BaseFrames \ {bottom}
         /\ \A p \in FramePos' : stack'[p] = stack[p]
<1> DEFINE st == SubSeq(stack, 1, bottom - 1)
<1>1. /\ bottom \in Nat \ {0} /\ bottom - 1 \in Nat /\ bottom <= Len(stack)
      /\ \A i \in 1 .. bottom - 1 : stack[i] \in Value \cup FrameRecord
  BY StackFacts
<1>2. /\ st \in Seq(Value \cup FrameRecord)
      /\ Len(st) = IF 1 <= bottom - 1 THEN bottom - 1 - 1 + 1 ELSE 0
      /\ \A i \in 1 .. bottom - 1 - 1 + 1 : st[i] = stack[1 + i - 1]
  BY <1>1, SubSeqProperties
<1>3. Len(st) = bottom - 1 /\ \A i \in 1 .. bottom - 1 : st[i] = stack[i]
  BY <1>1, <1>2
<1> HIDE DEF st
<1>4. /\ stack' \in Seq(Value \cup FrameRecord) /\ Len(stack') = bottom
      /\ stack'[bottom] = v
      /\ \A i \in 1 .. bottom - 1 : stack'[i] = stack[i]
      /\ DOMAIN stack' = 1 .. bottom
  <2>1. stack' = Append(st, v)  BY DEF st
  <2> QED  BY <1>1, <1>2, <1>3, <2>1
<1>5. FramePos \subseteq 1 .. bottom  BY StackFacts DEF FramesOK
<1>6. ~ IsFrame(v)  BY FrameFields
<1>7. \A i \in 1 .. bottom - 1 : i \in FramePos <=> IsFrame(stack[i])
  BY <1>1, StackFacts DEF FramePos
<1>8. FramePos' = FramePos \ {bottom}
  BY <1>1, <1>4, <1>5, <1>6, <1>7 DEF FramePos
<1>9. ASSUME NEW p \in FramePos'  PROVE stack'[p] = stack[p]
  <2>1. p \in 1 .. bottom /\ p # bottom  BY <1>5, <1>8
  <2>2. p \in 1 .. bottom - 1  BY <1>1, <2>1
  <2> QED  BY <1>4, <2>2
<1>10. BaseFrames' = BaseFrames \ {bottom}  BY <1>8, <1>9 DEF BaseFrames
<1> QED  BY <1>4, <1>8, <1>9, <1>10

\* The rank of a frame depends on the frames below it only.
LEMMA RankKept ==
  ASSUME NEW p, \A q : q <= p => (q \in BaseFrames' <=> q \in BaseFrames)
  PROVE  Rank(p)' = Rank(p)
<1>1. {q \in BaseFrames : q <= p}' = {q \in BaseFrames : q <= p}  OBVIOUS
<1> QED  BY <1>1 DEF Rank

LEMMA RankPushed ==
  ASSUME TypeOK, FramesOK, NEW new \in Nat, bottom < new,
         BaseFrames' = BaseFrames \cup {new}
  PROVE  /\ Cardinality(BaseFrames)' = Cardinality(BaseFrames) + 1
         /\ Rank(new)' = Cardinality(BaseFrames) + 1
         /\ \A p \in BaseFrames : Rank(p)' = Rank(p)
<1>1. \A p \in BaseFrames : p \in Nat /\ p <= bottom
  BY RankFacts, StackFacts DEF FramesOK
<1>2. bottom \in Nat  BY StackFacts
<1>3. Cardinality(BaseFrames') = Cardinality(BaseFrames) + 1
  <2>1. new \notin BaseFrames  BY <1>1, <1>2
  <2> QED  BY <2>1, RankFacts, FS_AddElement
<1>4. Rank(new)' = Cardinality(BaseFrames) + 1
  <2>1. {q \in BaseFrames' : q <= new} = BaseFrames'  BY <1>1, <1>2
  <2> QED  BY <1>3, <2>1 DEF Rank
<1>5. ASSUME NEW p \in BaseFrames  PROVE Rank(p)' = Rank(p)
  <2>1. ~ (new <= p)  BY <1>1, <1>2
  <2>2. \A q : q <= p => (q \in BaseFrames' <=> q \in BaseFrames)  BY <2>1
  <2> QED  BY <2>2, RankKept
<1> QED  BY <1>3, <1>4, <1>5

LEMMA RankCut ==
  ASSUME TypeOK, FramesOK, bottom \in FramePos, BaseFrames' = BaseFrames \ {bottom}
  PROVE  /\ Cardinality(BaseFrames)' = Cardinality(BaseFrames)
              - (IF bottom \in BaseFrames THEN 1 ELSE 0)
         /\ bottom \in BaseFrames => Rank(bottom) = Cardinality(BaseFrames)
         /\ \A p \in BaseFrames' : Rank(p)' = Rank(p) /\ Rank(p) <= Cardinality(BaseFrames)'
<1>1. \A p \in BaseFrames : p \in Nat /\ p <= bottom
  BY RankFacts, StackFacts DEF FramesOK
<1>2. bottom \in Nat  BY StackFacts
<1>3. Cardinality(BaseFrames') = Cardinality(BaseFrames)
          - (IF bottom \in BaseFrames THEN 1 ELSE 0)
  <2>1. IsFiniteSet(BaseFrames) /\ Cardinality(BaseFrames) \in Nat  BY RankFacts
  <2>2. Cardinality(BaseFrames \ {bottom}) =
          IF bottom \in BaseFrames THEN Cardinality(BaseFrames) - 1 ELSE Cardinality(BaseFrames)
    BY <2>1, FS_RemoveElement
  <2> QED  BY <2>1, <2>2
<1>4. ASSUME bottom \in BaseFrames  PROVE Rank(bottom) = Cardinality(BaseFrames)
  <2>1. {q \in BaseFrames : q <= bottom} = BaseFrames  BY <1>1
  <2> QED  BY <2>1 DEF Rank
<1>5. ASSUME NEW p \in BaseFrames'
      PROVE  Rank(p)' = Rank(p) /\ Rank(p)' <= Cardinality(BaseFrames)'
  <2>1. ~ (bottom <= p)  BY <1>1, <1>2
  <2>2. \A q : q <= p => (q \in BaseFrames' <=> q \in BaseFrames)  BY <2>1
  <2>3. Rank(p)' = Rank(p)  BY <2>2, RankKept
  <2> DEFINE B == BaseFrames'
             Q == {q \in B : q <= p}
  <2>4. IsFiniteSet(B)  BY RankFacts, FS_RemoveElement
  <2>5. Q \subseteq B  OBVIOUS
  <2> HIDE DEF B
  <2>6. Cardinality(Q) <= Cardinality(B)  BY <2>4, <2>5, FS_Subset
  <2> QED  BY <2>3, <2>6 DEF Rank, B
<1> QED  BY <1>3, <1>4, <1>5

\* What a frame of siexec agrees with is in the part of the C stack below it.
LEMMA BaseKept ==
  ASSUME NEW n \in Nat, NEW j \in Nat \ {0}, j <= n, NEW fr,
         \A i \in 1 .. 2 * n - 1 : cstack'[i] = cstack[i],
         BaseOK(j, fr)
  PROVE  BaseOK(j, fr)'
<1>1. cstack'[2 * j - 1] = cstack[2 * j - 1]  OBVIOUS
<1>2. j # 1 => cstack'[2 * j - 2] = cstack[2 * j - 2]  OBVIOUS
<1> QED  BY <1>1, <1>2 DEF BaseOK, Suspended, Room

LEMMA PushedFramesOK ==
  ASSUME TypeOK, FramesOK, bottom \in FramePos \cup {0},
         NEW st \in Seq(Value \cup FrameRecord), bottom <= Len(st), Len(st) <= Len(stack),
         \A i \in 1 .. Len(st) : st[i] = stack[i],
         NEW fr \in FrameRecord, stack' = Append(st, fr), bottom' = Len(st) + 1,
         fr.top = Len(st), fr.bottom = bottom, fr.top < fr.limit,
         NEW b \in Nat, b = Cardinality(BaseFrames),
         \A i \in 1 .. 2 * b - 1 : cstack'[i] = cstack[i],
         fr.ret # NULL => Called(fr),
         fr.ret = NULL => BaseOK(b + 1, fr)'
  PROVE  /\ FramesOK' /\ bottom' \in FramePos'
         /\ stack' \in Seq(Value \cup FrameRecord) /\ Len(stack') = bottom'
         /\ Cardinality(BaseFrames)' = b + (IF fr.ret = NULL THEN 1 ELSE 0)
<1> DEFINE n == Len(st)
<1>1. n \in Nat /\ bottom \in Nat /\ bottom < n + 1  BY StackFacts
<1>2. /\ stack' \in Seq(Value \cup FrameRecord) /\ Len(stack') = n + 1
      /\ stack'[n + 1] = fr
      /\ FramePos' = FramePos \cup {n + 1}
      /\ BaseFrames' = IF fr.ret = NULL THEN BaseFrames \cup {n + 1} ELSE BaseFrames
      /\ \A p \in FramePos : stack'[p] = stack[p] /\ p <= bottom /\ p # n + 1
  BY FramePushed
<1>3. bottom' = n + 1 /\ fr.top = n  OBVIOUS
<1> HIDE DEF n
<1>4. FramePos \subseteq Nat /\ BaseFrames \subseteq FramePos  BY StackFacts, RankFacts
<1>5. ASSUME NEW p \in FramePos'  PROVE p <= bottom' /\ Stretch(p)'
  <2>1. CASE p = n + 1
    <3>1. \A q \in FramePos' : q < p => q <= bottom  BY <1>1, <1>2, <1>4, <2>1
    <3> QED  BY <1>1, <1>2, <1>3, <2>1, <3>1 DEF Stretch
  <2>2. CASE p # n + 1
    <3>1. p \in FramePos /\ stack'[p] = stack[p] /\ p <= bottom /\ Stretch(p)
      BY <1>2, <2>2 DEF FramesOK
    <3>2. ~ (n + 1 < p)  BY <1>1, <1>4, <3>1
    <3>3. \A q \in FramePos' : q < p => q <= stack[p].bottom
      BY <1>2, <3>1, <3>2 DEF Stretch
    <3>4. p \in Nat /\ p <= bottom /\ bottom < n + 1  BY <1>1, <1>4, <3>1
    <3>5. p <= bottom'  BY <1>1, <1>3, <3>4
    <3> QED  BY <1>2, <3>1, <3>3, <3>5 DEF Stretch
  <2> QED  BY <2>1, <2>2
<1>6. ASSUME NEW p \in FramePos' \ BaseFrames'  PROVE Called(stack[p])'
  <2>1. CASE p = n + 1
    <3>1. fr.ret # NULL  BY <1>2, <2>1
    <3>2. Called(fr)'  BY <3>1 DEF Called, Room
    <3> QED  BY <1>2, <2>1, <3>2 DEF Called, Room
  <2>2. CASE p # n + 1
    <3>1. p \in FramePos \ BaseFrames  BY <1>2, <2>2
    <3>2. Called(stack[p])  BY <3>1 DEF FramesOK
    <3> QED  BY <1>2, <3>1, <3>2 DEF Called, Room
  <2> QED  BY <2>1, <2>2
<1>7. /\ Cardinality(BaseFrames)' = b + (IF fr.ret = NULL THEN 1 ELSE 0)
      /\ \A p \in BaseFrames : Rank(p)' = Rank(p)
      /\ fr.ret = NULL => Rank(n + 1)' = b + 1
  <2>1. CASE fr.ret = NULL
    <3>1. n + 1 \in Nat /\ bottom < n + 1 /\ BaseFrames' = BaseFrames \cup {n + 1}
      BY <1>1, <1>2, <2>1
    <3>2. /\ Cardinality(BaseFrames)' = Cardinality(BaseFrames) + 1
          /\ Rank(n + 1)' = Cardinality(BaseFrames) + 1
          /\ \A p \in BaseFrames : Rank(p)' = Rank(p)
      BY <3>1, RankPushed
    <3> QED  BY <2>1, <3>2
  <2>2. CASE fr.ret # NULL
    <3>1. BaseFrames' = BaseFrames  BY <1>2, <2>2
    <3>2. \A p \in BaseFrames : Rank(p)' = Rank(p)  BY <3>1 DEF Rank
    <3> QED  BY <2>2, <3>1, <3>2
  <2> QED  BY <2>1, <2>2
<1>8. ASSUME NEW p \in BaseFrames'  PROVE BaseOK(Rank(p), stack[p])'
  <2>1. CASE p = n + 1
    <3>1. fr.ret = NULL  BY <1>2, <1>4, <2>1
    <3>2. stack[p]' = fr  BY <1>2, <2>1
    <3>3. Rank(n + 1)' = b + 1  BY <1>7, <3>1
    <3>4. Rank(p)' = b + 1 /\ stack[p]' = fr  BY <2>1, <3>2, <3>3
    <3> QED  BY <3>1, <3>4 DEF BaseOK, Suspended, Room
  <2>2. CASE p # n + 1
    <3>1. p \in BaseFrames /\ stack'[p] = stack[p]  BY <1>2, <1>4, <2>2
    <3> DEFINE j == Rank(p)
    <3>2. BaseOK(j, stack[p]) /\ j \in Nat \ {0} /\ j <= b
      BY <3>1, RankFacts DEF FramesOK
    <3>3. stack[p]' = stack[p]  BY <3>1
    <3>4. Rank(p)' = Rank(p)  BY <1>7, <3>1
    <3>5. Rank(p)' = j /\ stack[p]' = stack[p]  BY <3>3, <3>4
    <3> HIDE DEF j
    <3>6. \A jj, fr2 : jj = j /\ fr2 = stack[p] => BaseOK(jj, fr2)'  BY <3>2, BaseKept
    <3> QED  BY <3>5, <3>6 DEF BaseOK, Suspended, Room
  <2> QED  BY <2>1, <2>2
<1>9. bottom' \in FramePos'  BY <1>2, <1>3
<1> QED  BY <1>2, <1>3, <1>5, <1>6, <1>7, <1>8, <1>9 DEF FramesOK

LEMMA CutFramesOK ==
  ASSUME TypeOK, FramesOK, bottom \in FramePos, NEW v \in Value,
         stack' = Append(SubSeq(stack, 1, bottom - 1), v), bottom' = Frame.bottom,
         NEW c \in Nat, c = Cardinality(BaseFrames)',
         \A i \in 1 .. 2 * c - 1 : cstack'[i] = cstack[i]
  PROVE  /\ FramesOK' /\ bottom' \in FramePos' \cup {0} /\ bottom' \in Nat /\ bottom' < bottom
         /\ stack' \in Seq(Value \cup FrameRecord) /\ Len(stack') = bottom
<1>1. /\ stack' \in Seq(Value \cup FrameRecord) /\ Len(stack') = bottom
      /\ FramePos' = FramePos \ {bottom}
      /\ BaseFrames' = BaseFrames \ {bottom}
      /\ \A p \in FramePos' : stack'[p] = stack[p]
  BY FrameCut
<1>2. FramePos \subseteq Nat /\ bottom \in Nat /\ \A p \in FramePos : p <= bottom
  BY StackFacts DEF FramesOK
<1>3. /\ bottom' \in FramePos \cup {0} /\ bottom' < bottom
      /\ \A q \in FramePos : q < bottom => q <= bottom'
  BY DEF FramesOK, Stretch, Frame
<1>4. bottom' \in FramePos' \cup {0} /\ bottom' \in Nat
  <2> DEFINE k == bottom'
  <2>1. k \in FramePos \cup {0} /\ k < bottom /\ FramePos \subseteq Nat /\ bottom \in Nat
    BY <1>2, <1>3
  <2> HIDE DEF k
  <2>2. 0 \in Nat  OBVIOUS
  <2>3. k \in Nat  BY <2>1, <2>2, Zenon
  <2>4. k # bottom  BY <2>1, <2>3
  <2> QED  BY <1>1, <2>1, <2>3, <2>4 DEF k
<1>5. ASSUME NEW p \in FramePos'  PROVE p <= bottom' /\ Stretch(p)'
  <2>1. p \in FramePos /\ p # bottom /\ p <= bottom /\ p \in Nat  BY <1>1, <1>2
  <2>2. p < bottom  BY <1>2, <2>1
  <2>3. p <= bottom'  BY <1>3, <2>1, <2>2
  <2>4. Stretch(p) /\ stack'[p] = stack[p]  BY <1>1, <2>1 DEF FramesOK
  <2> DEFINE fb == stack[p].bottom
  <2>5. fb \in FramePos \cup {0} /\ fb < p  BY <2>4 DEF Stretch
  <2> HIDE DEF fb
  <2>6. fb # bottom  BY <1>2, <2>1, <2>2, <2>5
  <2>7. fb \in FramePos' \cup {0}  BY <1>1, <2>5, <2>6
  <2>8. \A q \in FramePos' : q < p => q <= fb  BY <1>1, <2>4 DEF Stretch, fb
  <2> QED  BY <2>3, <2>4, <2>7, <2>8 DEF Stretch, fb
<1>6. ASSUME NEW p \in FramePos' \ BaseFrames'  PROVE Called(stack[p])'
  <2>1. p \in FramePos \ BaseFrames /\ stack'[p] = stack[p]  BY <1>1
  <2>2. Called(stack[p])  BY <2>1 DEF FramesOK
  <2> QED  BY <2>1, <2>2 DEF Called, Room
<1>7. ASSUME NEW p \in BaseFrames'  PROVE BaseOK(Rank(p), stack[p])'
  <2>1. p \in BaseFrames /\ stack'[p] = stack[p]  BY <1>1 DEF BaseFrames
  <2> DEFINE j == Rank(p)
  <2>2. BaseOK(j, stack[p]) /\ j \in Nat \ {0}  BY <2>1, RankFacts DEF FramesOK
  <2>3. Rank(p)' = j /\ j <= c  BY <1>1, RankCut
  <2> HIDE DEF j
  <2>4. \A jj, fr : jj = j /\ fr = stack[p] => BaseOK(jj, fr)'  BY <2>2, <2>3, BaseKept
  <2> QED  BY <2>1, <2>3, <2>4 DEF BaseOK, Suspended, Room
<1> QED  BY <1>1, <1>3, <1>4, <1>5, <1>6, <1>7 DEF FramesOK

\* Operands change and the frames stay.
LEMMA SameFramesOK ==
  ASSUME TypeOK, FramesOK, UNCHANGED bottom,
         stack' \in Seq(Value \cup FrameRecord),
         bottom <= Len(stack'),
         \A i \in 1 .. bottom : stack'[i] = stack[i],
         \A i \in 1 .. Len(stack') : i > bottom => stack'[i] \in Value,
         \A i \in 1 .. 2 * Cardinality(BaseFrames) - 1 : cstack'[i] = cstack[i]
  PROVE  FramesOK' /\ FramePos' = FramePos /\ BaseFrames' = BaseFrames
<1>1. /\ FramePos' = FramePos /\ BaseFrames' = BaseFrames
      /\ \A p \in FramePos : stack'[p] = stack[p]
  BY OperandsChange
<1> QED  BY <1>1, FramesKept

-----------------------------------------------------------------------------
(***************************************************************************)
(* The running activation                                                  *)
(***************************************************************************)

LEMMA PcFacts == pc \in PC /\ pc # NULL => /\ pc \in Fn \X (0 .. Last)
                                           /\ pc[1] \in Fn /\ pc[2] \in 0 .. Last
                                           /\ StackSize[pc[1]] \in Nat
BY DEF PC

LEMMA RunFacts ==
  ASSUME Inv, mode = "run", NEW b, b = Cardinality(BaseFrames)
  PROVE  /\ TypeOK /\ FramesOK /\ LoopsOK /\ TopOK
         /\ b \in Nat
         /\ Len(cstack) \in Nat \ {0} /\ 2 * b - 1 <= Len(cstack)
         /\ pc # NULL => /\ bottom \in FramePos /\ Len(stack) <= limit
                         /\ env \in EnvRecord
                         /\ limit = bottom + StackSize[pc[1]]
                         /\ Cardinality(Siexecs) = b
                         /\ b # 0
                         /\ Innermost.by = "siexec" => Len(cstack) = 2 * b - 1
         /\ Innermost.by = "internal" => /\ pc # NULL
                                         /\ Len(cstack) = 2 * b
                                         /\ Innermost.pops \in 0 .. Operands
                                         /\ Innermost.tail \in BOOLEAN
                                         /\ cstack[Len(cstack) - 1].by = "siexec"
         /\ Innermost.by \in {"siexec", "internal"}
         /\ pc = NULL => /\ Innermost.by = "siexec" /\ Innermost.pc \in PC
                         /\ Cardinality(Siexecs) = b + 1
                         /\ Len(cstack) = 2 * b + 1
<1>1. TypeOK /\ FramesOK /\ LoopsOK /\ TopOK  BY DEF Inv
<1>2. b \in Nat  BY <1>1, RankFacts
<1>3. /\ Len(cstack) \in Nat \ {0}
      /\ Innermost.by \in {"siexec", "internal"}
      /\ Innermost.by = "siexec" => Innermost.pc \in PC
      /\ Innermost.by = "internal" => Innermost.pops \in Nat /\ Innermost.tail \in BOOLEAN
  BY <1>1, CFacts DEF Innermost, LoopsOK
<1>4. /\ Cardinality(Siexecs) = b + (IF pc = NULL THEN 1 ELSE 0)
      /\ Len(cstack) = 2 * Cardinality(Siexecs) - (IF Innermost.by = "siexec" THEN 1 ELSE 0)
  BY <1>1 DEF LoopsOK
<1>5. pc = NULL => /\ Innermost.by = "siexec" /\ Innermost.pc \in PC
                   /\ Cardinality(Siexecs) = b + 1
                   /\ Len(cstack) = 2 * b + 1
  BY <1>1, <1>2, <1>3, <1>4 DEF TopOK
<1>6. ASSUME pc # NULL
      PROVE  /\ bottom \in FramePos /\ Len(stack) <= limit
             /\ env \in EnvRecord
             /\ limit = bottom + StackSize[pc[1]]
             /\ Cardinality(Siexecs) = b
             /\ b # 0
             /\ Innermost.by = "siexec" => Len(cstack) = 2 * b - 1
  <2>1. bottom \in FramePos /\ Len(stack) <= limit /\ env \in EnvRecord
        /\ limit = bottom + StackSize[pc[1]] + 0
    BY <1>1, <1>6 DEF TopOK, Room
  <2>2. bottom + StackSize[pc[1]] + 0 = bottom + StackSize[pc[1]]
    BY <1>1, <1>6, StackFacts, PcFacts DEF TypeOK
  <2>3. Cardinality(Siexecs) = b /\ b # 0 /\ (Innermost.by = "siexec" => Len(cstack) = 2 * b - 1)
    <3>1. Cardinality(Siexecs) = b  BY <1>2, <1>4, <1>6
    <3>2. Len(cstack) = 2 * b - (IF Innermost.by = "siexec" THEN 1 ELSE 0)  BY <1>4, <3>1
    <3> QED  BY <1>2, <1>3, <3>1, <3>2
  <2> QED  BY <2>1, <2>2, <2>3
<1>7. ASSUME Innermost.by = "internal"
      PROVE  /\ pc # NULL
             /\ Len(cstack) = 2 * b
             /\ Innermost.pops \in 0 .. Operands
             /\ cstack[Len(cstack) - 1].by = "siexec"
  <2>1. pc # NULL /\ Len(cstack) = 2 * b  BY <1>2, <1>4, <1>5, <1>7
  <2>2. Innermost.pops <= Operands /\ Operands \in Nat
    BY <1>1, <1>7, <2>1, StackFacts DEF TopOK, Operands
  <2>3. \A k \in Nat \ {0} : 2 * k - 1 \in 1 .. 2 * k /\ (2 * k - 1) % 2 = 1  OBVIOUS
  <2>4. 2 * b - 1 \in 1 .. Len(cstack) /\ (2 * b - 1) % 2 = 1
    BY <1>2, <1>3, <2>1, <2>3
  <2>5. cstack[2 * b - 1].by = "siexec"  BY <1>1, <2>4, CFacts DEF LoopsOK
  <2> QED  BY <1>3, <1>7, <2>1, <2>2, <2>5
<1>8. 2 * b - 1 <= Len(cstack)  BY <1>2, <1>3, <1>4, <1>5, <1>6, <1>7
<1> QED  BY <1>1, <1>2, <1>3, <1>5, <1>6, <1>7, <1>8

\* Calls on the C stack alternate, and b frames of siexec stand below the activation
\* that runs.
Loops(b) ==
  /\ cstack \in Seq(Exec \cup Inner) /\ Len(cstack) # 0
  /\ \A i \in DOMAIN cstack : cstack[i].by = IF i % 2 = 1 THEN "siexec" ELSE "internal"
  /\ Cardinality(Siexecs) = b
  /\ Len(cstack) = 2 * b - (IF Innermost.by = "siexec" THEN 1 ELSE 0)

\* The activation goes on: its operands, limit, environment or place change, or an
\* internal function starts or ends.
LEMMA GoesOn ==
  ASSUME Inv, mode = "run", mode' = "run", pc # NULL, UNCHANGED bottom,
         stack' \in Seq(Value \cup FrameRecord),
         bottom <= Len(stack'), Len(stack') <= limit',
         \A i \in 1 .. bottom : stack'[i] = stack[i],
         \A i \in 1 .. Len(stack') : i > bottom => stack'[i] \in Value,
         pc' \in Fn \X (0 .. Last),
         env' \in EnvRecord, env'.fn = pc'[1],
         limit' = bottom + StackSize[pc'[1]],
         again' \in ((0 .. MaxArgs) \X BOOLEAN) \cup {NULL},
         NEW b, b = Cardinality(BaseFrames),
         Loops(b)',
         \A i \in 1 .. 2 * b - 1 : cstack'[i] = cstack[i],
         Innermost'.by = "internal" =>
            Innermost'.pops <= Operands' /\ (~ Innermost'.tail => pc'[2] < Last)
  PROVE  Inv'
<1>1. TypeOK /\ FramesOK /\ bottom \in FramePos  BY RunFacts
<1>2. FramesOK' /\ FramePos' = FramePos /\ BaseFrames' = BaseFrames  BY <1>1, SameFramesOK
<1>3. bottom \in Nat /\ bottom # 0  BY <1>1, StackFacts
<1>4. TypeOK'
  <2>1. bottom' \in 0 .. Len(stack')  BY <1>3
  <2>2. limit' \in Nat  BY <1>3
  <2>3. pc' \in PC /\ env' \in Env  BY DEF PC, Env, EnvRecord
  <2>4. cstack' \in Seq([by : {"siexec"}, env : Env, pc : PC]
                        \cup [by : {"internal"}, pops : Nat, tail : BOOLEAN])
    BY DEF Loops, Exec, Inner
  <2> QED  BY <2>1, <2>2, <2>3, <2>4 DEF TypeOK
<1>5. pc' # NULL  OBVIOUS
<1>6. LoopsOK'
  <2>1. Cardinality(Siexecs)' = Cardinality(BaseFrames)' + 0
    BY <1>1, <1>2, RankFacts DEF Loops
  <2> QED  BY <1>2, <1>5, <2>1 DEF LoopsOK, Loops
<1>7. TopOK'
  <2>1. Room(bottom, limit, pc[1], 0)'  BY <1>3 DEF Room
  <2> QED  BY <1>1, <1>2, <1>3, <1>5, <2>1 DEF TopOK
<1> QED  BY <1>2, <1>4, <1>6, <1>7 DEF Inv

LEMMA LoopsFacts ==
  ASSUME Inv, mode = "run", pc # NULL, NEW b, b = Cardinality(BaseFrames)
  PROVE  Loops(b) /\ b \in Nat /\ (cstack' = cstack => Loops(b)')
<1>1. TypeOK /\ LoopsOK /\ Cardinality(Siexecs) = b /\ b \in Nat  BY RunFacts
<1>2. cstack \in Seq(Exec \cup Inner)  BY <1>1, CFacts
<1>3. Loops(b)  BY <1>1, <1>2 DEF Loops, LoopsOK
<1>4. cstack' = cstack => Loops(b)'  BY <1>3 DEF Loops, Siexecs, Innermost
<1> QED  BY <1>1, <1>3, <1>4

\* n operands are replaced by r.
LEMMA Replaced ==
  ASSUME Inv, mode = "run", pc # NULL, NEW n \in Nat, n <= Operands, NEW r \in Seq(Value),
         stack' = Drop(stack, n) \o r
  PROVE  /\ stack' \in Seq(Value \cup FrameRecord)
         /\ Len(stack') = Len(stack) - n + Len(r) /\ bottom <= Len(stack')
         /\ Len(r) \in Nat
         /\ \A i \in 1 .. bottom : stack'[i] = stack[i]
         /\ \A i \in 1 .. Len(stack') : i > bottom => stack'[i] \in Value
<1>1. TypeOK /\ FramesOK  BY RunFacts
<1>2. /\ stack \in Seq(Value \cup FrameRecord) /\ Len(stack) \in Nat
      /\ bottom \in Nat /\ bottom <= Len(stack)
      /\ \A i \in 1 .. Len(stack) : i > bottom => stack[i] \in Value
  BY <1>1, StackFacts DEF FramesOK
<1>3. n \in 0 .. Len(stack) /\ bottom <= Len(stack) - n /\ Len(stack) - n \in Nat
  BY <1>2 DEF Operands
<1>4. /\ Drop(stack, n) \in Seq(Value \cup FrameRecord)
      /\ Len(Drop(stack, n)) = Len(stack) - n
      /\ \A i \in 1 .. Len(stack) - n : Drop(stack, n)[i] = stack[i]
  BY <1>2, <1>3, Dropped
<1> DEFINE d == Drop(stack, n)
           m == Len(stack) - n
<1>5. r \in Seq(Value \cup FrameRecord) /\ Len(r) \in Nat
      /\ \A i \in 1 .. Len(r) : r[i] \in Value
  OBVIOUS
<1>6. /\ d \in Seq(Value \cup FrameRecord) /\ Len(d) = m /\ m \in Nat /\ bottom <= m
      /\ \A i \in 1 .. m : d[i] = stack[i] /\ (i > bottom => d[i] \in Value)
  <2>1. \A i \in 1 .. m : i \in 1 .. Len(stack)  BY <1>2, <1>3
  <2> QED  BY <1>2, <1>3, <1>4, <2>1
<1>7. stack' = d \o r  OBVIOUS
<1> HIDE DEF d, m
<1>8. /\ stack' \in Seq(Value \cup FrameRecord)
      /\ Len(stack') = m + Len(r)
      /\ \A i \in 1 .. m + Len(r) : stack'[i] = IF i <= m THEN d[i] ELSE r[i - m]
  BY <1>5, <1>6, <1>7, ConcatProperties
<1>9. \A i \in 1 .. bottom : stack'[i] = stack[i]
  BY <1>2, <1>5, <1>6, <1>8
<1>10. ASSUME NEW i \in 1 .. Len(stack'), i > bottom  PROVE stack'[i] \in Value
  <2>1. CASE i <= m  BY <1>2, <1>5, <1>6, <1>8, <1>10, <2>1
  <2>2. CASE ~ (i <= m)
    <3>1. i - m \in 1 .. Len(r)  BY <1>5, <1>6, <1>8, <2>2
    <3> QED  BY <1>5, <1>6, <1>8, <2>2, <3>1
  <2> QED  BY <2>1, <2>2
<1>11. bottom <= Len(stack')  BY <1>2, <1>5, <1>6, <1>8
<1> QED  BY <1>5, <1>8, <1>9, <1>10, <1>11 DEF m

-----------------------------------------------------------------------------
(***************************************************************************)
(* Instructions                                                            *)
(***************************************************************************)

LEMMA FaultStep == Fault => Inv'
<1> SUFFICES ASSUME Fault PROVE Inv'  OBVIOUS
<1>1. TypeOK'
  BY DEF Fault, TypeOK, PC, Env
<1> QED  BY <1>1 DEF Fault, Inv

LEMMA AfterFacts ==
  ASSUME pc \in Fn \X (0 .. Last), pc[2] < Last
  PROVE  After \in Fn \X (0 .. Last) /\ After[1] = pc[1]
BY DEF After

LEMMA FetchFacts ==
  ASSUME Inv, Fetch
  PROVE  /\ mode = "run" /\ Innermost.by = "siexec" /\ pc # NULL /\ again = NULL
         /\ pc \in Fn \X (0 .. Last) /\ pc[1] \in Fn /\ pc[2] \in 0 .. Last
         /\ env \in EnvRecord /\ env.fn = pc[1]
         /\ bottom \in FramePos /\ bottom \in Nat \ {0} /\ bottom <= Len(stack)
         /\ Len(stack) \in Nat /\ Len(stack) <= limit
         /\ limit = bottom + StackSize[pc[1]] /\ limit \in Nat
<1>1. mode = "run" /\ Innermost.by = "siexec" /\ pc # NULL /\ again = NULL
  BY DEF Fetch, InLoop, Innermost
<1>2. TypeOK /\ TopOK /\ bottom \in FramePos /\ limit = bottom + StackSize[pc[1]]
  BY <1>1, RunFacts
<1>3. pc \in Fn \X (0 .. Last) /\ pc[1] \in Fn /\ pc[2] \in 0 .. Last
  BY <1>1, <1>2, PcFacts DEF TypeOK
<1>4. env \in EnvRecord /\ env.fn = pc[1] /\ Len(stack) <= limit  BY <1>1, <1>2 DEF TopOK
<1> QED  BY <1>1, <1>2, <1>3, <1>4, StackFacts

LEMMA OperateStep ==
  ASSUME Inv, NEW n \in Nat, NEW r \in Seq(Value), Operate(n, r)
  PROVE  Inv'
<1>1. Fetch  BY DEF Operate
<1>2. CASE Operands < n \/ Operands - n + Len(r) > limit - bottom
  BY <1>2, FaultStep DEF Operate
<1>3. CASE ~ (Operands < n \/ Operands - n + Len(r) > limit - bottom)
  <2>1. /\ stack' = Drop(stack, n) \o r /\ Advance
        /\ UNCHANGED <<mode, bottom, limit, env, cstack, again>>
    BY <1>3 DEF Operate, regs
  <2>2. n <= Operands  BY <1>1, <1>3, FetchFacts DEF Operands
  <2>3. /\ stack' \in Seq(Value \cup FrameRecord)
        /\ Len(stack') = Len(stack) - n + Len(r) /\ bottom <= Len(stack')
        /\ Len(r) \in Nat
        /\ \A i \in 1 .. bottom : stack'[i] = stack[i]
        /\ \A i \in 1 .. Len(stack') : i > bottom => stack'[i] \in Value
    BY <1>1, <2>1, <2>2, FetchFacts, Replaced
  <2>4. Len(stack') <= limit'
    <3>1. /\ Len(stack) \in Nat /\ bottom \in Nat /\ limit \in Nat /\ limit' = limit
          /\ ~ (Len(stack) - bottom - n + Len(r) > limit - bottom)
      BY <1>1, <1>3, <2>1, FetchFacts DEF Operands
    <3> QED  BY <2>3, <3>1
  <2>5. pc' \in Fn \X (0 .. Last) /\ pc'[1] = pc[1]
    BY <1>1, <2>1, FetchFacts, AfterFacts DEF Advance
  <2>b. PICK b : b = Cardinality(BaseFrames)  OBVIOUS
  <2>6. Loops(b)'  /\ \A i \in 1 .. 2 * b - 1 : cstack'[i] = cstack[i]
    BY <1>1, <2>1, <2>b, FetchFacts, LoopsFacts
  <2>7. Innermost'.by = "siexec"  BY <1>1, <2>1, FetchFacts DEF Innermost
  <2> QED
    BY <1>1, <2>1, <2>3, <2>4, <2>5, <2>6, <2>7, <2>b, FetchFacts, GoesOn
<1> QED  BY <1>2, <1>3

LEMMA BranchStep ==
  ASSUME Inv, NEW n \in Nat, NEW k \in 0 .. Last, Branch(n, k)
  PROVE  Inv'
<1>1. Fetch  BY DEF Branch
<1>2. CASE Operands < n  BY <1>2, FaultStep DEF Branch
<1>3. CASE ~ (Operands < n)
  <2>1. /\ stack' = Drop(stack, n) /\ pc' = <<pc[1], k>>
        /\ UNCHANGED <<mode, bottom, limit, env, cstack, again>>
    BY <1>3 DEF Branch, regs
  <2>2. n <= Operands /\ n \in 0 .. Len(stack) /\ stack \in Seq(Value \cup FrameRecord)
    <3>1. bottom \in Nat /\ Len(stack) \in Nat  BY <1>1, FetchFacts
    <3>2. n <= Len(stack) - bottom  BY <1>3, <3>1 DEF Operands
    <3>3. stack \in Seq(Value \cup FrameRecord)  BY DEF Inv, TypeOK
    <3> QED  BY <3>1, <3>2, <3>3 DEF Operands
  <2>3. stack' = Drop(stack, n) \o << >> /\ << >> \in Seq(Value) /\ Len(<< >>) = 0
    BY <2>1, <2>2, Dropped, ConcatEmptySeq
  <2>4. /\ stack' \in Seq(Value \cup FrameRecord)
        /\ Len(stack') = Len(stack) - n + 0 /\ bottom <= Len(stack')
        /\ \A i \in 1 .. bottom : stack'[i] = stack[i]
        /\ \A i \in 1 .. Len(stack') : i > bottom => stack'[i] \in Value
    BY <1>1, <2>2, <2>3, FetchFacts, Replaced
  <2>5. Len(stack') <= limit'  BY <1>1, <2>1, <2>4, FetchFacts
  <2>6. pc' \in Fn \X (0 .. Last) /\ pc'[1] = pc[1]  BY <1>1, <2>1, FetchFacts
  <2>b. PICK b : b = Cardinality(BaseFrames)  OBVIOUS
  <2>7. Loops(b)'  /\ \A i \in 1 .. 2 * b - 1 : cstack'[i] = cstack[i]
    BY <1>1, <2>1, <2>b, FetchFacts, LoopsFacts
  <2>8. Innermost'.by = "siexec"  BY <1>1, <2>1, FetchFacts DEF Innermost
  <2> QED
    BY <1>1, <2>1, <2>4, <2>5, <2>6, <2>7, <2>8, <2>b, FetchFacts, GoesOn
<1> QED  BY <1>2, <1>3

LEMMA Unmoved ==
  ASSUME Inv, mode = "run", pc # NULL
  PROVE  /\ stack \in Seq(Value \cup FrameRecord) /\ bottom <= Len(stack)
         /\ \A i \in 1 .. Len(stack) : i > bottom => stack[i] \in Value
BY RunFacts, StackFacts DEF FramesOK

LEMMA ScopeStep ==
  ASSUME Inv, NEW s, Scope(s)
  PROVE  Inv'
<1>1. Fetch  BY DEF Scope
<1>2. /\ env' = [env EXCEPT !.scope = s] /\ s \in 0 .. MaxScope /\ Advance
      /\ UNCHANGED <<mode, stack, bottom, limit, cstack, again>>
  BY DEF Scope, regs
<1>3. env' \in EnvRecord /\ env'.fn = pc[1]  BY <1>1, <1>2, FetchFacts DEF EnvRecord
<1>4. pc' \in Fn \X (0 .. Last) /\ pc'[1] = pc[1]
  BY <1>1, <1>2, FetchFacts, AfterFacts DEF Advance
<1>b. PICK b : b = Cardinality(BaseFrames)  OBVIOUS
<1>5. Loops(b)'  /\ \A i \in 1 .. 2 * b - 1 : cstack'[i] = cstack[i]
  BY <1>1, <1>2, <1>b, FetchFacts, LoopsFacts
<1>6. Innermost'.by = "siexec"  BY <1>1, <1>2, FetchFacts DEF Innermost
<1>7. /\ stack' \in Seq(Value \cup FrameRecord) /\ bottom <= Len(stack')
      /\ \A i \in 1 .. bottom : stack'[i] = stack[i]
      /\ \A i \in 1 .. Len(stack') : i > bottom => stack'[i] \in Value
  BY <1>1, <1>2, FetchFacts, Unmoved
<1> QED
  BY <1>1, <1>2, <1>3, <1>4, <1>5, <1>6, <1>7, <1>b, FetchFacts, GoesOn

\* A call of a number.
LEMMA CallNumberStep ==
  ASSUME Inv, Fetch, NEW n \in 0 .. MaxArgs, NEW tail \in BOOLEAN, again' = <<n, tail>>,
         UNCHANGED <<mode, stack, regs, pc, env, cstack>>
  PROVE  Inv'
<1>1. TypeOK /\ FramesOK /\ LoopsOK /\ TopOK  BY FetchFacts, RunFacts
<1>2. UNCHANGED <<stack, bottom, limit>>  BY DEF regs
<1>3. TypeOK'  BY <1>1, <1>2 DEF TypeOK
<1>4. FramesOK'
  BY <1>1, <1>2 DEF FramesOK, FramePos, BaseFrames, Stretch, Called, BaseOK, Rank, Suspended, Room
<1>5. LoopsOK'  BY <1>1, <1>2 DEF LoopsOK, Siexecs, BaseFrames, FramePos, Innermost
<1>6. TopOK'  BY <1>1, <1>2 DEF TopOK, FramePos, Innermost, Operands, Suspended, Room
<1> QED  BY <1>3, <1>4, <1>5, <1>6 DEF Inv

LEMMA BeginStep ==
  ASSUME Inv, Fetch, NEW n \in Nat, n <= Operands, NEW tail \in BOOLEAN, Begin(n, tail)
  PROVE  Inv'
<1>b. PICK b : b = Cardinality(BaseFrames)  OBVIOUS
<1> DEFINE c == [by |-> "internal", pops |-> n, tail |-> tail]
<1>1. /\ cstack' = Append(cstack, c) /\ (~ tail => pc[2] < Last)
      /\ UNCHANGED <<mode, stack, bottom, limit, pc, env, again>>
  BY DEF Begin, regs
<1>2. c \in Exec \cup Inner /\ c.by = "internal"  BY DEF Inner
<1>3. TypeOK /\ Loops(b) /\ b \in Nat /\ Len(cstack) = 2 * b - 1 /\ Len(cstack) \in Nat \ {0}
  BY <1>b, FetchFacts, RunFacts, LoopsFacts
<1> HIDE DEF c
<1>4. /\ cstack' \in Seq(Exec \cup Inner)
      /\ Len(cstack') = Len(cstack) + 1
      /\ \A i \in 1 .. Len(cstack) : cstack'[i] = cstack[i]
      /\ Innermost' = c
      /\ Cardinality(Siexecs') = Cardinality(Siexecs)
  BY <1>1, <1>2, <1>3, CPush, SiexecsFinite
<1>5. Loops(b)'
  <2>1. Len(cstack') = 2 * b /\ (2 * b) % 2 = 0  BY <1>3, <1>4
  <2>2. \A i \in 1 .. 2 * b - 1 : cstack'[i].by = IF i % 2 = 1 THEN "siexec" ELSE "internal"
    <3>1. DOMAIN cstack = 1 .. 2 * b - 1  BY <1>3, CFacts
    <3> QED  BY <1>3, <1>4, <3>1 DEF Loops
  <2>3. cstack'[2 * b].by = "internal"  BY <1>2, <1>4, <2>1 DEF Innermost
  <2>4. \A i \in DOMAIN cstack' : i \in 1 .. 2 * b - 1 \/ i = 2 * b
    <3>1. DOMAIN cstack' = 1 .. 2 * b  BY <1>4, <2>1
    <3>2. \A k \in Nat : \A i \in 1 .. 2 * k : i \in 1 .. 2 * k - 1 \/ i = 2 * k  OBVIOUS
    <3> QED  BY <1>3, <3>1, <3>2
  <2>5. \A i \in DOMAIN cstack' : cstack'[i].by = IF i % 2 = 1 THEN "siexec" ELSE "internal"
    BY <2>1, <2>2, <2>3, <2>4
  <2>6. Innermost'.by # "siexec" /\ Len(cstack') = 2 * b - 0  BY <1>2, <1>3, <1>4, <2>1
  <2>7. Cardinality(Siexecs)' = b  BY <1>3, <1>4 DEF Loops
  <2> QED  BY <1>3, <1>4, <2>1, <2>5, <2>6, <2>7 DEF Loops
<1>6. \A i \in 1 .. 2 * b - 1 : cstack'[i] = cstack[i]  BY <1>3, <1>4
<1>7. Innermost'.pops <= Operands' /\ (~ Innermost'.tail => pc'[2] < Last)
  BY <1>1, <1>4 DEF c, Operands
<1>8. /\ stack' \in Seq(Value \cup FrameRecord) /\ bottom <= Len(stack')
      /\ \A i \in 1 .. bottom : stack'[i] = stack[i]
      /\ \A i \in 1 .. Len(stack') : i > bottom => stack'[i] \in Value
  BY <1>1, FetchFacts, Unmoved
<1> QED
  BY <1>1, <1>5, <1>6, <1>7, <1>8, <1>b, FetchFacts, GoesOn

\* The environment of a function called with arguments args.
LEMMA BindFacts ==
  ASSUME NEW f \in Fn, NEW args \in Seq(Value), ArityOk(f, Len(args))
  PROVE  Bind(f, args) \in EnvRecord /\ Bind(f, args).fn = f
<1> DEFINE k == NumFixed(f)
           n == Len(args)
<1>1. k \in Nat /\ k <= n /\ n \in Nat
  BY DEF NumFixed, ArityOk
<1>2. ASSUME NEW i \in Int, NEW j \in Int, i >= 1, j <= n
      PROVE  SubSeq(args, i, j) \in Seq(Value)
  <2>1. \A x \in i .. j : args[x] \in Value  BY <1>1, <1>2
  <2> QED  BY <2>1, SubSeqProperties
<1>3. SubSeq(args, 1, k) \in Seq(Value) /\ SubSeq(args, k + 1, n) \in Seq(Value)
  BY <1>1, <1>2
<1>4. 0 \in 0 .. MaxScope  OBVIOUS
<1> HIDE DEF k, n
<1>5. Bind(f, args) = [fn |-> f, scope |-> 0, args |-> SubSeq(args, 1, k),
                       rest |-> IF HasRest[f] THEN SubSeq(args, k + 1, n) ELSE NULL]
  BY DEF Bind, k, n
<1> QED  BY <1>3, <1>4, <1>5 DEF EnvRecord

\* The arguments and the function of a call instruction.
LEMMA CallOperands ==
  ASSUME Inv, Fetch, NEW n \in Nat, ~ (Operands <= n)
  PROVE  /\ Callee(n) \in Value
         /\ SubSeq(stack, Len(stack) - n + 1, Len(stack)) \in Seq(Value)
         /\ Len(SubSeq(stack, Len(stack) - n + 1, Len(stack))) = n
         /\ n + 1 \in 0 .. Len(stack) /\ bottom <= Len(stack) - (n + 1)
         /\ n + 1 <= Operands
<1> DEFINE len == Len(stack)
<1>1. /\ len \in Nat /\ bottom \in Nat /\ bottom < len - n
      /\ \A i \in 1 .. len : i > bottom => stack[i] \in Value
  BY FetchFacts, Unmoved DEF Operands
<1> HIDE DEF len
<1>2. len - n \in 1 .. len /\ len - n > bottom  BY <1>1
<1>3. \A i \in len - n + 1 .. len : stack[i] \in Value  BY <1>1, <1>2
<1>4. /\ SubSeq(stack, len - n + 1, len) \in Seq(Value)
      /\ Len(SubSeq(stack, len - n + 1, len)) =
           IF len - n + 1 <= len THEN len - (len - n + 1) + 1 ELSE 0
  BY <1>1, <1>2, <1>3, SubSeqProperties
<1>5. Len(SubSeq(stack, len - n + 1, len)) = n  BY <1>1, <1>4
<1>6. Callee(n) \in Value  BY <1>1, <1>2 DEF Callee, len
<1>7. n + 1 \in 0 .. len /\ bottom <= len - (n + 1) /\ n + 1 <= len - bottom  BY <1>1
<1> QED  BY <1>4, <1>5, <1>6, <1>7 DEF len, Operands

LEMMA CalleeFn ==
  ASSUME NEW x \in Value, x.kind = "closure"
  PROVE  x.fn \in Fn \ {Entry}
BY DEF Value

LEMMA EntryPoint ==
  ASSUME NEW f \in Fn
  PROVE  <<f, 0>> \in Fn \X (0 .. Last) /\ StackSize[f] \in Nat
OBVIOUS

\* A call, not a tail call, of a closure.
LEMMA CallClosureStep ==
  ASSUME Inv, Fetch, NEW n \in Nat, ~ (Operands <= n), Callee(n).kind = "closure",
         CallClosure(n, FALSE)
  PROVE  Inv'
<1>b. PICK b : b = Cardinality(BaseFrames)  OBVIOUS
<1> DEFINE f == Callee(n).fn
           args == SubSeq(stack, Len(stack) - n + 1, Len(stack))
           st == Drop(stack, n + 1)
           fr == [bottom |-> bottom, limit |-> limit, top |-> Len(st), ret |-> After, env |-> env]
<1>1. CASE ~ ArityOk(f, n) \/ NumArgs[f] > EnvSize[f]
  BY <1>1, FaultStep DEF CallClosure
<1>2. CASE ~ (~ ArityOk(f, n) \/ NumArgs[f] > EnvSize[f])
  <2>1. /\ pc[2] < Last
        /\ stack' = Append(st, fr) /\ bottom' = Len(st) + 1
        /\ limit' = Len(st) + 1 + StackSize[f]
        /\ pc' = <<f, 0>> /\ env' = Bind(f, args)
        /\ UNCHANGED <<mode, cstack, again>>
    BY <1>2 DEF CallClosure, NewFrame
  <2>2. /\ Callee(n) \in Value /\ args \in Seq(Value) /\ Len(args) = n
        /\ n + 1 \in 0 .. Len(stack) /\ bottom <= Len(stack) - (n + 1)
    BY CallOperands
  <2>3. /\ mode = "run" /\ pc # NULL /\ Innermost.by = "siexec"
        /\ TypeOK /\ FramesOK /\ LoopsOK
        /\ bottom \in FramePos /\ bottom \in Nat \ {0}
        /\ Len(stack) \in Nat /\ Len(stack) <= limit /\ limit \in Nat
        /\ limit = bottom + StackSize[pc[1]] + 0 /\ StackSize[pc[1]] \in Nat
        /\ env \in EnvRecord /\ env.fn = pc[1]
        /\ stack \in Seq(Value \cup FrameRecord)
        /\ b \in Nat
        /\ again \in ((0 .. MaxArgs) \X BOOLEAN) \cup {NULL}
    <3>1. /\ mode = "run" /\ pc # NULL /\ Innermost.by = "siexec"
          /\ bottom \in FramePos /\ bottom \in Nat \ {0}
          /\ Len(stack) \in Nat /\ Len(stack) <= limit /\ limit \in Nat
          /\ limit = bottom + StackSize[pc[1]] /\ pc[1] \in Fn
          /\ env \in EnvRecord /\ env.fn = pc[1]
      BY FetchFacts
    <3>2. TypeOK /\ FramesOK /\ LoopsOK /\ b \in Nat  BY <1>b, <3>1, RunFacts
    <3>3. /\ stack \in Seq(Value \cup FrameRecord)
          /\ again \in ((0 .. MaxArgs) \X BOOLEAN) \cup {NULL}
      BY <3>2 DEF TypeOK
    <3>4. StackSize[pc[1]] \in Nat /\ limit = bottom + StackSize[pc[1]] + 0  BY <3>1
    <3> QED  BY <3>1, <3>2, <3>3, <3>4
  <2>4. f \in Fn /\ ArityOk(f, Len(args))  BY <1>2, <2>2, CalleeFn
  <2>5. Bind(f, args) \in EnvRecord /\ Bind(f, args).fn = f  BY <2>2, <2>4, BindFacts
  <2>6. <<f, 0>> \in Fn \X (0 .. Last) /\ StackSize[f] \in Nat  BY <2>4, EntryPoint
  <2>7. After \in Fn \X (0 .. Last) /\ After[1] = pc[1]  BY <2>1, AfterFacts, FetchFacts
  <2> HIDE DEF f, args
  <2>8. /\ st \in Seq(Value \cup FrameRecord) /\ Len(st) = Len(stack) - (n + 1)
        /\ \A i \in 1 .. Len(stack) - (n + 1) : st[i] = stack[i]
    <3>1. stack \in Seq(Value \cup FrameRecord)  BY <2>3
    <3>2. n + 1 \in 0 .. Len(stack)  BY <2>2
    <3>3. \A k \in 0 .. Len(stack) :
            /\ Drop(stack, k) \in Seq(Value \cup FrameRecord)
            /\ Len(Drop(stack, k)) = Len(stack) - k
            /\ \A i \in 1 .. Len(stack) - k : Drop(stack, k)[i] = stack[i]
      BY <3>1, Dropped
    <3> QED  BY <3>2, <3>3
  <2> HIDE DEF st
  <2>9. /\ bottom <= Len(st) /\ Len(st) <= Len(stack) /\ Len(st) \in Nat /\ Len(st) < limit
        /\ \A i \in 1 .. Len(st) : st[i] = stack[i]
    <3>1. \A l, m \in Nat : l + 1 \in 0 .. m => m - (l + 1) \in Nat /\ m - (l + 1) < m  OBVIOUS
    <3>2. Len(st) \in Nat /\ Len(st) < Len(stack)  BY <2>2, <2>3, <2>8, <3>1
    <3>3. bottom <= Len(st) /\ Len(st) < limit  BY <2>2, <2>3, <2>8, <3>2
    <3>4. \A i \in 1 .. Len(st) : st[i] = stack[i]  BY <2>8
    <3> QED  BY <2>3, <3>2, <3>3, <3>4
  <2>10. fr \in FrameRecord
    <3>1. After \in PC /\ env \in Env  BY <2>3, <2>7 DEF PC, Env, EnvRecord
    <3> QED  BY <2>3, <2>9, <3>1 DEF FrameRecord
  <2>11. /\ fr.top = Len(st) /\ fr.bottom = bottom /\ fr.limit = limit /\ fr.ret = After
         /\ fr.env = env
    OBVIOUS
  <2> HIDE DEF fr
  <2>12. fr.ret # NULL  BY <2>7, <2>11
  <2>13. Called(fr)  BY <2>3, <2>7, <2>11 DEF Called, Room
  <2>14. /\ FramesOK' /\ bottom' \in FramePos'
         /\ stack' \in Seq(Value \cup FrameRecord) /\ Len(stack') = bottom'
         /\ Cardinality(BaseFrames)' = b
    <3>1. \A i \in 1 .. 2 * b - 1 : cstack'[i] = cstack[i]  BY <2>1
    <3>2. /\ FramesOK' /\ bottom' \in FramePos'
          /\ stack' \in Seq(Value \cup FrameRecord) /\ Len(stack') = bottom'
          /\ Cardinality(BaseFrames)' = b + (IF fr.ret = NULL THEN 1 ELSE 0)
      <4>1. fr.top < fr.limit  BY <2>9, <2>11
      <4> QED
        BY <1>b, <2>1, <2>3, <2>8, <2>9, <2>10, <2>11, <2>12, <2>13, <3>1, <4>1, PushedFramesOK
    <3> QED  BY <2>3, <2>12, <3>2
  <2>15. bottom' \in Nat \ {0} /\ limit' = bottom' + StackSize[f] + 0 /\ limit' \in Nat
    BY <2>1, <2>6, <2>9
  <2>16. pc' \in PC /\ pc' # NULL /\ env' \in EnvRecord /\ env'.fn = pc'[1] /\ pc'[1] = f
    BY <2>1, <2>5, <2>6 DEF PC
  <2>17. TypeOK'
    <3>1. bottom' \in 0 .. Len(stack')  BY <2>14, <2>15
    <3>2. env' \in Env  BY <2>16 DEF Env, EnvRecord
    <3>3. cstack' \in Seq([by : {"siexec"}, env : Env, pc : PC]
                          \cup [by : {"internal"}, pops : Nat, tail : BOOLEAN])
      BY <2>1, <2>3 DEF TypeOK
    <3> QED  BY <2>1, <2>3, <2>14, <2>15, <2>16, <3>1, <3>2, <3>3 DEF TypeOK
  <2>18. LoopsOK'
    <3>1. Cardinality(BaseFrames)' = Cardinality(BaseFrames)  BY <1>b, <2>14
    <3>2. Siexecs' = Siexecs /\ Innermost' = Innermost  BY <2>1 DEF Siexecs, Innermost
    <3> QED  BY <2>1, <2>3, <2>16, <3>1, <3>2 DEF LoopsOK
  <2>19. TopOK'
    <3>1. Room(bottom, limit, pc[1], 0)'  BY <2>15, <2>16 DEF Room
    <3>2. Innermost'.by = "siexec"  BY <2>1, <2>3 DEF Innermost
    <3>3. Len(stack') <= limit'  BY <2>6, <2>14, <2>15
    <3> QED  BY <2>14, <2>15, <2>16, <3>1, <3>2, <3>3 DEF TopOK
  <2> QED  BY <2>1, <2>3, <2>14, <2>17, <2>18, <2>19 DEF Inv
<1> QED  BY <1>1, <1>2

LEMMA FrameFacts ==
  ASSUME TypeOK, FramesOK, bottom \in FramePos
  PROVE  /\ Frame \in FrameRecord /\ Frame.top = bottom - 1 /\ Frame.top < Frame.limit
         /\ Frame.bottom \in Nat /\ Frame.limit \in Nat /\ Frame.ret \in PC /\ Frame.env \in Env
         /\ Frame = [bottom |-> Frame.bottom, limit |-> Frame.limit, top |-> Frame.top,
                     ret |-> Frame.ret, env |-> Frame.env]
<1>1. Frame \in FrameRecord  BY StackFacts DEF Frame
<1>2. Frame.top = bottom - 1 /\ Frame.top < Frame.limit  BY DEF FramesOK, Stretch, Frame
<1>3. \A x \in FrameRecord : x = [bottom |-> x.bottom, limit |-> x.limit, top |-> x.top,
                                  ret |-> x.ret, env |-> x.env]
  BY DEF FrameRecord
<1> QED  BY <1>1, <1>2, <1>3, FrameFields

\* A tail call of a closure.
LEMMA TailCallStep ==
  ASSUME Inv, Fetch, NEW n \in Nat, ~ (Operands <= n), Callee(n).kind = "closure",
         CallClosure(n, TRUE)
  PROVE  Inv'
<1>b. PICK b : b = Cardinality(BaseFrames)  OBVIOUS
<1> DEFINE f == Callee(n).fn
           args == SubSeq(stack, Len(stack) - n + 1, Len(stack))
           st == SubSeq(stack, 1, bottom - 1)
<1>1. CASE ~ ArityOk(f, n) \/ NumArgs[f] > EnvSize[f]
  BY <1>1, FaultStep DEF CallClosure
<1>2. CASE ~ (~ ArityOk(f, n) \/ NumArgs[f] > EnvSize[f])
  <2>1. NewFrame(SubSeq(stack, 1, Frame.top), Frame.bottom, Frame.limit, StackSize[f],
                 Frame.ret, Frame.env)
        /\ pc' = <<f, 0>> /\ env' = Bind(f, args)
        /\ UNCHANGED <<mode, cstack, again>>
    BY <1>2 DEF CallClosure
  <2>2. /\ mode = "run" /\ pc # NULL /\ Innermost.by = "siexec"
        /\ TypeOK /\ FramesOK
        /\ bottom \in FramePos /\ bottom \in Nat \ {0} /\ bottom <= Len(stack)
        /\ stack \in Seq(Value \cup FrameRecord) /\ Len(stack) \in Nat
        /\ again \in ((0 .. MaxArgs) \X BOOLEAN) \cup {NULL}
    BY FetchFacts, RunFacts DEF TypeOK
  <2>3. Frame \in FrameRecord /\ Frame.top = bottom - 1
        /\ Frame = [bottom |-> Frame.bottom, limit |-> Frame.limit, top |-> Frame.top,
                    ret |-> Frame.ret, env |-> Frame.env]
    BY <2>2, FrameFacts
  <2>4. f \in Fn /\ ArityOk(f, Len(args)) /\ args \in Seq(Value)
    BY <1>2, CallOperands, CalleeFn
  <2>5. Bind(f, args) \in EnvRecord /\ Bind(f, args).fn = f  BY <2>4, BindFacts
  <2>6. <<f, 0>> \in Fn \X (0 .. Last) /\ StackSize[f] \in Nat  BY <2>4, EntryPoint
  <2> HIDE DEF f, args
  <2>7. /\ st \in Seq(Value \cup FrameRecord) /\ Len(st) = bottom - 1
        /\ \A i \in 1 .. bottom - 1 : st[i] = stack[i]
    <3>1. \A i \in 1 .. bottom - 1 : stack[i] \in Value \cup FrameRecord  BY <2>2
    <3>2. /\ st \in Seq(Value \cup FrameRecord)
          /\ Len(st) = IF 1 <= bottom - 1 THEN bottom - 1 - 1 + 1 ELSE 0
          /\ \A i \in 1 .. bottom - 1 - 1 + 1 : st[i] = stack[1 + i - 1]
      BY <2>2, <3>1, SubSeqProperties
    <3> QED  BY <2>2, <3>2
  <2>8. st = SubSeq(stack, 1, Frame.top)  BY <2>3
  <2> HIDE DEF st
  <2>9. /\ stack' = Append(st, Frame) /\ bottom' = Len(st) + 1
        /\ limit' = Len(st) + 1 + StackSize[f]
    <3>1. stack' = Append(st, [bottom |-> Frame.bottom, limit |-> Frame.limit, top |-> Len(st),
                               ret |-> Frame.ret, env |-> Frame.env])
          /\ bottom' = Len(st) + 1 /\ limit' = Len(st) + 1 + StackSize[f]
      BY <2>1, <2>8 DEF NewFrame
    <3>2. Len(st) = Frame.top  BY <2>3, <2>7
    <3> QED  BY <2>3, <3>1, <3>2
  <2>10. bottom' = bottom /\ limit' = bottom + StackSize[f]  BY <2>2, <2>7, <2>9
  <2>11. /\ stack' \in Seq(Value \cup FrameRecord) /\ Len(stack') = bottom
         /\ \A i \in 1 .. bottom : stack'[i] = stack[i]
    <3>1. /\ stack' \in Seq(Value \cup FrameRecord) /\ Len(stack') = Len(st) + 1
          /\ \A i \in 1 .. Len(st) : stack'[i] = st[i]
          /\ stack'[Len(st) + 1] = Frame
      BY <2>3, <2>7, <2>9
    <3>2. Len(st) + 1 = bottom  BY <2>2, <2>7
    <3>3. stack'[bottom] = stack[bottom]  BY <3>1, <3>2 DEF Frame
    <3>4. \A i \in 1 .. bottom - 1 : stack'[i] = stack[i]  BY <2>7, <3>1
    <3>5. \A i \in 1 .. bottom : i \in 1 .. bottom - 1 \/ i = bottom  BY <2>2
    <3> QED  BY <3>1, <3>2, <3>3, <3>4, <3>5
  <2>12. Loops(b)' /\ \A i \in 1 .. 2 * b - 1 : cstack'[i] = cstack[i]
    BY <1>b, <2>1, <2>2, LoopsFacts
  <2>13. Innermost'.by = "siexec"  BY <2>1, <2>2 DEF Innermost
  <2>14. pc' \in Fn \X (0 .. Last) /\ env' \in EnvRecord /\ env'.fn = pc'[1] /\ pc'[1] = f
    BY <2>1, <2>5, <2>6
  <2>15. /\ Len(stack') <= limit' /\ bottom <= Len(stack')
         /\ \A i \in 1 .. Len(stack') : i > bottom => stack'[i] \in Value
    BY <2>2, <2>6, <2>10, <2>11
  <2> QED
    BY <1>b, <2>1, <2>2, <2>10, <2>11, <2>12, <2>13, <2>14, <2>15, GoesOn
<1> QED  BY <1>1, <1>2

LEMMA CallStep ==
  ASSUME Inv, NEW n \in 0 .. MaxArgs, NEW tail \in BOOLEAN, Call(n, tail)
  PROVE  Inv'
<1>1. Fetch /\ n \in Nat  BY DEF Call
<1>2. CASE Operands <= n  BY <1>2, FaultStep DEF Call
<1>3. CASE ~ (Operands <= n)
  <2>1. Callee(n) \in Value /\ n + 1 <= Operands  BY <1>1, <1>3, CallOperands
  <2>2. CASE Callee(n).kind = "closure"
    <3>1. CallClosure(n, tail)  BY <1>3, <2>2 DEF Call
    <3>2. CASE tail
      <4>1. CallClosure(n, TRUE)  BY <3>1, <3>2
      <4> QED  BY <1>1, <1>3, <2>2, <4>1, TailCallStep
    <3>3. CASE ~ tail
      <4>1. CallClosure(n, FALSE)  BY <3>1, <3>3
      <4> QED  BY <1>1, <1>3, <2>2, <4>1, CallClosureStep
    <3> QED  BY <3>2, <3>3
  <2>3. CASE Callee(n).kind = "internal"
    <3>1. Begin(n + 1, tail)  BY <1>3, <2>3 DEF Call
    <3> QED  BY <1>1, <2>1, <3>1, BeginStep
  <2>4. CASE Callee(n).kind = "intcont"
    <3>1. IF n > 0 THEN Fault ELSE Begin(1, tail)  BY <1>3, <2>4 DEF Call
    <3>2. CASE n > 0  BY <3>1, <3>2, FaultStep
    <3>3. CASE ~ (n > 0)
      <4>1. n + 1 = 1 /\ Begin(1, tail)  BY <1>1, <3>1, <3>3
      <4>2. 1 <= Operands  BY <2>1, <4>1
      <4> QED  BY <1>1, <4>1, <4>2, BeginStep
    <3> QED  BY <3>2, <3>3
  <2>5. CASE Callee(n).kind = "object"
    <3>1. Fault  BY <1>3, <2>5 DEF Call
    <3> QED  BY <3>1, FaultStep
  <2>6. CASE Callee(n).kind = "number"
    <3>1. again' = <<n, tail>> /\ UNCHANGED <<mode, stack, regs, pc, env, cstack>>
      BY <1>3, <2>6 DEF Call
    <3> QED  BY <1>1, <3>1, CallNumberStep
  <2>7. Callee(n).kind \in {"closure", "internal", "intcont", "object", "number"}
    BY <2>1 DEF Value
  <2> QED  BY <2>2, <2>3, <2>4, <2>5, <2>6, <2>7
<1> QED  BY <1>2, <1>3

LEMMA CallInternalStep ==
  ASSUME Inv, NEW n \in Nat, NEW tail \in BOOLEAN, CallInternal(n, tail)
  PROVE  Inv'
<1>1. Fetch  BY DEF CallInternal
<1>2. CASE Operands < n  BY <1>2, FaultStep DEF CallInternal
<1>3. CASE ~ (Operands < n)
  <2>1. Begin(n, tail)  BY <1>3 DEF CallInternal
  <2>2. n <= Operands  BY <1>1, <1>3, FetchFacts DEF Operands
  <2> QED  BY <1>1, <2>1, <2>2, BeginStep
<1> QED  BY <1>2, <1>3

LEMMA UnchangedStep ==
  ASSUME Inv, UNCHANGED vars
  PROVE  Inv'
<1>1. UNCHANGED <<mode, stack, bottom, limit, pc, env, cstack, again>>  BY DEF vars, regs
<1>2. TypeOK'  BY <1>1 DEF Inv, TypeOK
<1>3. FramesOK' = FramesOK
  BY <1>1 DEF FramesOK, FramePos, BaseFrames, Stretch, Called, BaseOK, Rank, Suspended, Room
<1>4. LoopsOK' = LoopsOK  BY <1>1 DEF LoopsOK, Siexecs, BaseFrames, FramePos, Innermost
<1>5. TopOK' = TopOK  BY <1>1 DEF TopOK, FramePos, Innermost, Operands, Suspended, Room
<1> QED  BY <1>1, <1>2, <1>3, <1>4, <1>5 DEF Inv

-----------------------------------------------------------------------------
(***************************************************************************)
(* Returns                                                                 *)
(***************************************************************************)

\* An activation returns v, to a call instruction or to siexec.  The innermost call is
\* then that of siexec, whether the return was an instruction or that of an internal
\* function called in a tail position.
LEMMA ReturnStep ==
  ASSUME Inv, mode = "run", pc # NULL, NEW v \in Value, NEW cs, DestroyAndPush(v, cs),
         \/ Innermost.by = "siexec" /\ cs = cstack
         \/ Innermost.by = "internal" /\ cs = Drop(cstack, 1)
  PROVE  Inv'
<1>b. PICK b : b = Cardinality(BaseFrames)  OBVIOUS
<1>1. CASE Frame.top >= Frame.limit
  BY <1>1, FaultStep DEF DestroyAndPush
<1>2. CASE ~ (Frame.top >= Frame.limit)
  <2>1. /\ stack' = Append(SubSeq(stack, 1, Frame.top), v)
        /\ bottom' = Frame.bottom /\ limit' = Frame.limit
        /\ pc' = Frame.ret /\ env' = Frame.env /\ cstack' = cs
        /\ UNCHANGED <<mode, again>>
    BY <1>2 DEF DestroyAndPush
  <2>2. /\ TypeOK /\ FramesOK /\ LoopsOK /\ TopOK
        /\ bottom \in FramePos /\ b \in Nat \ {0}
        /\ Cardinality(Siexecs) = b
        /\ Len(cstack) \in Nat \ {0}
        /\ Innermost.by = "siexec" => Len(cstack) = 2 * b - 1
        /\ Innermost.by = "internal" => Len(cstack) = 2 * b
    BY <1>b, RunFacts
  <2>3. /\ Frame \in FrameRecord /\ Frame.top = bottom - 1 /\ Frame.top < Frame.limit
        /\ Frame.bottom \in Nat /\ Frame.limit \in Nat /\ Frame.ret \in PC /\ Frame.env \in Env
    BY <2>2, FrameFacts
  <2>4. bottom \in Nat \ {0}  BY <2>2, StackFacts
  <2>5. /\ cstack' \in Seq(Exec \cup Inner) /\ Len(cstack') = 2 * b - 1
        /\ \A i \in 1 .. 2 * b - 1 : cstack'[i] = cstack[i]
        /\ Cardinality(Siexecs)' = b
    <3>1. CASE Innermost.by = "siexec" /\ cs = cstack
      <4>1. Siexecs' = Siexecs  BY <2>1, <3>1 DEF Siexecs
      <4> QED  BY <2>1, <2>2, <3>1, <4>1, CFacts
    <3>2. CASE Innermost.by = "internal" /\ cs = Drop(cstack, 1)
      <4>1. cstack' = Drop(cstack, 1)  BY <2>1, <3>2
      <4>2. /\ cstack' \in Seq(Exec \cup Inner)
            /\ Len(cstack') = Len(cstack) - 1
            /\ \A i \in 1 .. Len(cstack) - 1 : cstack'[i] = cstack[i]
            /\ Cardinality(Siexecs') = Cardinality(Siexecs)
        BY <2>2, <3>2, <4>1, CDrop, SiexecsFinite
      <4> QED  BY <2>2, <3>2, <4>2
    <3> QED  BY <3>1, <3>2
  <2>6. /\ FramePos' = FramePos \ {bottom} /\ BaseFrames' = BaseFrames \ {bottom}
    <3>1. stack' = Append(SubSeq(stack, 1, bottom - 1), v)  BY <2>1, <2>3
    <3> QED  BY <2>2, <3>1, FrameCut
  <2>7. /\ Cardinality(BaseFrames)' = b - (IF bottom \in BaseFrames THEN 1 ELSE 0)
        /\ bottom \in BaseFrames => Rank(bottom) = b
    BY <1>b, <2>2, <2>6, RankCut
  <2>8. bottom \in BaseFrames <=> Frame.ret = NULL  BY <2>2 DEF BaseFrames, Frame
  <2>c. PICK c : c = Cardinality(BaseFrames)'  OBVIOUS
  <2>9. c \in Nat /\ c <= b  BY <2>2, <2>7, <2>c
  <2>10. /\ FramesOK' /\ bottom' \in FramePos' \cup {0} /\ bottom' \in Nat /\ bottom' < bottom
         /\ stack' \in Seq(Value \cup FrameRecord) /\ Len(stack') = bottom
    <3>1. stack' = Append(SubSeq(stack, 1, bottom - 1), v)  BY <2>1, <2>3
    <3>2. \A i \in 1 .. 2 * c - 1 : cstack'[i] = cstack[i]  BY <2>2, <2>5, <2>9
    <3> QED  BY <2>1, <2>2, <2>9, <2>c, <3>1, <3>2, CutFramesOK
  <2>11. TypeOK'
    <3>1. bottom' \in 0 .. Len(stack')  BY <2>4, <2>10
    <3>2. cstack' \in Seq([by : {"siexec"}, env : Env, pc : PC]
                          \cup [by : {"internal"}, pops : Nat, tail : BOOLEAN])
      BY <2>5 DEF Exec, Inner
    <3> QED  BY <2>1, <2>2, <2>3, <2>10, <3>1, <3>2 DEF TypeOK
  <2>12. Innermost' = cstack[2 * b - 1] /\ Innermost'.by = "siexec"
    <3>1. \A k \in Nat \ {0} : 2 * k - 1 \in Nat \ {0} /\ (2 * k - 1) % 2 = 1  OBVIOUS
    <3>2. 2 * b - 1 \in 1 .. 2 * b - 1 /\ 2 * b - 1 \in 1 .. Len(cstack)  BY <2>2, <3>1
    <3>3. Innermost' = cstack[2 * b - 1]  BY <2>5, <3>2 DEF Innermost
    <3>4. cstack[2 * b - 1].by = "siexec"  BY <2>2, <3>1, <3>2, CFacts DEF LoopsOK
    <3> QED  BY <3>3, <3>4
  <2>13. LoopsOK'
    <3>1. Len(cstack') # 0  BY <2>2, <2>5
    <3>2. \A i \in DOMAIN cstack' : cstack'[i].by = IF i % 2 = 1 THEN "siexec" ELSE "internal"
      <4>1. DOMAIN cstack' = 1 .. 2 * b - 1  BY <2>5
      <4>2. 1 .. 2 * b - 1 \subseteq DOMAIN cstack  BY <2>2, CFacts
      <4> QED  BY <2>2, <2>5, <4>1, <4>2 DEF LoopsOK
    <3>3. Cardinality(Siexecs)' = Cardinality(BaseFrames)' + (IF pc' = NULL THEN 1 ELSE 0)
      BY <2>1, <2>2, <2>5, <2>7, <2>8
    <3> QED  BY <2>5, <2>12, <3>1, <3>2, <3>3 DEF LoopsOK
  <2>14. TopOK'
    <3>1. CASE Frame.ret # NULL
      <4>1. Called(Frame)  BY <2>2, <2>8, <3>1 DEF FramesOK, Frame
      <4>2. bottom' # 0 /\ env' \in EnvRecord /\ env'.fn = pc'[1]  BY <2>1, <4>1 DEF Called
      <4>3. Room(bottom, limit, pc[1], 0)'  BY <2>1, <4>1 DEF Called, Room
      <4>4. Len(stack') <= limit'  BY <2>1, <2>3, <2>4, <2>10
      <4> QED  BY <2>1, <2>10, <2>12, <3>1, <4>2, <4>3, <4>4 DEF TopOK
    <3>2. CASE Frame.ret = NULL
      <4>1. BaseOK(b, Frame)  BY <2>2, <2>7, <2>8, <3>2 DEF FramesOK, Frame
      <4>2. b = 1 => limit' = 1  BY <2>1, <4>1 DEF BaseOK
      <4>3. ASSUME b # 1
            PROVE  /\ bottom' # 0
                   /\ Suspended(Innermost, cstack[Len(cstack) - 1], bottom, limit, Len(stack) - 1)'
                   /\ bottom' < Len(stack') /\ Len(stack') <= limit'
        <5>1. bottom' # 0
              /\ Suspended(cstack[2 * b - 1], cstack[2 * b - 2], Frame.bottom, Frame.limit, Frame.top)
          BY <2>1, <4>1, <4>3 DEF BaseOK
        <5>2. cstack'[Len(cstack') - 1] = cstack[2 * b - 2]
          <6>1. 2 * b - 2 \in 1 .. 2 * b - 1 /\ 2 * b - 1 - 1 = 2 * b - 2  BY <2>2, <4>3
          <6> QED  BY <2>5, <6>1
        <5>3. Len(stack') - 1 = Frame.top  BY <2>3, <2>10
        <5>4. Suspended(Innermost, cstack[Len(cstack) - 1], bottom, limit, Len(stack) - 1)'
          BY <2>1, <2>12, <5>1, <5>2, <5>3 DEF Suspended, Room
        <5>5. bottom' < Len(stack') /\ Len(stack') <= limit'  BY <2>1, <2>3, <2>4, <2>10
        <5> QED  BY <5>1, <5>4, <5>5
      <4>4. Len(cstack') = 1 <=> b = 1  BY <2>2, <2>5
      <4> QED  BY <2>1, <2>10, <2>12, <3>2, <4>2, <4>3, <4>4 DEF TopOK
    <3> QED  BY <3>1, <3>2
  <2> QED  BY <2>10, <2>11, <2>13, <2>14 DEF Inv
<1> QED  BY <1>1, <1>2

LEMMA RetStep ==
  ASSUME Inv, NEW pops \in 0 .. 1, NEW v \in Value, Ret(pops, v)
  PROVE  Inv'
<1>1. Fetch  BY DEF Ret
<1>2. CASE Operands < pops  BY <1>2, FaultStep DEF Ret
<1>3. CASE ~ (Operands < pops)
  <2>1. PICK w : w = IF pops = 1 THEN stack[Len(stack)] ELSE v  OBVIOUS
  <2>2. w \in Value
    <3>1. CASE pops = 1
      <4>1. Len(stack) \in 1 .. Len(stack) /\ Len(stack) > bottom
        BY <1>1, <1>3, <3>1, FetchFacts DEF Operands
      <4> QED  BY <1>1, <2>1, <3>1, <4>1, FetchFacts, Unmoved
    <3> QED  BY <2>1, <3>1
  <2>3. DestroyAndPush(w, cstack)  BY <1>3, <2>1 DEF Ret
  <2>4. mode = "run" /\ pc # NULL /\ Innermost.by = "siexec"  BY <1>1, FetchFacts
  <2>5. PICK cs : cs = cstack  OBVIOUS
  <2>6. DestroyAndPush(w, cs)  BY <2>3, <2>5
  <2> QED  BY <2>2, <2>4, <2>5, <2>6, ReturnStep
<1> QED  BY <1>2, <1>3

-----------------------------------------------------------------------------
(***************************************************************************)
(* The C functions                                                         *)
(***************************************************************************)

LEMMA InnerFacts ==
  ASSUME Inv, mode = "run", Innermost.by = "internal"
  PROVE  /\ pc # NULL /\ pc \in Fn \X (0 .. Last) /\ pc[1] \in Fn /\ pc[2] \in 0 .. Last
         /\ env \in EnvRecord /\ env.fn = pc[1]
         /\ bottom \in FramePos /\ bottom \in Nat \ {0} /\ bottom <= Len(stack)
         /\ Len(stack) \in Nat /\ Len(stack) <= limit /\ limit \in Nat
         /\ limit = bottom + StackSize[pc[1]]
         /\ Innermost.pops \in Nat /\ Innermost.pops <= Operands
         /\ Innermost.tail \in BOOLEAN /\ (~ Innermost.tail => pc[2] < Last)
<1>1. /\ pc # NULL /\ TypeOK /\ TopOK /\ bottom \in FramePos
      /\ limit = bottom + StackSize[pc[1]]
      /\ Innermost.pops \in 0 .. Operands /\ Innermost.tail \in BOOLEAN
  BY RunFacts
<1>2. pc \in Fn \X (0 .. Last) /\ pc[1] \in Fn /\ pc[2] \in 0 .. Last
  BY <1>1, PcFacts DEF TypeOK
<1>3. /\ env \in EnvRecord /\ env.fn = pc[1] /\ Len(stack) <= limit
      /\ ~ Innermost.tail => pc[2] < Last
  BY <1>1 DEF TopOK
<1>4. Operands \in Int  BY <1>1, StackFacts DEF Operands
<1>5. Innermost.pops \in Nat /\ Innermost.pops <= Operands  BY <1>1, <1>4
<1> QED  BY <1>1, <1>2, <1>3, <1>5, StackFacts

LEMMA InternalReturnStep ==
  ASSUME Inv, NEW v \in Value, InternalReturn(v)
  PROVE  Inv'
<1>b. PICK b : b = Cardinality(BaseFrames)  OBVIOUS
<1>1. mode = "run" /\ Innermost.by = "internal"  BY DEF InternalReturn, Innermost
<1>2. Innermost.tail \in BOOLEAN /\ Innermost.pops \in Nat /\ Len(stack) \in Nat /\ limit \in Nat
  BY <1>1, InnerFacts
<1>3. Len(stack) - Innermost.pops >= limit <=> ~ (Len(stack) - Innermost.pops < limit)  BY <1>2
<1>4. CASE Innermost.tail
  <2>1. PICK cs : cs = Drop(cstack, 1)  OBVIOUS
  <2>2. DestroyAndPush(v, cs)  BY <1>4, <2>1 DEF InternalReturn, Innermost
  <2> QED  BY <1>1, <2>1, <2>2, InnerFacts, ReturnStep
<1>5. CASE ~ Innermost.tail /\ Len(stack) - Innermost.pops >= limit
  <2>1. Fault  BY <1>5, <1>2, <1>3 DEF InternalReturn, Innermost
  <2> QED  BY <2>1, FaultStep
<1>6. CASE ~ Innermost.tail /\ Len(stack) - Innermost.pops < limit
  <2>1. /\ stack' = Append(Drop(stack, Innermost.pops), v)
        /\ pc' = After /\ cstack' = Drop(cstack, 1)
        /\ UNCHANGED <<mode, bottom, limit, env, again>>
    BY <1>6, <1>2, <1>3 DEF InternalReturn, Innermost, regs
  <2>2. /\ pc # NULL /\ pc \in Fn \X (0 .. Last)
        /\ env \in EnvRecord /\ env.fn = pc[1] /\ pc[2] < Last
        /\ bottom \in Nat \ {0} /\ limit \in Nat /\ Len(stack) \in Nat
        /\ limit = bottom + StackSize[pc[1]]
        /\ Innermost.pops \in Nat /\ Innermost.pops <= Operands /\ Operands = Len(stack) - bottom
    BY <1>1, <1>6, InnerFacts DEF Operands
  <2>3. TypeOK /\ Loops(b) /\ b \in Nat \ {0} /\ Len(cstack) = 2 * b
        /\ again \in ((0 .. MaxArgs) \X BOOLEAN) \cup {NULL}
    BY <1>1, <1>b, <2>2, RunFacts, LoopsFacts DEF TypeOK
  <2>4. PICK n : n = Innermost.pops  OBVIOUS
  <2>5. n \in Nat /\ n <= Operands /\ n \in 0 .. Len(stack)
        /\ Drop(stack, n) \in Seq(Value \cup FrameRecord)
    <3>1. n \in Nat /\ n <= Operands /\ n \in 0 .. Len(stack)  BY <2>2, <2>4
    <3>2. stack \in Seq(Value \cup FrameRecord)  BY <2>3 DEF TypeOK
    <3> QED  BY <3>1, <3>2, Dropped
  <2>6. stack' = Drop(stack, n) \o <<v>> /\ <<v>> \in Seq(Value) /\ Len(<<v>>) = 1
    BY <2>1, <2>4, <2>5
  <2>7. /\ stack' \in Seq(Value \cup FrameRecord)
        /\ Len(stack') = Len(stack) - n + 1 /\ bottom <= Len(stack')
        /\ \A i \in 1 .. bottom : stack'[i] = stack[i]
        /\ \A i \in 1 .. Len(stack') : i > bottom => stack'[i] \in Value
    BY <1>1, <2>2, <2>5, <2>6, Replaced
  <2>8. Len(stack') <= limit'
    <3>1. Len(stack) - n < limit  BY <1>6, <2>4
    <3> QED  BY <2>1, <2>2, <2>5, <2>7, <3>1
  <2>9. pc' \in Fn \X (0 .. Last) /\ pc'[1] = pc[1]  BY <2>1, <2>2, AfterFacts
  <2>10. /\ cstack' \in Seq(Exec \cup Inner)
         /\ Len(cstack') = Len(cstack) - 1
         /\ \A i \in 1 .. Len(cstack) - 1 : cstack'[i] = cstack[i]
         /\ Cardinality(Siexecs') = Cardinality(Siexecs)
    BY <1>1, <2>1, <2>3, CDrop, SiexecsFinite
  <2>11. \A i \in 1 .. 2 * b - 1 : cstack'[i] = cstack[i]  BY <2>3, <2>10
  <2>12. Loops(b)' /\ Innermost'.by = "siexec"
    <3>1. \A k \in Nat \ {0} : 2 * k - 1 \in Nat \ {0} /\ (2 * k - 1) % 2 = 1  OBVIOUS
    <3>2. DOMAIN cstack' = 1 .. 2 * b - 1 /\ Len(cstack') = 2 * b - 1  BY <2>3, <2>10
    <3>3. 1 .. 2 * b - 1 \subseteq DOMAIN cstack  BY <2>3, CFacts
    <3>4. \A i \in DOMAIN cstack' : cstack'[i].by = IF i % 2 = 1 THEN "siexec" ELSE "internal"
      BY <2>3, <2>11, <3>2, <3>3 DEF Loops
    <3>5. 2 * b - 1 \in DOMAIN cstack' /\ (2 * b - 1) % 2 = 1 /\ 2 * b - 1 # 0
      BY <2>3, <3>1, <3>2
    <3>6. Innermost'.by = "siexec"  BY <3>2, <3>4, <3>5 DEF Innermost
    <3>7. Cardinality(Siexecs)' = b  BY <2>3, <2>10 DEF Loops
    <3> QED  BY <2>10, <3>2, <3>4, <3>5, <3>6, <3>7 DEF Loops
  <2> QED
    BY <1>1, <1>b, <2>1, <2>2, <2>3, <2>7, <2>8, <2>9, <2>11, <2>12, GoesOn
<1> QED  BY <1>4, <1>5, <1>6, <1>2, <1>3

LEMMA SiexecStep ==
  ASSUME Inv, NEW f \in Fn, NEW args \in Seq(Value), Siexec(f, args)
  PROVE  Inv'
<1>b. PICK b : b = Cardinality(BaseFrames)  OBVIOUS
<1>1. mode = "run" /\ Innermost.by = "internal"  BY DEF Siexec, Innermost
<1>2. CASE EnvSize[f] < Len(args)
  BY <1>2, FaultStep DEF Siexec
<1>3. CASE ~ (EnvSize[f] < Len(args))
  <2>s. PICK st : st = stack  OBVIOUS
  <2>f. PICK fr : fr = [bottom |-> bottom, limit |-> limit + 1, top |-> Len(st),
                        ret |-> NULL, env |-> env]
    OBVIOUS
  <2>c. PICK c : c = [by |-> "siexec", env |-> env, pc |-> pc]  OBVIOUS
  <2>1. /\ stack' = Append(st, fr) /\ bottom' = Len(st) + 1
        /\ limit' = Len(st) + 1 + StackSize[f]
        /\ env' = [fn |-> f, scope |-> 0, args |-> args, rest |-> NULL]
        /\ pc' = <<f, 0>> /\ cstack' = Append(cstack, c)
        /\ UNCHANGED <<mode, again>>
    BY <1>3, <2>s, <2>f, <2>c DEF Siexec, NewFrame
  <2>2. /\ pc # NULL /\ pc \in Fn \X (0 .. Last)
        /\ env \in EnvRecord /\ env.fn = pc[1]
        /\ bottom \in FramePos /\ bottom \in Nat \ {0} /\ bottom <= Len(stack)
        /\ Len(stack) \in Nat /\ Len(stack) <= limit /\ limit \in Nat
        /\ limit = bottom + StackSize[pc[1]]
        /\ Innermost.pops \in Nat /\ Innermost.pops <= Len(stack) - bottom
        /\ ~ Innermost.tail => pc[2] < Last
    BY <1>1, InnerFacts DEF Operands
  <2>3. /\ TypeOK /\ FramesOK /\ Loops(b) /\ b \in Nat \ {0} /\ Len(cstack) = 2 * b
        /\ stack \in Seq(Value \cup FrameRecord)
        /\ again \in ((0 .. MaxArgs) \X BOOLEAN) \cup {NULL}
    BY <1>1, <1>b, <2>2, RunFacts, LoopsFacts DEF TypeOK
  <2>4. c \in Exec /\ c.by = "siexec" /\ c.env = env /\ c.pc = pc
    <3>1. env \in Env /\ pc \in PC  BY <2>2 DEF Env, EnvRecord, PC
    <3> QED  BY <2>c, <3>1 DEF Exec
  <2>5. /\ cstack' \in Seq(Exec \cup Inner)
        /\ Len(cstack') = 2 * b + 1
        /\ \A i \in 1 .. 2 * b : cstack'[i] = cstack[i]
        /\ Innermost' = c /\ cstack'[2 * b + 1] = c
        /\ Cardinality(Siexecs') = b + 1
    <3>1. /\ cstack' \in Seq(Exec \cup Inner)
          /\ Len(cstack') = Len(cstack) + 1
          /\ \A i \in 1 .. Len(cstack) : cstack'[i] = cstack[i]
          /\ Innermost' = c
          /\ Cardinality(Siexecs') = Cardinality(Siexecs) + 1
      BY <2>1, <2>3, <2>4, CPush
    <3>2. Cardinality(Siexecs) = b  BY <2>3 DEF Loops
    <3> QED  BY <2>3, <3>1, <3>2 DEF Innermost
  <2>6. /\ fr \in FrameRecord
        /\ fr.bottom = bottom /\ fr.limit = limit + 1 /\ fr.top = Len(stack) /\ fr.ret = NULL
        /\ fr.env = env
    <3>1. env \in Env /\ NULL \in PC  BY <2>2 DEF Env, EnvRecord, PC
    <3>2. Len(st) = Len(stack) /\ Len(st) \in Nat  BY <2>2, <2>s
    <3>3. bottom \in Nat /\ limit \in Nat  BY <2>2
    <3>4. bottom \in Nat /\ limit + 1 \in Nat  BY <3>3
    <3>5. Len(st) = Len(stack) /\ bottom \in Nat /\ limit + 1 \in Nat /\ Len(st) \in Nat
      BY <3>2, <3>4
    <3> QED  BY <2>f, <3>1, <3>5 DEF FrameRecord
  <2>7. BaseOK(b + 1, fr)'
    <3>1. 2 * (b + 1) - 1 = 2 * b + 1 /\ 2 * (b + 1) - 2 = 2 * b /\ 2 * b \in 1 .. 2 * b /\ b + 1 # 1
      BY <2>3
    <3>2. cstack'[2 * (b + 1) - 1] = c /\ cstack'[2 * (b + 1) - 2] = Innermost
      BY <2>3, <2>5, <3>1 DEF Innermost
    <3>3. Room(bottom, limit + 1, pc[1], 1)
      <4>1. StackSize[pc[1]] \in Nat  BY <2>2
      <4> QED  BY <2>2, <4>1 DEF Room
    <3>4. Suspended(c, Innermost, bottom, limit + 1, Len(stack))
      BY <2>2, <2>4, <3>3 DEF Suspended
    <3>5. PICK in : in = Innermost  OBVIOUS
    <3>6. Suspended(c, in, fr.bottom, fr.limit, fr.top)  BY <2>6, <3>4, <3>5
    <3>7. cstack'[2 * (b + 1) - 2] = in  BY <3>2, <3>5
    <3> QED  BY <2>2, <2>4, <2>6, <3>1, <3>2, <3>6, <3>7 DEF BaseOK, Suspended, Room
  <2>8. /\ FramesOK' /\ bottom' \in FramePos'
        /\ stack' \in Seq(Value \cup FrameRecord) /\ Len(stack') = bottom'
        /\ Cardinality(BaseFrames)' = b + 1
    <3>1. \A i \in 1 .. 2 * b - 1 : cstack'[i] = cstack[i]
      <4>1. \A i \in 1 .. 2 * b - 1 : i \in 1 .. 2 * b  BY <2>3
      <4> QED  BY <2>5, <4>1
    <3>2. /\ st \in Seq(Value \cup FrameRecord) /\ bottom <= Len(st) /\ Len(st) <= Len(stack)
          /\ \A i \in 1 .. Len(st) : st[i] = stack[i]
          /\ fr.top = Len(st) /\ fr.top < fr.limit
      <4>1. st \in Seq(Value \cup FrameRecord) /\ Len(st) = Len(stack)
            /\ \A i \in 1 .. Len(st) : st[i] = stack[i]
        BY <2>3, <2>s
      <4>2. Len(stack) < limit + 1  BY <2>2
      <4> QED  BY <2>2, <2>6, <4>1, <4>2
    <3> QED  BY <1>b, <2>1, <2>2, <2>3, <2>6, <2>7, <3>1, <3>2, PushedFramesOK
  <2>9. /\ bottom' \in Nat \ {0} /\ limit' = bottom' + StackSize[f] + 0 /\ limit' \in Nat
        /\ Len(stack') <= limit'
    <3>1. Len(st) \in Nat /\ StackSize[f] \in Nat  BY <2>2, <2>s
    <3> QED  BY <2>1, <2>8, <3>1
  <2>10. pc' \in Fn \X (0 .. Last) /\ pc' \in PC /\ pc' # NULL /\ pc'[1] = f
    BY <2>1, EntryPoint DEF PC
  <2>11. env' \in EnvRecord /\ env' \in Env /\ env'.fn = pc'[1]
    BY <2>1, <2>10 DEF EnvRecord, Env
  <2>12. TypeOK'
    <3>1. bottom' \in 0 .. Len(stack')  BY <2>8, <2>9
    <3>2. cstack' \in Seq([by : {"siexec"}, env : Env, pc : PC]
                          \cup [by : {"internal"}, pops : Nat, tail : BOOLEAN])
      BY <2>5 DEF Exec, Inner
    <3> QED  BY <1>1, <2>1, <2>3, <2>8, <2>9, <2>10, <2>11, <3>1, <3>2 DEF TypeOK
  <2>13. LoopsOK'
    <3>1. \A i \in DOMAIN cstack' : cstack'[i].by = IF i % 2 = 1 THEN "siexec" ELSE "internal"
      <4>1. \A k \in Nat : (2 * k + 1) % 2 = 1
                          /\ \A i \in 1 .. 2 * k + 1 : i \in 1 .. 2 * k \/ i = 2 * k + 1
        OBVIOUS
      <4>2. DOMAIN cstack' = 1 .. 2 * b + 1 /\ DOMAIN cstack = 1 .. 2 * b  BY <2>3, <2>5, CFacts
      <4>3. \A i \in 1 .. 2 * b : cstack'[i].by = IF i % 2 = 1 THEN "siexec" ELSE "internal"
        BY <2>3, <2>5, <4>2 DEF Loops
      <4> QED  BY <2>3, <2>4, <2>5, <4>1, <4>2, <4>3
    <3>2. Len(cstack') # 0 /\ Len(cstack') = 2 * (b + 1) - 1  BY <2>3, <2>5
    <3>3. Cardinality(Siexecs)' = Cardinality(BaseFrames)' + 0  BY <2>3, <2>5, <2>8
    <3> QED  BY <2>4, <2>5, <2>10, <3>1, <3>2, <3>3 DEF LoopsOK
  <2>14. TopOK'
    <3>1. Room(bottom, limit, pc[1], 0)'  BY <2>9, <2>10 DEF Room
    <3>2. Innermost'.by = "siexec"  BY <2>4, <2>5
    <3> QED  BY <2>8, <2>9, <2>10, <2>11, <3>1, <3>2 DEF TopOK
  <2> QED  BY <2>8, <2>12, <2>13, <2>14 DEF Inv
<1> QED  BY <1>2, <1>3

\* The last call of siexec returns to pynter_run, any other to the function that made it.
LEMMA SiexecEndStep ==
  ASSUME Inv, SiexecEnd
  PROVE  Inv'
<1>b. PICK b : b = Cardinality(BaseFrames)  OBVIOUS
<1>1. /\ mode = "run" /\ Innermost.by = "siexec" /\ pc = NULL
      /\ stack' = IF Operands = 0 THEN stack ELSE Drop(stack, 1)
      /\ limit' = limit - 1
      /\ pc' = Innermost.pc /\ env' = Innermost.env /\ cstack' = Drop(cstack, 1)
      /\ mode' = IF cstack' = <<>> THEN "done" ELSE mode
      /\ UNCHANGED <<bottom, again>>
  BY DEF SiexecEnd, InLoop, Innermost
<1>2. /\ TypeOK /\ FramesOK /\ LoopsOK /\ TopOK /\ b \in Nat
      /\ Len(cstack) \in Nat \ {0} /\ Len(cstack) = 2 * b + 1
      /\ Cardinality(Siexecs) = b + 1
  BY <1>1, <1>b, RunFacts
<1>3. /\ stack \in Seq(Value \cup FrameRecord) /\ Len(stack) \in Nat
      /\ bottom \in Nat /\ bottom <= Len(stack) /\ limit \in Nat
      /\ FramePos \subseteq 1 .. Len(stack)
      /\ \A i \in 1 .. Len(stack) : i > bottom => stack[i] \in Value
  BY <1>2, StackFacts DEF FramesOK
<1>4. Innermost.env \in Env /\ Innermost.pc \in PC
  BY <1>1, <1>2, CFacts DEF Innermost
<1>5. /\ cstack' \in Seq(Exec \cup Inner)
      /\ Len(cstack') = 2 * b
      /\ \A i \in 1 .. 2 * b : cstack'[i] = cstack[i]
      /\ Cardinality(Siexecs') = b
  <2>1. /\ cstack' \in Seq(Exec \cup Inner)
        /\ Len(cstack') = Len(cstack) - 1
        /\ \A i \in 1 .. Len(cstack) - 1 : cstack'[i] = cstack[i]
        /\ Cardinality(Siexecs') = Cardinality(Siexecs) - 1
    BY <1>1, <1>2, CDrop
  <2>2. Len(cstack) - 1 = 2 * b /\ Cardinality(Siexecs) - 1 = b  BY <1>2
  <2> QED  BY <2>1, <2>2
<1>6. /\ stack' \in Seq(Value \cup FrameRecord) /\ bottom <= Len(stack') /\ Len(stack') \in Nat
      /\ Len(stack') = IF bottom = Len(stack) THEN Len(stack) ELSE Len(stack) - 1
      /\ \A i \in 1 .. Len(stack') : stack'[i] = stack[i]
  <2>1. CASE Operands = 0
    <3>1. stack' = stack /\ bottom = Len(stack)  BY <1>1, <1>3, <2>1 DEF Operands
    <3> QED  BY <1>3, <3>1
  <2>2. CASE Operands # 0
    <3>1. stack' = Drop(stack, 1) /\ bottom < Len(stack)  BY <1>1, <1>3, <2>2 DEF Operands
    <3>2. 1 \in 0 .. Len(stack)  BY <1>3, <3>1
    <3>3. /\ stack' \in Seq(Value \cup FrameRecord)
          /\ Len(stack') = Len(stack) - 1
          /\ \A i \in 1 .. Len(stack) - 1 : stack'[i] = stack[i]
      <4>1. PICK S : S = Value \cup FrameRecord  OBVIOUS
      <4>2. stack \in Seq(S)  BY <1>3, <4>1
      <4>3. /\ Drop(stack, 1) \in Seq(S)
            /\ Len(Drop(stack, 1)) = Len(stack) - 1
            /\ \A i \in 1 .. Len(stack) - 1 : Drop(stack, 1)[i] = stack[i]
        BY <3>2, <4>2, Dropped
      <4> QED  BY <3>1, <4>1, <4>3
    <3> QED  BY <1>3, <3>1, <3>3
  <2> QED  BY <2>1, <2>2
<1>7. limit # 0
  <2>1. CASE Len(cstack) = 1  BY <1>1, <1>2, <2>1 DEF TopOK
  <2>2. CASE Len(cstack) # 1
    <3>1. bottom < Len(stack) /\ Len(stack) <= limit  BY <1>1, <1>2, <2>2 DEF TopOK
    <3> QED  BY <1>3, <3>1
  <2> QED  BY <2>1, <2>2
<1>8. TypeOK'
  <2>1. bottom' \in 0 .. Len(stack') /\ limit' \in Nat  BY <1>1, <1>3, <1>6, <1>7
  <2>2. cstack' \in Seq([by : {"siexec"}, env : Env, pc : PC]
                        \cup [by : {"internal"}, pops : Nat, tail : BOOLEAN])
    BY <1>5 DEF Exec, Inner
  <2>3. mode' \in {"run", "done"}  BY <1>1
  <2> QED  BY <1>1, <1>2, <1>4, <1>6, <2>1, <2>2, <2>3 DEF TypeOK
<1>9. ASSUME mode' = "run"  PROVE FramesOK' /\ LoopsOK' /\ TopOK'
  <2>1. b # 0 /\ Len(cstack) # 1
    <3>1. cstack' # <<>>  BY <1>1, <1>9
    <3>2. Len(cstack') # 0  BY <1>5, <3>1, EmptySeq
    <3> QED  BY <1>2, <1>5, <3>2
  <2>2. /\ bottom # 0 /\ bottom < Len(stack) /\ Len(stack) <= limit
        /\ Suspended(Innermost, cstack[Len(cstack) - 1], bottom, limit, Len(stack) - 1)
        /\ bottom \in FramePos
    BY <1>1, <1>2, <2>1 DEF TopOK
  <2>3. FramesOK' /\ FramePos' = FramePos /\ BaseFrames' = BaseFrames
    <3>1. \A i \in 1 .. bottom : stack'[i] = stack[i]  BY <1>3, <1>6
    <3>2. \A i \in 1 .. Len(stack') : i > bottom => stack'[i] \in Value
      <4>1. \A i \in 1 .. Len(stack') : i \in 1 .. Len(stack)  BY <1>3, <1>6
      <4> QED  BY <1>3, <1>6, <4>1
    <3>3. \A i \in 1 .. 2 * Cardinality(BaseFrames) - 1 : cstack'[i] = cstack[i]
      <4>1. \A i \in 1 .. 2 * b - 1 : i \in 1 .. 2 * b  BY <1>2
      <4> QED  BY <1>5, <1>b, <4>1
    <3> QED  BY <1>1, <1>2, <1>6, <3>1, <3>2, <3>3, SameFramesOK
  <2>4. /\ \A i \in DOMAIN cstack' : cstack'[i].by = IF i % 2 = 1 THEN "siexec" ELSE "internal"
        /\ Innermost' = cstack[Len(cstack) - 1] /\ Innermost'.by = "internal"
    <3>1. DOMAIN cstack' = 1 .. 2 * b /\ 1 .. 2 * b \subseteq DOMAIN cstack
      BY <1>2, <1>5, CFacts
    <3>2. \A i \in DOMAIN cstack' : cstack'[i].by = IF i % 2 = 1 THEN "siexec" ELSE "internal"
      BY <1>2, <1>5, <3>1 DEF LoopsOK
    <3>3. 2 * b \in DOMAIN cstack' /\ (2 * b) % 2 = 0 /\ Len(cstack) - 1 = 2 * b
      BY <1>2, <2>1, <3>1
    <3>4. Innermost' = cstack[Len(cstack) - 1]  BY <1>5, <3>1, <3>3 DEF Innermost
    <3>5. Innermost'.by = "internal"  BY <1>5, <3>2, <3>3 DEF Innermost
    <3> QED  BY <3>2, <3>4, <3>5
  <2>5. /\ pc' \in Fn \X (0 .. Last) /\ pc' # NULL /\ env' \in EnvRecord /\ env'.fn = pc'[1]
        /\ limit = bottom + StackSize[pc'[1]] + 1
        /\ Innermost'.pops <= Len(stack) - 1 - bottom
        /\ ~ Innermost'.tail => pc'[2] < Last
    BY <1>1, <2>2, <2>4 DEF Suspended, Room
  <2>6. LoopsOK'
    <3>1. Len(cstack') # 0 /\ Len(cstack') = 2 * b - 0  BY <1>2, <1>5, <2>1
    <3>2. Cardinality(Siexecs)' = Cardinality(BaseFrames)' + 0  BY <1>2, <1>5, <1>b, <2>3
    <3> QED  BY <1>5, <2>4, <2>5, <3>1, <3>2 DEF LoopsOK
  <2>7. TopOK'
    <3>1. limit' = bottom' + StackSize[pc'[1]] + 0
      <4>1. PICK s : s = StackSize[pc'[1]]  OBVIOUS
      <4>2. s \in Nat  BY <2>5, <4>1
      <4>3. limit = bottom + s + 1 /\ limit' = limit - 1 /\ bottom' = bottom  BY <1>1, <2>5, <4>1
      <4>4. limit' = bottom' + s + 0  BY <1>3, <4>2, <4>3
      <4> QED  BY <4>1, <4>4
    <3>2. Room(bottom, limit, pc[1], 0)'  BY <3>1 DEF Room
    <3>3. Len(stack') = Len(stack) - 1  BY <1>3, <1>6, <2>2
    <3>4. Len(stack') <= limit'  BY <1>1, <1>3, <2>2, <3>3
    <3>5. Innermost'.pops <= Operands'  BY <1>1, <1>3, <2>5, <3>3 DEF Operands
    <3> QED  BY <1>1, <2>2, <2>3, <2>4, <2>5, <3>2, <3>4, <3>5 DEF TopOK
  <2> QED  BY <2>3, <2>6, <2>7
<1> QED  BY <1>8, <1>9 DEF Inv

LEMMA RunStep ==
  ASSUME Run
  PROVE  Inv'
<1> DEFINE fr == [bottom |-> 0, limit |-> 1, top |-> 0, ret |-> NULL, env |-> NULL]
           c == [by |-> "siexec", env |-> NULL, pc |-> NULL]
<1>1. /\ stack' = <<fr>> /\ bottom' = 1 /\ limit' = 1 + StackSize[Entry]
      /\ env' = [fn |-> Entry, scope |-> 0, args |-> <<>>, rest |-> NULL]
      /\ pc' = <<Entry, 0>> /\ cstack' = <<c>> /\ mode' = "run" /\ again' = NULL
  BY DEF Run
<1>2. fr \in FrameRecord /\ IsFrame(fr)  BY DEF FrameRecord, PC, Env, IsFrame
<1>3. c \in Exec /\ c.by = "siexec" /\ c.env = NULL  BY DEF Exec, Env, PC
<1>4. fr.ret = NULL /\ fr.top = 0 /\ fr.bottom = 0 /\ fr.limit = 1 /\ fr.env = NULL  OBVIOUS
<1> HIDE DEF fr, c
<1>5. Len(stack') = 1 /\ DOMAIN stack' = {1} /\ stack'[1] = fr
      /\ stack' \in Seq(Value \cup FrameRecord)
  BY <1>1, <1>2
<1>6. Len(cstack') = 1 /\ DOMAIN cstack' = {1} /\ cstack'[1] = c
      /\ cstack' \in Seq(Exec \cup Inner) /\ Innermost' = c
  BY <1>1, <1>3 DEF Innermost
<1>7. FramePos' = {1} /\ BaseFrames' = {1}
  <2>1. FramePos' = {1}  BY <1>2, <1>5 DEF FramePos
  <2> QED  BY <1>4, <1>5, <2>1 DEF BaseFrames
<1>8. Siexecs' = {1}  BY <1>3, <1>6 DEF Siexecs
<1>9. Cardinality(BaseFrames)' = 1 /\ Cardinality(Siexecs)' = 1  BY <1>7, <1>8, FS_Singleton
<1>10. Rank(1)' = 1
  <2>1. {q \in BaseFrames' : q <= 1} = {1}  BY <1>7
  <2> QED  BY <2>1, FS_Singleton DEF Rank
<1>11. pc' \in Fn \X (0 .. Last) /\ pc' # NULL /\ pc' \in PC /\ pc'[1] = Entry
  BY <1>1, EntryPoint DEF PC
<1>12. env' \in EnvRecord /\ env' \in Env /\ env'.fn = Entry
  <2>1. << >> \in Seq(Value)  BY EmptySeq
  <2> QED  BY <1>1, <2>1 DEF EnvRecord, Env
<1>13. StackSize[Entry] \in Nat  OBVIOUS
<1>14. TypeOK'
  <2>1. bottom' \in 0 .. Len(stack') /\ limit' \in Nat  BY <1>1, <1>5, <1>13
  <2>2. cstack' \in Seq([by : {"siexec"}, env : Env, pc : PC]
                        \cup [by : {"internal"}, pops : Nat, tail : BOOLEAN])
    BY <1>6 DEF Exec, Inner
  <2> QED  BY <1>1, <1>5, <1>11, <1>12, <2>1, <2>2 DEF TypeOK
<1>15. FramesOK'
  <2>1. \A p \in FramePos' : p <= bottom' /\ Stretch(p)'  BY <1>1, <1>4, <1>5, <1>7 DEF Stretch
  <2>2. BaseOK(1, fr)'
    <3>1. 2 * 1 - 1 = 1  OBVIOUS
    <3>2. fr.env = cstack'[2 * 1 - 1].env  BY <1>3, <1>4, <1>6, <3>1
    <3> QED  BY <1>4, <3>2 DEF BaseOK
  <2>3. \A p \in BaseFrames' : BaseOK(Rank(p), stack[p])'
    <3>1. BaseOK(Rank(1), stack[1])'  BY <1>5, <1>10, <2>2 DEF BaseOK, Suspended, Room
    <3> QED  BY <1>7, <3>1
  <2> QED  BY <1>7, <2>1, <2>3 DEF FramesOK
<1>16. LoopsOK'
  <2>1. 1 % 2 = 1  OBVIOUS
  <2>2. \A i \in DOMAIN cstack' : cstack'[i].by = IF i % 2 = 1 THEN "siexec" ELSE "internal"
    BY <1>3, <1>6, <2>1
  <2> QED  BY <1>3, <1>6, <1>9, <1>11, <2>2 DEF LoopsOK
<1>17. TopOK'
  <2>1. Room(bottom, limit, pc[1], 0)'  BY <1>1, <1>11, <1>13 DEF Room
  <2> QED  BY <1>1, <1>3, <1>5, <1>6, <1>7, <1>11, <1>12, <1>13, <2>1 DEF TopOK
<1> QED  BY <1>14, <1>15, <1>16, <1>17 DEF Inv

-----------------------------------------------------------------------------
(***************************************************************************)
(* The theorems                                                            *)
(***************************************************************************)

LEMMA InitInv == Init => Inv
<1> SUFFICES ASSUME Init PROVE Inv  OBVIOUS
<1>1. TypeOK  BY DEF Init, TypeOK, PC, Env
<1> QED  BY <1>1 DEF Init, Inv

LEMMA InstructionStep ==
  ASSUME Inv, Instruction
  PROVE  Inv'
<1>1. ASSUME NEW v \in Value, Push(v) \/ Unary(v) \/ Binary(v)  PROVE Inv'
  <2>1. <<v>> \in Seq(Value)  OBVIOUS
  <2> QED  BY <1>1, <2>1, OperateStep DEF Push, Unary, Binary
<1>2. ASSUME Pop \/ StoreElement  PROVE Inv'
  <2>1. << >> \in Seq(Value)  OBVIOUS
  <2> QED  BY <1>2, <2>1, OperateStep DEF Pop, StoreElement
<1>3. ASSUME NEW n \in 0 .. 1, NEW k \in 0 .. Last, Branch(n, k)  PROVE Inv'
  BY <1>3, BranchStep
<1>4. ASSUME NEW s \in 0 .. MaxScope, Scope(s)  PROVE Inv'  BY <1>4, ScopeStep
<1>5. ASSUME NEW n \in 0 .. MaxArgs, NEW tail \in BOOLEAN,
             Call(n, tail) \/ CallInternal(n, tail)
      PROVE  Inv'
  BY <1>5, CallStep, CallInternalStep
<1>6. ASSUME CallAgain  PROVE Inv'  BY <1>6, UnchangedStep DEF CallAgain
<1>7. ASSUME NEW pops \in 0 .. 1, NEW v \in Value, Ret(pops, v)  PROVE Inv'
  BY <1>7, RetStep
<1> QED  BY <1>1, <1>2, <1>3, <1>4, <1>5, <1>6, <1>7 DEF Instruction

LEMMA LibraryStep ==
  ASSUME Inv, Library
  PROVE  Inv'
<1>1. \A args \in Args : args \in Seq(Value)  BY DEF Args
<1>2. ASSUME NEW f \in Fn \ {Entry}, NEW args \in Args, Siexec(f, args)  PROVE Inv'
  BY <1>1, <1>2, SiexecStep
<1> QED  BY <1>2, InternalReturnStep, SiexecEndStep DEF Library

\* The inductive invariant.
LEMMA StepInv == Inv /\ [Next]_vars => Inv'
<1> SUFFICES ASSUME Inv, [Next]_vars PROVE Inv'  OBVIOUS
<1> QED  BY InstructionStep, LibraryStep, RunStep, UnchangedStep DEF Next

LEMMA Invariance == Spec => []Inv
BY InitInv, StepInv, PTL DEF Spec

\* The operand stack holds values and frames, and the registers of the VM what
\* stack.h and vm.c take them to hold.
THEOREM CallTypes == Spec => []TypeOK
<1>1. Inv => TypeOK  BY DEF Inv
<1> QED  BY <1>1, Invariance, PTL

\* No activation reaches the operands or the frames of another: every frame that
\* sistack_new pushes describes the stretch below it until it is taken off.
THEOREM StretchesDisjoint == Spec => []Stretches
<1>1. Inv => Stretches  BY DEF Inv, FramesOK, TopOK, Stretches, Stretch
<1> QED  BY <1>1, Invariance, PTL

\* A main loop that siexec starts ends with the call that it was started for.
THEOREM LoopsNest == Spec => []LoopsMatchFrames
<1>1. Inv => LoopsMatchFrames
  BY DEF Inv, LoopsOK, FramesOK, BaseOK, Rank, LoopsMatchFrames
<1> QED  BY <1>1, Invariance, PTL

\* The result of a return finds room, and no stretch outgrows the stack_size of the
\* function that runs in it.
THEOREM ResultsFindRoom == Spec => []Limits
<1>1. Inv => Limits
  <2> SUFFICES ASSUME Inv, mode = "run"
               PROVE  /\ pc # NULL => /\ env.fn = pc[1]
                                      /\ Room(bottom, limit, pc[1], 0)
                                      /\ Operands <= StackSize[pc[1]]
                      /\ pc = NULL /\ Len(cstack) > 1 =>
                           Room(bottom, limit, cstack[Len(cstack)].pc[1], 1)
                      /\ \A p \in FramePos :
                           LET fr == stack[p]
                           IN  /\ fr.top < fr.limit
                               /\ fr.ret # NULL => /\ fr.env.fn = fr.ret[1]
                                                   /\ Room(fr.bottom, fr.limit, fr.ret[1], 0)
    BY DEF Limits
  <2>1. TypeOK /\ FramesOK /\ TopOK /\ Len(cstack) \in Nat  BY RunFacts
  <2>2. ASSUME pc # NULL
        PROVE  env.fn = pc[1] /\ Room(bottom, limit, pc[1], 0) /\ Operands <= StackSize[pc[1]]
    <3>1. env.fn = pc[1] /\ Room(bottom, limit, pc[1], 0) /\ Len(stack) <= limit
      BY <2>1, <2>2 DEF TopOK
    <3>2. StackSize[pc[1]] \in Nat  BY <2>1, <2>2, PcFacts DEF TypeOK
    <3> QED  BY <2>1, <3>1, <3>2, StackFacts DEF Room, Operands
  <2>3. ASSUME pc = NULL, Len(cstack) > 1
        PROVE  Room(bottom, limit, cstack[Len(cstack)].pc[1], 1)
    <3>1. \A k \in Nat : k > 1 => k # 1  OBVIOUS
    <3>2. Len(cstack) # 1  BY <2>1, <2>3, <3>1
    <3> QED  BY <2>1, <2>3, <3>2 DEF TopOK, Suspended, Innermost
  <2>4. ASSUME NEW p \in FramePos
        PROVE  /\ stack[p].top < stack[p].limit
               /\ stack[p].ret # NULL =>
                    /\ stack[p].env.fn = stack[p].ret[1]
                    /\ Room(stack[p].bottom, stack[p].limit, stack[p].ret[1], 0)
    <3>1. stack[p].top < stack[p].limit  BY <2>1 DEF FramesOK, Stretch
    <3>2. ASSUME stack[p].ret # NULL  PROVE Called(stack[p])
      BY <2>1, <3>2 DEF FramesOK, BaseFrames
    <3> QED  BY <3>1, <3>2 DEF Called
  <2> QED  BY <2>2, <2>3, <2>4
<1> QED  BY <1>1, Invariance, PTL
=============================================================================
