------------------------ MODULE CallStackCalls_proof ------------------------
(***************************************************************************)
(* CallStack implements Calls: frames, stretches of one array, registers   *)
(* and nested main loops do for the code of a program what a sequence of   *)
(* activations does.                                                       *)
(***************************************************************************)
EXTENDS CallStack_proof

-----------------------------------------------------------------------------
(***************************************************************************)
(* The members of a finite set of numbers, in order                        *)
(***************************************************************************)

\* How many members of S there are up to p.
Count(S, p) == Cardinality({q \in S : q <= p})

LEMMA CountFacts ==
  ASSUME NEW S \in SUBSET Nat, IsFiniteSet(S)
  PROVE  /\ Cardinality(S) \in Nat
         /\ \A p \in S : Count(S, p) \in 1 .. Cardinality(S)
         /\ \A p, q \in S : p < q => Count(S, p) < Count(S, q)
         /\ \A p \in S : (\A q \in S : q <= p) => Count(S, p) = Cardinality(S)
<1> DEFINE Low(p) == {q \in S : q <= p}
<1>1. \A p : Low(p) \in SUBSET S  OBVIOUS
<1>2. \A p : Count(S, p) = Cardinality(Low(p))  BY DEF Count
<1>3. \A p \in S : p \in Low(p)  OBVIOUS
<1>4. ASSUME NEW p \in S, NEW q \in S, p < q
      PROVE  Low(p) \in SUBSET Low(q) /\ q \notin Low(p)
  <2>1. p \in Nat /\ q \in Nat /\ \A x \in S : x \in Nat  OBVIOUS
  <2>2. \A x \in S : x <= p => x <= q  BY <1>4, <2>1
  <2>3. ~ (q <= p)  BY <1>4, <2>1
  <2> QED  BY <2>2, <2>3
<1>5. ASSUME NEW p \in S, \A q \in S : q <= p  PROVE Low(p) = S
  BY <1>5
<1> HIDE DEF Low
<1>6. Cardinality(S) \in Nat  BY FS_CardinalityType
<1>7. \A p : IsFiniteSet(Low(p)) /\ Cardinality(Low(p)) <= Cardinality(S)
             /\ Cardinality(Low(p)) \in Nat
  BY <1>1, FS_Subset, FS_CardinalityType
<1>8. ASSUME NEW p \in S  PROVE Count(S, p) \in 1 .. Cardinality(S)
  <2>1. Cardinality(Low(p)) # 0  BY <1>3, <1>7, FS_EmptySet
  <2> QED  BY <1>2, <1>6, <1>7, <2>1
<1>9. ASSUME NEW p \in S, NEW q \in S, p < q  PROVE Count(S, p) < Count(S, q)
  <2>1. Low(p) \in SUBSET Low(q) /\ Low(p) # Low(q)  BY <1>3, <1>4, <1>9
  <2>2. /\ Cardinality(Low(p)) <= Cardinality(Low(q))
        /\ Cardinality(Low(p)) # Cardinality(Low(q))
    BY <1>7, <2>1, FS_Subset
  <2> QED  BY <1>2, <1>7, <2>2
<1> QED  BY <1>2, <1>5, <1>6, <1>8, <1>9

\* The least member is the first, and each other one comes after the greatest below it.
LEMMA CountSteps ==
  ASSUME NEW S \in SUBSET Nat, IsFiniteSet(S), NEW p \in S
  PROVE  /\ (\A q \in S : ~ (q < p)) => Count(S, p) = 1
         /\ \A b \in S : b < p /\ (\A q \in S : q < p => q <= b) =>
              Count(S, p) = Count(S, b) + 1
<1>1. p \in Nat /\ \A x \in S : x \in Nat  OBVIOUS
<1>2. ASSUME \A q \in S : ~ (q < p)  PROVE Count(S, p) = 1
  <2>1. \A q \in S : q <= p <=> q = p  BY <1>1, <1>2
  <2>2. {q \in S : q <= p} = {p}  BY <2>1
  <2> QED  BY <2>2, FS_Singleton DEF Count
<1>3. ASSUME NEW b \in S, b < p, \A q \in S : q < p => q <= b
      PROVE  Count(S, p) = Count(S, b) + 1
  <2> DEFINE B == {q \in S : q <= b}
  <2>1. {q \in S : q <= p} = B \cup {p}
    <3>1. ASSUME NEW q \in S  PROVE q <= p <=> q <= b \/ q = p
      <4>1. q \in Nat /\ b \in Nat  BY <1>1
      <4>2. q < p => q <= b  BY <1>3
      <4> QED  BY <1>1, <1>3, <4>1, <4>2
    <3> QED  BY <3>1
  <2>2. p \notin B /\ B \in SUBSET S  BY <1>1, <1>3
  <2> HIDE DEF B
  <2>3. IsFiniteSet(B)  BY <2>2, FS_Subset
  <2>4. Cardinality(B \cup {p}) = Cardinality(B) + 1  BY <2>2, <2>3, FS_AddElement
  <2> QED  BY <2>1, <2>4 DEF Count, B
<1> QED  BY <1>2, <1>3

\* Every position up to the size of S is that of a member.
LEMMA CountOnto ==
  ASSUME NEW S \in SUBSET Nat, IsFiniteSet(S), NEW i \in 1 .. Cardinality(S)
  PROVE  \E p \in S : Count(S, p) = i
<1> DEFINE T == 1 .. Cardinality(S)
           f == [p \in S |-> Count(S, p)]
<1>1. Cardinality(S) \in Nat /\ \A p \in S : Count(S, p) \in T  BY CountFacts
<1>2. IsFiniteSet(T) /\ Cardinality(T) = Cardinality(S)  BY <1>1, FS_Interval
<1>3. ASSUME NEW p \in S, NEW q \in S, Count(S, p) = Count(S, q)  PROVE p = q
  <2>1. /\ p < q => Count(S, p) < Count(S, q)
        /\ q < p => Count(S, q) < Count(S, p)
    BY CountFacts
  <2>2. Count(S, p) \in T /\ Count(S, q) \in T  BY <1>1
  <2>3. Count(S, p) \in Nat /\ Count(S, q) \in Nat  BY <1>1, <2>2
  <2>4. p \in Nat /\ q \in Nat  OBVIOUS
  <2> QED  BY <1>3, <2>1, <2>3, <2>4
<1>4. f \in [S -> T]  BY <1>1
<1>5. DOMAIN f = S /\ \A p \in S : f[p] = Count(S, p)  OBVIOUS
<1> HIDE DEF f, T
<1>6. f \in Injection(S, T)  BY <1>3, <1>4, <1>5 DEF Injection, IsInjective
<1>7. f \in Surjection(S, T)  BY <1>2, <1>6, FS_Injection
<1>8. i \in T  BY DEF T
<1> QED  BY <1>5, <1>7, <1>8 DEF Surjection

-----------------------------------------------------------------------------
(***************************************************************************)
(* Sequences that differ in their last member                              *)
(***************************************************************************)

\* The start of a sequence of length n + 1.
LEMMA Front ==
  ASSUME NEW S, NEW a \in Seq(S), NEW n \in Nat, Len(a) = n + 1
  PROVE  /\ SubSeq(a, 1, n) \in Seq(S) /\ Len(SubSeq(a, 1, n)) = n
         /\ \A i \in 1 .. n : SubSeq(a, 1, n)[i] = a[i]
<1>1. \A i \in 1 .. n : a[i] \in S  OBVIOUS
<1>2. /\ SubSeq(a, 1, n) \in Seq(S)
      /\ Len(SubSeq(a, 1, n)) = IF 1 <= n THEN n - 1 + 1 ELSE 0
      /\ \A i \in 1 .. n - 1 + 1 : SubSeq(a, 1, n)[i] = a[1 + i - 1]
  BY <1>1, SubSeqProperties
<1>3. n - 1 + 1 = n /\ (~ (1 <= n) => n = 0)  OBVIOUS
<1>4. \A i \in 1 .. n : 1 + i - 1 = i  OBVIOUS
<1> QED  BY <1>2, <1>3, <1>4

LEMMA TopChanged ==
  ASSUME NEW S, NEW a \in Seq(S), NEW b \in Seq(S), NEW n \in Nat,
         Len(a) = n + 1, Len(b) = n + 1, \A i \in 1 .. n : b[i] = a[i]
  PROVE  b = Append(SubSeq(a, 1, n), b[n + 1])
<1> DEFINE c == SubSeq(a, 1, n)
<1>1. c \in Seq(S) /\ Len(c) = n /\ \A i \in 1 .. n : c[i] = a[i]  BY Front
<1> HIDE DEF c
<1>2. b[n + 1] \in S  OBVIOUS
<1>3. /\ Append(c, b[n + 1]) \in Seq(S) /\ Len(Append(c, b[n + 1])) = n + 1
      /\ \A i \in 1 .. n : Append(c, b[n + 1])[i] = c[i]
      /\ Append(c, b[n + 1])[n + 1] = b[n + 1]
  BY <1>1, <1>2, AppendProperties
<1>4. ASSUME NEW i \in 1 .. n + 1  PROVE Append(c, b[n + 1])[i] = b[i]
  <2>1. i \in 1 .. n \/ i = n + 1  OBVIOUS
  <2> QED  BY <1>1, <1>3, <2>1
<1>5. b = Append(c, b[n + 1])  BY <1>3, <1>4, SeqEqual
<1> QED  BY <1>5 DEF c

LEMMA TopAdded ==
  ASSUME NEW S, NEW a \in Seq(S), NEW b \in Seq(S), NEW n \in Nat,
         Len(a) = n + 1, Len(b) = n + 2, \A i \in 1 .. n : b[i] = a[i]
  PROVE  b = Append(Append(SubSeq(a, 1, n), b[n + 1]), b[n + 2])
<1> DEFINE c == SubSeq(b, 1, n + 1)
<1>1. n + 1 \in Nat /\ Len(b) = n + 1 + 1  OBVIOUS
<1>2. c \in Seq(S) /\ Len(c) = n + 1 /\ \A i \in 1 .. n + 1 : c[i] = b[i]  BY <1>1, Front
<1>3. b = Append(c, b[n + 1 + 1])  BY <1>1, TopChanged
<1> HIDE DEF c
<1>4. \A i \in 1 .. n : c[i] = a[i]  BY <1>2
<1>5. c = Append(SubSeq(a, 1, n), c[n + 1])  BY <1>2, <1>4, TopChanged
<1>6. c[n + 1] = b[n + 1] /\ n + 1 + 1 = n + 2  BY <1>2
<1> QED  BY <1>3, <1>5, <1>6


-----------------------------------------------------------------------------
(***************************************************************************)
(* The activations                                                         *)
(***************************************************************************)

\* What siexec will restore is what the register holds when its main loop has ended.
EnvOK ==
  mode = "run" /\ pc = NULL /\ Len(cstack) # 1 => env = Innermost.env

\* While a program runs.
Seen == Inv /\ EnvOK /\ mode = "run"

Waiting(c) == [pops |-> c.pops, tail |-> c.tail]

\* The activation below the frame at q, and the one on top.
Lower(q) ==
  LET fr == stack[q]
      base == fr.ret = NULL
  IN  [pc |-> IF base THEN cstack[2 * Rank(q) - 1].pc ELSE fr.ret,
       env |-> fr.env,
       ops |-> SubSeq(stack, fr.bottom + 1, q - 1),
       lib |-> IF base THEN Waiting(cstack[2 * Rank(q) - 2]) ELSE NULL,
       byLib |-> stack[fr.bottom].ret = NULL]
Upper ==
  [pc |-> IF pc = NULL THEN Innermost.pc ELSE pc,
   env |-> env,
   ops |-> SubSeq(stack, bottom + 1, IF pc = NULL THEN Len(stack) - 1 ELSE Len(stack)),
   lib |-> IF pc = NULL THEN Waiting(cstack[Len(cstack) - 1])
           ELSE IF Innermost.by = "internal" THEN Waiting(Innermost) ELSE NULL,
   byLib |-> stack[bottom].ret = NULL]

\* The place of the frame at p, and so of the activation that it starts.
Place(p) == Count(FramePos, p)
Depth == Cardinality(FramePos)

\* Where each frame is among the others.
FramePlaces ==
  /\ Depth \in Nat
  /\ \A p \in FramePos : /\ p # 0 /\ Place(p) \in 1 .. Depth
                         /\ \A i : i = Place(p) => Nth(i) = p
  /\ \A p \in FramePos : \A b :
       b = stack[p].bottom => IF b = 0 THEN Place(p) = 1 /\ p \in BaseFrames
                              ELSE b \in FramePos /\ b < p /\ Place(p) = Place(b) + 1
  /\ \A i \in 1 .. Depth : \A p : p = Nth(i) => p \in FramePos /\ Place(p) = i
  /\ \A b : b = bottom => IF b = 0 THEN FramePos = {} /\ Depth = 0
                          ELSE b \in FramePos /\ Place(b) = Depth
  /\ \A p \in FramePos : p <= bottom

LEMMA PlacesHold == Seen => FramePlaces
<1> SUFFICES ASSUME Seen PROVE FramePlaces  OBVIOUS
<1>1. TypeOK /\ FramesOK /\ TopOK  BY DEF Seen, Inv
<1>2. /\ FramePos \in SUBSET Nat /\ IsFiniteSet(FramePos) /\ bottom \in Nat
      /\ 0 \notin FramePos
  <2>1. FramePos \subseteq 1 .. Len(stack) /\ Len(stack) \in Nat /\ bottom \in Nat
    BY <1>1, StackFacts
  <2>2. IsFiniteSet(1 .. Len(stack))  BY <2>1, FS_Interval
  <2>3. IsFiniteSet(FramePos)  BY <2>1, <2>2, FS_Subset
  <2>4. FramePos \subseteq Nat /\ 0 \notin FramePos  BY <2>1
  <2> QED  BY <2>1, <2>3, <2>4
<1>3. \A p \in FramePos : p <= bottom /\ Stretch(p)  BY <1>1 DEF FramesOK
<1>4. /\ Depth \in Nat
      /\ \A p \in FramePos : Place(p) \in 1 .. Depth
      /\ \A p, q \in FramePos : p < q => Place(p) < Place(q)
      /\ \A p \in FramePos : (\A q \in FramePos : q <= p) => Place(p) = Depth
  BY <1>2, CountFacts DEF Place, Depth
<1>5. ASSUME NEW p \in FramePos, NEW q \in FramePos, Place(p) = Place(q)  PROVE p = q
  <2>1. p \in Nat /\ q \in Nat  BY <1>2
  <2>2. Place(p) \in Nat /\ Place(q) \in Nat  BY <1>4
  <2>3. ~ (Place(p) < Place(q)) /\ ~ (Place(q) < Place(p))  BY <1>5, <2>2
  <2> QED  BY <1>4, <2>1, <2>3
<1>6. \A i \in 1 .. Depth : Nth(i) \in FramePos /\ Place(Nth(i)) = i
  <2> TAKE i \in 1 .. Depth
  <2>1. \E p \in FramePos : Place(p) = i  BY <1>2, CountOnto DEF Place, Depth
  <2>2. Nth(i) = CHOOSE p \in FramePos : Place(p) = i  BY DEF Nth, Place, Count
  <2> QED  BY <2>1, <2>2
<1>7. \A p \in FramePos : Nth(Place(p)) = p  BY <1>4, <1>5, <1>6
<1>8. ASSUME NEW p \in FramePos
      PROVE  /\ stack[p].bottom = 0 => Place(p) = 1 /\ p \in BaseFrames
             /\ stack[p].bottom # 0 =>
                  /\ stack[p].bottom \in FramePos /\ stack[p].bottom < p
                  /\ Place(p) = Place(stack[p].bottom) + 1
  <2>1. /\ stack[p].bottom \in FramePos \cup {0}
        /\ stack[p].bottom < p
        /\ \A q \in FramePos : q < p => q <= stack[p].bottom
    BY <1>3 DEF Stretch
  <2>2. ASSUME stack[p].bottom = 0  PROVE Place(p) = 1 /\ p \in BaseFrames
    <3>1. \A q \in FramePos : q \in Nat /\ q # 0  BY <1>2
    <3>2. \A q \in FramePos : ~ (q < p)  BY <2>1, <2>2, <3>1
    <3>3. Place(p) = 1  BY <1>2, <3>2, CountSteps DEF Place
    <3>4. p \in BaseFrames  BY <1>1, <2>2 DEF FramesOK, Called
    <3> QED  BY <3>3, <3>4
  <2>3. ASSUME stack[p].bottom # 0
        PROVE  /\ stack[p].bottom \in FramePos /\ stack[p].bottom < p
               /\ Place(p) = Place(stack[p].bottom) + 1
    <3>1. stack[p].bottom \in FramePos  BY <2>1, <2>3
    <3> QED  BY <1>2, <2>1, <3>1, CountSteps DEF Place
  <2> QED  BY <2>2, <2>3
<1>9. bottom = 0 => FramePos = {} /\ Depth = 0
  <2> SUFFICES ASSUME bottom = 0 PROVE FramePos = {} /\ Depth = 0  OBVIOUS
  <2>1. \A p \in FramePos : p \in Nat /\ p # 0 /\ p <= 0  BY <1>2, <1>3
  <2>2. FramePos = {}  BY <2>1
  <2> QED  BY <2>2, FS_EmptySet DEF Depth
<1>10. bottom # 0 => bottom \in FramePos /\ Place(bottom) = Depth
  BY <1>1, <1>3, <1>4 DEF TopOK
<1>11. \A p \in FramePos : p # 0  BY <1>2
<1> QED  BY <1>3, <1>4, <1>6, <1>7, <1>8, <1>9, <1>10, <1>11 DEF FramePlaces

\* The activations, one below each frame but the first, and one on top.
ActsShape ==
  /\ DOMAIN Activations = 1 .. Depth
  /\ \E S : Activations \in Seq(S)
  /\ Len(Activations) = Depth
  /\ \A n, u : n = Depth /\ n # 0 /\ u = Upper => Activations[n] = u
  /\ \A i \in 1 .. Depth - 1 : \A q : q = Nth(i + 1) => Activations[i] = Lower(q)

LEMMA ShapeHolds == Seen => ActsShape
<1> SUFFICES ASSUME Seen PROVE ActsShape  OBVIOUS
<1>1. FramePlaces  BY PlacesHold
<1>2. mode = "run" /\ TypeOK  BY DEF Seen, Inv
<1>3. Activations = [i \in 1 .. Depth |-> Activation(i)]  BY <1>2 DEF Activations, Depth
<1>4. Depth \in Nat  BY <1>1 DEF FramePlaces
<1>5. DOMAIN Activations = 1 .. Depth /\ \A i \in 1 .. Depth : Activations[i] = Activation(i)
  BY <1>3
<1>6. Activations \in Seq({Activation(i) : i \in 1 .. Depth}) /\ Len(Activations) = Depth
  BY <1>3, <1>4
<1>7. ASSUME Depth # 0  PROVE Activation(Depth) = Upper
  <2>1. Nth(Depth) = bottom  BY <1>1, <1>7 DEF FramePlaces
  <2>2. Len(stack) \in Nat /\ Len(cstack) \in Nat  BY <1>2, StackFacts, CFacts
  <2>3. /\ Len(stack) + 1 - 2 = Len(stack) - 1 /\ Len(stack) + 1 - 1 = Len(stack)
        /\ Len(cstack) + 1 - 1 = Len(cstack) /\ Len(cstack) + 0 - 1 = Len(cstack) - 1
        /\ Len(cstack) + 0 = Len(cstack)
    BY <2>2
  <2>4. CASE pc = NULL
    BY <2>1, <2>3, <2>4 DEF Activation, Upper, Depth, Innermost, Waiting
  <2>5. CASE pc # NULL
    BY <2>1, <2>3, <2>5 DEF Activation, Upper, Depth, Innermost, Waiting
  <2> QED  BY <2>4, <2>5
<1>8. ASSUME NEW i \in 1 .. Depth - 1  PROVE Activation(i) = Lower(Nth(i + 1))
  <2>1. i \in 1 .. Depth /\ i + 1 \in 1 .. Depth /\ i # Depth /\ i + 1 # 1  BY <1>4
  <2>2. PICK p : p = Nth(i)  OBVIOUS
  <2>3. PICK q : q = Nth(i + 1)  OBVIOUS
  <2>4. q \in FramePos /\ Place(q) = i + 1 /\ p \in FramePos /\ Place(p) = i
    BY <1>1, <2>1, <2>2, <2>3 DEF FramePlaces
  <2>5. stack[q].bottom \in FramePos /\ Place(q) = Place(stack[q].bottom) + 1
    BY <1>1, <2>1, <2>4 DEF FramePlaces
  <2>6. Place(stack[q].bottom) = i
    <3>1. Place(stack[q].bottom) \in Nat  BY <1>1, <2>5 DEF FramePlaces
    <3> QED  BY <2>1, <2>4, <2>5, <3>1
  <2>7. stack[q].bottom = p  BY <1>1, <2>2, <2>5, <2>6 DEF FramePlaces
  <2>8. ReturnsTo(q) = Rank(q)  BY DEF ReturnsTo, Rank
  <2>9. \A k \in Nat : 2 * k - 1 - 1 = 2 * k - 2  OBVIOUS
  <2>10. CASE stack[q].ret = NULL
    <3>1. q \in BaseFrames  BY <2>4, <2>10 DEF BaseFrames
    <3>2. 2 * Rank(q) - 1 - 1 = 2 * Rank(q) - 2  BY <1>2, <2>9, <3>1, RankFacts
    <3> QED
      BY <2>1, <2>2, <2>3, <2>7, <2>8, <2>10, <3>2 DEF Activation, Lower, Depth, Waiting
  <2>11. CASE stack[q].ret # NULL
    BY <2>1, <2>2, <2>3, <2>7, <2>8, <2>11 DEF Activation, Lower, Depth
  <2> QED  BY <2>3, <2>10, <2>11
<1> QED
  <2>1. \A i \in 1 .. Depth - 1 : i \in 1 .. Depth  BY <1>4
  <2>2. Depth # 0 => Depth \in 1 .. Depth  BY <1>4
  <2> QED  BY <1>5, <1>6, <1>7, <1>8, <2>1, <2>2 DEF ActsShape


LEMMA ShapeNext == Seen' => FramePlaces' /\ ActsShape'
<1>1. Seen => FramePlaces /\ ActsShape  BY PlacesHold, ShapeHolds
<1> QED  BY <1>1, PTL

LEMMA SamePart ==
  ASSUME NEW s, NEW t, NEW a \in Int, NEW b \in Int, \A i \in a .. b : s[i] = t[i]
  PROVE  SubSeq(s, a, b) = SubSeq(t, a, b)
<1> DEFINE S == {s[i] : i \in a .. b}
           u == SubSeq(s, a, b)
           v == SubSeq(t, a, b)
<1>1. \A i \in a .. b : s[i] \in S /\ t[i] \in S  OBVIOUS
<1> HIDE DEF S
<1>2. /\ u \in Seq(S) /\ Len(u) = IF a <= b THEN b - a + 1 ELSE 0
      /\ \A i \in 1 .. b - a + 1 : u[i] = s[a + i - 1]
  BY <1>1, SubSeqProperties
<1>3. /\ v \in Seq(S) /\ Len(v) = IF a <= b THEN b - a + 1 ELSE 0
      /\ \A i \in 1 .. b - a + 1 : v[i] = t[a + i - 1]
  BY <1>1, SubSeqProperties
<1> HIDE DEF u, v
<1>4. ASSUME NEW i \in 1 .. Len(u)  PROVE u[i] = v[i]
  <2>1. i \in 1 .. b - a + 1 /\ a + i - 1 \in a .. b  BY <1>2
  <2> QED  BY <1>2, <1>3, <2>1
<1>5. u = v  BY <1>2, <1>3, <1>4, SeqEqual
<1> QED  BY <1>5 DEF u, v

\* The stack stays below m and the C stack below 2c: so do the activations below the
\* frames that are there.
LEMMA LowerKept ==
  ASSUME Seen, Seen', NEW m \in Nat, m <= Len(stack), m <= Len(stack'),
         \A i \in 1 .. m : stack'[i] = stack[i],
         NEW c \in Nat, \A i \in 1 .. 2 * c - 1 : cstack'[i] = cstack[i],
         NEW q \in FramePos, q <= m, q \in BaseFrames => Rank(q) <= c
  PROVE  /\ q \in FramePos' /\ Place(q)' = Place(q) /\ stack'[q] = stack[q]
         /\ stack[q].bottom # 0 => Lower(q)' = Lower(q)
<1>1. /\ DOMAIN stack = 1 .. Len(stack) /\ DOMAIN stack' = 1 .. Len(stack')
      /\ Len(stack) \in Nat /\ Len(stack') \in Nat /\ TypeOK
      /\ FramePos \subseteq 1 .. Len(stack)
  <2>1. TypeOK /\ TypeOK'  BY DEF Seen, Inv
  <2>2. stack \in Seq(Value \cup FrameRecord) /\ stack' \in Seq(Value \cup FrameRecord)
    BY <2>1 DEF TypeOK
  <2> QED  BY <2>1, <2>2, StackFacts
<1>2. FramePlaces  BY PlacesHold
<1>3. q \in 1 .. m /\ stack'[q] = stack[q]  BY <1>1
<1>4. \A x \in 1 .. m : x \in FramePos' <=> x \in FramePos
  <2> TAKE x \in 1 .. m
  <2>1. x \in DOMAIN stack /\ x \in DOMAIN stack' /\ stack'[x] = stack[x]  BY <1>1
  <2> QED  BY <2>1 DEF FramePos
<1>5. ASSUME NEW x, x <= q, x \in FramePos \/ x \in FramePos'  PROVE x \in 1 .. m
  <2>1. FramePos \subseteq DOMAIN stack /\ FramePos' \subseteq DOMAIN stack'  BY DEF FramePos
  <2>2. x \in 1 .. Len(stack) \/ x \in 1 .. Len(stack')  BY <1>1, <1>5, <2>1
  <2>3. x \in Nat /\ 1 <= x  BY <1>1, <2>2
  <2>4. x <= q /\ q <= m /\ q \in Nat  BY <1>3, <1>5
  <2> QED  BY <2>3, <2>4
<1>6. Place(q)' = Place(q)
  <2>1. {x \in FramePos : x <= q}' = {x \in FramePos : x <= q}  BY <1>4, <1>5
  <2> QED  BY <2>1 DEF Place, Count
<1>7. Rank(q)' = Rank(q)
  <2>1. \A x : x <= q => (x \in BaseFrames' <=> x \in BaseFrames)
    BY <1>4, <1>5 DEF BaseFrames
  <2> QED  BY <2>1, RankKept
<1>8. ASSUME stack[q].bottom # 0  PROVE Lower(q)' = Lower(q)
  <2>1. PICK b : b = stack[q].bottom  OBVIOUS
  <2>2. b \in FramePos /\ b < q /\ b \in 1 .. m
    <3>1. b \in FramePos /\ b < q  BY <1>2, <1>8, <2>1 DEF FramePlaces
    <3>2. b \in Nat /\ b # 0 /\ q \in Nat  BY <1>1, <3>1
    <3> QED  BY <1>3, <3>1, <3>2
  <2>3. stack'[b] = stack[b]  BY <2>2
  <2>4. SubSeq(stack', b + 1, q - 1) = SubSeq(stack, b + 1, q - 1)
    <3>1. b + 1 \in Int /\ q - 1 \in Int  BY <1>3, <2>2
    <3>2. \A i \in b + 1 .. q - 1 : i \in 1 .. m  BY <1>3, <2>2
    <3> QED  BY <3>1, <3>2, SamePart
  <2>5. CASE stack[q].ret # NULL
    BY <1>3, <2>1, <2>3, <2>4, <2>5 DEF Lower
  <2>6. CASE stack[q].ret = NULL
    <3>1. q \in BaseFrames  BY <2>6 DEF BaseFrames
    <3>2. PICK j : j = Rank(q)  OBVIOUS
    <3>3. j \in Nat \ {0} /\ j <= c  BY <1>1, <3>1, <3>2, RankFacts
    <3>4. j # 1
      <4>1. BaseOK(j, stack[q])  BY <3>1, <3>2 DEF Seen, Inv, FramesOK
      <4> QED  BY <1>8, <4>1 DEF BaseOK
    <3>5. cstack'[2 * j - 1] = cstack[2 * j - 1] /\ cstack'[2 * j - 2] = cstack[2 * j - 2]
      <4>1. 2 * j - 1 \in 1 .. 2 * c - 1 /\ 2 * j - 2 \in 1 .. 2 * c - 1  BY <3>3, <3>4
      <4> QED  BY <4>1
    <3>6. Rank(q)' = j  BY <1>7, <3>2
    <3> QED
      BY <1>3, <2>1, <2>3, <2>4, <2>6, <3>2, <3>5, <3>6 DEF Lower, Waiting
  <2> QED  BY <2>5, <2>6
<1> QED  BY <1>3, <1>4, <1>6, <1>8

LEMMA ActsKept ==
  ASSUME Seen, Seen', NEW m \in Nat, m <= Len(stack), m <= Len(stack'),
         \A i \in 1 .. m : stack'[i] = stack[i],
         NEW c \in Nat, \A i \in 1 .. 2 * c - 1 : cstack'[i] = cstack[i],
         \A q \in BaseFrames : q <= m => Rank(q) <= c,
         NEW i \in 1 .. Depth - 1, i <= Depth' - 1,
         NEW q, q = Nth(i + 1), q <= m
  PROVE  Activations'[i] = Activations[i]
<1>1. FramePlaces /\ ActsShape /\ FramePlaces' /\ ActsShape'
  BY PlacesHold, ShapeHolds, ShapeNext
<1>2. Depth \in Nat /\ Depth' \in Nat  BY <1>1 DEF FramePlaces
<1>3. i \in Nat /\ i + 1 \in 1 .. Depth /\ i + 1 # 1 /\ i \in 1 .. Depth' - 1
  <2>1. \A d, e \in Nat : \A k \in 1 .. d - 1 :
          k <= e - 1 => k \in Nat /\ k + 1 \in 1 .. d /\ k + 1 # 1 /\ k \in 1 .. e - 1
    OBVIOUS
  <2> QED  BY <1>2, <2>1
<1>4. q \in FramePos /\ Place(q) = i + 1  BY <1>1, <1>3 DEF FramePlaces
<1>5. stack[q].bottom # 0  BY <1>1, <1>3, <1>4 DEF FramePlaces
<1>6. q \in FramePos' /\ Place(q)' = i + 1 /\ Lower(q)' = Lower(q)
  BY <1>4, <1>5, LowerKept
<1>7. Nth(i + 1)' = q
  <2>1. \A j : j = Place(q)' => Nth(j)' = q  BY <1>1, <1>6 DEF FramePlaces
  <2> QED  BY <1>6, <2>1
<1>8. Activations[i] = Lower(q)  BY <1>1 DEF ActsShape
<1>9. Activations'[i] = Lower(q)'  BY <1>1, <1>3, <1>7 DEF ActsShape
<1> QED  BY <1>6, <1>8, <1>9


-----------------------------------------------------------------------------
(***************************************************************************)
(* What calls and returns do to the activations                            *)
(***************************************************************************)

LEMMA TopFacts ==
  ASSUME Seen, bottom # 0
  PROVE  /\ Depth \in Nat \ {0} /\ Depth - 1 \in Nat
         /\ \E S : Activations \in Seq(S)
         /\ Len(Activations) = Depth /\ Activations[Depth] = Upper
         /\ bottom \in FramePos /\ bottom \in Nat /\ Place(bottom) = Depth
         /\ bottom <= Len(stack) /\ Len(stack) \in Nat
<1>1. FramePlaces /\ ActsShape  BY PlacesHold, ShapeHolds
<1>2. bottom \in FramePos /\ Place(bottom) = Depth /\ Depth \in Nat /\ Place(bottom) \in 1 .. Depth
  BY <1>1 DEF FramePlaces
<1>3. Depth # 0 /\ Depth - 1 \in Nat  BY <1>2
<1>4. bottom \in Nat /\ bottom <= Len(stack) /\ Len(stack) \in Nat
  BY StackFacts DEF Seen, Inv
<1> QED  BY <1>1, <1>2, <1>3, <1>4 DEF ActsShape

LEMMA BaseRanks ==
  ASSUME Seen, NEW c \in Nat, c = Cardinality(BaseFrames)
  PROVE  \A q \in BaseFrames : Rank(q) <= c
BY RankFacts DEF Seen, Inv

\* The frames below the top stay: so do all activations but the last.
LEMMA TopMoves ==
  ASSUME Seen, Seen', bottom # 0, bottom' = bottom, bottom <= Len(stack'),
         \A i \in 1 .. bottom : stack'[i] = stack[i],
         NEW c \in Nat, c = Cardinality(BaseFrames),
         \A i \in 1 .. 2 * c - 1 : cstack'[i] = cstack[i]
  PROVE  Depth' = Depth /\ Activations' = Append(SubSeq(Activations, 1, Depth - 1), Upper')
<1>1. FramePlaces /\ ActsShape /\ FramePlaces' /\ ActsShape'
  BY PlacesHold, ShapeHolds, ShapeNext
<1>2. /\ Depth \in Nat \ {0} /\ Depth - 1 \in Nat
      /\ bottom \in FramePos /\ bottom \in Nat /\ Place(bottom) = Depth
      /\ bottom <= Len(stack) /\ Len(stack) \in Nat
  BY TopFacts
<1>3. \A q \in BaseFrames : Rank(q) <= c  BY BaseRanks
<1>4. bottom \in FramePos' /\ Place(bottom)' = Depth
  <2>1. PICK q : q = bottom  OBVIOUS
  <2>2. q \in FramePos' /\ Place(q)' = Place(q)  BY <1>2, <1>3, <2>1, LowerKept
  <2>3. Place(bottom)' = Place(q)'
    <3>1. bottom' = q  BY <2>1
    <3> QED  BY <3>1 DEF Place, Count
  <2> QED  BY <1>2, <2>1, <2>2, <2>3
<1>5. Depth' = Depth
  <2>1. PICK q : q = bottom'  OBVIOUS
  <2>2. q # 0 /\ Place(q)' = Depth'  BY <1>1, <2>1 DEF FramePlaces
  <2>3. Place(q)' = Place(bottom)'  BY <2>1 DEF Place, Count
  <2> QED  BY <1>4, <2>2, <2>3
<1>6. ASSUME NEW i \in 1 .. Depth - 1  PROVE Activations'[i] = Activations[i]
  <2>1. PICK q : q = Nth(i + 1)  OBVIOUS
  <2>2. i + 1 \in 1 .. Depth  BY <1>2
  <2>3. q <= bottom  BY <1>1, <2>1, <2>2 DEF FramePlaces
  <2>4. i <= Depth' - 1  BY <1>2, <1>5
  <2> QED  BY <1>2, <1>3, <2>1, <2>3, <2>4, ActsKept
<1>7. PICK S1 : Activations \in Seq(S1)  BY <1>1 DEF ActsShape
<1>8. PICK S2 : Activations' \in Seq(S2)  BY <1>1 DEF ActsShape
<1>9. PICK n : n = Depth - 1  OBVIOUS
<1>10. n \in Nat /\ Depth = n + 1  BY <1>2, <1>9
<1>11. Len(Activations) = n + 1 /\ Len(Activations') = n + 1 /\ Activations'[n + 1] = Upper'
  BY <1>1, <1>2, <1>5, <1>10 DEF ActsShape
<1>12. Activations' = Append(SubSeq(Activations, 1, n), Activations'[n + 1])
  <2> DEFINE S == S1 \cup S2
  <2>1. Activations \in Seq(S) /\ Activations' \in Seq(S)  BY <1>7, <1>8
  <2> HIDE DEF S
  <2>2. \A i \in 1 .. n : Activations'[i] = Activations[i]  BY <1>6, <1>9
  <2> QED  BY <1>10, <1>11, <2>1, <2>2, TopChanged
<1> QED  BY <1>5, <1>9, <1>11, <1>12

\* A frame is pushed.
LEMMA FrameComes ==
  ASSUME Seen, Seen', bottom # 0, NEW new \in Nat, bottom' = new, bottom < new,
         new <= Len(stack'), stack'[new].bottom = bottom,
         \A i \in 1 .. bottom : stack'[i] = stack[i],
         NEW c \in Nat, c = Cardinality(BaseFrames),
         \A i \in 1 .. 2 * c - 1 : cstack'[i] = cstack[i]
  PROVE  /\ Depth' = Depth + 1
         /\ Activations' =
              Append(Append(SubSeq(Activations, 1, Depth - 1), Lower(new)'), Upper')
<1>1. FramePlaces /\ ActsShape /\ FramePlaces' /\ ActsShape'
  BY PlacesHold, ShapeHolds, ShapeNext
<1>2. /\ Depth \in Nat \ {0} /\ Depth - 1 \in Nat
      /\ bottom \in FramePos /\ bottom \in Nat /\ Place(bottom) = Depth
      /\ bottom <= Len(stack) /\ Len(stack) \in Nat
  BY TopFacts
<1>3. \A q \in BaseFrames : Rank(q) <= c  BY BaseRanks
<1>4. bottom <= Len(stack')
  <2>1. Len(stack') \in Nat
    <3>1. TypeOK'  BY DEF Seen, Inv
    <3>2. stack' \in Seq(Value \cup FrameRecord)  BY <3>1 DEF TypeOK
    <3> QED  BY <3>2
  <2> QED  BY <1>2, <2>1
<1>5. PICK b : b = bottom  OBVIOUS
<1>6. b \in FramePos' /\ Place(b)' = Depth  BY <1>2, <1>3, <1>4, <1>5, LowerKept
<1>7. new # 0 /\ b # 0  BY <1>2, <1>5
<1>8. new \in FramePos' /\ Place(new)' = Depth'  BY <1>1, <1>7 DEF FramePlaces
<1>9. Place(new)' = Place(b)' + 1
  <2>1. b = stack'[new].bottom  BY <1>5
  <2> QED  BY <1>1, <1>7, <1>8, <2>1 DEF FramePlaces
<1>10. Depth' = Depth + 1  BY <1>6, <1>8, <1>9
<1>11. ASSUME NEW i \in 1 .. Depth - 1  PROVE Activations'[i] = Activations[i]
  <2>1. PICK q : q = Nth(i + 1)  OBVIOUS
  <2>2. i + 1 \in 1 .. Depth  BY <1>2
  <2>3. q <= bottom  BY <1>1, <2>1, <2>2 DEF FramePlaces
  <2>4. i <= Depth' - 1  BY <1>2, <1>10
  <2> QED  BY <1>2, <1>3, <1>4, <2>1, <2>3, <2>4, ActsKept
<1>12. PICK S1 : Activations \in Seq(S1)  BY <1>1 DEF ActsShape
<1>13. PICK S2 : Activations' \in Seq(S2)  BY <1>1 DEF ActsShape
<1>14. PICK n : n = Depth - 1  OBVIOUS
<1>15. n \in Nat /\ Depth = n + 1 /\ Depth' = n + 2  BY <1>2, <1>10, <1>14
<1>16. Len(Activations) = n + 1 /\ Len(Activations') = n + 2 /\ Activations'[n + 2] = Upper'
  <2>1. n + 2 # 0  BY <1>15
  <2> QED  BY <1>1, <1>15, <2>1 DEF ActsShape
<1>17. Activations'[n + 1] = Lower(new)'
  <2>1. Nth(n + 2)' = new  BY <1>1, <1>8, <1>15 DEF FramePlaces
  <2>2. n + 1 \in 1 .. n + 2 - 1 /\ n + 1 + 1 = n + 2  BY <1>15
  <2>3. \A i \in 1 .. Depth' - 1 : \A q : q = Nth(i + 1)' => Activations'[i] = Lower(q)'
    BY <1>1 DEF ActsShape
  <2>4. \A i \in 1 .. n + 2 - 1 : \A q : q = Nth(i + 1)' => Activations'[i] = Lower(q)'
    BY <1>15, <2>3
  <2>5. Nth(n + 1 + 1)' = new  BY <2>1, <2>2
  <2> QED  BY <2>2, <2>4, <2>5
<1>18. Activations' = Append(Append(SubSeq(Activations, 1, n), Activations'[n + 1]),
                             Activations'[n + 2])
  <2> DEFINE S == S1 \cup S2
  <2>1. Activations \in Seq(S) /\ Activations' \in Seq(S)  BY <1>12, <1>13
  <2> HIDE DEF S
  <2>2. \A i \in 1 .. n : Activations'[i] = Activations[i]  BY <1>11, <1>14
  <2> QED  BY <1>15, <1>16, <2>1, <2>2, TopAdded
<1> QED  BY <1>10, <1>14, <1>16, <1>17, <1>18


\* The last frame goes: the activation below it is on top.
LEMMA FrameGoes ==
  ASSUME Seen, Seen', bottom # 0, bottom' = stack[bottom].bottom,
         bottom - 1 <= Len(stack'),
         \A i \in 1 .. bottom - 1 : stack'[i] = stack[i],
         NEW c \in Nat, \A q \in BaseFrames : q <= bottom - 1 => Rank(q) <= c,
         \A i \in 1 .. 2 * c - 1 : cstack'[i] = cstack[i]
  PROVE  /\ bottom' = 0 => Depth = 1 /\ Activations' = <<>>
         /\ bottom' # 0 => /\ Depth - 2 \in Nat
                           /\ Activations[Depth - 1] = Lower(bottom)
                           /\ Activations' = Append(SubSeq(Activations, 1, Depth - 2), Upper')
<1>1. FramePlaces /\ ActsShape /\ FramePlaces' /\ ActsShape'
  BY PlacesHold, ShapeHolds, ShapeNext
<1>2. /\ Depth \in Nat \ {0} /\ Depth - 1 \in Nat
      /\ bottom \in FramePos /\ bottom \in Nat /\ Place(bottom) = Depth
      /\ bottom <= Len(stack) /\ Len(stack) \in Nat
  BY TopFacts
<1>3. PICK m : m = bottom - 1  OBVIOUS
<1>4. m \in Nat /\ m <= Len(stack) /\ m <= Len(stack') /\ bottom = m + 1  BY <1>2, <1>3
<1>5. PICK b : b = stack[bottom].bottom  OBVIOUS
<1>6. CASE b = 0
  <2>1. Depth = 1  BY <1>1, <1>2, <1>5, <1>6 DEF FramePlaces
  <2>2. Depth' = 0  BY <1>1, <1>5, <1>6 DEF FramePlaces
  <2>3. Activations' = <<>>
    <3>1. PICK S : Activations' \in Seq(S)  BY <1>1 DEF ActsShape
    <3>2. Len(Activations') = 0  BY <1>1, <2>2 DEF ActsShape
    <3> QED  BY <3>1, <3>2, EmptySeq
  <2> QED  BY <1>5, <1>6, <2>1, <2>3
<1>7. CASE b # 0
  <2>1. b \in FramePos /\ b < bottom /\ Depth = Place(b) + 1 /\ Place(b) \in 1 .. Depth
    BY <1>1, <1>2, <1>5, <1>7 DEF FramePlaces
  <2>2. b <= m
    <3>1. b \in Nat
      <4>1. FramePos \subseteq 1 .. Len(stack)  BY StackFacts DEF Seen, Inv
      <4> QED  BY <1>2, <2>1, <4>1
    <3> QED  BY <1>4, <2>1, <3>1
  <2>3. \A q \in BaseFrames : q <= m => Rank(q) <= c  BY <1>3
  <2>4. \A i \in 1 .. m : stack'[i] = stack[i]  BY <1>3
  <2>5. b \in FramePos' /\ Place(b)' = Place(b)  BY <1>4, <2>1, <2>2, <2>3, <2>4, LowerKept
  <2>6. Place(b)' = Depth'  BY <1>1, <1>5, <1>7 DEF FramePlaces
  <2>7. PICK n : n = Depth - 2  OBVIOUS
  <2>8. n \in Nat /\ Depth = n + 2 /\ Depth' = n + 1
    <3>1. PICK k : k = Place(b)  OBVIOUS
    <3>2. k \in 1 .. Depth /\ Depth = k + 1 /\ Depth' = k  BY <2>1, <2>5, <2>6, <3>1
    <3>3. k \in Nat \ {0}  BY <1>2, <3>2
    <3> QED  BY <2>7, <3>2, <3>3
  <2>9. ASSUME NEW i \in 1 .. n  PROVE Activations'[i] = Activations[i]
    <3>1. PICK q : q = Nth(i + 1)  OBVIOUS
    <3>2. /\ i + 1 \in 1 .. Depth /\ i + 1 # Depth
          /\ i \in 1 .. Depth - 1 /\ i <= Depth' - 1
      BY <2>8
    <3>3. q \in FramePos /\ Place(q) = i + 1 /\ q <= bottom
      BY <1>1, <3>1, <3>2 DEF FramePlaces
    <3>4. q # bottom  BY <1>2, <3>2, <3>3
    <3>5. q \in Nat
      <4>1. FramePos \subseteq 1 .. Len(stack)  BY StackFacts DEF Seen, Inv
      <4> QED  BY <1>2, <3>3, <4>1
    <3>6. q <= m  BY <1>4, <3>3, <3>4, <3>5
    <3> QED  BY <1>4, <2>3, <2>4, <3>1, <3>2, <3>6, ActsKept
  <2>10. PICK S1 : Activations \in Seq(S1)  BY <1>1 DEF ActsShape
  <2>11. PICK S2 : Activations' \in Seq(S2)  BY <1>1 DEF ActsShape
  <2>12. Len(Activations) = n + 2 /\ Len(Activations') = n + 1 /\ Activations'[n + 1] = Upper'
    <3>1. n + 1 # 0  BY <2>8
    <3> QED  BY <1>1, <2>8, <3>1 DEF ActsShape
  <2>13. Activations[n + 1] = Lower(bottom)
    <3>1. n + 1 \in 1 .. Depth - 1 /\ n + 1 + 1 = Depth  BY <2>8
    <3>2. Nth(Depth) = bottom  BY <1>1, <1>2 DEF FramePlaces
    <3>3. \A i \in 1 .. Depth - 1 : \A q : q = Nth(i + 1) => Activations[i] = Lower(q)
      BY <1>1 DEF ActsShape
    <3>4. bottom = Nth(n + 1 + 1)  BY <3>1, <3>2
    <3> QED  BY <3>1, <3>3, <3>4
  <2>14. Activations' = Append(SubSeq(Activations, 1, n), Activations'[n + 1])
    <3> DEFINE S == S1 \cup S2
               a == SubSeq(Activations, 1, n + 1)
    <3>1. Activations \in Seq(S) /\ Activations' \in Seq(S)  BY <2>10, <2>11
    <3> HIDE DEF S
    <3>2. n + 1 \in Nat /\ Len(Activations) = n + 1 + 1  BY <2>8, <2>12
    <3>3. a \in Seq(S) /\ Len(a) = n + 1 /\ \A i \in 1 .. n + 1 : a[i] = Activations[i]
      BY <3>1, <3>2, Front
    <3>4. SubSeq(a, 1, n) = SubSeq(Activations, 1, n)
      <4>1. \A i \in 1 .. n : a[i] = Activations[i]  BY <2>8, <3>3
      <4> HIDE DEF a
      <4> QED  BY <2>8, <4>1, SamePart
    <3> HIDE DEF a
    <3>5. \A i \in 1 .. n : Activations'[i] = a[i]  BY <2>8, <2>9, <3>3
    <3>6. Activations' = Append(SubSeq(a, 1, n), Activations'[n + 1])
      BY <2>8, <2>12, <3>1, <3>3, <3>5, TopChanged
    <3> QED  BY <3>4, <3>6
  <2>15. Depth - 1 = n + 1  BY <2>8
  <2> QED  BY <1>5, <1>7, <2>7, <2>8, <2>12, <2>13, <2>14, <2>15
<1> QED  BY <1>6, <1>7

-----------------------------------------------------------------------------
(***************************************************************************)
(* The actions of Calls                                                    *)
(***************************************************************************)

\* Activations are records.
IsAct(t) == t = [pc |-> t.pc, env |-> t.env, ops |-> t.ops, lib |-> t.lib, byLib |-> t.byLib]

LEMMA UpperAct ==
  /\ IsAct(Upper)
  /\ Upper.pc = IF pc = NULL THEN Innermost.pc ELSE pc
  /\ Upper.env = env
  /\ Upper.ops = SubSeq(stack, bottom + 1, IF pc = NULL THEN Len(stack) - 1 ELSE Len(stack))
  /\ Upper.lib = IF pc = NULL THEN Waiting(cstack[Len(cstack) - 1])
                 ELSE IF Innermost.by = "internal" THEN Waiting(Innermost) ELSE NULL
  /\ Upper.byLib = (stack[bottom].ret = NULL)
BY DEF Upper, IsAct

\* n + 1 activations, t the last one.
Stacked(n, t) ==
  /\ n \in Nat
  /\ \E S : Activations \in Seq(S)
  /\ Len(Activations) = n + 1
  /\ Activations[n + 1] = t

LEMMA StackedTop ==
  ASSUME Seen, bottom # 0
  PROVE  Stacked(Depth - 1, Upper)
<1>1. Depth \in Nat \ {0} /\ Depth - 1 \in Nat /\ Depth - 1 + 1 = Depth  BY TopFacts
<1> QED  BY <1>1, TopFacts DEF Stacked

LEMMA StackedFacts ==
  ASSUME NEW n, NEW t, Stacked(n, t)
  PROVE  /\ ActivationView!Top = t
         /\ Activations # <<>>
         /\ Len(Activations) = n + 1 /\ Len(Activations) - 1 = n /\ n \in Nat
         /\ ActivationView!Below = SubSeq(Activations, 1, n)
         /\ \A u : ActivationView!WithTop(u) = Append(SubSeq(Activations, 1, n), u)
         /\ \A u : Len(Append(SubSeq(Activations, 1, n), u)) = n + 1
                   /\ Append(SubSeq(Activations, 1, n), u)[n + 1] = u
         /\ \A u, v : Len(Append(Append(SubSeq(Activations, 1, n), u), v)) = n + 2
                      /\ Append(Append(SubSeq(Activations, 1, n), u), v)[n + 2] = v
<1>1. n \in Nat /\ Len(Activations) = n + 1 /\ Activations[n + 1] = t
  BY DEF Stacked
<1>2. PICK S : Activations \in Seq(S)  BY DEF Stacked
<1>3. n + 1 - 1 = n  BY <1>1
<1>4. Activations # <<>>  BY <1>1, <1>2
<1> DEFINE c == SubSeq(Activations, 1, n)
<1>5. c \in Seq(S) /\ Len(c) = n  BY <1>1, <1>2, Front
<1> HIDE DEF c
<1>6. ASSUME NEW u
      PROVE  Len(Append(c, u)) = n + 1 /\ Append(c, u)[n + 1] = u
             /\ Append(c, u) \in Seq(S \cup {u})
  <2>1. c \in Seq(S \cup {u}) /\ u \in S \cup {u}  BY <1>5
  <2> QED  BY <1>5, <2>1, AppendProperties
<1>7. ASSUME NEW u, NEW v
      PROVE  Len(Append(Append(c, u), v)) = n + 2 /\ Append(Append(c, u), v)[n + 2] = v
  <2> DEFINE S2 == S \cup {u} \cup {v}
             d == Append(c, u)
  <2>1. d \in Seq(S \cup {u}) /\ Len(d) = n + 1  BY <1>6
  <2> HIDE DEF d
  <2>2. d \in Seq(S2) /\ v \in S2  BY <2>1
  <2> HIDE DEF S2
  <2>3. n + 2 = n + 1 + 1  BY <1>1
  <2>4. Len(Append(d, v)) = Len(d) + 1 /\ Append(d, v)[Len(d) + 1] = v
    BY <2>2, AppendProperties
  <2>5. Len(Append(d, v)) = n + 2 /\ Append(d, v)[n + 2] = v  BY <2>1, <2>3, <2>4
  <2> QED  BY <2>5 DEF d
<1>8. ActivationView!Top = t  BY <1>1 DEF ActivationView!Top
<1>9. ActivationView!Below = c  BY <1>1, <1>3 DEF ActivationView!Below, c
<1>10. \A u : ActivationView!WithTop(u) = Append(c, u)  BY <1>9 DEF ActivationView!WithTop
<1> QED  BY <1>1, <1>3, <1>4, <1>6, <1>7, <1>8, <1>9, <1>10 DEF c


LEMMA IsWork ==
  ASSUME mode = "run", mode' = "run", NEW n, NEW t, Stacked(n, t), IsAct(t), t.lib = NULL,
         NEW u, Activations' = Append(SubSeq(Activations, 1, n), u),
         IsAct(u), u.lib = NULL, u.byLib = t.byLib, u.pc[1] = t.pc[1], u.env.fn = t.env.fn
  PROVE  ActivationView!Work
<1>1. /\ ActivationView!Top = t /\ Activations # <<>> /\ Len(Activations) = n + 1
      /\ \A x : ActivationView!WithTop(x) = Append(SubSeq(Activations, 1, n), x)
      /\ Len(Activations') = n + 1 /\ Activations'[n + 1] = u
  BY StackedFacts
<1>2. [t EXCEPT !.pc = u.pc, !.env = u.env, !.ops = u.ops] = u
  <2>1. t = [pc |-> t.pc, env |-> t.env, ops |-> t.ops, lib |-> NULL, byLib |-> t.byLib]
    BY DEF IsAct
  <2>2. u = [pc |-> u.pc, env |-> u.env, ops |-> u.ops, lib |-> NULL, byLib |-> t.byLib]
    BY DEF IsAct
  <2> QED  BY <2>1, <2>2
<1>3. ActivationView!Free  BY <1>1 DEF ActivationView!Free, ActivationView!Running
<1> QED  BY <1>1, <1>2, <1>3 DEF ActivationView!Work

LEMMA IsCallLib ==
  ASSUME mode = "run", mode' = "run", NEW n, NEW t, Stacked(n, t), IsAct(t), t.lib = NULL,
         NEW u, Activations' = Append(SubSeq(Activations, 1, n), u),
         NEW k \in 0 .. Len(t.ops), NEW tail \in BOOLEAN,
         IsAct(u), u.lib = [pops |-> k, tail |-> tail],
         u.pc = t.pc, u.env = t.env, u.ops = t.ops, u.byLib = t.byLib
  PROVE  ActivationView!CallLib
<1>1. /\ ActivationView!Top = t /\ Activations # <<>>
      /\ \A x : ActivationView!WithTop(x) = Append(SubSeq(Activations, 1, n), x)
  BY StackedFacts
<1>2. [t EXCEPT !.lib = [pops |-> k, tail |-> tail]] = u
  <2>1. t = [pc |-> t.pc, env |-> t.env, ops |-> t.ops, lib |-> t.lib, byLib |-> t.byLib]
    BY DEF IsAct
  <2>2. u = [pc |-> t.pc, env |-> t.env, ops |-> t.ops, lib |-> u.lib, byLib |-> t.byLib]
    BY DEF IsAct
  <2> QED  BY <2>1, <2>2
<1>3. ActivationView!Free  BY <1>1 DEF ActivationView!Free, ActivationView!Running
<1> QED  BY <1>1, <1>2, <1>3 DEF ActivationView!CallLib

\* The k operands above a function are what env gives it.
Passed(ops, k, env_) ==
  LET callee == ops[Len(ops) - k]
  IN  /\ k \in 0 .. Len(ops) - 1
      /\ callee.kind = "closure"
      /\ env_.fn = callee.fn
      /\ SubSeq(ops, Len(ops) - k + 1, Len(ops)) =
           env_.args \o (IF env_.rest = NULL THEN <<>> ELSE env_.rest)

LEMMA IsTailCall ==
  ASSUME mode = "run", mode' = "run", NEW n, NEW t, Stacked(n, t), t.lib = NULL,
         NEW u, Activations' = Append(SubSeq(Activations, 1, n), u),
         NEW k, Passed(t.ops, k, u.env), IsAct(u), u.pc = <<u.env.fn, 0>>, u.ops = <<>>,
         u.lib = NULL, u.byLib = t.byLib
  PROVE  ActivationView!TailCall
<1>1. /\ ActivationView!Top = t /\ Activations # <<>> /\ Len(Activations) = n + 1
      /\ \A x : ActivationView!WithTop(x) = Append(SubSeq(Activations, 1, n), x)
      /\ Len(Activations') = n + 1 /\ Activations'[n + 1] = u
  BY StackedFacts
<1>2. ActivationView!Free  BY <1>1 DEF ActivationView!Free, ActivationView!Running
<1>3. ActivationView!Calling(k, u) /\ k \in 0 .. Len(t.ops) - 1
  <2>1. u = ActivationView!Enter(u.env.fn, u.env, u.byLib)
    BY DEF IsAct, ActivationView!Enter
  <2> QED
    BY <1>1, <2>1 DEF Passed, ActivationView!Calling, ActivationView!Bound
<1> QED  BY <1>1, <1>2, <1>3 DEF ActivationView!TailCall

LEMMA IsCall ==
  ASSUME mode = "run", mode' = "run", NEW n, NEW t, Stacked(n, t), IsAct(t), t.lib = NULL,
         NEW w, NEW u, Activations' = Append(Append(SubSeq(Activations, 1, n), w), u),
         NEW k, Passed(t.ops, k, u.env), IsAct(u), u.pc = <<u.env.fn, 0>>, u.ops = <<>>,
         u.lib = NULL, u.byLib = FALSE,
         IsAct(w), w.pc = <<t.pc[1], t.pc[2] + 1>>, w.env = t.env,
         w.ops = SubSeq(t.ops, 1, Len(t.ops) - (k + 1)), w.lib = NULL, w.byLib = t.byLib
  PROVE  ActivationView!Call
<1>1. /\ ActivationView!Top = t /\ Activations # <<>> /\ Len(Activations) = n + 1
      /\ n \in Nat
      /\ \A x : ActivationView!WithTop(x) = Append(SubSeq(Activations, 1, n), x)
      /\ Len(Activations') = n + 2 /\ Activations'[n + 2] = u
  BY StackedFacts
<1>2. ActivationView!Free  BY <1>1 DEF ActivationView!Free, ActivationView!Running
<1>3. ActivationView!Calling(k, u) /\ k \in 0 .. Len(t.ops) - 1
  <2>1. u = ActivationView!Enter(u.env.fn, u.env, u.byLib)
    BY DEF IsAct, ActivationView!Enter
  <2> QED
    BY <1>1, <2>1 DEF Passed, ActivationView!Calling, ActivationView!Bound
<1>4. [t EXCEPT !.pc = ActivationView!Next1(@), !.ops = ActivationView!Shorter(@, k + 1)] = w
  <2>1. t = [pc |-> t.pc, env |-> t.env, ops |-> t.ops, lib |-> NULL, byLib |-> t.byLib]
    BY DEF IsAct
  <2>2. w = [pc |-> w.pc, env |-> t.env, ops |-> w.ops, lib |-> NULL, byLib |-> t.byLib]
    BY DEF IsAct
  <2>3. w.pc = ActivationView!Next1(t.pc) /\ w.ops = ActivationView!Shorter(t.ops, k + 1)
    BY DEF ActivationView!Next1, ActivationView!Shorter
  <2>4. [t EXCEPT !.pc = w.pc, !.ops = w.ops] = w  BY <2>1, <2>2
  <2> QED  BY <2>3, <2>4
<1>5. Len(Activations') = Len(Activations) + 1  BY <1>1
<1> QED  BY <1>1, <1>2, <1>3, <1>4, <1>5 DEF ActivationView!Call

LEMMA IsLibCalls ==
  ASSUME mode = "run", mode' = "run", NEW n, NEW t, Stacked(n, t), t.lib # NULL,
         NEW u, Activations' = Append(Append(SubSeq(Activations, 1, n), t), u),
         IsAct(u), u.pc = <<u.env.fn, 0>>, u.ops = <<>>, u.lib = NULL, u.byLib = TRUE
  PROVE  ActivationView!LibCalls
<1>1. /\ ActivationView!Top = t /\ Activations # <<>> /\ Len(Activations) = n + 1
      /\ n \in Nat
      /\ Len(Activations') = n + 2 /\ Activations'[n + 2] = u
  BY StackedFacts
<1>2. ActivationView!Busy  BY <1>1 DEF ActivationView!Busy, ActivationView!Running
<1>3. u = ActivationView!Enter(u.env.fn, u.env, TRUE)  BY DEF IsAct, ActivationView!Enter
<1>4. Activations = Append(SubSeq(Activations, 1, n), t)
  <2>1. PICK S : Activations \in Seq(S)  BY DEF Stacked
  <2>2. Activations[n + 1] = t  BY DEF Stacked
  <2> QED  BY <1>1, <2>1, <2>2, TopChanged
<1>5. Activations' = Append(Activations, u)  BY <1>4
<1>6. Len(Activations') = Len(Activations) + 1  BY <1>1
<1> QED  BY <1>1, <1>2, <1>3, <1>5, <1>6 DEF ActivationView!LibCalls

\* The last of n + 1 activations, t, returns v.
Returned(n, t, v, u) ==
  /\ n = 0 => t.byLib /\ Activations' = <<>>
  /\ n # 0 => /\ Activations' = Append(SubSeq(Activations, 1, n - 1), u)
              /\ IsAct(Activations[n]) /\ IsAct(u)
              /\ \A f \in {"pc", "env", "lib", "byLib"} : u[f] = Activations[n][f]
              /\ u.ops = IF t.byLib THEN Activations[n].ops ELSE Append(Activations[n].ops, v)

LEMMA IsReturnTo ==
  ASSUME NEW n, NEW t, Stacked(n, t), NEW v, NEW u, Returned(n, t, v, u)
  PROVE  Activations' = ActivationView!ReturnTo(v)
<1>1. /\ ActivationView!Top = t /\ n \in Nat /\ Len(Activations) = n + 1
      /\ ActivationView!Below = SubSeq(Activations, 1, n)
  BY StackedFacts
<1>2. PICK S : Activations \in Seq(S)  BY DEF Stacked
<1>3. PICK c : c = SubSeq(Activations, 1, n)  OBVIOUS
<1>4. c \in Seq(S) /\ Len(c) = n /\ \A i \in 1 .. n : c[i] = Activations[i]
  BY <1>1, <1>2, <1>3, Front
<1>5. CASE n = 0
  <2>1. c = <<>>  BY <1>4, <1>5, EmptySeq
  <2> QED  BY <1>1, <1>3, <1>5, <2>1 DEF Returned, ActivationView!ReturnTo
<1>6. CASE n # 0
  <2>1. PICK x : x = Activations[n]  OBVIOUS
  <2>2. PICK m : m = n - 1  OBVIOUS
  <2>3. m \in Nat /\ n = m + 1 /\ n \in 1 .. n /\ n - 1 = m  BY <1>1, <1>6, <2>2
  <2>4. c[n] = x  BY <1>4, <2>1, <2>3
  <2>5. SubSeq(c, 1, m) = SubSeq(Activations, 1, m)
    <3>1. \A i \in 1 .. m : c[i] = Activations[i]  BY <1>4, <2>3
    <3> QED  BY <2>3, <3>1, SamePart
  <2>6. Activations' = Append(SubSeq(c, 1, m), u)  BY <1>6, <2>3, <2>5 DEF Returned
  <2>7. [c EXCEPT ![n] = u] = Append(SubSeq(c, 1, m), u)
    <3> DEFINE S2 == S \cup {u}
               d == [c EXCEPT ![n] = u]
    <3>1. c \in Seq(S2) /\ u \in S2  BY <1>4
    <3> HIDE DEF S2
    <3>2. /\ d \in Seq(S2) /\ Len(d) = m + 1 /\ d[m + 1] = u
          /\ \A i \in 1 .. m : d[i] = c[i]
      BY <1>4, <2>3, <3>1
    <3> HIDE DEF d
    <3>3. Len(c) = m + 1  BY <1>4, <2>3
    <3>4. d = Append(SubSeq(c, 1, m), d[m + 1])  BY <2>3, <3>1, <3>2, <3>3, TopChanged
    <3> QED  BY <3>2, <3>4 DEF d
  <2>8. /\ x = [pc |-> x.pc, env |-> x.env, ops |-> x.ops, lib |-> x.lib, byLib |-> x.byLib]
        /\ u = [pc |-> x.pc, env |-> x.env, ops |-> u.ops, lib |-> x.lib, byLib |-> x.byLib]
        /\ u.ops = IF t.byLib THEN x.ops ELSE Append(x.ops, v)
    BY <1>6, <2>1 DEF Returned, IsAct
  <2>9. CASE t.byLib
    <3>1. u = x  BY <2>8, <2>9
    <3>2. c = Append(SubSeq(c, 1, m), c[m + 1])  BY <1>4, <2>3, TopChanged
    <3>3. Activations' = c  BY <2>3, <2>4, <2>6, <3>1, <3>2
    <3> QED  BY <1>1, <1>3, <2>9, <3>3 DEF ActivationView!ReturnTo
  <2>10. CASE ~ t.byLib
    <3>1. [x EXCEPT !.ops = Append(x.ops, v)] = u  BY <2>8, <2>10
    <3>2. [c EXCEPT ![n].ops = Append(@, v)] = [c EXCEPT ![n] = u]  BY <2>4, <3>1
    <3>3. Activations' = [c EXCEPT ![Len(c)].ops = Append(@, v)]
      BY <1>4, <2>6, <2>7, <3>2
    <3> QED  BY <1>1, <1>3, <2>10, <3>3 DEF ActivationView!ReturnTo
  <2> QED  BY <2>9, <2>10
<1> QED  BY <1>5, <1>6

LEMMA IsLibReturns ==
  ASSUME mode = "run", mode' = "run", NEW n, NEW t, Stacked(n, t), IsAct(t), t.lib # NULL,
         ~ t.lib.tail, NEW v \in Value,
         NEW u, Activations' = Append(SubSeq(Activations, 1, n), u), IsAct(u),
         u.pc = <<t.pc[1], t.pc[2] + 1>>, u.env = t.env, u.lib = NULL, u.byLib = t.byLib,
         u.ops = Append(SubSeq(t.ops, 1, Len(t.ops) - t.lib.pops), v)
  PROVE  ActivationView!LibReturn
<1>1. /\ ActivationView!Top = t /\ Activations # <<>>
      /\ \A x : ActivationView!WithTop(x) = Append(SubSeq(Activations, 1, n), x)
  BY StackedFacts
<1>2. ActivationView!Busy  BY <1>1 DEF ActivationView!Busy, ActivationView!Running
<1>3. [t EXCEPT !.pc = ActivationView!Next1(@), !.lib = NULL,
                !.ops = Append(ActivationView!Shorter(@, t.lib.pops), v)] = u
  <2>1. t = [pc |-> t.pc, env |-> t.env, ops |-> t.ops, lib |-> t.lib, byLib |-> t.byLib]
    BY DEF IsAct
  <2>2. u = [pc |-> u.pc, env |-> t.env, ops |-> u.ops, lib |-> NULL, byLib |-> t.byLib]
    BY DEF IsAct
  <2>3. /\ u.pc = ActivationView!Next1(t.pc)
        /\ u.ops = Append(ActivationView!Shorter(t.ops, t.lib.pops), v)
    BY DEF ActivationView!Next1, ActivationView!Shorter
  <2>4. [t EXCEPT !.pc = u.pc, !.lib = NULL, !.ops = u.ops] = u  BY <2>1, <2>2
  <2> QED  BY <2>3, <2>4
<1> QED  BY <1>1, <1>2, <1>3 DEF ActivationView!LibReturn


-----------------------------------------------------------------------------
(***************************************************************************)
(* What siexec will restore                                                *)
(***************************************************************************)

LEMMA NotNull == \A x \in Fn \X (0 .. Last) : x # NULL
BY NullAssumption

LEMMA EnvStays ==
  ASSUME pc' # NULL \/ mode' # "run"
  PROVE  EnvOK'
BY DEF EnvOK

\* What a return leaves.
LEMMA ReturnFacts ==
  ASSUME Inv, mode = "run", mode' = "run", pc # NULL,
         NEW v \in Value, NEW cs, DestroyAndPush(v, cs),
         \/ Innermost.by = "siexec" /\ cs = cstack
         \/ Innermost.by = "internal" /\ cs = Drop(cstack, 1),
         NEW b, b = Cardinality(BaseFrames)
  PROVE  /\ bottom \in FramePos /\ bottom \in Nat \ {0} /\ b \in Nat \ {0}
         /\ Frame.bottom \in Nat /\ Frame.bottom < bottom
         /\ bottom' = Frame.bottom /\ pc' = Frame.ret /\ env' = Frame.env
         /\ Len(stack') = bottom /\ stack'[bottom] = v
         /\ \A i \in 1 .. bottom - 1 : stack'[i] = stack[i]
         /\ Len(cstack') = 2 * b - 1
         /\ \A i \in 1 .. 2 * b - 1 : cstack'[i] = cstack[i]
         /\ Innermost' = cstack[2 * b - 1] /\ Innermost'.by = "siexec"
         /\ Frame.ret = NULL => bottom \in BaseFrames /\ Rank(bottom) = b /\ BaseOK(b, Frame)
<1>1. /\ stack' = Append(SubSeq(stack, 1, Frame.top), v)
      /\ bottom' = Frame.bottom /\ pc' = Frame.ret /\ env' = Frame.env /\ cstack' = cs
  BY DEF DestroyAndPush, Fault
<1>2. /\ TypeOK /\ FramesOK /\ LoopsOK
      /\ bottom \in FramePos /\ b \in Nat \ {0}
      /\ Cardinality(Siexecs) = b
      /\ Len(cstack) \in Nat \ {0}
      /\ Innermost.by = "siexec" => Len(cstack) = 2 * b - 1
      /\ Innermost.by = "internal" => Len(cstack) = 2 * b
  BY RunFacts
<1>3. Frame.top = bottom - 1 /\ Frame.bottom \in Nat  BY <1>2, FrameFacts
<1>4. bottom \in Nat \ {0} /\ stack \in Seq(Value \cup FrameRecord) /\ bottom <= Len(stack)
      /\ Len(stack) \in Nat
  BY <1>2, StackFacts
<1>5. Frame.bottom < bottom  BY <1>2 DEF FramesOK, Stretch, Frame
<1>6. /\ Len(cstack') = 2 * b - 1
      /\ \A i \in 1 .. 2 * b - 1 : cstack'[i] = cstack[i]
  <2>1. CASE Innermost.by = "siexec" /\ cs = cstack
    BY <1>1, <1>2, <2>1
  <2>2. CASE Innermost.by = "internal" /\ cs = Drop(cstack, 1)
    <3>1. cstack' = Drop(cstack, 1)  BY <1>1, <2>2
    <3>2. /\ Len(cstack') = Len(cstack) - 1
          /\ \A i \in 1 .. Len(cstack) - 1 : cstack'[i] = cstack[i]
      BY <1>2, <2>2, <3>1, CDrop, SiexecsFinite
    <3> QED  BY <1>2, <2>2, <3>2
  <2> QED  BY <2>1, <2>2
<1>7. stack' = Append(SubSeq(stack, 1, bottom - 1), v)  BY <1>1, <1>3
<1>8. Len(stack') = bottom /\ stack'[bottom] = v
      /\ \A i \in 1 .. bottom - 1 : stack'[i] = stack[i]
  <2>1. PICK st : st = SubSeq(stack, 1, bottom - 1)  OBVIOUS
  <2>2. /\ st \in Seq(Value \cup FrameRecord) /\ Len(st) = bottom - 1
        /\ \A i \in 1 .. bottom - 1 : st[i] = stack[i]
    <3>1. \A i \in 1 .. bottom - 1 : stack[i] \in Value \cup FrameRecord  BY <1>4
    <3>2. /\ st \in Seq(Value \cup FrameRecord)
          /\ Len(st) = IF 1 <= bottom - 1 THEN bottom - 1 - 1 + 1 ELSE 0
          /\ \A i \in 1 .. bottom - 1 - 1 + 1 : st[i] = stack[1 + i - 1]
      BY <1>4, <2>1, <3>1, SubSeqProperties
    <3> QED  BY <1>4, <3>2
  <2>3. /\ Len(stack') = Len(st) + 1
        /\ \A i \in 1 .. Len(st) : stack'[i] = st[i]
        /\ stack'[Len(st) + 1] = v
    BY <1>7, <2>1, <2>2
  <2>4. Len(st) + 1 = bottom  BY <1>4, <2>2
  <2> QED  BY <2>2, <2>3, <2>4
<1>9. Innermost' = cstack[2 * b - 1] /\ Innermost'.by = "siexec"
  <2>1. \A k \in Nat \ {0} : 2 * k - 1 \in 1 .. 2 * k - 1 /\ (2 * k - 1) % 2 = 1
                             /\ 2 * k - 1 \in 1 .. 2 * k
    OBVIOUS
  <2>2. 2 * b - 1 \in 1 .. Len(cstack)
    <3>1. Len(cstack) = 2 * b - 1 \/ Len(cstack) = 2 * b  BY <1>2
    <3> QED  BY <1>2, <2>1, <3>1
  <2>3. Innermost' = cstack[2 * b - 1]  BY <1>2, <1>6, <2>1 DEF Innermost
  <2>4. cstack[2 * b - 1].by = "siexec"  BY <1>2, <2>1, <2>2, CFacts DEF LoopsOK
  <2> QED  BY <2>3, <2>4
<1>10. ASSUME Frame.ret = NULL
       PROVE  bottom \in BaseFrames /\ Rank(bottom) = b /\ BaseOK(b, Frame)
  <2>1. bottom \in BaseFrames  BY <1>2, <1>10 DEF BaseFrames, Frame
  <2>2. FramePos' = FramePos \ {bottom} /\ BaseFrames' = BaseFrames \ {bottom}
    BY <1>2, <1>7, FrameCut
  <2>3. Rank(bottom) = b  BY <1>2, <2>1, <2>2, RankCut
  <2>4. BaseOK(b, Frame)  BY <1>2, <2>1, <2>3 DEF FramesOK, Frame
  <2> QED  BY <2>1, <2>3, <2>4
<1> QED  BY <1>1, <1>2, <1>3, <1>4, <1>5, <1>6, <1>8, <1>9, <1>10

LEMMA EnvReturns ==
  ASSUME Inv, mode = "run", pc # NULL, NEW v \in Value, NEW cs, DestroyAndPush(v, cs),
         \/ Innermost.by = "siexec" /\ cs = cstack
         \/ Innermost.by = "internal" /\ cs = Drop(cstack, 1)
  PROVE  EnvOK'
<1>b. PICK b : b = Cardinality(BaseFrames)  OBVIOUS
<1>1. CASE mode' # "run"  BY <1>1, EnvStays
<1>2. CASE mode' = "run"
  <2>1. /\ env' = Frame.env /\ pc' = Frame.ret /\ Innermost' = cstack[2 * b - 1]
        /\ Frame.ret = NULL => BaseOK(b, Frame)
    BY <1>b, <1>2, ReturnFacts
  <2> QED  BY <2>1 DEF EnvOK, BaseOK
<1> QED  BY <1>1, <1>2

LEMMA EnvCalls ==
  ASSUME Inv, NEW n \in Nat, NEW tail \in BOOLEAN, Call(n, tail) \/ CallInternal(n, tail)
  PROVE  EnvOK'
<1>1. Fetch  BY DEF Call, CallInternal
<1>2. pc # NULL /\ \A f \in Fn : <<f, 0>> # NULL  BY <1>1, FetchFacts, EntryPoint, NotNull
<1>3. Fault => mode' # "run"  BY DEF Fault
<1>4. \A k : Begin(k, tail) => pc' # NULL  BY <1>2 DEF Begin
<1>5. CASE Operands <= n /\ Call(n, tail)  BY <1>3, <1>5, EnvStays DEF Call
<1>6. CASE ~ (Operands <= n) /\ Call(n, tail)
  <2>1. Callee(n) \in Value  BY <1>1, <1>6, CallOperands
  <2>2. Callee(n).kind = "closure" => Callee(n).fn \in Fn  BY <2>1, CalleeFn
  <2>3. CallClosure(n, tail) => \/ Fault
                               \/ pc' = <<Callee(n).fn, 0>>
    BY DEF CallClosure
  <2>4. Callee(n).kind \in {"closure", "internal", "intcont", "object", "number"}
    BY <2>1, PlainAssumption DEF Value
  <2>5. \/ CallClosure(n, tail) /\ Callee(n).kind = "closure"
        \/ Begin(n + 1, tail) \/ Begin(1, tail) \/ Fault \/ UNCHANGED pc
    BY <1>6, <2>4 DEF Call
  <2> QED  BY <1>2, <1>3, <1>4, <2>2, <2>3, <2>5, EnvStays
<1>7. CASE CallInternal(n, tail)
  BY <1>3, <1>4, <1>7, EnvStays DEF CallInternal
<1> QED  BY <1>5, <1>6, <1>7

LEMMA EnvInstruction ==
  ASSUME Inv, EnvOK, Instruction
  PROVE  EnvOK'
<1>1. ASSUME NEW n, NEW r, Operate(n, r)  PROVE EnvOK'
  <2>1. Fetch  BY <1>1 DEF Operate
  <2>2. Advance => pc' # NULL  BY <2>1, FetchFacts, AfterFacts, NotNull DEF Advance
  <2> QED  BY <1>1, <2>2, EnvStays DEF Operate, Fault
<1>2. ASSUME NEW n \in 0 .. 1, NEW k \in 0 .. Last, Branch(n, k)  PROVE EnvOK'
  <2>1. Fetch  BY <1>2 DEF Branch
  <2>2. <<pc[1], k>> # NULL  BY <2>1, FetchFacts, NotNull
  <2> QED  BY <1>2, <2>2, EnvStays DEF Branch, Fault
<1>3. ASSUME NEW s, Scope(s)  PROVE EnvOK'
  <2>1. Fetch /\ Advance  BY <1>3 DEF Scope
  <2>2. pc' # NULL  BY <2>1, FetchFacts, AfterFacts, NotNull DEF Advance
  <2> QED  BY <2>2, EnvStays
<1>4. ASSUME NEW n \in 0 .. MaxArgs, NEW tail \in BOOLEAN,
             Call(n, tail) \/ CallInternal(n, tail)
      PROVE  EnvOK'
  BY <1>4, EnvCalls
<1>5. ASSUME CallAgain  PROVE EnvOK'
  <2>1. UNCHANGED <<mode, pc, env, cstack>>  BY <1>5 DEF CallAgain, vars
  <2> QED  BY <2>1 DEF EnvOK, Innermost
<1>6. ASSUME NEW pops \in 0 .. 1, NEW v \in Value, Ret(pops, v)  PROVE EnvOK'
  <2>1. Fetch  BY <1>6 DEF Ret
  <2>2. CASE Operands < pops  BY <1>6, <2>2, EnvStays DEF Ret, Fault
  <2>3. CASE ~ (Operands < pops)
    <3>1. PICK w : w = IF pops = 1 THEN stack[Len(stack)] ELSE v  OBVIOUS
    <3>2. w \in Value
      <4>1. CASE pops = 1
        <5>1. Len(stack) \in 1 .. Len(stack) /\ Len(stack) > bottom
          BY <2>1, <2>3, <4>1, FetchFacts DEF Operands
        <5> QED  BY <2>1, <3>1, <4>1, <5>1, FetchFacts, Unmoved
      <4> QED  BY <3>1, <4>1
    <3>3. PICK cs : cs = cstack  OBVIOUS
    <3>4. DestroyAndPush(w, cs)  BY <1>6, <2>3, <3>1, <3>3 DEF Ret
    <3>5. mode = "run" /\ pc # NULL /\ Innermost.by = "siexec"  BY <2>1, FetchFacts
    <3> QED  BY <3>2, <3>3, <3>4, <3>5, EnvReturns
  <2> QED  BY <2>2, <2>3
<1> QED
  BY <1>1, <1>2, <1>3, <1>4, <1>5, <1>6
  DEF Instruction, Push, Unary, Binary, Pop, StoreElement

LEMMA EnvLibrary ==
  ASSUME Inv, EnvOK, Library
  PROVE  EnvOK'
<1>1. ASSUME NEW v \in Value, InternalReturn(v)  PROVE EnvOK'
  <2>1. mode = "run" /\ Innermost.by = "internal"  BY <1>1 DEF InternalReturn, Innermost
  <2>2. pc # NULL /\ pc \in Fn \X (0 .. Last) /\ (~ Innermost.tail => pc[2] < Last)
        /\ Innermost.tail \in BOOLEAN
    BY <2>1, InnerFacts
  <2>3. CASE Innermost.tail
    <3>1. PICK cs : cs = Drop(cstack, 1)  OBVIOUS
    <3>2. DestroyAndPush(v, cs)  BY <1>1, <2>3, <3>1 DEF InternalReturn, Innermost
    <3> QED  BY <2>1, <2>2, <3>1, <3>2, EnvReturns
  <2>4. CASE ~ Innermost.tail
    <3>1. After # NULL  BY <2>2, <2>4, AfterFacts, NotNull
    <3>2. limit \in Nat /\ Len(stack) \in Nat /\ Innermost.pops \in Nat
      BY <2>1, InnerFacts
    <3>3. Len(stack) - Innermost.pops >= limit \/ Len(stack) - Innermost.pops < limit
      BY <3>2
    <3>4. Fault \/ pc' = After  BY <1>1, <2>4, <3>3 DEF InternalReturn, Innermost
    <3> QED  BY <3>1, <3>4, EnvStays DEF Fault
  <2> QED  BY <2>3, <2>4
<1>2. ASSUME NEW f \in Fn, NEW args, Siexec(f, args)  PROVE EnvOK'
  <2>1. <<f, 0>> # NULL  BY EntryPoint, NotNull
  <2>2. Fault \/ pc' = <<f, 0>>  BY <1>2 DEF Siexec
  <2> QED  BY <2>1, <2>2, EnvStays DEF Fault
<1>3. ASSUME SiexecEnd  PROVE EnvOK'
  <2>1. /\ mode = "run" /\ pc = NULL /\ Innermost.by = "siexec"
        /\ pc' = Innermost.pc /\ cstack' = Drop(cstack, 1)
        /\ mode' = IF cstack' = <<>> THEN "done" ELSE mode
    BY <1>3 DEF SiexecEnd, InLoop, Innermost
  <2>2. TypeOK /\ TopOK /\ Len(cstack) \in Nat \ {0}  BY <2>1, RunFacts
  <2>3. CASE Len(cstack) = 1
    <3>1. Len(cstack') = 0 /\ cstack' \in Seq(Exec \cup Inner)
      <4>1. 1 \in 0 .. Len(cstack) /\ cstack \in Seq(Exec \cup Inner)  BY <2>2, CFacts
      <4>2. Len(Drop(cstack, 1)) = Len(cstack) - 1 /\ Drop(cstack, 1) \in Seq(Exec \cup Inner)
        BY <4>1, Dropped
      <4> QED  BY <2>1, <2>3, <4>2
    <3>2. cstack' = <<>>  BY <3>1, EmptySeq
    <3> QED  BY <2>1, <3>2, EnvStays
  <2>4. CASE Len(cstack) # 1
    <3>1. Innermost.pc \in Fn \X (0 .. Last)
      BY <2>1, <2>2, <2>4 DEF TopOK, Suspended
    <3> QED  BY <2>1, <3>1, NotNull, EnvStays
  <2> QED  BY <2>3, <2>4
<1> QED  BY <1>1, <1>2, <1>3 DEF Library

LEMMA EnvStep == Inv /\ EnvOK /\ [Next]_vars => EnvOK'
<1> SUFFICES ASSUME Inv, EnvOK, [Next]_vars PROVE EnvOK'  OBVIOUS
<1>1. ASSUME Run  PROVE EnvOK'
  <2>1. pc' = <<Entry, 0>> /\ Entry \in Fn  BY <1>1, FnAssumption DEF Run
  <2>2. pc' # NULL  BY <2>1, EntryPoint, NotNull
  <2> QED  BY <2>2, EnvStays
<1>2. ASSUME UNCHANGED vars  PROVE EnvOK'
  <2>1. UNCHANGED <<mode, pc, env, cstack>>  BY <1>2 DEF vars
  <2> QED  BY <2>1 DEF EnvOK, Innermost
<1> QED  BY <1>1, <1>2, EnvInstruction, EnvLibrary DEF Next


-----------------------------------------------------------------------------
(***************************************************************************)
(* Every step of CallStack is one of Calls                                 *)
(***************************************************************************)

LEMMA FaultCalls == mode = "run" /\ Fault => ActivationView!Next
BY DEF Fault, ActivationView!Fail, ActivationView!Next

\* The activation on top, while it runs.
LEMMA UpperRuns ==
  ASSUME pc # NULL
  PROVE  /\ IsAct(Upper) /\ Upper.pc = pc /\ Upper.env = env
         /\ Upper.ops = SubSeq(stack, bottom + 1, Len(stack))
         /\ Upper.lib = IF Innermost.by = "internal" THEN Waiting(Innermost) ELSE NULL
         /\ Upper.byLib = (stack[bottom].ret = NULL)
BY UpperAct

LEMMA UpperRunsNext ==
  ASSUME pc' # NULL
  PROVE  /\ IsAct(Upper') /\ Upper'.pc = pc' /\ Upper'.env = env'
         /\ Upper'.ops = SubSeq(stack', bottom' + 1, Len(stack'))
         /\ Upper'.lib = IF Innermost'.by = "internal" THEN Waiting(Innermost') ELSE NULL
         /\ Upper'.byLib = (stack'[bottom'].ret = NULL)
BY DEF Upper, IsAct

\* The activation on top changes, or is replaced.
LEMMA TopStep ==
  ASSUME Seen, Seen', pc # NULL, UNCHANGED bottom, bottom <= Len(stack'),
         \A i \in 1 .. bottom : stack'[i] = stack[i],
         NEW b, b = Cardinality(BaseFrames),
         \A i \in 1 .. 2 * b - 1 : cstack'[i] = cstack[i]
  PROVE  \E n : /\ Stacked(n, Upper)
                /\ Activations' = Append(SubSeq(Activations, 1, n), Upper')
<1>1. b \in Nat /\ bottom \in FramePos /\ TypeOK  BY RunFacts DEF Seen
<1>2. bottom # 0  BY <1>1, StackFacts
<1>3. Activations' = Append(SubSeq(Activations, 1, Depth - 1), Upper')  BY <1>1, <1>2, TopMoves
<1> QED  BY <1>2, <1>3, StackedTop

LEMMA WorkCalls ==
  ASSUME Seen, Seen', Fetch, UNCHANGED <<bottom, cstack>>, bottom <= Len(stack'),
         \A i \in 1 .. bottom : stack'[i] = stack[i],
         pc' # NULL, pc'[1] = pc[1], env'.fn = env.fn
  PROVE  ActivationView!Next
<1>1. /\ mode = "run" /\ mode' = "run" /\ pc # NULL /\ Innermost.by = "siexec"
      /\ bottom \in Nat \ {0}
  BY FetchFacts DEF Seen
<1>b. PICK b : b = Cardinality(BaseFrames)  OBVIOUS
<1>2. PICK n : /\ Stacked(n, Upper)
               /\ Activations' = Append(SubSeq(Activations, 1, n), Upper')
  BY <1>1, <1>b, TopStep
<1>3. PICK t : t = Upper  OBVIOUS
<1>4. PICK u : u = Upper'  OBVIOUS
<1>5. Innermost' = Innermost  BY DEF Innermost
<1>6. IsAct(t) /\ t.pc = pc /\ t.env = env /\ t.lib = NULL /\ t.byLib = (stack[bottom].ret = NULL)
  BY <1>1, <1>3, UpperRuns
<1>7. IsAct(u) /\ u.pc = pc' /\ u.env = env' /\ u.lib = NULL
      /\ u.byLib = (stack'[bottom'].ret = NULL)
  BY <1>1, <1>4, <1>5, UpperRunsNext
<1>8. u.byLib = t.byLib
  <2>1. stack'[bottom'] = stack[bottom]  BY <1>1
  <2> QED  BY <1>6, <1>7, <2>1
<1>9. Stacked(n, t) /\ Activations' = Append(SubSeq(Activations, 1, n), u)
  BY <1>2, <1>3, <1>4
<1>10. u.pc[1] = t.pc[1] /\ u.env.fn = t.env.fn  BY <1>6, <1>7
<1> QED  BY <1>1, <1>6, <1>7, <1>8, <1>9, <1>10, IsWork DEF ActivationView!Next

LEMMA OperateCalls ==
  ASSUME Seen, mode' = "run" => Seen', NEW n \in Nat, NEW r \in Seq(Value), Operate(n, r)
  PROVE  ActivationView!Next
<1>1. Fetch /\ Inv /\ mode = "run"  BY DEF Operate, Seen
<1>2. CASE Operands < n \/ Operands - n + Len(r) > limit - bottom
  BY <1>1, <1>2, FaultCalls DEF Operate
<1>3. CASE ~ (Operands < n \/ Operands - n + Len(r) > limit - bottom)
  <2>1. /\ stack' = Drop(stack, n) \o r /\ Advance
        /\ UNCHANGED <<mode, bottom, limit, env, cstack, again>>
    BY <1>3 DEF Operate, regs
  <2>2. n <= Operands  BY <1>1, <1>3, FetchFacts DEF Operands
  <2>3. bottom <= Len(stack') /\ \A i \in 1 .. bottom : stack'[i] = stack[i]
    BY <1>1, <2>1, <2>2, FetchFacts, Replaced
  <2>4. pc' # NULL /\ pc'[1] = pc[1]
    BY <1>1, <2>1, FetchFacts, AfterFacts, NotNull DEF Advance
  <2> QED  BY <1>1, <2>1, <2>3, <2>4, WorkCalls
<1> QED  BY <1>2, <1>3

LEMMA BranchCalls ==
  ASSUME Seen, mode' = "run" => Seen', NEW n \in Nat, NEW k \in 0 .. Last, Branch(n, k)
  PROVE  ActivationView!Next
<1>1. Fetch /\ Inv /\ mode = "run"  BY DEF Branch, Seen
<1>2. CASE Operands < n  BY <1>1, <1>2, FaultCalls DEF Branch
<1>3. CASE ~ (Operands < n)
  <2>1. /\ stack' = Drop(stack, n) /\ pc' = <<pc[1], k>>
        /\ UNCHANGED <<mode, bottom, limit, env, cstack, again>>
    BY <1>3 DEF Branch, regs
  <2>2. n <= Operands /\ n \in 0 .. Len(stack) /\ stack \in Seq(Value \cup FrameRecord)
    <3>1. bottom \in Nat /\ Len(stack) \in Nat  BY <1>1, FetchFacts
    <3>2. n <= Len(stack) - bottom  BY <1>3, <3>1 DEF Operands
    <3>3. stack \in Seq(Value \cup FrameRecord)  BY <1>1 DEF Inv, TypeOK
    <3> QED  BY <3>1, <3>2, <3>3 DEF Operands
  <2>3. stack' = Drop(stack, n) \o << >> /\ << >> \in Seq(Value)
    BY <2>1, <2>2, Dropped, ConcatEmptySeq
  <2>4. bottom <= Len(stack') /\ \A i \in 1 .. bottom : stack'[i] = stack[i]
    BY <1>1, <2>2, <2>3, FetchFacts, Replaced
  <2>5. <<pc[1], k>> # NULL /\ pc'[1] = pc[1]  BY <1>1, <2>1, FetchFacts, NotNull
  <2> QED  BY <1>1, <2>1, <2>4, <2>5, WorkCalls
<1> QED  BY <1>2, <1>3

LEMMA ScopeCalls ==
  ASSUME Seen, mode' = "run" => Seen', NEW s, Scope(s)
  PROVE  ActivationView!Next
<1>1. Fetch /\ Inv /\ mode = "run"  BY DEF Scope, Seen
<1>2. /\ env' = [env EXCEPT !.scope = s] /\ Advance
      /\ UNCHANGED <<mode, stack, bottom, limit, cstack, again>>
  BY DEF Scope, regs
<1>3. env'.fn = env.fn  BY <1>1, <1>2, FetchFacts DEF EnvRecord
<1>4. pc' # NULL /\ pc'[1] = pc[1]
  BY <1>1, <1>2, FetchFacts, AfterFacts, NotNull DEF Advance
<1>5. bottom <= Len(stack') /\ \A i \in 1 .. bottom : stack'[i] = stack[i]
  BY <1>1, <1>2, FetchFacts
<1> QED  BY <1>1, <1>2, <1>3, <1>4, <1>5, WorkCalls

LEMMA StackOps ==
  ASSUME Seen, pc # NULL
  PROVE  /\ Len(stack) \in Nat /\ bottom \in Nat \ {0} /\ bottom <= Len(stack)
         /\ Len(SubSeq(stack, bottom + 1, Len(stack))) = Operands
         /\ Operands \in Nat
         /\ \A i \in 1 .. Operands : SubSeq(stack, bottom + 1, Len(stack))[i] = stack[bottom + i]
         /\ SubSeq(stack, bottom + 1, Len(stack)) \in Seq(Value)
<1>1. /\ bottom \in FramePos /\ TypeOK /\ Inv /\ mode = "run"  BY RunFacts DEF Seen
<1>2. /\ Len(stack) \in Nat /\ bottom \in Nat \ {0} /\ bottom <= Len(stack)
      /\ \A i \in 1 .. Len(stack) : i > bottom => stack[i] \in Value
  BY <1>1, StackFacts, Unmoved
<1> DEFINE len == Len(stack)
           s == SubSeq(stack, bottom + 1, len)
<1>3. \A i \in bottom + 1 .. len : stack[i] \in Value  BY <1>2
<1> HIDE DEF len
<1>4. len \in Nat /\ bottom <= len  BY <1>2 DEF len
<1>5. /\ s \in Seq(Value)
      /\ Len(s) = IF bottom + 1 <= len THEN len - (bottom + 1) + 1 ELSE 0
      /\ \A i \in 1 .. len - (bottom + 1) + 1 : s[i] = stack[bottom + 1 + i - 1]
  BY <1>2, <1>3, <1>4, SubSeqProperties
<1>6. Operands = len - bottom  BY DEF Operands, len
<1> HIDE DEF s
<1>7. Len(s) = Operands /\ Operands \in Nat  BY <1>2, <1>4, <1>5, <1>6
<1>8. \A i \in 1 .. Operands : s[i] = stack[bottom + i]
  <2> TAKE i \in 1 .. Operands
  <2>1. i \in 1 .. len - (bottom + 1) + 1 /\ bottom + 1 + i - 1 = bottom + i
    BY <1>2, <1>4, <1>6
  <2> QED  BY <1>5, <2>1
<1> QED  BY <1>2, <1>5, <1>7, <1>8 DEF s, len

LEMMA BeginCalls ==
  ASSUME Seen, mode' = "run" => Seen', Fetch, NEW k \in Nat, k <= Operands,
         NEW tail \in BOOLEAN, Begin(k, tail)
  PROVE  ActivationView!Next
<1> DEFINE c == [by |-> "internal", pops |-> k, tail |-> tail]
<1>1. /\ mode = "run" /\ mode' = "run" /\ pc # NULL /\ Innermost.by = "siexec" /\ Inv
      /\ bottom \in Nat \ {0} /\ bottom <= Len(stack) /\ Seen'
  BY FetchFacts DEF Seen, Begin
<1>2. /\ cstack' = Append(cstack, c)
      /\ UNCHANGED <<mode, stack, bottom, limit, pc, env, again>>
  BY DEF Begin, regs
<1>3. c \in Exec \cup Inner /\ c.by = "internal" /\ Waiting(c) = [pops |-> k, tail |-> tail]
  BY DEF Inner, Waiting
<1> HIDE DEF c
<1>b. PICK b : b = Cardinality(BaseFrames)  OBVIOUS
<1>4. TypeOK /\ b \in Nat /\ Len(cstack) = 2 * b - 1 /\ Len(cstack) \in Nat \ {0}
  BY <1>1, <1>b, RunFacts
<1>5. (\A i \in 1 .. Len(cstack) : cstack'[i] = cstack[i]) /\ Innermost' = c
  BY <1>2, <1>3, <1>4, CPush
<1>6. \A i \in 1 .. 2 * b - 1 : cstack'[i] = cstack[i]  BY <1>4, <1>5
<1>7. bottom <= Len(stack') /\ \A i \in 1 .. bottom : stack'[i] = stack[i]  BY <1>1, <1>2
<1>8. PICK n : /\ Stacked(n, Upper)
               /\ Activations' = Append(SubSeq(Activations, 1, n), Upper')
  BY <1>1, <1>2, <1>6, <1>7, <1>b, TopStep
<1>9. PICK t : t = Upper  OBVIOUS
<1>10. PICK u : u = Upper'  OBVIOUS
<1>11. /\ IsAct(t) /\ t.pc = pc /\ t.env = env /\ t.lib = NULL
       /\ t.byLib = (stack[bottom].ret = NULL)
       /\ t.ops = SubSeq(stack, bottom + 1, Len(stack))
  BY <1>1, <1>9, UpperRuns
<1>12. /\ IsAct(u) /\ u.pc = pc' /\ u.env = env' /\ u.lib = [pops |-> k, tail |-> tail]
       /\ u.byLib = (stack'[bottom'].ret = NULL)
       /\ u.ops = SubSeq(stack', bottom' + 1, Len(stack'))
  <2>1. pc' # NULL /\ Innermost'.by = "internal"  BY <1>1, <1>2, <1>3, <1>5
  <2>2. Waiting(Innermost') = [pops |-> k, tail |-> tail]  BY <1>3, <1>5
  <2> QED  BY <1>10, <2>1, <2>2, UpperRunsNext
<1>13. u.pc = t.pc /\ u.env = t.env /\ u.byLib = t.byLib /\ u.ops = t.ops
  BY <1>2, <1>11, <1>12
<1>14. k \in 0 .. Len(t.ops)  BY <1>1, <1>11, StackOps
<1>15. Stacked(n, t) /\ Activations' = Append(SubSeq(Activations, 1, n), u)
  BY <1>8, <1>9, <1>10
<1> QED  BY <1>1, <1>11, <1>12, <1>13, <1>14, <1>15, IsCallLib DEF ActivationView!Next


\* A part of the operands of the activation on top.
LEMMA OpsPart ==
  ASSUME Seen, pc # NULL, NEW i \in Nat \ {0}, NEW j \in Int, j <= Operands
  PROVE  SubSeq(SubSeq(stack, bottom + 1, Len(stack)), i, j) = SubSeq(stack, bottom + i, bottom + j)
<1> DEFINE o == SubSeq(stack, bottom + 1, Len(stack))
<1>1. /\ Operands \in Nat /\ bottom \in Nat
      /\ \A x \in 1 .. Operands : o[x] = stack[bottom + x]
      /\ Len(o) = Operands /\ o \in Seq(Value)
  BY StackOps
<1> HIDE DEF o
<1>2. PICK b : b = bottom  OBVIOUS
<1>3. PICK d : d = Operands  OBVIOUS
<1>4. b \in Nat /\ d \in Nat /\ j <= d /\ \A x \in 1 .. d : o[x] = stack[b + x] /\ o[x] \in Value
  BY <1>1, <1>2, <1>3
<1>5. \A x \in i .. j : o[x] \in Value  BY <1>4
<1>l. PICK l : l = b + i  OBVIOUS
<1>h. PICK h : h = b + j  OBVIOUS
<1>6. l \in Int /\ h \in Int /\ h - l + 1 = j - i + 1 /\ (l <= h <=> i <= j)
  BY <1>4, <1>l, <1>h
<1>7. \A x \in l .. h : stack[x] \in Value
  <2> TAKE x \in l .. h
  <2>1. x - b \in 1 .. d /\ b + (x - b) = x  BY <1>4, <1>l, <1>h
  <2> QED  BY <1>4, <2>1
<1> DEFINE u == SubSeq(o, i, j)
           v == SubSeq(stack, l, h)
<1>8. /\ u \in Seq(Value) /\ Len(u) = IF i <= j THEN j - i + 1 ELSE 0
      /\ \A x \in 1 .. j - i + 1 : u[x] = o[i + x - 1]
  BY <1>5, SubSeqProperties
<1>9. /\ v \in Seq(Value) /\ Len(v) = IF l <= h THEN h - l + 1 ELSE 0
      /\ \A x \in 1 .. h - l + 1 : v[x] = stack[l + x - 1]
  BY <1>6, <1>7, SubSeqProperties
<1> HIDE DEF u, v
<1>10. ASSUME NEW x \in 1 .. Len(u)  PROVE u[x] = v[x]
  <2>1. x \in 1 .. j - i + 1  BY <1>8
  <2>2. i + x - 1 \in 1 .. d /\ b + (i + x - 1) = l + x - 1  BY <1>4, <1>l, <2>1
  <2>3. u[x] = o[i + x - 1] /\ v[x] = stack[l + x - 1]  BY <1>6, <1>8, <1>9, <2>1
  <2>4. o[i + x - 1] = stack[b + (i + x - 1)]  BY <1>4, <2>2
  <2> QED  BY <2>2, <2>3, <2>4
<1>11. Len(u) = Len(v)  BY <1>6, <1>8, <1>9
<1>12. u = v  BY <1>8, <1>9, <1>10, <1>11, SeqEqual
<1> QED  BY <1>2, <1>l, <1>h, <1>12 DEF o, u, v

\* A function finds in its environment the arguments it was called with.
LEMMA BindArgs ==
  ASSUME NEW f \in Fn, NEW args \in Seq(Value), ArityOk(f, Len(args)),
         NEW e, e = Bind(f, args)
  PROVE  args = e.args \o (IF e.rest = NULL THEN <<>> ELSE e.rest)
<1> DEFINE k == NumFixed(f)
           n == Len(args)
           a == SubSeq(args, 1, k)
           r == SubSeq(args, k + 1, n)
<1>1. /\ k \in Nat /\ k <= n /\ n \in Nat
      /\ ~ HasRest[f] => k = n
  BY FnAssumption DEF NumFixed, ArityOk
<1>2. e.args = a /\ e.rest = IF HasRest[f] THEN r ELSE NULL  BY DEF Bind
<1>3. \A x \in 1 .. n : args[x] \in Value  OBVIOUS
<1> HIDE DEF k
<1>4. /\ a \in Seq(Value) /\ Len(a) = (IF 1 <= k THEN k - 1 + 1 ELSE 0)
      /\ \A x \in 1 .. k - 1 + 1 : a[x] = args[1 + x - 1]
  <2>1. \A x \in 1 .. k : args[x] \in Value  BY <1>1, <1>3
  <2> QED  BY <1>1, <2>1, SubSeqProperties
<1>5. /\ r \in Seq(Value) /\ Len(r) = (IF k + 1 <= n THEN n - (k + 1) + 1 ELSE 0)
      /\ \A x \in 1 .. n - (k + 1) + 1 : r[x] = args[k + 1 + x - 1]
  <2>1. \A x \in k + 1 .. n : args[x] \in Value  BY <1>1, <1>3
  <2> QED  BY <1>1, <2>1, SubSeqProperties
<1> HIDE DEF a, r, n
<1>6. Len(a) = k /\ \A x \in 1 .. k : a[x] = args[x]
  <2>1. k - 1 + 1 = k /\ (~ (1 <= k) => k = 0) /\ \A x \in 1 .. k : 1 + x - 1 = x  BY <1>1
  <2> QED  BY <1>4, <2>1
<1>7. Len(r) = n - k /\ \A x \in 1 .. n - k : r[x] = args[k + x]
  <2>1. n - (k + 1) + 1 = n - k /\ (~ (k + 1 <= n) => n - k = 0)
        /\ \A x \in 1 .. n - k : k + 1 + x - 1 = k + x
    BY <1>1
  <2> QED  BY <1>5, <2>1
<1>8. args \in Seq(Value) /\ Len(args) = n  BY DEF n
<1>9. CASE HasRest[f]
  <2>1. r # NULL  BY <1>5, NullValueAssumption
  <2> DEFINE s == a \o r
  <2>2. /\ s \in Seq(Value) /\ Len(s) = Len(a) + Len(r)
        /\ \A x \in 1 .. Len(a) + Len(r) : s[x] = IF x <= Len(a) THEN a[x] ELSE r[x - Len(a)]
    BY <1>4, <1>5, ConcatProperties
  <2> HIDE DEF s
  <2>3. Len(s) = n /\ \A x \in 1 .. n : s[x] = IF x <= k THEN a[x] ELSE r[x - k]
    <3>1. k + (n - k) = n  BY <1>1
    <3> QED  BY <1>6, <1>7, <2>2, <3>1
  <2>4. ASSUME NEW x \in 1 .. n  PROVE s[x] = args[x]
    <3>1. CASE x <= k
      <4>1. x \in 1 .. k  BY <1>1, <3>1
      <4> QED  BY <1>6, <2>3, <3>1, <4>1
    <3>2. CASE ~ (x <= k)
      <4>1. x - k \in 1 .. n - k /\ k + (x - k) = x  BY <1>1, <3>2
      <4>2. r[x - k] = args[k + (x - k)]  BY <1>7, <4>1
      <4> QED  BY <2>3, <3>2, <4>1, <4>2
    <3> QED  BY <3>1, <3>2
  <2>5. s = args  BY <1>8, <2>2, <2>3, <2>4, SeqEqual
  <2> QED  BY <1>2, <1>9, <2>1, <2>5 DEF s
<1>10. CASE ~ HasRest[f]
  <2>1. k = n  BY <1>1, <1>10
  <2>2. a = args  BY <1>4, <1>6, <1>8, <2>1, SeqEqual
  <2>3. a \o <<>> = a  BY <1>4, ConcatEmptySeq
  <2> QED  BY <1>2, <1>10, <2>2, <2>3
<1> QED  BY <1>9, <1>10

\* The operands of a call instruction, seen from Calls.
LEMMA CallPasses ==
  ASSUME Seen, Fetch, NEW n \in Nat, ~ (Operands <= n), Callee(n).kind = "closure",
         NEW f, f = Callee(n).fn,
         NEW args, args = SubSeq(stack, Len(stack) - n + 1, Len(stack)),
         ArityOk(f, Len(args)), NEW e, e = Bind(f, args),
         NEW o, o = SubSeq(stack, bottom + 1, Len(stack))
  PROVE  Passed(o, n, e) /\ f \in Fn
<1>1. Inv /\ pc # NULL  BY FetchFacts DEF Seen
<1>2. /\ Callee(n) \in Value /\ args \in Seq(Value) /\ f \in Fn
  BY <1>1, CallOperands, CalleeFn
<1>3. PICK d : d = Operands  OBVIOUS
<1>4. PICK b : b = bottom  OBVIOUS
<1>5. /\ d \in Nat /\ b \in Nat /\ Len(stack) = b + d /\ Len(o) = d /\ n < d
      /\ \A i \in 1 .. d : o[i] = stack[b + i]
  <2>1. /\ Len(stack) \in Nat /\ bottom \in Nat /\ bottom <= Len(stack)
        /\ Len(o) = Operands /\ Operands \in Nat
        /\ \A i \in 1 .. Operands : o[i] = stack[bottom + i]
    BY <1>1, StackOps
  <2>2. Operands = Len(stack) - bottom  BY DEF Operands
  <2> QED  BY <1>3, <1>4, <2>1, <2>2
<1>6. n \in 0 .. Len(o) - 1 /\ d - n \in 1 .. d /\ b + (d - n) = Len(stack) - n
  <2>1. \A x, y, z \in Nat : z < y => /\ z \in 0 .. y - 1 /\ y - z \in 1 .. y
                                     /\ x + (y - z) = x + y - z
    OBVIOUS
  <2>2. n \in 0 .. d - 1 /\ d - n \in 1 .. d /\ b + (d - n) = b + d - n  BY <1>5, <2>1
  <2>3. Len(o) = d /\ Len(stack) = b + d  BY <1>5
  <2>4. n \in 0 .. Len(o) - 1  BY <2>2, <2>3
  <2>5. d - n \in 1 .. d  BY <2>2
  <2>6. b + (d - n) = Len(stack) - n
    <3>1. b \in Nat /\ d \in Nat /\ n \in Nat  BY <1>5
    <3> QED  BY <2>2, <2>3, <3>1
  <2> QED  BY <2>4, <2>5, <2>6
<1>7. o[Len(o) - n] = Callee(n)
  <2>1. o[d - n] = stack[b + (d - n)]  BY <1>5, <1>6
  <2> QED  BY <1>5, <1>6, <2>1 DEF Callee
<1>8. SubSeq(o, Len(o) - n + 1, Len(o)) = args
  <2>1. d - n + 1 \in Nat \ {0} /\ d \in Int /\ d <= Operands
    BY <1>3, <1>5
  <2>2. SubSeq(o, d - n + 1, d) = SubSeq(stack, bottom + (d - n + 1), bottom + d)
    BY <1>1, <2>1, OpsPart
  <2>3. b + (d - n + 1) = Len(stack) - n + 1 /\ b + d = Len(stack)  BY <1>5
  <2> QED  BY <1>4, <1>5, <2>2, <2>3
<1>9. args = e.args \o (IF e.rest = NULL THEN <<>> ELSE e.rest)  BY <1>2, BindArgs
<1>10. e.fn = f  BY DEF Bind
<1> QED  BY <1>2, <1>6, <1>7, <1>8, <1>9, <1>10 DEF Passed


LEMMA NoOps ==
  ASSUME NEW s, NEW a \in Int, NEW b \in Int, ~ (a <= b)
  PROVE  SubSeq(s, a, b) = <<>>
<1>1. \A i \in a .. b : s[i] \in {}  BY SMT
<1>2. SubSeq(s, a, b) \in Seq({}) /\ Len(SubSeq(s, a, b)) = 0  BY <1>1, SubSeqProperties
<1> QED  BY <1>2, EmptySeq

\* The activation below a frame of a call instruction, or of siexec.
LEMMA LowerNext ==
  ASSUME NEW q, NEW fr, fr = stack'[q]
  PROVE  /\ IsAct(Lower(q)') /\ Lower(q)'.env = fr.env
         /\ Lower(q)'.ops = SubSeq(stack', fr.bottom + 1, q - 1)
         /\ Lower(q)'.byLib = (stack'[fr.bottom].ret = NULL)
         /\ fr.ret # NULL => Lower(q)'.pc = fr.ret /\ Lower(q)'.lib = NULL
         /\ fr.ret = NULL => /\ Lower(q)'.pc = cstack'[2 * Rank(q)' - 1].pc
                             /\ Lower(q)'.lib = Waiting(cstack'[2 * Rank(q)' - 2])
BY DEF Lower, IsAct, Waiting


LEMMA TailCallCalls ==
  ASSUME Seen, mode' = "run" => Seen', Fetch, NEW n \in Nat, ~ (Operands <= n),
         Callee(n).kind = "closure", CallClosure(n, TRUE)
  PROVE  ActivationView!Next
<1>f. PICK f : f = Callee(n).fn  OBVIOUS
<1>a. PICK args : args = SubSeq(stack, Len(stack) - n + 1, Len(stack))  OBVIOUS
<1>b. PICK b : b = Cardinality(BaseFrames)  OBVIOUS
<1>1. /\ mode = "run" /\ pc # NULL /\ Inv /\ Innermost.by = "siexec"
      /\ bottom \in FramePos /\ bottom \in Nat \ {0} /\ bottom <= Len(stack)
  BY FetchFacts DEF Seen
<1>2. CASE ~ ArityOk(f, n) \/ NumArgs[f] > EnvSize[f]
  BY <1>1, <1>2, <1>f, FaultCalls DEF CallClosure
<1>3. CASE ~ (~ ArityOk(f, n) \/ NumArgs[f] > EnvSize[f])
  <2>1. NewFrame(SubSeq(stack, 1, Frame.top), Frame.bottom, Frame.limit, StackSize[f],
                 Frame.ret, Frame.env)
        /\ pc' = <<f, 0>> /\ env' = Bind(f, args) /\ UNCHANGED <<mode, cstack>>
    BY <1>3, <1>f, <1>a DEF CallClosure
  <2>2. TypeOK /\ FramesOK /\ stack \in Seq(Value \cup FrameRecord)
    BY <1>1, RunFacts DEF TypeOK
  <2>3. Frame \in FrameRecord /\ Frame.top = bottom - 1
        /\ Frame = [bottom |-> Frame.bottom, limit |-> Frame.limit, top |-> Frame.top,
                    ret |-> Frame.ret, env |-> Frame.env]
    BY <1>1, <2>2, FrameFacts
  <2>4. PICK st : st = SubSeq(stack, 1, bottom - 1)  OBVIOUS
  <2>5. /\ st \in Seq(Value \cup FrameRecord) /\ Len(st) = bottom - 1
        /\ \A i \in 1 .. bottom - 1 : st[i] = stack[i]
    <3>1. \A i \in 1 .. bottom - 1 : stack[i] \in Value \cup FrameRecord  BY <1>1, <2>2
    <3>2. /\ st \in Seq(Value \cup FrameRecord)
          /\ Len(st) = IF 1 <= bottom - 1 THEN bottom - 1 - 1 + 1 ELSE 0
          /\ \A i \in 1 .. bottom - 1 - 1 + 1 : st[i] = stack[1 + i - 1]
      BY <1>1, <2>4, <3>1, SubSeqProperties
    <3> QED  BY <1>1, <3>2
  <2>6. st = SubSeq(stack, 1, Frame.top)  BY <2>3, <2>4
  <2>7. stack' = Append(st, Frame) /\ bottom' = bottom
    <3>1. stack' = Append(st, [bottom |-> Frame.bottom, limit |-> Frame.limit, top |-> Len(st),
                               ret |-> Frame.ret, env |-> Frame.env])
          /\ bottom' = Len(st) + 1
      BY <2>1, <2>6 DEF NewFrame
    <3>2. Len(st) = Frame.top /\ Len(st) + 1 = bottom  BY <1>1, <2>3, <2>5
    <3> QED  BY <2>3, <3>1, <3>2
  <2>8. Len(stack') = bottom /\ \A i \in 1 .. bottom : stack'[i] = stack[i]
    <3>1. /\ Len(stack') = Len(st) + 1
          /\ \A i \in 1 .. Len(st) : stack'[i] = st[i]
          /\ stack'[Len(st) + 1] = Frame
      BY <2>3, <2>5, <2>7
    <3>2. Len(st) + 1 = bottom  BY <1>1, <2>5
    <3>3. stack'[bottom] = stack[bottom]  BY <3>1, <3>2 DEF Frame
    <3>4. \A i \in 1 .. bottom - 1 : stack'[i] = stack[i]  BY <2>5, <3>1
    <3>5. \A i \in 1 .. bottom : i \in 1 .. bottom - 1 \/ i = bottom  BY <1>1
    <3> QED  BY <3>1, <3>2, <3>3, <3>4, <3>5
  <2>9. Len(args) = n  BY <1>1, <1>a, CallOperands
  <2>10. PICK e : e = Bind(f, args)  OBVIOUS
  <2>11. PICK o : o = SubSeq(stack, bottom + 1, Len(stack))  OBVIOUS
  <2>12. ArityOk(f, Len(args))  BY <1>3, <2>9
  <2>13. Passed(o, n, e) /\ e.fn = f /\ f \in Fn
    <3>1. Passed(o, n, e) /\ f \in Fn  BY <1>f, <1>a, <2>10, <2>11, <2>12, CallPasses
    <3> QED  BY <2>10, <3>1 DEF Bind
  <2>14. pc' # NULL  BY <2>1, <2>13, EntryPoint, NotNull
  <2>15. mode' = "run" /\ Seen' /\ Innermost' = Innermost  BY <1>1, <2>1 DEF Innermost
  <2>16. bottom <= Len(stack') /\ \A i \in 1 .. 2 * b - 1 : cstack'[i] = cstack[i]
    BY <1>1, <2>1, <2>8
  <2>17. PICK m : /\ Stacked(m, Upper)
                  /\ Activations' = Append(SubSeq(Activations, 1, m), Upper')
    BY <1>1, <1>b, <2>7, <2>8, <2>15, <2>16, TopStep
  <2>18. PICK t : t = Upper  OBVIOUS
  <2>19. PICK u : u = Upper'  OBVIOUS
  <2>20. /\ t.lib = NULL /\ t.byLib = (stack[bottom].ret = NULL) /\ t.ops = o
    BY <1>1, <2>11, <2>18, UpperRuns
  <2>21. /\ IsAct(u) /\ u.pc = pc' /\ u.env = env' /\ u.lib = NULL
         /\ u.byLib = (stack'[bottom'].ret = NULL)
         /\ u.ops = SubSeq(stack', bottom' + 1, Len(stack'))
    BY <1>1, <2>14, <2>15, <2>19, UpperRunsNext
  <2>22. u.ops = <<>>
    <3>1. u.ops = SubSeq(stack', bottom + 1, bottom)  BY <2>7, <2>8, <2>21
    <3>2. \A k \in Nat : ~ (k + 1 <= k)  OBVIOUS
    <3>3. bottom + 1 \in Int /\ bottom \in Int /\ ~ (bottom + 1 <= bottom)  BY <1>1, <3>2
    <3> QED  BY <3>1, <3>3, NoOps
  <2>23. u.pc = <<u.env.fn, 0>> /\ u.env = e  BY <2>1, <2>10, <2>13, <2>21
  <2>24. u.byLib = t.byLib
    <3>1. stack'[bottom'] = stack[bottom]
      <4>1. bottom \in 1 .. bottom  BY <1>1
      <4> QED  BY <2>7, <2>8, <4>1
    <3> QED  BY <2>20, <2>21, <3>1
  <2>25. Stacked(m, t) /\ Activations' = Append(SubSeq(Activations, 1, m), u)
    BY <2>17, <2>18, <2>19
  <2>26. Passed(t.ops, n, u.env)  BY <2>13, <2>20, <2>23
  <2> QED
    BY <1>1, <2>15, <2>20, <2>21, <2>22, <2>23, <2>24, <2>25, <2>26, IsTailCall
    DEF ActivationView!Next
<1> QED  BY <1>2, <1>3

LEMMA CallCalls ==
  ASSUME Seen, mode' = "run" => Seen', Fetch, NEW n \in Nat, ~ (Operands <= n),
         Callee(n).kind = "closure", CallClosure(n, FALSE)
  PROVE  ActivationView!Next
<1>f. PICK f : f = Callee(n).fn  OBVIOUS
<1>a. PICK args : args = SubSeq(stack, Len(stack) - n + 1, Len(stack))  OBVIOUS
<1>b. PICK b : b = Cardinality(BaseFrames)  OBVIOUS
<1>1. /\ mode = "run" /\ pc # NULL /\ Inv /\ Innermost.by = "siexec"
      /\ bottom \in FramePos /\ bottom \in Nat \ {0} /\ bottom <= Len(stack)
      /\ pc \in Fn \X (0 .. Last) /\ env \in EnvRecord /\ limit \in Nat
  BY FetchFacts DEF Seen
<1>2. CASE ~ ArityOk(f, n) \/ NumArgs[f] > EnvSize[f]
  BY <1>1, <1>2, <1>f, FaultCalls DEF CallClosure
<1>3. CASE ~ (~ ArityOk(f, n) \/ NumArgs[f] > EnvSize[f])
  <2>s. PICK st : st = Drop(stack, n + 1)  OBVIOUS
  <2>r. PICK fr : fr = [bottom |-> bottom, limit |-> limit, top |-> Len(st), ret |-> After,
                        env |-> env]
    OBVIOUS
  <2>1. /\ pc[2] < Last
        /\ stack' = Append(st, fr) /\ bottom' = Len(st) + 1
        /\ pc' = <<f, 0>> /\ env' = Bind(f, args)
        /\ UNCHANGED <<mode, cstack>>
    BY <1>3, <1>f, <1>a, <2>s, <2>r DEF CallClosure, NewFrame
  <2>2. /\ TypeOK /\ b \in Nat /\ stack \in Seq(Value \cup FrameRecord)
        /\ Len(stack) \in Nat
    BY <1>1, <1>b, RunFacts DEF TypeOK
  <2>3. n + 1 \in 0 .. Len(stack) /\ bottom <= Len(stack) - (n + 1) /\ Len(args) = n
        /\ n + 1 <= Operands
    BY <1>1, <1>a, CallOperands
  <2>4. PICK new : new = Len(stack) - (n + 1) + 1  OBVIOUS
  <2>5. /\ new \in Nat \ {0} /\ bottom < new /\ new - 1 = Len(stack) - (n + 1)
        /\ new - 1 \in Nat
    <3>1. \A l, m, k \in Nat : m + 1 \in 0 .. l /\ k <= l - (m + 1) =>
            /\ l - (m + 1) + 1 \in Nat \ {0} /\ k < l - (m + 1) + 1
            /\ l - (m + 1) + 1 - 1 = l - (m + 1) /\ l - (m + 1) \in Nat
      OBVIOUS
    <3>2. bottom \in Nat /\ Len(stack) \in Nat  BY <1>1, <2>2
    <3> QED  BY <2>3, <2>4, <3>1, <3>2
  <2>6. /\ st \in Seq(Value \cup FrameRecord) /\ Len(st) = new - 1
        /\ \A i \in 1 .. new - 1 : st[i] = stack[i]
    <3>1. \A k \in 0 .. Len(stack) :
            /\ Drop(stack, k) \in Seq(Value \cup FrameRecord)
            /\ Len(Drop(stack, k)) = Len(stack) - k
            /\ \A i \in 1 .. Len(stack) - k : Drop(stack, k)[i] = stack[i]
      BY <2>2, Dropped
    <3> QED  BY <2>3, <2>5, <2>s, <3>1
  <2>7. After \in Fn \X (0 .. Last) /\ After # NULL  BY <1>1, <2>1, AfterFacts, NotNull
  <2>8. /\ fr \in FrameRecord /\ fr.bottom = bottom /\ fr.ret = After /\ fr.env = env
    <3>1. After \in PC /\ env \in Env  BY <1>1, <2>7 DEF PC, Env, EnvRecord
    <3>2. Len(st) \in Nat /\ bottom \in Nat  BY <1>1, <2>5, <2>6
    <3> QED  BY <1>1, <2>r, <3>1, <3>2 DEF FrameRecord
  <2>9. /\ bottom' = new /\ Len(stack') = new /\ stack'[new] = fr
        /\ \A i \in 1 .. new - 1 : stack'[i] = stack[i]
    <3>1. /\ Len(stack') = Len(st) + 1
          /\ \A i \in 1 .. Len(st) : stack'[i] = st[i]
          /\ stack'[Len(st) + 1] = fr
      BY <2>1, <2>6, <2>8
    <3>2. Len(st) + 1 = new  BY <2>5, <2>6
    <3> QED  BY <2>1, <2>6, <3>1, <3>2
  <2>10. PICK e : e = Bind(f, args)  OBVIOUS
  <2>11. PICK o : o = SubSeq(stack, bottom + 1, Len(stack))  OBVIOUS
  <2>12. ArityOk(f, Len(args))  BY <1>3, <2>3
  <2>13. Passed(o, n, e) /\ e.fn = f /\ f \in Fn
    <3>1. Passed(o, n, e) /\ f \in Fn  BY <1>f, <1>a, <2>10, <2>11, <2>12, CallPasses
    <3> QED  BY <2>10, <3>1 DEF Bind
  <2>14. pc' # NULL  BY <2>1, <2>13, EntryPoint, NotNull
  <2>15. mode' = "run" /\ Seen' /\ Innermost' = Innermost  BY <1>1, <2>1 DEF Innermost
  <2>16. Activations' = Append(Append(SubSeq(Activations, 1, Depth - 1), Lower(new)'), Upper')
    <3>1. \A i \in 1 .. bottom : stack'[i] = stack[i]
      <4>1. \A i \in 1 .. bottom : i \in 1 .. new - 1  BY <1>1, <2>5
      <4> QED  BY <2>9, <4>1
    <3>2. bottom # 0 /\ new <= Len(stack') /\ stack'[new].bottom = bottom
      BY <1>1, <2>5, <2>8, <2>9
    <3>3. \A i \in 1 .. 2 * b - 1 : cstack'[i] = cstack[i]  BY <2>1
    <3> QED  BY <1>1, <1>b, <2>2, <2>5, <2>9, <2>15, <3>1, <3>2, <3>3, FrameComes
  <2>17. PICK m : m = Depth - 1  OBVIOUS
  <2>18. PICK t : t = Upper  OBVIOUS
  <2>19. PICK u : u = Upper'  OBVIOUS
  <2>20. PICK w : w = Lower(new)'  OBVIOUS
  <2>21. Stacked(m, t)
    <3>1. bottom # 0  BY <1>1
    <3> QED  BY <2>17, <2>18, <3>1, StackedTop
  <2>22. Activations' = Append(Append(SubSeq(Activations, 1, m), w), u)
    BY <2>16, <2>17, <2>19, <2>20
  <2>23. /\ IsAct(t) /\ t.pc = pc /\ t.env = env /\ t.lib = NULL
         /\ t.byLib = (stack[bottom].ret = NULL) /\ t.ops = o
    BY <1>1, <2>11, <2>18, UpperRuns
  <2>24. /\ IsAct(u) /\ u.pc = pc' /\ u.env = env' /\ u.lib = NULL
         /\ u.byLib = (stack'[bottom'].ret = NULL)
         /\ u.ops = SubSeq(stack', bottom' + 1, Len(stack'))
    BY <1>1, <2>14, <2>15, <2>19, UpperRunsNext
  <2>25. u.ops = <<>> /\ u.byLib = FALSE /\ u.pc = <<u.env.fn, 0>> /\ u.env = e
    <3>1. u.ops = SubSeq(stack', new + 1, new)  BY <2>9, <2>24
    <3>2. \A k \in Nat : ~ (k + 1 <= k)  OBVIOUS
    <3>3. new + 1 \in Int /\ new \in Int /\ ~ (new + 1 <= new)  BY <2>5, <3>2
    <3>4. u.ops = <<>>  BY <3>1, <3>3, NoOps
    <3>5. u.byLib = FALSE  BY <2>7, <2>8, <2>9, <2>24
    <3> QED  BY <2>1, <2>10, <2>13, <2>24, <3>4, <3>5
  <2>26. /\ IsAct(w) /\ w.pc = After /\ w.env = env /\ w.lib = NULL
         /\ w.byLib = (stack[bottom].ret = NULL)
         /\ w.ops = SubSeq(stack', bottom + 1, new - 1)
    <3>1. stack'[bottom] = stack[bottom]
      <4>1. bottom \in 1 .. new - 1  BY <1>1, <2>5
      <4> QED  BY <2>9, <4>1
    <3>2. PICK x : x = stack'[new]  OBVIOUS
    <3>3. x.ret # NULL /\ x.ret = After /\ x.bottom = bottom /\ x.env = env
      BY <2>7, <2>8, <2>9, <3>2
    <3>4. /\ IsAct(w) /\ w.env = x.env
          /\ w.ops = SubSeq(stack', x.bottom + 1, new - 1)
          /\ w.byLib = (stack'[x.bottom].ret = NULL)
          /\ w.pc = x.ret /\ w.lib = NULL
      BY <2>20, <3>2, <3>3, LowerNext
    <3> QED  BY <3>1, <3>3, <3>4
  <2>27. w.ops = SubSeq(t.ops, 1, Len(t.ops) - (n + 1))
    <3>1. Len(o) = Operands /\ Operands \in Nat /\ Operands = Len(stack) - bottom
      BY <1>1, <2>11, StackOps DEF Operands
    <3>2. PICK j : j = Operands - (n + 1)  OBVIOUS
    <3>3. j \in Int /\ j <= Operands /\ bottom + j = new - 1
      <4>1. \A l, k, i \in Nat : (l - k) - (i + 1) \in Int /\ (l - k) - (i + 1) <= l - k
                                 /\ k + ((l - k) - (i + 1)) = l - (i + 1)
        OBVIOUS
      <4>2. bottom \in Nat /\ Len(stack) \in Nat  BY <1>1, <2>2
      <4> QED  BY <2>5, <3>1, <3>2, <4>1, <4>2
    <3>4. SubSeq(o, 1, j) = SubSeq(stack, bottom + 1, bottom + j)
      <4>1. 1 \in Nat \ {0}  OBVIOUS
      <4>2. SubSeq(SubSeq(stack, bottom + 1, Len(stack)), 1, j)
              = SubSeq(stack, bottom + 1, bottom + j)
        BY <1>1, <3>3, <4>1, OpsPart
      <4> QED  BY <2>11, <4>2
    <3>5. SubSeq(stack', bottom + 1, new - 1) = SubSeq(stack, bottom + 1, new - 1)
      <4>1. bottom + 1 \in Int /\ new - 1 \in Int
            /\ \A i \in bottom + 1 .. new - 1 : i \in 1 .. new - 1
        BY <1>1, <2>5
      <4> QED  BY <2>9, <4>1, SamePart
    <3> QED  BY <2>23, <2>26, <3>1, <3>2, <3>3, <3>4, <3>5
  <2>28. w.pc = <<t.pc[1], t.pc[2] + 1>> /\ w.env = t.env /\ w.byLib = t.byLib
    BY <2>23, <2>26 DEF After
  <2>29. Passed(t.ops, n, u.env)  BY <2>13, <2>23, <2>25
  <2>30. ActivationView!Call
    BY <1>1, <2>15, <2>21, <2>22, <2>23, <2>24, <2>25, <2>26, <2>27, <2>28, <2>29, IsCall
  <2> QED  BY <2>30 DEF ActivationView!Next
<1> QED  BY <1>2, <1>3


\* Between a and m, t is s, whose members there are in S, and v follows.
Follows(v, t, s, a, m, S) ==
  /\ a \in Nat /\ m \in Nat /\ a <= m /\ v \in S
  /\ \A i \in a + 1 .. m : t[i] = s[i] /\ s[i] \in S
  /\ t[m + 1] = v
Appended(v, t, s, a, m) == SubSeq(t, a + 1, m + 1) = Append(SubSeq(s, a + 1, m), v)

LEMMA PartAppended ==
  ASSUME NEW v, NEW t, NEW s, NEW a, NEW m, NEW S, Follows(v, t, s, a, m, S)
  PROVE  Appended(v, t, s, a, m)
<1>0. /\ a \in Nat /\ m \in Nat /\ a <= m /\ v \in S
      /\ \A i \in a + 1 .. m : t[i] = s[i] /\ s[i] \in S
      /\ t[m + 1] = v
  BY DEF Follows
<1> DEFINE u == SubSeq(t, a + 1, m + 1)
           w == SubSeq(s, a + 1, m)
<1>1. /\ w \in Seq(S) /\ Len(w) = (IF a + 1 <= m THEN m - (a + 1) + 1 ELSE 0)
      /\ \A i \in 1 .. m - (a + 1) + 1 : w[i] = s[a + 1 + i - 1]
  <2>1. \A i \in a + 1 .. m : s[i] \in S  BY <1>0
  <2> QED  BY <1>0, <2>1, SubSeqProperties
<1>2. /\ u \in Seq(S) /\ Len(u) = (IF a + 1 <= m + 1 THEN m + 1 - (a + 1) + 1 ELSE 0)
      /\ \A i \in 1 .. m + 1 - (a + 1) + 1 : u[i] = t[a + 1 + i - 1]
  <2>1. \A i \in a + 1 .. m + 1 : t[i] \in S
    <3>1. \A i \in a + 1 .. m + 1 : i \in a + 1 .. m \/ i = m + 1  BY <1>0
    <3> QED  BY <1>0, <3>1
  <2> QED  BY <1>0, <2>1, SubSeqProperties
<1> HIDE DEF u, w
<1>3. Len(w) = m - a /\ m - a \in Nat /\ \A i \in 1 .. m - a : w[i] = s[a + i]
  <2>1. m - (a + 1) + 1 = m - a /\ (~ (a + 1 <= m) => m - a = 0) /\ m - a \in Nat
        /\ \A i \in 1 .. m - a : a + 1 + i - 1 = a + i
    BY <1>0
  <2> QED  BY <1>1, <2>1
<1>4. Len(u) = m - a + 1 /\ \A i \in 1 .. m - a + 1 : u[i] = t[a + i]
  <2>1. m + 1 - (a + 1) + 1 = m - a + 1 /\ a + 1 <= m + 1
        /\ \A i \in 1 .. m - a + 1 : a + 1 + i - 1 = a + i
    BY <1>0
  <2> QED  BY <1>2, <2>1
<1>5. /\ Append(w, v) \in Seq(S) /\ Len(Append(w, v)) = m - a + 1
      /\ \A i \in 1 .. m - a : Append(w, v)[i] = w[i]
      /\ Append(w, v)[m - a + 1] = v
  <2>1. v \in S /\ w \in Seq(S) /\ Len(w) = m - a /\ 1 .. Len(w) = 1 .. m - a
        /\ Len(w) + 1 = m - a + 1
    BY <1>0, <1>1, <1>3
  <2> QED  BY <2>1, AppendProperties
<1>6. ASSUME NEW i \in 1 .. m - a + 1  PROVE u[i] = Append(w, v)[i]
  <2>1. CASE i = m - a + 1
    <3>1. a + (m - a + 1) = m + 1  BY <1>0
    <3>2. u[m - a + 1] = v  BY <1>0, <1>3, <1>4, <3>1
    <3> QED  BY <1>5, <2>1, <3>2
  <2>2. CASE i # m - a + 1
    <3>1. i \in 1 .. m - a /\ a + i \in a + 1 .. m  BY <1>0, <1>3, <2>2
    <3> QED  BY <1>0, <1>3, <1>4, <1>5, <3>1
  <2> QED  BY <2>1, <2>2
<1>7. u = Append(w, v)  BY <1>2, <1>4, <1>5, <1>6, SeqEqual
<1> QED  BY <1>7 DEF u, w, Appended

\* The activation that a return uncovers.
LEMMA Uncovered ==
  ASSUME Seen, Seen', pc # NULL,
         NEW v \in Value, NEW cs, DestroyAndPush(v, cs),
         \/ Innermost.by = "siexec" /\ cs = cstack
         \/ Innermost.by = "internal" /\ cs = Drop(cstack, 1),
         Frame.bottom # 0, NEW w, w = Lower(bottom), NEW u, u = Upper'
  PROVE  /\ IsAct(w) /\ IsAct(u)
         /\ u.pc = w.pc /\ u.env = w.env /\ u.lib = w.lib /\ u.byLib = w.byLib
         /\ u.ops = IF Frame.ret = NULL THEN w.ops ELSE Append(w.ops, v)
<1>b. PICK b : b = Cardinality(BaseFrames)  OBVIOUS
<1>1. Inv /\ mode = "run" /\ mode' = "run"  BY DEF Seen
<1>2. /\ bottom \in FramePos /\ bottom \in Nat \ {0} /\ b \in Nat \ {0}
      /\ Frame.bottom \in Nat /\ Frame.bottom < bottom
      /\ bottom' = Frame.bottom /\ pc' = Frame.ret /\ env' = Frame.env
      /\ Len(stack') = bottom /\ stack'[bottom] = v
      /\ \A i \in 1 .. bottom - 1 : stack'[i] = stack[i]
      /\ Len(cstack') = 2 * b - 1
      /\ \A i \in 1 .. 2 * b - 1 : cstack'[i] = cstack[i]
      /\ Innermost' = cstack[2 * b - 1] /\ Innermost'.by = "siexec"
      /\ Frame.ret = NULL => bottom \in BaseFrames /\ Rank(bottom) = b /\ BaseOK(b, Frame)
  BY <1>1, <1>b, ReturnFacts
<1>3. PICK c : c = Frame.bottom  OBVIOUS
<1>4. PICK m : m = bottom - 1  OBVIOUS
<1>5. /\ c \in Nat \ {0} /\ m \in Nat /\ c <= m /\ bottom = m + 1 /\ bottom - 1 = m
      /\ c \in 1 .. m
  BY <1>2, <1>3, <1>4
<1>6. stack'[c] = stack[c]  BY <1>2, <1>5
<1>7. /\ IsAct(w) /\ w.env = Frame.env
      /\ w.ops = SubSeq(stack, c + 1, m)
      /\ w.byLib = (stack[c].ret = NULL)
      /\ w.pc = IF Frame.ret = NULL THEN cstack[2 * Rank(bottom) - 1].pc ELSE Frame.ret
      /\ w.lib = IF Frame.ret = NULL THEN Waiting(cstack[2 * Rank(bottom) - 2]) ELSE NULL
  BY <1>3, <1>4 DEF Lower, IsAct, Frame
<1>8. /\ IsAct(u) /\ u.env = env'
      /\ u.byLib = (stack'[c].ret = NULL)
      /\ u.pc = IF pc' = NULL THEN Innermost'.pc ELSE pc'
      /\ u.ops = SubSeq(stack', c + 1, IF pc' = NULL THEN Len(stack') - 1 ELSE Len(stack'))
      /\ u.lib = IF pc' = NULL THEN Waiting(cstack'[Len(cstack') - 1])
                 ELSE IF Innermost'.by = "internal" THEN Waiting(Innermost') ELSE NULL
  <2>1. bottom' = c  BY <1>2, <1>3
  <2> QED  BY <2>1 DEF Upper, IsAct
<1>9. u.env = w.env /\ u.byLib = w.byLib  BY <1>2, <1>6, <1>7, <1>8
<1>10. \A i \in 1 .. m : stack'[i] = stack[i]  BY <1>2, <1>5
<1>11. c + 1 \in Int /\ m \in Int /\ \A i \in c + 1 .. m : i \in 1 .. m  BY <1>5
<1>12. CASE Frame.ret = NULL
  <2>1. b # 1  BY <1>2, <1>12 DEF BaseOK
  <2>2. 2 * b - 1 - 1 = 2 * b - 2 /\ 2 * b - 2 \in 1 .. 2 * b - 1  BY <1>2, <2>1
  <2>3. cstack'[Len(cstack') - 1] = cstack[2 * b - 2]  BY <1>2, <2>2
  <2>4. u.lib = w.lib /\ u.pc = w.pc  BY <1>2, <1>7, <1>8, <1>12, <2>3
  <2>5. Len(stack') - 1 = m  BY <1>2, <1>5
  <2>6. u.ops = SubSeq(stack', c + 1, m)  BY <1>2, <1>8, <1>12, <2>5
  <2>7. SubSeq(stack', c + 1, m) = SubSeq(stack, c + 1, m)  BY <1>10, <1>11, SamePart
  <2> QED  BY <1>7, <1>8, <1>9, <1>12, <2>4, <2>6, <2>7
<1>13. CASE Frame.ret # NULL
  <2>1. pc' # NULL /\ pc' = Frame.ret  BY <1>2, <1>13
  <2>2. u.lib = w.lib /\ u.pc = w.pc  BY <1>2, <1>7, <1>8, <1>13, <2>1
  <2>3. u.ops = SubSeq(stack', c + 1, m + 1)  BY <1>2, <1>5, <1>8, <2>1
  <2>4. SubSeq(stack', c + 1, m + 1) = Append(SubSeq(stack, c + 1, m), v)
    <3>1. PICK S : S = Value \cup FrameRecord  OBVIOUS
    <3>2. stack \in Seq(S) /\ Len(stack) \in Nat /\ bottom <= Len(stack) /\ v \in S
      <4>1. TypeOK  BY <1>1, RunFacts
      <4> QED  BY <3>1, <4>1, StackFacts
    <3>3. \A i \in 1 .. m : stack[i] \in S
      <4>1. \A i \in 1 .. m : i \in 1 .. Len(stack)  BY <1>5, <3>2
      <4> QED  BY <3>2, <4>1
    <3>4. \A i \in c + 1 .. m : stack'[i] = stack[i] /\ stack[i] \in S
      BY <1>10, <1>11, <3>3
    <3>5. stack'[m + 1] = v  BY <1>2, <1>5
    <3>6. c \in Nat /\ m \in Nat /\ c <= m  BY <1>5
    <3>7. Follows(v, stack', stack, c, m, S)  BY <3>2, <3>4, <3>5, <3>6 DEF Follows
    <3>8. Appended(v, stack', stack, c, m)  BY <3>7, PartAppended
    <3> QED  BY <3>8 DEF Appended
  <2> QED  BY <1>7, <1>8, <1>9, <1>13, <2>2, <2>3, <2>4
<1> QED  BY <1>12, <1>13

LEMMA ReturnCalls ==
  ASSUME Seen, Seen', pc # NULL,
         NEW v \in Value, NEW cs, DestroyAndPush(v, cs),
         \/ Innermost.by = "siexec" /\ cs = cstack
         \/ Innermost.by = "internal" /\ cs = Drop(cstack, 1)
  PROVE  Activations' = ActivationView!ReturnTo(v)
<1>b. PICK b : b = Cardinality(BaseFrames)  OBVIOUS
<1>1. Inv /\ mode = "run" /\ mode' = "run"  BY DEF Seen
<1>2. /\ bottom \in FramePos /\ bottom \in Nat \ {0} /\ b \in Nat \ {0}
      /\ bottom' = Frame.bottom /\ Len(stack') = bottom
      /\ \A i \in 1 .. bottom - 1 : stack'[i] = stack[i]
      /\ \A i \in 1 .. 2 * b - 1 : cstack'[i] = cstack[i]
  BY <1>1, <1>b, ReturnFacts
<1>3. bottom # 0 /\ bottom - 1 <= Len(stack')  BY <1>2
<1>4. \A q \in BaseFrames : q <= bottom - 1 => Rank(q) <= b
  <2>1. \A q \in BaseFrames : Rank(q) <= b  BY <1>b, <1>2, BaseRanks
  <2> QED  BY <2>1
<1>5. /\ bottom' = 0 => Depth = 1 /\ Activations' = <<>>
      /\ bottom' # 0 => /\ Depth - 2 \in Nat
                        /\ Activations[Depth - 1] = Lower(bottom)
                        /\ Activations' = Append(SubSeq(Activations, 1, Depth - 2), Upper')
  <2>1. bottom' = stack[bottom].bottom  BY <1>2 DEF Frame
  <2> QED  BY <1>2, <1>3, <1>4, <2>1, FrameGoes
<1>6. PICK n : n = Depth - 1  OBVIOUS
<1>7. PICK t : t = Upper  OBVIOUS
<1>8. PICK u : u = Upper'  OBVIOUS
<1>9. PICK w : w = Lower(bottom)  OBVIOUS
<1>10. Stacked(n, t) /\ n \in Nat /\ Depth = n + 1
  <2>1. Stacked(n, t)  BY <1>3, <1>6, <1>7, StackedTop
  <2>2. Depth \in Nat /\ Depth - 1 \in Nat  BY <1>3, TopFacts
  <2> QED  BY <1>6, <2>1, <2>2
<1>11. t.byLib = (Frame.ret = NULL)  BY <1>7, UpperRuns DEF Frame
<1>12. CASE Frame.bottom = 0
  <2>1. n = 0 /\ Activations' = <<>>  BY <1>2, <1>5, <1>10, <1>12
  <2>2. t.byLib
    <3>1. bottom \in BaseFrames
      <4>1. FramePlaces  BY PlacesHold
      <4>2. \A c : c = stack[bottom].bottom => (c = 0 => bottom \in BaseFrames)
        BY <1>2, <4>1 DEF FramePlaces
      <4> QED  BY <1>12, <4>2 DEF Frame
    <3> QED  BY <1>11, <3>1 DEF BaseFrames, Frame
  <2>3. Returned(n, t, v, u)  BY <2>1, <2>2 DEF Returned
  <2> QED  BY <1>10, <2>3, IsReturnTo
<1>13. CASE Frame.bottom # 0
  <2>1. /\ Depth - 2 \in Nat /\ Activations[Depth - 1] = w
        /\ Activations' = Append(SubSeq(Activations, 1, Depth - 2), u)
    BY <1>2, <1>5, <1>8, <1>9, <1>13
  <2>2. n # 0 /\ n - 1 = Depth - 2  BY <1>10, <2>1
  <2>3. Activations[n] = w /\ Activations' = Append(SubSeq(Activations, 1, n - 1), u)
    BY <1>6, <2>1, <2>2
  <2>4. /\ IsAct(w) /\ IsAct(u)
        /\ u.pc = w.pc /\ u.env = w.env /\ u.lib = w.lib /\ u.byLib = w.byLib
        /\ u.ops = IF Frame.ret = NULL THEN w.ops ELSE Append(w.ops, v)
    BY <1>8, <1>9, <1>13, Uncovered
  <2>5. \A f \in {"pc", "env", "lib", "byLib"} : u[f] = w[f]  BY <2>4
  <2>6. u.ops = IF t.byLib THEN w.ops ELSE Append(w.ops, v)  BY <1>11, <2>4
  <2>7. Returned(n, t, v, u)  BY <2>2, <2>3, <2>4, <2>5, <2>6 DEF Returned
  <2> QED  BY <1>10, <2>7, IsReturnTo
<1> QED  BY <1>12, <1>13


LEMMA RetCalls ==
  ASSUME Seen, mode' = "run" => Seen', NEW pops \in 0 .. 1, NEW v \in Value, Ret(pops, v)
  PROVE  ActivationView!Next
<1>1. Fetch /\ Inv  BY DEF Ret, Seen
<1>2. /\ mode = "run" /\ pc # NULL /\ Innermost.by = "siexec" /\ bottom # 0
  BY <1>1, FetchFacts
<1>3. CASE Operands < pops  BY <1>2, <1>3, FaultCalls DEF Ret
<1>4. CASE ~ (Operands < pops)
  <2>1. PICK w : w = IF pops = 1 THEN stack[Len(stack)] ELSE v  OBVIOUS
  <2>2. w \in Value
    <3>1. CASE pops = 1
      <4>1. Len(stack) \in 1 .. Len(stack) /\ Len(stack) > bottom
        BY <1>1, <1>4, <3>1, FetchFacts DEF Operands
      <4> QED  BY <1>1, <2>1, <3>1, <4>1, FetchFacts, Unmoved
    <3> QED  BY <2>1, <3>1
  <2>3. PICK cs : cs = cstack  OBVIOUS
  <2>4. DestroyAndPush(w, cs)  BY <1>4, <2>1, <2>3 DEF Ret
  <2>5. CASE mode' # "run"
    <3>1. Fault  BY <1>2, <2>4, <2>5 DEF DestroyAndPush
    <3> QED  BY <1>2, <3>1, FaultCalls
  <2>6. CASE mode' = "run"
    <3>1. Activations' = ActivationView!ReturnTo(w)
      BY <1>2, <2>2, <2>3, <2>4, <2>6, ReturnCalls
    <3>2. ActivationView!Free
      <4>1. PICK n : n = Depth - 1  OBVIOUS
      <4>2. PICK t : t = Upper  OBVIOUS
      <4>3. Stacked(n, t)  BY <1>2, <4>1, <4>2, StackedTop
      <4>4. ActivationView!Top = t /\ Activations # <<>>  BY <4>3, StackedFacts
      <4>5. t.lib = NULL  BY <1>2, <4>2, UpperRuns
      <4> QED  BY <1>2, <4>4, <4>5 DEF ActivationView!Free, ActivationView!Running
    <3>3. ActivationView!Return  BY <1>2, <2>2, <2>6, <3>1, <3>2 DEF ActivationView!Return
    <3> QED  BY <3>3 DEF ActivationView!Next
  <2> QED  BY <2>5, <2>6
<1> QED  BY <1>3, <1>4

\* What an internal function has been called with is no NULL.
LEMMA WaitingFacts ==
  ASSUME Inv, mode = "run", Innermost.by = "internal"
  PROVE  /\ Waiting(Innermost) # NULL
         /\ Waiting(Innermost).pops = Innermost.pops /\ Waiting(Innermost).tail = Innermost.tail
<1>1. Innermost.pops \in Nat /\ Innermost.tail \in BOOLEAN  BY InnerFacts
<1>2. Waiting(Innermost) \in [pops : Nat, tail : BOOLEAN]  BY <1>1 DEF Waiting
<1>3. Waiting(Innermost) # NULL  BY <1>2, NullValueAssumption
<1> QED  BY <1>3 DEF Waiting

LEMMA InternalReturnCalls ==
  ASSUME Seen, mode' = "run" => Seen', NEW v \in Value, InternalReturn(v)
  PROVE  ActivationView!Next
<1>b. PICK b : b = Cardinality(BaseFrames)  OBVIOUS
<1>1. mode = "run" /\ Innermost.by = "internal" /\ Inv
  BY DEF InternalReturn, Innermost, Seen
<1>2. /\ pc # NULL /\ pc \in Fn \X (0 .. Last)
      /\ bottom \in Nat \ {0} /\ bottom <= Len(stack) /\ Len(stack) \in Nat /\ limit \in Nat
      /\ Innermost.pops \in Nat /\ Innermost.pops <= Operands
      /\ Innermost.tail \in BOOLEAN /\ (~ Innermost.tail => pc[2] < Last)
  BY <1>1, InnerFacts
<1>3. Len(stack) - Innermost.pops >= limit <=> ~ (Len(stack) - Innermost.pops < limit)  BY <1>2
<1>4. PICK n : n = Depth - 1  OBVIOUS
<1>5. PICK t : t = Upper  OBVIOUS
<1>6. Stacked(n, t)
  <2>1. bottom # 0  BY <1>2
  <2> QED  BY <1>4, <1>5, <2>1, StackedTop
<1>7. ActivationView!Top = t /\ Activations # <<>>  BY <1>6, StackedFacts
<1>8. /\ IsAct(t) /\ t.pc = pc /\ t.env = env /\ t.lib = Waiting(Innermost)
      /\ t.byLib = (stack[bottom].ret = NULL)
      /\ t.ops = SubSeq(stack, bottom + 1, Len(stack))
  BY <1>1, <1>2, <1>5, UpperRuns
<1>9. t.lib # NULL /\ t.lib.pops = Innermost.pops /\ t.lib.tail = Innermost.tail
  BY <1>1, <1>8, WaitingFacts
<1>10. CASE Innermost.tail
  <2>1. PICK cs : cs = Drop(cstack, 1)  OBVIOUS
  <2>2. DestroyAndPush(v, cs)  BY <1>10, <2>1 DEF InternalReturn, Innermost
  <2>3. CASE mode' # "run"
    <3>1. Fault  BY <1>1, <2>2, <2>3 DEF DestroyAndPush
    <3> QED  BY <1>1, <3>1, FaultCalls
  <2>4. CASE mode' = "run"
    <3>1. Activations' = ActivationView!ReturnTo(v)
      BY <1>1, <1>2, <2>1, <2>2, <2>4, ReturnCalls
    <3>2. ActivationView!Busy
      BY <1>1, <1>7, <1>9 DEF ActivationView!Busy, ActivationView!Running
    <3>3. ActivationView!Top.lib.tail  BY <1>7, <1>9, <1>10
    <3>4. ActivationView!LibReturn
      BY <1>1, <2>4, <3>1, <3>2, <3>3 DEF ActivationView!LibReturn
    <3> QED  BY <3>4 DEF ActivationView!Next
  <2> QED  BY <2>3, <2>4
<1>11. CASE ~ Innermost.tail /\ Len(stack) - Innermost.pops >= limit
  <2>1. Fault  BY <1>11, <1>2, <1>3 DEF InternalReturn, Innermost
  <2> QED  BY <1>1, <2>1, FaultCalls
<1>12. CASE ~ Innermost.tail /\ Len(stack) - Innermost.pops < limit
  <2>1. /\ stack' = Append(Drop(stack, Innermost.pops), v)
        /\ pc' = After /\ cstack' = Drop(cstack, 1)
        /\ UNCHANGED <<mode, bottom, limit, env, again>>
    BY <1>12, <1>2, <1>3 DEF InternalReturn, Innermost, regs
  <2>2. PICK k : k = Innermost.pops  OBVIOUS
  <2>3. PICK m : m = Len(stack) - k  OBVIOUS
  <2>4. /\ k \in Nat /\ k <= Operands /\ k \in 0 .. Len(stack)
        /\ m \in Nat /\ bottom <= m /\ m <= Len(stack)
        /\ m - bottom = Operands - k
    BY <1>2, <2>2, <2>3 DEF Operands
  <2>5. PICK S : S = Value \cup FrameRecord  OBVIOUS
  <2>6. /\ TypeOK /\ stack \in Seq(S) /\ b \in Nat \ {0} /\ Len(cstack) = 2 * b
    BY <1>1, <1>b, <1>2, <2>5, RunFacts DEF TypeOK
  <2>7. /\ Len(stack') = m + 1 /\ stack'[m + 1] = v
        /\ \A i \in 1 .. m : stack'[i] = stack[i] /\ stack[i] \in S
    <3>1. PICK d : d = Drop(stack, k)  OBVIOUS
    <3>2. d \in Seq(S) /\ Len(d) = m /\ \A i \in 1 .. m : d[i] = stack[i]
      BY <2>3, <2>4, <2>6, <3>1, Dropped
    <3>3. stack' = Append(d, v) /\ v \in S  BY <2>1, <2>2, <2>5, <3>1
    <3>4. /\ Len(stack') = Len(d) + 1 /\ stack'[Len(d) + 1] = v
          /\ \A i \in 1 .. Len(d) : stack'[i] = d[i]
      BY <3>2, <3>3, AppendProperties
    <3>5. \A i \in 1 .. m : stack[i] \in S
      <4>1. \A i \in 1 .. m : i \in 1 .. Len(stack)  BY <1>2, <2>4
      <4> QED  BY <2>6, <4>1
    <3> QED  BY <3>2, <3>4, <3>5
  <2>8. After # NULL  BY <1>2, <1>12, AfterFacts, NotNull
  <2>9. /\ Len(cstack') = 2 * b - 1
        /\ \A i \in 1 .. 2 * b - 1 : cstack'[i] = cstack[i]
        /\ Innermost'.by = "siexec"
    <3>1. /\ Len(cstack') = Len(cstack) - 1
          /\ \A i \in 1 .. Len(cstack) - 1 : cstack'[i] = cstack[i]
      BY <1>1, <2>1, <2>6, CDrop, SiexecsFinite
    <3>2. cstack[Len(cstack) - 1].by = "siexec"  BY <1>1, <1>b, RunFacts
    <3>3. 2 * b - 1 \in 1 .. 2 * b - 1  BY <2>6
    <3> QED  BY <2>6, <3>1, <3>2, <3>3 DEF Innermost
  <2>10. PICK x : /\ Stacked(x, Upper)
                  /\ Activations' = Append(SubSeq(Activations, 1, x), Upper')
    <3>1. Seen' /\ bottom <= Len(stack')  BY <1>1, <1>2, <2>1, <2>4, <2>7
    <3>2. \A i \in 1 .. bottom : stack'[i] = stack[i]
      <4>1. \A i \in 1 .. bottom : i \in 1 .. m  BY <1>2, <2>4
      <4> QED  BY <2>7, <4>1
    <3> QED  BY <1>b, <1>2, <2>1, <2>9, <3>1, <3>2, TopStep
  <2>11. PICK u : u = Upper'  OBVIOUS
  <2>12. Stacked(x, t) /\ Activations' = Append(SubSeq(Activations, 1, x), u)
    BY <1>5, <2>10, <2>11
  <2>13. /\ IsAct(u) /\ u.pc = After /\ u.env = env /\ u.lib = NULL
         /\ u.byLib = (stack'[bottom].ret = NULL)
         /\ u.ops = SubSeq(stack', bottom + 1, m + 1)
    BY <2>1, <2>7, <2>8, <2>9, <2>11, UpperRunsNext
  <2>14. u.byLib = t.byLib
    <3>1. bottom \in 1 .. m  BY <1>2, <2>4
    <3> QED  BY <1>8, <2>7, <2>13, <3>1
  <2>15. u.ops = Append(SubSeq(t.ops, 1, Len(t.ops) - t.lib.pops), v)
    <3>1. SubSeq(stack', bottom + 1, m + 1) = Append(SubSeq(stack, bottom + 1, m), v)
      <4>1. PICK c : c = bottom  OBVIOUS
      <4>2. c \in Nat /\ m \in Nat /\ c <= m /\ v \in S  BY <1>2, <2>4, <2>5, <4>1
      <4>3. \A i \in c + 1 .. m : stack'[i] = stack[i] /\ stack[i] \in S
        <5>1. \A i \in c + 1 .. m : i \in 1 .. m  BY <4>2
        <5> QED  BY <2>7, <5>1
      <4>4. stack'[m + 1] = v  BY <2>7
      <4>5. Follows(v, stack', stack, c, m, S)  BY <4>2, <4>3, <4>4 DEF Follows
      <4>6. Appended(v, stack', stack, c, m)  BY <4>5, PartAppended
      <4>7. SubSeq(stack', c + 1, m + 1) = Append(SubSeq(stack, c + 1, m), v)
        BY <4>6 DEF Appended
      <4> QED  BY <4>1, <4>7
    <3>2. PICK j : j = Operands - k  OBVIOUS
    <3>3. Operands \in Nat /\ Len(t.ops) = Operands  BY <1>2, <1>8, StackOps
    <3>4. j \in Int /\ j <= Operands /\ bottom + j = m /\ 1 \in Nat \ {0}
      BY <1>2, <2>4, <3>2, <3>3
    <3>5. SubSeq(SubSeq(stack, bottom + 1, Len(stack)), 1, j)
            = SubSeq(stack, bottom + 1, bottom + j)
      BY <1>2, <3>4, OpsPart
    <3>6. SubSeq(t.ops, 1, j) = SubSeq(stack, bottom + 1, m)  BY <1>8, <3>4, <3>5
    <3>7. Len(t.ops) - t.lib.pops = j  BY <1>9, <2>2, <3>2, <3>3
    <3> QED  BY <2>13, <3>1, <3>6, <3>7
  <2>16. u.pc = <<t.pc[1], t.pc[2] + 1>> /\ u.env = t.env  BY <1>8, <2>13 DEF After
  <2>17. mode' = "run" /\ ~ t.lib.tail  BY <1>1, <1>9, <1>12, <2>1
  <2>18. ActivationView!LibReturn
    BY <1>1, <1>8, <1>9, <2>12, <2>13, <2>14, <2>15, <2>16, <2>17, IsLibReturns
  <2> QED  BY <2>18 DEF ActivationView!Next
<1> QED  BY <1>10, <1>11, <1>12, <1>2, <1>3


-----------------------------------------------------------------------------
(***************************************************************************)
(* Call instructions, and the ends of siexec                               *)
(***************************************************************************)

\* Steps that change no activation.
LEMMA SameActs ==
  ASSUME UNCHANGED <<mode, stack, bottom, pc, env, cstack>>
  PROVE  UNCHANGED <<Activations, mode>>
<1>1. FramePos' = FramePos /\ BaseFrames' = BaseFrames  BY DEF FramePos, BaseFrames
<1>2. \A i : Activation(i)' = Activation(i)
  BY <1>1 DEF Activation, Nth, ReturnsTo
<1> QED  BY <1>1, <1>2 DEF Activations

LEMMA CallInstr ==
  ASSUME Seen, mode' = "run" => Seen', NEW n \in 0 .. MaxArgs, NEW tail \in BOOLEAN,
         Call(n, tail)
  PROVE  ActivationView!Next \/ UNCHANGED <<Activations, mode>>
<1>1. Fetch /\ n \in Nat /\ Inv /\ mode = "run"  BY BoundAssumption DEF Call, Seen
<1>2. CASE Operands <= n
  <2>1. Fault  BY <1>2 DEF Call
  <2> QED  BY <1>1, <2>1, FaultCalls
<1>3. CASE ~ (Operands <= n)
  <2>1. Callee(n) \in Value /\ n + 1 <= Operands /\ n + 1 \in Nat
    BY <1>1, <1>3, CallOperands
  <2>2. CASE Callee(n).kind = "closure"
    <3>1. CallClosure(n, tail)  BY <1>3, <2>2 DEF Call
    <3>2. CASE tail
      <4>1. CallClosure(n, TRUE)  BY <3>1, <3>2
      <4> QED  BY <1>1, <1>3, <2>2, <4>1, TailCallCalls
    <3>3. CASE ~ tail
      <4>1. CallClosure(n, FALSE)  BY <3>1, <3>3
      <4> QED  BY <1>1, <1>3, <2>2, <4>1, CallCalls
    <3> QED  BY <3>2, <3>3
  <2>3. CASE Callee(n).kind = "internal"
    <3>1. Begin(n + 1, tail)  BY <1>3, <2>3 DEF Call
    <3> QED  BY <1>1, <2>1, <3>1, BeginCalls
  <2>4. CASE Callee(n).kind = "intcont"
    <3>1. IF n > 0 THEN Fault ELSE Begin(1, tail)  BY <1>3, <2>4 DEF Call
    <3>2. CASE n > 0  BY <1>1, <3>1, <3>2, FaultCalls
    <3>3. CASE ~ (n > 0)
      <4>1. n + 1 = 1 /\ Begin(1, tail)  BY <1>1, <3>1, <3>3
      <4>2. 1 <= Operands /\ 1 \in Nat  BY <2>1, <4>1
      <4> QED  BY <1>1, <4>1, <4>2, BeginCalls
    <3> QED  BY <3>2, <3>3
  <2>5. CASE Callee(n).kind = "object"
    <3>1. Fault  BY <1>3, <2>5 DEF Call
    <3> QED  BY <1>1, <3>1, FaultCalls
  <2>6. CASE Callee(n).kind = "number"
    <3>1. UNCHANGED <<mode, stack, bottom, pc, env, cstack>>
      BY <1>3, <2>6 DEF Call, regs
    <3> QED  BY <3>1, SameActs
  <2>7. Callee(n).kind \in {"closure", "internal", "intcont", "object", "number"}
    BY <2>1, PlainAssumption DEF Value
  <2> QED  BY <2>2, <2>3, <2>4, <2>5, <2>6, <2>7
<1> QED  BY <1>2, <1>3

LEMMA CallInternalInstr ==
  ASSUME Seen, mode' = "run" => Seen', NEW n \in 0 .. MaxArgs, NEW tail \in BOOLEAN,
         CallInternal(n, tail)
  PROVE  ActivationView!Next
<1>1. Fetch /\ n \in Nat /\ Inv /\ mode = "run"
  BY BoundAssumption DEF CallInternal, Seen
<1>2. CASE Operands < n
  <2>1. Fault  BY <1>2 DEF CallInternal
  <2> QED  BY <1>1, <2>1, FaultCalls
<1>3. CASE ~ (Operands < n)
  <2>1. Begin(n, tail)  BY <1>3 DEF CallInternal
  <2>2. n <= Operands  BY <1>1, <1>3, FetchFacts DEF Operands
  <2> QED  BY <1>1, <2>1, <2>2, BeginCalls
<1> QED  BY <1>2, <1>3

\* A library function calls one of the program: the activation that waits for it
\* stays, below the frame with no return address.
LEMMA SiexecCalls ==
  ASSUME Seen, mode' = "run" => Seen', NEW f \in Fn, NEW args \in Seq(Value), Siexec(f, args)
  PROVE  ActivationView!Next
<1>b. PICK b : b = Cardinality(BaseFrames)  OBVIOUS
<1>1. mode = "run" /\ Innermost.by = "internal" /\ Inv  BY DEF Siexec, Innermost, Seen
<1>2. CASE EnvSize[f] < Len(args)
  <2>1. Fault  BY <1>2 DEF Siexec
  <2> QED  BY <1>1, <2>1, FaultCalls
<1>3. CASE ~ (EnvSize[f] < Len(args))
  <2>f. PICK fr : fr = [bottom |-> bottom, limit |-> limit + 1, top |-> Len(stack),
                        ret |-> NULL, env |-> env]
    OBVIOUS
  <2>c. PICK c : c = [by |-> "siexec", env |-> env, pc |-> pc]  OBVIOUS
  <2>1. /\ stack' = Append(stack, fr) /\ bottom' = Len(stack) + 1
        /\ env' = [fn |-> f, scope |-> 0, args |-> args, rest |-> NULL]
        /\ pc' = <<f, 0>> /\ cstack' = Append(cstack, c) /\ UNCHANGED mode
    BY <1>3, <2>f, <2>c DEF Siexec, NewFrame
  <2>2. /\ pc # NULL /\ pc \in Fn \X (0 .. Last) /\ env \in EnvRecord
        /\ bottom \in Nat \ {0} /\ bottom <= Len(stack) /\ Len(stack) \in Nat /\ limit \in Nat
    BY <1>1, InnerFacts
  <2>3. /\ TypeOK /\ FramesOK /\ b \in Nat \ {0} /\ Len(cstack) = 2 * b
        /\ stack \in Seq(Value \cup FrameRecord)
    BY <1>1, <1>b, <2>2, RunFacts DEF TypeOK
  <2>4. c \in Exec \cup Inner /\ c.by = "siexec" /\ c.pc = pc
    <3>1. env \in Env /\ pc \in PC  BY <2>2 DEF Env, EnvRecord, PC
    <3> QED  BY <2>c, <3>1 DEF Exec
  <2>5. /\ Len(cstack') = 2 * b + 1
        /\ \A i \in 1 .. 2 * b : cstack'[i] = cstack[i]
        /\ Innermost' = c /\ cstack'[2 * b + 1] = c
    <3>1. /\ Len(cstack') = Len(cstack) + 1
          /\ \A i \in 1 .. Len(cstack) : cstack'[i] = cstack[i]
          /\ Innermost' = c
      BY <2>1, <2>3, <2>4, CPush
    <3> QED  BY <2>3, <3>1 DEF Innermost
  <2>6. /\ fr \in FrameRecord /\ fr.bottom = bottom /\ fr.ret = NULL /\ fr.env = env
    <3>1. env \in Env /\ NULL \in PC  BY <2>2 DEF Env, EnvRecord, PC
    <3>2. bottom \in Nat /\ limit + 1 \in Nat /\ Len(stack) \in Nat  BY <2>2
    <3> QED  BY <2>f, <3>1, <3>2 DEF FrameRecord
  <2>7. PICK new : new = Len(stack) + 1  OBVIOUS
  <2>8. /\ new \in Nat \ {0} /\ bottom < new /\ new - 1 = Len(stack) /\ new - 1 \in Nat
        /\ \A i \in 1 .. bottom : i \in 1 .. Len(stack)
    BY <2>2, <2>7
  <2>9. /\ bottom' = new /\ Len(stack') = new /\ stack'[new] = fr
        /\ \A i \in 1 .. Len(stack) : stack'[i] = stack[i]
        /\ BaseFrames' = BaseFrames \cup {new}
    <3>1. PICK st : st = stack  OBVIOUS
    <3>2. /\ st \in Seq(Value \cup FrameRecord) /\ bottom <= Len(st) /\ Len(st) <= Len(stack)
          /\ \A i \in 1 .. Len(st) : st[i] = stack[i]
          /\ stack' = Append(st, fr)
      BY <2>1, <2>2, <2>3, <3>1
    <3>3. /\ Len(stack') = Len(st) + 1 /\ stack'[Len(st) + 1] = fr
          /\ BaseFrames' = IF fr.ret = NULL THEN BaseFrames \cup {Len(st) + 1} ELSE BaseFrames
      BY <2>3, <2>6, <3>2, FramePushed
    <3>4. \A i \in 1 .. Len(stack) : stack'[i] = stack[i]  BY <2>1, <2>3, <2>6
    <3> QED  BY <2>1, <2>6, <2>7, <3>1, <3>3, <3>4
  <2>10. Rank(new)' = b + 1  BY <1>b, <2>3, <2>8, <2>9, RankPushed
  <2>11. pc' # NULL /\ mode' = "run" /\ Seen'
    <3>1. <<f, 0>> # NULL  BY EntryPoint, NotNull
    <3> QED  BY <1>1, <2>1, <3>1
  <2>12. Activations' = Append(Append(SubSeq(Activations, 1, Depth - 1), Lower(new)'), Upper')
    <3>1. \A i \in 1 .. bottom : stack'[i] = stack[i]  BY <2>8, <2>9
    <3>2. bottom # 0 /\ new <= Len(stack') /\ stack'[new].bottom = bottom
      BY <2>2, <2>6, <2>8, <2>9
    <3>3. \A i \in 1 .. 2 * b - 1 : cstack'[i] = cstack[i]
      <4>1. \A i \in 1 .. 2 * b - 1 : i \in 1 .. 2 * b  BY <2>3
      <4> QED  BY <2>5, <4>1
    <3> QED  BY <1>b, <2>3, <2>8, <2>9, <2>11, <3>1, <3>2, <3>3, FrameComes
  <2>13. PICK m : m = Depth - 1  OBVIOUS
  <2>14. PICK t : t = Upper  OBVIOUS
  <2>15. PICK u : u = Upper'  OBVIOUS
  <2>16. PICK w : w = Lower(new)'  OBVIOUS
  <2>17. Stacked(m, t)
    <3>1. bottom # 0  BY <2>2
    <3> QED  BY <2>13, <2>14, <3>1, StackedTop
  <2>18. /\ IsAct(t) /\ t.pc = pc /\ t.env = env /\ t.lib = Waiting(Innermost)
         /\ t.byLib = (stack[bottom].ret = NULL)
         /\ t.ops = SubSeq(stack, bottom + 1, Len(stack))
    BY <1>1, <2>2, <2>14, UpperRuns
  <2>19. /\ IsAct(u) /\ u.pc = pc' /\ u.env = env' /\ u.lib = NULL
         /\ u.byLib = (stack'[bottom'].ret = NULL)
         /\ u.ops = SubSeq(stack', bottom' + 1, Len(stack'))
    <3>1. Innermost'.by # "internal"  BY <2>4, <2>5
    <3> QED  BY <2>11, <2>15, <3>1, UpperRunsNext
  <2>20. u.ops = <<>> /\ u.byLib = TRUE /\ u.pc = <<u.env.fn, 0>>
    <3>1. u.ops = SubSeq(stack', new + 1, new)  BY <2>9, <2>19
    <3>2. \A k \in Nat : ~ (k + 1 <= k)  OBVIOUS
    <3>3. new + 1 \in Int /\ new \in Int /\ ~ (new + 1 <= new)  BY <2>8, <3>2
    <3>4. u.ops = <<>>  BY <3>1, <3>3, NoOps
    <3>5. u.byLib = TRUE  BY <2>6, <2>9, <2>19
    <3> QED  BY <2>1, <2>19, <3>4, <3>5
  <2>21. w = t
    <3>1. stack'[bottom] = stack[bottom]
      <4>1. bottom \in 1 .. Len(stack)  BY <2>2
      <4> QED  BY <2>9, <4>1
    <3>2. PICK x : x = stack'[new]  OBVIOUS
    <3>3. x.ret = NULL /\ x.bottom = bottom /\ x.env = env  BY <2>6, <2>9, <3>2
    <3>4. /\ IsAct(w) /\ w.env = x.env
          /\ w.ops = SubSeq(stack', x.bottom + 1, new - 1)
          /\ w.byLib = (stack'[x.bottom].ret = NULL)
          /\ w.pc = cstack'[2 * Rank(new)' - 1].pc
          /\ w.lib = Waiting(cstack'[2 * Rank(new)' - 2])
      BY <2>16, <3>2, <3>3, LowerNext
    <3>5. /\ 2 * (b + 1) - 1 = 2 * b + 1 /\ 2 * (b + 1) - 2 = 2 * b /\ 2 * b \in 1 .. 2 * b
      BY <2>3
    <3>6. cstack'[2 * Rank(new)' - 1] = c /\ cstack'[2 * Rank(new)' - 2] = Innermost
      BY <2>3, <2>5, <2>10, <3>5 DEF Innermost
    <3>7. w.pc = t.pc /\ w.lib = t.lib  BY <2>4, <2>18, <3>4, <3>6
    <3>8. w.env = t.env /\ w.byLib = t.byLib  BY <2>18, <3>1, <3>3, <3>4
    <3>9. w.ops = t.ops
      <4>1. SubSeq(stack', bottom + 1, Len(stack)) = SubSeq(stack, bottom + 1, Len(stack))
        <5>1. bottom + 1 \in Int /\ Len(stack) \in Int
              /\ \A i \in bottom + 1 .. Len(stack) : i \in 1 .. Len(stack)
          BY <2>2
        <5> QED  BY <2>9, <5>1, SamePart
      <4> QED  BY <2>8, <2>18, <3>3, <3>4, <4>1
    <3> QED  BY <2>18, <3>4, <3>7, <3>8, <3>9 DEF IsAct
  <2>22. t.lib # NULL  BY <1>1, <2>18, WaitingFacts
  <2>23. Activations' = Append(Append(SubSeq(Activations, 1, m), t), u)
    BY <2>12, <2>13, <2>15, <2>16, <2>21
  <2>24. ActivationView!LibCalls
    BY <1>1, <2>11, <2>17, <2>19, <2>20, <2>22, <2>23, IsLibCalls
  <2> QED  BY <2>24 DEF ActivationView!Next
<1> QED  BY <1>2, <1>3


\* With no frame of siexec there is none at all: the first one is of siexec.
LEMMA NoActs ==
  ASSUME Seen, BaseFrames = {}
  PROVE  Activations = <<>>
<1>1. FramePlaces /\ ActsShape  BY PlacesHold, ShapeHolds
<1>2. Depth \in Nat  BY <1>1 DEF FramePlaces
<1>3. Depth = 0
  <2> SUFFICES ASSUME Depth # 0 PROVE FALSE  OBVIOUS
  <2>1. 1 \in 1 .. Depth  BY <1>2
  <2>2. PICK p : p = Nth(1)  OBVIOUS
  <2>3. p \in FramePos /\ Place(p) = 1  BY <1>1, <2>1, <2>2 DEF FramePlaces
  <2>4. PICK b : b = stack[p].bottom  OBVIOUS
  <2>5. b # 0 /\ b \in FramePos /\ Place(p) = Place(b) + 1
    BY <1>1, <2>3, <2>4 DEF FramePlaces
  <2>6. Place(b) \in 1 .. Depth  BY <1>1, <2>5 DEF FramePlaces
  <2> QED  BY <1>2, <2>3, <2>5, <2>6
<1>4. PICK S : Activations \in Seq(S)  BY <1>1 DEF ActsShape
<1>5. Len(Activations) = 0  BY <1>1, <1>3 DEF ActsShape
<1> QED  BY <1>4, <1>5, EmptySeq

\* The main loop of siexec has ended: in Calls nothing happens, but at the end of the
\* whole run.
LEMMA SiexecEndCalls ==
  ASSUME Seen, mode' = "run" => Seen', SiexecEnd
  PROVE  ActivationView!Next \/ UNCHANGED <<Activations, mode>>
<1>b. PICK b : b = Cardinality(BaseFrames)  OBVIOUS
<1>1. /\ mode = "run" /\ Innermost.by = "siexec" /\ pc = NULL /\ Inv /\ EnvOK
      /\ stack' = IF Operands = 0 THEN stack ELSE Drop(stack, 1)
      /\ pc' = Innermost.pc /\ env' = Innermost.env /\ cstack' = Drop(cstack, 1)
      /\ mode' = IF cstack' = <<>> THEN "done" ELSE mode
      /\ UNCHANGED bottom
  BY DEF SiexecEnd, InLoop, Innermost, Seen
<1>2. /\ TypeOK /\ TopOK /\ LoopsOK /\ b \in Nat
      /\ Len(cstack) \in Nat \ {0} /\ Len(cstack) = 2 * b + 1
  BY <1>1, <1>b, RunFacts
<1>3. /\ Len(cstack') = 2 * b /\ cstack' \in Seq(Exec \cup Inner)
      /\ \A i \in 1 .. 2 * b : cstack'[i] = cstack[i]
  <2>1. /\ cstack' \in Seq(Exec \cup Inner)
        /\ Len(cstack') = Len(cstack) - 1
        /\ \A i \in 1 .. Len(cstack) - 1 : cstack'[i] = cstack[i]
    BY <1>1, <1>2, CDrop
  <2>2. Len(cstack) - 1 = 2 * b  BY <1>2
  <2> QED  BY <2>1, <2>2
<1>4. CASE b = 0
  <2>1. cstack' = <<>>  BY <1>3, <1>4, EmptySeq
  <2>2. mode' = "done"  BY <1>1, <2>1
  <2>3. BaseFrames = {}
    <3>1. IsFiniteSet(BaseFrames)  BY <1>2, RankFacts
    <3> QED  BY <1>b, <1>4, <3>1, FS_EmptySet
  <2>4. Activations = <<>>  BY <2>3, NoActs
  <2>5. Activations' = <<>>  BY <2>2 DEF Activations
  <2>6. ActivationView!Finish  BY <1>1, <2>2, <2>4, <2>5 DEF ActivationView!Finish
  <2> QED  BY <2>6 DEF ActivationView!Next
<1>5. CASE b # 0
  <2>1. Len(cstack') # 0 /\ Len(cstack) # 1  BY <1>2, <1>3, <1>5
  <2>2. cstack' # <<>>  BY <2>1
  <2>3. mode' = "run" /\ Seen'  BY <1>1, <2>2
  <2>4. /\ bottom # 0 /\ bottom < Len(stack) /\ Innermost.pc \in Fn \X (0 .. Last)
    BY <1>1, <1>2, <2>1 DEF TopOK, Suspended
  <2>5. /\ stack \in Seq(Value \cup FrameRecord) /\ Len(stack) \in Nat /\ bottom \in Nat
    BY <1>2, StackFacts
  <2>6. /\ Len(stack') = Len(stack) - 1
        /\ \A i \in 1 .. Len(stack) - 1 : stack'[i] = stack[i]
    <3>1. Operands # 0 /\ 1 \in 0 .. Len(stack)  BY <2>4, <2>5 DEF Operands
    <3>2. stack' = Drop(stack, 1)  BY <1>1, <3>1
    <3> QED  BY <2>5, <3>1, <3>2, Dropped
  <2>7. bottom \in 1 .. Len(stack) - 1 /\ bottom <= Len(stack) - 1
        /\ \A i \in 1 .. bottom : i \in 1 .. Len(stack) - 1
    BY <2>4, <2>5
  <2>8. /\ \A i \in 1 .. 2 * b - 1 : cstack'[i] = cstack[i]
        /\ Innermost' = cstack[Len(cstack) - 1]
    <3>1. (\A i \in 1 .. 2 * b - 1 : i \in 1 .. 2 * b) /\ 2 * b \in 1 .. 2 * b
          /\ Len(cstack) - 1 = 2 * b
      BY <1>2, <1>5
    <3> QED  BY <1>3, <3>1 DEF Innermost
  <2>9. Activations' = Append(SubSeq(Activations, 1, Depth - 1), Upper')
    <3>1. \A i \in 1 .. bottom : stack'[i] = stack[i]  BY <2>6, <2>7
    <3> QED  BY <1>1, <1>2, <1>b, <2>3, <2>4, <2>6, <2>7, <2>8, <3>1, TopMoves
  <2>10. Innermost'.by = "internal"
    <3>1. 2 * b \in DOMAIN cstack /\ ~ ((2 * b) % 2 = 1) /\ Len(cstack) - 1 = 2 * b
      <4>1. \A k \in Nat : ~ ((2 * k) % 2 = 1)  OBVIOUS
      <4>2. DOMAIN cstack = 1 .. 2 * b + 1  BY <1>2, CFacts
      <4> QED  BY <1>2, <1>5, <4>1, <4>2
    <3> QED  BY <1>2, <2>8, <3>1 DEF LoopsOK
  <2>11. PICK t : t = Upper  OBVIOUS
  <2>12. PICK u : u = Upper'  OBVIOUS
  <2>13. /\ IsAct(t) /\ t.pc = Innermost.pc /\ t.env = env
         /\ t.ops = SubSeq(stack, bottom + 1, Len(stack) - 1)
         /\ t.lib = Waiting(cstack[Len(cstack) - 1])
         /\ t.byLib = (stack[bottom].ret = NULL)
    BY <1>1, <2>11, UpperAct
  <2>14. /\ IsAct(u) /\ u.pc = Innermost.pc /\ u.env = Innermost.env
         /\ u.ops = SubSeq(stack', bottom + 1, Len(stack) - 1)
         /\ u.lib = Waiting(Innermost') /\ u.byLib = (stack'[bottom].ret = NULL)
    <3>1. pc' # NULL  BY <1>1, <2>4, NotNull
    <3> QED  BY <1>1, <2>6, <2>10, <2>12, <3>1, UpperRunsNext
  <2>15. u.ops = t.ops
    <3>1. bottom + 1 \in Int /\ Len(stack) - 1 \in Int
          /\ \A i \in bottom + 1 .. Len(stack) - 1 : i \in 1 .. Len(stack) - 1
      BY <2>5
    <3>2. SubSeq(stack', bottom + 1, Len(stack) - 1) = SubSeq(stack, bottom + 1, Len(stack) - 1)
      BY <2>6, <3>1, SamePart
    <3> QED  BY <2>13, <2>14, <3>2
  <2>16. u.env = t.env  BY <1>1, <2>1, <2>13, <2>14 DEF EnvOK
  <2>17. u.lib = t.lib  BY <2>8, <2>13, <2>14
  <2>18. u.byLib = t.byLib  BY <2>6, <2>7, <2>13, <2>14
  <2>19. u = t  BY <2>13, <2>14, <2>15, <2>16, <2>17, <2>18 DEF IsAct
  <2>20. Activations = Append(SubSeq(Activations, 1, Depth - 1), t)
    <3>1. PICK n : n = Depth - 1  OBVIOUS
    <3>2. Stacked(n, t)  BY <2>4, <2>11, <3>1, StackedTop
    <3>3. PICK S : Activations \in Seq(S)  BY <3>2 DEF Stacked
    <3>4. Len(Activations) = n + 1 /\ n \in Nat /\ Activations[n + 1] = t
      BY <3>2 DEF Stacked
    <3>5. Activations = Append(SubSeq(Activations, 1, n), t)  BY <3>3, <3>4, TopChanged
    <3> QED  BY <3>1, <3>5
  <2>21. Activations' = Activations  BY <2>9, <2>12, <2>19, <2>20
  <2> QED  BY <1>1, <2>3, <2>21
<1> QED  BY <1>4, <1>5

\* pynter_run starts the first activation.
LEMMA RunCalls ==
  ASSUME Seen', Run
  PROVE  ActivationView!Next
<1>1. /\ mode # "run" /\ mode' = "run" /\ bottom' = 1 /\ pc' = <<Entry, 0>>
      /\ stack' = <<[bottom |-> 0, limit |-> 1, top |-> 0, ret |-> NULL, env |-> NULL]>>
      /\ cstack' = <<[by |-> "siexec", env |-> NULL, pc |-> NULL]>>
  BY DEF Run
<1>2. FramePlaces' /\ ActsShape'  BY ShapeNext
<1>3. Len(stack') = 1 /\ stack'[1].ret = NULL /\ stack'[1].bottom = 0
      /\ Innermost'.by = "siexec"
  BY <1>1 DEF Innermost
<1>4. Depth' = 1
  <2>1. 1 \in FramePos' /\ Place(1)' = Depth'
    <3>1. \A b : b = bottom' => IF b = 0 THEN FramePos' = {} /\ Depth' = 0
                                ELSE b \in FramePos' /\ Place(b)' = Depth'
      BY <1>2 DEF FramePlaces
    <3> QED  BY <1>1, <3>1
  <2>2. Place(1)' = 1
    <3>1. \A p \in FramePos' : \A b :
            b = stack'[p].bottom => IF b = 0 THEN Place(p)' = 1 /\ p \in BaseFrames'
                                    ELSE b \in FramePos' /\ b < p /\ Place(p)' = Place(b)' + 1
      BY <1>2 DEF FramePlaces
    <3> QED  BY <1>3, <2>1, <3>1
  <2> QED  BY <2>1, <2>2
<1>5. PICK u : u = Upper'  OBVIOUS
<1>6. Activations' = <<u>>
  <2>1. PICK S : Activations' \in Seq(S)  BY <1>2 DEF ActsShape
  <2>2. PICK a : a = Activations'  OBVIOUS
  <2>3. Len(a) = 1  BY <1>2, <1>4, <2>2 DEF ActsShape
  <2>4. a[1] = u
    <3>1. \A n, v : n = Depth' /\ n # 0 /\ v = Upper' => Activations'[n] = v
      BY <1>2 DEF ActsShape
    <3> QED  BY <1>4, <1>5, <2>2, <3>1
  <2>5. a \in Seq(S)  BY <2>1, <2>2
  <2>6. a = <<u>>  BY <2>3, <2>4, <2>5
  <2> QED  BY <2>2, <2>6
<1>7. pc' # NULL
  <2>1. Entry \in Fn  BY FnAssumption
  <2> QED  BY <1>1, <2>1, EntryPoint, NotNull
<1>8. /\ IsAct(u) /\ u.pc = <<Entry, 0>> /\ u.lib = NULL /\ u.byLib = TRUE /\ u.ops = <<>>
  <2>1. /\ IsAct(u) /\ u.pc = pc'
        /\ u.ops = SubSeq(stack', bottom' + 1, Len(stack'))
        /\ u.lib = IF Innermost'.by = "internal" THEN Waiting(Innermost') ELSE NULL
        /\ u.byLib = (stack'[bottom'].ret = NULL)
    BY <1>5, <1>7, UpperRunsNext
  <2>2. u.ops = SubSeq(stack', 2, 1)  BY <1>1, <1>3, <2>1
  <2>3. ~ (2 <= 1) /\ 2 \in Int /\ 1 \in Int  OBVIOUS
  <2>4. u.ops = <<>>  BY <2>2, <2>3, NoOps
  <2> QED  BY <1>1, <1>3, <2>1, <2>4
<1>9. u = ActivationView!Enter(Entry, u.env, TRUE)  BY <1>8 DEF IsAct, ActivationView!Enter
<1>10. Activations'[1] = u  BY <1>6
<1>11. \E f \in Fn : Activations' = <<ActivationView!Enter(f, Activations'[1].env, TRUE)>>
  <2>1. Entry \in Fn  BY FnAssumption
  <2>2. Activations' = <<ActivationView!Enter(Entry, Activations'[1].env, TRUE)>>
    BY <1>6, <1>9, <1>10
  <2> QED  BY <2>1, <2>2
<1>12. ActivationView!Run  BY <1>1, <1>11 DEF ActivationView!Run
<1> QED  BY <1>12 DEF ActivationView!Next


-----------------------------------------------------------------------------
(***************************************************************************)
(* The theorem                                                             *)
(***************************************************************************)

LEMMA InstructionSteps ==
  ASSUME Seen, mode' = "run" => Seen', Instruction
  PROVE  ActivationView!Next \/ UNCHANGED <<Activations, mode>>
<1>1. ASSUME NEW v \in Value, Push(v) \/ Unary(v) \/ Binary(v)  PROVE ActivationView!Next
  <2>1. <<v>> \in Seq(Value)  OBVIOUS
  <2> QED  BY <1>1, <2>1, OperateCalls DEF Push, Unary, Binary
<1>2. ASSUME Pop \/ StoreElement  PROVE ActivationView!Next
  <2>1. << >> \in Seq(Value)  OBVIOUS
  <2> QED  BY <1>2, <2>1, OperateCalls DEF Pop, StoreElement
<1>3. ASSUME NEW n \in 0 .. 1, NEW k \in 0 .. Last, Branch(n, k)  PROVE ActivationView!Next
  BY <1>3, BranchCalls
<1>4. ASSUME NEW s \in 0 .. MaxScope, Scope(s)  PROVE ActivationView!Next
  BY <1>4, ScopeCalls
<1>5. ASSUME NEW n \in 0 .. MaxArgs, NEW tail \in BOOLEAN,
             Call(n, tail) \/ CallInternal(n, tail)
      PROVE  ActivationView!Next \/ UNCHANGED <<Activations, mode>>
  BY <1>5, CallInstr, CallInternalInstr
<1>6. ASSUME CallAgain  PROVE UNCHANGED <<Activations, mode>>
  BY <1>6, SameActs DEF CallAgain, vars, regs
<1>7. ASSUME NEW pops \in 0 .. 1, NEW v \in Value, Ret(pops, v)  PROVE ActivationView!Next
  BY <1>7, RetCalls
<1> QED  BY <1>1, <1>2, <1>3, <1>4, <1>5, <1>6, <1>7 DEF Instruction

LEMMA LibrarySteps ==
  ASSUME Seen, mode' = "run" => Seen', Library
  PROVE  ActivationView!Next \/ UNCHANGED <<Activations, mode>>
<1>1. \A args \in Args : args \in Seq(Value)  BY BoundAssumption DEF Args
<1>2. ASSUME NEW f \in Fn \ {Entry}, NEW args \in Args, Siexec(f, args)
      PROVE  ActivationView!Next
  BY <1>1, <1>2, SiexecCalls
<1> QED  BY <1>2, InternalReturnCalls, SiexecEndCalls DEF Library

LEMMA InstructionRuns == Instruction => mode = "run"
BY DEF Instruction, Push, Unary, Binary, Pop, StoreElement, Operate, Branch, Scope, Call,
       CallInternal, CallAgain, Ret, Fetch, InLoop

LEMMA StepCalls ==
  Inv /\ EnvOK /\ Inv' /\ EnvOK' /\ [Next]_vars
    => [ActivationView!Next]_(ActivationView!callVars)
<1> SUFFICES ASSUME Inv, EnvOK, Inv', EnvOK', [Next]_vars
             PROVE  ActivationView!Next \/ UNCHANGED <<Activations, mode>>
  BY DEF ActivationView!callVars
<1>1. mode = "run" => Seen  BY DEF Seen
<1>2. mode' = "run" => Seen'  BY DEF Seen
<1>3. ASSUME Instruction
      PROVE  ActivationView!Next \/ UNCHANGED <<Activations, mode>>
  BY <1>1, <1>2, <1>3, InstructionRuns, InstructionSteps
<1>4. ASSUME Library
      PROVE  ActivationView!Next \/ UNCHANGED <<Activations, mode>>
  <2>1. mode = "run"  BY <1>4 DEF Library, InternalReturn, Siexec, SiexecEnd, InLoop
  <2> QED  BY <1>1, <1>2, <1>4, <2>1, LibrarySteps
<1>5. ASSUME Run  PROVE ActivationView!Next
  <2>1. mode' = "run"  BY <1>5 DEF Run
  <2> QED  BY <1>2, <1>5, <2>1, RunCalls
<1>6. ASSUME UNCHANGED vars  PROVE UNCHANGED <<Activations, mode>>
  BY <1>6, SameActs DEF vars, regs
<1> QED  BY <1>3, <1>4, <1>5, <1>6 DEF Next

\* Calls and returns behave as Calls says: whatever is called in between, by
\* instructions, by library functions, or as tail calls of either, a caller finds its
\* operands, its environment and its place again, with the result on top, and a function
\* finds the arguments that it was called with.
THEOREM CallsImplemented == Spec => ImplementsCalls
<1>1. Init => ActivationView!Init
  BY DEF Init, ActivationView!Init, Activations
<1>2. Init => EnvOK  BY DEF Init, EnvOK
<1>3. Spec => [](Inv /\ EnvOK)
  BY <1>2, InitInv, StepInv, EnvStep, PTL DEF Spec
<1>4. (Inv /\ EnvOK) /\ (Inv /\ EnvOK)' /\ [Next]_vars
        => [ActivationView!Next]_(ActivationView!callVars)
  BY StepCalls
<1> QED  BY <1>1, <1>3, <1>4, PTL DEF Spec, ImplementsCalls, ActivationView!Spec
=============================================================================
