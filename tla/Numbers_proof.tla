---------------------------- MODULE Numbers_proof ----------------------------
(***************************************************************************)
(* The integer instructions and functions give Python's results, for every *)
(* width of integers, words and doubles that RangeAssumption and           *)
(* ExactAssumption allow, and for all arguments.                           *)
(***************************************************************************)
EXTENDS Numbers, FiniteSetTheorems, SequenceTheorems, WellFoundedInduction, TLAPS

-----------------------------------------------------------------------------
(***************************************************************************)
(* Jobs                                                                    *)
(***************************************************************************)

JobOK == (job = None /\ out = <<>>) \/ job \in Jobs

LEMMA Constants ==
  /\ IntMax \in Nat /\ IntMax > 0 /\ WordMax \in Nat /\ WideMax \in Nat /\ ExactMax \in Nat
  /\ MaxOut \in Nat /\ MaxOut >= 2 * (WordMax + 1)
  /\ IntMax <= WordMax
  /\ (WordMax + 1) * (WordMax + 1) <= WideMax
<1>1. MaxOut \in Nat /\ 2 * (WordMax + 1) <= MaxOut  BY RangeAssumption
<1>2. IntMax \in Nat \ {0} /\ WordMax \in Nat /\ WideMax \in Nat /\ ExactMax \in Nat
  BY RangeAssumption
<1>3. IntMax <= WordMax /\ (WordMax + 1) * (WordMax + 1) <= WideMax
  BY RangeAssumption
<1> QED  BY <1>1, <1>2, <1>3

LEMMA Int32Facts ==
  \A a \in Int32 : /\ a \in Int /\ - WordMax - 1 <= a /\ a <= WordMax
                   /\ Abs(a) \in Nat /\ Abs(a) <= WordMax + 1
BY Constants DEF Int32, Abs

\* The arguments of each kind of job.
LEMMA JobFacts ==
  ASSUME NEW j \in Jobs
  PROVE  /\ j.op # "none"
         /\ j.op \in {"divmod", "comb"} => j.args[1] \in Int32 /\ j.args[2] \in Int32
         /\ j.op = "isqrt" => j.args[1] \in Int32
         /\ j.op = "range" =>
              j.args[1] \in Int32 /\ j.args[2] \in Int32 /\ j.args[3] \in Int32
         /\ j.op = "subscript" => j.args[1] \in SmallInt /\ j.args[2] \in 0 .. WordMax
         /\ j.op \in {"gcd", "lcm"} => j.args \in Seq(Int32)
<1>1. \/ j \in Fixed("divmod", 2) \cup Fixed("comb", 2) \cup Fixed("isqrt", 1)
              \cup Fixed("range", 3)
      \/ j \in [op : {"subscript"}, args : SmallInt \X (0 .. WordMax)]
      \/ j \in [op : {"gcd", "lcm"}, args : Seq(Int32)]
  BY JobsAssumption
<1>2. ASSUME j \in Fixed("divmod", 2) \/ j \in Fixed("comb", 2)
      PROVE  j.op \in {"divmod", "comb"} /\ j.args[1] \in Int32 /\ j.args[2] \in Int32
  BY <1>2 DEF Fixed
<1>3. ASSUME j \in Fixed("isqrt", 1)  PROVE j.op = "isqrt" /\ j.args[1] \in Int32
  BY <1>3 DEF Fixed
<1>4. ASSUME j \in Fixed("range", 3)
      PROVE  /\ j.op = "range"
             /\ j.args[1] \in Int32 /\ j.args[2] \in Int32 /\ j.args[3] \in Int32
  BY <1>4 DEF Fixed
<1>5. ASSUME j \in [op : {"subscript"}, args : SmallInt \X (0 .. WordMax)]
      PROVE  j.op = "subscript" /\ j.args[1] \in SmallInt /\ j.args[2] \in 0 .. WordMax
  BY <1>5
<1>6. ASSUME j \in [op : {"gcd", "lcm"}, args : Seq(Int32)]
      PROVE  j.op \in {"gcd", "lcm"} /\ j.args \in Seq(Int32)
  BY <1>6
<1> QED  BY <1>1, <1>2, <1>3, <1>4, <1>5, <1>6

\* What a step does to the job: it ends, it is set up, or it goes on.
Ends == job' = None /\ out' = <<>>
Begins == \E j \in Jobs : job' = j /\ regs' = Setup(j) /\ out' = <<>>
GoesOn == job \in Jobs /\ job' = job /\ (Round \/ UNCHANGED vars)

LEMMA Steps == JobOK /\ [Next]_vars => Ends \/ Begins \/ GoesOn
<1> SUFFICES ASSUME JobOK, [Next]_vars  PROVE Ends \/ Begins \/ GoesOn
  OBVIOUS
<1>1. job = None => job.op = "none" /\ out = <<>>
  <2>1. None.op = "none"  BY DEF None
  <2>2. None \notin Jobs  BY <2>1, JobFacts
  <2> QED  BY <2>1, <2>2 DEF JobOK
<1>2. ASSUME NEW j \in Jobs, Start(j)  PROVE Begins
  BY <1>1, <1>2 DEF Start, Begins
<1>3. CASE Finish  BY <1>3 DEF Finish, Ends
<1>4. CASE Round
  <2>1. job.op # "none"
    BY <1>4 DEF Round, DivMod, Subscript, GcdRound, GcdNext, LcmNext, Isqrt, Comb,
                ForIter, Doing
  <2>2. job \in Jobs  BY <1>1, <2>1 DEF JobOK
  <2>3. job' = job
    BY <1>4 DEF Round, DivMod, Subscript, GcdRound, GcdNext, LcmNext, Isqrt, Comb,
                ForIter, Fault, Return
  <2> QED  BY <1>4, <2>2, <2>3 DEF GoesOn
<1>5. CASE UNCHANGED vars
  <2>1. CASE job = None  BY <1>1, <1>5, <2>1 DEF Ends, vars
  <2>2. CASE job \in Jobs  BY <1>5, <2>2 DEF GoesOn, vars
  <2> QED  BY <2>1, <2>2 DEF JobOK
<1> QED  BY <1>2, <1>3, <1>4, <1>5 DEF Next

LEMMA JobStep == JobOK /\ [Next]_vars => JobOK'
BY Steps DEF JobOK, Ends, Begins, GoesOn

LEMMA JobInvariant == Spec => []JobOK
<1>1. Init => JobOK  BY DEF Init, JobOK
<1> QED  BY <1>1, JobStep, PTL DEF Spec

\* Each kind of job has its own actions.
LEMMA RoundOf ==
  ASSUME Round
  PROVE  /\ job.op = "divmod" => DivMod
         /\ job.op = "subscript" => Subscript
         /\ job.op = "gcd" => GcdRound \/ GcdNext
         /\ job.op = "lcm" => GcdRound \/ LcmNext
         /\ job.op = "isqrt" => Isqrt
         /\ job.op = "comb" => Comb
         /\ job.op = "range" => ForIter
BY DEF Round, DivMod, Subscript, GcdRound, GcdNext, LcmNext, Isqrt, Comb, ForIter, Doing

LEMMA NoneFacts == None.op = "none"
BY DEF None

-----------------------------------------------------------------------------
(***************************************************************************)
(* mod and floordiv                                                        *)
(***************************************************************************)

\* Division of natural numbers.
LEMMA DivNat ==
  ASSUME NEW a \in Nat, NEW b \in Nat, b > 0
  PROVE  \E q, r \in Nat : q = a \div b /\ r = a % b /\ r < b /\ a = b * q + r
<1> DEFINE q == a \div b
           r == a % b
<1>1. q \in Int  OBVIOUS
<1>2. q >= 0  OBVIOUS
<1>3. r \in Nat /\ r < b  OBVIOUS
<1>4. r = a - b * q  OBVIOUS
<1> HIDE DEF q, r
<1>5. a = b * q + r  BY <1>1, <1>3, <1>4
<1>6. q \in Nat  BY <1>1, <1>2
<1>7. q = a \div b /\ r = a % b  BY DEF q, r
<1> QED  BY <1>3, <1>5, <1>6, <1>7

\* C's division rounds towards zero.
LEMMA CDivFacts ==
  ASSUME NEW a \in Int, NEW b \in Int, b # 0
  PROVE  /\ CDiv(a, b) \in Int /\ CRem(a, b) \in Int
         /\ a = b * CDiv(a, b) + CRem(a, b)
         /\ a >= 0 => CRem(a, b) >= 0
         /\ a <= 0 => CRem(a, b) <= 0
         /\ CRem(a, b) < Abs(b) /\ - Abs(b) < CRem(a, b)
<1> DEFINE m == Abs(a)
           n == Abs(b)
           q == m \div n
           r == m % n
<1>1. m \in Nat /\ n \in Nat /\ n > 0  BY DEF Abs
<1>2. q \in Nat /\ r \in Nat /\ r < n /\ m = n * q + r
  <2> HIDE DEF m, n
  <2> QED  BY <1>1, DivNat DEF q, r
<1> HIDE DEF q, r
<1>3. CASE a >= 0 /\ b > 0
  <2>1. m = a /\ n = b /\ CDiv(a, b) = q  BY <1>3 DEF CDiv, Abs, q
  <2>2. CRem(a, b) = r  BY <1>2, <2>1 DEF CRem
  <2> QED  BY <1>2, <1>3, <2>1, <2>2
<1>4. CASE a < 0 /\ b < 0
  <2>1. m = - a /\ n = - b /\ CDiv(a, b) = q  BY <1>4 DEF CDiv, Abs, q
  <2>2. CRem(a, b) = - r  BY <1>2, <2>1 DEF CRem
  <2> QED  BY <1>2, <1>4, <2>1, <2>2
<1>5. CASE a < 0 /\ b > 0
  <2>1. m = - a /\ n = b /\ CDiv(a, b) = - q  BY <1>5 DEF CDiv, Abs, q
  <2>2. CRem(a, b) = - r  BY <1>2, <2>1 DEF CRem
  <2> QED  BY <1>2, <1>5, <2>1, <2>2
<1>6. CASE a >= 0 /\ b < 0
  <2>1. m = a /\ n = - b /\ CDiv(a, b) = - q  BY <1>6 DEF CDiv, Abs, q
  <2>2. CRem(a, b) = r  BY <1>2, <2>1 DEF CRem
  <2> QED  BY <1>2, <1>6, <2>1, <2>2
<1> QED  BY <1>3, <1>4, <1>5, <1>6

\* The corrections make it round down.
LEMMA FloorFacts ==
  ASSUME NEW a \in Int, NEW b \in Int, b # 0
  PROVE  /\ FloorDiv(a, b) * b + FloorMod(a, b) = a
         /\ b > 0 => FloorMod(a, b) \in 0 .. b - 1
         /\ b < 0 => FloorMod(a, b) \in b + 1 .. 0
<1> DEFINE q == CDiv(a, b)
           m == CRem(a, b)
<1>1. /\ q \in Int /\ m \in Int /\ a = b * q + m
      /\ m < Abs(b) /\ - Abs(b) < m
  BY CDivFacts
<1>2. FloorDiv(a, b) = IF m # 0 /\ (m < 0) # (b < 0) THEN q - 1 ELSE q
  BY DEF FloorDiv
<1>3. FloorMod(a, b) = IF m # 0 /\ (m < 0) # (b < 0) THEN m + b ELSE m
  BY DEF FloorMod
<1> HIDE DEF q, m
<1>4. (q - 1) * b + (m + b) = q * b + m  BY <1>1
<1>5. q * b + m = a  BY <1>1
<1>6. FloorDiv(a, b) * b + FloorMod(a, b) = a
  BY <1>1, <1>2, <1>3, <1>4, <1>5
<1>7. CASE b > 0  BY <1>1, <1>3, <1>6, <1>7 DEF Abs
<1>8. CASE b < 0  BY <1>1, <1>3, <1>6, <1>8 DEF Abs
<1> QED  BY <1>6, <1>7, <1>8

LEMMA DivModStep == JobOK /\ DivModExact /\ [Next]_vars => DivModExact'
<1> SUFFICES ASSUME JobOK, DivModExact, Ends \/ Begins \/ GoesOn, Done("divmod")'
             PROVE  LET a == job'.args[1]
                        b == job'.args[2]
                    IN  IF b = 0 THEN Result' = FAULT
                        ELSE /\ Result'[1] * b + Result'[2] = a
                             /\ IF b > 0 THEN Result'[2] \in 0 .. b - 1
                                ELSE Result'[2] \in b + 1 .. 0
  BY Steps DEF DivModExact, Result
<1>1. job \in Jobs /\ job' = job /\ job.op = "divmod" /\ (Round \/ UNCHANGED vars)
  BY NoneFacts DEF Ends, Begins, GoesOn, Done
<1>2. CASE UNCHANGED vars  BY <1>1, <1>2 DEF vars, DivModExact, Done, Result
<1>3. CASE Round
  <2> DEFINE a == job.args[1]
             b == job.args[2]
  <2>1. DivMod  BY <1>1, <1>3, RoundOf
  <2>2. a \in Int /\ b \in Int  BY <1>1, JobFacts, Int32Facts
  <2>3. CASE b = 0
    <3>1. out' = <<FAULT>>  BY <2>1, <2>3 DEF DivMod, Fault, Return
    <3> QED  BY <1>1, <2>3, <3>1 DEF Result
  <2>4. CASE b # 0
    <3>1. out' = << <<FloorDiv(a, b), FloorMod(a, b)>> >>
      BY <2>1, <2>4 DEF DivMod, Return
    <3>2. Result' = <<FloorDiv(a, b), FloorMod(a, b)>>  BY <3>1 DEF Result
    <3>3. /\ Result'[1] = FloorDiv(a, b) /\ Result'[2] = FloorMod(a, b)
          /\ job'.args[1] = a /\ job'.args[2] = b
      BY <1>1, <3>2
    <3>4. ~ (b > 0) => b < 0  BY <2>2, <2>4
    <3>5. /\ FloorDiv(a, b) * b + FloorMod(a, b) = a
          /\ b > 0 => FloorMod(a, b) \in 0 .. b - 1
          /\ ~ (b > 0) => FloorMod(a, b) \in b + 1 .. 0
      BY <2>2, <2>4, <3>4, FloorFacts
    <3> HIDE DEF a, b
    <3> QED  BY <2>4, <3>3, <3>5
  <2> QED  BY <2>3, <2>4
<1> QED  BY <1>1, <1>2, <1>3

\* mod and floordiv agree with each other and with Python for all arguments.
THEOREM DivModAlwaysExact == Spec => []DivModExact
<1>1. Init => DivModExact  BY DEF Init, DivModExact, Done
<1> QED  BY <1>1, JobInvariant, DivModStep, PTL DEF Spec

-----------------------------------------------------------------------------
(***************************************************************************)
(* Subscripts                                                              *)
(***************************************************************************)

\* The product of a positive number and any other is no smaller than it.
LEMMA Multiples ==
  ASSUME NEW b \in Nat, b > 0, NEW q \in Int
  PROVE  /\ q >= 1 => b * q >= b
         /\ q <= -1 => b * q <= - b
         /\ q = 0 => b * q = 0
         /\ b * q \in Int
<1>1. q >= 1 => b * q >= b * 1  OBVIOUS
<1>2. q <= -1 => b * q <= b * (-1)
  <2> SUFFICES ASSUME q <= -1  PROVE b * q <= b * (-1)
    OBVIOUS
  <2>1. - q >= 1  OBVIOUS
  <2>2. b * (- q) >= b * 1  BY <2>1
  <2>3. b * (- q) = - (b * q)  OBVIOUS
  <2> QED  BY <2>2, <2>3
<1> QED  BY <1>1, <1>2

LEMMA ModNear ==
  ASSUME NEW i \in Int, NEW len \in Nat, - len <= i, i < len
  PROVE  i % len = IF i < 0 THEN i + len ELSE i
<1> DEFINE q == i \div len
           r == i % len
<1>1. len > 0  OBVIOUS
<1>2. q \in Int /\ r \in Int /\ 0 <= r /\ r < len  BY <1>1
<1>3. r = i - len * q  BY <1>1
<1> HIDE DEF q, r
<1>4. /\ q >= 1 => len * q >= len
      /\ q <= -1 => len * q <= - len
      /\ q = 0 => len * q = 0
      /\ len * q \in Int
  BY <1>1, <1>2, Multiples
<1>5. CASE i >= 0
  <2>1. ~ (q >= 1) /\ ~ (q <= -1)  BY <1>2, <1>3, <1>4, <1>5
  <2>2. q = 0  BY <1>2, <2>1
  <2> QED  BY <1>2, <1>3, <1>4, <1>5, <2>2 DEF r
<1>6. CASE i < 0
  <2>1. (q + 1) \in Int /\ len * (q + 1) = len * q + len  BY <1>2
  <2>2. /\ q + 1 >= 1 => len * (q + 1) >= len
        /\ q + 1 <= -1 => len * (q + 1) <= - len
        /\ q + 1 = 0 => len * (q + 1) = 0
    BY <1>1, <2>1, Multiples
  <2>3. ~ (q + 1 >= 1) /\ ~ (q + 1 <= -1)  BY <1>2, <1>3, <1>4, <1>6, <2>1, <2>2
  <2>4. q + 1 = 0  BY <1>2, <2>3
  <2>5. len * q = - len  BY <1>4, <2>1, <2>2, <2>4
  <2> QED  BY <1>2, <1>3, <1>6, <2>5 DEF r
<1> QED  BY <1>5, <1>6

LEMMA SubscriptStep == JobOK /\ SubscriptExact /\ [Next]_vars => SubscriptExact'
<1> SUFFICES ASSUME JobOK, SubscriptExact, Ends \/ Begins \/ GoesOn, Done("subscript")'
             PROVE  LET i == job'.args[1]
                        len == job'.args[2]
                    IN  IF i \in - len .. len - 1 THEN Result' = i % len ELSE Result' = FAULT
  BY Steps DEF SubscriptExact, Result
<1>1. job \in Jobs /\ job' = job /\ job.op = "subscript" /\ (Round \/ UNCHANGED vars)
  BY NoneFacts DEF Ends, Begins, GoesOn, Done
<1>2. CASE UNCHANGED vars  BY <1>1, <1>2 DEF vars, SubscriptExact, Done, Result
<1>3. CASE Round
  <2> DEFINE i == job.args[1]
             len == job.args[2]
             idx == IF i < 0 THEN i + len ELSE i
  <2>1. Subscript  BY <1>1, <1>3, RoundOf
  <2>2. i \in Int /\ len \in Nat
    <3>1. i \in SmallInt /\ len \in 0 .. WordMax  BY <1>1, JobFacts
    <3> HIDE DEF i, len
    <3> QED  BY <3>1, Constants DEF SmallInt, IntMin
  <2>3. out' = IF idx < 0 \/ idx >= len THEN <<FAULT>> ELSE <<idx>>
    BY <2>1 DEF Subscript, Fault, Return
  <2>4. Result' = IF idx < 0 \/ idx >= len THEN FAULT ELSE idx
    BY <2>3 DEF Result
  <2>5. job'.args[1] = i /\ job'.args[2] = len  BY <1>1
  <2> HIDE DEF i, len
  <2>6. idx < 0 \/ idx >= len <=> ~ (i \in - len .. len - 1)  BY <2>2
  <2>7. i \in - len .. len - 1 => i % len = idx
    <3>1. i \in - len .. len - 1 => - len <= i /\ i < len  BY <2>2
    <3> QED  BY <2>2, <3>1, ModNear
  <2> HIDE DEF idx
  <2> QED  BY <2>4, <2>5, <2>6, <2>7
<1> QED  BY <1>1, <1>2, <1>3

\* The element that a subscript gives is Python's, for lists of every length.
THEOREM SubscriptAlwaysExact == Spec => []SubscriptExact
<1>1. Init => SubscriptExact  BY DEF Init, SubscriptExact, Done
<1> QED  BY <1>1, JobInvariant, SubscriptStep, PTL DEF Spec

-----------------------------------------------------------------------------
(***************************************************************************)
(* isqrt                                                                   *)
(***************************************************************************)

\* The binary search keeps the root between low and high.
IsqrtOK ==
  job.op = "isqrt" /\ out = <<>> =>
    LET n == job.args[1]
    IN  n >= 2 => /\ regs.low \in Nat /\ regs.high \in Nat
                  /\ 1 <= regs.low /\ regs.low <= regs.high /\ regs.high <= n
                  /\ regs.low * regs.low <= n
                  /\ n < (regs.high + 1) * (regs.high + 1)
                  /\ DOMAIN regs = {"low", "high"}

IsqrtInv == JobOK /\ IsqrtOK /\ IsqrtExact

\* One step of the search.
LEMMA Halving ==
  ASSUME NEW low \in Nat, NEW high \in Nat, low < high
  PROVE  /\ Middle(low, high) \in Nat
         /\ low < Middle(low, high) /\ Middle(low, high) <= high
<1> DEFINE q == (high - low + 1) \div 2
<1>1. q \in Nat /\ 1 <= q /\ q <= high - low  OBVIOUS
<1> HIDE DEF q
<1>2. Middle(low, high) = low + q  BY DEF Middle, q
<1> QED  BY <1>1, <1>2

LEMMA Squares ==
  ASSUME NEW a \in Nat, NEW b \in Nat, a <= b
  PROVE  a * a <= b * b /\ a * a \in Nat
<1>1. a * a <= a * b  OBVIOUS
<1>2. a * b <= b * b  OBVIOUS
<1> QED  BY <1>1, <1>2

LEMMA IsqrtStep == IsqrtInv /\ [Next]_vars => IsqrtInv'
<1> SUFFICES ASSUME IsqrtInv, [Next]_vars  PROVE IsqrtInv'
  OBVIOUS
<1>1. JobOK /\ JobOK' /\ (Ends \/ Begins \/ GoesOn)  BY JobStep, Steps DEF IsqrtInv
<1>2. CASE job'.op # "isqrt"
  BY <1>1, <1>2 DEF IsqrtInv, IsqrtOK, IsqrtExact, Done
<1>3. CASE job'.op = "isqrt" /\ Begins
  <2>1. out' = <<>>  BY <1>3 DEF Begins
  <2>2. IsqrtExact'  BY <2>1 DEF IsqrtExact, Done
  <2>3. job' \in Jobs /\ regs' = [low |-> 1, high |-> job'.args[1]]
    BY <1>3 DEF Begins, Setup
  <2> DEFINE n == job'.args[1]
  <2>4. n \in Int  BY <1>3, <2>3, JobFacts, Int32Facts
  <2>5. regs'.low = 1 /\ regs'.high = n /\ DOMAIN regs' = {"low", "high"}  BY <2>3
  <2>6. n >= 2 => n \in Nat /\ n < (n + 1) * (n + 1)
    <3> HIDE DEF n
    <3> SUFFICES ASSUME n >= 2  PROVE n \in Nat /\ n < (n + 1) * (n + 1)
      OBVIOUS
    <3>1. n \in Nat  BY <2>4
    <3>2. (n + 1) * (n + 1) = n * n + 2 * n + 1  BY <3>1
    <3>3. n * n >= 0  BY <3>1
    <3>4. n * n \in Int  BY <3>1
    <3> QED  BY <3>1, <3>2, <3>3, <3>4
  <2>7. n >= 2 => /\ regs'.low \in Nat /\ regs'.high \in Nat
                  /\ 1 <= regs'.low /\ regs'.low <= regs'.high /\ regs'.high <= n
                  /\ regs'.low * regs'.low <= n
                  /\ n < (regs'.high + 1) * (regs'.high + 1)
    <3> HIDE DEF n
    <3> QED  BY <2>4, <2>5, <2>6
  <2>8. IsqrtOK'  BY <2>5, <2>7 DEF IsqrtOK
  <2> QED  BY <1>1, <2>2, <2>8 DEF IsqrtInv
<1>4. CASE job'.op = "isqrt" /\ GoesOn
  <2>1. job \in Jobs /\ job' = job /\ job.op = "isqrt"  BY <1>4 DEF GoesOn
  <2>2. CASE UNCHANGED vars
    <3>1. regs' = regs /\ out' = out  BY <2>2 DEF vars
    <3> QED  BY <1>1, <2>1, <3>1 DEF IsqrtInv, IsqrtOK, IsqrtExact, Done, Result
  <2>3. CASE Round
    <3>1. Isqrt /\ out = <<>>
      <4>1. Isqrt  BY <2>1, <2>3, RoundOf
      <4> QED  BY <4>1 DEF Isqrt, Doing
    <3> DEFINE n == job.args[1]
               low == regs.low
               high == regs.high
               mid == Middle(low, high)
    <3>2. n \in Int /\ job'.args[1] = n  BY <2>1, JobFacts, Int32Facts
    <3>3. CASE n < 0
      <4>1. out' = <<FAULT>>  BY <3>1, <3>3 DEF Isqrt, Fault, Return
      <4>2. out' # <<>> /\ Result' = FAULT  BY <4>1 DEF Result
      <4> QED  BY <1>1, <3>2, <3>3, <4>2 DEF IsqrtInv, IsqrtOK, IsqrtExact
    <3>4. CASE ~ (n < 0) /\ n < 2
      <4>1. out' = <<n>>  BY <3>1, <3>4 DEF Isqrt, Return
      <4>2. out' # <<>> /\ Result' = n  BY <4>1 DEF Result
      <4>3. n * n <= n /\ n < (n + 1) * (n + 1)
        <5>1. n = 0 \/ n = 1  BY <3>2, <3>4
        <5> QED  BY <5>1
      <4> QED  BY <1>1, <3>2, <3>4, <4>2, <4>3 DEF IsqrtInv, IsqrtOK, IsqrtExact
    <3>5. CASE ~ (n < 0) /\ ~ (n < 2)
      <4>1. /\ low \in Nat /\ high \in Nat /\ 1 <= low /\ low <= high /\ high <= n
            /\ low * low <= n /\ n < (high + 1) * (high + 1)
            /\ DOMAIN regs = {"low", "high"}
        <5>1. n >= 2  BY <3>2, <3>5
        <5> QED  BY <2>1, <3>1, <5>1 DEF IsqrtInv, IsqrtOK
      <4>2. CASE low >= high
        <5>1. out' = <<low>>  BY <3>1, <3>5, <4>2 DEF Isqrt, Return
        <5>2. out' # <<>> /\ Result' = low  BY <5>1 DEF Result
        <5>3. low = high  BY <4>1, <4>2
        <5> QED  BY <1>1, <3>2, <3>5, <4>1, <5>2, <5>3 DEF IsqrtInv, IsqrtOK, IsqrtExact
      <4>3. CASE ~ (low >= high)
        <5>1. /\ out' = out
              /\ regs' = IF Fits(mid, n) THEN [regs EXCEPT !.low = mid]
                         ELSE [regs EXCEPT !.high = mid - 1]
          BY <3>1, <3>5, <4>3 DEF Isqrt
        <5>2. mid \in Nat /\ low < mid /\ mid <= high
          <6> HIDE DEF low, high
          <6>1. low < high  BY <4>1, <4>3
          <6> QED  BY <4>1, <6>1, Halving
        <5>3. CASE Fits(mid, n)
          <6>1. regs'.low = mid /\ regs'.high = high /\ DOMAIN regs' = {"low", "high"}
            BY <4>1, <5>1, <5>3
          <6>2. mid * mid <= n  BY <5>3 DEF Fits
          <6>3. 1 <= mid  BY <4>1, <5>2
          <6>4. IsqrtOK'  BY <3>2, <4>1, <5>2, <6>1, <6>2, <6>3 DEF IsqrtOK
          <6> QED  BY <1>1, <3>1, <5>1, <6>4 DEF IsqrtInv, IsqrtExact, Done
        <5>4. CASE ~ Fits(mid, n)
          <6>1. regs'.low = low /\ regs'.high = mid - 1 /\ DOMAIN regs' = {"low", "high"}
            BY <4>1, <5>1, <5>4
          <6>2. mid - 1 \in Nat /\ low <= mid - 1 /\ mid - 1 <= n /\ (mid - 1) + 1 = mid
            <7> HIDE DEF low, high, mid, n
            <7> QED  BY <3>2, <4>1, <5>2
          <6>3. n < mid * mid
            <7>1. ~ (mid * mid <= n)  BY <5>4 DEF Fits
            <7> HIDE DEF n, mid
            <7>2. mid * mid \in Int  BY <5>2
            <7> QED  BY <3>2, <7>1, <7>2
          <6>4. IsqrtOK'  BY <3>2, <4>1, <6>1, <6>2, <6>3 DEF IsqrtOK
          <6> QED  BY <1>1, <3>1, <5>1, <6>4 DEF IsqrtInv, IsqrtExact, Done
        <5> QED  BY <5>3, <5>4
      <4> QED  BY <4>2, <4>3
    <3> QED  BY <3>3, <3>4, <3>5
  <2> QED  BY <1>4, <2>2, <2>3 DEF GoesOn
<1>5. Ends => job'.op # "isqrt"  BY NoneFacts DEF Ends
<1> QED  BY <1>1, <1>2, <1>3, <1>4, <1>5

LEMMA IsqrtInvariant == Spec => []IsqrtInv
<1>1. Init => IsqrtInv
  BY NoneFacts DEF Init, IsqrtInv, JobOK, IsqrtOK, IsqrtExact, Done
<1> QED  BY <1>1, IsqrtStep, PTL DEF Spec

\* isqrt finds the root of every number, rounded down.
THEOREM IsqrtAlwaysExact == Spec => []IsqrtExact
<1>1. IsqrtInv => IsqrtExact  BY DEF IsqrtInv
<1> QED  BY <1>1, IsqrtInvariant, PTL

-----------------------------------------------------------------------------
(***************************************************************************)
(* Divisors                                                                *)
(***************************************************************************)

Divs(d, n) == \E k \in Nat : n = d * k

LEMMA DivsZero == \A d \in Nat : Divs(d, 0)
<1>1. \A d \in Nat : 0 = d * 0  OBVIOUS
<1> QED  BY <1>1 DEF Divs

LEMMA DivsSelf == \A d \in Nat : Divs(d, d)
<1>1. \A d \in Nat : d = d * 1  OBVIOUS
<1> QED  BY <1>1 DEF Divs

\* A divisor of a positive number is no larger.
LEMMA DivsBound ==
  ASSUME NEW d \in Nat, NEW n \in Nat, Divs(d, n), n > 0
  PROVE  d > 0 /\ d <= n
<1>1. PICK k \in Nat : n = d * k  BY DEF Divs
<1>2. d > 0
  <2>1. d = 0 => d * k = 0  OBVIOUS
  <2> QED  BY <1>1, <2>1
<1>3. k >= 1
  <2>1. k = 0 => d * k = 0  OBVIOUS
  <2> QED  BY <1>1, <2>1
<1>4. d * k >= d  BY <1>2, <1>3, Multiples
<1> QED  BY <1>1, <1>2, <1>4

\* A positive number that is a product with a positive one.
LEMMA PositiveFactor ==
  ASSUME NEW d \in Nat, d > 0, NEW z \in Int, d * z >= 0
  PROVE  z \in Nat
<1> SUFFICES ASSUME z <= -1  PROVE FALSE
  OBVIOUS
<1>1. d * z <= - d /\ d * z \in Int  BY Multiples
<1> QED  BY <1>1

\* One division of Euclid's algorithm keeps the common divisors.
LEMMA CRemNat ==
  ASSUME NEW a \in Nat, NEW b \in Nat, b > 0
  PROVE  \E q \in Nat : CRem(a, b) \in Nat /\ CRem(a, b) < b /\ a = b * q + CRem(a, b)
<1>1. PICK q, r \in Nat : q = a \div b /\ r < b /\ a = b * q + r  BY DivNat
<1>2. Abs(a) = a /\ Abs(b) = b /\ ~ (a < 0) /\ ~ (b < 0)  BY DEF Abs
<1>3. CDiv(a, b) = q  BY <1>1, <1>2 DEF CDiv
<1>4. CRem(a, b) = a - b * q  BY <1>3 DEF CRem
<1>5. b * q \in Int  OBVIOUS
<1>6. CRem(a, b) = r  BY <1>1, <1>4, <1>5
<1> QED  BY <1>1, <1>6

LEMMA EuclidDivs ==
  ASSUME NEW a \in Nat, NEW b \in Nat, NEW q \in Nat, NEW c \in Nat, a = b * q + c,
         NEW d \in Nat, d > 0
  PROVE  Divs(d, a) /\ Divs(d, b) <=> Divs(d, b) /\ Divs(d, c)
<1>1. ASSUME Divs(d, a), Divs(d, b)  PROVE Divs(d, c)
  <2>1. PICK k \in Nat, l \in Nat : a = d * k /\ b = d * l  BY <1>1 DEF Divs
  <2>2. (d * l) * q = d * (l * q) /\ l * q \in Nat  OBVIOUS
  <2>3. d * (k - l * q) = d * k - d * (l * q)  BY <2>2
  <2>4. d * (l * q) \in Int /\ d * k \in Int  BY <2>2
  <2>5. c = d * (k - l * q)  BY <2>1, <2>2, <2>3, <2>4
  <2>6. k - l * q \in Int  BY <2>2
  <2>7. k - l * q \in Nat  BY <2>5, <2>6, PositiveFactor
  <2> QED  BY <2>5, <2>7 DEF Divs
<1>2. ASSUME Divs(d, b), Divs(d, c)  PROVE Divs(d, a)
  <2>1. PICK k \in Nat, l \in Nat : c = d * k /\ b = d * l  BY <1>2 DEF Divs
  <2>2. (d * l) * q = d * (l * q) /\ l * q \in Nat  OBVIOUS
  <2>3. d * (l * q + k) = d * (l * q) + d * k  BY <2>2
  <2>4. a = d * (l * q + k)  BY <2>1, <2>2, <2>3
  <2>5. l * q + k \in Nat  BY <2>2
  <2> QED  BY <2>4, <2>5 DEF Divs
<1> QED  BY <1>1, <1>2

\* The quotient and the remainder when there is none.
LEMMA ExactDiv ==
  ASSUME NEW g \in Nat, g > 0, NEW k \in Nat
  PROVE  (g * k) \div g = k /\ (g * k) % g = 0
<1> DEFINE n == g * k
<1>1. n \in Nat  OBVIOUS
<1> HIDE DEF n
<1>2. PICK q, r \in Nat : q = n \div g /\ r = n % g /\ r < g /\ n = g * q + r
  BY <1>1, DivNat
<1>3. g * (k - q) = g * k - g * q  OBVIOUS
<1>4. g * k \in Int /\ g * q \in Int  OBVIOUS
<1>5. r = g * (k - q)  BY <1>2, <1>3, <1>4 DEF n
<1>6. k - q \in Nat
  <2>1. k - q \in Int  OBVIOUS
  <2> QED  BY <1>5, <2>1, PositiveFactor
<1>7. ~ (k - q >= 1)
  <2>1. k - q >= 1 => g * (k - q) >= g  BY <1>6, Multiples
  <2> QED  BY <1>2, <1>5, <2>1
<1>8. k = q  BY <1>6, <1>7
<1>9. r = 0  BY <1>5, <1>6, <1>7
<1> QED  BY <1>2, <1>8, <1>9 DEF n

\* A sum of multiples of A and of B.
Combined(c, A, B) == \E x, y \in Int : c = x * A + y * B

LEMMA EuclidCombined ==
  ASSUME NEW A \in Nat, NEW B \in Nat,
         NEW a \in Nat, NEW b \in Nat, NEW q \in Nat, NEW c \in Nat, a = b * q + c,
         Combined(a, A, B), Combined(b, A, B)
  PROVE  Combined(c, A, B)
<1>1. PICK x \in Int, y \in Int, u \in Int, v \in Int :
        a = x * A + y * B /\ b = u * A + v * B
  BY DEF Combined
<1>2. (x - u * q) * A + (y - v * q) * B = (x * A + y * B) - (u * A + v * B) * q
  OBVIOUS
<1>3. b * q \in Int  OBVIOUS
<1>4. c = a - b * q  BY <1>3
<1>5. c = (x - u * q) * A + (y - v * q) * B  BY <1>1, <1>2, <1>4
<1>6. x - u * q \in Int /\ y - v * q \in Int  OBVIOUS
<1> QED  BY <1>5, <1>6 DEF Combined

\* The least common multiple of A and B, from their greatest common divisor g.
LEMMA LcmDivs ==
  ASSUME NEW A \in Nat, NEW B \in Nat, NEW g \in Nat, A > 0, B > 0, g > 0,
         Divs(g, A), Divs(g, B), Combined(g, A, B),
         NEW r \in Nat
  PROVE  /\ A \div g \in Nat /\ A \div g > 0
         /\ Divs((A \div g) * B, r) <=> Divs(A, r) /\ Divs(B, r)
<1>1. PICK k \in Nat, l \in Nat : A = g * k /\ B = g * l  BY DEF Divs
<1>2. A \div g = k  BY <1>1, ExactDiv
<1>3. k > 0
  <2>1. k = 0 => g * k = 0  OBVIOUS
  <2> QED  BY <1>1, <2>1
<1> DEFINE L == k * B
<1>4. L \in Nat /\ L > 0
  <2>1. k * B \in Nat  OBVIOUS
  <2>2. k * B >= k  BY <1>3, Multiples
  <2> QED  BY <1>3, <2>1, <2>2
<1>5. L = A * l /\ A * B = g * L
  <2>1. k * (g * l) = (g * k) * l  OBVIOUS
  <2>2. (g * k) * B = g * (k * B)  OBVIOUS
  <2> QED  BY <1>1, <2>1, <2>2
<1>6. ASSUME Divs(L, r)  PROVE Divs(A, r) /\ Divs(B, r)
  <2>1. PICK m \in Nat : r = L * m  BY <1>6 DEF Divs
  <2>2. (A * l) * m = A * (l * m) /\ (k * B) * m = B * (k * m)  OBVIOUS
  <2>3. l * m \in Nat /\ k * m \in Nat  OBVIOUS
  <2> QED  BY <1>5, <2>1, <2>2, <2>3 DEF Divs
<1>7. ASSUME Divs(A, r), Divs(B, r)  PROVE Divs(L, r)
  <2>1. PICK s \in Nat, t \in Nat : r = A * s /\ r = B * t  BY <1>7 DEF Divs
  <2>2. PICK x \in Int, y \in Int : g = x * A + y * B  BY DEF Combined
  <2> DEFINE z == x * t + y * s
  <2>3. z \in Int  OBVIOUS
  <2>4. g * r = (x * A) * r + (y * B) * r  BY <2>2
  <2>5. (x * A) * r = (x * A) * (B * t) /\ (y * B) * r = (y * B) * (A * s)  BY <2>1
  <2>6. (x * A) * (B * t) + (y * B) * (A * s) = (A * B) * (x * t + y * s)  OBVIOUS
  <2>7. g * r = (A * B) * z  BY <2>4, <2>5, <2>6
  <2> HIDE DEF z, L
  <2>8. g * r = g * (L * z)
    <3>1. (g * L) * z = g * (L * z)  BY <1>4, <2>3
    <3> QED  BY <1>5, <2>7, <3>1
  <2>9. L * z \in Int  BY <1>4, <2>3
  <2>10. r = L * z
    <3>1. g * (r - L * z) = g * r - g * (L * z)  BY <2>9
    <3>2. g * (r - L * z) = 0
      <4>1. g * r \in Int  OBVIOUS
      <4> QED  BY <2>8, <3>1, <4>1
    <3>3. r - L * z \in Int  BY <2>9
    <3>4. /\ r - L * z >= 1 => g * (r - L * z) >= g
          /\ r - L * z <= -1 => g * (r - L * z) <= - g
      BY <3>3, Multiples
    <3>5. ~ (r - L * z >= 1) /\ ~ (r - L * z <= -1)  BY <3>2, <3>4
    <3> QED  BY <2>9, <3>5
  <2>11. z \in Nat  BY <1>4, <2>3, <2>10, PositiveFactor
  <2> QED  BY <2>10, <2>11 DEF Divs
<1> QED  BY <1>2, <1>3, <1>6, <1>7

-----------------------------------------------------------------------------
(***************************************************************************)
(* gcd and lcm                                                             *)
(***************************************************************************)

Registers(s) == [i : 0 .. Len(s), res : Nat, a : Nat, b : Nat, over : BOOLEAN]
Mags(s) == {Abs(s[i]) : i \in DOMAIN s}

\* gcd with arguments s: the common divisors of a and b are those of the arguments
\* that were taken.
GcdState(s, r) ==
  /\ r \in Registers(s)
  /\ r.res <= WordMax + 1 /\ r.a <= WordMax + 1 /\ r.b <= WordMax + 1
  /\ r.i = 0 => r.a = 0 /\ r.b = 0
  /\ \A d \in Nat \ {0} :
       Divs(d, r.a) /\ Divs(d, r.b) <=> \A k \in 1 .. r.i : Divs(d, Abs(s[k]))

GcdAnswer(s, x) ==
  IF Mags(s) \subseteq {0} THEN x = 0
  ELSE /\ \A m \in Mags(s) : Divides(x, m)
       /\ \A d \in x + 1 .. WordMax + 1 : \E m \in Mags(s) : ~ Divides(d, m)

\* lcm: the multiples of res are those of the arguments before the last, with which
\* a and b have their common divisors in common, unless the product is too large.
LcmState(s, r) ==
  /\ r \in Registers(s)
  /\ 1 <= r.res /\ r.res <= WideMax /\ r.a <= WideMax /\ r.b <= WideMax
  /\ \A k \in 1 .. r.i : Abs(s[k]) > 0
  /\ r.i = 0 => ~ r.over /\ r.res = 1 /\ r.a = 0 /\ r.b = 0
  /\ r.over => r.a = 1 /\ r.b = 0
  /\ ~ r.over /\ r.i > 0 =>
       /\ \A d \in Nat \ {0} :
            Divs(d, r.a) /\ Divs(d, r.b) <=> Divs(d, r.res) /\ Divs(d, Abs(s[r.i]))
       /\ Combined(r.a, r.res, Abs(s[r.i])) /\ Combined(r.b, r.res, Abs(s[r.i]))
       /\ \A n \in Nat : Divs(r.res, n) <=> \A k \in 1 .. r.i - 1 : Divs(Abs(s[k]), n)

LcmAnswer(s, x) ==
  IF 0 \in Mags(s) THEN x = 0
  ELSE x # FLOAT =>
         /\ \A m \in Mags(s) : x % m = 0
         /\ \A r \in 1 .. x - 1 : \E m \in Mags(s) : r % m # 0

LEMMA MagFacts ==
  ASSUME NEW s \in Seq(Int32)
  PROVE  /\ Len(s) \in Nat /\ DOMAIN s = 1 .. Len(s)
         /\ \A k \in 1 .. Len(s) : Abs(s[k]) \in Nat /\ Abs(s[k]) <= WordMax + 1
         /\ \A m \in Mags(s) : m \in Nat /\ m <= WordMax + 1 /\ \E k \in 1 .. Len(s) : m = Abs(s[k])
         /\ \A k \in 1 .. Len(s) : Abs(s[k]) \in Mags(s)
<1>1. Len(s) \in Nat /\ DOMAIN s = 1 .. Len(s) /\ \A k \in 1 .. Len(s) : s[k] \in Int32
  OBVIOUS
<1>2. \A k \in 1 .. Len(s) : Abs(s[k]) \in Nat /\ Abs(s[k]) <= WordMax + 1
  BY <1>1, Int32Facts
<1> QED  BY <1>1, <1>2 DEF Mags

LEMMA DividesIff ==
  ASSUME NEW d \in Nat, d > 0, NEW n \in Nat
  PROVE  Divides(d, n) <=> Divs(d, n)
<1>1. \A k \in Nat : k * d = d * k  OBVIOUS
<1>2. ASSUME NEW k \in Nat, n = d * k  PROVE k \in 0 .. n
  <2>1. k > 0 => k * d >= k  BY Multiples
  <2>2. k * d \in Int  OBVIOUS
  <2> QED  BY <1>1, <1>2, <2>1, <2>2
<1>3. \A k \in 0 .. n : k \in Nat  OBVIOUS
<1> QED  BY <1>1, <1>2, <1>3 DEF Divides, Divs

LEMMA ModIff ==
  ASSUME NEW d \in Nat, d > 0, NEW n \in Nat
  PROVE  n % d = 0 <=> Divs(d, n)
<1>1. PICK q, r \in Nat : q = n \div d /\ r = n % d /\ r < d /\ n = d * q + r
  BY DivNat
<1>2. ASSUME n % d = 0  PROVE Divs(d, n)
  <2>1. d * q \in Int  OBVIOUS
  <2>2. n = d * q  BY <1>1, <1>2, <2>1
  <2> QED  BY <2>2 DEF Divs
<1>3. ASSUME Divs(d, n)  PROVE n % d = 0
  <2>1. PICK k \in Nat : n = d * k  BY <1>3 DEF Divs
  <2> QED  BY <2>1, ExactDiv
<1> QED  BY <1>2, <1>3

\* gcd: one round,
LEMMA GcdRoundState ==
  ASSUME NEW s \in Seq(Int32), NEW r, GcdState(s, r), r.b # 0
  PROVE  GcdState(s, [r EXCEPT !.a = r.b, !.b = CRem(r.a, r.b)])
<1> DEFINE c == CRem(r.a, r.b)
           t == [r EXCEPT !.a = r.b, !.b = c]
<1>1. /\ r \in Registers(s) /\ r.a \in Nat /\ r.b \in Nat /\ r.b > 0 /\ WordMax \in Nat
      /\ r.b <= WordMax + 1
  BY Constants DEF GcdState, Registers
<1>2. PICK q \in Nat : c \in Nat /\ c < r.b /\ r.a = r.b * q + c  BY <1>1, CRemNat
<1> HIDE DEF c
<1>3. t \in Registers(s) /\ t.a = r.b /\ t.b = c /\ t.i = r.i /\ t.res = r.res
  BY <1>1, <1>2 DEF Registers
<1>4. ASSUME NEW d \in Nat \ {0}
      PROVE  Divs(d, t.a) /\ Divs(d, t.b) <=> \A k \in 1 .. r.i : Divs(d, Abs(s[k]))
  <2>1. Divs(d, r.a) /\ Divs(d, r.b) <=> Divs(d, r.b) /\ Divs(d, c)
    <3>1. d \in Nat /\ d > 0  OBVIOUS
    <3> QED  BY <1>1, <1>2, <3>1, EuclidDivs
  <2>2. Divs(d, r.a) /\ Divs(d, r.b) <=> \A k \in 1 .. r.i : Divs(d, Abs(s[k]))
    BY DEF GcdState
  <2> QED  BY <1>3, <2>1, <2>2
<1>5. t.b <= WordMax + 1  BY <1>1, <1>2, <1>3
<1>6. r.i # 0
  <2>1. r.i = 0 => r.b = 0  BY DEF GcdState
  <2> QED  BY <1>1, <2>1
<1> HIDE DEF t
<1>7. GcdState(s, t)  BY <1>1, <1>3, <1>4, <1>5, <1>6 DEF GcdState
<1> QED  BY <1>7 DEF t, c

\* the next argument,
LEMMA GcdNextState ==
  ASSUME NEW s \in Seq(Int32), NEW r, GcdState(s, r), r.b = 0, r.i # Len(s)
  PROVE  GcdState(s, [r EXCEPT !.i = @ + 1, !.res = r.a, !.a = r.a, !.b = Abs(s[r.i + 1])])
<1> DEFINE n == Abs(s[r.i + 1])
           t == [r EXCEPT !.i = @ + 1, !.res = r.a, !.a = r.a, !.b = n]
<1>1. /\ r \in Registers(s) /\ r.a \in Nat /\ r.i \in Nat /\ r.i < Len(s) /\ WordMax \in Nat
      /\ r.a <= WordMax + 1 /\ Len(s) \in Nat
  BY Constants, MagFacts DEF GcdState, Registers
<1>2. r.i + 1 \in 1 .. Len(s) /\ r.i + 1 # 0  BY <1>1
<1>3. n \in Nat /\ n <= WordMax + 1  BY <1>2, MagFacts
<1>4. t \in Registers(s) /\ t.a = r.a /\ t.b = n /\ t.i = r.i + 1 /\ t.res = r.a
  <2>1. r.i + 1 \in 0 .. Len(s)  BY <1>1
  <2> HIDE DEF n
  <2> QED  BY <1>1, <1>3, <2>1 DEF Registers
<1>5. ASSUME NEW d \in Nat \ {0}
      PROVE  Divs(d, r.a) /\ Divs(d, n) <=> \A k \in 1 .. r.i + 1 : Divs(d, Abs(s[k]))
  <2>1. Divs(d, r.a) <=> \A k \in 1 .. r.i : Divs(d, Abs(s[k]))
    <3>1. Divs(d, 0)  BY DivsZero
    <3> QED  BY <3>1 DEF GcdState
  <2>2. 1 .. r.i + 1 = (1 .. r.i) \cup {r.i + 1}  BY <1>1
  <2> QED  BY <2>1, <2>2
<1> HIDE DEF n, t
<1>6. GcdState(s, t)  BY <1>1, <1>2, <1>3, <1>4, <1>5 DEF GcdState
<1> QED  BY <1>6 DEF t, n

\* and the end.
LEMMA GcdEnd ==
  ASSUME NEW s \in Seq(Int32), NEW r, GcdState(s, r), r.b = 0, r.i = Len(s)
  PROVE  GcdAnswer(s, r.a)
<1> DEFINE x == r.a
<1>1. x \in Nat /\ WordMax \in Nat  BY Constants DEF GcdState, Registers
<1>2. \A d \in Nat \ {0} : Divs(d, x) <=> \A m \in Mags(s) : Divs(d, m)
  <2> SUFFICES ASSUME NEW d \in Nat \ {0}
               PROVE  Divs(d, x) <=> \A m \in Mags(s) : Divs(d, m)
    OBVIOUS
  <2>1. Divs(d, x) <=> \A k \in 1 .. Len(s) : Divs(d, Abs(s[k]))
    BY DivsZero DEF GcdState
  <2> QED  BY <2>1, MagFacts
<1> HIDE DEF x
<1>3. ASSUME Mags(s) \subseteq {0}  PROVE x = 0
  <2>1. x + 1 \in Nat \ {0}  BY <1>1
  <2>2. \A m \in Mags(s) : Divs(x + 1, m)  BY <1>3, <2>1, DivsZero
  <2>3. Divs(x + 1, x)  BY <1>2, <2>1, <2>2
  <2>4. x > 0 => x + 1 <= x  BY <1>1, <2>1, <2>3, DivsBound
  <2> QED  BY <1>1, <2>4
<1>4. ASSUME ~ (Mags(s) \subseteq {0})
      PROVE  /\ \A m \in Mags(s) : Divides(x, m)
             /\ \A d \in x + 1 .. WordMax + 1 : \E m \in Mags(s) : ~ Divides(d, m)
  <2>1. PICK m \in Mags(s) : m # 0  BY <1>4
  <2>2. m \in Nat /\ m > 0 /\ m + 1 \in Nat \ {0}
    <3>1. m \in Nat  BY MagFacts
    <3> QED  BY <2>1, <3>1
  <2>3. x # 0
    <3> SUFFICES ASSUME x = 0  PROVE FALSE
      OBVIOUS
    <3>1. Divs(m + 1, x)  BY <2>2, DivsZero
    <3>2. Divs(m + 1, m)  BY <1>2, <2>2, <3>1
    <3>3. m + 1 <= m  BY <2>2, <3>2, DivsBound
    <3> QED  BY <2>2, <3>3
  <2>4. x > 0 /\ x \in Nat \ {0}  BY <1>1, <2>3
  <2>5. \A l \in Mags(s) : Divs(x, l)  BY <1>2, <2>4, DivsSelf
  <2>6. \A l \in Mags(s) : Divides(x, l)
    <3>1. \A l \in Mags(s) : l \in Nat  BY MagFacts
    <3> QED  BY <2>4, <2>5, <3>1, DividesIff
  <2>7. ASSUME NEW d \in x + 1 .. WordMax + 1, \A l \in Mags(s) : Divides(d, l)
        PROVE  FALSE
    <3>1. d \in Nat /\ d > 0 /\ d \in Nat \ {0} /\ d > x  BY <1>1, <2>7
    <3>2. \A l \in Mags(s) : Divs(d, l)
      <4>1. \A l \in Mags(s) : l \in Nat  BY MagFacts
      <4> QED  BY <2>7, <3>1, <4>1, DividesIff
    <3>3. Divs(d, x)  BY <1>2, <3>1, <3>2
    <3>4. d <= x  BY <2>4, <3>1, <3>3, DivsBound
    <3> QED  BY <1>1, <3>1, <3>4
  <2> QED  BY <2>6, <2>7
<1>5. GcdAnswer(s, x)  BY <1>3, <1>4 DEF GcdAnswer
<1> QED  BY <1>5 DEF x


\* lcm: what the result becomes, and whether it is too large, once regs.b = 0.
Factor(s, r) == IF r.i = 0 THEN 1 ELSE Abs(s[r.i])
Scaled(r) == IF r.i = 0 THEN 1 ELSE r.res \div r.a
Over(s, r) == r.over \/ TooLarge(Scaled(r), Factor(s, r))
Merged(s, r) == IF Over(s, r) THEN r.res ELSE Scaled(r) * Factor(s, r)

LEMMA LcmMerged ==
  ASSUME NEW s \in Seq(Int32), NEW r, LcmState(s, r), r.b = 0
  PROVE  /\ Merged(s, r) \in Nat /\ 1 <= Merged(s, r) /\ Merged(s, r) <= WideMax
         /\ Over(s, r) \in BOOLEAN
         /\ ~ Over(s, r) =>
              \A n \in Nat : Divs(Merged(s, r), n) <=> \A k \in 1 .. r.i : Divs(Abs(s[k]), n)
<1>1. /\ r \in Registers(s) /\ r.res \in Nat /\ r.a \in Nat /\ r.i \in Nat /\ r.i <= Len(s)
      /\ 1 <= r.res /\ r.res <= WideMax /\ WideMax \in Nat /\ r.over \in BOOLEAN
      /\ Len(s) \in Nat
  BY Constants, MagFacts DEF LcmState, Registers
<1>2. Over(s, r) \in BOOLEAN  BY <1>1 DEF Over, TooLarge
<1>3. CASE Over(s, r)  BY <1>1, <1>2, <1>3 DEF Merged
<1>4. CASE ~ Over(s, r) /\ r.i = 0
  <2>1. Merged(s, r) = 1 /\ 1 <= WideMax  BY <1>1, <1>4 DEF Merged, Scaled, Factor
  <2>2. \A n \in Nat : n = 1 * n  OBVIOUS
  <2>3. \A n \in Nat : Divs(1, n)  BY <2>2 DEF Divs
  <2>4. 1 .. r.i = {}  BY <1>4
  <2> QED  BY <1>2, <2>1, <2>3, <2>4
<1>5. CASE ~ Over(s, r) /\ r.i # 0
  <2> DEFINE B == Abs(s[r.i])
             A == r.res
             g == r.a
             c == A \div g
  <2>1. r.i \in 1 .. Len(s) /\ r.i \in 1 .. r.i /\ r.i > 0  BY <1>1, <1>5
  <2>2. B \in Nat /\ B > 0  BY <2>1, MagFacts DEF LcmState
  <2>3. ~ r.over /\ ~ TooLarge(c, B)
    BY <1>5 DEF Over, Scaled, Factor
  <2>4. /\ \A d \in Nat \ {0} : Divs(d, g) /\ Divs(d, r.b) <=> Divs(d, A) /\ Divs(d, B)
        /\ Combined(g, A, B)
        /\ \A n \in Nat : Divs(A, n) <=> \A k \in 1 .. r.i - 1 : Divs(Abs(s[k]), n)
    BY <2>1, <2>3 DEF LcmState
  <2>5. Merged(s, r) = c * B  BY <1>5 DEF Merged, Scaled, Factor
  <2>6. g > 0
    <3> SUFFICES ASSUME g = 0  PROVE FALSE
      BY <1>1
    <3> HIDE DEF A, B
    <3>1. A + 1 \in Nat \ {0} /\ A > 0 /\ A \in Nat  BY <1>1 DEF A
    <3>2. Divs(A + 1, g) /\ Divs(A + 1, r.b)
      <4>1. A + 1 \in Nat  BY <3>1
      <4> QED  BY <4>1, DivsZero
    <3>3. Divs(A + 1, A)  BY <2>4, <3>1, <3>2
    <3>4. A + 1 <= A
      <4>1. A + 1 \in Nat  BY <3>1
      <4> QED  BY <3>1, <3>3, <4>1, DivsBound
    <3> QED  BY <3>1, <3>4
  <2>7. Divs(g, A) /\ Divs(g, B)
    <3>1. Divs(g, g) /\ Divs(g, 0) /\ g \in Nat \ {0}  BY <1>1, <2>6, DivsSelf, DivsZero
    <3> HIDE DEF A, B, g
    <3> QED  BY <2>4, <3>1
  <2>8. A \in Nat /\ A > 0 /\ g \in Nat  BY <1>1
  <2> HIDE DEF A, B, g
  <2>9. c \in Nat /\ c > 0 /\ \A n \in Nat : Divs(c * B, n) <=> Divs(A, n) /\ Divs(B, n)
    BY <2>2, <2>4, <2>6, <2>7, <2>8, LcmDivs
  <2> HIDE DEF c
  <2>10. c <= WideMax \div B
    <3>1. WideMax \div B \in Int  BY <1>1, <2>2
    <3> QED  BY <2>3, <2>9, <3>1 DEF TooLarge
  <2>11. c * B \in Nat /\ c * B >= 1 /\ c * B <= WideMax
    <3>1. PICK q, m \in Nat : q = WideMax \div B /\ WideMax = B * q + m
      BY <1>1, <2>2, DivNat
    <3>2. c <= q  BY <2>10, <3>1
    <3>3. B * (q - c) >= 0 /\ B * (q - c) = B * q - B * c
      <4>1. q - c \in Nat  BY <2>9, <3>2
      <4>2. B * (q - c) \in Nat  BY <2>2, <4>1
      <4>3. B * (q - c) = B * q - B * c  BY <2>2, <2>9
      <4> QED  BY <4>2, <4>3
    <3>4. B * c \in Nat /\ B * q \in Nat /\ B * c = c * B  BY <2>2, <2>9
    <3>5. c * B >= c  BY <2>2, <2>9, Multiples
    <3> QED  BY <1>1, <2>9, <3>1, <3>3, <3>4, <3>5
  <2>12. ASSUME NEW n \in Nat
         PROVE  Divs(c * B, n) <=> \A k \in 1 .. r.i : Divs(Abs(s[k]), n)
    <3>1. 1 .. r.i = (1 .. r.i - 1) \cup {r.i}  BY <1>1, <2>1
    <3>2. Divs(B, n) <=> Divs(Abs(s[r.i]), n)  BY DEF B
    <3> QED  BY <2>4, <2>9, <3>1, <3>2
  <2> QED  BY <1>2, <2>5, <2>11, <2>12
<1> QED  BY <1>3, <1>4, <1>5

\* lcm: one round,
LEMMA LcmRoundState ==
  ASSUME NEW s \in Seq(Int32), NEW r, LcmState(s, r), r.b # 0
  PROVE  LcmState(s, [r EXCEPT !.a = r.b, !.b = CRem(r.a, r.b)])
<1> DEFINE c == CRem(r.a, r.b)
           t == [r EXCEPT !.a = r.b, !.b = c]
           A == r.res
           B == Abs(s[r.i])
<1>1. /\ r \in Registers(s) /\ r.a \in Nat /\ r.b \in Nat /\ r.b > 0 /\ WideMax \in Nat
      /\ r.b <= WideMax /\ r.res \in Nat /\ 1 <= r.res /\ r.res <= WideMax
      /\ r.i \in 0 .. Len(s) /\ \A k \in 1 .. r.i : Abs(s[k]) > 0
  BY Constants DEF LcmState, Registers
<1>2. PICK q \in Nat : c \in Nat /\ c < r.b /\ r.a = r.b * q + c  BY <1>1, CRemNat
<1> HIDE DEF c
<1>3. t \in Registers(s) /\ t.a = r.b /\ t.b = c /\ t.i = r.i /\ t.res = A /\ t.over = r.over
  BY <1>1, <1>2 DEF Registers
<1>4. r.i # 0 /\ ~ r.over
  <2>1. r.i = 0 \/ r.over => r.b = 0  BY DEF LcmState
  <2> QED  BY <1>1, <2>1
<1>5. r.i > 0 /\ r.i \in 1 .. Len(s)
  <2>1. Len(s) \in Nat  BY MagFacts
  <2> QED  BY <1>1, <1>4, <2>1
<1>6. A \in Nat /\ B \in Nat  BY <1>1, <1>5, MagFacts
<1>7. /\ \A d \in Nat \ {0} : Divs(d, r.a) /\ Divs(d, r.b) <=> Divs(d, A) /\ Divs(d, B)
      /\ Combined(r.a, A, B) /\ Combined(r.b, A, B)
      /\ \A n \in Nat : Divs(A, n) <=> \A k \in 1 .. r.i - 1 : Divs(Abs(s[k]), n)
  BY <1>4, <1>5 DEF LcmState
<1> HIDE DEF A, B, t
<1>8. ASSUME NEW d \in Nat \ {0}
      PROVE  Divs(d, t.a) /\ Divs(d, t.b) <=> Divs(d, A) /\ Divs(d, B)
  <2>1. Divs(d, r.a) /\ Divs(d, r.b) <=> Divs(d, r.b) /\ Divs(d, c)
    <3>1. d \in Nat /\ d > 0  OBVIOUS
    <3> QED  BY <1>1, <1>2, <3>1, EuclidDivs
  <2> QED  BY <1>3, <1>7, <2>1
<1>9. Combined(t.a, A, B) /\ Combined(t.b, A, B)
  <2>1. Combined(c, A, B)  BY <1>1, <1>2, <1>6, <1>7, EuclidCombined
  <2> QED  BY <1>3, <1>7, <2>1
<1>10. c <= WideMax  BY <1>1, <1>2
<1>11. LcmState(s, t)
  BY <1>1, <1>3, <1>4, <1>5, <1>7, <1>8, <1>9, <1>10 DEF LcmState, A, B
<1> QED  BY <1>11 DEF t, c

\* the next argument,
LEMMA LcmNextState ==
  ASSUME NEW s \in Seq(Int32), NEW r, LcmState(s, r), r.b = 0, r.i # Len(s),
         Abs(s[r.i + 1]) # 0
  PROVE  LcmState(s, [i |-> r.i + 1, res |-> Merged(s, r), over |-> Over(s, r),
                      a |-> IF Over(s, r) THEN 1 ELSE Merged(s, r),
                      b |-> IF Over(s, r) THEN 0 ELSE Abs(s[r.i + 1])])
<1> DEFINE M == Merged(s, r)
           O == Over(s, r)
           B == Abs(s[r.i + 1])
           j == r.i + 1
           t == [i |-> j, res |-> M, over |-> O,
                 a |-> IF O THEN 1 ELSE M, b |-> IF O THEN 0 ELSE B]
<1>1. r.i \in Nat /\ r.i < Len(s) /\ Len(s) \in Nat /\ \A k \in 1 .. r.i : Abs(s[k]) > 0
  BY MagFacts DEF LcmState, Registers
<1>2. j \in 1 .. Len(s) /\ j \in 0 .. Len(s) /\ j > 0 /\ j # 0 /\ j - 1 = r.i  BY <1>1
<1>3. /\ M \in Nat /\ 1 <= M /\ M <= WideMax /\ O \in BOOLEAN
      /\ ~ O => \A n \in Nat : Divs(M, n) <=> \A k \in 1 .. r.i : Divs(Abs(s[k]), n)
  BY LcmMerged
<1>4. B \in Nat /\ B > 0 /\ B <= WideMax
  <2>1. B \in Nat /\ B <= WordMax + 1  BY <1>2, MagFacts
  <2>2. WordMax + 1 <= WideMax
    <3>1. WordMax + 1 \in Nat /\ WordMax + 1 > 0 /\ WideMax \in Nat  BY Constants
    <3>2. (WordMax + 1) * (WordMax + 1) >= WordMax + 1  BY <3>1, Multiples
    <3>3. (WordMax + 1) * (WordMax + 1) \in Nat  BY <3>1
    <3> QED  BY <3>1, <3>2, <3>3, Constants
  <2> QED  BY <2>1, <2>2, Constants
<1> HIDE DEF M, O
<1>5. /\ t.i = j /\ t.res = M /\ t.over = O
      /\ O => t.a = 1 /\ t.b = 0
      /\ ~ O => t.a = M /\ t.b = B
  OBVIOUS
<1> HIDE DEF B, j
<1>6. t \in Registers(s)  BY <1>2, <1>3, <1>4 DEF Registers
<1>7. \A k \in 1 .. j : Abs(s[k]) > 0
  <2>1. 1 .. j = (1 .. r.i) \cup {j}  BY <1>1 DEF j
  <2>2. Abs(s[j]) = B  BY DEF B, j
  <2> QED  BY <1>1, <1>4, <2>1, <2>2
<1>8. Combined(M, M, B) /\ Combined(B, M, B)
  <2>1. M = 1 * M + 0 * B /\ B = 0 * M + 1 * B  BY <1>3, <1>4
  <2> QED  BY <2>1 DEF Combined
<1>9. B = Abs(s[j])  BY DEF B, j
<1>10. t.a <= WideMax /\ t.b <= WideMax
  <2>1. 1 <= WideMax /\ 0 <= WideMax  BY <1>3, Constants
  <2> QED  BY <1>3, <1>4, <1>5, <2>1
<1> HIDE DEF t
<1>11. LcmState(s, t)
  BY <1>2, <1>3, <1>5, <1>6, <1>7, <1>8, <1>9, <1>10 DEF LcmState
<1> QED  BY <1>11 DEF t, M, O, B, j

\* and the end.
LEMMA LcmEnd ==
  ASSUME NEW s \in Seq(Int32), NEW r, LcmState(s, r), r.b = 0, r.i = Len(s)
  PROVE  LcmAnswer(s, IF Over(s, r) THEN FLOAT ELSE Merged(s, r))
<1> DEFINE x == IF Over(s, r) THEN FLOAT ELSE Merged(s, r)
<1>1. 0 \notin Mags(s)
  <2>1. \A k \in 1 .. Len(s) : Abs(s[k]) > 0 /\ Abs(s[k]) # 0
    BY MagFacts DEF LcmState
  <2> QED  BY <2>1, MagFacts
<1>2. ASSUME x # FLOAT
      PROVE  /\ \A m \in Mags(s) : x % m = 0
             /\ \A n \in 1 .. x - 1 : \E m \in Mags(s) : n % m # 0
  <2>1. ~ Over(s, r) /\ x = Merged(s, r)  BY <1>2
  <2>2. /\ x \in Nat /\ 1 <= x
        /\ \A n \in Nat : Divs(x, n) <=> \A k \in 1 .. Len(s) : Divs(Abs(s[k]), n)
    BY <2>1, LcmMerged
  <2> HIDE DEF x
  <2>3. \A m \in Mags(s) : m \in Nat /\ m > 0
    <3>1. \A m \in Mags(s) : m \in Nat /\ m # 0  BY <1>1, MagFacts
    <3> QED  BY <3>1
  <2>4. \A n \in Nat : Divs(x, n) <=> \A m \in Mags(s) : Divs(m, n)
    BY <2>2, MagFacts
  <2>5. \A m \in Mags(s) : x % m = 0
    <3>1. \A m \in Mags(s) : Divs(m, x)  BY <2>2, <2>4, DivsSelf
    <3> QED  BY <2>2, <2>3, <3>1, ModIff
  <2>6. ASSUME NEW n \in 1 .. x - 1, \A m \in Mags(s) : n % m = 0
        PROVE  FALSE
    <3>1. n \in Nat /\ n > 0 /\ n < x  BY <2>2
    <3>2. \A m \in Mags(s) : Divs(m, n)  BY <2>3, <2>6, <3>1, ModIff
    <3>3. Divs(x, n)  BY <2>4, <3>1, <3>2
    <3>4. x <= n  BY <2>2, <3>1, <3>3, DivsBound
    <3> QED  BY <2>2, <3>1, <3>4
  <2> QED  BY <2>5, <2>6
<1>3. LcmAnswer(s, x)  BY <1>1, <1>2 DEF LcmAnswer
<1> QED  BY <1>3 DEF x


GcdLcmOK ==
  /\ job.op = "gcd" =>
       IF out = <<>> THEN GcdState(job.args, regs)
       ELSE GcdAnswer(job.args, Result) /\ Result \in 0 .. WordMax + 1
  /\ job.op = "lcm" =>
       IF out = <<>> THEN LcmState(job.args, regs)
       ELSE LcmAnswer(job.args, Result) /\ (Result = FLOAT \/ Result \in 0 .. WideMax)

GcdLcmInv == JobOK /\ GcdLcmOK

\* The registers that the loops begin with.
LEMMA GcdLcmBegins ==
  ASSUME NEW s \in Seq(Int32), NEW x \in {0, 1}
  PROVE  LET r == [i |-> 0, res |-> x, a |-> 0, b |-> 0, over |-> FALSE]
         IN  (x = 0 => GcdState(s, r)) /\ (x = 1 => LcmState(s, r))
<1> DEFINE r == [i |-> 0, res |-> x, a |-> 0, b |-> 0, over |-> FALSE]
<1>1. Len(s) \in Nat /\ WordMax + 1 \in Nat /\ WideMax \in Nat /\ 1 <= WideMax
  <2>1. Len(s) \in Nat  BY MagFacts
  <2>2. WordMax + 1 \in Nat /\ WordMax + 1 >= 1 /\ WideMax \in Nat  BY Constants
  <2>3. (WordMax + 1) * (WordMax + 1) >= WordMax + 1 /\ (WordMax + 1) * (WordMax + 1) \in Int
    BY <2>2, Multiples
  <2> QED  BY <2>1, <2>2, <2>3, Constants
<1>2. r \in Registers(s)
  <2>1. 0 \in 0 .. Len(s)  BY <1>1
  <2> QED  BY <2>1 DEF Registers
<1>3. r.i = 0 /\ r.res = x /\ r.a = 0 /\ r.b = 0 /\ r.over = FALSE /\ 1 .. r.i = {}
  OBVIOUS
<1>4. \A d \in Nat : Divs(d, 0)  BY DivsZero
<1> HIDE DEF r
<1>5. x = 0 => GcdState(s, r)  BY <1>1, <1>2, <1>3, <1>4 DEF GcdState
<1>6. x = 1 => LcmState(s, r)  BY <1>1, <1>2, <1>3 DEF LcmState
<1> QED  BY <1>5, <1>6 DEF r

LEMMA GcdLcmStep == GcdLcmInv /\ [Next]_vars => GcdLcmInv'
<1> SUFFICES ASSUME GcdLcmInv, [Next]_vars  PROVE GcdLcmInv'
  OBVIOUS
<1>1. JobOK /\ JobOK' /\ (Ends \/ Begins \/ GoesOn)  BY JobStep, Steps DEF GcdLcmInv
<1>2. CASE ~ (job'.op \in {"gcd", "lcm"})  BY <1>1, <1>2 DEF GcdLcmInv, GcdLcmOK
<1>3. CASE job'.op \in {"gcd", "lcm"} /\ Begins
  <2>1. job' \in Jobs /\ out' = <<>>  BY <1>3 DEF Begins
  <2>2. job'.args \in Seq(Int32)  BY <1>3, <2>1, JobFacts
  <2>3. regs' = [i |-> 0, res |-> IF job'.op = "gcd" THEN 0 ELSE 1,
                 a |-> 0, b |-> 0, over |-> FALSE]
    BY <1>3 DEF Begins, Setup
  <2>4. job'.op = "gcd" => GcdState(job'.args, regs')
    BY <2>2, <2>3, GcdLcmBegins
  <2>5. job'.op = "lcm" => LcmState(job'.args, regs')
    BY <2>2, <2>3, GcdLcmBegins
  <2> QED  BY <1>1, <2>1, <2>4, <2>5 DEF GcdLcmInv, GcdLcmOK
<1>4. CASE job'.op \in {"gcd", "lcm"} /\ GoesOn
  <2> DEFINE s == job.args
  <2>1. /\ job \in Jobs /\ job' = job /\ job.op \in {"gcd", "lcm"} /\ job'.args = s
        /\ s \in Seq(Int32)
    BY <1>4, JobFacts DEF GoesOn
  <2>2. Len(s) \in Nat /\ WordMax + 1 \in Nat /\ WideMax \in Nat  BY <2>1, MagFacts, Constants
  <2>3. CASE UNCHANGED vars
    <3>1. regs' = regs /\ out' = out  BY <2>3 DEF vars
    <3> QED  BY <1>1, <2>1, <3>1 DEF GcdLcmInv, GcdLcmOK, Result
  <2>4. CASE Round /\ GcdRound
    <3>1. /\ out = <<>> /\ out' = <<>> /\ regs.b # 0
          /\ regs' = [regs EXCEPT !.a = regs.b, !.b = CRem(regs.a, regs.b)]
      BY <2>4 DEF GcdRound, Doing
    <3>2. job.op = "gcd" => GcdState(s, regs')
      <4>1. job.op = "gcd" => GcdState(s, regs)  BY <3>1 DEF GcdLcmInv, GcdLcmOK
      <4> QED  BY <2>1, <3>1, <4>1, GcdRoundState
    <3>3. job.op = "lcm" => LcmState(s, regs')
      <4>1. job.op = "lcm" => LcmState(s, regs)  BY <3>1 DEF GcdLcmInv, GcdLcmOK
      <4> QED  BY <2>1, <3>1, <4>1, LcmRoundState
    <3> QED  BY <1>1, <2>1, <3>1, <3>2, <3>3 DEF GcdLcmInv, GcdLcmOK
  <2>5. CASE job.op = "gcd" /\ GcdNext
    <3>1. out = <<>> /\ regs.b = 0 /\ GcdState(s, regs)
      BY <2>5 DEF GcdNext, Doing, GcdLcmInv, GcdLcmOK
    <3>2. regs.a = (IF regs.i = 0 THEN 0 ELSE regs.a) /\ regs.a \in 0 .. WordMax + 1
      BY <2>2, <3>1 DEF GcdState, Registers
    <3>3. CASE regs.i = Len(s)
      <4>1. out' = <<regs.a>>  BY <2>5, <3>2, <3>3 DEF GcdNext, Return
      <4>2. out' # <<>> /\ Result' = regs.a  BY <4>1 DEF Result
      <4>3. GcdAnswer(s, regs.a)  BY <2>1, <3>1, <3>3, GcdEnd
      <4> QED  BY <1>1, <2>1, <2>5, <3>2, <4>2, <4>3 DEF GcdLcmInv, GcdLcmOK
    <3>4. CASE regs.i # Len(s)
      <4>1. /\ out' = <<>>
            /\ regs' = [regs EXCEPT !.i = @ + 1, !.res = regs.a, !.a = regs.a,
                                    !.b = Abs(s[regs.i + 1])]
        BY <2>5, <3>1, <3>2, <3>4 DEF GcdNext
      <4>2. GcdState(s, regs')  BY <2>1, <3>1, <3>4, <4>1, GcdNextState
      <4> QED  BY <1>1, <2>1, <2>5, <4>1, <4>2 DEF GcdLcmInv, GcdLcmOK
    <3> QED  BY <3>3, <3>4
  <2>6. CASE job.op = "lcm" /\ LcmNext
    <3>1. out = <<>> /\ regs.b = 0 /\ LcmState(s, regs)
      BY <2>6 DEF LcmNext, Doing, GcdLcmInv, GcdLcmOK
    <3> DEFINE over == Over(s, regs)
               res == Merged(s, regs)
    <3>2. res \in Nat /\ res <= WideMax /\ 1 <= res /\ over \in BOOLEAN
      BY <2>1, <3>1, LcmMerged
    <3>3. IF regs.i = Len(s) THEN out' = <<IF over THEN FLOAT ELSE res>>
          ELSE IF Abs(s[regs.i + 1]) = 0 THEN out' = <<0>>
          ELSE /\ regs' = [i |-> regs.i + 1, res |-> res, over |-> over,
                           a |-> IF over THEN 1 ELSE res,
                           b |-> IF over THEN 0 ELSE Abs(s[regs.i + 1])]
               /\ out' = out
      BY <2>6 DEF LcmNext, Return, Over, Merged, Scaled, Factor
    <3>4. CASE regs.i = Len(s)
      <4> DEFINE x == IF over THEN FLOAT ELSE res
      <4>1. LcmAnswer(s, x)  BY <2>1, <3>1, <3>4, LcmEnd
      <4>2. x = FLOAT \/ x \in 0 .. WideMax  BY <2>2, <3>2
      <4>3. out' = <<x>>  BY <3>3, <3>4
      <4> HIDE DEF x
      <4>4. out' # <<>> /\ Result' = x  BY <4>3 DEF Result
      <4> QED  BY <1>1, <2>1, <2>6, <4>1, <4>2, <4>4 DEF GcdLcmInv, GcdLcmOK
    <3>5. CASE regs.i # Len(s) /\ Abs(s[regs.i + 1]) = 0
      <4>1. out' = <<0>>  BY <3>3, <3>5
      <4>2. out' # <<>> /\ Result' = 0  BY <4>1 DEF Result
      <4>3. regs.i + 1 \in 1 .. Len(s)
        BY <2>1, <2>2, <3>1, <3>5 DEF LcmState, Registers
      <4>4. 0 \in Mags(s)  BY <2>1, <3>5, <4>3, MagFacts
      <4>5. LcmAnswer(s, 0)  BY <4>4 DEF LcmAnswer
      <4>6. 0 \in 0 .. WideMax  BY <2>2
      <4> QED  BY <1>1, <2>1, <2>6, <4>2, <4>5, <4>6 DEF GcdLcmInv, GcdLcmOK
    <3>6. CASE regs.i # Len(s) /\ Abs(s[regs.i + 1]) # 0
      <4>1. LcmState(s, regs')
        BY <2>1, <3>1, <3>3, <3>6, LcmNextState
      <4>2. out' = <<>>  BY <3>1, <3>3, <3>6
      <4> QED  BY <1>1, <2>1, <2>6, <4>1, <4>2 DEF GcdLcmInv, GcdLcmOK
    <3> QED  BY <3>4, <3>5, <3>6
  <2>7. Round => GcdRound \/ (job.op = "gcd" /\ GcdNext) \/ (job.op = "lcm" /\ LcmNext)
    BY <2>1, RoundOf
  <2> QED  BY <1>4, <2>3, <2>4, <2>5, <2>6, <2>7 DEF GoesOn
<1>5. Ends => ~ (job'.op \in {"gcd", "lcm"})  BY NoneFacts DEF Ends
<1> QED  BY <1>1, <1>2, <1>3, <1>4, <1>5

LEMMA GcdLcmInvariant == Spec => []GcdLcmInv
<1>1. Init => GcdLcmInv  BY NoneFacts DEF Init, GcdLcmInv, JobOK, GcdLcmOK
<1> QED  BY <1>1, GcdLcmStep, PTL DEF Spec

\* gcd gives the greatest common divisor of any number of arguments, and lcm their
\* least common multiple if no product on the way is too large for int64_t.
THEOREM GcdLcmAlwaysExact == Spec => []GcdLcmExact
<1>1. ASSUME GcdLcmInv  PROVE GcdLcmExact
  <2>1. Magnitudes = Mags(job.args)  BY DEF Magnitudes, Mags
  <2>2. Done("gcd") => GcdAnswer(job.args, Result)
    BY <1>1 DEF GcdLcmInv, GcdLcmOK, Done
  <2>3. Done("lcm") => LcmAnswer(job.args, Result)
    BY <1>1 DEF GcdLcmInv, GcdLcmOK, Done
  <2> QED  BY <2>1, <2>2, <2>3 DEF GcdLcmExact, GcdAnswer, LcmAnswer
<1> QED  BY <1>1, GcdLcmInvariant, PTL

\* No integer that gcd, lcm and isqrt compute leaves its C type, whatever the
\* arguments are.
THEOREM NothingOverflows == Spec => []NoOverflow
<1>1. ASSUME GcdLcmInv, IsqrtInv  PROVE NoOverflow
  <2>1. /\ WordMax + 1 \in Nat /\ WideMax \in Nat /\ WordMax \in Nat
        /\ (WordMax + 1) * (WordMax + 1) <= WideMax /\ WordMax + 1 <= WideMax
    <3>1. WordMax + 1 \in Nat /\ WordMax + 1 >= 1 /\ WideMax \in Nat /\ WordMax \in Nat
      BY Constants
    <3>2. (WordMax + 1) * (WordMax + 1) >= WordMax + 1 /\ (WordMax + 1) * (WordMax + 1) \in Int
      BY <3>1, Multiples
    <3> QED  BY <3>1, <3>2, Constants
  <2>2. 0 .. WordMax + 1 \subseteq Wide /\ 0 .. WideMax \subseteq Wide  BY <2>1 DEF Wide
  <2>3. Doing("gcd") => {regs.res, regs.a, regs.b} \subseteq Wide
    <3> SUFFICES ASSUME Doing("gcd")  PROVE {regs.res, regs.a, regs.b} \subseteq Wide
      OBVIOUS
    <3>1. GcdState(job.args, regs)  BY <1>1 DEF Doing, GcdLcmInv, GcdLcmOK
    <3>2. {regs.res, regs.a, regs.b} \subseteq 0 .. WordMax + 1
      BY <2>1, <3>1 DEF GcdState, Registers
    <3> QED  BY <2>2, <3>2
  <2>4. Doing("lcm") => {regs.res, regs.a, regs.b} \subseteq Wide
    <3> SUFFICES ASSUME Doing("lcm")  PROVE {regs.res, regs.a, regs.b} \subseteq Wide
      OBVIOUS
    <3>1. LcmState(job.args, regs)  BY <1>1 DEF Doing, GcdLcmInv, GcdLcmOK
    <3>2. {regs.res, regs.a, regs.b} \subseteq 0 .. WideMax
      BY <2>1, <3>1 DEF LcmState, Registers
    <3> QED  BY <2>2, <3>2
  <2>5. job.op \in {"gcd", "lcm"} /\ out # <<>> => out[1] \in Wide \cup {FLOAT}
    BY <1>1, <2>2 DEF GcdLcmInv, GcdLcmOK, Result
  <2>6. ASSUME Doing("isqrt"), job.args[1] >= 2
        PROVE  /\ {regs.low, regs.high, regs.high - regs.low + 1} \subseteq Int32
               /\ regs.high * regs.high \in Wide
    <3> DEFINE n == job.args[1]
               low == regs.low
               high == regs.high
    <3>1. low \in Nat /\ high \in Nat /\ 1 <= low /\ low <= high /\ high <= n
      BY <1>1, <2>6 DEF IsqrtInv, IsqrtOK, Doing
    <3>2. job \in Jobs
      <4>1. job # None  BY <2>6, NoneFacts DEF Doing
      <4> QED  BY <1>1, <4>1 DEF IsqrtInv, JobOK
    <3>3. n \in Int /\ n <= WordMax  BY <2>6, <3>2, JobFacts, Int32Facts DEF Doing
    <3> HIDE DEF n, low, high
    <3>4. {low, high, high - low + 1} \subseteq Int32  BY <2>1, <3>1, <3>3 DEF Int32
    <3>5. high <= WordMax + 1  BY <2>1, <3>1, <3>3
    <3>6. high * high <= (WordMax + 1) * (WordMax + 1) /\ high * high \in Nat
      BY <2>1, <3>1, <3>5, Squares
    <3>7. high * high \in Wide
      <4>1. (WordMax + 1) * (WordMax + 1) \in Nat  BY <2>1
      <4>2. high * high \in 0 .. WideMax  BY <2>1, <3>6, <4>1
      <4> QED  BY <2>2, <4>2
    <3> QED  BY <3>4, <3>7 DEF low, high
  <2> QED  BY <2>3, <2>4, <2>5, <2>6 DEF NoOverflow
<1> QED  BY <1>1, GcdLcmInvariant, IsqrtInvariant, PTL


-----------------------------------------------------------------------------
(***************************************************************************)
(* Binomial coefficients                                                   *)
(***************************************************************************)

\* A set of natural numbers has a least element, so it can be proved to hold all up
\* to a bound by induction.
LEMMA LessWellFounded == IsWellFoundedOn({ss \in Nat \X Nat : ss[1] < ss[2]}, Nat)
BY NatLessThanWellFounded DEF OpToRel

LEMMA LeastNat ==
  ASSUME NEW T, T \subseteq Nat, T # {}
  PROVE  \E m \in T : \A k \in T : m <= k
<1> DEFINE R == {ss \in Nat \X Nat : ss[1] < ss[2]}
<1>1. IsWellFoundedOn(R, Nat)  BY LessWellFounded
<1>2. PICK m \in T : \A k \in T : ~ (<<k, m>> \in R)
  <2> HIDE DEF R
  <2> QED  BY <1>1, WFMin
<1>3. ASSUME NEW k \in T  PROVE m <= k
  <2>1. k \in Nat /\ m \in Nat  OBVIOUS
  <2>2. <<k, m>> \in R <=> k < m  BY <2>1
  <2> QED  BY <1>2, <2>1, <2>2
<1> QED  BY <1>3

LEMMA UpTo ==
  ASSUME NEW N \in Nat, NEW T, 0 \in T, \A n \in 0 .. N : n < N /\ n \in T => n + 1 \in T
  PROVE  \A n \in 0 .. N : n \in T
<1> DEFINE U == {n \in 0 .. N : n \notin T}
<1> SUFFICES ASSUME U # {}  PROVE FALSE
  OBVIOUS
<1>1. U \subseteq Nat  OBVIOUS
<1>2. PICK m \in U : \A k \in U : m <= k
  <2> HIDE DEF U
  <2> QED  BY <1>1, LeastNat
<1>3. m \in 0 .. N /\ m \notin T /\ m # 0  OBVIOUS
<1>4. m - 1 \in 0 .. N /\ m - 1 < N /\ (m - 1) + 1 = m /\ ~ (m <= m - 1)  BY <1>3
<1>5. m - 1 \in T  BY <1>2, <1>4
<1> QED  BY <1>3, <1>4, <1>5

\* Binomial is defined by its equation.
LEMMA BinomialExists ==
  \E f : f = [n \in 0 .. WordMax |->
                [k \in 0 .. WordMax |->
                   IF k = 0 THEN 1
                   ELSE IF n = 0 THEN 0 ELSE f[n - 1][k - 1] + f[n - 1][k]]]
<1> DEFINE K == 0 .. WordMax
           Row(r) == [k \in K |-> IF k = 0 THEN 1 ELSE r[k - 1] + r[k]]
           First == [k \in K |-> IF k = 0 THEN 1 ELSE 0]
           Good(f, N) == f = [n \in 0 .. N |-> IF n = 0 THEN First ELSE Row(f[n - 1])]
           T == {N \in K : \E f : Good(f, N)}
<1>1. WordMax \in Nat  BY Constants
<1>2. 0 \in T
  <2> DEFINE f == [n \in 0 .. 0 |-> First]
  <2>1. f = [n \in 0 .. 0 |-> IF n = 0 THEN First ELSE Row(f[n - 1])]
    <3> HIDE DEF First, Row
    <3> QED  OBVIOUS
  <2>2. 0 \in K  BY <1>1
  <2> HIDE DEF K, First, Row, f
  <2> QED  BY <2>1, <2>2
<1>3. ASSUME NEW N \in K, N < WordMax, N \in T  PROVE N + 1 \in T
  <2>1. PICK g : Good(g, N)  BY <1>3
  <2>2. N \in Nat /\ N + 1 \in K  BY <1>1, <1>3
  <2> DEFINE f == [n \in 0 .. N + 1 |-> IF n = N + 1 THEN Row(g[N]) ELSE g[n]]
  <2> HIDE DEF First, Row, K
  <2>3. ASSUME NEW n \in 0 .. N + 1
        PROVE  f[n] = IF n = 0 THEN First ELSE Row(f[n - 1])
    <3>1. CASE n = N + 1
      <4>1. n # 0 /\ n - 1 = N /\ N \in 0 .. N + 1 /\ N # N + 1  BY <2>2, <3>1
      <4>2. f[N] = g[N] /\ f[n] = Row(g[N])  BY <3>1, <4>1
      <4> QED  BY <4>1, <4>2
    <3>2. CASE n # N + 1
      <4>1. n \in 0 .. N  BY <2>2, <3>2
      <4>2. g[n] = IF n = 0 THEN First ELSE Row(g[n - 1])  BY <2>1, <4>1
      <4>3. n # 0 => n - 1 \in 0 .. N + 1 /\ n - 1 # N + 1  BY <2>2, <3>2
      <4>4. n # 0 => f[n - 1] = g[n - 1]  BY <4>3
      <4>5. f[n] = g[n]  BY <3>2
      <4> QED  BY <4>2, <4>4, <4>5
    <3> QED  BY <3>1, <3>2
  <2>4. Good(f, N + 1)
    <3>1. f = [n \in 0 .. N + 1 |-> f[n]]  OBVIOUS
    <3> HIDE DEF f
    <3> QED  BY <2>3, <3>1
  <2> HIDE DEF f, Good
  <2> QED  BY <2>2, <2>4
<1>4. WordMax \in T
  <2> HIDE DEF T
  <2>1. \A n \in 0 .. WordMax : n \in T  BY <1>1, <1>2, <1>3, UpTo
  <2> QED  BY <1>1, <2>1
<1>5. PICK f : Good(f, WordMax)  BY <1>4
<1>6. \A n \in 0 .. WordMax :
        (IF n = 0 THEN First ELSE Row(f[n - 1]))
        = [k \in 0 .. WordMax |->
             IF k = 0 THEN 1 ELSE IF n = 0 THEN 0 ELSE f[n - 1][k - 1] + f[n - 1][k]]
  OBVIOUS
<1> HIDE DEF First, Row, K
<1>7. f = [n \in 0 .. WordMax |->
             [k \in 0 .. WordMax |->
                IF k = 0 THEN 1 ELSE IF n = 0 THEN 0 ELSE f[n - 1][k - 1] + f[n - 1][k]]]
  BY <1>5, <1>6, Zenon
<1> QED  BY <1>7

LEMMA BinomialDef ==
  Binomial = [n \in 0 .. WordMax |->
                [k \in 0 .. WordMax |->
                   IF k = 0 THEN 1
                   ELSE IF n = 0 THEN 0 ELSE Binomial[n - 1][k - 1] + Binomial[n - 1][k]]]
<1>1. PICK f : f = [n \in 0 .. WordMax |->
                      [k \in 0 .. WordMax |->
                         IF k = 0 THEN 1
                         ELSE IF n = 0 THEN 0 ELSE f[n - 1][k - 1] + f[n - 1][k]]]
  BY BinomialExists
<1> QED  BY <1>1 DEF Binomial


LEMMA Pascal ==
  ASSUME NEW n \in 0 .. WordMax, NEW k \in 0 .. WordMax
  PROVE  /\ Binomial[n][0] = 1
         /\ k > 0 => Binomial[0][k] = 0
         /\ n > 0 /\ k > 0 => Binomial[n][k] = Binomial[n - 1][k - 1] + Binomial[n - 1][k]
<1>1. WordMax \in Nat /\ 0 \in 0 .. WordMax  BY Constants
<1> DEFINE Entry(i, j) == IF j = 0 THEN 1
                          ELSE IF i = 0 THEN 0
                          ELSE Binomial[i - 1][j - 1] + Binomial[i - 1][j]
<1>2. \A i \in 0 .. WordMax : Binomial[i] = [j \in 0 .. WordMax |-> Entry(i, j)]
  BY BinomialDef
<1>3. \A i, j \in 0 .. WordMax : Binomial[i][j] = Entry(i, j)
  <2> HIDE DEF Entry
  <2> QED  BY <1>2
<1>4. Binomial[n][0] = Entry(n, 0) /\ Binomial[0][k] = Entry(0, k)
      /\ Binomial[n][k] = Entry(n, k)
  BY <1>1, <1>3
<1> QED  BY <1>1, <1>4

\* Coefficients are natural numbers, positive up to n and zero beyond it.
LEMMA Coefficients ==
  \A n, k \in 0 .. WordMax : /\ Binomial[n][k] \in Nat
                             /\ k <= n => Binomial[n][k] > 0
                             /\ k > n => Binomial[n][k] = 0
<1> DEFINE Good(n) == \A k \in 0 .. WordMax : /\ Binomial[n][k] \in Nat
                                              /\ k <= n => Binomial[n][k] > 0
                                              /\ k > n => Binomial[n][k] = 0
           T == {n \in 0 .. WordMax : Good(n)}
<1>1. WordMax \in Nat /\ 0 \in 0 .. WordMax  BY Constants
<1>2. 0 \in T
  <2>1. Binomial[0][0] = 1 /\ \A k \in 0 .. WordMax : k > 0 => Binomial[0][k] = 0
    BY <1>1, Pascal
  <2> QED  BY <1>1, <2>1
<1>3. ASSUME NEW n \in 0 .. WordMax, n < WordMax, n \in T  PROVE n + 1 \in T
  <2>1. n \in Nat /\ n + 1 \in 0 .. WordMax /\ n + 1 > 0 /\ (n + 1) - 1 = n
    BY <1>1, <1>3
  <2>2. ASSUME NEW k \in 0 .. WordMax
        PROVE  /\ Binomial[n + 1][k] \in Nat
               /\ k <= n + 1 => Binomial[n + 1][k] > 0
               /\ k > n + 1 => Binomial[n + 1][k] = 0
    <3>1. CASE k = 0
      <4>1. Binomial[n + 1][0] = 1  BY <2>1, <2>2, Pascal
      <4> QED  BY <2>1, <3>1, <4>1
    <3>2. CASE k > 0
      <4>1. k - 1 \in 0 .. WordMax /\ k \in Nat  BY <1>1, <3>2
      <4>2. Binomial[n + 1][k] = Binomial[n][k - 1] + Binomial[n][k]
        BY <2>1, <3>2, Pascal
      <4>3. /\ Binomial[n][k] \in Nat /\ Binomial[n][k - 1] \in Nat
            /\ k > n => Binomial[n][k] = 0
            /\ k - 1 <= n => Binomial[n][k - 1] > 0
            /\ k - 1 > n => Binomial[n][k - 1] = 0
        BY <1>3, <4>1
      <4> QED  BY <2>1, <4>1, <4>2, <4>3
    <3>3. k = 0 \/ k > 0  OBVIOUS
    <3> QED  BY <3>1, <3>2, <3>3
  <2> QED  BY <2>1, <2>2
<1>4. \A n \in 0 .. WordMax : n \in T
  <2> HIDE DEF T
  <2> QED  BY <1>1, <1>2, <1>3, UpTo
<1> QED  BY <1>4

\* The step of comb's loop.
LEMMA Absorption ==
  \A n, k \in 0 .. WordMax :
    k < WordMax => Binomial[n][k] * (n - k) = Binomial[n][k + 1] * (k + 1)
<1> DEFINE Good(n) == \A k \in 0 .. WordMax :
             k < WordMax => Binomial[n][k] * (n - k) = Binomial[n][k + 1] * (k + 1)
           T == {n \in 0 .. WordMax : Good(n)}
<1>1. WordMax \in Nat /\ 0 \in 0 .. WordMax  BY Constants
<1>2. 0 \in T
  <2>1. ASSUME NEW k \in 0 .. WordMax, k < WordMax
        PROVE  Binomial[0][k] * (0 - k) = Binomial[0][k + 1] * (k + 1)
    <3>1. k + 1 \in 0 .. WordMax /\ k + 1 > 0  BY <1>1, <2>1
    <3>2. Binomial[0][k + 1] = 0  BY <1>1, <3>1, Pascal
    <3>3. k > 0 => Binomial[0][k] = 0  BY <1>1, Pascal
    <3>4. k > 0 => 0 * (0 - k) = 0  BY <1>1
    <3>5. Binomial[0][k] \in Nat  BY <1>1, Coefficients
    <3>6. k = 0 => Binomial[0][k] * (0 - k) = 0  BY <3>5
    <3>7. 0 * (k + 1) = 0  BY <1>1
    <3>8. k = 0 \/ k > 0  OBVIOUS
    <3> QED  BY <3>2, <3>3, <3>4, <3>6, <3>7, <3>8
  <2> QED  BY <1>1, <2>1
<1>3. ASSUME NEW n \in 0 .. WordMax, n < WordMax, n \in T  PROVE n + 1 \in T
  <2>1. n \in Nat /\ n + 1 \in 0 .. WordMax /\ n + 1 > 0 /\ (n + 1) - 1 = n
    BY <1>1, <1>3
  <2>2. ASSUME NEW k \in 0 .. WordMax, k < WordMax
        PROVE  Binomial[n + 1][k] * (n + 1 - k) = Binomial[n + 1][k + 1] * (k + 1)
    <3>1. k + 1 \in 0 .. WordMax /\ k + 1 > 0 /\ (k + 1) - 1 = k /\ k \in Nat
      BY <1>1, <2>2
    <3> DEFINE b == Binomial[n][k]
               c == Binomial[n][k + 1]
    <3>2. Binomial[n + 1][k + 1] = b + c  BY <2>1, <3>1, Pascal
    <3>3. b \in Nat /\ c \in Nat  BY <3>1, Coefficients
    <3>4. b * (n - k) = c * (k + 1)  BY <1>3, <2>2
    <3>5. CASE k = 0
      <4>1. Binomial[n + 1][k] = 1 /\ b = 1
        <5>1. Binomial[n + 1][0] = 1 /\ Binomial[n][0] = 1  BY <1>1, <2>1, Pascal
        <5> QED  BY <3>5, <5>1
      <4> HIDE DEF b, c
      <4> QED  BY <2>1, <3>2, <3>3, <3>4, <3>5, <4>1
    <3>6. CASE k > 0
      <4> DEFINE a == Binomial[n][k - 1]
      <4>1. k - 1 \in 0 .. WordMax /\ k - 1 < WordMax /\ (k - 1) + 1 = k
        BY <1>1, <2>2, <3>6
      <4>2. Binomial[n + 1][k] = a + b  BY <2>1, <3>6, Pascal
      <4>3. a \in Nat  BY <4>1, Coefficients
      <4>4. a * (n - (k - 1)) = Binomial[n][(k - 1) + 1] * ((k - 1) + 1)
        BY <1>3, <4>1
      <4>5. a * (n + 1 - k) = b * k
        <5>1. n - (k - 1) = n + 1 - k  BY <2>1, <3>1
        <5> HIDE DEF a
        <5> QED  BY <4>1, <4>4, <5>1
      <4> HIDE DEF a, b, c
      <4>6. (a + b) * (n + 1 - k) = a * (n + 1 - k) + (b * (n - k) + b)
        BY <2>1, <3>1, <3>3, <4>3
      <4>7. b * k + (c * (k + 1) + b) = (b + c) * (k + 1)
        BY <3>1, <3>3
      <4> QED  BY <3>2, <3>4, <4>2, <4>5, <4>6, <4>7
    <3>7. k = 0 \/ k > 0  BY <3>1
    <3> QED  BY <3>5, <3>6, <3>7
  <2> QED  BY <2>1, <2>2
<1>4. \A n \in 0 .. WordMax : n \in T
  <2> HIDE DEF T
  <2> QED  BY <1>1, <1>2, <1>3, UpTo
<1> QED  BY <1>4

\* comb computes the coefficient with the smaller of k and n - k.
LEMMA Symmetry ==
  \A n, k \in 0 .. WordMax : k <= n => Binomial[n][k] = Binomial[n][n - k]
<1> DEFINE Good(n) == \A k \in 0 .. WordMax : k <= n => Binomial[n][k] = Binomial[n][n - k]
           T == {n \in 0 .. WordMax : Good(n)}
<1>1. WordMax \in Nat /\ 0 \in 0 .. WordMax  BY Constants
<1>2. 0 \in T
  <2>1. \A k \in 0 .. WordMax : k <= 0 => k = 0 /\ 0 - k = k  OBVIOUS
  <2> QED  BY <1>1, <2>1
<1>3. ASSUME NEW n \in 0 .. WordMax, n < WordMax, n \in T  PROVE n + 1 \in T
  <2>1. n \in Nat /\ n + 1 \in 0 .. WordMax /\ n + 1 > 0 /\ (n + 1) - 1 = n
    BY <1>1, <1>3
  <2>2. Binomial[n + 1][0] = 1 /\ Binomial[n + 1][n + 1] = 1
    <3>1. Binomial[n + 1][0] = 1 /\ Binomial[n][0] = 1  BY <1>1, <2>1, Pascal
    <3>2. Binomial[n + 1][n + 1] = Binomial[n][n] + Binomial[n][n + 1]  BY <2>1, Pascal
    <3>3. Binomial[n][n + 1] = 0
      <4>1. n + 1 > n  BY <2>1
      <4> QED  BY <2>1, <4>1, Coefficients
    <3>4. Binomial[n][n] = Binomial[n][n - 0] /\ n - 0 = n  BY <2>1
    <3>5. Binomial[n][0] = Binomial[n][n - 0]
      <4>1. 0 <= n  BY <2>1
      <4> QED  BY <1>1, <1>3, <4>1
    <3> QED  BY <3>1, <3>2, <3>3, <3>4, <3>5
  <2>3. ASSUME NEW k \in 0 .. WordMax, k <= n + 1
        PROVE  Binomial[n + 1][k] = Binomial[n + 1][n + 1 - k]
    <3>1. CASE k = 0
      <4>1. n + 1 - k = n + 1  BY <2>1, <3>1
      <4> QED  BY <2>2, <3>1, <4>1
    <3>2. CASE k = n + 1
      <4>1. n + 1 - k = 0  BY <2>1, <3>2
      <4> QED  BY <2>2, <3>2, <4>1
    <3>3. CASE k # 0 /\ k # n + 1
      <4> DEFINE l == n + 1 - k
      <4>1. /\ k > 0 /\ k - 1 \in 0 .. WordMax /\ k - 1 <= n /\ k <= n
            /\ l \in 0 .. WordMax /\ l > 0 /\ n - (k - 1) = l /\ n - k = l - 1
        BY <1>1, <2>1, <2>3, <3>3
      <4>2. /\ Binomial[n + 1][k] = Binomial[n][k - 1] + Binomial[n][k]
            /\ Binomial[n + 1][l] = Binomial[n][l - 1] + Binomial[n][l]
        <5> HIDE DEF l
        <5> QED  BY <2>1, <4>1, Pascal
      <4> HIDE DEF l
      <4>3. Binomial[n][k - 1] = Binomial[n][l] /\ Binomial[n][k] = Binomial[n][l - 1]
        BY <1>3, <4>1
      <4>4. /\ Binomial[n][l] \in Nat /\ Binomial[n][l - 1] \in Nat
        <5>1. l - 1 \in 0 .. WordMax  BY <1>1, <4>1
        <5> QED  BY <4>1, <5>1, Coefficients
      <4> QED  BY <4>2, <4>3, <4>4 DEF l
    <3> QED  BY <3>1, <3>2, <3>3
  <2> QED  BY <2>1, <2>3
<1>4. \A n \in 0 .. WordMax : n \in T
  <2> HIDE DEF T
  <2> QED  BY <1>1, <1>2, <1>3, UpTo
<1> QED  BY <1>4


\* Coefficients grow up to the middle of their row,
LEMMA Growth ==
  ASSUME NEW n \in 0 .. WordMax, NEW m \in 0 .. WordMax, 2 * m <= n,
         NEW j \in 0 .. m
  PROVE  Binomial[n][j] <= Binomial[n][m]
<1> DEFINE T == {d \in 0 .. m : Binomial[n][m - d] <= Binomial[n][m]}
<1>1. WordMax \in Nat /\ n \in Nat /\ m \in Nat /\ n <= WordMax /\ m <= WordMax
  BY Constants
<1>2. Binomial[n][m] \in Nat  BY Coefficients
<1>3. 0 \in T
  <2>1. m - 0 = m /\ 0 \in 0 .. m  BY <1>1
  <2> QED  BY <1>2, <2>1
<1>4. ASSUME NEW d \in 0 .. m, d < m, d \in T  PROVE d + 1 \in T
  <2> DEFINE i == m - (d + 1)
             b == Binomial[n][i]
             c == Binomial[n][i + 1]
  <2>1. /\ d + 1 \in 0 .. m /\ i \in 0 .. WordMax /\ i < WordMax /\ i + 1 \in 0 .. WordMax
        /\ i + 1 = m - d /\ i + 1 > 0 /\ n - i >= i + 1 /\ n - i \in Nat /\ i + 1 \in Nat
    BY <1>1, <1>4
  <2>2. c <= Binomial[n][m]
    <3>1. Binomial[n][m - d] <= Binomial[n][m]  BY <1>4
    <3> QED  BY <2>1, <3>1
  <2> HIDE DEF i
  <2>3. b * (n - i) = c * (i + 1)  BY <2>1, Absorption
  <2>4. b \in Nat /\ c \in Nat  BY <2>1, Coefficients
  <2> DEFINE u == n - i
             v == i + 1
  <2>5. u \in Nat /\ v \in Nat /\ v > 0 /\ u >= v /\ b * u = c * v  BY <2>1, <2>3
  <2> HIDE DEF b, c, u, v
  <2>6. b <= c
    <3> SUFFICES ASSUME b >= c + 1  PROVE FALSE
      BY <2>4
    <3>1. b * u >= b * v
      <4>1. u - v \in Nat  BY <2>5
      <4>2. b * (u - v) \in Nat /\ b * (u - v) = b * u - b * v  BY <2>4, <2>5, <4>1
      <4>3. b * u \in Int /\ b * v \in Int  BY <2>4, <2>5
      <4> QED  BY <4>2, <4>3
    <3>2. b * v >= c * v + v
      <4>1. b - (c + 1) \in Nat  BY <2>4
      <4>2. (b - (c + 1)) * v \in Nat /\ (b - (c + 1)) * v = b * v - (c * v + v)
        BY <2>4, <2>5, <4>1
      <4>3. b * v \in Int /\ c * v \in Int  BY <2>4, <2>5
      <4> QED  BY <2>5, <4>2, <4>3
    <3>3. b * u \in Int /\ b * v \in Int /\ c * v \in Int  BY <2>4, <2>5
    <3> QED  BY <2>5, <3>1, <3>2, <3>3
  <2>7. Binomial[n][i] <= Binomial[n][m]  BY <1>2, <2>2, <2>4, <2>6 DEF b, c
  <2> QED  BY <2>1, <2>7 DEF i
<1>5. \A d \in 0 .. m : d \in T
  <2> HIDE DEF T
  <2> QED  BY <1>1, <1>3, <1>4, UpTo
<1>6. m - j \in 0 .. m /\ m - (m - j) = j  BY <1>1
<1>7. Binomial[n][m - (m - j)] <= Binomial[n][m]  BY <1>5, <1>6
<1> QED  BY <1>6, <1>7

\* and are at least the square of the column there.
LEMMA AtLeastSquare ==
  ASSUME NEW n \in 0 .. WordMax, NEW m \in 0 .. WordMax, 2 * m <= n, m > 0
  PROVE  m * m <= Binomial[n][m]
<1>1. WordMax \in Nat /\ n \in Nat /\ m \in Nat /\ n <= WordMax /\ m <= WordMax
  BY Constants
<1>2. /\ 0 \in 0 .. WordMax /\ 1 \in 0 .. WordMax /\ 2 \in 0 .. WordMax
      /\ 0 < WordMax /\ 1 < WordMax
  BY <1>1
<1>3. Binomial[n][1] = n
  <2>1. Binomial[n][0] = 1  BY <1>2, Pascal
  <2>2. Binomial[n][0] * (n - 0) = Binomial[n][0 + 1] * (0 + 1)  BY <1>2, Absorption
  <2>3. Binomial[n][1] \in Nat  BY <1>2, Coefficients
  <2>4. 1 * (n - 0) = n /\ Binomial[n][1] * (0 + 1) = Binomial[n][1] /\ 0 + 1 = 1
    BY <1>1, <2>3
  <2> QED  BY <2>1, <2>2, <2>4
<1>4. CASE m = 1
  <2>1. m * m = 1 /\ 1 <= n  BY <1>1, <1>4
  <2> QED  BY <1>3, <1>4, <2>1
<1>5. CASE m # 1
  <2> DEFINE c == Binomial[n][2]
  <2>1. c * 2 = n * (n - 1)
    <3>1. Binomial[n][1] * (n - 1) = Binomial[n][1 + 1] * (1 + 1)  BY <1>2, Absorption
    <3>2. 1 + 1 = 2  OBVIOUS
    <3> QED  BY <1>3, <3>1, <3>2
  <2>2. c <= Binomial[n][m]
    <3>1. 2 \in 0 .. m  BY <1>1, <1>5
    <3> QED  BY <3>1, Growth
  <2>3. c \in Nat /\ Binomial[n][m] \in Nat  BY <1>2, Coefficients
  <2> HIDE DEF c
  <2>4. n * (n - 1) >= (2 * m) * m
    <3>1. n - 2 * m \in Nat /\ n - 1 - m \in Nat /\ n - 1 \in Nat  BY <1>1, <1>5
    <3>2. (n - 2 * m) * (n - 1) \in Nat /\ (2 * m) * (n - 1 - m) \in Nat  BY <1>1, <3>1
    <3>3. n * (n - 1) = (n - 2 * m) * (n - 1) + ((2 * m) * (n - 1 - m) + (2 * m) * m)
      BY <1>1
    <3>4. (2 * m) * m \in Nat  BY <1>1
    <3> QED  BY <3>2, <3>3, <3>4
  <2>5. (2 * m) * m = 2 * (m * m) /\ m * m \in Nat  BY <1>1
  <2>6. m * m <= c
    <3>1. c * 2 = 2 * c  BY <2>3
    <3>2. 2 * c >= 2 * (m * m)
      <4>1. n * (n - 1) \in Int  BY <1>1
      <4> QED  BY <2>1, <2>4, <2>5, <3>1, <4>1
    <3> HIDE DEF c
    <3> QED  BY <2>3, <2>5, <3>2
  <2> QED  BY <2>2, <2>3, <2>5, <2>6
<1> QED  BY <1>4, <1>5

\* So no product before a coefficient that fits an integer is too large for a double.
LEMMA ExactProducts ==
  ASSUME NEW n \in 0 .. WordMax, NEW m \in 0 .. WordMax, 2 * m <= n,
         Binomial[n][m] <= IntMax, NEW i \in 0 .. m, i < m
  PROVE  Binomial[n][i] * (n - i) <= ExactMax
<1>1. /\ WordMax \in Nat /\ n \in Nat /\ m \in Nat /\ m <= WordMax /\ i \in Nat
      /\ IntMax \in Nat /\ ExactMax \in Nat
  BY Constants
<1>2. m > 0 /\ i \in 0 .. WordMax /\ i < WordMax /\ i + 1 \in 0 .. m /\ i + 1 \in 0 .. WordMax
  BY <1>1
<1> DEFINE b == Binomial[n][m]
           c == Binomial[n][i + 1]
<1>3. m * m <= b  BY <1>2, AtLeastSquare
<1>4. b \in Nat /\ c \in Nat  BY <1>2, Coefficients
<1>5. c <= b  BY <1>2, Growth
<1>6. Binomial[n][i] * (n - i) = c * (i + 1)  BY <1>2, Absorption
<1>7. b <= IntMax  OBVIOUS
<1> HIDE DEF b, c
<1>8. m * m \in Nat /\ m * m >= m  BY <1>1, <1>2, Multiples
<1>9. m \in 0 .. IntMax /\ m * m <= IntMax  BY <1>1, <1>3, <1>4, <1>7, <1>8
<1>10. m * IntMax <= ExactMax  BY <1>9, ExactAssumption
<1>11. c * (i + 1) <= m * IntMax
  <2> DEFINE v == i + 1
  <2>1. v \in Nat /\ m - v \in Nat /\ IntMax - c \in Nat  BY <1>1, <1>2, <1>4, <1>5, <1>7
  <2> HIDE DEF v
  <2>2. m * (IntMax - c) \in Nat /\ (m - v) * c \in Nat  BY <1>1, <1>4, <2>1
  <2>3. m * IntMax = m * (IntMax - c) + ((m - v) * c + c * v)  BY <1>1, <1>4, <2>1
  <2>4. c * v \in Nat  BY <1>4, <2>1
  <2>5. c * v <= m * IntMax  BY <2>2, <2>3, <2>4
  <2> QED  BY <2>5 DEF v
<1>12. c * (i + 1) \in Int /\ m * IntMax \in Int  BY <1>1, <1>4
<1> QED  BY <1>1, <1>6, <1>10, <1>11, <1>12

\* comb: res is the coefficient with i, and exact if the result fits an integer.
CombOK ==
  job.op = "comb" /\ out = <<>> =>
    LET n == job.args[1]
        k == job.args[2]
        m == Smaller(n, k)
    IN  0 <= k /\ k <= n =>
          /\ regs.i \in 0 .. m
          /\ regs.res = Binomial[n][regs.i]
          /\ regs.exact \in BOOLEAN
          /\ Binomial[n][m] <= IntMax => regs.exact

CombInv == JobOK /\ CombOK /\ CombExact

LEMMA SmallerFacts ==
  ASSUME NEW n \in Int, NEW k \in Int, 0 <= k, k <= n, n <= WordMax
  PROVE  /\ n \in 0 .. WordMax /\ k \in 0 .. WordMax /\ Smaller(n, k) \in 0 .. WordMax
         /\ 2 * Smaller(n, k) <= n
         /\ Binomial[n][Smaller(n, k)] = Binomial[n][k]
<1>1. WordMax \in Nat  BY Constants
<1>2. n \in 0 .. WordMax /\ k \in 0 .. WordMax  BY <1>1
<1>3. Binomial[n][k] = Binomial[n][n - k]  BY <1>2, Symmetry
<1>4. Smaller(n, k) = IF k > n - k THEN n - k ELSE k  BY DEF Smaller
<1> QED  BY <1>1, <1>2, <1>3, <1>4


LEMMA CombStep == CombInv /\ [Next]_vars => CombInv'
<1> SUFFICES ASSUME CombInv, [Next]_vars  PROVE CombInv'
  OBVIOUS
<1>1. JobOK /\ JobOK' /\ (Ends \/ Begins \/ GoesOn)  BY JobStep, Steps DEF CombInv
<1>2. CASE job'.op # "comb"  BY <1>1, <1>2 DEF CombInv, CombOK, CombExact, Done
<1>3. CASE job'.op = "comb" /\ Begins
  <2> DEFINE n == job'.args[1]
             k == job'.args[2]
             m == Smaller(n, k)
  <2>1. /\ job' \in Jobs /\ out' = <<>>
        /\ regs' = [i |-> 0, res |-> 1, exact |-> TRUE]
    BY <1>3 DEF Begins, Setup
  <2>2. n \in Int /\ k \in Int /\ n <= WordMax  BY <1>3, <2>1, JobFacts, Int32Facts
  <2> HIDE DEF n, k
  <2>3. 0 <= k /\ k <= n => 0 \in 0 .. m /\ Binomial[n][0] = 1
    <3> SUFFICES ASSUME 0 <= k, k <= n  PROVE 0 \in 0 .. m /\ Binomial[n][0] = 1
      OBVIOUS
    <3>1. n \in 0 .. WordMax /\ m \in 0 .. WordMax  BY <2>2, SmallerFacts
    <3> HIDE DEF m
    <3> QED  BY <3>1, Pascal
  <2>4. regs'.i = 0 /\ regs'.res = 1 /\ regs'.exact = TRUE  BY <2>1
  <2>5. CombOK'  BY <2>3, <2>4 DEF CombOK, n, k
  <2>6. CombExact'  BY <2>1 DEF CombExact, Done
  <2> QED  BY <1>1, <2>5, <2>6 DEF CombInv
<1>4. CASE job'.op = "comb" /\ GoesOn
  <2>1. job \in Jobs /\ job' = job /\ job.op = "comb"  BY <1>4 DEF GoesOn
  <2>2. CASE UNCHANGED vars
    <3>1. regs' = regs /\ out' = out  BY <2>2 DEF vars
    <3> QED  BY <1>1, <2>1, <3>1 DEF CombInv, CombOK, CombExact, Done, Result
  <2>3. CASE Round
    <3> DEFINE n == job.args[1]
               k == job.args[2]
               m == Smaller(n, k)
               i == regs.i
               b == Binomial[n][i]
               product == b * (n - i)
    <3>1. Comb /\ out = <<>>
      <4>1. Comb  BY <2>1, <2>3, RoundOf
      <4> QED  BY <4>1 DEF Comb, Doing
    <3>2. n \in Int /\ k \in Int /\ n <= WordMax  BY <2>1, JobFacts, Int32Facts
    <3>3. job'.args[1] = n /\ job'.args[2] = k  BY <2>1
    <3>4. CASE n < 0 \/ k < 0
      <4>1. out' = <<FAULT>>  BY <3>1, <3>4 DEF Comb, Fault, Return
      <4>2. out' # <<>> /\ Result' = FAULT  BY <4>1 DEF Result
      <4>3. CombOK'  BY <4>2 DEF CombOK
      <4>4. CombExact'  BY <3>3, <3>4, <4>2 DEF CombExact
      <4> QED  BY <1>1, <4>3, <4>4 DEF CombInv
    <3>5. CASE ~ (n < 0 \/ k < 0) /\ k > n
      <4>1. out' = <<0>>  BY <3>1, <3>5 DEF Comb, Return
      <4>2. out' # <<>> /\ Result' = 0  BY <4>1 DEF Result
      <4>3. CombOK'  BY <4>2 DEF CombOK
      <4>4. Binomial[n][k] = 0
        <5>1. k <= WordMax  BY <2>1, JobFacts, Int32Facts
        <5>2. n \in 0 .. WordMax /\ k \in 0 .. WordMax
          <6> HIDE DEF n, k
          <6> QED  BY <3>2, <3>5, <5>1, Constants
        <5> QED  BY <3>5, <5>2, Coefficients
      <4>5. ~ (Binomial[n][k] > IntMax)  BY <4>4, Constants
      <4>6. CombExact'  BY <3>3, <3>5, <4>2, <4>4, <4>5 DEF CombExact
      <4> QED  BY <1>1, <4>3, <4>6 DEF CombInv
    <3>6. CASE ~ (n < 0 \/ k < 0) /\ ~ (k > n)
      <4>1. 0 <= k /\ k <= n
        <5> HIDE DEF n, k
        <5> QED  BY <3>2, <3>6
      <4>2. /\ i \in 0 .. m /\ regs.res = b /\ regs.exact \in BOOLEAN
            /\ Binomial[n][m] <= IntMax => regs.exact
        BY <2>1, <3>1, <4>1 DEF CombInv, CombOK
      <4>3. /\ n \in 0 .. WordMax /\ k \in 0 .. WordMax /\ m \in 0 .. WordMax
            /\ 2 * m <= n /\ Binomial[n][m] = Binomial[n][k]
        <5> HIDE DEF n, k
        <5> QED  BY <3>2, <4>1, SmallerFacts
      <4>4. CASE i = m
        <5> DEFINE x == IF regs.res > IntMax THEN FLOAT
                        ELSE IF regs.exact THEN regs.res ELSE INEXACT
        <5>1. out' = <<x>>  BY <3>1, <3>6, <4>4 DEF Comb, Return
        <5>2. out' # <<>> /\ Result' = x
          <6> HIDE DEF x
          <6> QED  BY <5>1 DEF Result
        <5>3. CombOK'  BY <5>2 DEF CombOK
        <5>4. regs.res = Binomial[n][k]  BY <4>2, <4>3, <4>4
        <5>5. ~ (regs.res > IntMax) => regs.exact
          <6>1. Binomial[n][k] \in Nat /\ IntMax \in Nat  BY <4>3, Coefficients, Constants
          <6>2. ~ (Binomial[n][k] > IntMax) => Binomial[n][k] <= IntMax  BY <6>1
          <6> QED  BY <4>2, <4>3, <5>4, <6>2
        <5>6. x = IF Binomial[n][k] > IntMax THEN FLOAT ELSE Binomial[n][k]
          BY <5>4, <5>5
        <5> HIDE DEF x
        <5>7. CombExact'  BY <3>3, <3>6, <5>2, <5>6 DEF CombExact
        <5> QED  BY <1>1, <5>3, <5>7 DEF CombInv
      <4>5. CASE i # m
        <5>1. /\ out' = out
              /\ regs' = [i |-> i + 1, res |-> product \div (i + 1),
                          exact |-> regs.exact /\ product <= ExactMax]
          <6>1. /\ out' = out
                /\ regs' = [i |-> regs.i + 1,
                            res |-> (regs.res * (n - regs.i)) \div (regs.i + 1),
                            exact |-> regs.exact /\ regs.res * (n - regs.i) <= ExactMax]
            BY <3>1, <3>6, <4>5 DEF Comb
          <6> QED  BY <4>2, <6>1
        <5> DEFINE c == Binomial[n][i + 1]
        <5> HIDE DEF n, k, m, i
        <5>2. /\ i \in 0 .. WordMax /\ i < WordMax /\ i < m /\ i + 1 \in 0 .. m
              /\ i + 1 \in 0 .. WordMax /\ i + 1 \in Nat /\ i + 1 > 0
          BY <4>2, <4>3, <4>5, Constants
        <5>3. product = c * (i + 1)  BY <4>3, <5>2, Absorption
        <5>4. c \in Nat  BY <4>3, <5>2, Coefficients
        <5>5. product \div (i + 1) = c
          <6> DEFINE v == i + 1
          <6>1. v \in Nat /\ v > 0  BY <5>2
          <6> HIDE DEF c, v
          <6>2. c * v = v * c  BY <5>4, <6>1
          <6>3. (v * c) \div v = c  BY <5>4, <6>1, ExactDiv
          <6>4. (c * v) \div v = c  BY <6>2, <6>3
          <6> QED  BY <5>3, <6>4 DEF v
        <5>6. Binomial[n][m] <= IntMax => product <= ExactMax
          BY <4>2, <4>3, <5>2, ExactProducts
        <5> HIDE DEF product
        <5>7. /\ regs'.i = i + 1 /\ regs'.res = Binomial[n][i + 1]
              /\ regs'.exact = (regs.exact /\ product <= ExactMax)
          BY <5>1, <5>5
        <5>8. regs'.exact \in BOOLEAN
          BY <5>7
        <5>9. Binomial[n][m] <= IntMax => regs'.exact
          BY <4>2, <5>6, <5>7
        <5>10. /\ regs'.i \in 0 .. m /\ regs'.res = Binomial[n][regs'.i]
          BY <5>2, <5>7
        <5>11. CombOK'  BY <3>3, <5>8, <5>9, <5>10 DEF CombOK, m
        <5>12. CombExact'  BY <3>1, <5>1 DEF CombExact, Done
        <5> QED  BY <1>1, <5>11, <5>12 DEF CombInv
      <4> QED  BY <4>4, <4>5
    <3> QED  BY <3>4, <3>5, <3>6
  <2> QED  BY <1>4, <2>2, <2>3 DEF GoesOn
<1>5. Ends => job'.op # "comb"  BY NoneFacts DEF Ends
<1> QED  BY <1>1, <1>2, <1>3, <1>4, <1>5

\* A binomial coefficient that fits an integer is exact, although it is computed
\* with doubles (primitives.c:735-740).
THEOREM CombAlwaysExact == Spec => []CombExact
<1>1. Init => CombInv
  BY NoneFacts DEF Init, CombInv, JobOK, CombOK, CombExact, Done
<1>2. CombInv => CombExact  BY DEF CombInv
<1> QED  BY <1>1, <1>2, CombStep, PTL DEF Spec


-----------------------------------------------------------------------------
(***************************************************************************)
(* for loops over ranges                                                   *)
(***************************************************************************)

Value(s, k) == s[1] + k * s[3]
Inside(s, v) == IF s[3] > 0 THEN v < s[2] ELSE v > s[2]
RangeOf(s) == RangeRef(s[1], s[2], s[3])

\* A range has as many values as lie inside it.
LEMMA RangeFacts ==
  ASSUME NEW s, s[1] \in Int32, s[2] \in Int32, s[3] \in Int32, s[3] # 0
  PROVE  \E n \in Nat : /\ n <= 2 * (WordMax + 1)
                        /\ \A k \in Nat : Inside(s, Value(s, k)) <=> k < n
                        /\ RangeOf(s) = [i \in 1 .. n |-> Value(s, i - 1)]
                        /\ RangeOf(s) \in Seq(Int) /\ Len(RangeOf(s)) = n
<1> DEFINE start == s[1]
           stop == s[2]
           step == s[3]
           In(k) == Inside(s, Value(s, k))
           M == 2 * WordMax + 1
           S == {k \in 0 .. M : In(k)}
<1>1. WordMax \in Nat /\ M \in Nat /\ M + 1 \in Nat /\ M + 1 = 2 * (WordMax + 1)  BY Constants
<1>2. /\ start \in Int /\ - WordMax - 1 <= start /\ start <= WordMax
      /\ stop \in Int /\ - WordMax - 1 <= stop /\ stop <= WordMax
      /\ step \in Int /\ step # 0
  BY Int32Facts
<1>3. \A k \in Nat : Value(s, k) = start + k * step /\ Value(s, k) \in Int
  BY <1>2 DEF Value
<1>4. \A v : Inside(s, v) <=> IF step > 0 THEN v < stop ELSE v > stop
  BY DEF Inside
<1> HIDE DEF start, stop, step
<1>5. ASSUME NEW k \in Nat, NEW l \in Nat, k <= l, In(l)  PROVE In(k)
  <2>1. Value(s, k) = start + k * step /\ Value(s, l) = start + l * step  BY <1>3
  <2>2. l - k \in Nat /\ (l - k) * step = l * step - k * step
        /\ l * step \in Int /\ k * step \in Int
    BY <1>2, <1>5
  <2>3. CASE step > 0
    <3>1. (l - k) * step >= 0  BY <1>2, <2>2, <2>3
    <3>2. Value(s, l) < stop  BY <1>4, <1>5, <2>3
    <3>3. Value(s, k) < stop  BY <1>2, <2>1, <2>2, <3>1, <3>2
    <3> QED  BY <1>4, <2>3, <3>3
  <2>4. CASE ~ (step > 0)
    <3>1. - step \in Nat  BY <1>2, <2>4
    <3>2. (l - k) * (- step) >= 0 /\ (l - k) * (- step) = - ((l - k) * step)
      BY <1>2, <2>2, <3>1
    <3>3. Value(s, l) > stop  BY <1>4, <1>5, <2>4
    <3>4. (l - k) * step <= 0 /\ (l - k) * step \in Int  BY <1>2, <2>2, <3>2
    <3>5. Value(s, k) > stop  BY <1>2, <2>1, <2>2, <3>3, <3>4
    <3> QED  BY <1>4, <2>4, <3>5
  <2> QED  BY <2>3, <2>4
<1>6. ~ In(M + 1)
  <2>1. Value(s, M + 1) = start + (M + 1) * step  BY <1>1, <1>3
  <2>2. CASE step > 0
    <3>1. (M + 1) * step >= M + 1 /\ (M + 1) * step \in Int
      <4>1. M + 1 > 0 /\ step >= 1  BY <1>1, <1>2, <2>2
      <4> HIDE DEF M
      <4> QED  BY <1>1, <1>2, <4>1, Multiples
    <3>2. ~ (Value(s, M + 1) < stop)  BY <1>1, <1>2, <2>1, <3>1
    <3> QED  BY <1>4, <2>2, <3>2
  <2>3. CASE ~ (step > 0)
    <3>1. (M + 1) * step <= - (M + 1) /\ (M + 1) * step \in Int
      <4>1. M + 1 > 0 /\ step <= -1  BY <1>1, <1>2, <2>3
      <4> HIDE DEF M
      <4> QED  BY <1>1, <1>2, <4>1, Multiples
    <3>2. ~ (Value(s, M + 1) > stop)  BY <1>1, <1>2, <2>1, <3>1
    <3> QED  BY <1>4, <2>3, <3>2
  <2> QED  BY <2>2, <2>3
<1>7. PICK n \in Nat : ~ In(n) /\ \A k \in Nat : ~ In(k) => n <= k
  <2> DEFINE T == {k \in Nat : ~ In(k)}
  <2>1. T \subseteq Nat /\ M + 1 \in T  BY <1>1, <1>6
  <2>2. PICK m \in T : \A k \in T : m <= k
    <3> HIDE DEF T
    <3> QED  BY <2>1, LeastNat
  <2> QED  BY <2>1, <2>2
<1>8. n <= M + 1  BY <1>1, <1>6, <1>7
<1>9. ASSUME NEW k \in Nat  PROVE In(k) <=> k < n
  <2> HIDE DEF In
  <2>1. ~ In(k) => n <= k  BY <1>7
  <2>2. n <= k => ~ In(k)  BY <1>5, <1>7
  <2> QED  BY <2>1, <2>2
<1>10. S = 0 .. n - 1
  <2> HIDE DEF In, M
  <2> QED  BY <1>1, <1>8, <1>9
<1>11. Cardinality(S) = n
  <2> HIDE DEF S
  <2>1. Cardinality(0 .. n - 1) = IF 0 > n - 1 THEN 0 ELSE (n - 1) - 0 + 1
    <3>1. 0 \in Int /\ n - 1 \in Int  OBVIOUS
    <3> QED  BY <3>1, FS_Interval
  <2> QED  BY <1>10, <2>1
<1>12. RangeOf(s) = [i \in 1 .. n |-> Value(s, i - 1)]
  <2>1. S = {k \in 0 .. 2 * WordMax + 1 :
               IF step > 0 THEN start + k * step < stop ELSE start + k * step > stop}
    BY DEF Inside, Value, start, stop, step
  <2> HIDE DEF S
  <2>2. RangeOf(s) = [i \in 1 .. n |-> start + (i - 1) * step]
    BY <1>11, <2>1, Zenon DEF RangeOf, RangeRef, start, stop, step
  <2> QED  BY <2>2, Zenon DEF Value, start, step
<1> DEFINE r == RangeOf(s)
<1>13. r \in [1 .. n -> Int]
  <2>1. \A i \in 1 .. n : i - 1 \in Nat  OBVIOUS
  <2> QED  BY <1>3, <1>12, <2>1
<1>14. r \in Seq(Int) /\ Len(r) = n
  <2> HIDE DEF r
  <2> QED  BY <1>13
<1> QED  BY <1>1, <1>8, <1>9, <1>12, <1>14

\* Addition does not wrap around inside int32_t.
LEMMA WrapInside ==
  ASSUME NEW a \in Int32  PROVE Wrap32(a) = a
<1> DEFINE m == 2 * (WordMax + 1)
           c == a + WordMax + 1
<1>1. WordMax \in Nat /\ a \in Int /\ - WordMax - 1 <= a /\ a <= WordMax
  BY Constants, Int32Facts
<1>2. m \in Nat /\ m > 0 /\ c \in Nat /\ c < m  BY <1>1
<1>3. Wrap32(a) = (c % m) - WordMax - 1  BY DEF Wrap32
<1>4. c % m = c
  <2> HIDE DEF c, m
  <2> QED  BY <1>2
<1>5. c - WordMax - 1 = a  BY <1>1
<1> HIDE DEF c, m
<1> QED  BY <1>3, <1>4, <1>5

\* As many values as there were rounds, and the next one.
RangeOK ==
  job.op = "range" /\ ~ StepsOut =>
    LET s == job.args
        c == Len(out)
    IN  /\ regs \in [current : Int, going : BOOLEAN]
        /\ s[3] = 0 => out = IF regs.going THEN <<>> ELSE <<FAULT>>
        /\ s[3] # 0 =>
             /\ out \in Seq(Int)
             /\ c <= Len(RangeOf(s))
             /\ regs.going => regs.current = Value(s, c)
             /\ \A i \in 1 .. c : out[i] = Value(s, i - 1)
             /\ ~ regs.going => out = RangeOf(s)

RangeInv == JobOK /\ RangeOK


LEMMA RangeStep == RangeInv /\ [Next]_vars => RangeInv'
<1> SUFFICES ASSUME RangeInv, [Next]_vars  PROVE RangeInv'
  OBVIOUS
<1>1. JobOK /\ JobOK' /\ (Ends \/ Begins \/ GoesOn)  BY JobStep, Steps DEF RangeInv
<1>2. CASE job'.op # "range"  BY <1>1, <1>2 DEF RangeInv, RangeOK
<1>3. CASE job'.op = "range" /\ Begins
  <2> DEFINE s == job'.args
  <2>1. job' \in Jobs /\ out' = <<>> /\ regs' = [current |-> s[1], going |-> TRUE]
    BY <1>3 DEF Begins, Setup
  <2>2. s[1] \in Int32 /\ s[2] \in Int32 /\ s[3] \in Int32  BY <1>3, <2>1, JobFacts
  <2>3. s[1] \in Int /\ s[3] \in Int  BY <2>2, Int32Facts
  <2> HIDE DEF s
  <2>4. /\ regs' \in [current : Int, going : BOOLEAN]
        /\ regs'.current = s[1] /\ regs'.going = TRUE
    BY <2>1, <2>3
  <2>5. s[1] = Value(s, 0)  BY <2>3 DEF Value
  <2>6. out' \in Seq(Int) /\ Len(out') = 0 /\ 1 .. Len(out') = {}  BY <2>1
  <2>7. s[3] # 0 => 0 <= Len(RangeOf(s))
    <3> SUFFICES ASSUME s[3] # 0  PROVE 0 <= Len(RangeOf(s))
      OBVIOUS
    <3>1. Len(RangeOf(s)) \in Nat  BY <2>2, RangeFacts
    <3> QED  BY <3>1
  <2>8. RangeOK'  BY <2>1, <2>4, <2>5, <2>6, <2>7 DEF RangeOK, s
  <2> QED  BY <1>1, <2>8 DEF RangeInv
<1>4. CASE job'.op = "range" /\ GoesOn
  <2> DEFINE s == job.args
             c == Len(out)
             r == RangeOf(s)
             n == Len(r)
  <2>1. job \in Jobs /\ job' = job /\ job.op = "range" /\ job'.args = s
    BY <1>4 DEF GoesOn
  <2>2. s[1] \in Int32 /\ s[2] \in Int32 /\ s[3] \in Int32  BY <2>1, JobFacts
  <2>3. s[1] \in Int /\ s[2] \in Int /\ s[3] \in Int  BY <2>2, Int32Facts
  <2>4. StepsOut' = StepsOut  BY <2>1 DEF StepsOut, PythonRange
  <2>5. CASE StepsOut  BY <1>1, <2>4, <2>5 DEF RangeInv, RangeOK
  <2>6. CASE ~ StepsOut /\ UNCHANGED vars
    <3>1. regs' = regs /\ out' = out  BY <2>6 DEF vars
    <3> QED  BY <1>1, <2>1, <2>4, <3>1 DEF RangeInv, RangeOK
  <2>7. CASE ~ StepsOut /\ Round
    <3>1. ForIter  BY <2>1, <2>7, RoundOf
    <3>2. regs.going /\ regs \in [current : Int, going : BOOLEAN]
      BY <2>1, <2>7, <3>1 DEF RangeInv, RangeOK, ForIter
    <3>3. Going(regs.current, s[2], s[3]) <=> s[3] # 0 /\ Inside(s, regs.current)
      <4> HIDE DEF s
      <4> QED  BY <2>3 DEF Going, Inside
    <3>4. CASE s[3] = 0
      <4>1. out' = <<FAULT>> /\ regs' = [regs EXCEPT !.going = FALSE]
        BY <3>1, <3>3, <3>4 DEF ForIter
      <4>2. regs' \in [current : Int, going : BOOLEAN] /\ ~ regs'.going
        BY <3>2, <4>1
      <4>3. RangeOK'  BY <2>1, <3>4, <4>1, <4>2 DEF RangeOK
      <4> QED  BY <1>1, <4>3 DEF RangeInv
    <3>5. CASE s[3] # 0
      <4>1. /\ out \in Seq(Int) /\ c <= n /\ regs.current = Value(s, c)
            /\ \A i \in 1 .. c : out[i] = Value(s, i - 1)
        BY <2>1, <2>7, <3>2, <3>5 DEF RangeInv, RangeOK
      <4>2. /\ n \in Nat /\ n <= 2 * (WordMax + 1)
            /\ \A k \in Nat : Inside(s, Value(s, k)) <=> k < n
            /\ r = [i \in 1 .. n |-> Value(s, i - 1)]
        BY <2>2, <3>5, RangeFacts
      <4>3. c \in Nat /\ out = [i \in 1 .. c |-> out[i]]  BY <4>1
      <4>4. Going(regs.current, s[2], s[3]) <=> c < n
        BY <3>3, <3>5, <4>1, <4>2, <4>3
      <4>5. CASE ~ (c < n)
        <5>1. out' = out /\ regs' = [regs EXCEPT !.going = FALSE]
          BY <3>1, <3>5, <4>4, <4>5 DEF ForIter
        <5>2. regs' \in [current : Int, going : BOOLEAN] /\ ~ regs'.going
          BY <3>2, <5>1
        <5>3. c = n
          <6> HIDE DEF c, n
          <6> QED  BY <4>1, <4>2, <4>3, <4>5
        <5>4. out = r
          <6> HIDE DEF r, s, n, c
          <6>1. [i \in 1 .. c |-> out[i]] = [i \in 1 .. n |-> Value(s, i - 1)]
            BY <4>1, <5>3
          <6> QED  BY <4>2, <4>3, <6>1
        <5>5. RangeOK'  BY <2>1, <3>5, <4>1, <5>1, <5>2, <5>4 DEF RangeOK
        <5> QED  BY <1>1, <5>5 DEF RangeInv
      <4>6. CASE c < n
        <5> DEFINE v == Value(s, c)
                   w == Value(s, c + 1)
        <5>1. c < MaxOut
          <6> HIDE DEF c, n
          <6> QED  BY <4>2, <4>3, <4>6, Constants
        <5>2. /\ out' = Append(out, v)
              /\ regs' = [regs EXCEPT !.current = Wrap32(v + s[3])]
          BY <3>1, <4>1, <4>4, <4>6, <5>1 DEF ForIter
        <5>3. v \in Int /\ v + s[3] = w /\ w \in Int
          <6> HIDE DEF s, c
          <6>1. c * s[3] \in Int /\ (c + 1) * s[3] = c * s[3] + s[3]  BY <2>3, <4>3
          <6> QED  BY <2>3, <6>1 DEF Value
        <5>4. w \in Int32
          <6>1. CASE c + 1 = n
            <7>1. n > 0 /\ n \in 1 .. n /\ n - 1 = c
              <8> HIDE DEF c, n
              <8> QED  BY <4>2, <4>3, <6>1
            <7>2. r[n] = v
              <8> HIDE DEF s, c, n, r
              <8> QED  BY <4>2, <7>1
            <7>3. PythonRange = r  BY DEF PythonRange, RangeOf
            <7>4. ~ (r[n] + s[3] \notin Int32)
              <8> HIDE DEF r
              <8> QED  BY <2>7, <3>5, <7>1, <7>3 DEF StepsOut
            <7> QED  BY <5>3, <7>2, <7>4
          <6>2. CASE c + 1 # n
            <7>1. c \in Nat /\ c + 1 \in Nat /\ c + 1 < n
              <8> HIDE DEF c, n
              <8> QED  BY <4>2, <4>3, <4>6, <6>2
            <7>2. Inside(s, w)  BY <4>2, <7>1
            <7>3. /\ - WordMax - 1 <= s[1] /\ s[1] <= WordMax
                  /\ - WordMax - 1 <= s[2] /\ s[2] <= WordMax
              BY <2>2, Int32Facts
            <7> HIDE DEF s, c, n, r, v, w
            <7>4. CASE s[3] > 0
              <8>1. w < s[2]  BY <7>2, <7>4 DEF Inside
              <8>2. w >= s[1]
                <9>1. (c + 1) * s[3] \in Int /\ (c + 1) * s[3] >= 0  BY <2>3, <7>1, <7>4
                <9>2. w = s[1] + (c + 1) * s[3]  BY DEF w, Value
                <9> QED  BY <2>3, <9>1, <9>2
              <8> QED  BY <2>3, <5>3, <7>3, <8>1, <8>2, Constants DEF Int32
            <7>5. CASE ~ (s[3] > 0)
              <8>1. w > s[2]  BY <7>2, <7>5 DEF Inside
              <8>2. w <= s[1]
                <9>1. - s[3] \in Nat  BY <2>3, <7>5
                <9>2. (c + 1) * (- s[3]) >= 0 /\ (c + 1) * (- s[3]) = - ((c + 1) * s[3])
                  BY <2>3, <7>1, <9>1
                <9>3. (c + 1) * s[3] \in Int  BY <2>3, <7>1
                <9>4. w = s[1] + (c + 1) * s[3]  BY DEF w, Value
                <9> QED  BY <2>3, <9>2, <9>3, <9>4
              <8> QED  BY <2>3, <5>3, <7>3, <8>1, <8>2, Constants DEF Int32
            <7> QED  BY <7>4, <7>5
          <6> QED  BY <6>1, <6>2
        <5>5. Wrap32(v + s[3]) = w  BY <5>3, <5>4, WrapInside
        <5> HIDE DEF v, w, n, r
        <5>6. /\ out' \in Seq(Int) /\ Len(out') = c + 1
              /\ \A i \in 1 .. c : out'[i] = out[i]
              /\ out'[c + 1] = v
          BY <4>1, <5>2, <5>3
        <5> HIDE DEF c
        <5>7. ASSUME NEW i \in 1 .. c + 1  PROVE out'[i] = Value(s, i - 1)
          <6>1. CASE i = c + 1
            <7>1. i - 1 = c  BY <4>3, <6>1
            <7> QED  BY <5>6, <6>1, <7>1 DEF v
          <6>2. CASE i # c + 1
            <7>1. i \in 1 .. c  BY <4>3, <6>2
            <7> QED  BY <4>1, <5>6, <7>1
          <6> QED  BY <6>1, <6>2
        <5>8. /\ regs' \in [current : Int, going : BOOLEAN]
              /\ regs'.going /\ regs'.current = w
          BY <3>2, <5>2, <5>3, <5>5
        <5>9. c + 1 <= n  BY <4>2, <4>3, <4>6
        <5>10. RangeOK'
          BY <2>1, <3>5, <5>6, <5>7, <5>8, <5>9 DEF RangeOK, w, n, r
        <5> QED  BY <1>1, <5>10 DEF RangeInv
      <4> QED  BY <4>5, <4>6
    <3> QED  BY <3>4, <3>5
  <2> QED  BY <1>4, <2>5, <2>6, <2>7 DEF GoesOn
<1>5. Ends => job'.op # "range"  BY NoneFacts DEF Ends
<1> QED  BY <1>1, <1>2, <1>3, <1>4, <1>5

\* A for loop takes the values of Python's range, in order and no others, unless the
\* step from the last one leaves int32_t.
THEOREM RangeAlwaysExact == Spec => []RangeExact
<1>1. Init => RangeInv  BY NoneFacts DEF Init, RangeInv, JobOK, RangeOK
<1>2. ASSUME RangeInv  PROVE RangeExact
  <2> SUFFICES ASSUME job.op = "range", ~ StepsOut
               PROVE  /\ Len(out) <= Len(PythonRange) \/ job.args[3] = 0
                      /\ ~ regs.going => RangeGives(PythonRange)
    BY DEF RangeExact
  <2>1. PythonRange = RangeOf(job.args)  BY DEF PythonRange, RangeOf
  <2> QED  BY <1>2, <2>1 DEF RangeInv, RangeOK, RangeGives
<1> QED  BY <1>1, <1>2, RangeStep, PTL DEF Spec
=============================================================================
