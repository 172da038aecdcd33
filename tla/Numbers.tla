------------------------------ MODULE Numbers ------------------------------
(***************************************************************************)
(* Integers in the Pynter VM.  Python's are unbounded; a NaN-box holds one *)
(* of IntMin .. IntMax, and a float stands for any other (NANBOX_WRAP_INT).*)
(* C computes with int32_t (Word) and int64_t (Wide).                      *)
(*                                                                         *)
(* A job is one instruction or library function with its arguments: mod    *)
(* and floordiv, list subscripts, gcd, lcm, comb, isqrt, and a for loop    *)
(* over a range.  Its loop is taken one iteration at a time.               *)
(*                                                                         *)
(* Floats are not modelled: a result out of the integers' range is given   *)
(* as the integer that the float stands for, exact or not.                 *)
(***************************************************************************)
EXTENDS Integers, Sequences, FiniteSets

CONSTANTS
  IntMax,   \* NANBOX_INTMAX
  WordMax,  \* INT32_MAX
  WideMax,  \* INT64_MAX
  ExactMax, \* up to this, integers are exact as doubles (2^53)
  MaxArgs,  \* bound on the number of arguments of gcd and lcm
  MaxOut,   \* bound on the number of values of a range that are recorded
  Jobs,     \* the jobs to be done
  FAULT,    \* results: a fault, a float, an integer that may be wrong
  FLOAT,
  INEXACT

ASSUME RangeAssumption ==
  /\ MaxOut \in Nat
  /\ 2 * (WordMax + 1) <= MaxOut
  /\ IntMax \in Nat \ {0}
  /\ WordMax \in Nat
  /\ WideMax \in Nat
  /\ ExactMax \in Nat
  /\ IntMax <= WordMax
  /\ (WordMax + 1) * (WordMax + 1) <= WideMax

\* primitives.c:735-740 says that a coefficient that fits an integer comes from
\* products that are exact as doubles.  It needs this, which holds for both ranges
\* that NANBOX_INTMAX may stand for (2^20 and 2^31).
ASSUME ExactAssumption ==
  \A k \in 0 .. IntMax : k * k <= IntMax => k * IntMax <= ExactMax

IntMin == - IntMax - 1
Int32 == - WordMax - 1 .. WordMax
SmallInt == IntMin .. IntMax
Wide == - WideMax - 1 .. WideMax

\* The arguments of a job: n of them, the subscript and the length of a list, or any
\* number.
Fixed(op, n) == [op : {op}, args : [1 .. n -> Int32]]
ASSUME JobsAssumption ==
  Jobs \subseteq Fixed("divmod", 2) \cup Fixed("comb", 2) \cup Fixed("isqrt", 1)
                \cup Fixed("range", 3)
                \cup [op : {"subscript"}, args : SmallInt \X (0 .. WordMax)]
                \cup [op : {"gcd", "lcm"}, args : Seq(Int32)]

VARIABLES
  job,   \* what is computed: its name and arguments
  regs,  \* the local variables of its loop
  out    \* what it has given: a sequence

vars == <<job, regs, out>>

None == [op |-> "none", args |-> <<>>]

Init == job = None /\ regs = <<>> /\ out = <<>>

-----------------------------------------------------------------------------
(***************************************************************************)
(* C's arithmetic                                                          *)
(***************************************************************************)

Abs(a) == IF a < 0 THEN - a ELSE a

\* C's / and % round towards zero.
CDiv(a, b) == IF (a < 0) = (b < 0) THEN Abs(a) \div Abs(b) ELSE - (Abs(a) \div Abs(b))
CRem(a, b) == a - b * CDiv(a, b)

\* Unsigned addition wraps around, and is converted back to int32_t.
Wrap32(a) == ((a + WordMax + 1) % (2 * (WordMax + 1))) - WordMax - 1

\* The corrections that mod and floordiv make where C's signs differ from
\* Python's.
FloorMod(a, b) ==
  LET m == CRem(a, b) IN IF m # 0 /\ (m < 0) # (b < 0) THEN m + b ELSE m

\* Mutant of FloorDiv: C's quotient.
FloorDiv_Truncated(a, b) == CDiv(a, b)

FloorDiv(a, b) ==
  LET m == CRem(a, b) IN IF m # 0 /\ (m < 0) # (b < 0) THEN CDiv(a, b) - 1 ELSE CDiv(a, b)

-----------------------------------------------------------------------------
(***************************************************************************)
(* Jobs                                                                    *)
(***************************************************************************)

Doing(op) == job.op = op /\ out = <<>>
Return(r) == out' = <<r>> /\ regs' = <<>> /\ UNCHANGED job
Fault == Return(FAULT)

\* A job is given to the VM when the last one is done, and its loop is set up.
Setup(j) ==
  CASE j.op \in {"gcd", "lcm"} ->
         [i |-> 0, res |-> IF j.op = "gcd" THEN 0 ELSE 1, a |-> 0, b |-> 0,
          over |-> FALSE]
    [] j.op = "isqrt" -> [low |-> 1, high |-> j.args[1]]
    [] j.op = "comb" -> [i |-> 0, res |-> 1, exact |-> TRUE]
    [] j.op = "range" -> [current |-> j.args[1], going |-> TRUE]
    [] OTHER -> <<>>
Start(j) ==
  /\ job = None
  /\ job' = j
  /\ regs' = Setup(j)
  /\ UNCHANGED out

Finish ==
  /\ job # None
  /\ IF job.op = "range" THEN ~ regs.going ELSE out # <<>>
  /\ job' = None
  /\ regs' = <<>>
  /\ out' = <<>>

\* mod and floordiv, on two integers; both results are given.
DivMod ==
  /\ Doing("divmod")
  /\ LET a == job.args[1]
         b == job.args[2]
     IN  IF b = 0 THEN Fault ELSE Return(<<FloorDiv(a, b), FloorMod(a, b)>>)

\* Mutant of Subscript: the index may be equal to the length.
Subscript_OffByOne ==
  /\ Doing("subscript")
  /\ LET len == job.args[2]
         idx == IF job.args[1] < 0 THEN job.args[1] + len ELSE job.args[1]
     IN  IF idx < 0 \/ idx > len THEN Fault ELSE Return(idx)

\* pop_array_args: a subscript, and the length of the list.
Subscript ==
  /\ Doing("subscript")
  /\ LET len == job.args[2]
         idx == IF job.args[1] < 0 THEN job.args[1] + len ELSE job.args[1]
     IN  IF idx < 0 \/ idx >= len THEN Fault ELSE Return(idx)

\* pynter_gcd_i64, one round; regs.b = 0 when it is done.
GcdRound ==
  /\ Doing("gcd") \/ Doing("lcm")
  /\ regs.b # 0
  /\ regs' = [regs EXCEPT !.a = regs.b, !.b = CRem(regs.a, regs.b)]
  /\ UNCHANGED <<job, out>>

\* Mutant of GcdNext: the sign of the argument is kept.
GcdNext_Signed ==
  /\ Doing("gcd")
  /\ regs.b = 0
  /\ LET res == IF regs.i = 0 THEN 0 ELSE regs.a
     IN  IF regs.i = Len(job.args)
         THEN Return(res)
         ELSE /\ regs' = [regs EXCEPT !.i = @ + 1, !.res = res, !.a = res,
                                      !.b = job.args[regs.i + 1]]
              /\ UNCHANGED <<job, out>>

\* The next argument of gcd.
GcdNext ==
  /\ Doing("gcd")
  /\ regs.b = 0
  /\ LET res == IF regs.i = 0 THEN 0 ELSE regs.a
     IN  IF regs.i = Len(job.args)
         THEN Return(res)
         ELSE /\ regs' = [regs EXCEPT !.i = @ + 1, !.res = res, !.a = res,
                                      !.b = Abs(job.args[regs.i + 1])]
              /\ UNCHANGED <<job, out>>

\* Mutant of TooLarge: products are assumed to fit.
TooLarge_Never(scaled, v) == FALSE
TooLarge(scaled, v) == scaled > WideMax \div v

\* lcm has the greatest common divisor of its result and the last argument: the
\* product is too large for int64_t, in which case the loop only looks for
\* zeros, or it is the new result.
LcmNext ==
  /\ Doing("lcm")
  /\ regs.b = 0
  /\ LET v == IF regs.i = 0 THEN 1 ELSE Abs(job.args[regs.i])
         scaled == IF regs.i = 0 THEN 1 ELSE regs.res \div regs.a
         over == regs.over \/ TooLarge(scaled, v)
         res == IF over THEN regs.res ELSE scaled * v
     IN  IF regs.i = Len(job.args)
         THEN Return(IF over THEN FLOAT ELSE res)
         ELSE LET next == Abs(job.args[regs.i + 1])
              IN  IF next = 0 THEN Return(0)
                  ELSE /\ regs' = [i |-> regs.i + 1, res |-> res, over |-> over,
                                   a |-> IF over THEN 1 ELSE res,
                                   b |-> IF over THEN 0 ELSE next]
                       /\ UNCHANGED <<job, out>>

\* Mutants of Fits and Middle: squares are not found; the middle is rounded down.
Fits_Strictly(mid, n) == mid * mid < n
Middle_RoundedDown(low, high) == low + (high - low) \div 2
Fits(mid, n) == mid * mid <= n
Middle(low, high) == low + (high - low + 1) \div 2

\* isqrt: a binary search.
Isqrt ==
  /\ Doing("isqrt")
  /\ LET n == job.args[1]
         mid == Middle(regs.low, regs.high)
     IN  IF n < 0 THEN Fault
         ELSE IF n < 2 THEN Return(n)
         ELSE IF regs.low >= regs.high THEN Return(regs.low)
         ELSE /\ regs' = IF Fits(mid, n)
                         THEN [regs EXCEPT !.low = mid]
                         ELSE [regs EXCEPT !.high = mid - 1]
              /\ UNCHANGED <<job, out>>

\* comb: the product is a double, and no longer exact if it is too large.
\* Mutant of Smaller: the larger of two equal coefficients is computed.
Smaller_Not(n, k) == k
Smaller(n, k) == IF k > n - k THEN n - k ELSE k
Comb ==
  /\ Doing("comb")
  /\ LET n == job.args[1]
         k == job.args[2]
         product == regs.res * (n - regs.i)
     IN  IF n < 0 \/ k < 0 THEN Fault
         ELSE IF k > n THEN Return(0)
         ELSE IF regs.i = Smaller(n, k)
              THEN Return(IF regs.res > IntMax THEN FLOAT
                          ELSE IF regs.exact THEN regs.res ELSE INEXACT)
         ELSE /\ regs' = [i |-> regs.i + 1, res |-> product \div (regs.i + 1),
                          exact |-> regs.exact /\ product <= ExactMax]
              /\ UNCHANGED <<job, out>>

\* Mutant of Going: the stop belongs to the range.
Going_Inclusive(current, stop, step) ==
  IF step > 0 THEN current <= stop ELSE step < 0 /\ current >= stop
Going(current, stop, step) ==
  IF step > 0 THEN current < stop ELSE step < 0 /\ current > stop

\* range and for_iter: a step of zero is a fault; otherwise current is given to
\* the body of the loop, and the step is added.
ForIter ==
  /\ job.op = "range"
  /\ regs.going
  /\ LET stop == job.args[2]
         step == job.args[3]
     IN  IF Going(regs.current, stop, step)
         THEN /\ out' = IF Len(out) < MaxOut THEN Append(out, regs.current) ELSE out
              /\ regs' = [regs EXCEPT !.current = Wrap32(@ + step)]
         ELSE /\ out' = IF step = 0 THEN <<FAULT>> ELSE out
              /\ regs' = [regs EXCEPT !.going = FALSE]
  /\ UNCHANGED job

Round == DivMod \/ Subscript \/ GcdRound \/ GcdNext \/ LcmNext \/ Isqrt \/ Comb \/ ForIter
Next == (\E j \in Jobs : Start(j)) \/ Round \/ Finish

Spec == Init /\ [][Next]_vars

\* The loops run to their ends.
FairSpec == Spec /\ WF_vars(Round \/ Finish)
-----------------------------------------------------------------------------
(***************************************************************************)
(* Properties                                                              *)
(***************************************************************************)

Done(op) == job.op = op /\ out # <<>>
Result == out[1]
Magnitudes == {Abs(job.args[i]) : i \in DOMAIN job.args}
Divides(d, n) == \E k \in 0 .. n : k * d = n

\* vm.c:854: the quotient times the divisor plus the remainder is the dividend,
\* whatever the signs and even at the limits of int32_t; the remainder is
\* smaller than the divisor and has its sign.
DivModExact ==
  Done("divmod") =>
    LET a == job.args[1]
        b == job.args[2]
    IN  IF b = 0 THEN Result = FAULT
        ELSE /\ Result[1] * b + Result[2] = a
             /\ IF b > 0 THEN Result[2] \in 0 .. b - 1 ELSE Result[2] \in b + 1 .. 0

\* vm.c:174-181: a subscript from -len to len - 1 is that of the element Python
\* names with it, and any other is a fault.
SubscriptExact ==
  Done("subscript") =>
    LET i == job.args[1]
        len == job.args[2]
    IN  IF i \in - len .. len - 1 THEN Result = i % len ELSE Result = FAULT

\* gcd gives the greatest common divisor, 0 if all arguments are; lcm the least
\* common multiple unless it was too large for int64_t on the way, and 0 if one
\* argument is 0, even then.
GcdLcmExact ==
  /\ Done("gcd") =>
       IF Magnitudes \subseteq {0} THEN Result = 0
       ELSE /\ \A m \in Magnitudes : Divides(Result, m)
            /\ \A d \in Result + 1 .. WordMax + 1 : \E m \in Magnitudes : ~ Divides(d, m)
  /\ Done("lcm") =>
       IF 0 \in Magnitudes THEN Result = 0
       ELSE Result # FLOAT =>
              /\ \A m \in Magnitudes : Result % m = 0
              /\ \A r \in 1 .. Result - 1 : \E m \in Magnitudes : r % m # 0

\* isqrt gives the root, rounded down, of every int32_t that is not negative.
IsqrtExact ==
  Done("isqrt") =>
    LET n == job.args[1]
    IN  IF n < 0 THEN Result = FAULT
        ELSE Result * Result <= n /\ n < (Result + 1) * (Result + 1)

\* primitives.c:735-740: a binomial coefficient that fits an integer is exact,
\* for no product on the way to it was too large for a double.
Binomial[n \in 0 .. WordMax] ==
  [k \in 0 .. WordMax |->
     IF k = 0 THEN 1
     ELSE IF n = 0 THEN 0 ELSE Binomial[n - 1][k - 1] + Binomial[n - 1][k]]
CombExact ==
  Done("comb") =>
    LET n == job.args[1]
        k == job.args[2]
    IN  IF n < 0 \/ k < 0 THEN Result = FAULT
        ELSE IF Binomial[n][k] > IntMax THEN Result = FLOAT ELSE Result = Binomial[n][k]

\* No intermediate result, and no product that lcm returns, leaves the type that C
\* gives it.
NoOverflow ==
  /\ Doing("gcd") \/ Doing("lcm") => {regs.res, regs.a, regs.b} \subseteq Wide
  /\ job.op \in {"gcd", "lcm"} /\ out # <<>> => out[1] \in Wide \cup {FLOAT}
  /\ Doing("isqrt") /\ job.args[1] >= 2 =>
       /\ {regs.low, regs.high, regs.high - regs.low + 1} \subseteq Int32
       /\ regs.high * regs.high \in Wide

\* The values Python's range has.
RangeRef(start, stop, step) ==
  LET inside(v) == IF step > 0 THEN v < stop ELSE v > stop
      n == Cardinality({k \in 0 .. 2 * WordMax + 1 : inside(start + k * step)})
  IN  [i \in 1 .. n |-> start + (i - 1) * step]
RangeGives(r) == IF job.args[3] = 0 THEN out = <<FAULT>> ELSE out = r
PythonRange == RangeRef(job.args[1], job.args[2], job.args[3])

\* The step from the last value of a range leaves int32_t.
StepsOut ==
  LET n == Len(PythonRange)
  IN  job.args[3] # 0 /\ n > 0 /\ PythonRange[n] + job.args[3] \notin Int32

\* A for loop runs through the values of Python's range, one after the other,
\* and then ends, unless the step from the last one leaves int32_t.
RangeExact ==
  job.op = "range" /\ ~ StepsOut =>
    /\ Len(out) <= Len(PythonRange) \/ job.args[3] = 0
    /\ ~ regs.going => RangeGives(PythonRange)

\* A for loop gives only values of the range, also when the step from the last one
\* leaves int32_t: README.md:24 says that "an integer that overflows 32 bits becomes
\* a float".
RangeInside ==
  job.op = "range" /\ job.args[3] # 0 =>
    \A i \in DOMAIN out : \E k \in DOMAIN PythonRange : out[i] = PythonRange[k]

\* The loops of gcd, isqrt and comb end for all arguments, and a for loop over a
\* range unless the step from its last value wraps around.
LoopsEnd == (job # None /\ (job.op = "range" => ~ StepsOut)) ~> (job = None)
=============================================================================
