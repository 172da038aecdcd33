----------------------------- MODULE MCNumbers -----------------------------
(***************************************************************************)
(* Jobs for Numbers: every combination of arguments of a small int32_t.    *)
(***************************************************************************)
EXTENDS Numbers

Job(op, args) == [op |-> op, args |-> args]
Tuples(n) == [1 .. n -> Int32]

AllJobs ==
  {Job("divmod", s) : s \in Tuples(2)}
  \cup {Job("subscript", <<i, len>>) : i \in SmallInt, len \in 0 .. WordMax}
  \cup {Job(op, s) : op \in {"gcd", "lcm"}, s \in UNION {Tuples(n) : n \in 0 .. MaxArgs}}
  \cup {Job("isqrt", s) : s \in Tuples(1)}
  \cup {Job("comb", s) : s \in Tuples(2)}
  \cup {Job("range", s) : s \in Tuples(3)}
=============================================================================
