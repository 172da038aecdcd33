---------------------------- MODULE CallRooting ----------------------------
(***************************************************************************)
(* One call instruction (op_call of vm.c), allocation by allocation.       *)
(*                                                                         *)
(* It allocates the callee's environment, the array of a rest parameter    *)
(* (two blocks) and the frame, and each allocation may run the collector,  *)
(* which keeps what the operand stack and sistate.env lead to.  Between    *)
(* the allocations the instruction holds objects in C variables, and in    *)
(* entries of the stack above sistack_top, that the collector does not     *)
(* look at.                                                                *)
(*                                                                         *)
(* The objects: "main", the environment of the program; "caller", that of  *)
(* the function that calls, whose parent is main, and "lower", that of the *)
(* function it was called from; "fn", the callee's closure; "arg", an      *)
(* object passed to it; and those that are allocated here.  Reference      *)
(* counts are left out: an object that is used once more has a count, and  *)
(* only the collector takes it.                                            *)
(***************************************************************************)
EXTENDS FiniteSets

VARIABLES
  step,    \* the next step of the instruction
  rest,    \* whether the argument goes to a rest parameter
  tail,    \* whether it is call_t
  home,    \* the environment of the closure
  alloc,   \* the objects in use
  refs,    \* what an object refers to
  stack,   \* what the operand stack refers to
  env,     \* sistate.env
  held     \* the objects that the C code will use again

vars == <<step, rest, tail, home, alloc, refs, stack, env, held>>
scene == <<rest, tail, home>>

Old == {"main", "lower", "caller", "fn", "arg", "frame0"}
Obj == Old \cup {"env", "array", "data", "frame"}

\* frame0 is the frame of the caller; it returns to lower.
Init ==
  /\ step = "env"
  /\ rest \in BOOLEAN
  /\ tail \in BOOLEAN
  /\ home \in {"main", "lower", "caller"}
  /\ alloc = Old
  /\ refs = [o \in Obj |-> CASE o \in {"lower", "caller"} -> {"main"}
                             [] o = "fn" -> {home}
                             [] o = "frame0" -> {"lower"}
                             [] OTHER -> {}]
  /\ stack = {"frame0", "fn", "arg"}
  /\ env = "caller"
  /\ held = {"fn", "arg", "caller"}

\* What siheap_mark_sweep keeps.
Closed(S) == \A o \in S : refs[o] \subseteq S
Reachable ==
  {o \in alloc : \A S \in SUBSET Obj : stack \cup {env} \subseteq S /\ Closed(S) => o \in S}

\* siheap_malloc of o, with or without a collection.
Malloc(o) == alloc' \in {alloc \cup {o}, Reachable \cup {o}}

\* sienv_new: its parent is the environment of the closure, which is referred to
\* once the block is there.
NewEnv ==
  /\ step = "env"
  /\ Malloc("env")
  /\ refs' = [refs EXCEPT !["env"] = {home}]
  /\ held' = held \cup {"env"}
  /\ step' = "bind"
  /\ UNCHANGED <<scene, stack, env>>

\* sistate.env is set, and the arguments are taken from the stack: the fixed
\* ones are moved to the environment.
BindArgs ==
  /\ step = "bind"
  /\ env' = "env"
  /\ stack' = stack \ {"arg"}
  /\ refs' = IF rest THEN refs ELSE [refs EXCEPT !["env"] = @ \cup {"arg"}]
  /\ step' = IF rest THEN "array" ELSE "pop"
  /\ UNCHANGED <<scene, alloc, held>>

\* siarray_new: the array, and then its data; data is filled and the array bound.
NewArray ==
  /\ step = "array"
  /\ Malloc("array")
  /\ held' = held \cup {"array"}
  /\ step' = "data"
  /\ UNCHANGED <<scene, refs, stack, env>>

NewData ==
  /\ step = "data"
  /\ Malloc("data")
  /\ refs' = [refs EXCEPT !["array"] = {"data", "arg"}, !["env"] = @ \cup {"array"}]
  /\ step' = "pop"
  /\ UNCHANGED <<scene, stack, env, held>>

\* The closure is popped.  A tail call gives up the caller: its environment and
\* its frame, from which the environment to return to is taken.
PopFunction ==
  /\ step = "pop"
  /\ stack' = stack \ (IF tail THEN {"fn", "frame0"} ELSE {"fn"})
  /\ held' = (held \ {"fn", "arg", "array", "caller"})
             \cup {IF tail THEN "lower" ELSE "caller"}
  /\ step' = "frame"
  /\ UNCHANGED <<scene, alloc, refs, env>>

\* sistack_new: the new frame gets the environment to return to.
NewFrame ==
  /\ step = "frame"
  /\ Malloc("frame")
  /\ refs' = [refs EXCEPT !["frame"] = held \ {"env"}]
  /\ stack' = stack \cup {"frame"}
  /\ held' = {"env", "frame"}
  /\ step' = "done"
  /\ UNCHANGED <<scene, env>>

Next == NewEnv \/ BindArgs \/ NewArray \/ NewData \/ PopFunction \/ NewFrame
Spec == Init /\ [][Next]_vars

-----------------------------------------------------------------------------
\* vm.c:1467-1478: what the instruction needs is reachable from a root when it
\* allocates: nothing that it goes on to use is collected.
NothingLost ==
  /\ held \subseteq alloc
  /\ step = "done" => \A o \in stack \cup {env} : o \in alloc /\ refs[o] \subseteq alloc
=============================================================================
