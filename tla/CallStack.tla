----------------------------- MODULE CallStack -----------------------------
(***************************************************************************)
(* Calls and returns in the Pynter VM: the operand stack of stack.h, the   *)
(* call and return instructions of vm.c, and siexec, through which a       *)
(* primitive function of the library (map, filter, a stream tail) runs a   *)
(* closure in a main loop of its own, nested in the C stack.               *)
(*                                                                         *)
(* One array holds the operands of all activations.  The stretch of one    *)
(* ends where a frame starts the next: the frame saves the bottom, limit   *)
(* and top of the stretch below it, the return address and the environment *)
(* to return to.  A frame with the return address NULL was made by siexec: *)
(* the main loop that reaches NULL returns to siexec.                      *)
(*                                                                         *)
(* The code that runs is arbitrary.  An instruction is abstracted to what  *)
(* it does with the operands, the environment and the program counter.     *)
(***************************************************************************)
EXTENDS Integers, Sequences, FiniteSets

CONSTANTS
  Fn,        \* the functions of the program (pvm_function_t)
  Entry,     \* the one pynter_run executes
  StackSize, \* stack_size, env_size, num_args, has_rest_param: Fn -> value
  EnvSize,
  NumArgs,
  HasRest,
  Last,      \* the addresses of the instructions of a function are 0 .. Last
  Plain,     \* the kinds of values that are not closures
  MaxArgs,   \* the largest num_args of a call instruction
  MaxScope,  \* how deep newenv may nest
  MaxFrames, \* bound on the number of frames
  NULL

ASSUME FnAssumption ==
  /\ Entry \in Fn
  /\ StackSize \in [Fn -> Nat]
  /\ EnvSize \in [Fn -> Nat]
  /\ NumArgs \in [Fn -> Nat]
  /\ HasRest \in [Fn -> BOOLEAN]
  /\ \A f \in Fn : HasRest[f] => NumArgs[f] > 0
ASSUME PlainAssumption == Plain \subseteq {"internal", "intcont", "number", "object"}
ASSUME BoundAssumption ==
  Last \in Nat /\ MaxArgs \in Nat /\ MaxScope \in Nat /\ MaxFrames \in Nat \ {0}

\* No closure is made of the entry function.
Value == [kind : {"closure"}, fn : Fn \ {Entry}] \cup [kind : Plain]

\* NULL is no address of an instruction, nor the rest of arguments, nor a call.
ASSUME NullAssumption == NULL \notin Fn \X (0 .. Last)
ASSUME NullValueAssumption ==
  NULL \notin Seq(Value) /\ NULL \notin [pops : Nat, tail : BOOLEAN]

VARIABLES
  mode,    \* "idle", "run", or how pynter_run ended: "done", "fault"
  stack,   \* sistack below sistack_top
  bottom,  \* sistack_bottom and sistack_limit, as indices into sistack
  limit,
  pc,      \* sistate.pc: <<function, address>>, or NULL
  env,     \* sistate.env
  cstack,  \* the C stack: the calls of siexec and of internal functions
  again    \* a call instruction that has left pc where it is, else NULL

regs == <<bottom, limit>>
vars == <<mode, stack, regs, pc, env, cstack, again>>

IsFrame(x) == "ret" \in DOMAIN x

\* The start of a sequence, without its last n members.
Drop(s, n) == SubSeq(s, 1, Len(s) - n)

Init ==
  /\ mode = "idle"
  /\ stack = <<>>
  /\ bottom = 0
  /\ limit = 0
  /\ pc = NULL
  /\ env = NULL
  /\ cstack = <<>>
  /\ again = NULL

-----------------------------------------------------------------------------
(***************************************************************************)
(* stack.h                                                                 *)
(***************************************************************************)

Operands == Len(stack) - bottom
Frame == stack[bottom]

\* sifault jumps out of all loops.  Nothing reads what it leaves behind, which
\* pynter_run resets: it is reset here.
Fault ==
  /\ mode' = "fault"
  /\ stack' = <<>>
  /\ bottom' = 0
  /\ limit' = 0
  /\ pc' = NULL
  /\ env' = NULL
  /\ cstack' = <<>>
  /\ again' = NULL

\* Mutant of NewFrame: the top is saved after the frame is pushed.
NewFrame_LateTop(st, b, l, size, ret, renv) ==
  /\ stack' = Append(st, [bottom |-> b, limit |-> l, top |-> Len(st) + 1,
                          ret |-> ret, env |-> renv])
  /\ bottom' = Len(st) + 1
  /\ limit' = Len(st) + 1 + size

\* sistack_new: the registers b and l and the top of st are saved in a frame.
\* (sistack_push_force looks at no limit.)
NewFrame(st, b, l, size, ret, renv) ==
  /\ stack' = Append(st, [bottom |-> b, limit |-> l, top |-> Len(st),
                          ret |-> ret, env |-> renv])
  /\ bottom' = Len(st) + 1
  /\ limit' = Len(st) + 1 + size

\* Mutant of DestroyAndPush: the environment of the caller is not restored.
DestroyAndPush_EnvStays(v, cs) ==
  IF Frame.top >= Frame.limit
  THEN Fault
  ELSE /\ stack' = Append(SubSeq(stack, 1, Frame.top), v)
       /\ bottom' = Frame.bottom
       /\ limit' = Frame.limit
       /\ pc' = Frame.ret
       /\ cstack' = cs
       /\ UNCHANGED <<mode, env, again>>

\* sistack_destroy gives back the stretch below the frame, to which the result v
\* is then pushed, if it finds room; execution goes on where the frame says.
DestroyAndPush(v, cs) ==
  IF Frame.top >= Frame.limit
  THEN Fault
  ELSE /\ stack' = Append(SubSeq(stack, 1, Frame.top), v)
       /\ bottom' = Frame.bottom
       /\ limit' = Frame.limit
       /\ pc' = Frame.ret
       /\ env' = Frame.env
       /\ cstack' = cs
       /\ UNCHANGED <<mode, again>>

-----------------------------------------------------------------------------
(***************************************************************************)
(* Instructions                                                            *)
(***************************************************************************)

InLoop == mode = "run" /\ cstack[Len(cstack)].by = "siexec"
Fetch == InLoop /\ pc # NULL /\ again = NULL
After == <<pc[1], pc[2] + 1>>
Advance == pc[2] < Last /\ pc' = After

\* Mutant of Operate: the stack is not checked for underflow.
Operate_NoUnderflow(n, r) ==
  /\ Fetch
  /\ IF Operands - n + Len(r) > limit - bottom
     THEN Fault
     ELSE /\ stack' = Drop(stack, n) \o r
          /\ Advance
          /\ UNCHANGED <<mode, regs, env, cstack, again>>

\* An instruction takes n operands and leaves the values r.
Operate(n, r) ==
  /\ Fetch
  /\ IF Operands < n \/ Operands - n + Len(r) > limit - bottom
     THEN Fault
     ELSE /\ stack' = Drop(stack, n) \o r
          /\ Advance
          /\ UNCHANGED <<mode, regs, env, cstack, again>>

Push(v) == Operate(0, <<v>>)    \* constants, loads, new_c, dup
Pop == Operate(1, <<>>)         \* pop, stores to environments
Unary(v) == Operate(1, <<v>>)   \* neg, not, new_iter
Binary(v) == Operate(2, <<v>>)  \* arithmetic, comparisons, loads from arrays
StoreElement == Operate(3, <<>>)

\* br, jmp (n = 0), and br_t, br_f, for_iter when they branch (n = 1).
Branch(n, k) ==
  /\ Fetch
  /\ IF Operands < n
     THEN Fault
     ELSE /\ stack' = Drop(stack, n)
          /\ pc' = <<pc[1], k>>
          /\ UNCHANGED <<mode, regs, env, cstack, again>>

\* newenv, popenv: environments of blocks, inside that of the function.
Scope(s) ==
  /\ Fetch
  /\ s \in {env.scope - 1, env.scope + 1} \cap (0 .. MaxScope)
  /\ env' = [env EXCEPT !.scope = s]
  /\ Advance
  /\ UNCHANGED <<mode, stack, regs, cstack, again>>

\* The environment that op_call makes for f: the fixed arguments, and if there
\* is a rest parameter all others in one array.
NumFixed(f) == IF HasRest[f] THEN NumArgs[f] - 1 ELSE NumArgs[f]
ArityOk(f, n) == IF HasRest[f] THEN n >= NumFixed(f) ELSE n = NumFixed(f)
Bind(f, args) ==
  [fn |-> f, scope |-> 0, args |-> SubSeq(args, 1, NumFixed(f)),
   rest |-> IF HasRest[f] THEN SubSeq(args, NumFixed(f) + 1, Len(args)) ELSE NULL]

\* A call with n arguments finds the function below them: sistack_peek.
Callee(n) == stack[Len(stack) - n]
NumFrames == Cardinality({p \in DOMAIN stack : IsFrame(stack[p])})

\* call and call_t of a closure.  A tail call gives back the caller's stretch
\* first, and the callee's frame leads to the caller's caller.
CallClosure(n, tail) ==
  LET f == Callee(n).fn
      args == SubSeq(stack, Len(stack) - n + 1, Len(stack))
  IN  IF ~ ArityOk(f, n) \/ NumArgs[f] > EnvSize[f]
      THEN Fault
      ELSE /\ IF tail
              THEN NewFrame(SubSeq(stack, 1, Frame.top), Frame.bottom, Frame.limit,
                            StackSize[f], Frame.ret, Frame.env)
              ELSE /\ NumFrames < MaxFrames
                   /\ pc[2] < Last
                   /\ NewFrame(Drop(stack, n + 1), bottom, limit,
                               StackSize[f], After, env)
           /\ pc' = <<f, 0>>
           /\ env' = Bind(f, args)
           /\ UNCHANGED <<mode, cstack, again>>

\* An internal function starts: do_internal_function, or the intcont case of
\* op_call.  It will pop n operands; it may call siexec.
Begin(n, tail) ==
  /\ tail \/ pc[2] < Last
  /\ cstack' = Append(cstack, [by |-> "internal", pops |-> n, tail |-> tail])
  /\ UNCHANGED <<mode, stack, regs, pc, env, again>>

\* call and call_t.  A value that is neither a pointer nor an internal function
\* falls through all cases: no fault, and pc stays where it is.
Call(n, tail) ==
  /\ Fetch
  /\ IF Operands <= n
     THEN Fault
     ELSE CASE Callee(n).kind = "closure" -> CallClosure(n, tail)
            [] Callee(n).kind = "internal" -> Begin(n + 1, tail)
            [] Callee(n).kind = "intcont" -> IF n > 0 THEN Fault ELSE Begin(1, tail)
            [] Callee(n).kind = "object" -> Fault
            [] Callee(n).kind = "number" ->
                 /\ again' = <<n, tail>>
                 /\ UNCHANGED <<mode, stack, regs, pc, env, cstack>>

\* The main loop takes the same instruction again, which does the same.
CallAgain == InLoop /\ again # NULL /\ UNCHANGED vars

\* call_p, call_v, call_t_p, call_t_v: the function is named in the instruction.
CallInternal(n, tail) ==
  /\ Fetch
  /\ IF Operands < n THEN Fault ELSE Begin(n, tail)

\* ret_g returns a value that it pops, ret_u and ret_n one of their own.
Ret(pops, v) ==
  /\ Fetch
  /\ IF Operands < pops
     THEN Fault
     ELSE DestroyAndPush(IF pops = 1 THEN stack[Len(stack)] ELSE v, cstack)

-----------------------------------------------------------------------------
(***************************************************************************)
(* The C functions                                                         *)
(***************************************************************************)

\* An internal function returns v: its operands are popped, and if the call was
\* a tail call, the stretch of its caller is given back.
InternalReturn(v) ==
  /\ mode = "run"
  /\ LET c == cstack[Len(cstack)]
     IN  /\ c.by = "internal"
         /\ CASE c.tail -> DestroyAndPush(v, Drop(cstack, 1))
              [] ~ c.tail /\ Len(stack) - c.pops >= limit -> Fault
              [] ~ c.tail /\ Len(stack) - c.pops < limit ->
                   /\ stack' = Append(Drop(stack, c.pops), v)
                   /\ pc' = After
                   /\ cstack' = Drop(cstack, 1)
                   /\ UNCHANGED <<mode, regs, env, again>>

\* Mutant of Siexec: the function returns to the instruction of the caller.
Siexec_NoNullReturn(f, args) ==
  /\ mode = "run"
  /\ cstack[Len(cstack)].by = "internal"
  /\ NumFrames < MaxFrames
  /\ IF EnvSize[f] < Len(args)
     THEN Fault
     ELSE /\ NewFrame(stack, bottom, limit + 1, StackSize[f], pc, env)
          /\ env' = [fn |-> f, scope |-> 0, args |-> args, rest |-> NULL]
          /\ pc' = <<f, 0>>
          /\ cstack' = Append(cstack, [by |-> "siexec", env |-> env, pc |-> pc])
          /\ UNCHANGED <<mode, again>>

\* siexec, called by an internal function.  One entry more is allowed below the
\* new frame, for the result.  The arguments are copied to the environment as
\* they are.
Siexec(f, args) ==
  /\ mode = "run"
  /\ cstack[Len(cstack)].by = "internal"
  /\ NumFrames < MaxFrames
  /\ IF EnvSize[f] < Len(args)
     THEN Fault
     ELSE /\ NewFrame(stack, bottom, limit + 1, StackSize[f], NULL, env)
          /\ env' = [fn |-> f, scope |-> 0, args |-> args, rest |-> NULL]
          /\ pc' = <<f, 0>>
          /\ cstack' = Append(cstack, [by |-> "siexec", env |-> env, pc |-> pc])
          /\ UNCHANGED <<mode, again>>

\* pynter_run, after any run before: the stack is reset, and siexec called.
Run ==
  /\ mode # "run"
  /\ stack' = <<[bottom |-> 0, limit |-> 1, top |-> 0, ret |-> NULL, env |-> NULL]>>
  /\ bottom' = 1
  /\ limit' = 1 + StackSize[Entry]
  /\ env' = [fn |-> Entry, scope |-> 0, args |-> <<>>, rest |-> NULL]
  /\ pc' = <<Entry, 0>>
  /\ cstack' = <<[by |-> "siexec", env |-> NULL, pc |-> NULL]>>
  /\ mode' = "run"
  /\ again' = NULL

\* Mutant of SiexecEnd: the entry for the result stays allowed.
SiexecEnd_LimitStays ==
  /\ InLoop
  /\ pc = NULL
  /\ stack' = IF Operands = 0 THEN stack ELSE Drop(stack, 1)
  /\ pc' = cstack[Len(cstack)].pc
  /\ env' = cstack[Len(cstack)].env
  /\ cstack' = Drop(cstack, 1)
  /\ mode' = IF cstack' = <<>> THEN "done" ELSE mode
  /\ UNCHANGED <<regs, again>>

\* The main loop of siexec has returned: the result is popped, and what siexec
\* saved is restored.
SiexecEnd ==
  /\ InLoop
  /\ pc = NULL
  /\ stack' = IF Operands = 0 THEN stack ELSE Drop(stack, 1)
  /\ limit' = limit - 1
  /\ pc' = cstack[Len(cstack)].pc
  /\ env' = cstack[Len(cstack)].env
  /\ cstack' = Drop(cstack, 1)
  /\ mode' = IF cstack' = <<>> THEN "done" ELSE mode
  /\ UNCHANGED <<bottom, again>>

-----------------------------------------------------------------------------
Args == UNION {[1 .. n -> Value] : n \in 0 .. MaxArgs}

Instruction ==
  \/ \E v \in Value : Push(v) \/ Unary(v) \/ Binary(v)
  \/ Pop
  \/ StoreElement
  \/ \E n \in 0 .. 1, k \in 0 .. Last : Branch(n, k)
  \/ \E s \in 0 .. MaxScope : Scope(s)
  \/ \E n \in 0 .. MaxArgs, tail \in BOOLEAN : Call(n, tail) \/ CallInternal(n, tail)
  \/ CallAgain
  \/ \E pops \in 0 .. 1, v \in Value : Ret(pops, v)

Library ==
  \/ \E v \in Value : InternalReturn(v)
  \/ \E f \in Fn \ {Entry}, args \in Args : Siexec(f, args)
  \/ SiexecEnd

Next == Instruction \/ Library \/ Run

Spec == Init /\ [][Next]_vars

-----------------------------------------------------------------------------
(***************************************************************************)
(* Properties                                                              *)
(***************************************************************************)

PC == (Fn \X (0 .. Last)) \cup {NULL}
Env == [fn : Fn, scope : 0 .. MaxScope, args : Seq(Value), rest : Seq(Value) \cup {NULL}]
       \cup {NULL}
FrameRecord == [bottom : Nat, limit : Nat, top : Nat, ret : PC, env : Env]

TypeOK ==
  /\ mode \in {"idle", "run", "done", "fault"}
  /\ stack \in Seq(Value \cup FrameRecord)
  /\ bottom \in 0 .. Len(stack)
  /\ limit \in Nat
  /\ pc \in PC
  /\ env \in Env
  /\ cstack \in Seq([by : {"siexec"}, env : Env, pc : PC]
                    \cup [by : {"internal"}, pops : Nat, tail : BOOLEAN])
  /\ again \in ((0 .. MaxArgs) \X BOOLEAN) \cup {NULL}

\* The frames, the oldest first, as indices into the stack.
FramePos == {p \in DOMAIN stack : IsFrame(stack[p])}

\* The stretch of the running function starts after the last frame, and every
\* frame describes exactly the stretch below it: no function ever reaches an
\* operand, or a frame, of another.
Stretches ==
  mode = "run" =>
    /\ bottom \in FramePos \cup {0}
    /\ \A p \in FramePos : p <= bottom
    /\ \A p \in FramePos :
         LET fr == stack[p]
         IN  /\ fr.top = p - 1
             /\ fr.bottom \in FramePos \cup {0}
             /\ fr.bottom < p
             /\ \A q \in FramePos : q < p => q <= fr.bottom

\* Calls of siexec in progress, outermost first, as indices into the C stack.
Siexecs == {i \in DOMAIN cstack : cstack[i].by = "siexec"}
BaseFrames == {p \in FramePos : stack[p].ret = NULL}

\* Main loops nest as the frames do: the frames that return to siexec are, in
\* order, those of the calls of siexec in progress, and hold what these restore.
\* So a main loop ends when the function that it was started for returns, and
\* not before, however this one was left (ret, or a tail call of any kind).
LoopsMatchFrames ==
  mode = "run" =>
    /\ \A i \in DOMAIN cstack : cstack[i].by = IF i % 2 = 1 THEN "siexec" ELSE "internal"
    /\ Cardinality(Siexecs) = Cardinality(BaseFrames) + (IF pc = NULL THEN 1 ELSE 0)
    /\ \A p \in BaseFrames :
         LET j == Cardinality({q \in BaseFrames : q <= p})
         IN  stack[p].env = cstack[2 * j - 1].env

\* The function that an activation runs is the one its environment belongs to.
\* Its stretch is as long as its stack_size allows, plus one entry while siexec
\* runs above it, so that a result always finds room: a return never overflows.
Room(b, l, f, extra) == l = b + StackSize[f] + extra
Limits ==
  mode = "run" =>
    /\ pc # NULL => /\ env.fn = pc[1]
                   /\ Room(bottom, limit, pc[1], 0)
                   /\ Operands <= StackSize[pc[1]]
    /\ pc = NULL /\ Len(cstack) > 1 => Room(bottom, limit, cstack[Len(cstack)].pc[1], 1)
    /\ \A p \in FramePos :
         LET fr == stack[p]
         IN  /\ fr.top < fr.limit
             /\ fr.ret # NULL => fr.env.fn = fr.ret[1] /\ Room(fr.bottom, fr.limit, fr.ret[1], 0)

\* What the frames and the C stack represent: the activations of Calls, from the
\* oldest to the running one.
Nth(i) == CHOOSE p \in FramePos : Cardinality({q \in FramePos : q <= p}) = i
ReturnsTo(p) == Cardinality({q \in BaseFrames : q <= p})
Activation(i) ==
  LET p == Nth(i)
      last == i = Cardinality(FramePos)
      q == IF last THEN Len(stack) + 1 ELSE Nth(i + 1)
      exec == IF last THEN Len(cstack) + (IF pc = NULL THEN 0 ELSE 1)
              ELSE 2 * ReturnsTo(q) - 1
      ends == IF last THEN pc = NULL ELSE stack[q].ret = NULL
      waits == IF last /\ pc # NULL THEN cstack[Len(cstack)].by = "internal" ELSE ends
  IN  [pc |-> IF ends THEN cstack[exec].pc ELSE IF last THEN pc ELSE stack[q].ret,
       env |-> IF last THEN env ELSE stack[q].env,
       ops |-> SubSeq(stack, p + 1, IF last /\ pc = NULL THEN q - 2 ELSE q - 1),
       lib |-> IF waits THEN [pops |-> cstack[exec - 1].pops, tail |-> cstack[exec - 1].tail]
               ELSE NULL,
       byLib |-> stack[p].ret = NULL]
Activations ==
  IF mode = "run" THEN [i \in 1 .. Cardinality(FramePos) |-> Activation(i)] ELSE <<>>
ActivationView == INSTANCE Calls WITH acts <- Activations, outcome <- mode

\* Calls and returns (op_call, op_ret, siexec) behave as Calls says: whatever is
\* called in between, the caller finds its operands, environment and place again.
ImplementsCalls == ActivationView!Spec
=============================================================================
