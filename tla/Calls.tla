------------------------------- MODULE Calls -------------------------------
(***************************************************************************)
(* What calls and returns promise, with no frames, stack pointers or nested*)
(* main loops: a sequence of activations, each with its own operands,      *)
(* environment and place in the code.  Only the last one runs.  When it    *)
(* returns, the one before it goes on as it was, with one more operand; or *)
(* the library function that it is waiting for goes on.  CallStack         *)
(* implements this specification.                                          *)
(***************************************************************************)
EXTENDS Integers, Sequences

CONSTANTS Fn, Value, NULL

VARIABLES
  acts,    \* the activations
  outcome  \* "idle", "run", "done", "fault"

\* An activation has
\*   pc    the function that runs and where it is
\*   env   its environment,
\*   ops   its operands,
\*   lib   the library function it has called and waits for, or NULL,
\*   byLib whether it was called by a library function.
callVars == <<acts, outcome>>

Top == acts[Len(acts)]
Below == SubSeq(acts, 1, Len(acts) - 1)
WithTop(a) == Append(Below, a)
Enter(f, env, byLib) ==
  [pc |-> <<f, 0>>, env |-> env, ops |-> <<>>, lib |-> NULL, byLib |-> byLib]
Next1(pc) == <<pc[1], pc[2] + 1>>
Shorter(s, n) == SubSeq(s, 1, Len(s) - n)
Running == outcome = "run" /\ acts # <<>>
Busy == Running /\ Top.lib # NULL
Free == Running /\ Top.lib = NULL

Init == acts = <<>> /\ outcome = "idle"

\* An instruction changes operands, environment and place of the last
\* activation, but not its function;
Work ==
  /\ Free
  /\ Len(acts') = Len(acts)
  /\ LET t == acts'[Len(acts)]
     IN  /\ t.pc[1] = Top.pc[1]
         /\ t.env.fn = Top.env.fn
         /\ acts' = WithTop([Top EXCEPT !.pc = t.pc, !.env = t.env, !.ops = t.ops])
  /\ UNCHANGED outcome

\* or calls a function that is below n arguments among the operands, which are
\* what the function finds in its environment;
Bound(f, env, args) ==
  /\ env.fn = f
  /\ args = env.args \o (IF env.rest = NULL THEN <<>> ELSE env.rest)
Calling(n, t) ==
  LET callee == Top.ops[Len(Top.ops) - n]
      args == SubSeq(Top.ops, Len(Top.ops) - n + 1, Len(Top.ops))
  IN  /\ callee.kind = "closure"
      /\ t = Enter(callee.fn, t.env, t.byLib)
      /\ Bound(callee.fn, t.env, args)
Call ==
  /\ Free
  /\ Len(acts') = Len(acts) + 1
  /\ \E n \in 0 .. Len(Top.ops) - 1 :
       LET t == acts'[Len(acts')]
       IN  /\ Calling(n, t)
           /\ ~ t.byLib
           /\ acts' = Append(WithTop([Top EXCEPT !.pc = Next1(@),
                                                 !.ops = Shorter(@, n + 1)]), t)
  /\ UNCHANGED outcome

\* or does so in the place of the caller, which makes the sequence no longer;
TailCall ==
  /\ Free
  /\ Len(acts') = Len(acts)
  /\ \E n \in 0 .. Len(Top.ops) - 1 :
       LET t == acts'[Len(acts)]
       IN  Calling(n, t) /\ t.byLib = Top.byLib /\ acts' = WithTop(t)
  /\ UNCHANGED outcome

\* or calls a library function,
CallLib ==
  /\ Free
  /\ \E n \in 0 .. Len(Top.ops), tail \in BOOLEAN :
       acts' = WithTop([Top EXCEPT !.lib = [pops |-> n, tail |-> tail]])
  /\ UNCHANGED outcome

\* which may run a function of the program.
LibCalls ==
  /\ Busy
  /\ Len(acts') = Len(acts) + 1
  /\ LET t == acts'[Len(acts')]
     IN  t = Enter(t.env.fn, t.env, TRUE) /\ acts' = Append(acts, t)
  /\ UNCHANGED outcome

\* The activations after the last one has returned v.
ReturnTo(v) ==
  IF Top.byLib THEN Below
  ELSE [Below EXCEPT ![Len(Below)].ops = Append(@, v)]
Return ==
  /\ Free
  /\ \E v \in Value : acts' = ReturnTo(v)
  /\ UNCHANGED outcome

\* A library function returns: to the last activation, or in its place.
LibReturn ==
  /\ Busy
  /\ \E v \in Value :
       acts' = IF Top.lib.tail THEN ReturnTo(v)
               ELSE WithTop([Top EXCEPT !.pc = Next1(@), !.lib = NULL,
                                        !.ops = Append(Shorter(@, Top.lib.pops), v)])
  /\ UNCHANGED outcome

Fail == outcome = "run" /\ outcome' = "fault"

Finish == outcome = "run" /\ acts = <<>> /\ outcome' = "done" /\ UNCHANGED acts

Run ==
  /\ outcome # "run"
  /\ outcome' = "run"
  /\ \E f \in Fn : acts' = <<Enter(f, acts'[1].env, TRUE)>>

Next ==
  \/ Work \/ Call \/ TailCall \/ Return
  \/ CallLib \/ LibCalls \/ LibReturn
  \/ Fail \/ Finish \/ Run

Spec == Init /\ [][Next]_callVars
=============================================================================
