------------------------------ MODULE Stopping ------------------------------
(***************************************************************************)
(* The life of a run of the Pynter VM, from pynter_run to its result or    *)
(* fault, and pynter_stop, which may come at any time from an interrupt    *)
(* handler ("an external kill/interrupt hook", README.md).                 *)
(*                                                                         *)
(* pynter_stop clears the registers of the VM (sistate) under its feet.    *)
(* The VM is taken from one access to these registers to the next; the     *)
(* handler is one step.  A pointer is NULL or not.  The VM goes astray     *)
(* where it reads through one that is NULL: the device restarts.           *)
(*                                                                         *)
(* Main loops nest, as library functions call siexec; each has a number of *)
(* frames.  What the frames hold is left to CallStack.                     *)
(***************************************************************************)
EXTENDS Integers, Sequences

CONSTANTS
  MaxLoops,  \* bounds on the nesting of main loops, the frames of each, and
  MaxFrames, \* the number of stops
  MaxStops,
  NULL

ASSUME BoundAssumption ==
  MaxLoops \in Nat \ {0} /\ MaxFrames \in Nat \ {0} /\ MaxStops \in Nat
ASSUME NullAssumption == NULL \notin {"code", "env"}

VARIABLES
  at,       \* what the VM does next; "host" outside of pynter_run
  heap,     \* whether siheap is set
  running,  \* sistate.running
  program,  \* sistate.program, pc and env
  pc,
  env,
  reason,   \* sistate.fault_reason
  loops,    \* the main loops: their frames, and what siexec saved
  outcome,  \* what the last run returned
  stopped,  \* history: whether there was a stop since pynter_run was called,
  stops     \* and the number of stops

regs == <<running, program, pc, env, reason>>
history == <<stopped, stops>>
vars == <<at, heap, regs, loops, outcome, history>>

Init ==
  /\ at = "host"
  /\ heap = FALSE
  /\ running = FALSE
  /\ program = NULL
  /\ pc = NULL
  /\ env = NULL
  /\ reason = "none"
  /\ loops = <<>>
  /\ outcome = "none"
  /\ stopped = FALSE
  /\ stops = 0

-----------------------------------------------------------------------------
(***************************************************************************)
(* The handler                                                             *)
(***************************************************************************)

\* sistop.
Stop ==
  /\ stops < MaxStops
  /\ stops' = stops + 1
  /\ running' = FALSE
  /\ program' = NULL
  /\ pc' = NULL
  /\ env' = NULL
  /\ reason' = "stopped"
  /\ stopped' = (stopped \/ at # "host")
  /\ UNCHANGED <<at, heap, loops, outcome>>

-----------------------------------------------------------------------------
(***************************************************************************)
(* pynter_run                                                              *)
(***************************************************************************)

Step(from, to) == at = from /\ at' = to
Quiet == UNCHANGED <<heap, outcome, history>>

\* pynter_setup_heap, with memory or without.
SetupHeap(h) ==
  /\ at = "host"
  /\ heap' = h
  /\ UNCHANGED <<at, regs, loops, outcome, history>>

RunWithoutHeap ==
  /\ at = "host"
  /\ ~ heap
  /\ outcome' = "no heap"
  /\ stopped' = FALSE
  /\ UNCHANGED <<at, heap, regs, loops, stops>>

Run ==
  /\ Step("host", "reset")
  /\ heap
  /\ loops' = <<>>
  /\ stopped' = FALSE
  /\ UNCHANGED <<heap, regs, outcome, stops>>

\* The registers are set one after the other.  Each assignment undoes what a stop
\* before it has done to the register.
ResetReason ==
  /\ Step("reset", "load")
  /\ reason' = "none"
  /\ UNCHANGED <<running, program, pc, env, loops>>
  /\ Quiet

LoadProgram ==
  /\ Step("load", "setup")
  /\ program' = "code"
  /\ UNCHANGED <<running, pc, env, reason, loops>>
  /\ Quiet

\* Mutant of SetRunning: the flag is set once and for all.
SetRunning_Once ==
  /\ Step("setup", "clear")
  /\ running' = (running \/ stops = 0)
  /\ UNCHANGED <<program, pc, env, reason, loops>>
  /\ Quiet

SetRunning ==
  /\ Step("setup", "clear")
  /\ running' = TRUE
  /\ UNCHANGED <<program, pc, env, reason, loops>>
  /\ Quiet

Clear ==
  /\ Step("clear", "entry")
  /\ pc' = NULL
  /\ env' = NULL
  /\ UNCHANGED <<running, program, reason, loops>>
  /\ Quiet

\* sifault: longjmp to pynter_run.
Fault(r) ==
  /\ at' = "caught"
  /\ reason' = r
  /\ loops' = <<>>
  /\ UNCHANGED <<running, program, pc, env>>
  /\ Quiet

\* A read through NULL, and the restart after it.
Astray ==
  /\ at' = "host"
  /\ heap' = FALSE
  /\ running' = FALSE
  /\ program' = NULL
  /\ pc' = NULL
  /\ env' = NULL
  /\ reason' = "none"
  /\ loops' = <<>>
  /\ outcome' = "astray"
  /\ UNCHANGED history

\* The header is checked, and the entry function found.
Enter ==
  \/ at = "entry" /\ Fault("invalid program")
  \/ /\ at = "entry"
     /\ IF program = NULL THEN Astray
        ELSE at' = "siexec" /\ UNCHANGED <<regs, loops>> /\ Quiet

Caught ==
  /\ Step("caught", "host")
  /\ outcome' = reason
  /\ UNCHANGED <<heap, regs, loops, history>>

Result ==
  /\ Step("result", "host")
  /\ outcome' = "none"
  /\ UNCHANGED <<heap, regs, loops, history>>

-----------------------------------------------------------------------------
(***************************************************************************)
(* siexec                                                                  *)
(***************************************************************************)

Last == loops[Len(loops)]
Outer == SubSeq(loops, 1, Len(loops) - 1)

Siexec ==
  \/ at = "siexec" /\ Fault("other")
  \/ /\ Step("siexec", "start")
     /\ loops' = Append(loops, [frames |-> 1, env |-> env, pc |-> pc])
     /\ env' = "env"
     /\ UNCHANGED <<running, program, pc, reason>>
     /\ Quiet

\* Arguments are copied to sistate.env; sistate.pc is set.
StartLoop ==
  \/ at = "start" /\ env = NULL /\ Len(loops) > 1 /\ Astray
  \/ /\ Step("start", "check")
     /\ pc' = "code"
     /\ UNCHANGED <<running, program, env, reason, loops>>
     /\ Quiet

\* The main loop has returned.
EndLoop ==
  /\ at = "end"
  /\ at' = IF Len(loops) = 1 THEN "result" ELSE "library"
  /\ env' = Last.env
  /\ pc' = Last.pc
  /\ loops' = Outer
  /\ UNCHANGED <<running, program, reason>>
  /\ Quiet

-----------------------------------------------------------------------------
(***************************************************************************)
(* main_loop                                                               *)
(***************************************************************************)

Goto(to) == at' = to /\ UNCHANGED <<regs, loops>> /\ Quiet

\* Mutant of Check: sistate.running is read when the loop starts only.
Check_AtStart ==
  /\ at = "check"
  /\ IF running \/ Last.frames > 1 THEN Goto("fetch") ELSE Fault("stopped")
Check ==
  /\ at = "check"
  /\ IF running THEN Goto("fetch") ELSE Fault("stopped")

\* (A debug build compares pc with program_end first, and faults.)
Fetch ==
  \/ at = "fetch" /\ pc # NULL /\ Goto("instruction")
  \/ at = "fetch" /\ pc = NULL /\ (Astray \/ Fault("other"))

\* An instruction reads its operands through sistate.pc, and may go through
\* sistate.env; it may fault; and it goes on to the next one.  (pc += n, or a
\* jump: the pointer is not NULL then, even if it was before.)
Work ==
  \/ at = "instruction" /\ (pc = NULL \/ env = NULL) /\ Astray
  \/ at = "instruction" /\ Fault("other")
  \/ /\ Step("instruction", "check")
     /\ pc' = "code"
     /\ UNCHANGED <<running, program, env, reason, loops>>
     /\ Quiet

\* It may be a call of a library function, a return, or a call of a function,
\* whose environment is set first,
Branch == at = "instruction" /\ (Goto("library") \/ Goto("ret"))
SetEnv ==
  /\ Step("instruction", "call")
  /\ env' = "env"
  /\ UNCHANGED <<running, program, pc, reason, loops>>
  /\ Quiet

\* Mutant of Enter: a tail call keeps the frame of the caller.
EnterFunction_Kept(tail) ==
  /\ Step("call", "check")
  /\ tail \/ Last.frames < MaxFrames
  /\ loops' = Append(Outer, [Last EXCEPT !.frames = @ + 1])
  /\ pc' = "code"
  /\ UNCHANGED <<running, program, env, reason>>
  /\ Quiet

\* then the frame is made, unless a tail call reuses the caller's, and
\* sistate.pc set.
EnterFunction(tail) ==
  /\ Step("call", "check")
  /\ tail \/ Last.frames < MaxFrames
  /\ loops' = Append(Outer, [Last EXCEPT !.frames = IF tail THEN @ ELSE @ + 1])
  /\ pc' = "code"
  /\ UNCHANGED <<running, program, env, reason>>
  /\ Quiet

\* A return, or a tail call of a library function, dereferences sistate.env,
Ret ==
  /\ at = "ret"
  /\ IF env = NULL THEN Astray ELSE Goto("destroy")

\* takes sistate.pc and env from the frame,
Destroy ==
  /\ Step("destroy", "back")
  /\ loops' = Append(Outer, [Last EXCEPT !.frames = @ - 1])
  /\ pc' = IF Last.frames = 1 THEN NULL ELSE "code"
  /\ env' = IF Last.frames = 1 THEN Last.env ELSE "env"
  /\ UNCHANGED <<running, program, reason>>
  /\ Quiet

\* and leaves the loop if sistate.pc is NULL.
Back == at = "back" /\ Goto(IF pc = NULL THEN "end" ELSE "check")

\* A library function runs functions of the program, faults, or returns, after
\* an ordinary call or after a tail call.  It may also go on for ever, and does not
\* look at sistate.running then: stream_length of a stream without end, length of
\* a list that is circular.
Library ==
  \/ at = "library" /\ Len(loops) < MaxLoops /\ Goto("siexec")
  \/ at = "library" /\ Fault("other")
  \/ at = "library" /\ Goto("ret")
  \/ /\ Step("library", "check")
     /\ pc' = "code"
     /\ UNCHANGED <<running, program, env, reason, loops>>
     /\ Quiet

VM ==
  \/ ResetReason \/ LoadProgram \/ SetRunning \/ Clear \/ Enter \/ Caught \/ Result
  \/ Siexec \/ StartLoop \/ EndLoop
  \/ Check \/ Fetch \/ Work \/ Branch \/ SetEnv
  \/ \E tail \in BOOLEAN : EnterFunction(tail)
  \/ Ret \/ Destroy \/ Back

Host == Run \/ RunWithoutHeap \/ \E h \in BOOLEAN : SetupHeap(h)

Next == VM \/ Library \/ Host \/ Stop

\* The handler returns to the VM, which goes on, except that a library function
\* need not return.
Spec == Init /\ [][Next]_vars /\ WF_vars(VM)

-----------------------------------------------------------------------------
(***************************************************************************)
(* Properties                                                              *)
(***************************************************************************)

Points == {"host", "reset", "load", "setup", "clear", "entry", "siexec", "start",
           "check", "fetch", "instruction", "library", "call", "ret", "destroy", "back", "end",
           "result", "caught"}
TypeOK ==
  /\ at \in Points
  /\ heap \in BOOLEAN
  /\ running \in BOOLEAN
  /\ program \in {"code", NULL}
  /\ pc \in {"code", NULL}
  /\ env \in {"env", NULL}
  /\ reason \in {"none", "stopped", "invalid program", "other"}
  /\ loops \in Seq([frames : 0 .. MaxFrames, env : {"env", NULL}, pc : {"code", NULL}])
  /\ outcome \in {"none", "stopped", "invalid program", "other", "no heap", "astray"}
  /\ stopped \in BOOLEAN
  /\ stops \in 0 .. MaxStops

\* What a stop leaves behind, in the registers or in loops that it cut short,
\* does not reach the next run: one that is not stopped itself never reads
\* through NULL, ends its loops only when all their frames have returned, and
\* does not report a stop.
InLoop == at \in {"fetch", "instruction", "library", "call", "ret", "destroy"}
Undisturbed ==
  ~ stopped =>
    /\ at = "host" => outcome \notin {"stopped", "astray"}
    /\ InLoop => running /\ program # NULL /\ pc # NULL /\ env # NULL
    /\ at = "end" => Last.frames = 0

\* Once a run is stopped it starts no instruction: neither where main loops that
\* a stop has cut short return to the functions that they were called by, nor
\* after the instruction in progress has set pc anew.
NothingStarts == [][ at = "fetch" /\ at' = "instruction" => running ]_vars

\* A run that is stopped ends, however its main loops are nested: a stop that comes
\* when sistate.running has been set is not lost to what pc holds after it, or to
\* the loops around.  Only a library function that never returns keeps it.
StopEnds ==
  []<>(at # "library") =>
    ((at \notin {"host", "reset", "load", "setup"} /\ ~ running) ~> (at = "host"))

\* README.md:125: "the host explicitly cancelled the run via sistop()", so the main
\* loop of that run finds it cancelled: a stop since pynter_run was called is still
\* in sistate.running when the loop looks there.
StopHeeded == at = "check" /\ stopped => ~ running
=============================================================================
