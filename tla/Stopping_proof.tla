--------------------------- MODULE Stopping_proof ---------------------------
(***************************************************************************)
(* What a stop does to this run and to the next, for any nesting of main   *)
(* loops, any number of frames and any number of stops.                    *)
(***************************************************************************)
EXTENDS Stopping, SequenceTheorems, TLAPS

Loop == [frames : 0 .. MaxFrames, env : {"env", NULL}, pc : {"code", NULL}]

\* The points of pynter_run outside of siexec, and those inside a main loop.
Outside == {"host", "reset", "load", "setup", "clear", "entry", "caught", "result"}
Inside == {"start", "check", "fetch", "instruction", "library", "call", "ret", "destroy",
           "back", "end"}

\* Whether there was a stop or not: only the innermost loop can have lost its last
\* frame, and then it is about to end.
Shape ==
  /\ at \in Inside => loops # <<>>
  /\ at \in Outside => loops = <<>>
  /\ \A i \in 1 .. Len(loops) : loops[i].frames = 0 => i = Len(loops) /\ at \in {"back", "end"}
  /\ at = "back" => (Last.frames = 0 => pc = NULL)

\* A stop between the test of running and the fetch has cleared pc.
FetchOK == at = "fetch" => running \/ pc = NULL

\* Without a stop: what siexec has saved of the loops around, and the registers.
Saved == \A i \in 2 .. Len(loops) : loops[i].env # NULL /\ loops[i].pc # NULL
Registers ==
  /\ at = "setup" => program # NULL
  /\ at \in Inside \cup {"clear", "entry", "siexec"} => running /\ program # NULL
  /\ at = "start" => env # NULL
  /\ at = "siexec" => (loops # <<>> => pc # NULL /\ env # NULL)
  /\ at \in {"check", "fetch", "instruction", "library", "call", "ret", "destroy"} =>
       pc # NULL /\ env # NULL
  /\ at = "back" => (Last.frames # 0 => pc # NULL /\ env # NULL)
  /\ at = "end" => Last.frames = 0
  /\ at = "caught" => reason \notin {"stopped", "astray"}
  /\ at = "host" => outcome \notin {"stopped", "astray"}

Inv == TypeOK /\ Shape /\ FetchOK /\ (~ stopped => Saved /\ Registers)

-----------------------------------------------------------------------------
(***************************************************************************)
(* The nesting of main loops as a sequence                                 *)
(***************************************************************************)

LEMMA EmptyFacts ==
  /\ <<>> \in Seq([frames : 0 .. MaxFrames, env : {"env", NULL}, pc : {"code", NULL}])
  /\ Len(<<>>) = 0
  /\ \A i \in 1 .. 0 : FALSE
  /\ \A i \in 2 .. 0 : FALSE
OBVIOUS

LEMMA OuterFacts ==
  ASSUME TypeOK, loops # <<>>
  PROVE  /\ Len(loops) \in Nat \ {0}
         /\ Last \in Loop
         /\ Outer \in Seq(Loop)
         /\ Len(Outer) = Len(loops) - 1
         /\ \A i \in 1 .. Len(loops) - 1 : Outer[i] = loops[i]
<1>1. loops \in Seq(Loop)  BY DEF TypeOK, Loop
<1>2. Len(loops) \in Nat /\ Len(loops) # 0  BY <1>1
<1>3. \A i \in 1 .. Len(loops) : loops[i] \in Loop  BY <1>1
<1>4. /\ Outer \in Seq(Loop)
      /\ Len(Outer) = Len(loops) - 1
      /\ \A i \in 1 .. Len(loops) - 1 : Outer[i] = loops[i]
  <2> DEFINE m == Len(loops) - 1
  <2>1. m \in Nat /\ \A i \in 1 .. m : loops[i] \in Loop  BY <1>2, <1>3
  <2>2. Outer = SubSeq(loops, 1, m)  BY DEF Outer
  <2> HIDE DEF m
  <2>3. /\ Outer \in Seq(Loop)
        /\ Len(Outer) = IF 1 <= m THEN m - 1 + 1 ELSE 0
        /\ \A i \in 1 .. m - 1 + 1 : Outer[i] = loops[1 + i - 1]
    BY <2>1, <2>2, SubSeqProperties
  <2>4. Len(Outer) = m  BY <2>1, <2>3
  <2>5. \A i \in 1 .. m : Outer[i] = loops[i]  BY <2>1, <2>3
  <2> QED  BY <2>3, <2>4, <2>5 DEF m
<1> QED  BY <1>2, <1>3, <1>4 DEF Last

\* The innermost loop is replaced.
LEMMA ReplacedFacts ==
  ASSUME TypeOK, loops # <<>>, NEW x \in Loop
  PROVE  /\ Append(Outer, x) \in Seq(Loop)
         /\ Len(Append(Outer, x)) = Len(loops)
         /\ \A i \in 1 .. Len(loops) - 1 : Append(Outer, x)[i] = loops[i]
         /\ Append(Outer, x)[Len(loops)] = x
         /\ Append(Outer, x) # <<>>
BY OuterFacts

\* A loop is added inside.
LEMMA AddedFacts ==
  ASSUME TypeOK, NEW x \in Loop
  PROVE  /\ Append(loops, x) \in Seq(Loop)
         /\ Len(Append(loops, x)) = Len(loops) + 1
         /\ Len(loops) \in Nat
         /\ \A i \in 1 .. Len(loops) : Append(loops, x)[i] = loops[i]
         /\ Append(loops, x)[Len(loops) + 1] = x
         /\ Append(loops, x) # <<>>
<1>1. loops \in Seq(Loop)  BY DEF TypeOK, Loop
<1> QED  BY <1>1

-----------------------------------------------------------------------------
(***************************************************************************)
(* One lemma per part of the code                                          *)
(***************************************************************************)

LEMMA InitOK == Init => Inv
<1> SUFFICES ASSUME Init  PROVE Inv
  OBVIOUS
<1> USE DEF Init
<1>1. TypeOK
  <2>1. stops \in 0 .. MaxStops  BY BoundAssumption
  <2> QED  BY <2>1, EmptyFacts DEF TypeOK, Points
<1>2. Shape /\ FetchOK  BY EmptyFacts DEF Shape, FetchOK, Inside, Outside
<1>3. Saved /\ Registers  BY EmptyFacts DEF Saved, Registers, Inside
<1> QED  BY <1>1, <1>2, <1>3 DEF Inv

LEMMA StopOK == Inv /\ Stop => Inv'
<1> SUFFICES ASSUME Inv, Stop  PROVE Inv'
  OBVIOUS
<1> USE NullAssumption, BoundAssumption DEF Stop
<1>1. TypeOK'
  <2>1. stops' \in 0 .. MaxStops
    <3>1. stops \in 0 .. MaxStops  BY DEF Inv, TypeOK
    <3> QED  BY <3>1
  <2>2. stopped' \in BOOLEAN  OBVIOUS
  <2> QED  BY <2>1, <2>2 DEF Inv, TypeOK, Points
<1>2. Shape' /\ FetchOK'  BY DEF Inv, Shape, FetchOK, Last
<1>3. ~ stopped' => at = "host" /\ Registers /\ Saved  BY DEF Inv
<1>4. ~ stopped' => Saved' /\ Registers'  BY <1>3 DEF Saved, Registers, Inside, Last
<1> QED  BY <1>1, <1>2, <1>4 DEF Inv

LEMMA FaultOK ==
  ASSUME Inv, NEW r \in {"stopped", "invalid program", "other"}, Fault(r),
         at # "host", r = "stopped" => stopped
  PROVE  Inv'
<1> USE EmptyFacts DEF Fault, Quiet, history
<1>1. TypeOK'  BY DEF Inv, TypeOK, Points
<1>2. Shape' /\ FetchOK'  BY DEF Shape, FetchOK, Inside, Outside
<1>3. ~ stopped' => Saved' /\ Registers'  BY DEF Saved, Registers, Inside
<1> QED  BY <1>1, <1>2, <1>3 DEF Inv

LEMMA AstrayOK == ASSUME Inv, Astray, stopped  PROVE Inv'
<1> USE EmptyFacts DEF Astray, history
<1>1. TypeOK'  BY DEF Inv, TypeOK, Points
<1>2. Shape' /\ FetchOK'  BY DEF Shape, FetchOK, Inside, Outside
<1> QED  BY <1>1, <1>2 DEF Inv

LEMMA HostOK == Inv /\ Host => Inv'
<1> SUFFICES ASSUME Inv, Host  PROVE Inv'
  OBVIOUS
<1> USE NullAssumption, BoundAssumption DEF regs, history
<1>1. CASE Run
  <2> USE <1>1, EmptyFacts DEF Run, Step
  <2>1. TypeOK'  BY DEF Inv, TypeOK, Points
  <2>2. Shape' /\ FetchOK'  BY DEF Shape, FetchOK, Inside, Outside
  <2>3. Saved' /\ Registers'  BY DEF Saved, Registers, Inside
  <2> QED  BY <2>1, <2>2, <2>3 DEF Inv
<1>2. CASE RunWithoutHeap
  <2> USE <1>2, EmptyFacts DEF RunWithoutHeap
  <2>1. TypeOK'  BY DEF Inv, TypeOK, Points
  <2>2. Shape' /\ FetchOK'  BY DEF Inv, Shape, FetchOK, Inside, Outside
  <2>3. Saved' /\ Registers'  BY DEF Inv, Shape, Saved, Registers, Inside, Outside
  <2> QED  BY <2>1, <2>2, <2>3 DEF Inv
<1>3. ASSUME NEW h \in BOOLEAN, SetupHeap(h)  PROVE Inv'
  <2> USE <1>3 DEF SetupHeap
  <2>1. TypeOK'  BY DEF Inv, TypeOK, Points
  <2>2. Shape' /\ FetchOK'  BY DEF Inv, Shape, FetchOK, Last
  <2>3. ~ stopped' => Saved' /\ Registers'  BY DEF Inv, Saved, Registers, Last
  <2> QED  BY <2>1, <2>2, <2>3 DEF Inv
<1> QED  BY <1>1, <1>2, <1>3 DEF Host

\* siexec adds a loop, and takes it away when the loop has ended.
LEMMA SiexecOK ==
  ASSUME Inv, Step("siexec", "start"),
         loops' = Append(loops, [frames |-> 1, env |-> env, pc |-> pc]), env' = "env",
         UNCHANGED <<running, program, pc, reason>>, Quiet
  PROVE  Inv'
<1> USE NullAssumption, BoundAssumption DEF Step, Quiet, history
<1> DEFINE x == [frames |-> 1, env |-> env, pc |-> pc]
<1>1. TypeOK /\ Shape /\ (~ stopped => Saved /\ Registers)  BY DEF Inv
<1>2. x \in Loop
  <2>1. 1 \in 0 .. MaxFrames  OBVIOUS
  <2> QED  BY <1>1, <2>1 DEF TypeOK, Loop
<1>3. /\ loops' \in Seq(Loop) /\ Len(loops') = Len(loops) + 1 /\ Len(loops) \in Nat
      /\ \A i \in 1 .. Len(loops) : loops'[i] = loops[i]
      /\ loops'[Len(loops) + 1] = x
      /\ loops' # <<>>
  BY <1>1, <1>2, AddedFacts
<1>4. TypeOK'  BY <1>1, <1>3 DEF TypeOK, Points, Loop
<1>5. \A i \in 1 .. Len(loops') : loops'[i].frames # 0
  <2>1. \A i \in 1 .. Len(loops) : loops[i].frames # 0  BY <1>1 DEF Shape
  <2> QED  BY <2>1, <1>3
<1>6. Shape' /\ FetchOK'  BY <1>5, <1>3 DEF Shape, FetchOK, Inside, Outside
<1>7. ASSUME ~ stopped'  PROVE Saved'
  <2>1. Saved /\ Registers  BY <1>7, <1>1
  <2> SUFFICES ASSUME NEW i \in 2 .. Len(loops')
               PROVE  loops'[i].env # NULL /\ loops'[i].pc # NULL
    BY DEF Saved
  <2>2. CASE i \in 2 .. Len(loops)  BY <2>1, <2>2, <1>3 DEF Saved
  <2>3. CASE i = Len(loops) + 1
    <3>1. loops # <<>>  BY <2>3, <1>3, EmptyFacts
    <3> QED  BY <3>1, <2>1, <2>3, <1>3 DEF Registers
  <2> QED  BY <2>2, <2>3, <1>3
<1>8. ~ stopped' => Registers'  BY <1>1 DEF Registers, Inside
<1> QED  BY <1>4, <1>6, <1>7, <1>8 DEF Inv

LEMMA EndLoopOK == Inv /\ EndLoop => Inv'
<1> SUFFICES ASSUME Inv, EndLoop  PROVE Inv'
  OBVIOUS
<1> USE NullAssumption, BoundAssumption DEF EndLoop, Quiet, history
<1>1. TypeOK /\ Shape /\ loops # <<>> /\ (~ stopped => Saved /\ Registers)
  BY DEF Inv, Shape, Inside
<1>2. /\ Last \in Loop /\ Len(loops) \in Nat \ {0}
      /\ loops' \in Seq(Loop) /\ Len(loops') = Len(loops) - 1
      /\ \A i \in 1 .. Len(loops) - 1 : loops'[i] = loops[i]
  BY <1>1, OuterFacts
<1>3. TypeOK'  BY <1>1, <1>2 DEF TypeOK, Points, Loop
<1>4. \A i \in 1 .. Len(loops') : loops'[i].frames # 0  BY <1>1, <1>2 DEF Shape
<1>5. Len(loops) = 1 <=> loops' = <<>>  BY <1>2, EmptyFacts, EmptySeq
<1>6. Shape' /\ FetchOK'  BY <1>4, <1>5 DEF Shape, FetchOK, Inside, Outside
<1>7. ASSUME ~ stopped'  PROVE Saved' /\ Registers'
  <2>1. Saved /\ Registers  BY <1>7, <1>1
  <2>2. Saved'  BY <2>1, <1>2 DEF Saved
  <2>3. Len(loops) # 1 => env' # NULL /\ pc' # NULL  BY <2>1, <1>2 DEF Saved, Last
  <2> QED  BY <2>1, <2>2, <2>3 DEF Registers, Inside
<1> QED  BY <1>3, <1>6, <1>7 DEF Inv

\* The innermost loop gains or loses a frame: calls and returns.
LEMMA EnterFunctionOK == ASSUME NEW tail \in BOOLEAN, Inv, EnterFunction(tail)  PROVE Inv'
<1> USE NullAssumption, BoundAssumption DEF EnterFunction, Step, Quiet, history
<1> DEFINE x == [Last EXCEPT !.frames = IF tail THEN @ ELSE @ + 1]
<1>1. TypeOK /\ Shape /\ loops # <<>> /\ (~ stopped => Saved /\ Registers)
  BY DEF Inv, Shape, Inside
<1>2. Last \in Loop /\ Last.frames # 0 /\ Len(loops) \in Nat \ {0}
  BY <1>1, OuterFacts DEF Shape, Last
<1>3. x \in Loop /\ x.frames # 0 /\ x.env = Last.env /\ x.pc = Last.pc  BY <1>2 DEF Loop
<1>4. /\ loops' \in Seq(Loop) /\ Len(loops') = Len(loops) /\ loops' # <<>>
      /\ \A i \in 1 .. Len(loops) - 1 : loops'[i] = loops[i]
      /\ loops'[Len(loops)] = x
  BY <1>1, <1>3, ReplacedFacts
<1>5. TypeOK'  BY <1>1, <1>4 DEF TypeOK, Points, Loop
<1>6. \A i \in 1 .. Len(loops') : loops'[i].frames # 0  BY <1>1, <1>2, <1>3, <1>4 DEF Shape
<1>7. Shape' /\ FetchOK'  BY <1>4, <1>6 DEF Shape, FetchOK, Inside, Outside
<1>8. ASSUME ~ stopped'  PROVE Saved' /\ Registers'
  <2>1. Saved /\ Registers  BY <1>8, <1>1
  <2>2. Saved'  BY <2>1, <1>2, <1>3, <1>4 DEF Saved, Last
  <2> QED  BY <2>1, <2>2 DEF Registers, Inside
<1> QED  BY <1>5, <1>7, <1>8 DEF Inv

LEMMA DestroyOK == Inv /\ Destroy => Inv'
<1> SUFFICES ASSUME Inv, Destroy  PROVE Inv'
  OBVIOUS
<1> USE NullAssumption, BoundAssumption DEF Destroy, Step, Quiet, history
<1> DEFINE x == [Last EXCEPT !.frames = @ - 1]
<1>1. TypeOK /\ Shape /\ loops # <<>> /\ (~ stopped => Saved /\ Registers)
  BY DEF Inv, Shape, Inside
<1>2. Last \in Loop /\ Last.frames # 0 /\ Len(loops) \in Nat \ {0}
  BY <1>1, OuterFacts DEF Shape, Last
<1>3. /\ x \in Loop /\ x.env = Last.env /\ x.pc = Last.pc
      /\ x.frames = 0 <=> Last.frames = 1
  BY <1>2 DEF Loop
<1>4. /\ loops' \in Seq(Loop) /\ Len(loops') = Len(loops) /\ loops' # <<>>
      /\ \A i \in 1 .. Len(loops) - 1 : loops'[i] = loops[i]
      /\ loops'[Len(loops)] = x
  BY <1>1, <1>3, ReplacedFacts
<1>5. TypeOK'  BY <1>1, <1>2, <1>4 DEF TypeOK, Points, Loop
<1>6. \A i \in 1 .. Len(loops') : loops'[i].frames = 0 => i = Len(loops')
  BY <1>1, <1>4 DEF Shape
<1>7. Last' = x  BY <1>4 DEF Last
<1>8. Shape' /\ FetchOK'  BY <1>3, <1>4, <1>6, <1>7 DEF Shape, FetchOK, Inside, Outside
<1>9. ASSUME ~ stopped'  PROVE Saved' /\ Registers'
  <2>1. Saved /\ Registers  BY <1>9, <1>1
  <2>2. Saved'  BY <2>1, <1>2, <1>3, <1>4, SMTT(30) DEF Saved, Last
  <2> QED  BY <2>1, <2>2, <1>3, <1>7 DEF Registers, Inside
<1> QED  BY <1>5, <1>8, <1>9 DEF Inv

\* All else leaves the loops alone, or is a fault, or goes astray.
LEMMA RunOK ==
  Inv /\ (ResetReason \/ LoadProgram \/ SetRunning \/ Clear \/ Caught \/ Result) => Inv'
<1> SUFFICES ASSUME Inv, ResetReason \/ LoadProgram \/ SetRunning \/ Clear \/ Caught \/ Result
             PROVE  Inv'
  OBVIOUS
<1> USE NullAssumption DEF ResetReason, LoadProgram, SetRunning, Clear, Caught, Result, Step,
  Quiet, regs, history
<1>1. TypeOK'
  <2>1. CASE SetRunning
    <3>1. at' \in Points /\ running' \in BOOLEAN  BY <2>1 DEF Points
    <3> QED  BY <2>1, <3>1 DEF Inv, TypeOK
  <2>2. CASE Clear
    <3>1. at' \in Points /\ pc' \in {"code", NULL} /\ env' \in {"env", NULL}
      BY <2>2 DEF Points
    <3> QED  BY <2>2, <3>1 DEF Inv, TypeOK
  <2>3. CASE Caught  BY <2>3 DEF Inv, TypeOK, Points
  <2>4. CASE Result  BY <2>4 DEF Inv, TypeOK, Points
  <2>5. CASE ResetReason
    <3>1. at' \in Points /\ reason' = "none"  BY <2>5 DEF Points
    <3> QED  BY <2>5, <3>1 DEF Inv, TypeOK
  <2>6. CASE LoadProgram
    <3>1. at' \in Points /\ program' = "code"  BY <2>6 DEF Points
    <3> QED  BY <2>6, <3>1 DEF Inv, TypeOK
  <2> QED  BY <2>1, <2>2, <2>3, <2>4, <2>5, <2>6
<1>2. Shape' /\ FetchOK'  BY DEF Inv, Shape, FetchOK, Inside, Outside
<1>3. ~ stopped' => Saved' /\ Registers'
  BY DEF Inv, TypeOK, Shape, Saved, Registers, Inside, Outside
<1> QED  BY <1>1, <1>2, <1>3 DEF Inv

LEMMA SiexecStepOK == Inv /\ Siexec => Inv'
BY SiexecOK, FaultOK DEF Siexec

LEMMA EnterOK == Inv /\ Enter => Inv'
<1> SUFFICES ASSUME Inv, Enter  PROVE Inv'
  OBVIOUS
<1>1. CASE at = "entry" /\ Fault("invalid program")  BY <1>1, FaultOK
<1>2. CASE at = "entry" /\ program = NULL /\ Astray
  BY <1>2, AstrayOK DEF Inv, Registers
<1>3. CASE at = "entry" /\ program # NULL /\ at' = "siexec" /\ UNCHANGED <<regs, loops>> /\ Quiet
  <2> USE <1>3 DEF Quiet, regs, history
  <2>1. TypeOK'  BY DEF Inv, TypeOK, Points
  <2>2. Shape' /\ FetchOK'  BY DEF Inv, Shape, FetchOK, Inside, Outside
  <2>3. ~ stopped' => Saved' /\ Registers'
    BY DEF Inv, Shape, Saved, Registers, Inside, Outside
  <2> QED  BY <2>1, <2>2, <2>3 DEF Inv
<1> QED  BY <1>1, <1>2, <1>3 DEF Enter

\* From one point of a main loop to another.
LEMMA GotoOK ==
  ASSUME Inv, NEW to \in Inside \cup {"siexec"}, Goto(to),
         at \in Inside \ {"end", "back"}, at # "start",
         to \notin {"start", "back", "end"},
         to = "fetch" => running
  PROVE  Inv'
<1> USE NullAssumption DEF Goto, Quiet, regs, history
<1>1. TypeOK'
  <2>1. at' \in Points  BY DEF Inside, Points
  <2> QED  BY <2>1 DEF Inv, TypeOK
<1>2. Shape' /\ FetchOK'  BY DEF Inv, Shape, FetchOK, Inside, Outside
<1>3. ~ stopped' => Saved' /\ Registers'  BY DEF Inv, Saved, Registers, Inside
<1> QED  BY <1>1, <1>2, <1>3 DEF Inv

\* sistate.pc, or env, is set on the way.
LEMMA SetOK ==
  ASSUME Inv, NEW from, NEW to \in {"check", "call"}, Step(from, to),
         from \in {"start", "instruction", "library"},
         \/ pc' = "code" /\ env' = env
         \/ env' = "env" /\ pc' = pc /\ from = "instruction",
         UNCHANGED <<running, program, reason, loops>>, Quiet
  PROVE  Inv'
<1> USE NullAssumption DEF Step, Quiet, history
<1>1. TypeOK'
  <2>1. at' \in Points  BY DEF Points
  <2>2. pc' \in {"code", NULL} /\ env' \in {"env", NULL}  BY DEF Inv, TypeOK
  <2> QED  BY <2>1, <2>2 DEF Inv, TypeOK
<1>2. Shape' /\ FetchOK'  BY DEF Inv, Shape, FetchOK, Inside, Outside
<1>3. ~ stopped' => Saved' /\ Registers'  BY DEF Inv, Saved, Registers, Inside
<1> QED  BY <1>1, <1>2, <1>3 DEF Inv

LEMMA BackOK == Inv /\ Back => Inv'
<1> SUFFICES ASSUME Inv, Back  PROVE Inv'
  OBVIOUS
<1> USE NullAssumption DEF Back, Goto, Quiet, regs, history
<1>1. TypeOK'  BY DEF Inv, TypeOK, Points
<1>2. loops # <<>> /\ Last' = Last  BY DEF Inv, Shape, Inside, Last
<1>3. Len(loops) \in Nat /\ Len(loops) # 0  BY <1>2, OuterFacts DEF Inv
<1>4. Shape' /\ FetchOK'  BY <1>2, <1>3 DEF Inv, Shape, FetchOK, Inside, Outside, Last
<1>5. ~ stopped' => Saved' /\ Registers'  BY <1>2 DEF Inv, Shape, Saved, Registers, Inside
<1> QED  BY <1>1, <1>4, <1>5 DEF Inv

-----------------------------------------------------------------------------
(***************************************************************************)
(* The steps of the VM and of the specification                            *)
(***************************************************************************)

LEMMA VMOK == Inv /\ (VM \/ Library) => Inv'
<1> SUFFICES ASSUME Inv, VM \/ Library  PROVE Inv'
  OBVIOUS
<1> USE NullAssumption
<1>1. CASE ResetReason \/ LoadProgram \/ SetRunning \/ Clear \/ Caught \/ Result  BY <1>1, RunOK
<1>2. CASE Enter \/ Siexec \/ EndLoop \/ Destroy \/ Back
  BY <1>2, EnterOK, SiexecStepOK, EndLoopOK, DestroyOK, BackOK
<1>3. CASE StartLoop
  <2>1. CASE at = "start" /\ env = NULL /\ Len(loops) > 1 /\ Astray
    BY <2>1, AstrayOK DEF Inv, Registers
  <2>2. CASE ~ (at = "start" /\ env = NULL /\ Len(loops) > 1 /\ Astray)
    BY <1>3, <2>2, SetOK DEF StartLoop
  <2> QED  BY <2>1, <2>2
<1>4. CASE Check
  <2>1. CASE running  BY <1>4, <2>1, GotoOK DEF Check, Inside
  <2>2. CASE ~ running
    <3>1. at = "check" /\ Fault("stopped")  BY <1>4, <2>2 DEF Check
    <3>2. stopped  BY <2>2, <3>1 DEF Inv, Registers, Inside, TypeOK
    <3> QED  BY <3>1, <3>2, FaultOK
  <2> QED  BY <2>1, <2>2
<1>5. CASE Fetch
  <2>1. CASE at = "fetch" /\ pc # NULL /\ Goto("instruction")  BY <2>1, GotoOK DEF Inside
  <2>2. CASE at = "fetch" /\ pc = NULL /\ Astray  BY <2>2, AstrayOK DEF Inv, Registers
  <2>3. CASE at = "fetch" /\ pc = NULL /\ Fault("other")  BY <2>3, FaultOK
  <2> QED  BY <1>5, <2>1, <2>2, <2>3 DEF Fetch
<1>6. CASE Work
  <2>1. CASE at = "instruction" /\ (pc = NULL \/ env = NULL) /\ Astray
    BY <2>1, AstrayOK DEF Inv, Registers
  <2>2. CASE at = "instruction" /\ Fault("other")  BY <2>2, FaultOK
  <2>3. CASE /\ Step("instruction", "check") /\ pc' = "code"
             /\ UNCHANGED <<running, program, env, reason, loops>> /\ Quiet
    BY <2>3, SetOK
  <2> QED  BY <1>6, <2>1, <2>2, <2>3 DEF Work
<1>7. CASE Branch  BY <1>7, GotoOK DEF Branch, Inside
<1>8. CASE SetEnv  BY <1>8, SetOK DEF SetEnv
<1>9. CASE \E tail \in BOOLEAN : EnterFunction(tail)  BY <1>9, EnterFunctionOK
<1>10. CASE Ret
  <2>1. CASE env = NULL  BY <1>10, <2>1, AstrayOK DEF Ret, Inv, Registers
  <2>2. CASE env # NULL  BY <1>10, <2>2, GotoOK DEF Ret, Inside
  <2> QED  BY <2>1, <2>2
<1>11. CASE Library
  <2>1. CASE at = "library" /\ Goto("siexec")  BY <2>1, GotoOK DEF Inside
  <2>2. CASE at = "library" /\ Fault("other")  BY <2>2, FaultOK
  <2>3. CASE at = "library" /\ Goto("ret")  BY <2>3, GotoOK DEF Inside
  <2>4. CASE /\ Step("library", "check") /\ pc' = "code"
             /\ UNCHANGED <<running, program, env, reason, loops>> /\ Quiet
    BY <2>4, SetOK
  <2> QED  BY <1>11, <2>1, <2>2, <2>3, <2>4 DEF Library
<1> QED
  BY <1>1, <1>2, <1>3, <1>4, <1>5, <1>6, <1>7, <1>8, <1>9, <1>10, <1>11 DEF VM

LEMMA NextOK == Inv /\ [Next]_vars => Inv'
<1> SUFFICES ASSUME Inv, [Next]_vars  PROVE Inv'
  OBVIOUS
<1>1. CASE Next  BY <1>1, VMOK, HostOK, StopOK DEF Next
<1>2. CASE UNCHANGED vars
  <2> USE <1>2 DEF vars, regs, history
  <2>1. TypeOK' /\ FetchOK'  BY DEF Inv, TypeOK, FetchOK
  <2>2. Shape'  BY DEF Inv, Shape, Last
  <2>3. ~ stopped' => Saved' /\ Registers'  BY DEF Inv, Saved, Registers, Last
  <2> QED  BY <2>1, <2>2, <2>3 DEF Inv
<1> QED  BY <1>1, <1>2

\* The registers, the nesting of main loops and what is known of them without a
\* stop, in every reachable state (sistate, siexec).
THEOREM StoppingInvariant == Spec => []Inv
<1> QED  BY InitOK, NextOK, PTL DEF Spec

\* sistate and the main loops have their types; a return never takes a frame that
\* is not there (sistack_destroy).
THEOREM StoppingTypes == Spec => []TypeOK
<1>1. Inv => TypeOK  BY DEF Inv
<1> QED  BY <1>1, StoppingInvariant, PTL

\* A run that is not stopped is not affected by stops of earlier runs, wherever
\* they came (pynter_run, sistop).
THEOREM AlwaysUndisturbed == Spec => []Undisturbed
<1>1. Inv => Undisturbed  BY DEF Inv, Registers, Undisturbed, InLoop, Inside
<1> QED  BY <1>1, StoppingInvariant, PTL

\* A stopped run starts no instruction (main_loop, sistop).
THEOREM NothingEverStarts == Spec => NothingStarts
<1>1. Inv /\ [Next]_vars => [at = "fetch" /\ at' = "instruction" => running]_vars
  <2> SUFFICES ASSUME Inv, Next, at = "fetch", at' = "instruction"  PROVE running
    BY DEF Inv
  <2>1. pc # NULL
    BY DEF Next, VM, Host, Stop, Run, RunWithoutHeap, SetupHeap, ResetReason, LoadProgram,
      SetRunning, Clear, Enter, Caught,
      Result, Siexec, StartLoop, EndLoop, Check, Fetch, Work, Branch, SetEnv, EnterFunction, Ret,
      Destroy, Back, Library, Step, Goto, Fault, Astray
  <2> QED  BY <2>1 DEF Inv, FetchOK
<1> QED  BY <1>1, StoppingInvariant, PTL DEF Spec, NothingStarts
=============================================================================
