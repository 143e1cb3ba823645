--------------------------- MODULE InverterProofs ---------------------------
(***************************************************************************)
(* Proofs about the run/stop state machine, for every value of the         *)
(* constants that the theorem's own assumptions allow.                     *)
(***************************************************************************)
EXTENDS InverterProperties, TLAPS

-----------------------------------------------------------------------------
(* Type correctness, part by part: a step keeps the parts it touches by    *)
(* its definition and the others because it leaves them unchanged.         *)

USE DEF MOD_OFF, MOD_RUN, MOD_MANUAL, MOD_BOOST, MOD_BUCK, MOD_SINE, MOD_ACHEAT,
        TRIP_ALLOFF, TRIP_DCSWON, TRIP_PRECHARGEON, TRIP_AUTORESUME

\* What a step that leaves a group of variables alone keeps of the types.
LEMMA FrameOK ==
  /\ ParamsOK /\ UNCHANGED params => ParamsOK'
  /\ CommandsOK /\ UNCHANGED commands => CommandsOK'
  /\ OutputsOK /\ UNCHANGED outputs => OutputsOK'
  /\ TimerOK /\ UNCHANGED timer => TimerOK'
  /\ FocOK /\ UNCHANGED foc => FocOK'
  /\ SetopOK /\ UNCHANGED setop => SetopOK'
  /\ WritesOK /\ UNCHANGED writes => WritesOK'
  /\ SampledOK /\ UNCHANGED sampled => SampledOK'
BY DEF params, commands, outputs, timer, foc, setop, writes, sampled, ParamsOK,
       CommandsOK, OutputsOK, TimerOK, FocOK, SetopOK, WritesOK, SampledOK

LEMMA InitTypeOK == Init => TypeOK
<1> SUFFICES ASSUME Init
             PROVE  TypeOK
  OBVIOUS
<1>1. ParamsOK
  <2>1. hwRev \in HwRevs /\ tripmode \in TripModes
    BY DEF Init
  <2> QED
    BY <2>1, HwRevAssumption, ParamAssumption DEF ParamsOK
<1>2. CommandsOK /\ OutputsOK /\ PwmOK /\ TimerOK
  <2>1. opmode \in Modes /\ pwmOpmode \in Modes
    BY DEF Init, Modes
  <2> QED
    BY <2>1 DEF Init, CommandsOK, OutputsOK, PwmOK, TimerOK, Channels
<1>3. FocOK /\ TaskOK
  <2>1. isIdle \in BOOLEAN
    BY DEF Init
  <2>2. focInitwait \in 0 .. PwmInitWait /\ initWait \in -1 .. InitDelay
    BY DelayAssumption DEF Init
  <2>3. pc \in TickSteps
    BY DEF Init, TickSteps
  <2> QED
    BY <2>1, <2>2, <2>3 DEF FocOK, TaskOK
<1>4. SetopOK /\ WritesOK
  <2>1. SetopOK
    BY DEF Init, SetopOK, SetOpmodeSteps, Modes
  <2>2. todo \in Seq(Channels) /\ copy \subseteq Channels
    BY DEF Init
  <2>3. held \in BOOLEAN
    BY DEF Init
  <2> QED
    BY <2>1, <2>2, <2>3 DEF WritesOK
<1>5. SampledOK
  BY DEF Init, SampledOK, Modes
<1>6. term \in {"prompt", "defaults", "start"}
  BY DEF Init
<1> QED
  BY <1>1, <1>2, <1>3, <1>4, <1>5, <1>6 DEF TypeOK

\* Moving a thread's SetOpmode on, or calling it with an operating mode.
LEMMA GoToOK ==
  ASSUME SetopOK, WritesOK, NEW t \in Threads, NEW step \in SetOpmodeSteps,
         GoTo(t, step)
  PROVE  SetopOK' /\ WritesOK'
BY DEF GoTo, SetopOK, WritesOK, writes, Modes, SetOpmodeSteps

LEMMA CallOK ==
  ASSUME SetopOK, WritesOK, NEW t \in Threads, NEW mode \in Modes,
         CallSetOpmode(t, mode)
  PROVE  SetopOK' /\ WritesOK'
BY DEF CallSetOpmode, SetopOK, WritesOK, writes, SetOpmodeSteps

\* The lists of channels a mode enables.
LEMMA ListsOK ==
  ASSUME NEW mode, NEW charging
  PROVE  /\ AllChannels \in Seq(Channels)
         /\ ToEnable(mode, charging) \in Seq(Channels)
<1>1. AllChannels \in Seq(Channels)
  BY DEF AllChannels, Channels
<1>2. /\ <<"1", "2", "3">> \in Seq(Channels)
      /\ <<"2N", "2">> \in Seq(Channels)
      /\ <<"2N">> \in Seq(Channels)
      /\ <<"2">> \in Seq(Channels)
      /\ <<>> \in Seq(Channels)
  BY DEF Channels
<1> QED
  BY <1>1, <1>2 DEF ToEnable

LEMMA ElementsOK ==
  ASSUME NEW list \in Seq(Channels)
  PROVE  Elements(list) \subseteq Channels
BY DEF Elements

\* The terminal's switch: its steps, and what they leave alone.
LEMMA TermOutputsLeaves ==
  ASSUME TermOutputs
  PROVE  /\ TickIdle
         /\ soStep["terminal"] \in {"outputs", "disable", "enable"}
         /\ SwitchFrame
         /\ \/ UNCHANGED <<soStep, soMode>>
            \/ soMode' = [soMode EXCEPT !["terminal"] = ReadMode("terminal")]
               /\ \E step \in {"disable", "enable"} :
                    soStep' = [soStep EXCEPT !["terminal"] = step]
            \/ soMode' = soMode
               /\ soStep' = [soStep EXCEPT !["terminal"] = "enable"]
            \/ GoTo("terminal", "return")
BY DEF TermOutputs, TermSwitch, TermLoadChannels, TermStoreChannels, TermDisabled,
       TermEnabled, AtSwitch, WriteNext, SwitchFrame

\* It keeps the types: what it stores is what it loaded and a channel of its list.
LEMMA TermOutputsTypeOK ==
  ASSUME TypeOK, TermOutputs
  PROVE  TypeOK'
<1> USE DEF TypeOK
<1>1. /\ PwmOK' /\ TaskOK' /\ (term \in {"prompt", "defaults", "start"})'
      /\ ParamsOK' /\ CommandsOK' /\ OutputsOK' /\ FocOK' /\ SampledOK'
  BY TermOutputsLeaves, FrameOK DEF SwitchFrame, PwmOK, TaskOK
<1>2. SetopOK'
  <2>1. ReadMode("terminal") \in Modes
    BY DEF ReadMode, PwmOK, Modes
  <2>2. CASE GoTo("terminal", "return")
    BY <2>2, GoToOK DEF Threads, SetOpmodeSteps
  <2> QED
    BY <2>1, <2>2, TermOutputsLeaves DEF SetopOK, Threads, SetOpmodeSteps
<1>3. WritesOK' /\ TimerOK'
  <2>1. UNCHANGED <<uie, bie>>
    BY TermOutputsLeaves DEF SwitchFrame
  <2>2. CASE TermSwitch
    <3>1. \E list \in Seq(Channels) : \E step : WriteNext(step, list)
      BY <2>2, ListsOK DEF TermSwitch
    <3> QED
      BY <2>1, <2>2, <3>1 DEF TermSwitch, WriteNext, WritesOK, TimerOK
  <2>3. CASE TermLoadChannels
    BY <2>1, <2>3 DEF TermLoadChannels, WritesOK, TimerOK
  <2>4. CASE TermStoreChannels
    <3>1. Head(todo) \in Channels /\ Tail(todo) \in Seq(Channels)
      BY <2>4 DEF TermStoreChannels, WritesOK
    <3> QED
      BY <2>1, <2>4, <3>1 DEF TermStoreChannels, WritesOK, TimerOK
  <2>5. CASE TermDisabled
    BY <2>1, <2>5, ListsOK DEF TermDisabled, WriteNext, WritesOK, TimerOK
  <2>6. CASE TermEnabled
    <3>1. moe' \in BOOLEAN /\ oc' = oc
      BY <2>6 DEF TermEnabled
    <3>2. WritesOK'
      BY <2>6, FrameOK DEF TermEnabled, GoTo
    <3> QED
      BY <2>1, <3>1, <3>2 DEF TimerOK
  <2> QED
    BY <2>2, <2>3, <2>4, <2>5, <2>6 DEF TermOutputs
<1> QED
  BY <1>1, <1>2, <1>3

\* Every step of SetOpmode keeps the types, whichever thread takes it.
LEMMA SetOpmodeTypeOK ==
  ASSUME TypeOK, NEW t \in Threads, SetOpmode(t)
  PROVE  TypeOK'
<1> USE DEF TypeOK
<1>1. CASE SetOpmodeEnter(t) \/ SetOpmodePublish(t)
  <2>1. PwmOK'
    BY <1>1 DEF SetOpmodeEnter, SetOpmodePublish, PwmOK, SetopOK
  <2>2. SetopOK' /\ WritesOK'
    BY <1>1, GoToOK DEF SetOpmodeEnter, SetOpmodePublish, SetOpmodeSteps
  <2>3. TaskOK' /\ (term \in {"prompt", "defaults", "start"})'
    BY <1>1 DEF SetOpmodeEnter, SetOpmodePublish, TaskOK
  <2> QED
    BY <1>1, <2>1, <2>2, <2>3, FrameOK DEF SetOpmodeEnter, SetOpmodePublish
<1>2. CASE SetOpmodeUntrip(t)
  <2>1. PwmOK' /\ TaskOK' /\ (term \in {"prompt", "defaults", "start"})'
    BY <1>2 DEF SetOpmodeUntrip, PwmOK, TaskOK
  <2>2. SetopOK' /\ WritesOK'
    BY <1>2, GoToOK DEF SetOpmodeUntrip, SetOpmodeSteps
  <2> QED
    BY <1>2, <2>1, <2>2, FrameOK DEF SetOpmodeUntrip
<1>3. CASE SetOpmodeTimer(t) \/ SetOpmodeArm(t)
  <2>1. PwmOK' /\ TaskOK' /\ (term \in {"prompt", "defaults", "start"})'
    BY <1>3 DEF SetOpmodeTimer, SetOpmodeArm, PwmOK, TaskOK
  <2>2. SetopOK' /\ WritesOK'
    BY <1>3, GoToOK DEF SetOpmodeTimer, SetOpmodeArm, SetOpmodeSteps
  <2>3. TimerOK'
    BY <1>3 DEF SetOpmodeTimer, SetOpmodeArm, ResetTimer, ArmTimer, TimerOK, Channels
  <2> QED
    BY <1>3, <2>1, <2>2, <2>3, FrameOK DEF SetOpmodeTimer, SetOpmodeArm
<1>4. CASE SetOpmodeInit(t)
  <2>1. PwmOK' /\ TaskOK' /\ (term \in {"prompt", "defaults", "start"})'
    BY <1>4 DEF SetOpmodeInit, PwmOK, TaskOK
  <2>2. SetopOK' /\ WritesOK'
    BY <1>4, GoToOK DEF SetOpmodeInit, SetOpmodeSteps
  <2>3. FocOK'
    BY <1>4, DelayAssumption DEF SetOpmodeInit, FocOK
  <2> QED
    BY <1>4, <2>1, <2>2, <2>3, FrameOK DEF SetOpmodeInit
<1>5. CASE SetOpmodeOutputs
  <2>1. PwmOK' /\ TaskOK' /\ (term \in {"prompt", "defaults", "start"})'
    BY <1>5 DEF SetOpmodeOutputs, PwmOK, TaskOK
  <2>2. SetopOK' /\ WritesOK'
    BY <1>5, GoToOK DEF SetOpmodeOutputs, SetOpmodeSteps, Threads
  <2>3. \A mode : Elements(ToEnable(mode, mode)) \subseteq Channels
    BY ListsOK, ElementsOK
  <2>4. oc' \subseteq Channels
    BY <1>5, <2>3 DEF SetOpmodeOutputs, SwitchOutputs, TimerOK
  <2>5. moe' \in BOOLEAN
    BY <1>5 DEF SetOpmodeOutputs, SwitchOutputs
  <2>6. TimerOK'
    BY <1>5, <2>4, <2>5 DEF SetOpmodeOutputs, TimerOK
  <2> QED
    BY <1>5, <2>1, <2>2, <2>6, FrameOK DEF SetOpmodeOutputs
<1> QED
  BY <1>1, <1>2, <1>3, <1>4, <1>5, TermOutputsTypeOK DEF SetOpmode

\* The task's own steps keep them.
LEMMA TaskTypeOK ==
  ASSUME TypeOK,
         TickSense \/ TickInterlock \/ TickCommit \/ TickOff \/ TickOffDone
           \/ TickStart \/ TickStartDone \/ TickWait
  PROVE  TypeOK'
<1> USE DEF TypeOK
<1>1. CASE TickSense
  <2>1. PwmOK' /\ TaskOK' /\ (term \in {"prompt", "defaults", "start"})'
    BY <1>1 DEF TickSense, PwmOK, TaskOK, TickSteps
  <2>2. CommandsOK' /\ OutputsOK'
    BY <1>1 DEF TickSense, ProcessUdc, CommandsOK, OutputsOK, Modes
  <2>3. isIdle' \in BOOLEAN
    BY <1>1 DEF TickSense, SetTorquePercent, FocOK
  <2>4. FocOK'
    BY <1>1, <2>3 DEF TickSense, FocOK
  <2>5. localMode' \in Modes /\ newMode' \in Modes /\ din' \in SUBSET DinSignals
    BY <1>1 DEF TickSense, SampledOK, CommandsOK
  <2>6. blocked' \in BOOLEAN
    BY <1>1 DEF TickSense
  <2> QED
    BY <1>1, <2>1, <2>2, <2>4, <2>5, <2>6, FrameOK DEF setop, TickSense, SampledOK
<1>2. CASE TickInterlock
  <2>1. PwmOK' /\ TaskOK' /\ (term \in {"prompt", "defaults", "start"})'
    BY <1>2 DEF TickInterlock, PwmOK, TaskOK, TickSteps
  <2>2. newMode' \in Modes
    BY <1>2, ParamAssumption
    DEF TickInterlock, AdmittedMode, ChargeRequested, Modes
  <2>3. SampledOK'
    BY <1>2, <2>2 DEF TickInterlock, SampledOK
  <2>4. CommandsOK'
    BY <1>2 DEF TickInterlock, CommandsOK
  <2>5. SetopOK' /\ WritesOK'
    BY <1>2, <2>2, CallOK, FrameOK DEF TickInterlock, Threads, setop
  <2> QED
    BY <1>2, <2>1, <2>3, <2>4, <2>5, FrameOK DEF setop, TickInterlock
<1>3. CASE TickCommit
  <2>1. PwmOK' /\ TaskOK' /\ (term \in {"prompt", "defaults", "start"})'
    BY <1>3 DEF TickCommit, PwmOK, TaskOK, TickSteps
  <2>2. CommandsOK'
    BY <1>3 DEF TickCommit, CommandsOK, SampledOK, Modes
  <2>3. SampledOK'
    BY <1>3 DEF TickCommit, SampledOK, Modes
  <2>4. OutputsOK'
    BY <1>3 DEF TickCommit, CloseContactor, OutputsOK
  <2> QED
    BY <1>3, <2>1, <2>2, <2>3, <2>4, FrameOK DEF setop, TickCommit
<1>4. CASE TickOff
  <2>1. PwmOK' /\ TaskOK' /\ (term \in {"prompt", "defaults", "start"})'
    BY <1>4, DelayAssumption DEF TickOff, EnterOff, PwmOK, TaskOK, TickSteps
  <2>2. OutputsOK'
    BY <1>4 DEF TickOff, SetContactorsOffState, OutputsOK
  <2>3. SetopOK' /\ WritesOK'
    BY <1>4, CallOK DEF TickOff, EnterOff, Threads, Modes
  <2> QED
    BY <1>4, <2>1, <2>2, <2>3, FrameOK DEF setop, TickOff
<1>5. CASE TickOffDone
  <2>1. PwmOK' /\ TaskOK' /\ (term \in {"prompt", "defaults", "start"})'
    BY <1>5 DEF TickOffDone, TaskDone, PwmOK, TaskOK, TickSteps
  <2>2. CommandsOK'
    BY <1>5 DEF TickOffDone, CommandsOK
  <2>3. SampledOK'
    BY <1>5 DEF TickOffDone, TaskDone, SampledOK, Modes
  <2> QED
    BY <1>5, <2>1, <2>2, <2>3, FrameOK DEF setop, TickOffDone
<1>6. CASE TickStart
  <2>1. PwmOK' /\ TaskOK' /\ (term \in {"prompt", "defaults", "start"})'
    BY <1>6 DEF TickStart, PwmOK, TaskOK, TickSteps
  <2>2. CommandsOK'
    BY <1>6 DEF TickStart, DisableSaving, CommandsOK
  <2>3. FocOK'
    BY <1>6 DEF TickStart, SetTorquePercent, FocOK
  <2>4. SetopOK' /\ WritesOK'
    BY <1>6, CallOK DEF TickStart, SampledOK, Threads
  <2> QED
    BY <1>6, <2>1, <2>2, <2>3, <2>4, FrameOK DEF setop, TickStart
<1>7. CASE TickStartDone
  <2>1. PwmOK' /\ TaskOK' /\ (term \in {"prompt", "defaults", "start"})'
    BY <1>7, DelayAssumption DEF TickStartDone, TaskDone, PwmOK, TaskOK, TickSteps
  <2>2. OutputsOK'
    BY <1>7 DEF TickStartDone, OutputsOK
  <2>3. SampledOK'
    BY <1>7 DEF TickStartDone, TaskDone, SampledOK, Modes
  <2> QED
    BY <1>7, <2>1, <2>2, <2>3, FrameOK DEF setop, TickStartDone
<1>8. CASE TickWait
  <2>1. PwmOK' /\ TaskOK' /\ (term \in {"prompt", "defaults", "start"})'
    BY <1>8, DelayAssumption
    DEF TickWait, CountDown, TaskDone, PwmOK, TaskOK, TickSteps
  <2>2. SampledOK'
    BY <1>8 DEF TickWait, TaskDone, SampledOK, Modes
  <2> QED
    BY <1>8, <2>1, <2>2, FrameOK DEF setop, TickWait
<1> QED
  BY <1>1, <1>2, <1>3, <1>4, <1>5, <1>6, <1>7, <1>8

\* So do interrupts, the 100 ms task and the commands.
LEMMA EventTypeOK ==
  ASSUME TypeOK,
         Ms100Task \/ Break \/ PwmIsr \/ SdoStart \/ Stop \/ SetManualStart
           \/ TermStart \/ TermStartDone \/ TermDefaults \/ TermApplyDefaults
  PROVE  TypeOK'
<1> USE DEF TypeOK
<1>1. CASE Ms100Task
  <2>1. CommandsOK'
    BY <1>1 DEF Ms100Task, CommandsOK
  <2>2. PwmOK' /\ TaskOK' /\ (term \in {"prompt", "defaults", "start"})'
    BY <1>1 DEF Ms100Task, PwmOK, TaskOK
  <2> QED
    BY <1>1, <2>1, <2>2, FrameOK DEF setop, Ms100Task
<1>2. CASE Break
  <2>1. CommandsOK'
    BY <1>2 DEF Break, BreakHandler, CommandsOK, Modes
  <2>2. OutputsOK' /\ TimerOK'
    BY <1>2 DEF Break, BreakHandler, OutputsOK, TimerOK
  <2>3. PwmOK' /\ TaskOK' /\ (term \in {"prompt", "defaults", "start"})'
    BY <1>2 DEF Break, BreakHandler, PwmOK, TaskOK
  <2> QED
    BY <1>2, <2>1, <2>2, <2>3, FrameOK DEF setop, Break
<1>3. CASE PwmIsr
  <2>1. focInitwait' \in 0 .. PwmInitWait
    BY <1>3, DelayAssumption DEF PwmIsr, RunFoc, RunSine, FocOK
  <2>2. FocOK'
    BY <1>3, <2>1 DEF PwmIsr, FocOK
  <2>3. moe' \in BOOLEAN
    BY <1>3 DEF PwmIsr, RunFoc, RunSine, TimerOK
  <2>4. TimerOK'
    BY <1>3, <2>3 DEF PwmIsr, TimerOK
  <2>5. PwmOK' /\ TaskOK' /\ (term \in {"prompt", "defaults", "start"})'
    BY <1>3 DEF PwmIsr, PwmOK, TaskOK
  <2> QED
    BY <1>3, <2>2, <2>4, <2>5, FrameOK DEF setop, PwmIsr
<1>4. CASE SdoStart
  <2>1. CommandsOK'
    BY <1>4, ParamAssumption DEF SdoStart, CommandFrame, CommandsOK
  <2>2. PwmOK' /\ TaskOK'
    BY <1>4 DEF SdoStart, CommandFrame, PwmOK, TaskOK
  <2> QED
    BY <1>4, <2>1, <2>2, FrameOK DEF setop, SdoStart, CommandFrame
<1>5. CASE Stop \/ SetManualStart
  <2>1. opmode' \in Modes
    BY <1>5 DEF Stop, SetManualStart, CommandFrame, CommandsOK, Modes
  <2>2. CommandsOK'
    BY <1>5, <2>1 DEF Stop, SetManualStart, CommandFrame, CommandsOK
  <2>3. PwmOK' /\ TaskOK'
    BY <1>5 DEF Stop, SetManualStart, CommandFrame, PwmOK, TaskOK
  <2> QED
    BY <1>5, <2>2, <2>3, FrameOK DEF setop, Stop, SetManualStart, CommandFrame
<1>6. CASE TermStart
  <2>1. PICK mode \in StartModes : opmode' = mode /\ CallSetOpmode("terminal", mode)
    BY <1>6 DEF TermStart
  <2>2. SetopOK' /\ WritesOK'
    BY <2>1, CallOK, ParamAssumption DEF Threads
  <2>3. CommandsOK'
    BY <1>6, <2>1, ParamAssumption DEF TermStart, CommandFrame, CommandsOK
  <2> QED
    BY <1>6, <2>2, <2>3, FrameOK DEF setop, TermStart, CommandFrame, PwmOK, TaskOK
<1>7. CASE TermStartDone \/ TermDefaults
  <2>1. CommandsOK' /\ PwmOK' /\ TaskOK'
    BY <1>7 DEF TermStartDone, TermDefaults, CommandFrame, CommandsOK, PwmOK, TaskOK
  <2> QED
    BY <1>7, <2>1, FrameOK DEF setop, TermStartDone, TermDefaults, CommandFrame
<1>8. CASE TermApplyDefaults
  <2>1. tripmode' \in TRIP_ALLOFF .. TRIP_AUTORESUME
    BY <1>8 DEF TermApplyDefaults, TRIP_ALLOFF, TRIP_AUTORESUME
  <2>2. ParamsOK'
    BY <1>8, <2>1 DEF TermApplyDefaults, ParamsOK
  <2>3. CommandsOK' /\ PwmOK' /\ TaskOK'
    BY <1>8 DEF TermApplyDefaults, CommandsOK, PwmOK, TaskOK
  <2> QED
    BY <1>8, <2>2, <2>3, FrameOK DEF setop, TermApplyDefaults
<1> QED
  BY <1>1, <1>2, <1>3, <1>4, <1>5, <1>6, <1>7, <1>8

LEMMA TypeStep == TypeOK /\ [Next]_vars => TypeOK'
<1> SUFFICES ASSUME TypeOK, [Next]_vars
             PROVE  TypeOK'
  OBVIOUS
<1>1. CASE Next
  BY <1>1, SetOpmodeTypeOK, TaskTypeOK, EventTypeOK
  DEF Next, Ms10Task, Command, Threads
<1>2. CASE UNCHANGED vars
  BY <1>2, FrameOK DEF setop, vars, TypeOK, PwmOK, TaskOK
<1> QED
  BY <1>1, <1>2

\* Every variable keeps its type in every reachable state.
THEOREM TypeCorrect == Spec => []TypeOK
BY InitTypeOK, TypeStep, PTL DEF Spec

-----------------------------------------------------------------------------
(* SetOpmode as a call: what its steps touch, whichever thread takes them. *)

\* A step of SetOpmode belongs to a call under way and leaves alone what is not
\* the power stage's.
LEMMA SetOpmodeFrame ==
  ASSUME NEW t \in Threads, SetOpmode(t)
  PROVE  /\ Running(t)
         /\ soStep[t] # "return"
         /\ UNCHANGED <<params, commands, outputs, pc, initWait, sampled, term>>
<1>1. CASE t = "terminal" /\ TermOutputs
  BY <1>1, TermOutputsLeaves DEF SwitchFrame, Running
<1>2. CASE t = "tick" /\ SetOpmodeOutputs
  BY <1>2 DEF SetOpmodeOutputs, Running
<1>3. CASE ~(t = "terminal" /\ TermOutputs) /\ ~(t = "tick" /\ SetOpmodeOutputs)
  BY <1>3 DEF SetOpmode, SetOpmodeEnter, SetOpmodePublish, SetOpmodeUntrip,
              SetOpmodeTimer, SetOpmodeArm, SetOpmodeInit
<1> QED
  BY <1>1, <1>2, <1>3

\* One thread's steps and calls leave the other's alone.
LEMMA GoToThread ==
  ASSUME TypeOK, NEW t \in Threads, NEW step, GoTo(t, step)
  PROVE  /\ soStep'[t] = step
         /\ step # "return" => soMode'[t] = soMode[t]
         /\ \A u \in Threads \ {t} : soStep'[u] = soStep[u] /\ soMode'[u] = soMode[u]
BY DEF GoTo, TypeOK, SetopOK

LEMMA CallThread ==
  ASSUME TypeOK, NEW t \in Threads, NEW mode, CallSetOpmode(t, mode)
  PROVE  /\ soStep'[t] = "enter"
         /\ soMode'[t] = mode
         /\ \A u \in Threads \ {t} : soStep'[u] = soStep[u] /\ soMode'[u] = soMode[u]
BY DEF CallSetOpmode, TypeOK, SetopOK

\* The terminal's switch as a step of its thread.
LEMMA TermOutputsThread ==
  ASSUME TypeOK, TermOutputs
  PROVE  /\ soStep["terminal"] \in {"outputs", "disable", "enable"}
         /\ soStep'["terminal"] \in {"outputs", "disable", "enable", "return"}
         /\ soStep'["tick"] = soStep["tick"] /\ soMode'["tick"] = soMode["tick"]
         /\ UNCHANGED <<pwmOpmode, tripped, bie>>
<1>1. CASE GoTo("terminal", "return")
  BY <1>1, TermOutputsLeaves, GoToThread DEF Threads, SwitchFrame
<1>2. CASE ~GoTo("terminal", "return")
  BY <1>2, TermOutputsLeaves DEF Threads, SwitchFrame, TypeOK, SetopOK
<1> QED
  BY <1>1, <1>2

LEMMA SetOpmodeThread ==
  ASSUME TypeOK, NEW t \in Threads, SetOpmode(t)
  PROVE  \A u \in Threads \ {t} : soStep'[u] = soStep[u] /\ soMode'[u] = soMode[u]
<1>1. CASE t = "terminal" /\ TermOutputs
  BY <1>1, TermOutputsThread DEF Threads
<1>2. CASE ~(t = "terminal" /\ TermOutputs)
  BY <1>2, GoToThread
  DEF SetOpmode, SetOpmodeEnter, SetOpmodePublish, SetOpmodeUntrip, SetOpmodeTimer,
      SetOpmodeArm, SetOpmodeInit, SetOpmodeOutputs
<1> QED
  BY <1>1, <1>2

\* Once the mode is published the rest of the call leaves it alone.
LEMMA PublishedSteps ==
  ASSUME TypeOK, NEW t \in Threads, SetOpmode(t),
         ~SetOpmodeEnter(t), ~SetOpmodePublish(t)
  PROVE  /\ soStep[t] \notin {"enter", "publish"}
         /\ soStep'[t] \notin {"enter", "publish"}
         /\ pwmOpmode' = pwmOpmode
<1>1. CASE t = "terminal" /\ TermOutputs
  BY <1>1, TermOutputsThread
<1>2. CASE ~(t = "terminal" /\ TermOutputs)
  BY <1>2, GoToThread
  DEF SetOpmode, SetOpmodeUntrip, SetOpmodeTimer, SetOpmodeArm, SetOpmodeInit,
      SetOpmodeOutputs, Threads
<1> QED
  BY <1>1, <1>2

-----------------------------------------------------------------------------
(* The contactor waits for the brake check.                                *)

\* A mode gets past the interlocks only once the brake check has passed.
BrakeInv == (dcsw => seenBrakePedal) /\ (newMode # MOD_OFF => seenBrakePedal)

LEMMA BrakeInvStep == BrakeInv /\ [Next]_vars => BrakeInv'
<1> SUFFICES ASSUME BrakeInv, [Next]_vars
             PROVE  BrakeInv'
  OBVIOUS
<1> USE DEF BrakeInv, outputs, commands, sampled, setop, timer, foc, params
<1>1. ASSUME NEW t \in Threads, SetOpmode(t)
      PROVE  BrakeInv'
  BY <1>1, SetOpmodeFrame
<1>2. CASE TickSense
  BY <1>2 DEF TickSense, ProcessUdc
<1>3. CASE TickInterlock
  <2>1. dcsw' = dcsw /\ seenBrakePedal' = seenBrakePedal
    BY <1>3 DEF TickInterlock
  <2>2. newMode' # MOD_OFF => seenBrakePedal
    BY <1>3 DEF TickInterlock, AdmittedMode, InterlocksClear
  <2> QED
    BY <2>1, <2>2
<1>4. CASE TickCommit
  BY <1>4 DEF TickCommit, CloseContactor
<1>5. CASE TickOff
  <2>1. dcsw' => dcsw
    BY <1>5 DEF TickOff, SetContactorsOffState
  <2>2. UNCHANGED <<newMode, seenBrakePedal>>
    BY <1>5 DEF TickOff
  <2> QED
    BY <2>1, <2>2
<1>6. CASE TickOffDone \/ TickStart \/ TickStartDone \/ TickWait
  <2>1. UNCHANGED <<dcsw, seenBrakePedal, newMode>>
    BY <1>6 DEF TickOffDone, TickStart, TickStartDone, TickWait, DisableSaving
  <2> QED
    BY <2>1
<1>7. CASE SdoStart \/ Stop \/ SetManualStart \/ TermStart \/ TermStartDone
             \/ TermDefaults \/ TermApplyDefaults
  BY <1>7 DEF SdoStart, Stop, SetManualStart, TermStart, TermStartDone,
              TermDefaults, TermApplyDefaults, CommandFrame
<1>8. CASE Ms100Task \/ Break \/ PwmIsr
  BY <1>8 DEF Ms100Task, Break, PwmIsr
<1>9. CASE UNCHANGED vars
  BY <1>9 DEF vars
<1> QED
  BY <1>1, <1>2, <1>3, <1>4, <1>5, <1>6, <1>7, <1>8, <1>9
  DEF Next, Ms10Task, Command, Threads

\* Whatever the variant, the board and the commands: no closed contactor before
\* the brake check has passed, which is what seenBrakePedal says (Ms100Task sets it
\* at the pedal, or without it in the cruise modes that do not ask for one).
THEOREM ContactorAfterBrake == Spec => []ContactorNeedsBrake
<1>1. Init => BrakeInv
  BY DEF Init, BrakeInv
<1>2. BrakeInv => ContactorNeedsBrake
  BY DEF BrakeInv, ContactorNeedsBrake
<1> QED
  BY <1>1, <1>2, BrakeInvStep, PTL DEF Spec

-----------------------------------------------------------------------------
(* The parameter lock, for the FOC variant on boards other than Prius: only  *)
(* there does the task alone call SetOpmode, and only from its last step.    *)

\* Where the task stands, what the delay counter says, how far SetOpmode has
\* come and whether the lock is shut: the relation between them that every step
\* keeps. While no SetOpmode is under way PWM runs exactly when the counter is
\* -1, and then the lock is shut.
AtRestInv ==
  pc \in {"idle", "interlock", "commit", "drive"} =>
    /\ soStep["tick"] = "return"
    /\ pwmOpmode # MOD_OFF <=> initWait = -1
    /\ pwmOpmode # MOD_OFF => ~saving

\* Stopping: PWM is off once SetOpmode has published its mode, before the lock opens.
StoppingInv ==
  pc = "off_tail" =>
    /\ initWait = InitDelay
    /\ soStep["tick"] \in {"enter", "publish"} => soMode["tick"] = MOD_OFF
    /\ soStep["tick"] \notin {"enter", "publish"} => pwmOpmode = MOD_OFF
    /\ pwmOpmode # MOD_OFF => ~saving

\* Starting: the lock is shut before SetOpmode begins.
StartingInv ==
  pc = "start_tail" =>
    /\ ~saving
    /\ soStep["tick"] \in {"enter", "publish"}
         => pwmOpmode = MOD_OFF /\ soMode["tick"] # MOD_OFF
    /\ soStep["tick"] \notin {"enter", "publish"} => pwmOpmode # MOD_OFF

TaskAloneInv ==
  /\ hwRev # "PRIUS"
  /\ soStep["terminal"] = "return"

LockInv == AtRestInv /\ StoppingInv /\ StartingInv /\ TaskAloneInv

LEMMA LockInvInit ==
  ASSUME "PRIUS" \notin HwRevs, Init
  PROVE  LockInv
BY DelayAssumption
DEF Init, Threads, LockInv, AtRestInv, StoppingInv, StartingInv, TaskAloneInv

\* Off the Prius the interlock step never calls SetOpmode.
LEMMA InterlockQuiet ==
  ASSUME TaskAloneInv, TickInterlock
  PROVE  UNCHANGED setop
BY DEF TaskAloneInv, TickInterlock, PriusPrerun

\* SetOpmode, called by the task, keeps the relation.
LEMMA SetOpmodeLock ==
  ASSUME TypeOK, LockInv, SetOpmode("tick")
  PROVE  LockInv'
<1> USE DEF LockInv, AtRestInv, StoppingInv, StartingInv, TaskAloneInv
<1>0. "tick" \in Threads
  BY DEF Threads
<1>1. soStep["tick"] # "return" /\ UNCHANGED <<pc, initWait, saving, hwRev>>
  BY <1>0, SetOpmodeFrame DEF commands, params
<1>2. pc = "off_tail" \/ pc = "start_tail"
  BY <1>1 DEF TypeOK, TaskOK, TickSteps
<1>3. soStep'["terminal"] = "return"
  BY <1>0, SetOpmodeThread DEF Threads
<1>4. CASE SetOpmodeEnter("tick")
  <2>1. soStep["tick"] = "enter" /\ pwmOpmode' = pwmOpmode
    BY <1>4 DEF SetOpmodeEnter
  <2>2. \/ pwmOpmode = soMode["tick"] /\ soStep'["tick"] = "return"
        \/ soStep'["tick"] = "publish" /\ soMode'["tick"] = soMode["tick"]
    BY <1>0, <1>4, GoToThread DEF SetOpmodeEnter
  <2> QED
    BY <1>1, <1>2, <1>3, <2>1, <2>2
<1>5. CASE SetOpmodePublish("tick")
  <2>1. /\ soStep["tick"] = "publish"
        /\ soStep'["tick"] \in {"outputs", "untrip"}
        /\ pwmOpmode' = soMode["tick"]
    BY <1>0, <1>5, GoToThread DEF SetOpmodePublish
  <2> QED
    BY <1>1, <1>2, <1>3, <2>1
<1>6. CASE ~SetOpmodeEnter("tick") /\ ~SetOpmodePublish("tick")
  BY <1>0, <1>1, <1>2, <1>3, <1>6, PublishedSteps
<1> QED
  BY <1>4, <1>5, <1>6

\* So does every other step of the task.
LEMMA TaskLock ==
  ASSUME TypeOK, LockInv,
         TickSense \/ TickInterlock \/ TickCommit \/ TickOff \/ TickOffDone
           \/ TickStart \/ TickStartDone \/ TickWait
  PROVE  LockInv'
<1> USE DEF LockInv, AtRestInv, StoppingInv, StartingInv, TaskAloneInv
<1>1. CASE TickSense
  BY <1>1 DEF TickSense, TickIdle, setop, params
<1>2. CASE TickInterlock
  BY <1>2, InterlockQuiet DEF TickInterlock, setop, params
<1>3. CASE TickCommit
  BY <1>3 DEF TickCommit, setop, params
<1>4. CASE TickOff
  <2>1. /\ soStep'["tick"] = "enter"
        /\ soMode'["tick"] = MOD_OFF
        /\ soStep'["terminal"] = "return"
    BY <1>4 DEF TickOff, EnterOff, CallSetOpmode, TypeOK, SetopOK, Threads
  <2>2. /\ pc' = "off_tail"
        /\ initWait' = InitDelay
        /\ UNCHANGED <<saving, pwmOpmode, hwRev>>
    BY <1>4 DEF TickOff, EnterOff, commands, params
  <2> QED
    BY <1>4, <2>1, <2>2 DEF TickOff
<1>5. CASE TickOffDone
  <2>1. initWait # -1
    BY <1>5, DelayAssumption DEF TickOffDone
  <2> QED
    BY <1>5, <2>1 DEF TickOffDone, TaskDone, setop, params
<1>6. CASE TickStart
  <2>1. /\ soStep'["tick"] = "enter"
        /\ soMode'["tick"] = localMode
        /\ soStep'["terminal"] = "return"
    BY <1>6 DEF TickStart, CallSetOpmode, TypeOK, SetopOK, Threads
  <2>2. /\ pc' = "start_tail"
        /\ saving' = FALSE
        /\ UNCHANGED <<pwmOpmode, hwRev>>
    BY <1>6 DEF TickStart, DisableSaving, params
  <2>3. pwmOpmode = MOD_OFF
    BY <1>6 DEF TickStart
  <2> QED
    BY <1>6, <2>1, <2>2, <2>3 DEF TickStart
<1>7. CASE TickStartDone
  BY <1>7 DEF TickStartDone, TaskDone, setop, params, commands
<1>8. CASE TickWait
  <2>1. initWait' = -1 <=> initWait = -1
    BY <1>8 DEF TickWait, CountDown, TypeOK, TaskOK
  <2>2. pc = "drive" /\ pc' = "idle" /\ UNCHANGED <<saving, pwmOpmode, hwRev, soStep>>
    BY <1>8 DEF TickWait, TaskDone, setop, params, commands
  <2> QED
    BY <2>1, <2>2
<1> QED
  BY <1>1, <1>2, <1>3, <1>4, <1>5, <1>6, <1>7, <1>8

\* Interrupts, commands and the other task touch none of it: the terminal's
\* start command does not exist in the FOC variant.
LEMMA EventLock ==
  ASSUME Control = "FOC", LockInv, Ms100Task \/ Break \/ PwmIsr \/ Command
  PROVE  LockInv'
<1>1. ~SetOpmode("terminal")
  BY SetOpmodeFrame DEF LockInv, TaskAloneInv, Threads
<1>2. UNCHANGED <<pc, initWait, saving, hwRev, pwmOpmode, setop>>
  BY <1>1
  DEF Ms100Task, Break, PwmIsr, Command, SdoStart, Stop, SetManualStart, TermStart,
      TermStartDone, TermDefaults, TermApplyDefaults, CommandFrame, params, commands
<1> QED
  BY <1>2 DEF LockInv, AtRestInv, StoppingInv, StartingInv, TaskAloneInv, setop

LEMMA LockInvStep ==
  ASSUME Control = "FOC", TypeOK, LockInv, [Next]_vars
  PROVE  LockInv'
<1>1. CASE Ms10Task
  BY <1>1, SetOpmodeLock, TaskLock DEF Ms10Task
<1>2. CASE Ms100Task \/ Break \/ PwmIsr \/ Command
  BY <1>2, EventLock
<1>3. CASE UNCHANGED vars
  BY <1>3
  DEF vars, setop, params, commands, LockInv, AtRestInv, StoppingInv,
      StartingInv, TaskAloneInv
<1> QED
  BY <1>1, <1>2, <1>3 DEF Next

\* FOC, any board but Prius: the invariant holds throughout, ...
THEOREM LockCorrect ==
  ASSUME Control = "FOC", "PRIUS" \notin HwRevs
  PROVE  Spec => [](TypeOK /\ LockInv)
<1>1. Init => TypeOK /\ LockInv
  BY InitTypeOK, LockInvInit
<1>2. (TypeOK /\ LockInv) /\ [Next]_vars => (TypeOK /\ LockInv)'
  BY TypeStep, LockInvStep
<1> QED
  BY <1>1, <1>2, PTL DEF Spec

\* ... so parameters are locked while PWM is in any mode but off, ...
THEOREM SaveGateCorrect ==
  ASSUME Control = "FOC", "PRIUS" \notin HwRevs
  PROVE  Spec => []SaveGate
<1>1. TypeOK /\ LockInv => SaveGate
  BY DEF LockInv, AtRestInv, StoppingInv, StartingInv, SaveGate, TypeOK,
         TaskOK, TickSteps
<1> QED
  BY <1>1, LockCorrect, PTL

\* ... PWM is off while, and only while, a start is still to come, ...
THEOREM DelayMeansOffCorrect ==
  ASSUME Control = "FOC", "PRIUS" \notin HwRevs
  PROVE  Spec => []DelayMeansOff
<1>1. TypeOK /\ LockInv => DelayMeansOff
  BY DEF LockInv, AtRestInv, DelayMeansOff, TickIdle, TypeOK, TaskOK
<1> QED
  BY <1>1, LockCorrect, PTL

\* ... and the current offsets are taken with PWM off.
THEOREM CalibrationCorrect ==
  ASSUME Control = "FOC", "PRIUS" \notin HwRevs
  PROVE  Spec => []CalibrationAtRest
<1>1. TypeOK /\ LockInv => CalibrationAtRest
  BY DelayAssumption DEF LockInv, AtRestInv, CalibrationAtRest, TakesOffsets
<1> QED
  BY <1>1, LockCorrect, PTL

-----------------------------------------------------------------------------
(* The state machine implements the abstract lock: step by step, a tick's  *)
(* moves map to Lock, Start, Stop and Unlock, everything else to a stutter. *)

LEMMA LockRefinesInit == Init => Lock!Init
BY DEF Init, Lock!Init

\* The steps that move the lock or the power stage, and what they need of the
\* invariant: starting and unlocking happen only from an idle power stage.
LEMMA LockRefinesStep ==
  ASSUME Control = "FOC", TypeOK, LockInv, [Next]_vars
  PROVE  [Lock!Next]_<<saving, pwmOpmode # MOD_OFF>>
<1> USE DEF LockInv, AtRestInv, StoppingInv, StartingInv, TaskAloneInv
<1>0. saving \in BOOLEAN
  BY DEF TypeOK, CommandsOK
<1>1. CASE TickStart
  <2>1. pwmOpmode = MOD_OFF /\ pwmOpmode' = pwmOpmode /\ saving' = FALSE
    BY <1>1 DEF TickStart, DisableSaving
  <2> QED
    BY <2>1 DEF Lock!Next, Lock!Lock
<1>2. CASE TickOffDone
  <2>1. pwmOpmode = MOD_OFF /\ pwmOpmode' = pwmOpmode /\ saving' = TRUE
    BY <1>2 DEF TickOffDone
  <2> QED
    BY <2>1 DEF Lock!Next, Lock!Unlock
<1>3. CASE SetOpmodePublish("tick")
  <2>1. saving' = saving /\ pwmOpmode' = soMode["tick"] /\ soStep["tick"] = "publish"
    BY <1>3 DEF SetOpmodePublish, commands
  <2>2. CASE pc = "off_tail"
    <3>1. pwmOpmode' = MOD_OFF
      BY <2>1, <2>2
    <3> QED
      BY <2>1, <3>1 DEF Lock!Next, Lock!Stop
  <2>3. CASE pc = "start_tail"
    <3>1. saving = FALSE /\ pwmOpmode = MOD_OFF /\ pwmOpmode' # MOD_OFF
      BY <1>0, <2>1, <2>3
    <3> QED
      BY <2>1, <3>1 DEF Lock!Next, Lock!Start
  <2>4. pc = "off_tail" \/ pc = "start_tail"
    BY <2>1 DEF TypeOK, TaskOK, TickSteps
  <2> QED
    BY <2>2, <2>3, <2>4
<1>4. CASE UNCHANGED <<saving, pwmOpmode>>
  BY <1>4
<1>5. CASE SetOpmode("tick") /\ ~SetOpmodePublish("tick")
  <2>1. saving' = saving
    BY <1>5, SetOpmodeFrame DEF Threads, commands
  <2>2. pwmOpmode' = pwmOpmode
    BY <1>5, PublishedSteps DEF SetOpmodeEnter, Threads
  <2> QED
    BY <1>4, <2>1, <2>2
<1>6. CASE TickSense \/ TickInterlock \/ TickCommit \/ TickOff \/ TickStartDone \/ TickWait
  BY <1>4, <1>6
  DEF TickSense, TickInterlock, TickCommit, TickOff, TickStartDone, TickWait, commands
<1>7. CASE Ms100Task \/ Break \/ PwmIsr \/ Command
  <2>1. ~SetOpmode("terminal")
    BY SetOpmodeFrame DEF Threads
  <2>2. UNCHANGED <<saving, pwmOpmode>>
    BY <1>7, <2>1
    DEF Ms100Task, Break, PwmIsr, Command, SdoStart, Stop, SetManualStart,
        TermStart, TermStartDone, TermDefaults, TermApplyDefaults, CommandFrame,
        commands
  <2> QED
    BY <1>4, <2>2
<1> QED
  BY <1>1, <1>2, <1>3, <1>4, <1>5, <1>6, <1>7 DEF Next, Ms10Task, vars, commands

\* FOC, boards without prerun: every step of the state machine is one of the parameter
\* lock or none: saving is locked before PWM starts and unlocked only after it stopped.
THEOREM LockRefinement ==
  ASSUME Control = "FOC", "PRIUS" \notin HwRevs
  PROVE  Spec => KeepsParameterLock
<1>1. Init => Lock!Init
  BY LockRefinesInit
<1>2. (TypeOK /\ LockInv) /\ [Next]_vars
        => [Lock!Next]_<<saving, pwmOpmode # MOD_OFF>>
  BY LockRefinesStep
<1> QED
  BY <1>1, <1>2, LockCorrect, PTL DEF Spec, KeepsParameterLock, Lock!Spec

-----------------------------------------------------------------------------
(* The calls of SetOpmode, in every variant and on every board: a thread    *)
(* steps through at most one call at a time, and nothing else does.        *)

\* Commands leave power stage, outputs and task alone, except for the terminal's
\* SetOpmode.
LEMMA CommandLeaves ==
  ASSUME Command, ~SetOpmode("terminal")
  PROVE  /\ TickIdle
         /\ UNCHANGED <<hwRev, saving, outputs, pwmOpmode, tripped, timer, foc,
                        pc, initWait, sampled>>
         /\ TermStart \/ UNCHANGED setop
         /\ opmode' \in StartModes \cup {MOD_OFF, opmode}
BY DEF Command, SdoStart, Stop, SetManualStart, TermStart, TermStartDone,
       TermDefaults, TermApplyDefaults, CommandFrame, commands, params

\* The interrupts leave the calls and the task alone, and of the outputs touch
\* only the error output.
LEMMA InterruptLeaves ==
  ASSUME Break \/ PwmIsr \/ Ms100Task
  PROVE  /\ UNCHANGED <<params, saving, dcsw, pwmOpmode, oc, setop, pc, initWait,
                        sampled, term>>
         /\ opmode' \in {MOD_OFF, opmode}
         /\ tripped => tripped'
BY DEF Break, BreakHandler, PwmIsr, Ms100Task, timer, params, commands, outputs

\* The steps of the task that call SetOpmode, and what the others leave alone.
LEMMA TaskLeaves ==
  ASSUME Ms10Task
  PROVE  \/ SetOpmode("tick")
         \/ TickInterlock
         \/ TickOff
         \/ TickStart
         \/ /\ TickSense \/ TickCommit \/ TickOffDone \/ TickStartDone \/ TickWait
            /\ UNCHANGED <<pwmOpmode, tripped, timer, setop, term>>
BY DEF Ms10Task, TickSense, TickCommit, TickOffDone, TickStartDone, TickWait, timer

\* The task calls SetOpmode only once its last call has returned, and so does
\* the terminal.
OneCallInv ==
  /\ pc \in {"idle", "interlock", "drive"} => soStep["tick"] = "return"
  /\ term # "start" => soStep["terminal"] = "return"

LEMMA OneCallInit == Init => OneCallInv
BY DEF Init, OneCallInv, Threads

LEMMA OneCallStep ==
  ASSUME TypeOK, OneCallInv, [Next]_vars
  PROVE  OneCallInv'
<1> USE DEF OneCallInv
<1>1. CASE SetOpmode("tick")
  <2>1. /\ soStep["tick"] # "return"
        /\ pc' = pc
        /\ term' = term
        /\ soStep'["terminal"] = soStep["terminal"]
    BY <1>1, SetOpmodeFrame, SetOpmodeThread DEF Threads
  <2> QED
    BY <2>1
<1>2. CASE SetOpmode("terminal")
  <2>1. /\ soStep["terminal"] # "return"
        /\ pc' = pc
        /\ term' = term
        /\ soStep'["tick"] = soStep["tick"]
    BY <1>2, SetOpmodeFrame, SetOpmodeThread DEF Threads
  <2> QED
    BY <2>1
<1>3. CASE TickInterlock
  <2>1. /\ pc' = "commit"
        /\ term' = term
    BY <1>3 DEF TickInterlock
  <2>2. setop' = setop \/ CallSetOpmode("tick", newMode')
    BY <1>3 DEF TickInterlock
  <2>3. soStep'["terminal"] = soStep["terminal"]
    BY <2>2, CallThread DEF setop, Threads
  <2> QED
    BY <2>1, <2>3
<1>4. CASE TickOff \/ TickStart
  <2>1. pc' \in {"off_tail", "start_tail"} /\ term' = term
    BY <1>4 DEF TickOff, TickStart
  <2>2. soStep'["terminal"] = soStep["terminal"]
    BY <1>4, CallThread DEF TickOff, EnterOff, TickStart, Threads
  <2> QED
    BY <2>1, <2>2
<1>5. CASE /\ TickSense \/ TickCommit \/ TickOffDone \/ TickStartDone \/ TickWait
           /\ UNCHANGED <<pwmOpmode, tripped, timer, setop, term>>
  <2>1. pc = "idle" \/ pc = "drive" \/ soStep["tick"] = "return"
    BY <1>5 DEF TickSense, TickIdle, TickCommit, TickOffDone, TickStartDone, TickWait
  <2> QED
    BY <1>5, <2>1 DEF setop
<1>6. CASE Break \/ PwmIsr \/ Ms100Task
  BY <1>6, InterruptLeaves DEF setop
<1>7. CASE TermStart
  <2>1. pc' = pc /\ term' = "start"
    BY <1>7 DEF TermStart, CommandFrame
  <2>2. soStep'["tick"] = soStep["tick"]
    BY <1>7, CallThread DEF TermStart, Threads
  <2> QED
    BY <2>1, <2>2
<1>8. CASE TermStartDone
  BY <1>8 DEF TermStartDone, CommandFrame, setop
<1>9. CASE SdoStart \/ Stop \/ SetManualStart \/ TermDefaults \/ TermApplyDefaults
  <2>1. UNCHANGED <<pc, setop>> /\ (term = "start" <=> term' = "start")
    BY <1>9 DEF SdoStart, Stop, SetManualStart, TermDefaults, TermApplyDefaults,
                CommandFrame
  <2> QED
    BY <2>1 DEF setop
<1>10. CASE UNCHANGED vars
  BY <1>10 DEF vars, setop
<1> QED
  BY <1>1, <1>2, <1>3, <1>4, <1>5, <1>6, <1>7, <1>8, <1>9, <1>10, TaskLeaves
  DEF Next, Command

\* Types, and that a thread is within SetOpmode only while its own code has called
\* it: the task behind its commit, the terminal in its start command.
THEOREM OneCallCorrect == Spec => [](TypeOK /\ OneCallInv)
<1>1. Init => TypeOK /\ OneCallInv
  BY InitTypeOK, OneCallInit
<1>2. (TypeOK /\ OneCallInv) /\ [Next]_vars => (TypeOK /\ OneCallInv)'
  BY TypeStep, OneCallStep
<1> QED
  BY <1>1, <1>2, PTL DEF Spec

\* Every call of SetOpmode is begun by one of four steps, when the thread has no
\* call under way.
LEMMA CallsBegin ==
  ASSUME OneCallInv, [Next]_vars
  PROVE  \/ \E t \in Threads : SetOpmode(t)
         \/ /\ UNCHANGED <<pwmOpmode, oc>>
            /\ bie' # bie \/ tripped' # tripped => Break
            /\ \/ UNCHANGED setop
               \/ \E t \in Threads :
                    soStep[t] = "return" /\ \E mode : CallSetOpmode(t, mode)
<1>1. CASE SetOpmode("tick") \/ SetOpmode("terminal")
  BY <1>1 DEF Threads
<1>2. CASE TickInterlock \/ TickOff \/ TickStart
  <2>1. soStep["tick"] = "return"
    BY <1>2 DEF OneCallInv, TickInterlock, TickOff, TickStart
  <2>2. UNCHANGED setop \/ \E mode : CallSetOpmode("tick", mode)
    BY <1>2 DEF TickInterlock, TickOff, EnterOff, TickStart
  <2>3. UNCHANGED <<pwmOpmode, tripped, timer>>
    BY <1>2 DEF TickInterlock, TickOff, TickStart
  <2> QED
    BY <2>1, <2>2, <2>3 DEF Threads, timer
<1>3. CASE TermStart
  <2>1. soStep["terminal"] = "return"
    BY <1>3 DEF OneCallInv, TermStart
  <2>2. \E mode : CallSetOpmode("terminal", mode)
    BY <1>3 DEF TermStart
  <2>3. UNCHANGED <<pwmOpmode, tripped, timer>>
    BY <1>3 DEF TermStart, CommandFrame
  <2> QED
    BY <2>1, <2>2, <2>3 DEF Threads, timer
<1>4. CASE /\ TickSense \/ TickCommit \/ TickOffDone \/ TickStartDone \/ TickWait
           /\ UNCHANGED <<pwmOpmode, tripped, timer, setop, term>>
  BY <1>4 DEF timer
<1>5. CASE Command /\ ~SetOpmode("terminal") /\ ~TermStart
  BY <1>5, CommandLeaves DEF timer
<1>6. CASE Break
  BY <1>6, InterruptLeaves
<1>7. CASE PwmIsr \/ Ms100Task
  BY <1>7 DEF PwmIsr, Ms100Task, timer, setop
<1>8. CASE UNCHANGED vars
  BY <1>8 DEF vars, timer
<1> QED
  BY <1>1, <1>2, <1>3, <1>4, <1>5, <1>6, <1>7, <1>8, TaskLeaves DEF Next

-----------------------------------------------------------------------------
(* The break interrupt of a running inverter: the terminal may fall asleep  *)
(* anywhere in its SetOpmode and the task run several of its own meanwhile. *)

\* A call that runs the inverter and cleared the trip has still to arm the break
\* interrupt, or has done so since the last trip.
BreakInv ==
  pwmOpmode # MOD_OFF /\ ~tripped /\ ~bie =>
    \E t \in Threads : soStep[t] \in {"untrip", "timer", "arm"}

LEMMA BreakInvStep ==
  ASSUME TypeOK, OneCallInv, BreakInv, [Next]_vars
  PROVE  BreakInv'
<1>1. CASE UNCHANGED <<pwmOpmode, tripped, bie, setop>>
  BY <1>1 DEF BreakInv, setop
<1>2. CASE Break
  <2>1. UNCHANGED <<pwmOpmode, setop>>
    BY <1>2, InterruptLeaves
  <2>2. tripped' \/ UNCHANGED <<tripped, bie>>
    BY <1>2 DEF Break, BreakHandler
  <2> QED
    BY <2>1, <2>2 DEF BreakInv, setop
<1>3. ASSUME UNCHANGED <<pwmOpmode, tripped, bie>>,
             NEW t \in Threads, NEW mode, soStep[t] = "return", CallSetOpmode(t, mode)
      PROVE  BreakInv'
  <2>1. \A u \in Threads \ {t} : soStep'[u] = soStep[u]
    BY <1>3, CallThread
  <2> QED
    BY <1>3, <2>1 DEF BreakInv
<1>4. ASSUME NEW t \in Threads, SetOpmodeEnter(t) \/ SetOpmodeInit(t)
      PROVE  BreakInv'
  <2>1. /\ UNCHANGED <<pwmOpmode, tripped, bie>>
        /\ \A u \in Threads \ {t} : soStep'[u] = soStep[u]
        /\ soStep[t] \notin {"untrip", "timer", "arm"}
    BY <1>4, GoToThread DEF SetOpmodeEnter, SetOpmodeInit, timer
  <2> QED
    BY <2>1 DEF BreakInv
<1>5. ASSUME NEW t \in Threads, SetOpmodePublish(t)
      PROVE  BreakInv'
  <2>1. CASE soMode[t] # MOD_OFF
    <3>1. soStep'[t] = "untrip"
      BY <1>5, <2>1, GoToThread DEF SetOpmodePublish
    <3> QED
      BY <3>1 DEF BreakInv
  <2>2. CASE soMode[t] = MOD_OFF
    BY <1>5, <2>2 DEF SetOpmodePublish, BreakInv
  <2> QED
    BY <2>1, <2>2
<1>6. ASSUME NEW t \in Threads, SetOpmodeUntrip(t) \/ SetOpmodeTimer(t)
      PROVE  BreakInv'
  <2>1. soStep'[t] \in {"timer", "arm"}
    BY <1>6, GoToThread DEF SetOpmodeUntrip, SetOpmodeTimer
  <2> QED
    BY <2>1 DEF BreakInv
<1>7. ASSUME NEW t \in Threads, SetOpmodeArm(t)
      PROVE  BreakInv'
  BY <1>7 DEF SetOpmodeArm, ArmTimer, BreakInv
<1>8. CASE SetOpmodeOutputs
  <2>1. /\ UNCHANGED <<pwmOpmode, tripped, bie>>
        /\ \A u \in Threads \ {"tick"} : soStep'[u] = soStep[u]
        /\ soStep["tick"] \notin {"untrip", "timer", "arm"}
    BY <1>8, GoToThread DEF SetOpmodeOutputs, Threads
  <2> QED
    BY <2>1 DEF BreakInv
<1>9. CASE TermOutputs
  <2>1. /\ UNCHANGED <<pwmOpmode, tripped, bie>>
        /\ soStep'["tick"] = soStep["tick"]
        /\ soStep["terminal"] \notin {"untrip", "timer", "arm"}
    BY <1>9, TermOutputsThread
  <2> QED
    BY <2>1 DEF BreakInv, Threads
<1> QED
  BY <1>1, <1>2, <1>3, <1>4, <1>5, <1>6, <1>7, <1>8, <1>9, CallsBegin DEF SetOpmode

\* Whatever order trips, stops and restarts come in and whichever thread restarts
\* the inverter: once no call is under way, an inverter that runs untripped has
\* its break interrupt armed.
THEOREM BreakArmedCorrect == Spec => []BreakArmed
<1>1. Init => BreakInv
  BY DEF Init, BreakInv
<1>2. TypeOK /\ OneCallInv /\ BreakInv /\ [Next]_vars => BreakInv'
  BY BreakInvStep
<1>3. BreakInv => BreakArmed
  BY DEF BreakInv, BreakArmed, Quiet
<1> QED
  BY <1>1, <1>2, <1>3, OneCallCorrect, PTL DEF Spec

-----------------------------------------------------------------------------
(* No mode outlives the contactor, where only inputs start the inverter.   *)

\* And a tick whose copy of opmode says off, so that it is about to open the
\* contactor, goes with an opmode that is off: interrupts only ever force it off.
ContactorInv ==
  /\ opmode # MOD_OFF => dcsw
  /\ pc \in {"interlock", "commit", "drive"} /\ localMode = MOD_OFF
       => opmode = MOD_OFF

LEMMA ContactorStep ==
  ASSUME StartModes \subseteq {MOD_OFF}, TypeOK, ContactorInv, [Next]_vars
  PROVE  ContactorInv'
<1> USE DEF ContactorInv
<1>1. CASE SetOpmode("tick") \/ SetOpmode("terminal")
  <2>1. UNCHANGED <<opmode, dcsw, pc, localMode>>
    BY <1>1, SetOpmodeFrame DEF Threads, commands, outputs, sampled
  <2> QED
    BY <2>1
<1>2. CASE TickSense
  <2>1. PICK udc \in BusVoltages, slow, late \in BOOLEAN : ProcessUdc(udc, slow, late)
    BY <1>2 DEF TickSense
  <2>2. pc' = "interlock" /\ localMode' = opmode
    BY <1>2 DEF TickSense
  <2> QED
    BY <2>1, <2>2 DEF ProcessUdc
<1>3. CASE TickInterlock
  <2>1. pc = "interlock" /\ pc' = "commit" /\ UNCHANGED <<opmode, dcsw, localMode>>
    BY <1>3 DEF TickInterlock, outputs
  <2> QED
    BY <2>1
<1>4. CASE TickCommit
  <2> DEFINE mode == IF newMode # MOD_OFF THEN newMode ELSE localMode
  <2>1. /\ pc = "commit"
        /\ pc' = "drive"
        /\ localMode' = IF BmsStops(mode) THEN MOD_OFF ELSE mode
        /\ opmode' = IF BmsStops(mode) THEN MOD_OFF
                     ELSE IF newMode # MOD_OFF THEN newMode ELSE opmode
        /\ dcsw' = (dcsw \/ newMode # MOD_OFF)
    BY <1>4 DEF TickCommit, CloseContactor
  <2>2. CASE BmsStops(mode)
    BY <2>1, <2>2
  <2>3. CASE ~BmsStops(mode) /\ newMode # MOD_OFF
    BY <2>1, <2>3
  <2>4. CASE ~BmsStops(mode) /\ newMode = MOD_OFF
    BY <2>1, <2>4
  <2> QED
    BY <2>2, <2>3, <2>4
<1>5. CASE TickOff
  <2>1. opmode = MOD_OFF /\ opmode' = opmode /\ pc' = "off_tail"
    BY <1>5 DEF TickOff, commands
  <2> QED
    BY <2>1
<1>6. CASE TickOffDone \/ TickStart \/ TickStartDone \/ TickWait
  <2>1. UNCHANGED <<opmode, dcsw>> /\ pc' \in {"idle", "start_tail"}
    BY <1>6 DEF TickOffDone, TickStart, TickStartDone, TickWait, TaskDone,
                commands, outputs
  <2> QED
    BY <2>1
<1>7. CASE Break \/ PwmIsr \/ Ms100Task
  <2>1. opmode' \in {MOD_OFF, opmode} /\ UNCHANGED <<dcsw, pc, localMode>>
    BY <1>7, InterruptLeaves DEF sampled
  <2> QED
    BY <2>1
<1>8. CASE Command /\ ~SetOpmode("terminal")
  <2>1. opmode' \in {MOD_OFF, opmode} /\ UNCHANGED <<dcsw, pc, localMode>>
    BY <1>8, CommandLeaves DEF outputs, sampled
  <2> QED
    BY <2>1
<1>9. CASE UNCHANGED vars
  BY <1>9 DEF vars, commands, outputs, sampled
<1> QED
  BY <1>1, <1>2, <1>3, <1>4, <1>5, <1>6, <1>7, <1>8, <1>9 DEF Next, Ms10Task

\* In every variant, on every board and in every trip mode, as long as START commands
\* no mode: the contactor is closed for as long as a mode stands, whether
\* overvoltage, a stop, the BMS or a trip ends it.
THEOREM ContactorOutlastsMode ==
  ASSUME StartModes \subseteq {MOD_OFF}
  PROVE  Spec => []RunsOnClosedContactor
<1>1. Init => ContactorInv
  BY DEF Init, ContactorInv
<1>2. TypeOK /\ ContactorInv /\ [Next]_vars => ContactorInv'
  BY ContactorStep
<1>3. ContactorInv => RunsOnClosedContactor
  BY DEF ContactorInv, RunsOnClosedContactor
<1> QED
  BY <1>1, <1>2, <1>3, TypeCorrect, PTL DEF Spec

-----------------------------------------------------------------------------
(* The channels of the FOC variant, on every board: the task alone calls   *)
(* SetOpmode, so what the final switch reads again is what the call was    *)
(* given.                                                                  *)

ChannelsInv ==
  /\ soStep["terminal"] = "return"
  /\ soStep["tick"] \in {"return", "enter", "publish"} => oc = ChannelsOf(pwmOpmode)
  /\ soStep["tick"] \notin {"return", "enter", "publish"}
       => pwmOpmode = soMode["tick"]
  /\ soStep["tick"] \in {"untrip", "timer", "arm", "init"} => soMode["tick"] # MOD_OFF
  /\ soStep["tick"] \in {"arm", "init"} => oc = {}
  /\ soStep["tick"] = "outputs" /\ soMode["tick"] # MOD_OFF => oc = {}

\* The final switch enables the channels of its mode: a motor mode, which disables
\* none, finds them all disabled by the timer's reset.
LEMMA SwitchOutputsChannels ==
  ASSUME NEW mode, SwitchOutputs(mode), mode # MOD_OFF => oc = {}
  PROVE  oc' = ChannelsOf(mode)
BY DEF SwitchOutputs, ChannelsOf, MotorModes

\* What a mode enables depends on the mode and the board, which is fixed.
LEMMA BoardFixed ==
  ASSUME [Next]_vars
  PROVE  hwRev' = hwRev
<1>1. CASE SetOpmode("tick") \/ SetOpmode("terminal")
  BY <1>1, SetOpmodeFrame DEF Threads, params
<1>2. CASE Command /\ ~SetOpmode("terminal")
  BY <1>2, CommandLeaves
<1>3. CASE Break \/ PwmIsr \/ Ms100Task
  BY <1>3, InterruptLeaves DEF params
<1>4. CASE TickSense \/ TickInterlock \/ TickCommit \/ TickOff \/ TickOffDone
             \/ TickStart \/ TickStartDone \/ TickWait \/ UNCHANGED vars
  BY <1>4 DEF TickSense, TickInterlock, TickCommit, TickOff, TickOffDone, TickStart,
              TickStartDone, TickWait, vars, params
<1> QED
  BY <1>1, <1>2, <1>3, <1>4 DEF Next, Ms10Task

LEMMA ChannelsStep ==
  ASSUME Control = "FOC", TypeOK, OneCallInv, ChannelsInv, [Next]_vars
  PROVE  ChannelsInv'
<1> USE DEF ChannelsInv
<1>1. ~SetOpmode("terminal") /\ ~TermStart
  BY SetOpmodeFrame DEF TermStart, Threads
<1>2. CASE UNCHANGED <<pwmOpmode, oc, setop>>
  <2>1. ChannelsOf(pwmOpmode)' = ChannelsOf(pwmOpmode)
    BY <1>2, BoardFixed DEF ChannelsOf, Elements, ToEnable, AllChannels, MotorModes
  <2> QED
    BY <1>2, <2>1 DEF setop
<1>3. ASSUME UNCHANGED <<pwmOpmode, oc>>,
             NEW mode, soStep["tick"] = "return", CallSetOpmode("tick", mode)
      PROVE  ChannelsInv'
  <2>1. soStep'["tick"] = "enter" /\ soStep'["terminal"] = "return"
    BY <1>3, CallThread DEF Threads
  <2>2. ChannelsOf(pwmOpmode)' = ChannelsOf(pwmOpmode)
    BY <1>3, BoardFixed DEF ChannelsOf, Elements, ToEnable, AllChannels, MotorModes
  <2> QED
    BY <1>3, <2>1, <2>2
<1>4. CASE SetOpmode("tick")
  <2>0. "tick" \in Threads
    BY DEF Threads
  <2>1. soStep'["terminal"] = "return"
    BY <1>4, SetOpmodeThread DEF Threads
  <2>2. CASE SetOpmodeEnter("tick")
    <3>1. /\ soStep["tick"] = "enter"
          /\ soStep'["tick"] \in {"return", "publish"}
          /\ UNCHANGED <<pwmOpmode, oc>>
      BY <2>0, <2>2, GoToThread DEF SetOpmodeEnter, timer
    <3>2. ChannelsOf(pwmOpmode)' = ChannelsOf(pwmOpmode)
      BY <3>1, BoardFixed DEF ChannelsOf, Elements, ToEnable, AllChannels, MotorModes
    <3> QED
      BY <2>1, <3>1, <3>2
  <2>3. CASE SetOpmodePublish("tick")
    <3>1. /\ soStep'["tick"] = IF soMode["tick"] = MOD_OFF THEN "outputs" ELSE "untrip"
          /\ soMode'["tick"] = soMode["tick"]
          /\ pwmOpmode' = soMode["tick"]
      BY <2>0, <2>3, GoToThread DEF SetOpmodePublish
    <3> QED
      BY <2>1, <3>1
  <2>4. CASE SetOpmodeUntrip("tick")
    <3>1. /\ soStep["tick"] = "untrip" /\ soStep'["tick"] = "timer"
          /\ soMode'["tick"] = soMode["tick"]
          /\ pwmOpmode' = pwmOpmode
      BY <2>0, <2>4, GoToThread DEF SetOpmodeUntrip
    <3> QED
      BY <2>1, <3>1
  <2>5. CASE SetOpmodeTimer("tick")
    <3>1. /\ soStep["tick"] = "timer" /\ soStep'["tick"] = "arm"
          /\ soMode'["tick"] = soMode["tick"]
          /\ pwmOpmode' = pwmOpmode
          /\ oc' = {}
      BY <2>0, <2>5, GoToThread DEF SetOpmodeTimer, ResetTimer
    <3> QED
      BY <2>1, <3>1
  <2>6. CASE SetOpmodeArm("tick") \/ SetOpmodeInit("tick")
    <3>1. /\ soStep["tick"] \in {"arm", "init"}
          /\ soStep'["tick"] \in {"init", "outputs"}
          /\ soMode'["tick"] = soMode["tick"]
          /\ UNCHANGED <<pwmOpmode, oc>>
      BY <2>0, <2>6, GoToThread DEF SetOpmodeArm, SetOpmodeInit, timer
    <3> QED
      BY <2>1, <3>1
  <2>7. CASE SetOpmodeOutputs
    <3>1. soStep["tick"] = "outputs" /\ pwmOpmode = soMode["tick"]
      BY <2>7 DEF SetOpmodeOutputs
    <3>2. SwitchOutputs(pwmOpmode) /\ pwmOpmode' = pwmOpmode
      BY <2>7, <3>1 DEF SetOpmodeOutputs, ReadMode
    <3>3. oc' = ChannelsOf(pwmOpmode)
      BY <3>1, <3>2, SwitchOutputsChannels
    <3>4. soStep'["tick"] = "return"
      BY <2>0, <2>7, GoToThread DEF SetOpmodeOutputs
    <3>5. ChannelsOf(pwmOpmode)' = ChannelsOf(pwmOpmode)
      BY <3>2, BoardFixed DEF ChannelsOf, Elements, ToEnable, AllChannels, MotorModes
    <3> QED
      BY <2>1, <3>3, <3>4, <3>5
  <2> QED
    BY <1>4, <2>2, <2>3, <2>4, <2>5, <2>6, <2>7 DEF SetOpmode
<1>5. CASE TickInterlock \/ TickOff \/ TickStart
  <2>1. soStep["tick"] = "return"
    BY <1>5 DEF OneCallInv, TickInterlock, TickOff, TickStart
  <2>2. UNCHANGED setop \/ \E mode : CallSetOpmode("tick", mode)
    BY <1>5 DEF TickInterlock, TickOff, EnterOff, TickStart
  <2>3. UNCHANGED <<pwmOpmode, oc>>
    BY <1>5 DEF TickInterlock, TickOff, TickStart, timer
  <2> QED
    BY <1>2, <1>3, <2>1, <2>2, <2>3
<1>6. CASE /\ TickSense \/ TickCommit \/ TickOffDone \/ TickStartDone \/ TickWait
           /\ UNCHANGED <<pwmOpmode, tripped, timer, setop, term>>
  BY <1>2, <1>6 DEF timer
<1>7. CASE Command
  BY <1>1, <1>2, <1>7, CommandLeaves DEF timer
<1>8. CASE Break \/ PwmIsr \/ Ms100Task
  BY <1>2, <1>8, InterruptLeaves
<1>9. CASE UNCHANGED vars
  BY <1>2, <1>9 DEF vars, timer
<1> QED
  BY <1>4, <1>5, <1>6, <1>7, <1>8, <1>9, TaskLeaves DEF Next

\* FOC, every board: whatever starts, stops and trips came in, between calls the
\* enabled channels are those of the mode PWM is in.
THEOREM ChannelsMatchCorrect ==
  ASSUME Control = "FOC"
  PROVE  Spec => []ChannelsMatchMode
<1>1. Init => ChannelsInv
  BY DEF Init, ChannelsInv, ChannelsOf, Elements, ToEnable, MotorModes, Threads
<1>2. TypeOK /\ OneCallInv /\ ChannelsInv /\ [Next]_vars => ChannelsInv'
  BY ChannelsStep
<1>3. ChannelsInv => ChannelsMatchMode
  BY DEF ChannelsInv, ChannelsMatchMode, Quiet, Threads
<1> QED
  BY <1>1, <1>2, <1>3, OneCallCorrect, PTL DEF Spec
=============================================================================
