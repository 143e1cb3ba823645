------------------------------ MODULE Inverter ------------------------------
(***************************************************************************)
(* The run/stop state machine of the firmware: the 10 ms task that decides *)
(* the operating mode and drives contactors and PWM, the break interrupt   *)
(* that trips it, the PWM interrupt that switches the main output, and the *)
(* command channels (SDO, serial terminal) that write Param::opmode.       *)
(*                                                                         *)
(* Interrupt priorities (hwinit.cpp, nvic_setup) decide what interleaves:  *)
(* the break and PWM interrupts preempt everything, the scheduler's tasks  *)
(* preempt CAN reception and the terminal and never one another. Ms10Task  *)
(* is therefore cut into steps between which only the two interrupts act;  *)
(* CAN and terminal commands run while no task is running; a terminal      *)
(* command is itself cut into steps the tasks may fall between, down to    *)
(* the loads and stores of a register that a task writes too.              *)
(*                                                                         *)
(* A definition named X_Y stands before X and is X with a plausible bug:   *)
(* PROJECT.json says which property must fail when it takes X's place.     *)
(***************************************************************************)
EXTENDS Integers, Sequences

CONSTANTS
  Control,      \* the firmware variant, "SINE" or "FOC" (a compile-time switch)
  HwRevs,       \* board revisions io_setup may detect
  TripModes,    \* values of parameter tripmode
  ChargeModes,  \* values of parameter chargemode
  StartModes,   \* operating modes a START command asks for
  DinSignals,   \* digital inputs wired up: "start", "charge" (fwd+rev), "bms"
  InitDelay,    \* ticks between the off verdict and a start (50)
  CalAt,        \* tick of that delay at which current offsets are taken (10)
  PwmInitWait   \* PWM cycles the FOC variant keeps its output off (pwmfrq / 2)

MOD_OFF == 0
MOD_RUN == 1
MOD_MANUAL == 2
MOD_BOOST == 3
MOD_BUCK == 4
MOD_SINE == 5
MOD_ACHEAT == 6
Modes == MOD_OFF .. MOD_ACHEAT

TRIP_ALLOFF == 0
TRIP_DCSWON == 1
TRIP_PRECHARGEON == 2
TRIP_AUTORESUME == 3

\* Boards this module tells apart; REV2 stands for the revisions no condition
\* here names.
KnownHwRevs == {"REV2", "REV3", "TESLA", "PRIUS", "ZOE"}

ASSUME ControlAssumption == Control \in {"SINE", "FOC"}
ASSUME HwRevAssumption == HwRevs \subseteq KnownHwRevs
ASSUME ParamAssumption ==
  /\ TripModes \subseteq TRIP_ALLOFF .. TRIP_AUTORESUME
  /\ ChargeModes \subseteq 0 .. 4
  /\ StartModes \subseteq Modes
  /\ DinSignals \subseteq {"start", "charge", "bms"}
ASSUME DelayAssumption ==
  /\ InitDelay \in Nat
  /\ CalAt \in Nat
  /\ 0 < CalAt
  /\ CalAt <= InitDelay
  /\ PwmInitWait \in Nat

\* The two contexts that call PwmGeneration::SetOpmode.
Threads == {"tick", "terminal"}

VARIABLES
  hwRev, tripmode,                     \* board revision, parameter tripmode
  opmode, manualstart, seenBrakePedal, \* Param::opmode, Param::manualstart
  saving,                              \* saveEnabled of terminal and SDO
  dcsw, prec, err,                     \* contactor, precharge, error outputs
  pwmOpmode, tripped,                  \* PwmGeneration::opmode, ::tripped
  uie, bie, moe, oc,                   \* timer: interrupt enables, main output, channels
  isIdle, focInitwait,                 \* FOC: standstill flag, initwait
  soStep, soMode,                      \* progress and mode of SetOpmode, per thread
  todo, copy, held,                    \*   the terminal's channels still to write, the
                                       \*   register it loaded, and whether it has
  pc, initWait, localMode, newMode,    \* Ms10Task: place and local variables
  din, blocked,                        \*   inputs sampled this tick
  term                                 \* command the terminal is working on

params == <<hwRev, tripmode>>
commands == <<opmode, manualstart, seenBrakePedal, saving>>
outputs == <<dcsw, prec, err>>
timer == <<uie, bie, moe, oc>>
foc == <<isIdle, focInitwait>>
writes == <<todo, copy, held>>
setop == <<soStep, soMode, writes>>
sampled == <<localMode, newMode, din, blocked>>
vars == <<params, commands, outputs, pwmOpmode, tripped, timer, foc, setop,
          pc, initWait, sampled, term>>

TickSteps == {"idle", "interlock", "commit", "drive", "off_tail", "start_tail"}
SetOpmodeSteps == {"return", "enter", "publish", "untrip", "timer", "arm", "init",
                   "outputs", "disable", "enable"}

\* The outputs of the timer: three phases and their complements.
Channels == {"1", "2", "3", "1N", "2N", "3N"}

ParamsOK ==
  /\ hwRev \in KnownHwRevs
  /\ tripmode \in TRIP_ALLOFF .. TRIP_AUTORESUME

CommandsOK ==
  /\ opmode \in Modes
  /\ {manualstart, seenBrakePedal, saving} \subseteq BOOLEAN

OutputsOK == {dcsw, prec, err} \subseteq BOOLEAN

PwmOK ==
  /\ pwmOpmode \in Modes
  /\ tripped \in BOOLEAN

TimerOK ==
  /\ {uie, bie, moe} \subseteq BOOLEAN
  /\ oc \subseteq Channels

FocOK ==
  /\ isIdle \in BOOLEAN
  /\ focInitwait \in 0 .. PwmInitWait

SetopOK ==
  /\ soStep \in [Threads -> SetOpmodeSteps]
  /\ soMode \in [Threads -> Modes]

WritesOK ==
  /\ todo \in Seq(Channels)
  /\ copy \subseteq Channels
  /\ held \in BOOLEAN

TaskOK ==
  /\ pc \in TickSteps
  /\ initWait \in -1 .. InitDelay

SampledOK ==
  /\ localMode \in Modes
  /\ newMode \in Modes
  /\ din \in SUBSET DinSignals
  /\ blocked \in BOOLEAN

TypeOK ==
  /\ ParamsOK
  /\ CommandsOK
  /\ OutputsOK
  /\ PwmOK
  /\ TimerOK
  /\ FocOK
  /\ SetopOK
  /\ WritesOK
  /\ TaskOK
  /\ SampledOK
  /\ term \in {"prompt", "defaults", "start"}

-----------------------------------------------------------------------------
(* Boot. main() sets the precharge output after the tasks are registered,  *)
(* long before the first of them is due; CAN is live by then.              *)

Init ==
  /\ hwRev \in HwRevs
  /\ tripmode \in TripModes
  /\ opmode = MOD_OFF
  /\ manualstart = FALSE
  /\ seenBrakePedal = FALSE
  /\ saving = TRUE
  /\ dcsw = FALSE
  /\ prec = TRUE
  /\ err = FALSE
  /\ pwmOpmode = MOD_OFF
  /\ tripped = FALSE
  /\ uie = FALSE
  /\ bie = FALSE
  /\ moe = FALSE
  /\ oc = {}
  /\ isIdle = FALSE
  /\ focInitwait = 0
  /\ soStep = [t \in Threads |-> "return"]
  /\ soMode = [t \in Threads |-> MOD_OFF]
  /\ todo = <<>>
  /\ copy = {}
  /\ held = FALSE
  /\ pc = "idle"
  /\ initWait = 0
  /\ localMode = MOD_OFF
  /\ newMode = MOD_OFF
  /\ din = {}
  /\ blocked = TRUE
  /\ term = "prompt"

TickIdle == pc = "idle"

-----------------------------------------------------------------------------
(* PwmGeneration::SetOpmode, called by the task and, in the SINE variant,  *)
(* by the terminal. A thread steps through it when it is running: the      *)
(* terminal only while no task is.                                         *)

Running(t) == t = "tick" \/ TickIdle

CallSetOpmode(t, mode) ==
  /\ soStep' = [soStep EXCEPT ![t] = "enter"]
  /\ soMode' = [soMode EXCEPT ![t] = mode]
  /\ UNCHANGED writes

GoTo(t, step) ==
  /\ soStep' = [soStep EXCEPT ![t] = step]
  /\ soMode' = [soMode EXCEPT ![t] = IF step = "return" THEN MOD_OFF ELSE @]
  /\ UNCHANGED writes

SetOpmodeEnter(t) ==
  /\ Running(t)
  /\ soStep[t] = "enter"
  /\ GoTo(t, IF pwmOpmode = soMode[t] THEN "return" ELSE "publish")
  /\ UNCHANGED <<params, commands, outputs, pwmOpmode, tripped, timer, foc, pc,
                 initWait, sampled, term>>

SetOpmodePublish(t) ==
  /\ Running(t)
  /\ soStep[t] = "publish"
  /\ pwmOpmode' = soMode[t]
  /\ GoTo(t, IF soMode[t] = MOD_OFF THEN "outputs" ELSE "untrip")
  /\ UNCHANGED <<params, commands, outputs, tripped, timer, foc, pc, initWait,
                 sampled, term>>

SetOpmodeUntrip(t) ==
  /\ Running(t)
  /\ soStep[t] = "untrip"
  /\ tripped' = FALSE
  /\ GoTo(t, "timer")
  /\ UNCHANGED <<params, commands, outputs, pwmOpmode, timer, foc, pc,
                 initWait, sampled, term>>

\* TimerSetup: the peripheral reset drops main output, channels, interrupt enables
\* and the break flag, ...
ResetTimer ==
  /\ moe' = FALSE
  /\ oc' = {}
  /\ uie' = FALSE
  /\ bie' = FALSE

SetOpmodeTimer(t) ==
  /\ Running(t)
  /\ soStep[t] = "timer"
  /\ ResetTimer
  /\ GoTo(t, "arm")
  /\ UNCHANGED <<params, commands, outputs, pwmOpmode, tripped, foc, pc,
                 initWait, sampled, term>>

ArmTimer_UpdateOnly == uie' = TRUE /\ UNCHANGED bie

\* ... then both interrupts are enabled and the counter runs.
ArmTimer == uie' = TRUE /\ bie' = TRUE

SetOpmodeArm(t) ==
  /\ Running(t)
  /\ soStep[t] = "arm"
  /\ ArmTimer
  /\ GoTo(t, "init")
  /\ UNCHANGED <<params, commands, outputs, pwmOpmode, tripped, moe, oc, foc, pc,
                 initWait, sampled, term>>

\* The rest of PwmInit; only the FOC variant has a PWM init phase.
SetOpmodeInit(t) ==
  /\ Running(t)
  /\ soStep[t] = "init"
  /\ focInitwait' = IF Control = "FOC" THEN PwmInitWait ELSE focInitwait
  /\ GoTo(t, "outputs")
  /\ UNCHANGED <<params, commands, outputs, pwmOpmode, tripped, timer, isIdle,
                 pc, initWait, sampled, term>>

(* The final switch. PwmInit was a call, so a mode other than off is read  *)
(* again from memory and may be another thread's by now.                   *)

ReadMode(t) == IF soMode[t] = MOD_OFF THEN MOD_OFF ELSE pwmOpmode

MotorModes == {MOD_RUN, MOD_MANUAL, MOD_SINE}

AllChannels == <<"1", "2", "3", "1N", "2N", "3N">>

\* What a mode enables, in the code's order. EnableChargeOutput reads the mode of
\* boost or buck once more (charging is that reading); a Prius has one control
\* signal for both.
ToEnable(mode, charging) ==
  CASE mode \in MotorModes -> IF hwRev = "PRIUS" THEN <<"1", "2", "3">> ELSE AllChannels
    [] mode = MOD_ACHEAT -> <<"2N", "2">>
    [] mode \in {MOD_BOOST, MOD_BUCK} ->
         IF hwRev = "PRIUS" \/ charging = MOD_BOOST THEN <<"2N">>
         ELSE IF charging = MOD_BUCK THEN <<"2">> ELSE <<>>
    [] OTHER -> <<>>

Elements(list) == {list[i] : i \in 1 .. Len(list)}

SwitchOutputs_KeepsChannels(mode) ==
  /\ oc' = oc \cup Elements(ToEnable(mode, mode))
  /\ moe' = (moe \/ mode \notin MotorModes \cup {MOD_OFF})

\* The task's switch, in one step: only the terminal, which it preempts, writes the
\* channels too. A motor mode does not disable what it finds enabled.
SwitchOutputs(mode) ==
  /\ oc' = (IF mode \in MotorModes THEN oc ELSE {}) \cup Elements(ToEnable(mode, mode))
  /\ moe' = (moe \/ mode \notin MotorModes \cup {MOD_OFF})

SetOpmodeOutputs ==
  /\ soStep["tick"] = "outputs"
  /\ SwitchOutputs(ReadMode("tick"))
  /\ GoTo("tick", "return")
  /\ UNCHANGED <<params, commands, outputs, pwmOpmode, tripped, uie, bie, foc,
                 pc, initWait, sampled, term>>

(* The terminal's switch: a task may come between the reading of the mode  *)
(* and the writes, between two of them, and between the load of the        *)
(* channel register and the store of what was loaded with one bit changed. *)

AtSwitch(step) == TickIdle /\ soStep["terminal"] = step

SwitchFrame ==
  UNCHANGED <<params, commands, outputs, pwmOpmode, tripped, uie, bie, foc, pc,
              initWait, sampled, term>>

WriteNext(step, list) ==
  /\ soStep' = [soStep EXCEPT !["terminal"] = step]
  /\ todo' = list
  /\ UNCHANGED <<copy, held>>

TermSwitch ==
  /\ AtSwitch("outputs")
  /\ LET mode == ReadMode("terminal")
     IN /\ soMode' = [soMode EXCEPT !["terminal"] = mode]
        /\ IF mode \in MotorModes THEN WriteNext("enable", ToEnable(mode, mode))
           ELSE WriteNext("disable", AllChannels)
  /\ UNCHANGED <<oc, moe>>
  /\ SwitchFrame

TermLoadChannels ==
  /\ AtSwitch("disable") \/ AtSwitch("enable")
  /\ ~held
  /\ todo # <<>>
  /\ held' = TRUE
  /\ copy' = oc
  /\ UNCHANGED <<soStep, soMode, todo, oc, moe>>
  /\ SwitchFrame

TermStoreChannels ==
  /\ held
  /\ todo # <<>>
  /\ \/ AtSwitch("disable") /\ oc' = copy \ {Head(todo)}
     \/ AtSwitch("enable") /\ oc' = copy \cup {Head(todo)}
  /\ todo' = Tail(todo)
  /\ copy' = {}
  /\ held' = FALSE
  /\ UNCHANGED <<soStep, soMode, moe>>
  /\ SwitchFrame

TermDisabled ==
  /\ AtSwitch("disable")
  /\ todo = <<>>
  /\ WriteNext("enable", ToEnable(soMode["terminal"], pwmOpmode))
  /\ UNCHANGED <<soMode, oc, moe>>
  /\ SwitchFrame

TermEnabled ==
  /\ AtSwitch("enable")
  /\ todo = <<>>
  /\ moe' = (moe \/ soMode["terminal"] \notin MotorModes \cup {MOD_OFF})
  /\ GoTo("terminal", "return")
  /\ UNCHANGED oc
  /\ SwitchFrame

TermOutputs ==
  \/ TermSwitch
  \/ TermLoadChannels
  \/ TermStoreChannels
  \/ TermDisabled
  \/ TermEnabled

SetOpmode(t) ==
  \/ SetOpmodeEnter(t)
  \/ SetOpmodePublish(t)
  \/ SetOpmodeUntrip(t)
  \/ SetOpmodeTimer(t)
  \/ SetOpmodeArm(t)
  \/ SetOpmodeInit(t)
  \/ t = "tick" /\ SetOpmodeOutputs
  \/ t = "terminal" /\ TermOutputs

-----------------------------------------------------------------------------
(* Ms10Task, step 1: read opmode, then measure. ProcessUdc may force the   *)
(* shared opmode off; the local copy keeps what was read before.           *)

\* The bus voltage against udcsw / 2, udcsw and udclim: "dead" < udcsw / 2,
\* "low" < udcsw, "ok", "limit" = udclim, "over" > udclim. Parameters are
\* assumed ordered, udcsw <= udclim.
BusVoltages == {"dead", "low", "ok", "limit", "over"}

ProcessUdc_KeepsOpmode(udc, slow, late) ==
  LET over == hwRev # "ZOE" /\ udc = "over"
      drop == over /\ slow
      timedOut == hwRev # "ZOE" /\ udc = "dead" /\ late /\ prec
  IN /\ opmode' = IF over /\ ~slow THEN MOD_OFF ELSE opmode
     /\ dcsw' = (dcsw /\ ~drop)
     /\ prec' = (prec /\ ~drop /\ ~timedOut)
     /\ err' = (err \/ over \/ timedOut)

ProcessUdc(udc, slow, late) ==
  LET over == hwRev # "ZOE" /\ udc = "over"
      drop == over /\ slow
      timedOut == hwRev # "ZOE" /\ udc = "dead" /\ late /\ prec
  IN /\ opmode' = IF over THEN MOD_OFF ELSE opmode
     /\ dcsw' = (dcsw /\ ~drop)
     /\ prec' = (prec /\ ~drop /\ ~timedOut)
     /\ err' = (err \/ over \/ timedOut)

\* SetTorquePercent (FOC) recomputes the standstill flag: set only with no
\* torque asked for, at rest and with no manual current, and never on a Prius.
SetTorquePercent(pressed) ==
  /\ isIdle' \in BOOLEAN
  /\ isIdle' => Control = "FOC" /\ ~pressed /\ hwRev # "PRIUS"

TickSense ==
  /\ TickIdle
  /\ pc' = "interlock"
  /\ localMode' = opmode
  /\ \E udc \in BusVoltages, slow, late, pressed \in BOOLEAN :
       /\ ProcessUdc(udc, slow, late)
       /\ IF opmode = MOD_RUN /\ initWait = -1
          THEN SetTorquePercent(pressed)
          ELSE UNCHANGED isIdle
       /\ blocked' = (pressed \/ udc # "ok")
  /\ din' \in SUBSET DinSignals
  /\ UNCHANGED <<params, manualstart, seenBrakePedal, saving, pwmOpmode,
                 tripped, timer, focInitwait, setop, initWait, newMode, term>>

(* Step 2: the interlocks and the mode they let through.                   *)

InterlocksClear(emcystop, mprot) ==
  /\ ~blocked
  /\ emcystop \/ hwRev = "REV3"
  /\ mprot
  /\ seenBrakePedal

ChargeRequested(chargemode) ==
  /\ "charge" \in din
  /\ "bms" \notin din
  /\ chargemode >= MOD_BOOST

RunRequested_AnyTripResumes == "start" \in din \/ manualstart \/ tripped

RunRequested ==
  \/ "start" \in din
  \/ manualstart
  \/ tripmode = TRIP_AUTORESUME /\ tripped

AdmittedMode(clear, chargemode, buckReady) ==
  IF ~clear THEN MOD_OFF
  ELSE IF ChargeRequested(chargemode)
       THEN IF chargemode = MOD_BUCK => buckReady THEN chargemode ELSE MOD_OFF
       ELSE IF RunRequested THEN MOD_RUN ELSE MOD_OFF

PriusPrerun_AnyBoard(mode) ==
  mode \in {MOD_BOOST, MOD_BUCK} /\ localMode \notin {MOD_BOOST, MOD_BUCK}

\* Prius needs to run PWM before closing the contactor.
PriusPrerun(mode) ==
  /\ hwRev = "PRIUS"
  /\ mode \in {MOD_BOOST, MOD_BUCK}
  /\ localMode \notin {MOD_BOOST, MOD_BUCK}

TickInterlock ==
  /\ pc = "interlock"
  /\ pc' = "commit"
  /\ \E emcystop, mprot, buckReady \in BOOLEAN, chargemode \in ChargeModes :
       newMode' = AdmittedMode(InterlocksClear(emcystop, mprot), chargemode,
                               buckReady)
  /\ manualstart' = (manualstart /\ newMode' # MOD_RUN)
  /\ IF PriusPrerun(newMode')
     THEN CallSetOpmode("tick", newMode')
     ELSE UNCHANGED setop
  /\ UNCHANGED <<params, opmode, seenBrakePedal, saving, outputs, pwmOpmode,
                 tripped, timer, foc, initWait, localMode, din, blocked, term>>

(* Step 3: an admitted mode is committed: contactor, error lamp, opmode.   *)
(* The BMS input then stops charging except on a Tesla board.              *)

BmsStops(mode) == hwRev # "TESLA" /\ mode >= MOD_BOOST /\ "bms" \in din

CloseContactor(mode) == dcsw' = (dcsw \/ mode # MOD_OFF)

TickCommit ==
  /\ pc = "commit"
  /\ soStep["tick"] = "return"
  /\ pc' = "drive"
  /\ LET mode == IF newMode # MOD_OFF THEN newMode ELSE localMode
     IN /\ localMode' = IF BmsStops(mode) THEN MOD_OFF ELSE mode
        /\ opmode' = IF BmsStops(mode) THEN MOD_OFF
                     ELSE IF newMode # MOD_OFF THEN newMode ELSE opmode
  /\ CloseContactor(newMode)
  /\ err' = (err /\ newMode = MOD_OFF)
  /\ newMode' = MOD_OFF
  /\ UNCHANGED <<params, manualstart, seenBrakePedal, saving, prec, pwmOpmode,
                 tripped, timer, foc, setop, initWait, din, blocked, term>>

(* Step 4: drive contactors and PWM to the local mode.                     *)

SetContactorsOffState ==
  /\ dcsw' = (dcsw /\ tripped /\ tripmode \in {TRIP_DCSWON, TRIP_AUTORESUME})
  /\ prec' = (prec \/ (tripped /\ tripmode = TRIP_PRECHARGEON))

EnterOff_PwmLeftOn == initWait' = InitDelay /\ UNCHANGED setop

EnterOff == initWait' = InitDelay /\ CallSetOpmode("tick", MOD_OFF)

TickOff ==
  /\ pc = "drive"
  /\ localMode = MOD_OFF
  /\ SetContactorsOffState
  /\ EnterOff
  /\ pc' = "off_tail"
  /\ UNCHANGED <<params, commands, err, pwmOpmode, tripped, timer, foc,
                 sampled, term>>

TaskDone ==
  /\ pc' = "idle"
  /\ localMode' = MOD_OFF
  /\ din' = {}
  /\ blocked' = TRUE

TickOffDone ==
  /\ pc = "off_tail"
  /\ soStep["tick"] = "return"
  /\ saving' = TRUE
  /\ TaskDone
  /\ UNCHANGED <<params, opmode, manualstart, seenBrakePedal, outputs,
                 pwmOpmode, tripped, timer, foc, setop, initWait, newMode, term>>

DisableSaving_Forgotten == UNCHANGED saving

DisableSaving == saving' = FALSE

TickStart ==
  /\ pc = "drive"
  /\ localMode # MOD_OFF
  /\ initWait = 0
  /\ DisableSaving
  /\ SetTorquePercent(FALSE)
  /\ CallSetOpmode("tick", localMode)
  /\ pc' = "start_tail"
  /\ UNCHANGED <<params, opmode, manualstart, seenBrakePedal, outputs,
                 pwmOpmode, tripped, timer, focInitwait, initWait, sampled, term>>

TickStartDone ==
  /\ pc = "start_tail"
  /\ soStep["tick"] = "return"
  /\ err' = FALSE
  /\ prec' = FALSE
  /\ initWait' = -1
  /\ TaskDone
  /\ UNCHANGED <<params, commands, dcsw, pwmOpmode, tripped, timer, foc, setop,
                 newMode, term>>

\* The delay before a start; at CalAt the offsets of the current sensors are
\* taken, which presumes that no current flows (see CalibrationAtRest).
TakesOffsets == pc = "drive" /\ localMode # MOD_OFF /\ initWait = CalAt

CountDown_Unguarded(n) == n - 1

CountDown_Stuck(n) == IF n > 1 THEN n - 1 ELSE n

CountDown(n) == IF n > 0 THEN n - 1 ELSE n

TickWait ==
  /\ pc = "drive"
  /\ localMode # MOD_OFF
  /\ initWait # 0
  /\ initWait' = CountDown(initWait)
  /\ TaskDone
  /\ UNCHANGED <<params, commands, outputs, pwmOpmode, tripped, timer, foc,
                 setop, newMode, term>>

Ms10Task ==
  \/ TickSense
  \/ TickInterlock
  \/ TickCommit
  \/ TickOff
  \/ TickOffDone
  \/ TickStart
  \/ TickStartDone
  \/ TickWait
  \/ SetOpmode("tick")

\* The part of Ms100Task this module needs: the brake check, once passed, stays so.
\* It passes at the brake pedal or, in the cruise modes off and pot, without it.
Ms100Task ==
  /\ TickIdle
  /\ seenBrakePedal' \in BOOLEAN
  /\ seenBrakePedal => seenBrakePedal'
  /\ UNCHANGED <<params, opmode, manualstart, saving, outputs, pwmOpmode,
                 tripped, timer, foc, setop, pc, initWait, sampled, term>>

-----------------------------------------------------------------------------
(* Interrupts.                                                             *)

\* tim1_brk_isr.
BreakHandler ==
  /\ bie' = FALSE
  /\ opmode' = MOD_OFF
  /\ err' = TRUE
  /\ tripped' = TRUE

\* A fault at the timer's break input: the hardware drops the main output by
\* itself, and the handler runs at once if its interrupt is enabled.
Break ==
  /\ uie
  /\ moe' = FALSE
  /\ IF bie THEN BreakHandler ELSE UNCHANGED <<bie, opmode, err, tripped>>
  /\ UNCHANGED <<params, manualstart, seenBrakePedal, saving, dcsw, prec,
                 pwmOpmode, uie, oc, foc, setop, pc, initWait, sampled, term>>

\* PwmGeneration::Run of the FOC variant.
RunFoc ==
  LET wait == IF focInitwait > 0 THEN focInitwait - 1 ELSE 0
  IN \/ /\ pwmOpmode = MOD_RUN
        /\ focInitwait' = wait
        /\ moe' = (~isIdle /\ wait = 0)
     \/ /\ pwmOpmode \in {MOD_BOOST, MOD_BUCK}
        /\ focInitwait' = 0
        /\ UNCHANGED moe
     \/ /\ pwmOpmode = MOD_ACHEAT
        /\ focInitwait' = 0
        /\ moe' = FALSE         \* ampnom stays 0: only the SINE variant sets it

\* PwmGeneration::Run of the SINE variant: the amplitude decides.
RunSine ==
  /\ UNCHANGED focInitwait
  /\ \/ /\ pwmOpmode \in {MOD_MANUAL, MOD_RUN, MOD_SINE, MOD_ACHEAT}
        /\ moe' \in BOOLEAN
     \/ /\ pwmOpmode \in {MOD_BOOST, MOD_BUCK}
        /\ UNCHANGED moe

PwmIsr ==
  /\ uie
  /\ IF Control = "FOC" THEN RunFoc ELSE RunSine
  /\ UNCHANGED <<params, commands, outputs, pwmOpmode, tripped, uie, bie, oc,
                 isIdle, setop, pc, initWait, sampled, term>>

-----------------------------------------------------------------------------
(* Commands. SDO requests are handled in the CAN interrupt, between tasks. *)

CommandFrame ==
  UNCHANGED <<params, seenBrakePedal, saving, outputs, pwmOpmode, tripped,
              timer, foc, pc, initWait, sampled>>

SdoStart ==
  /\ TickIdle
  /\ opmode' \in StartModes
  /\ UNCHANGED <<manualstart, setop, term>>
  /\ CommandFrame

\* STOP over SDO and `stop` on the terminal do the same.
Stop ==
  /\ TickIdle
  /\ opmode' = MOD_OFF
  /\ UNCHANGED <<manualstart, setop, term>>
  /\ CommandFrame

SetManualStart ==
  /\ TickIdle
  /\ manualstart' = TRUE
  /\ UNCHANGED <<opmode, setop, term>>
  /\ CommandFrame

\* `start <mode>`, SINE only: Param::opmode first, then SetOpmode.
TermStart ==
  /\ Control = "SINE"
  /\ TickIdle
  /\ term = "prompt"
  /\ \E mode \in StartModes :
       /\ opmode' = mode
       /\ CallSetOpmode("terminal", mode)
  /\ term' = "start"
  /\ UNCHANGED manualstart
  /\ CommandFrame

TermStartDone ==
  /\ TickIdle
  /\ term = "start"
  /\ soStep["terminal"] = "return"
  /\ term' = "prompt"
  /\ UNCHANGED <<opmode, manualstart, setop>>
  /\ CommandFrame

\* `defaults`: the save gate is read, then every parameter is reset and applied.
TermDefaults ==
  /\ TickIdle
  /\ term = "prompt"
  /\ saving
  /\ term' = "defaults"
  /\ UNCHANGED <<opmode, manualstart, setop>>
  /\ CommandFrame

TermApplyDefaults ==
  /\ TickIdle
  /\ term = "defaults"
  /\ tripmode' = TRIP_ALLOFF
  /\ manualstart' = FALSE
  /\ term' = "prompt"
  /\ UNCHANGED <<hwRev, opmode, seenBrakePedal, saving, outputs, pwmOpmode,
                 tripped, timer, foc, setop, pc, initWait, sampled>>

Command ==
  \/ SdoStart
  \/ Stop
  \/ SetManualStart
  \/ TermStart
  \/ TermStartDone
  \/ TermDefaults
  \/ TermApplyDefaults
  \/ SetOpmode("terminal")

-----------------------------------------------------------------------------

Next == Ms10Task \/ Ms100Task \/ Break \/ PwmIsr \/ Command

\* The scheduler's timer keeps calling the 10 ms task and the task, which waits
\* for nothing, runs to its end. Nothing else is promised: no command, input or
\* fault need ever come.
Fairness == WF_vars(Ms10Task)

Spec == Init /\ [][Next]_vars

FairSpec == Spec /\ Fairness
=============================================================================
