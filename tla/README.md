# stm32-sine in TLA+

A verification development kept beside the stm32-sine motor inverter firmware. It models
the parts whose correctness depends on order, interleaving, loss and limits: the
run/stop state machine with its interrupts and command channels, the CAN control frame,
the drive command from pedal to torque request, and eleven smaller components: the
host-current ceilings, the command-silence watchdog, the encoder with its angle sensors
and with a single pulse input, the q-axis clamp, anti-cogging, the current offsets, the
charger's ramp, slip control, the temperature tables and the multiplexed temperature
inputs. TLC
checks each model on small instances; TLAPS proves the most important results for every
value of the constants.

Paths are those of the repository (`src/` holds the firmware's sources, `include/`
its headers, `doc/` its documentation). Line numbers are in `PROJECT.json`, which
maps every definition to the code it models.

## 1. The system

One Cortex-M3 runs everything. `hwinit.cpp` (`nvic_setup`) assigns the priorities,
and these decide what can interleave with what:

| Level | Context | Runs |
| --- | --- | --- |
| 0 | break interrupt (TIM1 BRK), encoder index (EXTI2) | `tim1_brk_isr`, `exti2_isr` |
| 1 | PWM timer update | `PwmGeneration::Run`, through it `Encoder::UpdateRotorAngle` |
| 0xe | scheduler timers | `Ms1Task`, `Ms10Task`, `Ms100Task` (never one another) |
| below | CAN reception | `VehicleControl::CanReceive`, SDO, parameter writes by a host |
| main loop | serial terminal | commands of `terminal_prj.cpp`, one at a time |

The parts share global variables and `Param` values; there are no locks, and only
one place (`Encoder::UpdateRotorFrequency`) disables interrupts.

### Inventory

| Part | State | Operations | Talks to | What is hard |
| --- | --- | --- | --- | --- |
| Run/stop machine, `stm32_sine.cpp`, `pwmgeneration.cpp` | `opmode`, `initWait` (static), `PwmGeneration::opmode`, `tripped`, save gates, outputs, timer enables | `Ms10Task`, `Ms100Task`, `SetOpmode`, `TimerSetup`, `EnableOutput`, `tim1_brk_isr` | everything: reads inputs and parameters, calls SetOpmode, EnableSaving, Encoder::Reset | local copy of `opmode` against a concurrent trip; start delay; restart after trips; two callers of SetOpmode |
| PWM, FOC and SINE variants | main output (MOE), `initwait`, `isIdle`, controllers, current ceilings | PWM interrupt, `SetTorquePercent`, `PwmInit`, manual commands | encoder, parameters | the interrupt is live before the state it reads; output enabled after a fault |
| Slip control (SINE), `pwmgeneration-sine.cpp` | `ampnom`, `fslip`, `slipIncr`, two static filters of the current limit | `SetTorquePercent`, `LimitCurrent` | encoder, voltage, task and PWM interrupt | task and interrupt write the same increment; filter rounding; wind-up of the limiter |
| Bus voltage and precharge, `vehiclecontrol.cpp` | precharge, contactor, error output | `ProcessUdc` | opmode, outputs | several conditions write the same outputs in one tick |
| CAN control frame, `vehiclecontrol.cpp` | `canErrors`, `seqCounter`, `lastCanRxTime`, `canio`, pot, regen preset, cruise speed | `CanReceive`, `GetDigInputs`, `GetUserThrottleCommand`, `CruiseControl` | throttle, direction, cruise | lost, damaged, repeated frames; hang of the sender; preemption between time stamp and data |
| Commands, `terminal_prj.cpp`, `invertersdo.cpp` | `saveEnabled` | start, stop, defaults, SDO START/STOP, parameter writes | `opmode`, `SetOpmode` (SINE) | save gate read in the main loop; starts that pass the interlocks by |
| Current ceilings, `manualclamp.h`, `throtclamp.h` | two latches | latch at boot, effective ceiling, clamps | parameters, PWM | boot order; lower, save, reload, restart |
| Command watchdog, `cmdtimeout.h` | `last`, `seen` | `Note`, `Expired`, zeroing in the task | parameters, RTC | wrap of the clock; write racing the expiry |
| Encoder, `inc_encoder.cpp`, angle and quadrature sensors | angle, accumulator, distance, frequency, direction, start-up delay, turn counters | sampling in the PWM interrupt, draining in the task, `Reset`, `ResetDistance` | hill hold, regen, displays | interrupt adds while task drains; wrap of the angle; stale state over a restart |
| Encoder, SINGLE mode | ring of captures, timer, last place in the ring, silence count, accumulated and interpolated angle | `GetPulseTimeFiltered`, `UpdateRotorAngle`, `Reset`, `SetImpulsesPerTurn` | rotor frequency | the ring and the timer wrap under the interrupt; standstill is a timeout; 16-bit arithmetic |
| q-axis clamp, `qclamp.h` | two walked bounds, a hysteresis flag | `Update`; `PwmInit` and `UpdateVoltageLimits` reset the controller's bounds | q controller | the limit moves while the bounds walk; resets from preempted tasks |
| Anti-cogging, `anticog.h`, `pwmgeneration-foc.cpp` | extremes of the d current, measured swing, last angle | `MeasureCoggingCurrent`, `GenerateAntiCoggingSignal` | d controller | branch boundaries, 16- and 32-bit overflow |
| Current offsets, `pwmgeneration-foc.cpp` | static sample buffer, `initwait`, `isIdle` | `RunOffsetCalibration`, `PwmInit` | main output | a session's leftovers in the next one's average |
| Charger ramp, `stm32_sine.cpp`, `pwmgeneration.cpp` | ramped current (static), controller reference | `RunCharger`, `ConfigureChargeController`, `Charge` | voltage, temperature, PWM | ramp and reference survive sessions |
| Temperatures, `temp_meas.cpp`, `vehiclecontrol.cpp` | multiplexer position, five temperatures, drive unit flag, filters, fan | `Lookup`, `GetTemps`, `CalcAndOutputTemp` | derating, fan, charger | tables and their direction flags; which sensor a reading belongs to |
| Drive command, `vehiclecontrol.cpp` | direction, cruise mode, creep, hill hold | `SelectDirection`, `CruiseControl`, `GetCruiseCreepCommand` | throttle, encoder | long sequences of inputs, state kept across modes |
| Throttle limits, `throttle.cpp` | ramp, filters, limits | ramp, derating, limiters | every torque command | order of limiters, sign, saturation |
| Regen taper, dual pot | small static state or none | pure functions with state | torque | boundaries and rounding |
| CAN transmission, parameter change, hardware set-up, error list | see `PROJECT.json` | | | shared CAN slot |

libopeninv (parameter store, scheduler, terminal, CAN, SDO) and libopencm3 are git
submodules the repository does not hold. What is modelled of them is what the code
in `src/` relies on, and is marked external.

## 2. Modules

```
ParameterLock <-- (refined by) -- Inverter <-- InverterProperties <-- InverterProofs
CanControl <-- CanProperties <-- CanHistory <-- MCCanHistory
                     ^  ^------- MCCanControl
                     '---------- CanProofs
CurrentCeiling, CommandTimeout <-- HostProofs
TempTables <-- TempMeas <-- Temperature
Encoder, PulseEncoder, Temperature <-- SensorProofs
QClamp, AntiCog, CurrentOffsets, Charger, SlipControl <-- CurrentProofs
Units: all modules of the last four lines <-- UnitsProofs (with the three above)
ThrottleLimits <-- Drive <-- MCDrive
  ^                  ^------ DriveProofs
  '-- ThrottleProofs <---------'
```

**Inverter** models `Ms10Task` (`stm32_sine.cpp`) as a sequence of steps. The
program counter `pc` names the place, `localMode`, `newMode` and `initWait` are the
function's variables. A cut lies wherever the two interrupts can make a difference:

| Step | Code |
| --- | --- |
| `TickSense` | entry: opmode is copied, trip reset, digital inputs, `SetTorquePercent`, `ProcessUdc` |
| `TickInterlock` | stop conditions, `newMode` from start, manualstart, charge inputs and AutoResume, the Prius prerun |
| `TickCommit` | contactor and `opmode` stored, stop by BMS |
| `TickOff`, `TickOffDone` | the off branch: contactors by trip mode, `SetOpmode(MOD_OFF)`, saving enabled |
| `TickStart`, `TickStartDone` | saving disabled, then `SetOpmode(opmode)` |
| `TickWait` | the start delay and the calibration of the current offsets in it |
| `Ms100Task` | its part that writes modelled state |

`SetOpmode` is itself a sequence (`SetOpmodeEnter`, `SetOpmodePublish` .. the final
switch), one instance per calling thread: in the SINE variant the terminal calls it too
and the task may preempt that call at any step. `SetOpmodeTimer` is `TimerSetup` up to the
reset, which drops everything, `SetOpmodeArm` the rest, which enables both interrupts. The
final switch reads the mode again (`ReadMode`). The task's is one step
(`SetOpmodeOutputs`), since nothing but the terminal, which it preempts, writes the
channels. The terminal's is taken apart (`TermOutputs`): the mode is read, then each
channel is disabled or enabled by a load and a store of the timer's register
(`TermLoadChannels`, `TermStoreChannels`), and a tick may fall between any two of these.

`Break` is the break interrupt, `PwmIsr` the PWM interrupt of either variant, `Command`
the SDO and terminal commands; `defaults` is split where the task may fall between the
check of the gate and the reset. The bus voltage is one of five ranges, sampled inputs are
chosen freely at the point where the code reads them. Left out: torque and temperature
values, CAN transmission, displays.

**InverterProperties** states the properties. **ParameterLock** is the abstract
specification of the save gate: lock before start, unlock after stop. The refinement
mapping is `unlocked <- saving`, `running <- pwmOpmode # MOD_OFF`.

**CanControl** models `CanReceive` with a step for each write the task may see half-done,
the judge (counter pair, CRC, healing, latch), the time stamp, and the three functions of
the 10 ms task that consume the values and time them out. The bus loses, damages and repeats
frames; what it damages may be the data or either counter, and the receiver remembers the
counter of a damaged frame too. The sender may hang, silent or repeating its last frame. A
payload is a record from a small set. **CanHistory** adds the log of verdicts.
**MCCanControl** and **MCCanHistory** define the payloads TLC uses.

**CurrentCeiling** models boot (`Param::Load`, then the two latches, then the host is
reachable), host writes, save, load, starts, stops, restarts, and the two places
that clamp.

**CommandTimeout** models the class, the two-step write (store, then
`Param::Change`), the task's check and an RTC that wraps.

**Encoder** models a rotor that turns either way, its sampling in the PWM interrupt
(`SampleAngle` for SPI, RESOLVER, SINCOS; `SampleCounter` for AB), the
task's `Drain` (copy and subtract, atomic because interrupts are off) and `Measure`,
`Reset` and `ResetDistance`. `Wrap` is the 16-bit store; a turn has `2 * HalfTurn`
units. History variables follow the rotor's true movement. The rotor moves less than
half a turn between two samples (at 8.8 kHz that is 4400 electrical turns a second);
beyond that the samples themselves are ambiguous. ABZ is left out: its index interrupt
zeroes the timer between two samples, and no movement is conserved across that.

**PulseEncoder** is the encoder's SINGLE mode. `Pulse` and `TimerCounts` are the hardware:
capture, DMA into a ring, restart of the timer. `UpdateRotorAngle` is the PWM interrupt's
part: it tells the pulses from the place in the ring (`Counted`), the standstill from the
interrupts without one (`CountSilence`), and how far the rotor may have gone from the
timer (`Interpolation`, with its 16-bit store). `SetImpulsesPerTurn` sets the ring up
anew under the interrupt's feet. History variables count pulses and silence.

**QClamp** has one action for the interrupt (`ClampedRun`: the clamp is advanced, its bounds
handed over, the controller run to any value within them) and one for the calls that reset
the controller's bounds. **AntiCog** has one action: an interrupt at any angle with any
current, whatever they were before. A history variable keeps the currents sampled since the
rotor last passed half a turn. **CurrentOffsets** models the steps of a start (`PublishRun`,
`PwmInitSetsWait`, `ConnectChannels`) with the interrupt in between, holding the output off
and sampling or letting it go live. **Charger** models a session's steps likewise,
`RunCharger` in the 10 ms task and `Charge` in the interrupt.

**SlipControl** is the torque path of the SINE variant. `SetTorquePercent` is cut at its
three writes (`WriteAmpnom`, `WriteFslip`, `WriteSlipIncr`); the interrupt (`RunSlip`)
comes between any two and limits amplitude and slip by the phase current. Both filters
keep their rounding, since the set point is raised to make up for it. The task's
`Param::Set` calls lead through `Param::Change` back into `SetAmpnom` and `SetFslip` with
the values just written and change nothing. A host's writes of `ampnom` and `fslipspnt`,
which bypass the calculation for bench tests, are left out.

**TempTables** holds the twenty tables of `temp_meas.h`, **TempMeas** the sensors and
`Lookup`. **Temperature** models `CalcAndOutputTemp` with one action per kind of board: on
the Tesla board each run reads one position of the multiplexer and switches to the next.
A history variable keeps what this unit's own sensors read in the round.

**Units** explores these, the ceilings, the watchdog and the encoder in one run. They
share no variable, so a behaviour of the whole is an interleaving of independent ones, and
a property of one holds of all if it holds of that one alone: `unit` names the one at work
and the others stay at an initial state. What one of them takes from another part of the
program (limits, readings, host writes, starts) is chosen freely in its own module.

**ThrottleLimits** holds `throttle.cpp`'s functions as operators over integers: the
pedal (range check, calibration, the part of the travel that regenerates, the curve,
the bidirectional pot), the ramp, the seven limiters in `ProcessThrottle`'s order, the
idle and cruise speed controllers and hill hold. `Tuning` is the record of parameters;
where the code has a literal (100 percent of travel, a pot's slack of 200 digits, the
ramp's 5 percent, 30 and 100 rpm, the hold's 10000, the taper's 50 calls) it is a
field too, so that an instance can make it small.

**Drive** uses them. Its `Ms100Task` is `CruiseControl` and `SelectDirection`; the 10 ms
task is cut in four to keep the choices of one step few, and nothing comes in between:

| Step | Code |
| --- | --- |
| `Sample` | inputs and encoder are read |
| `Request` | `ProcessThrottle` up to the ramp: pedal, idle speed or hill hold, cruise control, `RampThrottle` |
| `Output` | the limiters, `potnom`, the brake light, the regen taper. The value returned is the state function `TorquePercent` |
| `Start`, `Run`, `Stay`, `Off` | the end of `Ms10Task`: a start admitted, the delay run down, nothing new, stopped |

The 100 ms task comes at any time between two ticks, any number of times: the two share
`seldir`, `cruiseSpeed` and `potnom`. A read of the pedal yields a record of `Pedals`:
two channels in digits, the regen preset, and whether the last CAN frame is too old.
Abstracted: rotor frequency and speed are one number; the encoder is of a kind that
keeps its direction at standstill; the start delay takes any number of ticks; `filtered`
and the readings are what filters and sensors yield; fractions are rounded to whole
units (the 0.1 percent by which regeneration "never reaches 0" is one unit); error
messages are left out. History variables remember that cruise control was ended, that
the brake has been held over a 100 ms task, that driving was requested at the start, and
how long the rotor has stood still.

A definition named `X_Y` is `X` with a plausible bug; `PROJECT.json` says which
property must fail when it takes `X`'s place. None is used by any specification.

## 3. What TLC checks

Bounds on values stand for ranges the code does not tell apart; each delay keeps the
cases zero, one and more. Every counter's bound is a CONSTANT named in its module.

| Run | Instance | What it shows |
| --- | --- | --- |
| `InverterFoc` | FOC, REV2, trip modes AllOff and AutoResume, charge mode off or boost, SDO starts for run and heat, pins start, charge, bms; delay 2, calibration at 1 | `TypeOK`; `CalibrationAtRest`; `ChannelsMatchMode`; refinement of `ParameterLock` (PWM starts and stops behind the shut save gate) |
| `InverterSine` | SINE, Prius board, AutoResume, terminal and SDO starts for boost | `BreakArmed`: no order of trips and restarts leaves untripped PWM running with the break interrupt off, although terminal and task call SetOpmode half way into each other, at every register access |
| `InverterLive` | FOC, trip modes 0 and 2, start pin, no START commands | `RunsOnClosedContactor`: no mode outlives the contactor, whether overvoltage, stop or trip opens it; liveness: `OffTakesEffect`, `StartCompletes` (a start that stands reaches the power stage), `StopHalts` |
| `CanFrame` | 7 frames, limit 3, one-bit counter, CRC and limiter mode | `CleanBusNeverLatches`; `LatchedIffExcess`: reception latches exactly when bad frames outnumber good ones by the limit over some stretch of the log |
| `CanHang` | limit 2, timeout 2, pot from CAN, cruise by CAN, pins forward and cruise | liveness, once the bus damages no more frames: a sender that hangs loses throttle, inputs (`HungSenderLosesControl`) and, with the cruise pin low, cruise control (`CommsLossCancelsCruise`) |
| `Units`: ceilings | ceilings 0..1, torque +-2 | `AuthorityBounded`: no command beyond the ceiling saved at boot |
| watchdog | RTC of 6 values, timeouts 0, 2, 3 | `SilentHostZeroed`, across wraps; `CommandKept` |
| encoder | turn of 4 units, steps of 1, one pole pair, delay 2, two samples per task run, RESOLVER and AB | `NoMovementLost`, `FrequencyIsTrue` |
| pulse encoder | ring of 3, turn of 3 digits, 1 or 3 pulses per turn, standstill after one silent interrupt, either direction or none | `PulsesCounted`: no pulse lost or made up; `StandstillSeen`: frequency 0 and no interpolation at rest, and never beyond the next pulse |
| q-axis clamp | divisor 2, limits 0, 1, 5, thresholds 0 and 5 | `StaysInCircle`: the bounds never leave the circle as it is now; `RegenBlocked`: two walks into low-speed driving no output of the braking sign |
| anti-cogging | turn of 12, any angle and any current up to 2 at each interrupt, two units an ampere, one phase, two gains, 8-bit integers | `SwingIsReal`: the swing taken at a crossing is the spread of the currents sampled since the last; `WaveIsSmooth`: neighbouring angles inject neighbouring voltages |
| current offsets | buffer of 4, init phase of 10 interrupts | `CalibratedBeforeTorque`: the output goes live only on offsets of this session |
| charger | voltages and temperatures below, at and above the limits | `ChargerYields`: no interrupt regulates to more than the last tick granted |
| slip control | 100 % in 5 digits, fslipmin to fslipconstmax 1, 2, 3, fweak below and above fconst, filters of weight 1 and 4, limit off or on, current below and beyond it | `SlipBounded`: the slip never exceeds fslipconstmax; `WrongWayFades`: no amplitude is left of regeneration while rolling back; `OverloadHeld`: 40 % and the least slip at most, whatever the task writes in between |
| tables | all 20 sensors, every reading of 12 bits | `LookupReadsTable`: the result lies between its neighbours in the table, and on the table's values |
| temperatures | all kinds of board, readings 0 and 3300 | `OwnSensorsCount`: from the second round on the motor temperature is that of this unit's own sensors |
| `Drive` | three drives (FOC with a direction switch, cruise control by switch and two pot channels; SINE with direction buttons, limiter and idle speed always on; FOC with throttle speed control by a bidirectional CAN pot and hill hold); pedal released, pressed, with one channel pressed and with one broken, speed 0 and 2, a ramp of one point per tick, hold of one tick, three sets of readings | `LimitersNarrow`; `CancelledStaysCancelled`: a cruise speed ended by brake, forward signal or stop does not come back before the switch was seen off; `BrakeWins`: with the brake held over a 100 ms task nothing raises the request; `RegenReleased`; `PressedStartIsIdle`: under slip control a start with the pedal pressed (a request of a percent, here two units, or more) yields no torque until it is released |

Why the bounds are enough. The start delay only distinguishes running down, the tick of
calibration and the end: 2 has all three. Trips, stops and commands may come at any
step, any number of times; no run limits them. The rolling counter and the frame limit
are smaller than the code's (4 and 5); two values suffice for "same as last" against
"not the same", and a limit of 3 in a log of 7 allows errors to heal and then to reach
the latch. The RTC has more values than twice the timeout, so an age can wrap and still
be told from a small one. With a half turn of 2 and steps of 1 every pair of angles and
every wrap occurs; two samples between drains is the smallest number that lets one be
lost and one be kept. A ring of 3 holds none, one and two pulses between two interrupts;
three pulses a turn and one make the interpolated angle reach its clamp. A walk of two
steps can be met by a smaller or larger limit, a direction change or a reset at every
point, and limits 0 and 1 are below the divisor. A buffer of 4 can be left with any
filling by a session, and the init phase keeps the code's ratio (at least twice the
buffer and one call each; the code has 2200 to 512). A turn of 12 has every branch
boundary of the triangle and 8-bit integers overflow as 32-bit ones do. The tables are
the code's own, over every reading. Five digits of amplitude and three of slip are
enough for every filter to stop short on the way up and arrive on the way down, and the
times of `WrongWayFades` and `OverloadHeld` (4 task periods, 6 interrupts) are those of
these weights. A phase current of 24 at a limit of 20 lets regeneration wind the slip
filter up, which a current that stops at the limit never does. Two readings of the
multiplexed inputs suffice to tell ground from a sensor and a sensor from another's
table. All of these are also proved, without bounds. `Drive`'s three drives take every
kind of direction selection, cruise control, creep and pedal that keeps state of its
own; the remaining modes (cruise speed by CAN, idle without brake) differ in a condition
and are covered by the proofs. Modes do not change while it runs. A pedal travel of two
units has a release, a middle and an end, and its second channel is mounted the other
way round. A ramp of one unit makes every request take two ticks, so a tick can fall on
every part of a ramp; a hold of one tick has the cases held, expired and renewed. The
readings let voltage, acceleration and the BMS limit; the frequency, current and
temperature limiters are open in the run and covered by the proofs, which hold for any
reading and any tuning.

### Fairness

Only the scheduler is fair: `WF_vars(Ms10Task)` in `Inverter`, and the corresponding
task and receive steps in `CanControl`. The scheduler's timer is periodic hardware
with a priority above everything that loops, and interrupts that preempt it are
short. No fairness is assumed of inputs, commands, trips, the PWM interrupt (it may
be disabled), the terminal or the sender. That the bus stops damaging frames and that the
cruise pin goes low are premises of the two properties that need them, not fairness.

### Runs that find a violation

Each contradicts a sentence of the repository, quoted in `PROJECT.json`.

| Run | What happens |
| --- | --- |
| `StartAgainstOff` | `Ms10Task` copies `opmode` first. In the tick in which the delay ends, `ProcessUdc` (or a trip) forces `opmode` off, and the tick still starts PWM from its copy. The next tick takes it back. |
| `PressedStart` | `STAT_POTPRESSED` is `torquePercent > 0`, but the FOC variant has by then multiplied the request by the direction: with reverse selected a pressed pedal yields a negative value, and the start is admitted. |
| `Sawtooth` | In SINGLE mode the interpolated angle is stored in 16 bits before it is compared with the next pulse's angle. A rotor that slows down enough makes the product pass 65536, and the angle falls back from the next pulse's, which the clamp was made to prevent. |
| `StartIntoOff` | The SINE terminal's `start` runs SetOpmode in the main loop. It reads the mode in the final switch, or has loaded the channel register; a tick preempts it and carries out a whole SetOpmode(MOD_OFF). The resumed command enables the channels of the mode it had read, with opmode off, and they stay on. |
| `PriusStart` | SDO START stores a charge mode in `opmode`. The next tick finds it there and takes the prerun for done, which is skipped when `opmode` is a charge mode already; the contactor closes with PWM off. |

### Seen, and not stated as runs

These showed up as traces while the models were built. No sentence of the repository
contradicts them clearly, or the run would be one more of a kind shown above.

- `terminal_prj.cpp:65`: `defaults` checks the gate in the main loop; a start may come
  between the check and the reset, which then happens in run. The comment above the check
  rules that out.
- `terminal_prj.cpp:90`: the SINE terminal's start calls SetOpmode with saving allowed.
- `stm32_sine.cpp:200`: AutoResume restarts after a stop command when a trip is
  remembered, hence trip mode AutoResume is not part of `InverterLive`.
- `stm32_sine.cpp:235`: a change between run and charge while running is not carried to
  the power stage, since SetOpmode is called only when the delay has run down; charging
  admitted while PWM runs leaves it in mode run for as long as it is admitted. Likewise a
  START for another mode.
- `stm32_sine.cpp:251`: where PWM runs during the start delay (the Prius prerun, a start by
  the SINE variant's terminal) the current offsets are taken from a running power stage;
  `CalibrationAtRest` is about the other boards and starts.
- `temp_meas.cpp:106`: the PT1000's table ascends and its entry says PTC, which `Lookup` takes
  for a descending one: readings from the first value up yield -50 degrees, all others 150.
  NTCK45 has it the other way round. No other sensor is reversed (`LookupReadsTable`).
- `inc_encoder.cpp:224`: the pole counter is reloaded with `respolepairs` on the crossing that
  advances `fullTurns`, so a turn is counted every `respolepairs + 1` electrical turns: with
  one pole pair every second turn.
- `vehiclecontrol.cpp:123`: a frame with a wrong CRC still sets the counter the next one is
  compared with, so the repetition after it counts as good: on a bus that goes on damaging
  the counter of frames, a hung sender keeps control (`HungSenderLosesControl` presumes
  that this ends).
- `vehiclecontrol.cpp:447`: `din_cruise` is the pin or the CAN bit, and only the bit times
  out: with the pin high, cruise control by CAN outlasts the loss of the bus, although the
  comment at `:212` says "we cancel on loss of comms".
- `pwmgeneration-foc.cpp:171`: the PWM interrupt enables the main output again after a
  fault until the next tick.
- `pwmgeneration-foc.cpp:270`: the timer's interrupt is enabled before `initwait` is set.
- `vehiclecontrol.cpp:393`: precharge may be set again in the tick that clears it.
- `vehiclecontrol.cpp:127`: a bad frame refreshes the time stamp as well.
- `vehiclecontrol.cpp:146`: the latch clears `canio` but leaves the pot value to the timeout.
- `vehiclecontrol.cpp:109` with `doc/vehiclecontrol.md:112`: the latch needs no consecutive
  bad frames; an excess over good ones is enough (`LatchedIffExcess`).
- `stm32_sine.cpp:328`: between storing a command and noting it, the task may zero it.
- `inc_encoder.cpp:188`: the AB direction bit tells of the last count only. A shaft that
  turns back between two interrupts is counted as almost a turn (the `k` of
  `NoMovementLost`).
- `stm32_sine.cpp:199` with `doc/parameters.md:271`: with the start input held, a trip is
  followed in the next tick by `newMode = MOD_RUN`; the contactor stays closed and the off
  branch, on which trip mode AllOff relies, is not reached.
- `vehiclecontrol.cpp:130`: `CanReceive` stamps `lastCanRxTime` before it stores the pot
  value; a task in between takes a value older than the timeout.
- `stm32_sine.cpp:163`: the SINE variant admits a start in neutral with the pedal pressed,
  since torque is 0 there. For a request of a percent or more it is harmless: `potnom` then
  keeps neutral selected (`PressedStartIsIdle`). A limited request below a percent does not,
  since `vehiclecontrol.cpp:240` cuts it off to whole percent: the direction can be selected
  and torque flows without a release.
- `stm32_sine.cpp:241`: `RampThrottle(0)`, "restart ramp", takes one ramp step; a long ramp
  starts from what was left of the last request.
- `vehiclecontrol.cpp:278` with `doc/parameters.md:58`: the direction the rotor already turns
  in may be selected at any speed; and `potnom` is the limited command, so a limiter at
  zero lets the direction change with the pedal pressed, while idle mode Always keeps
  `potnom` above zero at standstill and no direction can be selected.
- `vehiclecontrol.cpp:176`, `:186`: a tap on the brake shorter than 100 ms does not end
  cruise control; in modes CAN and Limiter the cruise speed comes back when the brake is
  released, as the switch is still on.
- `vehiclecontrol.cpp:182`: limiter mode returns before `lastCruiseSwitchState` is stored.
- `vehiclecontrol.cpp:881`, `:891`: with hill hold and cruise control both active the cruise
  controller's request replaces the hold's and is given no direction.
- `throttle.cpp:131`: a `regentravel` of 100, which the parameter table allows, divides zero
  by zero for a pedal at its end; the comparisons in `RampThrottle` make `throtmax` of it.
  `TuningAssumption` excludes the value.
- `vehiclecontrol.cpp:852`: the brake transducer's channel is used uncorrected, so a value
  outside its calibration lowers the idle limit below zero or raises it above the
  parameter; the default calibration (`pot2min` = `pot2max`) makes it zero.
- `regentaperhold.h:58`: with `regenrampstr` 0 there is no taper, also at standstill.
- `pwmgeneration.cpp:142`: between the enabling of the charger's output and the controller's
  configuration an interrupt may regulate to the reference of an earlier session.
- `pwmgeneration.cpp:254`: the current limit's thresholds are set by the PWM interrupt (at
  the end of an offset calibration) and by a host's write of `ocurlim`, which it preempts.
- `inc_encoder.cpp:649`: the first pulse after a standstill lets the angle run on with the
  time between pulses measured before it, until the ring agrees again; the first change of
  `numimp` leaves `lastN` as it was, so pulses are made up once.
- `qclamp.h:70`: with `qlimfrq` 1 or 2 the lower threshold is not above zero: once opened,
  the clamp is not restricted again.
- `vehiclecontrol.cpp:662`: a stator of a large Tesla unit that reads 20 or less (above about
  160 degrees) is taken for ground, and its reading dropped.
- `vehiclecontrol.cpp:507`: an instrument output that falls to 0 is not written, the gauge
  keeps showing the last positive value.
- `pwmgeneration-sine.cpp:181` with `doc/pwmgeneration.md:84`: a comment and the document let
  the current limit begin at 80 % of `iacmax`; a margin of a twentieth is 95 %.
- `pwmgeneration-sine.cpp:181`: an `iacmax` below 20 digits (0.6 A) and above 0 divides by
  zero; `SlipAssumption` excludes it.
- `pwmgeneration-sine.cpp:184`: while regenerating, the slip is negative and so is the margin
  of a current beyond the limit: their product is a positive set point, and the slip filter
  winds up above the least slip until the current has fallen. `OverloadHeld` therefore
  counts the slip's interrupts only while the slip is not negative.
- `pwmgeneration-sine.cpp:188`: `ifltrise` and `ifltfall` go up to 32, but from 16 on the
  filter's shift of a setpoint of 2000 % overflows an int.
- `pwmgeneration-sine.cpp:130`: `slipstart` 100 divides zero by zero at full torque; the
  conversion makes 0 of it, so full throttle asks for no slip.
- `pwmgeneration-sine.cpp:108`: with the default `fweakstrt` of 400 Hz above `fconst` of 180 Hz
  the slip at full torque falls beyond 400 Hz instead of rising, while the pedal is low
  (cruise control) or released.
- `pwmgeneration-sine.cpp:120`: on the way down the filter loses nothing, so the slip stays up
  to the rounding error above its set point (15 digits, 0.47 Hz, at the default filter).
- `temp_meas.cpp:111`: the KTY84's entry ends at 300 degrees, its table at 310.
- `inc_encoder.cpp:222`: turning back over zero, and jitter about half a turn, advance
  the turn counter too.

## 4. What is proved

All proofs are checked to the last leaf; nothing is assumed but the named ASSUMEs on
the constants, which TLC evaluates in the runs.

**InverterProofs.** `TypeCorrect` holds for every variant, board and delay.
`ContactorAfterBrake` (`ContactorNeedsBrake`) rests on `BrakeInv`: `newMode` is only set
once the brake check has passed; the cruise modes off and pot pass it without the pedal. For
the FOC variant on boards without prerun (`Control = "FOC"`, `"PRIUS" \notin HwRevs`,
hypotheses of the theorems) `LockCorrect` establishes `TypeOK /\ LockInv`. `SaveGate` alone
is not inductive: between `DisableSaving` and `SetOpmode`, and between `SetOpmode(MOD_OFF)`
and `EnableSaving`, the two facts it relates change at different steps with interrupts in
between. `LockInv` names what holds at each place: `AtRestInv` (saving allowed only with PWM
off and a delay pending), `StoppingInv`, `StartingInv` (the gate is shut before SetOpmode
begins), `TaskAloneInv` (no other thread is inside SetOpmode). From it follow
`SaveGateCorrect`, `DelayMeansOffCorrect`, `CalibrationCorrect` and `LockRefinement`: every
step of the state machine is a step of `ParameterLock` or a stutter. The hypotheses are
needed: the SINE terminal and the Prius prerun start PWM with the gate open.

The other invariants of start and stop hold with two threads half way into each other's
SetOpmode. They rest on `OneCallInv` (a thread is inside only while its own code has called
it) and on lemmas that say which steps leave a thread, the outputs or the task alone:

- `BreakArmedCorrect`, both variants, all boards. Between calls is not inductive: `BreakInv`
  names the call that is still to arm the interrupt.
- `ContactorOutlastsMode`, both variants, all boards and trip modes, where START commands no
  mode. `ContactorInv` adds that a tick whose copy of opmode says off, and which is thus
  about to open the contactor, goes with an opmode that is off: what comes in between
  only ever forces it off.
- `ChannelsMatchCorrect`, FOC only, from `ChannelsInv`: the final switch of SetOpmode reads the
  mode again, and with one calling thread it is the one the call was given. In the SINE
  variant it need not be, and `StartIntoOff` shows what follows.

**CanProofs.** `LatchIsFinal`: once latched, no order of frames and tasks lets a value
in. Its invariant `LatchInv` says that a receiver that latched is not past the judge.
`CanTypeCorrect` is type correctness. `CleanBusCorrect` rests on `CleanInv`: on a clean
bus the frame under way carries the sender's own counter, which no later frame repeats;
the first may carry the one the receiver booted with, which is the one error it allows.
`LatchCorrect` (`LatchedIffExcess`) is about counting: until the latch, the error count
is the greatest excess of bad over good frames over any stretch that ends now
(`HistoryInv`). Its lemmas say how appending a verdict changes the number of bad and
good ones in a stretch, so no induction over the log is needed.

**HostProofs** is about what a host may command. `CeilingTypeCorrect`;
`AuthorityIsBounded` from `BootInv` (from the step that latches on, each latch is the
ceiling saved at boot, and nothing is commanded before) with lemmas on the clamps for
both signs; `LoweringActsAtOnce`. `SilentHostAlwaysZeroed` and `CommandAlwaysKept` rest
on `WatchdogAwake`: within one turn of the clock the watchdog's age of the last command
is the silence (`AgeIsSilence`), and a command that still stands was too young at every
check since, so the clock cannot have come round in the meantime (`StillYoung`). Without
the second part nothing excludes that the wrap hides the silence; it needs the timeout
to be less than the clock by three, which `TimeoutAssumption` says. `TimeoutTypeCorrect`
is type correctness.

**SensorProofs** is about what is measured. `UpdateTurnsIsExact`: two samples less than
half a turn apart give the movement exactly, whichever way round the wrap lies. On it
rests `MovementInv`: accumulator, the task's copy and the distance together are the
rotor's movement (`AngleInv`), the timer's count (AB) exceeds it by at most a turn per sample
(`CounterInv`), and the delay and the samples since the reset add up (`DelayInv`). It
gives `MovementIsConserved`, `FrequencyIsCorrect`, `ResetIsQuiet` and
`EncoderTypeCorrect`, for every resolution, step, delay and number of pole pairs.
`PulsesAlwaysCounted` rests on `RingTellsPulses`, the place in the ring against the
pulses that came, for every size of the ring. `StandstillAlwaysSeen` adds that the
encoder's count of silent interrupts is at least the true one.

`LookupAlwaysReadsTable` holds for every reading of every table that is not reversed. Of
a table it takes little: at least two entries, and that the one the search starts at is
the lowest or the highest as the flag says (`FitSensor`, shown of each). `StopsFirst`
finds the least entry the loop stops at (`LeastNumber`, by well-founded descent),
`PartOfStep` bounds the interpolated part. `TemperatureIsTyped` and `PulseTypeCorrect`
are type correctness. `OwnSensorsAlwaysCount` rests on `RoundInv`: at each position of
the multiplexer, the hottest so far is that of the slots this round has read
(`HeatSinkSeen`, `StatorSeen`, `MotorSeen`).

**CurrentProofs** holds the theorems on `QClamp`, `AntiCog`, `CurrentOffsets`, `Charger`
and `SlipControl`. `ClampStaysInCircle` is inductive with the bounds' signs
(`InCircle`). `ClampBlocksRegen` needs `WalksIn`: how far the blocked bound can still be
from zero, in terms of the interrupts since the clamp began to restrict; a step is at
least a `2 * SlewDivisor`-th of the limit, whence the two walks. `CalibrationComesFirst`
rests on `WaitSuffices`: what is left of the init phase suffices to empty the buffer and
fill it anew, at every filling. `ChargerAlwaysYields` rests on `ReferenceGranted`.
`SwingAlwaysReal` holds for any angles and currents: `SwingSeen` says that, between
crossings, the extremes are the least and greatest of the currents sampled since the last
one and that there is at least one wherever the rotor is before half a turn, from where
alone it can cross. `TriangleIsContinuous` compares the triangle
at neighbouring angles by quarters and at their boundaries; with the scaling's monotony
(`SignalFollows`) it gives `WaveAlwaysSmooth`. `SlipAlwaysBounded` rests on
`FilterBounded` (a filter raised by what it loses still does not pass its set point),
`FullSlipBounded` and `SetPointBounded`, and on `SlipInv`, which bounds the slip
wherever it is on its way: in the task's hands, stored, and as increment.

`WrongWayFades` and `OverloadHeld` say that a filter has run out after so many steps,
and how many that takes depends on its rounding. The theorems take the bound left after
each step as a parameter: `Fades(left, steps, weights)` says that a filter of any of
these weights takes each bound to the next, and the last is 0; `WindsUpTo` says how far
the filters may be wound up when the overload begins, negative slips included. Any table
that satisfies them will do, so no induction over steps is needed
(`WrongWayAlwaysFades`, `OverloadAlwaysHeld`). The run's constants do: 5, 3, 2, 1, 0 for
the amplitude in `WrongWayFades`; 8, 4, 2, 1, 0, 0, 0 for the amplitude, 5, 2, 1, 0, 0,
0, 0 for the slip and a least slip of -1 in `OverloadHeld`. That such a table always
exists once there are as many steps as digits, as a filter loses at least one each, is
`WrongWayFadesInTime` and `OverloadHeldInTime`.

The types of the five components are `SlipTypeCorrect`, `ClampTypeCorrect`,
`AntiCogTypeCorrect`, `OffsetsTypeCorrect` and `ChargerTypeCorrect`.

**UnitsProofs.** `UnitsTypeCorrect`: a step of `Units` is a step of the component at work and
none of any other (`EveryComponentSteps`), so `Units` implements each of the eleven
specifications by construction, and their types carry over.

**ThrottleProofs** is about the functions alone. `CalcThrottleBounded` and `BiDirBounded`:
for every calibration, regen travel and curve, a pedal asks for no more than the whole
travel and for no more regeneration than the parameters say and one unit, and on the
brake it does not drive. They rest on `Share` (a share of a quantity is between zero and
the quantity) for each of the divisions. `LimitCommandNarrows`: whatever the readings, the
result of the chain of limiters has the request's sign and at most its size, from one
lemma per kind of limiter and `NarrowsTransitive`.

**DriveProofs** (module Drive, for every tuning, set of modes, pedal, speed and reading).
`UserCommandBounded` carries the pedal's bounds over to every pedal mode, with broken
channels and a silent CAN. The properties of the state machine follow from
`DriveInv`, whose parts are proved separately:

- `CruiseInv`: a cruise speed by switch implies that the switch was on when last seen,
  and a cancelled one that it is off. `CancelledStaysCancelled` alone is not inductive: it
  does not say that the edge which would take a new speed is not due.
- `BrakeInv`: once a 100 ms task has seen the brake, only the limiter keeps a cruise
  speed. With `RampNeverRaises` it gives `BrakeWins`.
- `TaperInv`: the hold counter and the ticks at standstill add up to no more than the
  hold. It differs by one between `Request` and `Output`, since one step counts and the
  other takes from the counter.
- `PressedInv`: a request of a percent or more at the start is still one, and pins neutral.

The theorems on behaviours are `TypeCorrect`, `LimitersOnlyNarrow`, `CruiseStaysCancelled`,
`BrakeAlwaysWins`, `BrakeLightIsHonest`, `RegenIsReleased` and `PressedStartYieldsNothing`.
They rest on `TuningAssumption`, the signs and ranges `param_prj.h` gives the parameters.

Every invariant and action property of a passing run is thus a theorem, some under the
hypotheses named above. Only model-checked: the properties under fairness
(`OffTakesEffect`, `StartCompletes`, `StopHalts`, `HungSenderLosesControl`,
`CommsLossCancelsCruise`), which are out of the prover's reach together with ENABLED,
induction over data and RECURSIVE operators; and the runs that expect a violation.
`SaveGate`, `DelayMeansOff`, `LatchedTakesNothing`, `LoweringIsImmediate`,
`QuietAfterReset`, `ContactorNeedsBrake` and `NoBrakeLightUnderPower` are proved and not
run again. The SINE variant's save gate does not hold.

## 5. Not modelled

- CAN transmission (the slot shared by two tasks) and `Param::Change`, whose effects are
  constants or free choices of the modules they reach. Dual pot plausibility only raises
  an error.
- In `Drive`: quadrature encoders' loss of direction at standstill, field weakening derating,
  modes changed while driving, error messages; throttle and cruise speed come from
  anywhere, not from the CAN frame's model.
- Encoder: the index pulse of ABZ, change of `encmode` or `numimp` while running, the
  resolver's ADC decoding, the spike error.
- Controllers, space-vector modulation, field weakening, the SINE variant's RMS
  measurement and voltage curve: numeric, with no state that another part races with.
- The charger's controller is taken to reach its reference; the current offsets' values
  and the sensors' noise are left out.
- Hardware set-up, error list, libraries, tests, benches: no state of their own here,
  or not part of the firmware.
- Weak memory, compiler reordering and the exact ratio of the task and PWM periods.

## 6. Plan

Order: what decides whether the motor is driven came first (state machine, CAN frame),
then what it is asked for (drive command, limits) and what bounds it (ceilings,
watchdog), then what measures it (encoder, currents, temperatures) and what acts in the
PWM interrupt (clamp, anti-cogging, offsets, charger, slip). Next:

1. Theorems: the safety half of the liveness properties (what `StopHalts` and
   `HungSenderLosesControl` leave unchanged while they wait).
2. Compose `CanControl` with `Drive`: loss of the bus while cruise control, limiter or CAN
   pot drive; the latch's effect on the speed limiter.
3. The CAN transmission slot, the index pulse of ABZ and run-time change of `encmode` as
   small modules.
4. Abstract specification of the torque path (no torque in neutral, none in off, bounded
   by pedal, controllers and limits), refined by `Drive`.
