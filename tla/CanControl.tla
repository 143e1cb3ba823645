----------------------------- MODULE CanControl -----------------------------
(***************************************************************************)
(* The CAN control frame: how VehicleControl::CanReceive judges a frame    *)
(* (optional CRC, two copies of a rolling counter, an error count that     *)
(* latches), what it writes, and how the tasks that use those values time  *)
(* them out (GetDigInputs, GetUserThrottleCommand, CruiseControl).         *)
(*                                                                         *)
(* CanReceive runs in the CAN interrupt, below the scheduler's priority:   *)
(* the tasks may run between any two of its writes, never the other way.   *)
(*                                                                         *)
(* Data: a payload is what one frame asks for. Time is counted in ticks of *)
(* the 10 ms clock since the last stamp, up to the timeout and no further. *)
(***************************************************************************)
EXTENDS Integers

CONSTANTS
  MaxErrors,     \* errors at which reception latches (5)
  CanTimeout,    \* CAN_TIMEOUT: clock ticks until the values are void (50)
  CounterMod,    \* values of the rolling counter (4: two bits)
  ControlCheck,  \* parameter controlcheck: is the CRC looked at
  PotFromCan,    \* potmode has the CAN bit
  CruiseMode,    \* parameter cruisemode
  Payloads,      \* [io, pot, regen, speed] of the frames a sender may send
  Pins           \* digital inputs that may be high at the connector

IoBits == {"cruise", "start", "brake", "forward", "reverse", "bms"}

PayloadType == [io : SUBSET IoBits, pot : Nat, regen : 0 .. 100, speed : Nat]

ASSUME FrameAssumption ==
  /\ MaxErrors \in Nat \ {0}
  /\ CanTimeout \in Nat \ {0}
  /\ CounterMod \in Nat \ {0, 1}
  /\ ControlCheck \in BOOLEAN
  /\ PotFromCan \in BOOLEAN
  /\ CruiseMode \in {"off", "can", "limiter"}
  /\ Payloads \subseteq PayloadType
  /\ Pins \subseteq IoBits

Counters == 0 .. CounterMod - 1

\* crc: does the check byte agree with the rest of the frame.
Frames == [ctr1 : Counters, ctr2 : Counters, crc : BOOLEAN, data : Payloads]

NoFrame == [none |-> TRUE]

VARIABLES
  bus,          \* the frame on the bus, or NoFrame
  sent,         \* the sender's counter
  stuck,        \* the sender repeats its last frame for ever
  clean,        \* nothing has gone wrong on the bus or at the sender yet
  canErrors, seqCounter,
  rxStep, rx,   \* progress of CanReceive and the frame it works on
  age,          \* rtc_get_counter_val() - lastCanRxTime, up to CanTimeout
  canio, canIoActive, regenpreset, pot, cruisespeed,
  din,          \* digital inputs after the last GetDigInputs
  throttle,     \* pot value the last GetUserThrottleCommand used, 0 for none
  cruise        \* Throttle::cruiseSpeed

sender == <<bus, sent, stuck, clean>>
judge == <<canErrors, seqCounter>>
receiver == <<rxStep, rx>>
values == <<canio, regenpreset, pot, cruisespeed>>
users == <<canIoActive, din, throttle, cruise>>
vars == <<sender, judge, receiver, age, values, users>>

TypeOK ==
  /\ bus \in Frames \cup {NoFrame}
  /\ sent \in Counters
  /\ {stuck, clean, canIoActive} \subseteq BOOLEAN
  /\ canErrors \in 0 .. MaxErrors
  /\ seqCounter \in Counters
  /\ rxStep \in {"idle", "stamp", "io", "pot", "cruise", "latched"}
  /\ rx \in IF rxStep = "idle" THEN {NoFrame} ELSE Frames
  /\ age \in 0 .. CanTimeout
  /\ canio \in SUBSET IoBits
  /\ regenpreset \in 0 .. 100
  /\ {pot, throttle} \subseteq Nat
  /\ cruisespeed \in Nat \cup {-1}
  /\ din \in SUBSET IoBits
  /\ cruise \in Nat \cup {-1}

\* Boot: SetCan clears the counters, UpgradeParameters presets full regen.
Init ==
  /\ bus = NoFrame
  /\ sent \in Counters
  /\ stuck = FALSE
  /\ clean = TRUE
  /\ canErrors = 0
  /\ seqCounter = 0
  /\ rxStep = "idle"
  /\ rx = NoFrame
  /\ age = 0
  /\ canio = {}
  /\ canIoActive = FALSE
  /\ regenpreset = 100
  /\ pot = 0
  /\ cruisespeed = 0
  /\ din = {}
  /\ throttle = 0
  /\ cruise = -1

-----------------------------------------------------------------------------
(* The bus and the unit that sends the frame. Frames may be lost, damaged  *)
(* or arrive twice; a sender may hang and repeat itself.                   *)

Send ==
  /\ bus = NoFrame
  /\ sent' = IF stuck THEN sent ELSE (sent + 1) % CounterMod
  /\ \E data \in Payloads :
       bus' = [ctr1 |-> sent', ctr2 |-> sent', crc |-> TRUE, data |-> data]
  /\ UNCHANGED <<stuck, clean, judge, receiver, age, values, users>>

Hang ==
  /\ ~stuck
  /\ stuck' = TRUE
  /\ clean' = FALSE
  /\ UNCHANGED <<bus, sent, judge, receiver, age, values, users>>

Lose ==
  /\ bus # NoFrame
  /\ bus' = NoFrame
  /\ clean' = FALSE
  /\ UNCHANGED <<sent, stuck, judge, receiver, age, values, users>>

\* Any part of the frame may change. The CRC finds every damage; without the
\* check only the counters can. CanReceive remembers even a damaged counter.
Damage ==
  /\ bus # NoFrame
  /\ \E ctr1, ctr2 \in Counters, data \in Payloads :
       bus' = [ctr1 |-> ctr1, ctr2 |-> ctr2, crc |-> FALSE, data |-> data]
  /\ clean' = FALSE
  /\ UNCHANGED <<sent, stuck, judge, receiver, age, values, users>>

-----------------------------------------------------------------------------
(* CanReceive.                                                             *)

\* The counters disagree, or have not moved since the last frame.
CounterWrong_NeverStale(f) == f.ctr1 # f.ctr2

CounterWrong_MustRepeat(f) == f.ctr1 # f.ctr2 \/ f.ctr1 # seqCounter

CounterWrong(f) == f.ctr1 # f.ctr2 \/ f.ctr1 = seqCounter

Bad(f) == (ControlCheck /\ ~f.crc) \/ CounterWrong(f)

CountErrors_NoHealing(f) ==
  IF Bad(f) /\ canErrors < MaxErrors THEN canErrors + 1 ELSE canErrors

\* A bad frame counts up, a good one down, until the count has latched.
CountErrors(f) ==
  IF canErrors = MaxErrors THEN canErrors
  ELSE IF Bad(f) THEN canErrors + 1
       ELSE IF canErrors > 0 THEN canErrors - 1 ELSE 0

\* The frame leaves the bus, or stays on it to be delivered a second time.
Receive ==
  /\ rxStep = "idle"
  /\ bus # NoFrame
  /\ \/ /\ bus' = NoFrame
        /\ UNCHANGED clean
     \/ /\ clean' = FALSE
        /\ UNCHANGED bus
  /\ canErrors' = CountErrors(bus)
  /\ seqCounter' = bus.ctr1
  /\ rx' = bus
  /\ rxStep' = IF canErrors' < MaxErrors THEN "stamp" ELSE "latched"
  /\ UNCHANGED <<sent, stuck, age, values, users>>

RxStamp ==
  /\ rxStep = "stamp"
  /\ age' = 0
  /\ rxStep' = "io"
  /\ UNCHANGED <<sender, judge, rx, values, users>>

RxIo ==
  /\ rxStep = "io"
  /\ canio' = rx.data.io
  /\ regenpreset' = rx.data.regen
  /\ rxStep' = "pot"
  /\ UNCHANGED <<sender, judge, rx, age, pot, cruisespeed, users>>

RxPot ==
  /\ rxStep = "pot"
  /\ pot' = IF PotFromCan THEN rx.data.pot ELSE pot
  /\ rxStep' = "cruise"
  /\ UNCHANGED <<sender, judge, rx, age, canio, regenpreset, cruisespeed, users>>

UsesCruisespeed == CruiseMode \in {"can", "limiter"}

RxDone == rxStep' = "idle" /\ rx' = NoFrame

RxCruise ==
  /\ rxStep = "cruise"
  /\ cruisespeed' = IF UsesCruisespeed THEN rx.data.speed ELSE cruisespeed
  /\ RxDone
  /\ UNCHANGED <<sender, judge, age, canio, regenpreset, pot, users>>

\* Latched: pot and canio are left to the functions that use them.
RxLatched ==
  /\ rxStep = "latched"
  /\ regenpreset' = 0
  /\ cruisespeed' = IF UsesCruisespeed THEN 0 ELSE cruisespeed
  /\ RxDone
  /\ UNCHANGED <<sender, judge, age, canio, pot, users>>

CanReceive == Receive \/ RxStamp \/ RxIo \/ RxPot \/ RxCruise \/ RxLatched

-----------------------------------------------------------------------------
(* The tasks that use the values.                                          *)

Older(n) == IF n < CanTimeout THEN n + 1 ELSE n

\* The RTC counter. Ages past the timeout are all alike.
Elapse ==
  /\ age' = Older(age)
  /\ UNCHANGED <<sender, judge, receiver, values, users>>

GetDigInputs_NoTimeout ==
  /\ canIoActive' = (canIoActive \/ canio # {})
  /\ UNCHANGED canio
  /\ \E pins \in SUBSET Pins : din' = canio \cup pins

GetDigInputs ==
  /\ canIoActive' = (canIoActive \/ canio # {})
  /\ canio' = IF age >= CanTimeout /\ canIoActive' THEN {} ELSE canio
  /\ \E pins \in SUBSET Pins : din' = canio' \cup pins

\* The CAN branch of GetUserThrottleCommand; an analog pot is not this module's.
GetUserThrottleCommand ==
  throttle' = IF PotFromCan /\ age < CanTimeout THEN pot ELSE 0

Ms10Task ==
  /\ GetDigInputs
  /\ GetUserThrottleCommand
  /\ UNCHANGED <<sender, judge, receiver, age, regenpreset, pot, cruisespeed,
                 cruise>>

\* CruiseControl, called by the 100 ms task. In limiter mode the speed only
\* limits and the brake does not cancel it; cruisemode "off" publishes its -1.
CruiseControl ==
  /\ \/ /\ CruiseMode = "limiter"
        /\ cruise' = IF "cruise" \in din THEN cruisespeed ELSE -1
        /\ UNCHANGED cruisespeed
     \/ /\ CruiseMode = "can"
        /\ cruise' = IF "cruise" \in din /\ "forward" \in din /\ "brake" \notin din
                     THEN cruisespeed ELSE -1
        /\ UNCHANGED cruisespeed
     \/ /\ CruiseMode = "off"
        /\ cruise' = -1
        /\ cruisespeed' = -1
  /\ UNCHANGED <<sender, judge, receiver, age, canio, regenpreset, pot,
                 canIoActive, din, throttle>>

-----------------------------------------------------------------------------

Next ==
  \/ Send
  \/ Hang
  \/ Lose
  \/ Damage
  \/ CanReceive
  \/ Elapse
  \/ Ms10Task
  \/ CruiseControl

\* The clock advances, the scheduler calls its tasks, and an interrupt that has
\* begun runs to its end. Nothing promises that a frame is sent or arrives.
Fairness ==
  /\ WF_vars(Elapse)
  /\ WF_vars(Ms10Task)
  /\ WF_vars(CruiseControl)
  /\ WF_vars(RxStamp \/ RxIo \/ RxPot \/ RxCruise \/ RxLatched)

Spec == Init /\ [][Next]_vars

FairSpec == Spec /\ Fairness
=============================================================================
