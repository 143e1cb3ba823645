----------------------------- MODULE HostProofs ------------------------------
(***************************************************************************)
(* Proofs about what a host may command: the authority ceilings, for every *)
(* range of the parameters, and the command-silence watchdog, for every    *)
(* width of the clock and every timeout.                                   *)
(***************************************************************************)
EXTENDS CurrentCeiling, CommandTimeout, TLAPS

-----------------------------------------------------------------------------
(* The clamps.                                                             *)

\* The smaller of two ceilings is a ceiling, and below both.
LEMMA EffectiveCeilingIsLeast ==
  ASSUME NEW live \in Nat, NEW latched \in Nat
  PROVE  /\ EffectiveCeiling(live, latched) \in Nat
         /\ EffectiveCeiling(live, latched) <= live
         /\ EffectiveCeiling(live, latched) <= latched
BY DEF EffectiveCeiling

\* Clamping works on both signs.
LEMMA ClampBounds ==
  ASSUME NEW cmd \in Int, NEW maxMag \in Nat
  PROVE  Clamp(cmd, maxMag) \in Int /\ Within(Clamp(cmd, maxMag), maxMag)
BY DEF Clamp, Within

\* What lies within a ceiling lies within any higher one.
LEMMA WithinMonotone ==
  ASSUME NEW cmd \in Int, NEW low \in Nat, NEW high \in Nat,
         low <= high, Within(cmd, low)
  PROVE  Within(cmd, high)
BY DEF Within

\* A command clamped to the effective ceiling obeys the live ceiling and the
\* latched one.
LEMMA ClampedByBoth ==
  ASSUME NEW cmd \in Int, NEW live \in Nat, NEW latched \in Nat
  PROVE  LET c == Clamp(cmd, EffectiveCeiling(live, latched))
         IN c \in Int /\ Within(c, live) /\ Within(c, latched)
<1> DEFINE m == EffectiveCeiling(live, latched)
<1> DEFINE c == Clamp(cmd, m)
<1>1. m \in Nat /\ m <= live /\ m <= latched
  BY EffectiveCeilingIsLeast
<1>2. c \in Int /\ Within(c, m)
  BY <1>1, ClampBounds
<1> HIDE DEF m, c
<1>3. Within(c, live) /\ Within(c, latched)
  BY <1>1, <1>2, WithinMonotone
<1> QED
  BY <1>2, <1>3 DEF c, m

-----------------------------------------------------------------------------
(* Type correctness.                                                       *)

\* The parts of CeilingTypeOK, as memberships the provers take apart.
LEMMA CeilingUnfolded ==
  ASSUME CeilingTypeOK
  PROVE  /\ flash.iq \in 0 .. IqMax /\ flash.throt \in 0 .. ThrotCurMax
         /\ booted.iq \in 0 .. IqMax /\ booted.throt \in 0 .. ThrotCurMax
         /\ manualiqmax \in Nat /\ manualIqMaxLatch \in Nat
         /\ throtcurmax \in Nat /\ throtCurMaxLatch \in Nat
         /\ manualiq \in Int /\ manualid \in Int /\ throtcur \in Int
BY RangeAssumption DEF CeilingTypeOK, Saved

LEMMA CeilingTypeInit == CeilingInit => CeilingTypeOK
BY RangeAssumption DEF CeilingInit, CeilingTypeOK, Saved

LEMMA RunBounds ==
  ASSUME CeilingTypeOK, Run
  PROVE  /\ iqCmd' \in Int /\ idCmd' \in Int
         /\ Within(iqCmd', manualiqmax) /\ Within(iqCmd', manualIqMaxLatch)
         /\ Within(idCmd', manualiqmax) /\ Within(idCmd', manualIqMaxLatch)
BY CeilingUnfolded, ClampedByBoth DEF Run

LEMMA SetTorquePercentBounds ==
  ASSUME CeilingTypeOK, SetTorquePercent
  PROVE  is' \in Int /\ Within(is', throtcurmax) /\ Within(is', throtCurMaxLatch)
<1>1. PICK torque \in -Torque .. Torque :
        is' = Clamp(throtcur * torque, EffectiveCeiling(throtcurmax, throtCurMaxLatch))
  BY DEF SetTorquePercent
<1>2. throtcur * torque \in Int
  BY CeilingUnfolded, RangeAssumption
<1> QED
  BY <1>1, <1>2, CeilingUnfolded, ClampedByBoth

LEMMA CeilingTypeStep == CeilingTypeOK /\ [CeilingNext]_ceilingVars => CeilingTypeOK'
<1> SUFFICES ASSUME CeilingTypeOK, [CeilingNext]_ceilingVars
             PROVE  CeilingTypeOK'
  OBVIOUS
<1> USE RangeAssumption
<1>1. CASE ParmLoad
  BY <1>1, CeilingUnfolded DEF ParmLoad, CeilingTypeOK, commands, latches, refs
<1>2. CASE LatchManualCurrentCeiling
  BY <1>2 DEF LatchManualCurrentCeiling, CeilingTypeOK, ceilings, commands, refs
<1>3. CASE LatchThrottleCurrentCeiling
  BY <1>3 DEF LatchThrottleCurrentCeiling, CeilingTypeOK, ceilings, commands, refs
<1>4. CASE WriteCeiling
  BY <1>4 DEF WriteCeiling, CeilingTypeOK, commands, latches, refs
<1>5. CASE WriteCommand
  BY <1>5 DEF WriteCommand, CeilingTypeOK, ceilings, latches, refs
<1>6. CASE Save
  <2>1. flash' \in Saved
    BY <1>6 DEF Save, CeilingTypeOK, Saved
  <2> QED
    BY <1>6, <2>1 DEF Save, CeilingTypeOK, ceilings, commands, latches, refs
<1>7. CASE Reload
  BY <1>7, CeilingUnfolded DEF Reload, CeilingTypeOK, commands, latches, refs
<1>8. CASE Gate
  BY <1>8 DEF Gate, CeilingTypeOK, ceilings, commands, latches, refs
<1>9. CASE Reset
  BY <1>9 DEF Reset, CeilingTypeOK
<1>10. CASE Run
  BY <1>10, RunBounds DEF Run, CeilingTypeOK, ceilings, commands, latches
<1>11. CASE SetTorquePercent
  BY <1>11, SetTorquePercentBounds DEF SetTorquePercent, CeilingTypeOK, ceilings, commands,
     latches
<1>12. CASE UNCHANGED ceilingVars
  BY <1>12 DEF CeilingTypeOK, ceilingVars, ceilings, commands, latches, refs
<1> QED
  BY <1>1, <1>2, <1>3, <1>4, <1>5, <1>6, <1>7, <1>8, <1>9, <1>10, <1>11, <1>12
     DEF CeilingNext

\* The ceilings, latches, commands and references stay in their ranges.
THEOREM CeilingTypeCorrect == CeilingSpec => []CeilingTypeOK
BY CeilingTypeInit, CeilingTypeStep, PTL DEF CeilingSpec

-----------------------------------------------------------------------------
(* The authority bound.                                                    *)

\* How the boot carries the saved ceilings from flash through RAM into the
\* latches while no host can reach either.
BootInv ==
  /\ boot = "load" => booted = flash
  /\ boot \in {"latchIq", "latchThrot"} => throtcurmax = booted.throt
  /\ boot = "latchIq" => manualiqmax = booted.iq
  /\ boot \in {"latchThrot", "up"} => manualIqMaxLatch = booted.iq
  /\ boot = "up" => throtCurMaxLatch = booted.throt

IInv == CeilingTypeOK /\ BootInv /\ AuthorityBounded

LEMMA BootInit == CeilingInit => BootInv /\ AuthorityBounded
BY RangeAssumption DEF CeilingInit, BootInv, AuthorityBounded, Within, Saved

LEMMA BootStep ==
  ASSUME BootInv, [CeilingNext]_ceilingVars
  PROVE  BootInv'
<1> USE DEF BootInv
<1>1. CASE ParmLoad
  BY <1>1 DEF ParmLoad, latches
<1>2. CASE LatchManualCurrentCeiling
  BY <1>2 DEF LatchManualCurrentCeiling, ceilings
<1>3. CASE LatchThrottleCurrentCeiling
  BY <1>3 DEF LatchThrottleCurrentCeiling, ceilings
<1>4. CASE WriteCeiling \/ WriteCommand \/ Save \/ Reload
  BY <1>4 DEF WriteCeiling, WriteCommand, Save, Reload, HostReachable, ceilings, latches
<1>5. CASE Gate \/ Run \/ SetTorquePercent
  BY <1>5 DEF Gate, Run, SetTorquePercent, HostReachable, ceilings, latches
<1>6. CASE Reset
  BY <1>6 DEF Reset
<1>7. CASE UNCHANGED ceilingVars
  BY <1>7 DEF ceilingVars, ceilings, latches
<1> QED
  BY <1>1, <1>2, <1>3, <1>4, <1>5, <1>6, <1>7 DEF CeilingNext

LEMMA AuthorityStep ==
  ASSUME IInv, [CeilingNext]_ceilingVars
  PROVE  AuthorityBounded'
<1>1. CASE Run
  <2>1. booted' = booted /\ is' = is /\ manualIqMaxLatch = booted.iq
    BY <1>1 DEF Run, IInv, BootInv, HostReachable
  <2> QED
    BY <1>1, <2>1, RunBounds DEF IInv, AuthorityBounded
<1>2. CASE SetTorquePercent
  <2>1. booted' = booted /\ iqCmd' = iqCmd /\ idCmd' = idCmd
          /\ throtCurMaxLatch = booted.throt
    BY <1>2 DEF SetTorquePercent, IInv, BootInv, HostReachable
  <2> QED
    BY <1>2, <2>1, SetTorquePercentBounds DEF IInv, AuthorityBounded
<1>3. CASE Reset
  BY <1>3, CeilingUnfolded, RangeAssumption DEF Reset, IInv, AuthorityBounded, Within
<1>4. CASE UNCHANGED <<refs, booted>>
  BY <1>4 DEF IInv, AuthorityBounded, refs
<1>5. CASE ParmLoad \/ LatchManualCurrentCeiling \/ LatchThrottleCurrentCeiling
  BY <1>4, <1>5
     DEF ParmLoad, LatchManualCurrentCeiling, LatchThrottleCurrentCeiling
<1>6. CASE WriteCeiling \/ WriteCommand \/ Save \/ Reload \/ Gate
  BY <1>4, <1>6 DEF WriteCeiling, WriteCommand, Save, Reload, Gate
<1> QED
  BY <1>1, <1>2, <1>3, <1>4, <1>5, <1>6 DEF CeilingNext, ceilingVars

\* No sequence of host writes, saves, reloads and restarts yields a command
\* beyond the ceiling that was in flash at the last restart.
THEOREM AuthorityIsBounded == CeilingSpec => []AuthorityBounded
<1>1. CeilingInit => IInv
  BY CeilingTypeInit, BootInit DEF IInv
<1>2. IInv /\ [CeilingNext]_ceilingVars => IInv'
  BY CeilingTypeStep, BootStep, AuthorityStep DEF IInv
<1>3. IInv => AuthorityBounded
  BY DEF IInv
<1> QED
  BY <1>1, <1>2, <1>3, PTL DEF CeilingSpec

\* A command computed after a ceiling was lowered obeys the lowered ceiling.
THEOREM LoweringActsAtOnce == CeilingSpec => LoweringIsImmediate
<1>1. CeilingTypeOK /\ [CeilingNext]_ceilingVars
        => [/\ Run => Within(iqCmd', manualiqmax) /\ Within(idCmd', manualiqmax)
            /\ SetTorquePercent => Within(is', throtcurmax)]_ceilingVars
  BY RunBounds, SetTorquePercentBounds
<1> QED
  BY <1>1, CeilingTypeInit, CeilingTypeStep, PTL DEF CeilingSpec, LoweringIsImmediate

-----------------------------------------------------------------------------
(* The command-silence watchdog.                                           *)

\* How long ago the last command was, by the clock.
Age == (now - last) % Rtc

\* The difference of two readings of the clock, and that of the next reading.
LEMMA ClockDifference ==
  ASSUME NEW m \in 0 .. Rtc - 1, NEW n \in 0 .. Rtc - 1
  PROVE  /\ (m - n) % Rtc = IF m >= n THEN m - n ELSE m - n + Rtc
         /\ (m - n) % Rtc \in 0 .. Rtc - 1
<1>1. Rtc \in Nat \ {0}
  BY TimeoutAssumption DEF TimeoutAssumption
<1>2. ASSUME NEW x \in 0 .. Rtc - 1
      PROVE  x % Rtc = x /\ (x - Rtc) % Rtc = x
  BY <1>1
<1>3. CASE m >= n
  BY <1>1, <1>2, <1>3
<1>4. CASE m < n
  <2> DEFINE x == m - n + Rtc
  <2>1. x \in 0 .. Rtc - 1 /\ x - Rtc = m - n
    BY <1>1, <1>4
  <2> HIDE DEF x
  <2>2. (x - Rtc) % Rtc = x
    BY <1>2, <2>1
  <2>3. QED
    BY <1>4, <2>1, <2>2 DEF x
<1>5. QED
  BY <1>3, <1>4

LEMMA ClockTicks ==
  ASSUME NEW m \in 0 .. Rtc - 1
  PROVE  /\ (m + 1) % Rtc \in 0 .. Rtc - 1
         /\ (m + 1) % Rtc = IF m = Rtc - 1 THEN 0 ELSE m + 1
<1>1. Rtc \in Nat \ {0}
  BY TimeoutAssumption DEF TimeoutAssumption
<1>2. CASE m = Rtc - 1
  BY <1>1, <1>2
<1>3. CASE m # Rtc - 1
  <2> DEFINE x == m + 1
  <2>1. x \in 0 .. Rtc - 1
    BY <1>1, <1>3
  <2> HIDE DEF x
  <2>2. x % Rtc = x
    BY <1>1, <2>1
  <2>3. QED
    BY <1>3, <2>1, <2>2 DEF x
<1>4. QED
  BY <1>2, <1>3

\* One tick makes a command one tick older, until the clock comes round.
LEMMA Ages ==
  ASSUME NEW m \in 0 .. Rtc - 1, NEW n \in 0 .. Rtc - 1
  PROVE  LET age == (m - n) % Rtc
         IN (((m + 1) % Rtc) - n) % Rtc = IF age = Rtc - 1 THEN 0 ELSE age + 1
<1>1. Rtc \in Nat \ {0}
  BY TimeoutAssumption DEF TimeoutAssumption
<1> DEFINE k == (m + 1) % Rtc
<1>2. k \in 0 .. Rtc - 1 /\ k = IF m = Rtc - 1 THEN 0 ELSE m + 1
  BY ClockTicks
<1> HIDE DEF k
<1> DEFINE a == (m - n) % Rtc
           b == (k - n) % Rtc
<1>3. a = IF m >= n THEN m - n ELSE m - n + Rtc
  BY ClockDifference
<1>4. b = IF k >= n THEN k - n ELSE k - n + Rtc
  BY <1>2, ClockDifference
<1> HIDE DEF a, b
<1>5. b = IF a = Rtc - 1 THEN 0 ELSE a + 1
  BY <1>1, <1>2, <1>3, <1>4
<1>6. QED
  BY <1>5 DEF a, b, k

ClockOK ==
  /\ now \in 0 .. Rtc - 1
  /\ last \in 0 .. Rtc - 1
  /\ iqtimeout \in Timeouts
  /\ silence \in 0 .. Rtc
  /\ steady \in 0 .. Rtc
  /\ change => silence = 0

\* Within one turn of the clock the watchdog knows the silence.
AgeIsSilence == seen /\ ~change /\ silence < Rtc => Age = silence

\* Ticks since the last command or setting of the timeout.
Watched == IF silence <= steady THEN silence ELSE steady

Commanding == ~(iq = 0 /\ id = 0) /\ seen /\ ~change /\ iqtimeout # 0

\* A command that is still there was too young at every check since, so the clock
\* has not come round in this time.
StillYoung ==
  Commanding => /\ Watched <= Age + 1
                /\ Watched >= 2 /\ due => Age <= iqtimeout
                /\ Watched >= 1 /\ ~due => Age < iqtimeout

WatchdogAwake == ClockOK /\ AgeIsSilence /\ StillYoung

LEMMA AgeBounded == ClockOK => Age \in 0 .. Rtc - 1
  BY ClockDifference DEF ClockOK, Age

LEMMA TimeoutFits ==
  ClockOK => iqtimeout \in Nat /\ iqtimeout <= Rtc - 3 /\ Rtc \in Nat \ {0}
  BY TimeoutAssumption DEF ClockOK, TimeoutAssumption

LEMMA ElapseAges ==
  ClockOK /\ Elapse => Age' = IF Age = Rtc - 1 THEN 0 ELSE Age + 1
  BY Ages DEF ClockOK, Elapse, watchdog, Age

LEMMA WatchdogInit == TimeoutInit => WatchdogAwake
<1> SUFFICES ASSUME TimeoutInit PROVE WatchdogAwake
  OBVIOUS
<1>1. ClockOK
  BY TimeoutAssumption DEF TimeoutAssumption, TimeoutInit, ClockOK
<1>2. QED
  BY <1>1 DEF TimeoutInit, WatchdogAwake, AgeIsSilence, StillYoung, Commanding

LEMMA ClockKept == ClockOK /\ [TimeoutNext]_timeoutVars => ClockOK'
<1> SUFFICES ASSUME ClockOK, [TimeoutNext]_timeoutVars PROVE ClockOK'
  OBVIOUS
<1> USE DEF ClockOK
<1>0. Rtc \in Nat \ {0}
  BY TimeoutAssumption DEF TimeoutAssumption
<1>1. CASE Elapse
  <2>1. now' \in 0 .. Rtc - 1
    BY <1>1, ClockTicks DEF Elapse
  <2>2. QED
    BY <1>0, <1>1, <2>1 DEF Elapse, Longer, watchdog
<1>2. CASE StoreCommand
  BY <1>0, <1>2 DEF StoreCommand, clock, watchdog
<1>3. CASE Change
  BY <1>3 DEF Change, Note, clock, timeoutHistory
<1>4. CASE SetTimeout
  BY <1>0, <1>4 DEF SetTimeout, clock, watchdog
<1>5. CASE CheckManualCmdTimeout
  BY <1>5 DEF CheckManualCmdTimeout, watchdog, timeoutHistory
<1>6. CASE UNCHANGED timeoutVars
  BY <1>6 DEF timeoutVars, clock, watchdog, timeoutHistory
<1>7. QED
  BY <1>1, <1>2, <1>3, <1>4, <1>5, <1>6 DEF TimeoutNext

LEMMA WatchdogKept == WatchdogAwake /\ [TimeoutNext]_timeoutVars => WatchdogAwake'
<1> SUFFICES ASSUME WatchdogAwake, [TimeoutNext]_timeoutVars PROVE WatchdogAwake'
  OBVIOUS
<1>0. ClockOK /\ ClockOK'
  BY ClockKept DEF WatchdogAwake
<1>a. /\ Age \in 0 .. Rtc - 1 /\ Age' \in 0 .. Rtc - 1
      /\ iqtimeout \in Nat /\ iqtimeout <= Rtc - 3 /\ Rtc \in Nat \ {0}
  <2>1. Age \in 0 .. Rtc - 1 /\ (ClockOK => Age \in 0 .. Rtc - 1)'
    BY <1>0, AgeBounded, PTL
  <2>2. QED
    BY <1>0, <2>1, TimeoutFits
<1>b. ClockOK /\ AgeIsSilence /\ StillYoung
  BY DEF WatchdogAwake
<1> USE DEF AgeIsSilence, StillYoung, Commanding, Watched
<1>1. CASE Elapse
  <2>1. Age' = IF Age = Rtc - 1 THEN 0 ELSE Age + 1
    BY <1>0, <1>1, ElapseAges
  <2>2. /\ ~due /\ due' /\ silence' = Longer(silence) /\ steady' = Longer(steady)
        /\ UNCHANGED <<seen, iqtimeout, iq, id, change>>
    BY <1>1 DEF Elapse, watchdog, commanded
  <2> HIDE DEF Age
  <2>3. AgeIsSilence'
    BY <1>a, <1>b, <2>1, <2>2 DEF ClockOK, Longer
  <2>4. StillYoung'
    <3> SUFFICES ASSUME Commanding'
                 PROVE  Watched' <= Age' + 1 /\ (Watched' >= 2 => Age' <= iqtimeout')
      BY <2>2
    <3>1. Commanding
      BY <2>2
    <3>2. Watched \in Nat /\ Watched' \in Nat /\ Watched' <= Watched + 1
      BY <1>a, <1>b, <2>2 DEF ClockOK, Longer
    <3>3. Watched <= Age + 1 /\ (Watched >= 1 => Age < iqtimeout)
      BY <1>b, <2>2, <3>1
    <3> HIDE DEF Watched
    <3>4. QED
      BY <1>a, <2>1, <2>2, <3>2, <3>3
  <2>5. QED
    BY <1>0, <2>3, <2>4 DEF WatchdogAwake
<1>2. CASE StoreCommand
  BY <1>0, <1>2 DEF StoreCommand, WatchdogAwake
<1>3. CASE Change
  <2>1. last' = now /\ now' = now /\ silence = 0 /\ silence' = 0 /\ steady' = steady
    BY <1>0, <1>3 DEF Change, Note, clock, timeoutHistory, ClockOK
  <2>2. Age' = 0
    BY <1>0, <2>1, ClockDifference DEF Age, ClockOK
  <2> HIDE DEF Age
  <2>3. QED
    BY <1>0, <1>a, <2>1, <2>2 DEF WatchdogAwake, ClockOK
<1>4. CASE SetTimeout
  <2>1. Age' = Age
    BY <1>4 DEF SetTimeout, Age, clock, watchdog
  <2> HIDE DEF Age
  <2>2. QED
    BY <1>0, <1>a, <1>b, <1>4, <2>1 DEF SetTimeout, WatchdogAwake, clock, watchdog, commanded,
       ClockOK
<1>5. CASE CheckManualCmdTimeout
  <2>1. Age' = Age
    BY <1>5 DEF CheckManualCmdTimeout, Age, watchdog
  <2>2. /\ due /\ ~due'
        /\ iq' = IF Expired THEN 0 ELSE iq
        /\ id' = IF Expired THEN 0 ELSE id
        /\ UNCHANGED <<now, last, seen, iqtimeout, change, silence, steady>>
    BY <1>5 DEF CheckManualCmdTimeout, watchdog, timeoutHistory
  <2>3. Expired <=> seen /\ iqtimeout # 0 /\ Age >= iqtimeout
    BY Zenon DEF Expired, Age
  <2> HIDE DEF Age, Expired
  <2>4. QED
    BY <1>0, <1>a, <1>b, <2>1, <2>2, <2>3 DEF WatchdogAwake
<1>6. CASE UNCHANGED timeoutVars
  BY <1>0, <1>b, <1>6 DEF timeoutVars, clock, watchdog, commanded, timeoutHistory, WatchdogAwake, Age
<1>7. QED
  BY <1>1, <1>2, <1>3, <1>4, <1>5, <1>6 DEF TimeoutNext

\* For every width of the clock and every timeout, a silent host commands nothing.
THEOREM SilentHostAlwaysZeroed == TimeoutSpec => []SilentHostZeroed
<1>1. WatchdogAwake => SilentHostZeroed
  <2> SUFFICES ASSUME WatchdogAwake, seen, iqtimeout # 0, silence > iqtimeout,
                      steady > iqtimeout + 1, ~(iq = 0 /\ id = 0)
               PROVE  FALSE
    BY DEF SilentHostZeroed
  <2>1. ClockOK /\ AgeIsSilence /\ StillYoung
    BY DEF WatchdogAwake
  <2>2. /\ Age \in 0 .. Rtc - 1
        /\ iqtimeout \in Nat /\ iqtimeout <= Rtc - 3 /\ Rtc \in Nat \ {0}
    BY <2>1, AgeBounded, TimeoutFits
  <2>3. ~change
    BY <2>1, <2>2 DEF ClockOK
  <2>4. /\ Watched <= Age + 1
        /\ Watched >= 2 /\ due => Age <= iqtimeout
        /\ Watched >= 1 /\ ~due => Age < iqtimeout
        /\ silence < Rtc => Age = silence
    BY <2>1, <2>3 DEF StillYoung, Commanding, AgeIsSilence
  <2> HIDE DEF Age
  <2>5. Watched > iqtimeout /\ (silence = Rtc => Watched > iqtimeout + 1)
    BY <2>1, <2>2 DEF Watched, ClockOK
  <2>6. Watched \in Nat /\ silence \in 0 .. Rtc
    BY <2>1 DEF Watched, ClockOK
  <2> HIDE DEF Watched
  <2>7. QED
    BY <2>2, <2>4, <2>5, <2>6
<1>2. QED
  BY <1>1, WatchdogInit, WatchdogKept, PTL DEF TimeoutSpec

\* For every width of the clock and every timeout, a host that keeps writing keeps
\* its commands.
THEOREM CommandAlwaysKept == TimeoutSpec => CommandKept
<1>1. WatchdogAwake /\ [TimeoutNext]_timeoutVars
        => [Decays /\ ~change => silence >= iqtimeout]_timeoutVars
  <2> SUFFICES ASSUME WatchdogAwake, Decays, ~change PROVE silence >= iqtimeout
    OBVIOUS
  <2>1. Expired
    BY DEF Decays, CheckManualCmdTimeout, commanded
  <2>2. seen /\ Age >= iqtimeout
    BY <2>1, Zenon DEF Expired, Age
  <2>3. ClockOK /\ (silence < Rtc => Age = silence)
    BY <2>2 DEF WatchdogAwake, AgeIsSilence
  <2>4. iqtimeout \in Nat /\ iqtimeout <= Rtc - 3 /\ Rtc \in Nat \ {0} /\ silence \in 0 .. Rtc
    BY <2>3, TimeoutFits DEF ClockOK
  <2> HIDE DEF Age
  <2>5. QED
    BY <2>2, <2>3, <2>4
<1>2. QED
  BY <1>1, WatchdogInit, WatchdogKept, PTL DEF TimeoutSpec, CommandKept

LEMMA TimeoutTypeStep ==
  ClockOK /\ TimeoutTypeOK /\ [TimeoutNext]_timeoutVars => TimeoutTypeOK'
<1> SUFFICES ASSUME ClockOK, TimeoutTypeOK, [TimeoutNext]_timeoutVars PROVE TimeoutTypeOK'
  OBVIOUS
<1>1. ClockOK'
  BY ClockKept
<1>2. {due', seen', change'} \subseteq BOOLEAN
  <2>1. due \in BOOLEAN /\ seen \in BOOLEAN /\ change \in BOOLEAN
    BY Zenon DEF TimeoutTypeOK
  <2>2. due' \in BOOLEAN /\ seen' \in BOOLEAN /\ change' \in BOOLEAN
    BY <2>1, Zenon DEF TimeoutNext, Elapse, StoreCommand, Change, Note, SetTimeout,
       CheckManualCmdTimeout, timeoutVars, clock, watchdog, timeoutHistory
  <2> QED
    BY <2>2, Zenon
<1>3. {iq', id'} \subseteq Currents \cup {0}
  BY DEF TimeoutTypeOK, TimeoutNext, Elapse, StoreCommand, Change, SetTimeout,
     CheckManualCmdTimeout, timeoutVars, commanded
<1> QED
  BY <1>1, <1>2, <1>3 DEF ClockOK, TimeoutTypeOK

\* Clock, watchdog and commands stay in their ranges.
THEOREM TimeoutTypeCorrect == TimeoutSpec => []TimeoutTypeOK
<1>1. ASSUME TimeoutInit
      PROVE  ClockOK /\ TimeoutTypeOK
  <2>1. ClockOK
    BY <1>1, WatchdogInit DEF WatchdogAwake
  <2>2. {due, seen, change} \subseteq BOOLEAN
    BY <1>1, Zenon DEF TimeoutInit
  <2>3. {iq, id} \subseteq Currents \cup {0}
    BY <1>1 DEF TimeoutInit
  <2> QED
    BY <2>1, <2>2, <2>3 DEF ClockOK, TimeoutTypeOK
<1>2. ClockOK /\ TimeoutTypeOK /\ [TimeoutNext]_timeoutVars => (ClockOK /\ TimeoutTypeOK)'
  BY ClockKept, TimeoutTypeStep
<1> QED
  BY <1>1, <1>2, PTL DEF TimeoutSpec
=============================================================================
