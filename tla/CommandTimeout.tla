--------------------------- MODULE CommandTimeout ---------------------------
(***************************************************************************)
(* The command-silence watchdog (cmdtimeout.h; builds with                 *)
(* MANUALIQ_CMD_TIMEOUT): a host that stops writing manualiq or manualid   *)
(* has both zeroed after iqtimeout clock ticks.                            *)
(*                                                                         *)
(* A write stores the value and then calls Param::Change, which notes the  *)
(* time; it runs in the CAN interrupt, so the 10 ms task may come between. *)
(* The RTC is an unsigned counter of finite width and wraps.               *)
(***************************************************************************)
EXTENDS Integers

CONSTANTS
  Rtc,       \* values of the RTC counter (2^32)
  Timeouts,  \* values of iqtimeout; 0 switches the watchdog off
  Currents   \* values a host commands

ASSUME TimeoutAssumption ==
  /\ Rtc \in Nat \ {0}
  /\ Timeouts \subseteq 0 .. Rtc - 3
  /\ Currents \subseteq Int

VARIABLES
  now, due,            \* the RTC, and whether the tick's task is still to run
  last, seen,          \* CmdTimeout
  iqtimeout,
  iq, id,              \* Param::manualiq, Param::manualid
  change,              \* a value is stored and Change not yet called
  silence, steady      \* history: clock ticks since a command was last stored,
                       \* since the timeout last changed, up to Rtc

clock == <<now, due>>
watchdog == <<last, seen>>
commanded == <<iq, id>>
timeoutHistory == <<silence, steady>>
timeoutVars == <<clock, watchdog, iqtimeout, commanded, change, timeoutHistory>>

TimeoutTypeOK ==
  /\ now \in 0 .. Rtc - 1
  /\ last \in 0 .. Rtc - 1
  /\ {due, seen, change} \subseteq BOOLEAN
  /\ iqtimeout \in Timeouts
  /\ {iq, id} \subseteq Currents \cup {0}
  /\ {silence, steady} \subseteq 0 .. Rtc

TimeoutInit ==
  /\ now = 0
  /\ due = FALSE
  /\ last = 0
  /\ seen = FALSE
  /\ iqtimeout \in Timeouts
  /\ iq = 0
  /\ id = 0
  /\ change = FALSE
  /\ silence = 0
  /\ steady = 0

Longer(n) == IF n < Rtc THEN n + 1 ELSE n

\* One tick of the RTC. The task has run since the last one (the scheduler's
\* timer has the same period) and an interrupt ends in the tick it began in.
Elapse ==
  /\ ~due
  /\ ~change
  /\ now' = (now + 1) % Rtc
  /\ due' = TRUE
  /\ silence' = Longer(silence)
  /\ steady' = Longer(steady)
  /\ UNCHANGED <<watchdog, iqtimeout, commanded, change>>

\* Param::Set of manualiq or manualid, up to the call of Change.
StoreCommand ==
  /\ ~change
  /\ \/ iq' \in Currents /\ UNCHANGED id
     \/ id' \in Currents /\ UNCHANGED iq
  /\ change' = TRUE
  /\ silence' = 0
  /\ UNCHANGED <<clock, watchdog, iqtimeout, steady>>

Note_OnlyFirst == last' = (IF seen THEN last ELSE now) /\ seen' = TRUE

\* CmdTimeout::Note.
Note == last' = now /\ seen' = TRUE

\* Param::Change of manualiq or manualid: NoteManualCmd.
Change ==
  /\ change
  /\ Note
  /\ change' = FALSE
  /\ UNCHANGED <<clock, iqtimeout, commanded, timeoutHistory>>

SetTimeout ==
  /\ ~change
  /\ iqtimeout' \in Timeouts
  /\ steady' = 0
  /\ UNCHANGED <<clock, watchdog, commanded, change, silence>>

Expired_Signed ==
  seen /\ iqtimeout # 0 /\ now - last >= iqtimeout

\* CmdTimeout::Expired; the subtraction is unsigned.
Expired ==
  /\ seen
  /\ iqtimeout # 0
  /\ (now - last) % Rtc >= iqtimeout

\* The task's CheckManualCmdTimeout.
CheckManualCmdTimeout ==
  /\ due
  /\ due' = FALSE
  /\ iq' = IF Expired THEN 0 ELSE iq
  /\ id' = IF Expired THEN 0 ELSE id
  /\ UNCHANGED <<now, watchdog, iqtimeout, change, timeoutHistory>>

TimeoutNext ==
  \/ Elapse
  \/ StoreCommand
  \/ Change
  \/ SetTimeout
  \/ CheckManualCmdTimeout

TimeoutSpec == TimeoutInit /\ [][TimeoutNext]_timeoutVars

-----------------------------------------------------------------------------

\* A silent host commands no current: once the silence is longer than iqtimeout
\* both commands are zero, also across wraps of the RTC ("a dead host must not
\* leave d-axis flux current latched either"). A timeout set long after the last
\* command counts from the setting, and from the tick after it if the RTC comes
\* round to the time of the last command just then.
SilentHostZeroed ==
  seen /\ iqtimeout # 0 /\ silence > iqtimeout /\ steady > iqtimeout + 1
    => iq = 0 /\ id = 0

Decays == CheckManualCmdTimeout /\ commanded' # commanded

\* A host that keeps writing either command keeps both: none is zeroed before
\* iqtimeout ticks have passed since either was stored, as long as the store has
\* been noted.
CommandKept == [][Decays /\ ~change => silence >= iqtimeout]_timeoutVars
=============================================================================
