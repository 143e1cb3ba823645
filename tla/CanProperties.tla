--------------------------- MODULE CanProperties ---------------------------
(***************************************************************************)
(* What the CAN control frame is meant to guarantee.                       *)
(***************************************************************************)
EXTENDS CanControl

\* On a bus without faults the only bad frame is a first one that happens to
\* carry the counter the receiver booted with: the count never passes one.
CleanBusNeverLatches == clean => canErrors <= 1

-----------------------------------------------------------------------------
(* What a latched or silent bus leaves behind.                             *)

\* A latched receiver takes over nothing more: its inputs only go away.
LatchedTakesNothing ==
  [][canErrors = MaxErrors
       => canErrors' = MaxErrors /\ pot' = pot /\ canio' \subseteq canio]_vars

\* The sender hangs: it falls silent or repeats its last frame for ever.
SenderHangs == <>stuck

\* From some moment on no frame on the bus is a damaged one.
NoiseEnds == <>[](bus = NoFrame \/ bus.crc)

\* From some moment on what din_cruise shows is what the CAN frame asked for: the
\* cruise pin at the connector is low.
CruisePinLow == <>[]("cruise" \in din => "cruise" \in canio)

\* A sender that hangs, silent or repeating itself, ends with no throttle and
\* no digital input from CAN: the counters catch what the timeout cannot. The
\* noise must end: CanReceive remembers the counter of a frame whose CRC is wrong,
\* and the repetition after such a frame counts as a good one.
HungSenderLosesControl ==
  SenderHangs /\ NoiseEnds => <>[](throttle = 0 /\ canio = {})

\* Once the sender hangs, cruise control by CAN ends, unless the cruise pin holds
\* it: what GetDigInputs times out is the frame's half of din_cruise alone.
CommsLossCancelsCruise ==
  SenderHangs /\ NoiseEnds /\ CruisePinLow => <>[](cruise = -1)
=============================================================================
