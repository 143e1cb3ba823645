---------------------------- MODULE MCCanHistory ----------------------------
(***************************************************************************)
(* Payloads for model checking the CAN control frame with its history.     *)
(***************************************************************************)
EXTENDS CanHistory

\* A frame that presses the throttle and switches an input on.
Pressed == {[io |-> {"start"}, pot |-> 1, regen |-> 100, speed |-> 1]}
=============================================================================
