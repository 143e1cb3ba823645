---------------------------- MODULE MCCanControl ----------------------------
(***************************************************************************)
(* Payloads for model checking the CAN control frame.                      *)
(***************************************************************************)
EXTENDS CanProperties

\* A frame that presses the throttle and asks for cruise control, forward.
Driving == {[io |-> {"cruise", "forward"}, pot |-> 1, regen |-> 100, speed |-> 1]}
=============================================================================
