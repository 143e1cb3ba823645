--------------------------- MODULE ParameterLock ---------------------------
(***************************************************************************)
(* What the save gate promises, without the machinery that keeps it: the   *)
(* parameter store may be written or reloaded only while it is unlocked,   *)
(* and the power stage runs only while it is locked. Locking comes before  *)
(* a start, unlocking after a stop.                                        *)
(***************************************************************************)

VARIABLES unlocked, running

TypeOK == unlocked \in BOOLEAN /\ running \in BOOLEAN

Init == unlocked = TRUE /\ running = FALSE

Lock == running = FALSE /\ unlocked' = FALSE /\ UNCHANGED running

Start == unlocked = FALSE /\ running = FALSE /\ running' = TRUE /\ UNCHANGED unlocked

Stop == running = TRUE /\ running' = FALSE /\ UNCHANGED unlocked

Unlock == running = FALSE /\ unlocked' = TRUE /\ UNCHANGED running

Next == Lock \/ Start \/ Stop \/ Unlock

Spec == Init /\ [][Next]_<<unlocked, running>>
=============================================================================
