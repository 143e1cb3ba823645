----------------------------- MODULE CanHistory -----------------------------
(***************************************************************************)
(* Module CanControl with a history variable, the verdicts on the frames   *)
(* received so far, and the property that speaks of it.                    *)
(***************************************************************************)
EXTENDS CanProperties, FiniteSets, Sequences

CONSTANT MaxLog    \* frames received in a behaviour (a bound of the model)

VARIABLE log       \* TRUE for a good frame, FALSE for a bad one

hvars == <<vars, log>>

HistoryInit == Init /\ log = <<>>

HistoryNext ==
  /\ Next
  /\ IF Receive
     THEN Len(log) < MaxLog /\ log' = Append(log, ~Bad(bus))
     ELSE UNCHANGED log

HistorySpec == HistoryInit /\ [][HistoryNext]_hvars

-----------------------------------------------------------------------------
(* The error count, against what it stands for.                            *)

Count(verdict, i, j) == Cardinality({k \in i .. j : log[k] = verdict})

\* Somewhere in the log, bad frames outnumbered good ones by MaxErrors.
Excess ==
  \E i, j \in DOMAIN log : Count(FALSE, i, j) - Count(TRUE, i, j) >= MaxErrors

\* "We can heal bad frames with good frames. Once we've surpassed maxErrors we
\* do not recover": reception latches exactly when, over some stretch of the
\* frames received, the bad ones outnumbered the good ones by MaxErrors - no
\* sooner, and no good frames afterwards undo it (CanReceive).
LatchedIffExcess == canErrors = MaxErrors <=> Excess
=============================================================================
