---------------------------- MODULE MCDayTimeline ----------------------------
(* The model checker's instance of DayTimeline: three hours of two slots    *)
(* and days of two hours, one beginning inside an hour, one an hour longer  *)
(* and one an hour shorter than the others.                                 *)
EXTENDS DayTimeline, TLC

MCDays == {[start |-> 0, end |-> 4], [start |-> 1, end |-> 5],
           [start |-> 0, end |-> 6], [start |-> 2, end |-> 4]}

\* Everything; cut on both sides; inside one hour.
MCWindows == {[start |-> 0, end |-> 6], [start |-> 1, end |-> 5], [start |-> 3, end |-> 4]}

MCPercentage == "charging" :> {60} @@ "draining" :> {24}
=============================================================================
