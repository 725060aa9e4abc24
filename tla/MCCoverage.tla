----------------------------- MODULE MCCoverage -----------------------------
(* The model checker's instances of Coverage: two slots to the hour and two *)
(* hours to the day, so that the window covers two days or one.             *)
EXTENDS Coverage

MCMidnights == {m \in 1..MaxTime + DayLength : m % DayLength = 1}
=============================================================================
