---------------------------- MODULE MCIngestion ----------------------------
(***************************************************************************)
(* Model-checking instances of Ingestion: a heartbeat, and an event dated  *)
(* ahead of the clock with a second copy of it that is not.                *)
(***************************************************************************)
EXTENDS Ingestion, TLC

CONSTANTS beat, late,                 \* events
          heartbeat, ahead, punctual  \* copies

MCIdOf == heartbeat :> beat @@ ahead :> late @@ punctual :> late

\* One copy alone; two that the clock may come between, equal or not; an
\* event rejected and accepted around another one that is listed twice.
MCArrangements ==
    {<<heartbeat>>, <<ahead>>, <<ahead, ahead>>, <<punctual, ahead>>,
     <<ahead, heartbeat, punctual, heartbeat>>}

\* One heartbeat alone.
MCHeartbeatId == heartbeat :> beat
MCHeartbeatAlone == {<<heartbeat>>}
=============================================================================
