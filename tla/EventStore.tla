----------------------------- MODULE EventStore -----------------------------
(***************************************************************************)
(* What the ingestion path promises the phone, without saying how.         *)
(*                                                                         *)
(* The server keeps at most one row per event, and the row belongs for its *)
(* whole life to the batch that first delivered it.  It promises an event  *)
(* only while it holds it, the phone confirms (stops sending) an event     *)
(* only after a promise, and the only way a row goes away is retention.    *)
(* Ingestion.tla is shown to implement this module.                        *)
(***************************************************************************)
EXTENDS Naturals

CONSTANTS Events, MaxBatches

VARIABLES first,      \* the batch whose row holds each event; 0 when there is no row
          retired,    \* events whose row retention has deleted at least once
          promised,   \* events some issued acknowledgement lists as accepted
          confirmed   \* events the phone has marked uploaded

storeVars == <<first, retired, promised, confirmed>>

Held == {e \in Events : first[e] # 0}

Init ==
    /\ first = [e \in Events |-> 0]
    /\ retired = {}
    /\ promised = {}
    /\ confirmed = {}

Store(b, S) ==
    /\ S \cap Held = {}
    /\ first' = [e \in Events |-> IF e \in S THEN b ELSE first[e]]
    /\ UNCHANGED <<retired, promised, confirmed>>

Promise(S) ==
    /\ S \subseteq Held
    /\ promised' = promised \cup S
    /\ UNCHANGED <<first, retired, confirmed>>

Confirm(S) ==
    /\ S \subseteq promised
    /\ confirmed' = confirmed \cup S
    /\ UNCHANGED <<first, retired, promised>>

Expire(S) ==
    /\ S \subseteq Held
    /\ first' = [e \in Events |-> IF e \in S THEN 0 ELSE first[e]]
    /\ retired' = retired \cup S
    /\ UNCHANGED <<promised, confirmed>>

Next ==
    \E S \in SUBSET Events :
        \/ \E b \in 1..MaxBatches : Store(b, S)
        \/ Promise(S)
        \/ Confirm(S)
        \/ Expire(S)

Spec == Init /\ [][Next]_storeVars
=============================================================================
