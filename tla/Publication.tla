----------------------------- MODULE Publication -----------------------------
(***************************************************************************)
(* The maintenance loop (main.py) over several devices, and the            *)
(* publication of their entities to Home Assistant (home_assistant.py).    *)
(*                                                                         *)
(* What is published of a device is one state of the database: the local   *)
(* day it is about, whether that day has been rolled up (otherwise the     *)
(* feature entities are unknown), and a version that stands for the        *)
(* heartbeat, the coverage and the values, and grows with each change.     *)
(* The loop runs without interruption except while it sleeps and while it  *)
(* awaits the response to a post; the clock runs on at any time.           *)
(***************************************************************************)
EXTENDS Integers, FiniteSets

CONSTANTS
    NDevices,     \* devices 1..NDevices, in the order of their ids
    NEntities,    \* entities of a device 1..NEntities, in the order of posting
    MaxDay,       \* bound: midnights that pass
    MaxVersion,   \* bound: changes of a device's data
    MaxFaults     \* bound: errors, lost posts and stops of the app

ASSUME PublicationAssumption ==
    /\ NDevices \in Nat \ {0} /\ NEntities \in Nat \ {0}
    /\ MaxDay \in Nat /\ MaxVersion \in Nat /\ MaxFaults \in Nat

VARIABLES
    yesterday,   \* the local day before the current one
    devices,     \* the enrolled devices
    version,     \* of each device's data
    rolled,      \* daily_features: the days each device has
    loop,        \* where the maintenance loop is
    published,   \* Home Assistant's states
    faults

vars == <<yesterday, devices, version, rolled, loop, published, faults>>

Devices == 1..NDevices
Entities == 1..NEntities
Days == 0..MaxDay
State == [day : Days, rolled : BOOLEAN, version : 0..MaxVersion]
Absent == [day |-> -1, rolled |-> FALSE, version |-> -1]

\* The loop's place: the devices it still has to go through, and while it
\* posts, the device, its states and the next entity.
Steps == {"sleep", "compute", "build", "post"}
NoState == [day |-> 0, rolled |-> FALSE, version |-> 0]
Asleep == [step |-> "sleep", left |-> {}, device |-> 1, states |-> NoState, entity |-> 1]

\* The devices are taken in order.
IsNext(d) == d \in loop.left /\ \A e \in loop.left : d <= e

\* build_entity_states, of yesterday whatever has been rolled up.
Current(d) == [day |-> yesterday, rolled |-> yesterday \in rolled[d], version |-> version[d]]

Init ==
    /\ yesterday = 0
    /\ devices = {}
    /\ version = [d \in Devices |-> 0]
    /\ rolled = [d \in Devices |-> {}]
    /\ loop = Asleep
    /\ published = [d \in Devices |-> [e \in Entities |-> Absent]]
    /\ faults = 0

-----------------------------------------------------------------------------
(* The clock and other requests *)

Waiting == loop.step \in {"sleep", "post"}

Midnight ==
    /\ yesterday < MaxDay
    /\ yesterday' = yesterday + 1
    /\ UNCHANGED <<devices, version, rolled, loop, published, faults>>

Enroll ==
    /\ Waiting
    /\ \E d \in Devices \ devices : devices' = devices \cup {d}
    /\ UNCHANGED <<yesterday, version, rolled, loop, published, faults>>

\* A batch, or anything else that changes what is published of the device.
Ingest ==
    /\ Waiting
    /\ \E d \in devices : /\ version[d] < MaxVersion
                          /\ version' = [version EXCEPT ![d] = @ + 1]
    /\ UNCHANGED <<yesterday, devices, rolled, loop, published, faults>>

\* A timeline rolls up the day it is asked for; the one of the stdio MCP
\* server does so from a process of its own, at any time.
Timeline ==
    /\ \E d \in devices, day \in Days :
          /\ day \notin rolled[d]
          /\ rolled' = [rolled EXCEPT ![d] = @ \cup {day}]
    /\ UNCHANGED <<yesterday, devices, version, loop, published, faults>>

-----------------------------------------------------------------------------
(* A cycle *)

Wake ==
    /\ loop.step = "sleep"
    /\ loop' = [loop EXCEPT !.step = "compute", !.left = devices]
    /\ UNCHANGED <<yesterday, devices, version, rolled, published, faults>>

\* Mutant: an error for one device is passed over.
ComputeDeviceTolerant ==
    /\ loop.step = "compute"
    /\ \E d \in Devices :
          /\ IsNext(d)
          /\ rolled' \in {rolled, [rolled EXCEPT ![d] = @ \cup {yesterday}]}
          /\ loop' = [loop EXCEPT !.left = @ \ {d}]
    /\ UNCHANGED <<yesterday, devices, version, published, faults>>

\* One turn of the loop over the devices.
ComputeDevice ==
    /\ loop.step = "compute"
    /\ \E d \in Devices :
          /\ IsNext(d)
          /\ rolled' = [rolled EXCEPT ![d] = @ \cup {yesterday}]
          /\ loop' = [loop EXCEPT !.left = @ \ {d}]
    /\ UNCHANGED <<yesterday, devices, version, published, faults>>

\* Mutant: a device is published once a day.
StartPublishingDaily ==
    /\ loop.step = "compute"
    /\ loop.left = {}
    /\ loop' = [loop EXCEPT !.step = "build",
                            !.left = {d \in devices : published[d][1].day # yesterday}]
    /\ UNCHANGED <<yesterday, devices, version, rolled, published, faults>>

\* publish_entities asks for the devices anew.
StartPublishing ==
    /\ loop.step = "compute"
    /\ loop.left = {}
    /\ loop' = [loop EXCEPT !.step = "build", !.left = devices]
    /\ UNCHANGED <<yesterday, devices, version, rolled, published, faults>>

BuildStates ==
    /\ loop.step = "build"
    /\ \E d \in Devices :
          /\ IsNext(d)
          /\ loop' = [step |-> "post", left |-> loop.left \ {d}, device |-> d,
                      states |-> Current(d), entity |-> 1]
    /\ UNCHANGED <<yesterday, devices, version, rolled, published, faults>>

\* The loop after a post, whatever came of it.
Posted ==
    IF loop.entity = NEntities THEN [loop EXCEPT !.step = "build"]
                               ELSE [loop EXCEPT !.entity = @ + 1]

\* Mutant: the state is read for each entity anew.
AppliedFresh == [published EXCEPT ![loop.device][loop.entity] = Current(loop.device)]

Applied == [published EXCEPT ![loop.device][loop.entity] = loop.states]

Post ==
    /\ loop.step = "post"
    /\ published' = Applied
    /\ loop' = Posted
    /\ UNCHANGED <<yesterday, devices, version, rolled, faults>>

\* Home Assistant refuses, or the post fails or times out; in the last case
\* it may have been applied.
PostFails ==
    /\ loop.step = "post"
    /\ faults < MaxFaults
    /\ faults' = faults + 1
    /\ published' \in {published, Applied}
    /\ loop' = Posted
    /\ UNCHANGED <<yesterday, devices, version, rolled>>

\* All devices are published; retention follows, and the loop sleeps.
EndCycle ==
    /\ loop.step = "build"
    /\ loop.left = {}
    /\ loop' = Asleep
    /\ UNCHANGED <<yesterday, devices, version, rolled, published, faults>>

-----------------------------------------------------------------------------
(* Failures *)

\* An error in a computation or a query ends the cycle for all devices.
CycleFails ==
    /\ loop.step \in {"compute", "build"}
    /\ faults < MaxFaults
    /\ faults' = faults + 1
    /\ loop' = Asleep
    /\ UNCHANGED <<yesterday, devices, version, rolled, published>>

\* The app is stopped or dies, wherever the loop is, and starts again.
Restart ==
    /\ loop.step # "sleep"
    /\ faults < MaxFaults
    /\ faults' = faults + 1
    /\ loop' = Asleep
    /\ published' \in {published} \cup (IF loop.step = "post" THEN {Applied} ELSE {})
    /\ UNCHANGED <<yesterday, devices, version, rolled>>

-----------------------------------------------------------------------------
(* The specification *)

Next ==
    \/ Midnight \/ Enroll \/ Ingest \/ Timeline
    \/ Wake \/ ComputeDevice \/ StartPublishing \/ BuildStates \/ Post \/ EndCycle
    \/ PostFails \/ CycleFails \/ Restart

Spec == Init /\ [][Next]_vars

\* The task goes on: every sleep ends, and a post is answered or times out.
Cycle == Wake \/ ComputeDevice \/ StartPublishing \/ BuildStates
              \/ Post \/ PostFails \/ EndCycle
FairSpec == Spec /\ WF_vars(Cycle)

-----------------------------------------------------------------------------
(* Properties *)

\* Types of the state.
TypeOK ==
    /\ yesterday \in Days
    /\ devices \subseteq Devices
    /\ version \in [Devices -> 0..MaxVersion]
    /\ rolled \in [Devices -> SUBSET Days]
    /\ loop \in [step : Steps, left : SUBSET Devices, device : Devices,
                 states : State, entity : Entities]
    /\ published \in [Devices -> [Entities -> State \cup {Absent}]]
    /\ faults \in 0..MaxFaults

\* Where the posts of device d have got to; everything is posted otherwise.
Boundary(d) == IF loop.step = "post" /\ loop.device = d THEN loop.entity ELSE 1

\* As long as nothing fails, the entities of a device show one state of the
\* database, or while it is being posted two: the new one up to the post in
\* progress, the previous one from there.
NoTornPass ==
    faults = 0 => \A d \in Devices : \A e, f \in Entities :
        (e < Boundary(d) <=> f < Boundary(d)) => published[d][e] = published[d][f]

\* A state that may be shown of device d: its day has been rolled up, or an
\* earlier one has and midnight has passed since.
Grounded(d, s) ==
    \E day \in rolled[d] : IF s.rolled THEN day = s.day ELSE day < s.day

\* Nothing is published of a device before it has been computed.
ComputedBeforePublished ==
    \A d \in Devices : \A e \in Entities :
        published[d][e] # Absent => Grounded(d, published[d][e])

\* The strengthening behind the two, proved inductive in PublicationProofs.
Computed(d) == \E day \in rolled[d] : day <= yesterday

Covered ==
    /\ loop.step = "compute" => \A d \in devices \ loop.left : Computed(d)
    /\ loop.step \in {"build", "post"} => \A d \in loop.left : Computed(d)

PostInv ==
    loop.step = "post" =>
        /\ Grounded(loop.device, loop.states)
        /\ faults = 0 => \A e \in Entities :
              e < loop.entity => published[loop.device][e] = loop.states

LoopInv == Covered /\ PostInv
IndInv == LoopInv /\ NoTornPass /\ ComputedBeforePublished

\* Errors, lost posts and stops leave no trace: once they are over, all the
\* entities come to show the current state, and keep to it.
PublishedConverges ==
    <>[](\A d \in devices : \A e \in Entities :
            published[d][e] = Current(d) /\ published[d][e].rolled)

=============================================================================
