---------------------------- MODULE Coordinator ------------------------------
(***************************************************************************)
(* The Home Assistant integration (custom_components/android_timeline): its *)
(* config entry, the coordinator that polls the app's HTTP API, and what    *)
(* the entities it created show.                                            *)
(*                                                                         *)
(* A refresh is one request after another: the health, the list of devices, *)
(* then a timeline for each device of the list.  The app runs on between    *)
(* them.  Of a device the model has how many batches its rows hold (stored) *)
(* and up to which one its last_seen_utc has come (seen); a midnight that   *)
(* changes the timeline's day counts as a batch.                            *)
(*                                                                         *)
(* Home Assistant's own part is modelled from how the code uses it: a       *)
(* failed first refresh is tried again later, a failed refresh keeps the    *)
(* previous data and clears last_update_success, and the timer runs while   *)
(* there are entities that listen.                                          *)
(***************************************************************************)
EXTENDS Integers

CONSTANTS
    NDevices,     \* devices 1..NDevices, in the order of the list
    MaxVersion,   \* bound: batches of a device
    MaxFaults     \* bound: failed requests, deaths of the app, reloads

ASSUME CoordinatorAssumption ==
    NDevices \in Nat \ {0} /\ MaxVersion \in Nat /\ MaxFaults \in Nat

Devices == 1..NDevices
Versions == 0..MaxVersion

VARIABLES
    enrolled,   \* the app's devices
    stored,     \* the batches in each device's rows
    seen,       \* the batches its last_seen_utc counts
    entry,      \* state of the config entry
    poll,       \* the refresh in progress
    data,       \* coordinator.data["devices"]
    success,    \* coordinator.last_update_success
    entities,   \* the devices that have entities
    asOf,       \* history: stored and seen when the last ended refresh began
    faults

app == <<enrolled, stored, seen>>
vars == <<enrolled, stored, seen, entry, poll, data, success, entities, asOf, faults>>

EntryStates == {"none", "not_loaded", "setup", "loaded"}
Steps == {"idle", "health", "devices", "timelines"}

\* What an entity shows: the device's last_seen_utc of the list, and values
\* reduced from its timeline.
Summary == [last_sync : Versions, timeline : Versions]
NoSummary == [last_sync |-> -1, timeline |-> -1]
Nothing == [d \in Devices |-> NoSummary]

Snapshot == [stored : [Devices -> Versions], seen : [Devices -> Versions]]
Now == [stored |-> stored, seen |-> seen]

Polls == [step : Steps, left : SUBSET Devices, listed : [Devices -> Versions],
          summaries : [Devices -> Summary \cup {NoSummary}], began : Snapshot]
Idle == [step |-> "idle", left |-> {}, listed |-> [d \in Devices |-> 0],
         summaries |-> Nothing, began |-> asOf]
Begun == [step |-> "health", left |-> {}, listed |-> [d \in Devices |-> 0],
          summaries |-> Nothing, began |-> Now]

Init ==
    /\ enrolled = {}
    /\ stored = [d \in Devices |-> 0]
    /\ seen = [d \in Devices |-> 0]
    /\ entry = "none"
    /\ asOf = [stored |-> stored, seen |-> seen]
    /\ poll = Idle
    /\ data = Nothing
    /\ success = FALSE
    /\ entities = {}
    /\ faults = 0

-----------------------------------------------------------------------------
(* The app.                                                                 *)

Enroll ==
    /\ \E d \in Devices \ enrolled : enrolled' = enrolled \cup {d}
    /\ UNCHANGED <<stored, seen, entry, poll, data, success, entities, asOf, faults>>

\* ingest_batch: the rows, then touch_device; no request comes between.
Batch ==
    /\ \E d \in enrolled :
          /\ stored[d] < MaxVersion
          /\ stored' = [stored EXCEPT ![d] = @ + 1]
          /\ seen' = [seen EXCEPT ![d] = stored[d] + 1]
    /\ UNCHANGED <<enrolled, entry, poll, data, success, entities, asOf, faults>>

\* Mutant: touch_device comes first.
BatchDiesTouched ==
    /\ faults < MaxFaults
    /\ faults' = faults + 1
    /\ \E d \in enrolled :
          /\ stored[d] < MaxVersion
          /\ seen' = [seen EXCEPT ![d] = stored[d] + 1]
    /\ UNCHANGED <<enrolled, stored, entry, poll, data, success, entities, asOf>>

\* The app dies after the rows and before touch_device.
BatchDies ==
    /\ faults < MaxFaults
    /\ faults' = faults + 1
    /\ \E d \in enrolled :
          /\ stored[d] < MaxVersion
          /\ stored' = [stored EXCEPT ![d] = @ + 1]
    /\ UNCHANGED <<enrolled, seen, entry, poll, data, success, entities, asOf>>

\* The phone sends the unanswered batch again: duplicates, and touch_device.
Resend ==
    /\ \E d \in enrolled :
          /\ seen[d] < stored[d]
          /\ seen' = [seen EXCEPT ![d] = stored[d]]
    /\ UNCHANGED <<enrolled, stored, entry, poll, data, success, entities, asOf, faults>>

-----------------------------------------------------------------------------
(* The config entry.                                                        *)

\* async_step_user: the app is healthy and takes the token, or the form is
\* shown again.
Configure ==
    /\ entry = "none"
    /\ entry' = "not_loaded"
    /\ UNCHANGED <<app, poll, data, success, entities, asOf, faults>>

\* async_setup_entry: a new coordinator and its first refresh.
Setup ==
    /\ entry = "not_loaded"
    /\ entry' = "setup"
    /\ poll' = Begun
    /\ UNCHANGED <<app, data, success, entities, asOf, faults>>

\* async_unload_entry by a reload, or a restart of Home Assistant; a refresh
\* in progress has nothing to tell any more.
Unload ==
    /\ entry \in {"setup", "loaded"}
    /\ faults < MaxFaults
    /\ faults' = faults + 1
    /\ entry' = "not_loaded"
    /\ poll' = Idle
    /\ data' = Nothing
    /\ success' = FALSE
    /\ entities' = {}
    /\ UNCHANGED <<app, asOf>>

-----------------------------------------------------------------------------
(* A refresh.                                                               *)

\* Mutant: the timer is not set again after a failure.
TimerFiresOnSuccess ==
    /\ entry = "loaded"
    /\ poll.step = "idle"
    /\ entities # {}
    /\ success
    /\ poll' = Begun
    /\ UNCHANGED <<app, entry, data, success, entities, asOf, faults>>

\* DEFAULT_SCAN_INTERVAL has passed.
TimerFires ==
    /\ entry = "loaded"
    /\ poll.step = "idle"
    /\ entities # {}
    /\ poll' = Begun
    /\ UNCHANGED <<app, entry, data, success, entities, asOf, faults>>

GetHealth ==
    /\ poll.step = "health"
    /\ poll' = [poll EXCEPT !.step = "devices"]
    /\ UNCHANGED <<app, entry, data, success, entities, asOf, faults>>

\* /api/v1/admin/devices
GetDevices ==
    /\ poll.step = "devices"
    /\ poll' = [poll EXCEPT !.step = "timelines", !.left = enrolled, !.listed = seen]
    /\ UNCHANGED <<app, entry, data, success, entities, asOf, faults>>

\* The devices of the list are taken in its order.
IsNext(d) == d \in poll.left /\ \A e \in poll.left : d <= e

\* /api/v1/timeline/yesterday of one device, and its summary.
GetTimeline ==
    /\ poll.step = "timelines"
    /\ \E d \in Devices :
          /\ IsNext(d)
          /\ poll' = [poll EXCEPT !.left = @ \ {d},
                        !.summaries[d] = [last_sync |-> poll.listed[d], timeline |-> stored[d]]]
    /\ UNCHANGED <<app, entry, data, success, entities, asOf, faults>>

\* Its status is 400 or more: UpdateFailed, and the device is left out.
TimelineRefused ==
    /\ poll.step = "timelines"
    /\ faults < MaxFaults
    /\ faults' = faults + 1
    /\ \E d \in Devices : IsNext(d) /\ poll' = [poll EXCEPT !.left = @ \ {d}]
    /\ UNCHANGED <<app, entry, data, success, entities, asOf>>

\* Mutant: a device left out keeps its previous summary.
RefreshedKeeping ==
    /\ poll.step = "timelines"
    /\ poll.left = {}
    /\ data' = [d \in Devices |-> IF poll.summaries[d] = NoSummary
                                  THEN data[d] ELSE poll.summaries[d]]
    /\ success' = TRUE
    /\ asOf' = poll.began
    /\ poll' = [Idle EXCEPT !.began = poll.began]
    /\ entry' = "loaded"
    /\ entities' = IF entry = "setup" THEN {d \in Devices : poll.summaries[d] # NoSummary}
                                      ELSE entities
    /\ UNCHANGED <<app, faults>>

\* The refresh ends: its summaries become the data, and every entity is
\* written anew.  The first one is followed by the setup of the platforms,
\* which create the entities of the devices in the data.
Refreshed ==
    /\ poll.step = "timelines"
    /\ poll.left = {}
    /\ data' = poll.summaries
    /\ success' = TRUE
    /\ asOf' = poll.began
    /\ poll' = [Idle EXCEPT !.began = poll.began]
    /\ entry' = "loaded"
    /\ entities' = IF entry = "setup" THEN {d \in Devices : poll.summaries[d] # NoSummary}
                                      ELSE entities
    /\ UNCHANGED <<app, faults>>

\* The health or the list has an error status, or any request (that of one
\* timeline too) times out or finds no connection: the whole refresh fails,
\* and if it was the first, the setup.
RefreshFails ==
    /\ poll.step # "idle"
    /\ faults < MaxFaults
    /\ faults' = faults + 1
    /\ success' = FALSE
    /\ asOf' = poll.began
    /\ poll' = [Idle EXCEPT !.began = poll.began]
    /\ entry' = IF entry = "setup" THEN "not_loaded" ELSE entry
    /\ UNCHANGED <<app, data, entities>>

-----------------------------------------------------------------------------
(* The specification *)

App == Enroll \/ Batch \/ BatchDies \/ Resend

Refresh == Setup \/ TimerFires \/ GetHealth \/ GetDevices \/ GetTimeline
                 \/ TimelineRefused \/ Refreshed \/ RefreshFails

\* The entry is set up and has nothing to poll for.
Resting ==
    /\ entry = "loaded"
    /\ entities = {}
    /\ UNCHANGED vars

Next == App \/ Configure \/ Unload \/ Refresh \/ Resting

Spec == Init /\ [][Next]_vars

\* Home Assistant's timers fire and every request is answered or times out.
FairSpec == Spec /\ WF_vars(Refresh)

-----------------------------------------------------------------------------
(* Properties *)

\* Types of the state.
TypeOK ==
    /\ enrolled \subseteq Devices
    /\ stored \in [Devices -> Versions]
    /\ seen \in [Devices -> Versions]
    /\ entry \in EntryStates
    /\ poll \in Polls
    /\ data \in [Devices -> Summary \cup {NoSummary}]
    /\ success \in BOOLEAN
    /\ entities \subseteq Devices
    /\ asOf \in Snapshot
    /\ faults \in Nat

\* AndroidTimelineSensor.available
Available(d) == d \in entities /\ success /\ data[d] # NoSummary

\* The list and a timeline are read at different times, and yet an entity's
\* "last sync" never promises a batch that the values beside it lack.
LastSyncBacked == \A d \in Devices : Available(d) => data[d].last_sync <= data[d].timeline

\* An entity is unavailable rather than stale: whatever requests have failed, its
\* values are at least as new as the start of the last refresh that ended.
ShowsLastRefresh ==
    \A d \in Devices : Available(d) =>
        /\ asOf.seen[d] <= data[d].last_sync
        /\ asOf.stored[d] <= data[d].timeline

\* After the last failure a configured entry is loaded, and its entities come
\* to show the app's current state, and stay so.
EntitiesRecover ==
    <>(entry # "none") =>
        <>[](/\ entry = "loaded"
             /\ \A d \in entities :
                   /\ Available(d)
                   /\ data[d] = [last_sync |-> seen[d], timeline |-> stored[d]])
=============================================================================
