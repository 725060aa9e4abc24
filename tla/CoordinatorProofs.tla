-------------------------- MODULE CoordinatorProofs --------------------------
(***************************************************************************)
(* Proofs about Coordinator, for any number of devices, batches and         *)
(* failures: what an available entity may show.                             *)
(***************************************************************************)
EXTENDS Coordinator, TLAPS

\* touch_device follows the rows.
SeenInv == \A d \in Devices : seen[d] <= stored[d]

\* The app only moves on from where the refresh began.
BeganInv == \A d \in Devices : /\ poll.began.stored[d] <= stored[d] \/ poll.step = "idle"
                               /\ poll.began.seen[d] <= seen[d] \/ poll.step = "idle"

\* The list was read between the beginning and now.
ListedInv ==
    poll.step = "timelines" =>
        \A d \in Devices : /\ poll.began.seen[d] <= poll.listed[d]
                           /\ poll.listed[d] <= stored[d]

\* Summary s of device d is consistent, and not older than b.
Sound(s, b, d) ==
    /\ s.last_sync <= s.timeline
    /\ b.seen[d] <= s.last_sync
    /\ b.stored[d] <= s.timeline

SummariesInv ==
    \A d \in Devices : poll.summaries[d] # NoSummary => Sound(poll.summaries[d], poll.began, d)

DataInv ==
    success => \A d \in Devices : data[d] # NoSummary => Sound(data[d], asOf, d)

IndInv == TypeOK /\ SeenInv /\ BeganInv /\ ListedInv /\ SummariesInv /\ DataInv

-----------------------------------------------------------------------------
(* Type correctness.                                                        *)

LEMMA TypeInit == Init => TypeOK
  <1> SUFFICES ASSUME Init PROVE TypeOK
    OBVIOUS
  <1> USE CoordinatorAssumption DEF Init, Versions, Snapshot
  <1>1. asOf \in Snapshot /\ Nothing \in [Devices -> Summary \cup {NoSummary}]
    BY DEF Nothing
  <1>2. poll \in Polls
    BY <1>1 DEF Idle, Polls, Steps
  <1>3. QED
    BY <1>1, <1>2 DEF TypeOK, EntryStates

LEMMA TypeStep == TypeOK /\ [Next]_vars => TypeOK'
  <1> SUFFICES ASSUME TypeOK, [Next]_vars PROVE TypeOK'
    OBVIOUS
  <1> USE CoordinatorAssumption DEF TypeOK, EntryStates, Steps, Snapshot, Versions
  <1>1. CASE Enroll
    BY <1>1 DEF Enroll
  <1>2. CASE Batch
    BY <1>2 DEF Batch
  <1>3. CASE BatchDies
    BY <1>3 DEF BatchDies
  <1>4. CASE Resend
    BY <1>4 DEF Resend
  <1>5. CASE Configure
    BY <1>5 DEF Configure, app
  <1>6. Begun \in Polls
    BY DEF Begun, Now, Nothing, Polls
  <1>7. \A b \in Snapshot :
          [Idle EXCEPT !.began = b] \in Polls
    BY DEF Idle, Nothing, Polls
  <1>8. CASE Setup
    BY <1>6, <1>8 DEF Setup, app
  <1>9. CASE TimerFires
    BY <1>6, <1>9 DEF TimerFires, app
  <1>10. CASE Unload
    <2>1. Nothing \in [Devices -> Summary \cup {NoSummary}]
      BY DEF Nothing
    <2>2. poll' \in Polls
      BY <1>10, <2>1 DEF Unload, Idle, Polls
    <2>3. /\ UNCHANGED <<enrolled, stored, seen, asOf>>
          /\ entry' = "not_loaded" /\ success' \in BOOLEAN /\ entities' = {} /\ data' = Nothing
          /\ faults' = faults + 1
      BY <1>10 DEF Unload, app
    <2>4. QED
      BY <2>1, <2>2, <2>3
  <1>11. CASE GetHealth
    BY <1>11 DEF GetHealth, app, Polls
  <1>12. CASE GetDevices
    BY <1>12 DEF GetDevices, app, Polls
  <1>13. CASE GetTimeline
    <2>1. PICK d \in Devices :
             poll' = [poll EXCEPT !.left = @ \ {d},
                        !.summaries[d] = [last_sync |-> poll.listed[d], timeline |-> stored[d]]]
      BY <1>13 DEF GetTimeline
    <2>2. [last_sync |-> poll.listed[d], timeline |-> stored[d]] \in Summary
      BY DEF Summary, Polls
    <2>3. poll' \in Polls
      BY <2>1, <2>2 DEF Polls
    <2>4. QED
      BY <1>13, <2>3 DEF GetTimeline, app
  <1>14. CASE TimelineRefused
    BY <1>14 DEF TimelineRefused, app, Polls
  <1>15. CASE Refreshed
    BY <1>7, <1>15 DEF Refreshed, app, Polls
  <1>16. CASE RefreshFails
    <2>1. poll.began \in Snapshot
      BY DEF Polls
    <2>2. poll' \in Polls /\ asOf' \in Snapshot
      BY <1>7, <1>16, <2>1 DEF RefreshFails
    <2>3. /\ UNCHANGED <<enrolled, stored, seen, data, entities>>
          /\ entry' \in {"not_loaded", entry} /\ success' \in BOOLEAN
          /\ faults' = faults + 1
      BY <1>16 DEF RefreshFails, app
    <2>4. QED
      BY <2>2, <2>3
  <1>17. CASE Resting \/ UNCHANGED vars
    BY <1>17 DEF Resting, vars
  <1>18. QED
    BY <1>1, <1>2, <1>3, <1>4, <1>5, <1>8, <1>9, <1>10, <1>11, <1>12, <1>13, <1>14, <1>15,
       <1>16, <1>17 DEF Next, App, Refresh

\* Type correctness of the app, the refresh and the entities.
THEOREM TypeCorrect == Spec => []TypeOK
  BY TypeInit, TypeStep, PTL DEF Spec

-----------------------------------------------------------------------------
(* The inductive invariant.                                                 *)

\* A step of the app, or of the entry, or a failure leaves the refresh and the
\* data sound: the versions only grow.
LEMMA AppStep ==
    ASSUME IndInv, TypeOK', App \/ Configure \/ Resting \/ UNCHANGED vars
    PROVE  IndInv'
  <1> USE CoordinatorAssumption DEF IndInv, TypeOK, Versions, Snapshot, Polls
  <1>1. /\ UNCHANGED <<poll, data, success, entities, asOf>>
        /\ \A d \in Devices : stored[d] <= stored'[d] /\ seen[d] <= seen'[d]
        /\ \A d \in Devices : seen'[d] <= stored'[d]
    <2>1. CASE Enroll
      BY <2>1 DEF Enroll, SeenInv
    <2>2. CASE Batch
      BY <2>2 DEF Batch, SeenInv
    <2>3. CASE BatchDies
      BY <2>3 DEF BatchDies, SeenInv
    <2>4. CASE Resend
      BY <2>4 DEF Resend, SeenInv
    <2>5. CASE Configure \/ Resting \/ UNCHANGED vars
      BY <2>5 DEF Configure, Resting, vars, app, SeenInv
    <2>6. QED
      BY <2>1, <2>2, <2>3, <2>4, <2>5 DEF App
  <1>2. SeenInv'
    BY <1>1 DEF SeenInv
  <1>3. BeganInv'
    BY <1>1 DEF BeganInv
  <1>4. ListedInv'
    BY <1>1 DEF ListedInv
  <1>5. SummariesInv' /\ DataInv'
    BY <1>1 DEF SummariesInv, DataInv, Sound, NoSummary
  <1>6. QED
    BY <1>2, <1>3, <1>4, <1>5

\* So does each step of a refresh.
LEMMA RefreshStep ==
    ASSUME IndInv, TypeOK', Refresh \/ Unload
    PROVE  IndInv'
  <1> USE CoordinatorAssumption DEF IndInv, TypeOK, Versions, Snapshot, Polls
  <1>1. UNCHANGED app
    BY DEF Refresh, Unload, Setup, TimerFires, GetHealth, GetDevices, GetTimeline,
           TimelineRefused, Refreshed, RefreshFails, app
  <1>2. SeenInv'
    BY <1>1 DEF SeenInv, app
  <1>3. CASE Setup \/ TimerFires
    <2>1. poll' = Begun /\ UNCHANGED <<data, success, asOf>>
      BY <1>3 DEF Setup, TimerFires
    <2>2. /\ poll'.step = "health" /\ poll'.began = Now
          /\ \A d \in Devices : poll'.summaries[d] = NoSummary
      BY <2>1 DEF Begun, Nothing
    <2>3. BeganInv'
      BY <1>1, <2>2 DEF BeganInv, app, Now
    <2>4. ListedInv' /\ SummariesInv'
      BY <2>2 DEF ListedInv, SummariesInv, NoSummary
    <2>5. DataInv'
      BY <2>1 DEF DataInv, NoSummary, Sound
    <2>6. QED
      BY <1>2, <2>3, <2>4, <2>5
  <1>4. CASE GetHealth
    <2>1. /\ poll'.step = "devices" /\ poll.step = "health"
          /\ poll'.began = poll.began /\ poll'.summaries = poll.summaries
          /\ UNCHANGED <<data, success, asOf>>
      BY <1>4 DEF GetHealth
    <2>2. QED
      BY <1>1, <1>2, <2>1
      DEF BeganInv, ListedInv, SummariesInv, DataInv, Sound, NoSummary, app
  <1>5. CASE GetDevices
    <2>1. /\ poll'.step = "timelines" /\ poll.step = "devices" /\ poll'.listed = seen
          /\ poll'.began = poll.began /\ poll'.summaries = poll.summaries
          /\ UNCHANGED <<data, success, asOf>>
      BY <1>5 DEF GetDevices
    <2>2. BeganInv' /\ ListedInv'
      BY <1>1, <2>1 DEF BeganInv, ListedInv, SeenInv, app
    <2>3. SummariesInv' /\ DataInv'
      BY <2>1 DEF SummariesInv, DataInv, Sound, NoSummary
    <2>4. QED
      BY <1>2, <2>2, <2>3
  <1>6. CASE GetTimeline
    <2>1. PICK d \in Devices :
             poll' = [poll EXCEPT !.left = @ \ {d},
                        !.summaries[d] = [last_sync |-> poll.listed[d], timeline |-> stored[d]]]
      BY <1>6 DEF GetTimeline
    <2>2. /\ poll.step = "timelines" /\ poll'.step = "timelines"
          /\ poll'.began = poll.began /\ poll'.listed = poll.listed
          /\ poll'.summaries[d] = [last_sync |-> poll.listed[d], timeline |-> stored[d]]
          /\ \A e \in Devices : e # d => poll'.summaries[e] = poll.summaries[e]
          /\ UNCHANGED <<data, success, asOf>>
      BY <1>6, <2>1 DEF GetTimeline
    <2>3. BeganInv' /\ ListedInv'
      BY <1>1, <2>2 DEF BeganInv, ListedInv, app
    <2>4. Sound(poll'.summaries[d], poll'.began, d)
      BY <2>2 DEF BeganInv, ListedInv, Sound
    <2>5. SummariesInv' /\ DataInv'
      BY <2>2, <2>4 DEF SummariesInv, DataInv, Sound, NoSummary
    <2>6. QED
      BY <1>2, <2>3, <2>5
  <1>7. CASE TimelineRefused
    <2>1. /\ poll.step = "timelines" /\ poll'.step = "timelines"
          /\ poll'.began = poll.began /\ poll'.listed = poll.listed
          /\ poll'.summaries = poll.summaries
          /\ UNCHANGED <<data, success, asOf>>
      BY <1>7 DEF TimelineRefused
    <2>2. QED
      BY <1>1, <1>2, <2>1
      DEF BeganInv, ListedInv, SummariesInv, DataInv, Sound, NoSummary, app
  <1>8. CASE Refreshed \/ RefreshFails \/ Unload
    <2>1. /\ poll'.step = "idle"
          /\ \A d \in Devices : poll'.summaries[d] = NoSummary
      BY <1>8 DEF Refreshed, RefreshFails, Unload, Idle, Nothing
    <2>2. BeganInv' /\ ListedInv' /\ SummariesInv'
      BY <2>1 DEF BeganInv, ListedInv, SummariesInv, NoSummary
    <2>3. DataInv'
      <3>1. CASE Refreshed
        BY <3>1 DEF Refreshed, DataInv, SummariesInv, Sound, NoSummary
      <3>2. CASE RefreshFails \/ Unload
        BY <3>2 DEF RefreshFails, Unload, DataInv
      <3>3. QED
        BY <1>8, <3>1, <3>2
    <2>4. QED
      BY <1>2, <2>2, <2>3
  <1>9. QED
    BY <1>3, <1>4, <1>5, <1>6, <1>7, <1>8 DEF Refresh

\* The inductive invariant holds throughout: what a refresh has read so far is
\* sound, and so is what the last successful one has left.
THEOREM Invariance == Spec => []IndInv
  <1>1. Init => IndInv
    <2> SUFFICES ASSUME Init PROVE IndInv
      OBVIOUS
    <2>1. TypeOK
      BY TypeInit
    <2>2. poll.step = "idle" /\ ~success /\ \A d \in Devices : poll.summaries[d] = NoSummary
      BY DEF Init, Idle, Nothing
    <2>3. SeenInv
      BY DEF Init, SeenInv
    <2>4. QED
      BY <2>1, <2>2, <2>3 DEF IndInv, BeganInv, ListedInv, SummariesInv, DataInv
  <1>2. IndInv /\ [Next]_vars => IndInv'
    <2> SUFFICES ASSUME IndInv, [Next]_vars PROVE IndInv'
      OBVIOUS
    <2>1. TypeOK'
      BY TypeStep DEF IndInv
    <2>2. QED
      BY <2>1, AppStep, RefreshStep DEF Next
  <1>3. QED
    BY <1>1, <1>2, PTL DEF Spec

\* An available entity's "last sync" is backed by its other values, whatever
\* the app did between the requests.
THEOREM SyncBacked == Spec => []LastSyncBacked
  <1>1. IndInv => LastSyncBacked
    BY DEF IndInv, DataInv, Sound, LastSyncBacked, Available
  <1>2. QED
    BY <1>1, Invariance, PTL

\* An available entity shows nothing from before the last ended refresh,
\* whichever requests failed.
THEOREM LastRefreshShown == Spec => []ShowsLastRefresh
  <1>1. IndInv => ShowsLastRefresh
    BY DEF IndInv, DataInv, Sound, ShowsLastRefresh, Available
  <1>2. QED
    BY <1>1, Invariance, PTL
=============================================================================
