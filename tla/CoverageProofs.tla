---------------------------- MODULE CoverageProofs ----------------------------
(* Proofs about Coverage, for any sources, windows, retention and bounds.    *)
EXTENDS Coverage, FiniteSetTheorems, TLAPS

Jobs == [step : Steps, kind : Kinds, from : Int, to : Int, day : Int]

-----------------------------------------------------------------------------
(* Lemmas about windows and hours *)

\* An hour begins no later than any of its slots.
LEMMA HourStart ==
    ASSUME NEW t \in Nat
    PROVE  Hour(t) \in Nat /\ Hour(t) * SlotsPerHour <= t
  BY CoverageAssumption DEF Hour

\* The sources seen in a window are sources.
LEMMA SeenType ==
    ASSUME NEW E \in SUBSET Event, NEW from, NEW to, NEW h
    PROVE  Seen(E, from, to, h) \subseteq Sources
  BY DEF Seen, Event

\* compute_coverage writes rows, and only the window's.
LEMMA CoverageRowsType ==
    ASSUME rows \in [Hours -> Row], held \subseteq Event, NEW from, NEW to
    PROVE  CoverageRows(from, to) \in [Hours -> Row]
  <1>1. \A h \in Hours : Seen(held, from, to, h) \in SUBSET Sources
    BY SeenType
  <1>2. \A h \in Hours : [known |-> TRUE, seen |-> Seen(held, from, to, h)] \in Row
    BY <1>1 DEF Row
  <1> QED
    BY <1>2 DEF CoverageRows

LEMMA CoverageRowsEffect ==
    ASSUME NEW from, NEW to, NEW h \in Hours
    PROVE  /\ h \in HourRange(from, to) =>
                CoverageRows(from, to)[h] = [known |-> TRUE, seen |-> Seen(held, from, to, h)]
           /\ h \notin HourRange(from, to) => CoverageRows(from, to)[h] = rows[h]
  BY DEF CoverageRows

\* The bounds of every window a computation is asked for are integers, a
\* cycle's end now, and a day to roll up is one of the days.
LEMMA Windows ==
    ASSUME TypeOK, StartCycle \/ Timeline \/ RecomputeHours
    PROVE  \E kind \in Kinds, from, to, day \in Int :
              /\ Compute(kind, from, to, day)
              /\ kind = "cycle" => from = now - Recompute /\ to = now
              /\ kind # "recompute" => day \in Midnights
  <1>1. now \in Int /\ Recompute \in Int /\ SlotsPerHour \in Int /\ Midnights \subseteq Int
    BY CoverageAssumption DEF TypeOK, Slots
  <1> DEFINE Asked(kind, from, to, day) ==
                /\ Compute(kind, from, to, day)
                /\ kind = "cycle" => from = now - Recompute /\ to = now
                /\ kind # "recompute" => day \in Midnights
  <1>2. CASE StartCycle
    <2>1. PICK day \in Midnights : Compute("cycle", now - Recompute, now, day)
      BY <1>2 DEF StartCycle
    <2>2. Asked("cycle", now - Recompute, now, day)
      BY <2>1
    <2>3. "cycle" \in Kinds /\ now - Recompute \in Int /\ now \in Int /\ day \in Int
      BY <1>1 DEF Kinds
    <2> HIDE DEF Asked
    <2>4. \E kind \in Kinds, from, to, d \in Int : Asked(kind, from, to, d)
      BY <2>2, <2>3
    <2> QED
      BY <2>4 DEF Asked
  <1>3. CASE Timeline
    <2>1. PICK day \in Midnights, end \in Midnights : Compute("timeline", day, end, day)
      BY <1>3 DEF Timeline
    <2>2. Asked("timeline", day, end, day)
      BY <2>1
    <2>3. "timeline" \in Kinds /\ day \in Int /\ end \in Int
      BY <1>1 DEF Kinds
    <2> HIDE DEF Asked
    <2>4. \E kind \in Kinds, from, to, d \in Int : Asked(kind, from, to, d)
      BY <2>2, <2>3
    <2> QED
      BY <2>4 DEF Asked
  <1>4. CASE RecomputeHours
    <2>1. PICK hours \in 1..Hour(MaxTime) :
             Compute("recompute", now - hours * SlotsPerHour, now, 0)
      BY <1>4 DEF RecomputeHours
    <2>2. Asked("recompute", now - hours * SlotsPerHour, now, 0)
      BY <2>1
    <2>3. "recompute" \in Kinds /\ now - hours * SlotsPerHour \in Int /\ now \in Int /\ 0 \in Int
      <3>1. hours \in Int
        OBVIOUS
      <3> QED
        BY <1>1, <3>1 DEF Kinds
    <2> HIDE DEF Asked
    <2>4. \E kind \in Kinds, from, to, d \in Int : Asked(kind, from, to, d)
      BY <2>2, <2>3
    <2> QED
      BY <2>4 DEF Asked
  <1> QED
    BY <1>2, <1>3, <1>4

-----------------------------------------------------------------------------
(* Types *)

\* The state has its types in every reachable state.
THEOREM TypeCorrect == Spec => []TypeOK
  <1>1. Init => TypeOK
    <2> SUFFICES ASSUME Init PROVE TypeOK
      OBVIOUS
    <2>1. now \in Slots /\ faults \in 0..MaxFaults
      BY CoverageAssumption DEF Init, Slots
    <2>2. rows \in [Hours -> Row] /\ features \in [Hours -> Feature]
      BY DEF Init, Row, NoRow, Feature, NoFeature
    <2>3. job \in Jobs
      BY DEF Init, Idle, Jobs, Steps, Kinds
    <2>4. daily \in [Midnights -> Daily]
      BY DEF Init, Daily, NoDaily
    <2> QED
      BY <2>1, <2>2, <2>3, <2>4 DEF Init, TypeOK, Jobs
  <1>2. TypeOK /\ [Next]_vars => TypeOK'
    <2> SUFFICES ASSUME TypeOK, [Next]_vars PROVE TypeOK'
      OBVIOUS
    <2> USE DEF TypeOK
    <2>0. Idle \in Jobs
      BY DEF Idle, Jobs, Steps, Kinds
    <2>1. CASE Ingest
      BY <2>1 DEF Ingest
    <2>2. CASE Tick
      <3>1. now' \in Slots
        BY <2>2, CoverageAssumption DEF Tick, Slots
      <3> QED
        BY <2>2, <3>1 DEF Tick
    <2>3. CASE StartCycle \/ Timeline \/ RecomputeHours
      <3>1. PICK kind \in Kinds, from \in Int, to \in Int, day \in Int :
               Compute(kind, from, to, day)
        BY <2>3, Windows
      <3>2. rows' \in [Hours -> Row]
        BY <3>1, CoverageRowsType DEF Compute
      <3>3. job' \in Jobs
        BY <3>1 DEF Compute, Jobs, Steps
      <3> QED
        BY <3>1, <3>2, <3>3 DEF Compute, Jobs
    <2>4. CASE UpsertFeatures
      <3>1. features' \in [Hours -> Feature]
        <4>1. \A h \in Hours : Seen(held, job.from, job.to, h) \in SUBSET Sources
          BY SeenType
        <4>2. \A h \in Hours : rows[h].seen \cap Expected \in SUBSET Sources
          BY DEF Row
        <4>3. \A h \in Hours :
                 [known |-> TRUE, seen |-> Seen(held, job.from, job.to, h),
                  observed |-> IF h \in Stored(job.from, job.to)
                               THEN rows[h].seen \cap Expected ELSE {}] \in Feature
          BY <4>1, <4>2 DEF Feature
        <4> QED
          BY <2>4, <4>3 DEF UpsertFeatures
      <3>2. job' \in Jobs
        BY <2>4, <2>0 DEF UpsertFeatures, Jobs, Steps
      <3> QED
        BY <2>4, <3>1, <3>2 DEF UpsertFeatures, Jobs
    <2>5. CASE ApplyRetention
      BY <2>5, <2>0 DEF ApplyRetention, Jobs
    <2>5a. CASE RollUp
      <3>1. daily' \in [Midnights -> Daily]
        <4> DEFINE counted == UNION {{h} \X features[h].seen : h \in DayHours(job.day)}
        <4>1. counted \subseteq Hours \X Sources
          BY DEF DayHours, Feature
        <4>2. [known |-> TRUE, counted |-> counted] \in Daily
          BY <4>1 DEF Daily
        <4>3. daily' = [daily EXCEPT ![job.day] = [known |-> TRUE, counted |-> counted]]
          BY <2>5a DEF RollUp
        <4> HIDE DEF counted
        <4> QED
          BY <4>2, <4>3
      <3>2. job' \in Jobs
        BY <2>5a, <2>0 DEF RollUp, Jobs, Steps
      <3> QED
        BY <2>5a, <3>1, <3>2 DEF RollUp, Jobs
    <2>5b. CASE CycleFails
      <3>1. faults' \in 0..MaxFaults
        BY <2>5b, CoverageAssumption DEF CycleFails
      <3> QED
        BY <2>5b, <3>1 DEF CycleFails
    <2>6. CASE FindGaps
      <3>1. rows' \in [Hours -> Row]
        BY <2>6, CoverageRowsType DEF FindGaps
      <3> QED
        BY <2>6, <3>1 DEF FindGaps
    <2>7. CASE ComputationFails
      <3>1. faults' \in 0..MaxFaults
        BY <2>7, CoverageAssumption DEF ComputationFails
      <3>2. due' \in BOOLEAN
        BY <2>7 DEF ComputationFails
      <3> QED
        BY <2>7, <3>1, <3>2, <2>0 DEF ComputationFails, Jobs
    <2>8. CASE Stop
      <3>1. faults' \in 0..MaxFaults
        BY <2>8, CoverageAssumption DEF Stop
      <3> QED
        BY <2>8, <3>1, <2>0 DEF Stop, Jobs
    <2>9. CASE Start
      BY <2>9 DEF Start
    <2>10. CASE UNCHANGED vars
      BY <2>10 DEF vars
    <2> QED
      BY <2>1, <2>2, <2>3, <2>4, <2>5, <2>5a, <2>5b, <2>6, <2>7, <2>8, <2>9, <2>10 DEF Next
  <1> QED
    BY <1>1, <1>2, PTL DEF Spec
-----------------------------------------------------------------------------
(* The inductive invariant *)

\* The strengthened invariant holds in every reachable state.
THEOREM Invariance == Spec => []IndInv
  <1>1. Init => IndInv
    <2> SUFFICES ASSUME Init PROVE IndInv
      OBVIOUS
    <2>1. JobInv /\ AgeInv
      BY DEF Init, Idle, JobInv, AgeInv
    <2>2. NothingInvented
      BY DEF Init, NoRow, NoFeature, NothingInvented
    <2> QED
      BY <2>1, <2>2 DEF IndInv
  <1>2. TypeOK /\ IndInv /\ [Next]_vars => IndInv'
    <2> SUFFICES ASSUME TypeOK, IndInv, [Next]_vars PROVE IndInv'
      OBVIOUS
    <2> DEFINE Events == held \cup retired
    <2>a. held \subseteq Event /\ retired \subseteq Event /\ Events \in SUBSET Event
      BY DEF TypeOK
    <2>b. now \in Nat /\ Recompute \in Nat /\ Retention \in Nat /\ MaxTime \in Nat
      BY CoverageAssumption DEF TypeOK, Slots
    <2>c. \A from, to \in Int : \A h \in Hours :
             CoverageRows(from, to)[h].seen \subseteq Ever(h)
      <3> SUFFICES ASSUME NEW from \in Int, NEW to \in Int, NEW h \in Hours
                   PROVE  CoverageRows(from, to)[h].seen \subseteq Ever(h)
        OBVIOUS
      <3>1. Seen(held, from, to, h) \subseteq Ever(h)
        BY DEF Seen, Ever, Received
      <3>2. rows[h].seen \subseteq Ever(h)
        BY DEF IndInv, NothingInvented
      <3>3. CASE h \in HourRange(from, to)
        <4>1. CoverageRows(from, to)[h] = [known |-> TRUE, seen |-> Seen(held, from, to, h)]
          BY <3>3, CoverageRowsEffect
        <4>2. CoverageRows(from, to)[h].seen = Seen(held, from, to, h)
          BY <4>1
        <4> QED
          BY <3>1, <4>2
      <3>4. CASE h \notin HourRange(from, to)
        BY <3>2, <3>4, CoverageRowsEffect
      <3> QED
        BY <3>3, <3>4
    <2>1. CASE Ingest
      <3>1. PICK e \in Event : held' = held \cup {e}
        BY <2>1 DEF Ingest
      <3>2. job.step \notin {"features", "daily"}
        BY <2>1 DEF Ingest, Waiting
      <3>3. JobInv'
        BY <2>1, <3>2 DEF Ingest, IndInv, JobInv
      <3>4. AgeInv'
        BY <2>1 DEF Ingest, IndInv, AgeInv, PastAge
      <3>5. NothingInvented'
        <4>1. Events \subseteq Events' /\ Events' \in SUBSET Event
          BY <2>1, <3>1, <2>a DEF Ingest
        <4>2. \A h \in Hours : Ever(h) \subseteq Ever(h)'
          BY <4>1 DEF Ever, Received
        <4> QED
          BY <2>1, <4>2 DEF Ingest, IndInv, NothingInvented
      <3> QED
        BY <3>3, <3>4, <3>5 DEF IndInv
    <2>2. CASE Tick
      <3>1. job.step \notin {"features", "daily"}
        BY <2>2 DEF Tick, IndInv, JobInv
      <3>2. JobInv'
        BY <2>2, <3>1 DEF Tick, IndInv, JobInv
      <3>3. AgeInv'
        <4> SUFFICES ASSUME NEW e \in retired
                     PROVE  Retention > 0 /\ e[1] < now' - Retention
          BY <2>2 DEF Tick, AgeInv, PastAge
        <4>1. e[1] \in Nat
          BY <2>a DEF Event, Slots
        <4>2. now' = now + 1
          BY <2>2 DEF Tick
        <4>3. Retention > 0 /\ e[1] < now - Retention
          BY DEF IndInv, AgeInv, PastAge
        <4> QED
          BY <4>1, <4>2, <4>3, <2>b
      <3>4. NothingInvented'
        BY <2>2 DEF Tick, IndInv, NothingInvented, Ever, Received
      <3> QED
        BY <3>2, <3>3, <3>4 DEF IndInv
    <2>3. CASE StartCycle \/ Timeline \/ RecomputeHours
      <3>1. PICK kind \in Kinds, from \in Int, to \in Int, day \in Int :
               /\ Compute(kind, from, to, day)
               /\ kind = "cycle" => from = now - Recompute /\ to = now
               /\ kind # "recompute" => day \in Midnights
        BY <2>3, Windows
      <3>2. /\ job' = [step |-> "features", kind |-> kind, from |-> from, to |-> to, day |-> day]
            /\ rows' = CoverageRows(from, to) /\ up
            /\ UNCHANGED <<up, now, held, retired, features>>
        BY <3>1 DEF Compute
      <3>3. JobInv'
        <4>1. \A h \in HourRange(from, to) :
                 CoverageRows(from, to)[h] = [known |-> TRUE, seen |-> Seen(held, from, to, h)]
          BY CoverageRowsEffect DEF HourRange
        <4>2. (\A h \in HourRange(job.from, job.to) :
                 rows[h] = [known |-> TRUE, seen |-> Seen(held, job.from, job.to, h)])'
          BY <3>2, <4>1 DEF HourRange, Seen
        <4>3. (/\ job.kind = "cycle" => job.from = now - Recompute /\ job.to = now
               /\ job.kind # "recompute" => job.day \in Midnights)'
          BY <3>1, <3>2
        <4>4. up' /\ job'.step = "features"
          BY <3>2
        <4> QED
          BY <4>2, <4>3, <4>4 DEF JobInv
      <3>4. AgeInv'
        BY <3>2 DEF IndInv, AgeInv, PastAge
      <3>5. NothingInvented'
        <4>1. \A h \in Hours : rows'[h].seen \subseteq Ever(h)
          BY <3>2, <2>c
        <4> QED
          BY <3>2, <4>1 DEF IndInv, NothingInvented, Ever, Received
      <3> QED
        BY <3>3, <3>4, <3>5 DEF IndInv
    <2>4. CASE UpsertFeatures
      <3>1. UNCHANGED <<now, up, held, retired, rows>> /\ job.step = "features" /\ up
        BY <2>4 DEF UpsertFeatures, IndInv, JobInv
      <3>2. JobInv'
        <4>1. CASE job.kind = "recompute"
          BY <2>4, <4>1 DEF UpsertFeatures, JobInv, Idle
        <4>2. CASE job.kind # "recompute"
          <5>1. job' = [job EXCEPT !.step = "daily"]
            BY <2>4, <4>2 DEF UpsertFeatures
          <5>2. /\ job'.step = "daily" /\ job'.kind = job.kind /\ job'.from = job.from
                /\ job'.to = job.to /\ job'.day = job.day
            BY <5>1
          <5>3. \A h \in HourRange(job.from, job.to) :
                   features'[h].known /\ features'[h].seen = Seen(held, job.from, job.to, h)
            BY <2>4 DEF UpsertFeatures, HourRange
          <5>4. (\A h \in HourRange(job.from, job.to) :
                   features[h].known /\ features[h].seen = Seen(held, job.from, job.to, h))'
            BY <3>1, <5>2, <5>3 DEF HourRange, Seen
          <5> QED
            BY <3>1, <4>2, <5>2, <5>4 DEF IndInv, JobInv
        <4> QED
          BY <4>1, <4>2
      <3>3. AgeInv'
        BY <3>1 DEF IndInv, AgeInv, PastAge
      <3>4. NothingInvented'
        <4>1. ASSUME NEW h \in Hours
              PROVE  features'[h].seen \cup features'[h].observed \subseteq Ever(h)
          <5>1. Seen(held, job.from, job.to, h) \subseteq Ever(h)
            BY DEF Seen, Ever, Received
          <5>2. rows[h].seen \cup features[h].seen \cup features[h].observed \subseteq Ever(h)
            BY DEF IndInv, NothingInvented
          <5>3. \/ features'[h] = features[h]
                \/ /\ features'[h].seen = Seen(held, job.from, job.to, h)
                   /\ features'[h].observed \subseteq rows[h].seen
            BY <2>4 DEF UpsertFeatures
          <5> QED
            BY <5>1, <5>2, <5>3
        <4> QED
          BY <3>1, <4>1 DEF IndInv, NothingInvented, Ever, Received
      <3> QED
        BY <3>2, <3>3, <3>4 DEF IndInv
    <2>5a. CASE RollUp
      <3>1. UNCHANGED <<now, up, held, retired, rows, features>>
        BY <2>5a DEF RollUp
      <3>2. job'.step \in {"idle", "publish"} /\ up
        BY <2>5a DEF RollUp, Idle, IndInv, JobInv
      <3>3. JobInv'
        BY <3>1, <3>2 DEF JobInv
      <3>4. AgeInv'
        BY <3>1 DEF IndInv, AgeInv, PastAge
      <3>5. NothingInvented'
        BY <3>1 DEF IndInv, NothingInvented, Ever, Received
      <3> QED
        BY <3>3, <3>4, <3>5 DEF IndInv
    <2>5b. CASE CycleFails
      <3>1. UNCHANGED <<now, up, held, retired, rows, features, job>> /\ job.step = "idle"
        BY <2>5b DEF CycleFails
      <3>2. JobInv'
        BY <3>1 DEF IndInv, JobInv
      <3>3. AgeInv'
        BY <3>1 DEF IndInv, AgeInv, PastAge
      <3>4. NothingInvented'
        BY <3>1 DEF IndInv, NothingInvented, Ever, Received
      <3> QED
        BY <3>2, <3>3, <3>4 DEF IndInv
    <2>5. CASE ApplyRetention
      <3>1. UNCHANGED <<now, up, rows, features>> /\ job' = Idle
        BY <2>5 DEF ApplyRetention
      <3>2. Events' = Events /\ held' \subseteq held
        BY <2>5 DEF ApplyRetention
      <3>3. \A e \in retired' \ retired : Retention > 0 /\ e[1] < now - Retention
        BY <2>5 DEF ApplyRetention
      <3>4. JobInv'
        BY <3>1 DEF JobInv, Idle
      <3>5. AgeInv'
        BY <3>1, <3>2, <3>3 DEF IndInv, AgeInv, PastAge
      <3>6. NothingInvented'
        BY <3>1, <3>2 DEF IndInv, NothingInvented, Ever, Received
      <3> QED
        BY <3>4, <3>5, <3>6 DEF IndInv
    <2>6. CASE FindGaps
      <3>1. PICK from \in Slots, to \in Slots : rows' = CoverageRows(from, to)
        BY <2>6 DEF FindGaps
      <3>2. UNCHANGED <<now, up, held, retired, features, job>> 
            /\ job.step \notin {"features", "daily"}
        BY <2>6 DEF FindGaps, Waiting
      <3>3. JobInv'
        BY <3>2 DEF IndInv, JobInv
      <3>4. AgeInv'
        BY <3>2 DEF IndInv, AgeInv, PastAge
      <3>5. NothingInvented'
        <4>1. from \in Int /\ to \in Int
          BY DEF Slots
        <4>2. \A h \in Hours : rows'[h].seen \subseteq Ever(h)
          BY <3>1, <4>1, <2>c
        <4> QED
          BY <3>2, <4>2 DEF IndInv, NothingInvented, Ever, Received
      <3> QED
        BY <3>3, <3>4, <3>5 DEF IndInv
    <2>7. CASE ComputationFails \/ Stop
      <3>1. UNCHANGED <<now, held, retired, rows, features>> /\ job' = Idle
        BY <2>7 DEF ComputationFails, Stop
      <3>2. JobInv'
        BY <3>1 DEF JobInv, Idle
      <3>3. AgeInv'
        BY <3>1 DEF IndInv, AgeInv, PastAge
      <3>4. NothingInvented'
        BY <3>1 DEF IndInv, NothingInvented, Ever, Received
      <3> QED
        BY <3>2, <3>3, <3>4 DEF IndInv
    <2>8. CASE Start
      <3>1. UNCHANGED <<now, held, retired, rows, features, job>> /\ up'
        BY <2>8 DEF Start
      <3>2. JobInv'
        BY <3>1 DEF IndInv, JobInv, HourRange, Seen
      <3>3. AgeInv'
        BY <3>1 DEF IndInv, AgeInv, PastAge
      <3>4. NothingInvented'
        BY <3>1 DEF IndInv, NothingInvented, Ever, Received
      <3> QED
        BY <3>2, <3>3, <3>4 DEF IndInv
    <2>9. CASE UNCHANGED vars
      BY <2>9 DEF vars, IndInv, JobInv, AgeInv, PastAge, NothingInvented, Ever, Received,
             HourRange, Seen
    <2> QED
      BY <2>1, <2>2, <2>3, <2>4, <2>5, <2>5a, <2>5b, <2>6, <2>7, <2>8, <2>9 DEF Next
  <1> QED
    BY <1>1, <1>2, TypeCorrect, PTL DEF Spec
-----------------------------------------------------------------------------
(* What follows from it *)

\* No row and no feature ever shows a source without an event in its hour.
THEOREM NoInvention == Spec => []NothingInvented
  <1>1. IndInv => NothingInvented
    BY DEF IndInv
  <1> QED
    BY <1>1, Invariance, PTL

\* New features agree with the coverage row of their hour.
THEOREM FeaturesFollowCoverage == Spec => FeaturesMatchCoverage
  <1>1. TypeOK /\ IndInv /\ [Next]_vars =>
          [\A h \in Hours :
             features'[h] # features[h] /\ BeginsIn(h, job.from, job.to)
                => Agrees(features'[h], rows[h])]_vars
    <2> SUFFICES ASSUME TypeOK, IndInv, Next, NEW h \in Hours,
                        features'[h] # features[h], BeginsIn(h, job.from, job.to)
                 PROVE  /\ features'[h].seen = rows[h].seen
                        /\ features'[h].observed = rows[h].seen \cap Expected
      BY DEF Agrees
    <2>1. UpsertFeatures
      BY DEF Next, Ingest, Tick, StartCycle, Timeline, RecomputeHours, Compute,
             RollUp, ApplyRetention, FindGaps, CycleFails, ComputationFails, Stop, Start
    <2>2. h \in HourRange(job.from, job.to)
      BY <2>1 DEF UpsertFeatures
    <2>3. rows[h] = [known |-> TRUE, seen |-> Seen(held, job.from, job.to, h)]
      BY <2>1, <2>2 DEF UpsertFeatures, IndInv, JobInv
    <2>4. h * SlotsPerHour >= job.from /\ h * SlotsPerHour < job.to
      <3>1. job.from \in Int /\ job.to \in Int /\ h * SlotsPerHour \in Int
        BY CoverageAssumption DEF TypeOK, Hours
      <3> QED
        BY <3>1 DEF BeginsIn
    <2>5. h \in Stored(job.from, job.to)
      BY <2>3, <2>4 DEF Stored
    <2> QED
      BY <2>1, <2>2, <2>3, <2>5 DEF UpsertFeatures
  <1> QED
    BY <1>1, Invariance, TypeCorrect, PTL DEF Spec, FeaturesMatchCoverage

\* In a computation's window, the events of an hour that begins there are the
\* hour's events before the window's end; those that are due are still held.
LEMMA HoursInWindow ==
    ASSUME TypeOK, IndInv, NEW h \in Hours, BeginsIn(h, job.from, job.to)
    PROVE  /\ h \in HourRange(job.from, job.to)
           /\ Due(h, job.to) \subseteq Seen(held, job.from, job.to, h)
           /\ Seen(held, job.from, job.to, h) \subseteq Seen(Received, job.from, job.to, h)
           /\ Seen(held, job.from, job.to, h) \subseteq Ever(h)
  <1>1. job.from \in Int /\ job.to \in Int
    BY DEF TypeOK
  <1>2. h \in Nat /\ h * SlotsPerHour \in Int
    BY CoverageAssumption DEF Hours
  <1>3. job.from <= h * SlotsPerHour /\ h * SlotsPerHour < job.to
    BY DEF BeginsIn
  <1>4. h \in HourRange(job.from, job.to)
    <2>1. Hour(job.from) \in Int /\ Hour(job.from) <= h
      BY <1>1, <1>2, <1>3, CoverageAssumption DEF Hour
    <2> QED
      BY <1>2, <1>3, <2>1 DEF HourRange
  <1>5. ASSUME NEW e \in Received, Hour(e[1]) = h, ~PastAge(e)
        PROVE  e \in held /\ job.from <= e[1]
    <2>1. e[1] \in Nat
      BY DEF TypeOK, Received, Event, Slots
    <2>2. h * SlotsPerHour <= e[1]
      BY <1>5, <2>1, HourStart
    <2>3. e \in held
      BY <1>5 DEF IndInv, AgeInv, Received
    <2> QED
      BY <1>1, <1>2, <1>3, <2>1, <2>2, <2>3
  <1>6. Due(h, job.to) \subseteq Seen(held, job.from, job.to, h)
    BY <1>5 DEF Due, Seen
  <1>7. /\ Seen(held, job.from, job.to, h) \subseteq Seen(Received, job.from, job.to, h)
        /\ Seen(held, job.from, job.to, h) \subseteq Ever(h)
    BY DEF Seen, Ever, Received
  <1> QED
    BY <1>4, <1>6, <1>7

\* Every computation leaves the hours that begin in its window with the
\* sources of their events before the window's end, but for those that
\* retention has deleted.
THEOREM ComputationsFaithful == Spec => []RecomputedHoursFaithful
  <1>1. TypeOK /\ IndInv => RecomputedHoursFaithful
    <2> SUFFICES ASSUME TypeOK, IndInv, job.step = "features",
                        NEW h \in Hours, BeginsIn(h, job.from, job.to)
                 PROVE  /\ rows[h].known
                        /\ Due(h, job.to) \subseteq rows[h].seen
                        /\ rows[h].seen \subseteq Seen(Received, job.from, job.to, h)
      BY DEF RecomputedHoursFaithful
    <2>1. /\ h \in HourRange(job.from, job.to)
          /\ Due(h, job.to) \subseteq Seen(held, job.from, job.to, h)
          /\ Seen(held, job.from, job.to, h) \subseteq Seen(Received, job.from, job.to, h)
      BY HoursInWindow
    <2>2. rows[h] = [known |-> TRUE, seen |-> Seen(held, job.from, job.to, h)]
      BY <2>1 DEF IndInv, JobInv
    <2>3. rows[h].known /\ rows[h].seen = Seen(held, job.from, job.to, h)
      BY <2>2
    <2> QED
      BY <2>1, <2>3
  <1> QED
    BY <1>1, Invariance, TypeCorrect, PTL

\* A roll-up counts for each hour of the day only sources that had an event
\* in it, and all that were due in the hours of the window just computed.
THEOREM DaysFaithful == Spec => DailyFaithful
  <1>1. TypeOK /\ IndInv /\ [Next]_vars =>
          [job.step = "daily" /\ daily' # daily =>
             \A h \in DayHours(job.day) :
                /\ Counted(daily'[job.day], h) \subseteq Ever(h)
                /\ BeginsIn(h, job.from, job.to) =>
                      Due(h, job.to) \subseteq Counted(daily'[job.day], h)]_vars
    <2> SUFFICES ASSUME TypeOK, IndInv, Next,
                        job.step = "daily", daily' # daily,
                        NEW h \in DayHours(job.day)
                 PROVE  /\ Counted(daily'[job.day], h) \subseteq Ever(h)
                        /\ BeginsIn(h, job.from, job.to) =>
                              Due(h, job.to) \subseteq Counted(daily'[job.day], h)
      OBVIOUS
    <2>1. RollUp
      BY DEF Next, Ingest, Tick, StartCycle, Timeline, RecomputeHours, Compute,
             UpsertFeatures, ApplyRetention, FindGaps, CycleFails, ComputationFails,
             Stop, Start
    <2>2. h \in Hours
      BY DEF DayHours
    <2>3. features[h].seen \subseteq Sources
      BY <2>2 DEF TypeOK, Feature
    <2>4. daily'[job.day].counted = UNION {{i} \X features[i].seen : i \in DayHours(job.day)}
      BY <2>1 DEF RollUp, IndInv, JobInv, TypeOK
    <2>5. Counted(daily'[job.day], h) = features[h].seen
      BY <2>3, <2>4 DEF Counted
    <2>6. features[h].seen \subseteq Ever(h)
      BY <2>2 DEF IndInv, NothingInvented
    <2>7. ASSUME BeginsIn(h, job.from, job.to)
          PROVE  Due(h, job.to) \subseteq features[h].seen
      <3>1. /\ h \in HourRange(job.from, job.to)
            /\ Due(h, job.to) \subseteq Seen(held, job.from, job.to, h)
        BY <2>2, <2>7, HoursInWindow
      <3>2. features[h].seen = Seen(held, job.from, job.to, h)
        BY <3>1 DEF IndInv, JobInv
      <3> QED
        BY <3>1, <3>2
    <2> QED
      BY <2>5, <2>6, <2>7
  <1> QED
    BY <1>1, Invariance, TypeCorrect, PTL DEF Spec, DailyFaithful

-----------------------------------------------------------------------------
(* The day to roll up.  compute_daily_features would compute the day's hours *)
(* itself if it found none; the window a cycle or a timeline has computed    *)
(* always leaves it one.                                                     *)

\* One more midnight has passed since m at time t.
YesterdayAt(m, t) == Cardinality({n \in Midnights : m < n /\ n <= t}) = 1

\* The day of a cycle is yesterday, and stays it as long as the cycle runs; a
\* timeline computes its day from midnight to midnight.
DayInv ==
    /\ now >= Recompute
    /\ job.step \in {"features", "daily"} =>
          /\ job.kind = "cycle" => YesterdayAt(job.day, now)
          /\ job.kind = "timeline" =>
                job.from = job.day /\ job.to \in Midnights /\ job.day < job.to

LEMMA DayInvariant == Spec => []DayInv
  <1>1. Init => DayInv
    BY CoverageAssumption DEF Init, DayInv, Idle
  <1>2. TypeOK /\ IndInv /\ DayInv /\ [Next]_vars => DayInv'
    <2> SUFFICES ASSUME TypeOK, IndInv, DayInv, [Next]_vars PROVE DayInv'
      OBVIOUS
    <2>1. CASE Tick
      <3>1. now' = now + 1 /\ job' = job /\ job.step \notin {"features", "daily"}
        BY <2>1 DEF Tick, IndInv, JobInv
      <3>2. now \in Int /\ Recompute \in Int
        BY CoverageAssumption DEF TypeOK, Slots
      <3>3. now' >= Recompute
        BY <3>1, <3>2 DEF DayInv
      <3> QED
        BY <3>1, <3>3 DEF DayInv
    <2>2. CASE StartCycle
      <3>1. PICK day \in Midnights :
               IsYesterday(day) /\ Compute("cycle", now - Recompute, now, day)
        BY <2>2 DEF StartCycle
      <3>2. job'.kind = "cycle" /\ job'.day = day /\ now' = now
        BY <3>1 DEF Compute
      <3>3. YesterdayAt(day, now)
        BY <3>1 DEF IsYesterday, YesterdayAt
      <3> QED
        BY <3>2, <3>3 DEF DayInv
    <2>3. CASE Timeline
      <3>1. PICK day \in Midnights, end \in Midnights :
               NextMidnight(day, end) /\ Compute("timeline", day, end, day)
        BY <2>3 DEF Timeline
      <3>2. /\ job'.kind = "timeline" /\ job'.day = day /\ job'.from = day
            /\ job'.to = end /\ now' = now
        BY <3>1 DEF Compute
      <3> QED
        BY <3>1, <3>2 DEF DayInv, NextMidnight
    <2>4. CASE RecomputeHours
      <3>1. job'.kind = "recompute" /\ now' = now
        BY <2>4 DEF RecomputeHours, Compute
      <3> QED
        BY <3>1 DEF DayInv
    <2>5. CASE UpsertFeatures
      <3>1. CASE job.kind = "recompute"
        BY <2>5, <3>1 DEF UpsertFeatures, DayInv, Idle
      <3>2. CASE job.kind # "recompute"
        <4>1. job' = [job EXCEPT !.step = "daily"] /\ job.step = "features" /\ now' = now
          BY <2>5, <3>2 DEF UpsertFeatures
        <4>2. /\ job'.kind = job.kind /\ job'.from = job.from
              /\ job'.to = job.to /\ job'.day = job.day
          BY <4>1
        <4> QED
          BY <4>1, <4>2 DEF DayInv
      <3> QED
        BY <3>1, <3>2
    <2>6. CASE RollUp \/ ApplyRetention \/ ComputationFails \/ Stop
      <3>1. RollUp => now' = now /\ job'.step \in {"idle", "publish"}
        BY DEF RollUp, Idle, TypeOK
      <3>2. ApplyRetention \/ ComputationFails \/ Stop
               => now' = now /\ job'.step \in {"idle", "publish"}
        BY DEF ApplyRetention, ComputationFails, Stop, Idle
      <3>3. now' = now /\ job'.step \in {"idle", "publish"}
        BY <2>6, <3>1, <3>2
      <3> QED
        BY <3>3 DEF DayInv
    <2>7. CASE Ingest \/ FindGaps \/ CycleFails \/ Start \/ UNCHANGED vars
      <3>1. now' = now /\ job' = job
        BY <2>7 DEF Ingest, FindGaps, CycleFails, Start, vars
      <3> QED
        BY <3>1 DEF DayInv
    <2> QED
      BY <2>1, <2>2, <2>3, <2>4, <2>5, <2>6, <2>7 DEF Next
  <1> QED
    BY <1>1, <1>2, TypeCorrect, Invariance, PTL DEF Spec

\* The first hour that starts at or after x.
FirstHour(x) == (x + SlotsPerHour - 1) \div SlotsPerHour

LEMMA FirstHourStarts ==
    ASSUME NEW x \in Nat
    PROVE  /\ FirstHour(x) \in Nat
           /\ x <= FirstHour(x) * SlotsPerHour
           /\ FirstHour(x) * SlotsPerHour < x + SlotsPerHour
  BY CoverageAssumption DEF FirstHour

LEMMA HoursOrdered ==
    ASSUME NEW t \in Nat, NEW h \in Nat
    PROVE  /\ t <= h * SlotsPerHour => Hour(t) <= h
           /\ h * SlotsPerHour <= t => h <= Hour(t)
  BY CoverageAssumption DEF Hour

\* A midnight has passed since yesterday began.
LEMMA MidnightPassed ==
    ASSUME NEW m, NEW t, YesterdayAt(m, t)
    PROVE  \E n \in Midnights : m < n /\ n <= t
  <1> SUFFICES ASSUME {n \in Midnights : m < n /\ n <= t} = {} PROVE FALSE
    OBVIOUS
  <1> QED
    BY FS_EmptySet DEF YesterdayAt

\* Every day that is rolled up has hourly features, so compute_daily_features
\* never computes them itself.  Premises: a day has an hour at the least, and
\* its 24 hours too; the days of the model begin an hour before its last slot;
\* and the recomputation window, itself no shorter than an hour, reaches back
\* to the last of yesterday's 24 hours, as 48 hours do.
THEOREM RollUpsFindHours ==
    ASSUME DayLength >= SlotsPerHour,
           \A m, n \in Midnights : m < n => /\ m + SlotsPerHour <= n
                                            /\ m + SlotsPerHour <= MaxTime + 1,
           Recompute >= SlotsPerHour,
           \A m \in Midnights : \A t \in Slots :
              YesterdayAt(m, t) => t - Recompute <= m + DayLength - SlotsPerHour
    PROVE  Spec => []RollUpFindsHours
  <1>1. TypeOK /\ IndInv /\ DayInv => RollUpFindsHours
    <2> SUFFICES ASSUME TypeOK, IndInv, DayInv, job.step = "daily"
                 PROVE  \E h \in Hours : h \in DayHours(job.day)
      BY DEF RollUpFindsHours
    <2> DEFINE m == job.day
    <2>1. /\ now \in Nat /\ now <= MaxTime /\ MaxTime \in Nat /\ Recompute \in Nat
          /\ DayLength \in Nat /\ SlotsPerHour \in Nat \ {0} /\ Midnights \subseteq Nat
      BY CoverageAssumption DEF TypeOK, Slots
    <2>2. /\ job.kind \in {"cycle", "timeline"} /\ m \in Midnights /\ m \in Nat
          /\ \A h \in HourRange(job.from, job.to) : features[h].known
      BY <2>1 DEF IndInv, JobInv, TypeOK, Kinds
    <2>3. ASSUME NEW x \in Nat, x >= m, x >= job.from, job.from \in Nat,
                 x + SlotsPerHour <= m + DayLength,
                 x + SlotsPerHour <= job.to, x + SlotsPerHour <= MaxTime + 1
          PROVE  \E h \in Hours : h \in DayHours(m)
      <3> DEFINE h == FirstHour(x)
                 start == h * SlotsPerHour
      <3>1. h \in Nat /\ x <= start /\ start < x + SlotsPerHour /\ start \in Nat
        BY <2>1, FirstHourStarts
      <3>2. job.to \in Int
        BY DEF TypeOK
      <3>3. job.from <= start /\ start < job.to /\ m <= start /\ start < m + DayLength
            /\ start <= MaxTime
        <4> HIDE DEF start, m
        <4> QED
          BY <3>1, <3>2, <2>1, <2>2, <2>3
      <3>4. h <= Hour(MaxTime) /\ Hour(job.from) <= h /\ Hour(MaxTime) \in Nat
        BY <3>1, <3>3, <2>1, <2>3, HoursOrdered, HourStart
      <3> HIDE DEF h
      <3>5. h \in Hours
        BY <3>1, <3>4 DEF Hours
      <3>6. h \in HourRange(job.from, job.to)
        BY <3>3, <3>4, <3>5 DEF HourRange
      <3>7. h \in DayHours(m)
        BY <2>2, <3>3, <3>5, <3>6 DEF DayHours
      <3> QED
        BY <3>5, <3>7
    <2>4. CASE job.kind = "timeline"
      <3>1. job.from = m /\ job.to \in Midnights /\ m < job.to
        BY <2>4 DEF DayInv
      <3>2. m + SlotsPerHour <= job.to /\ m + SlotsPerHour <= MaxTime + 1
        BY <2>2, <3>1
      <3>3. m >= m /\ m + SlotsPerHour <= m + DayLength
        BY <2>1, <2>2
      <3> QED
        BY <2>2, <2>3, <3>1, <3>2, <3>3
    <2>5. CASE job.kind = "cycle"
      <3>1. /\ job.from = now - Recompute /\ job.to = now
            /\ YesterdayAt(m, now) /\ now >= Recompute
        BY <2>5 DEF IndInv, JobInv, DayInv
      <3>2. PICK n \in Midnights : m < n /\ n <= now
        BY <3>1, MidnightPassed
      <3>3. m + SlotsPerHour <= n
        BY <2>2, <3>2
      <3>4. now - Recompute <= m + DayLength - SlotsPerHour
        BY <2>1, <2>2, <3>1 DEF Slots
      <3>5. CASE m >= now - Recompute
        <4>1. m \in Nat /\ m >= m /\ m >= job.from /\ job.from \in Nat
          BY <2>1, <2>2, <3>1, <3>5
        <4>2. /\ m + SlotsPerHour <= m + DayLength
              /\ m + SlotsPerHour <= job.to
              /\ m + SlotsPerHour <= MaxTime + 1
          BY <2>1, <2>2, <3>1, <3>2, <3>3
        <4> QED
          BY <4>1, <4>2, <2>3
      <3>6. CASE ~(m >= now - Recompute)
        <4>1. job.from \in Nat /\ job.from >= m /\ job.from >= job.from
          BY <2>1, <2>2, <3>1, <3>6
        <4>2. /\ job.from + SlotsPerHour <= m + DayLength
              /\ job.from + SlotsPerHour <= job.to
              /\ job.from + SlotsPerHour <= MaxTime + 1
          BY <2>1, <2>2, <3>1, <3>4
        <4> QED
          BY <4>1, <4>2, <2>3
      <3> QED
        BY <3>5, <3>6
    <2> QED
      BY <2>2, <2>4, <2>5
  <1> QED
    BY <1>1, TypeCorrect, Invariance, DayInvariant, PTL
=============================================================================
