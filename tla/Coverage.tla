------------------------------- MODULE Coverage -------------------------------
(***************************************************************************)
(* Coverage and features of one device: compute_coverage and find_gaps     *)
(* (coverage.py), the hourly and daily features (features.py), the         *)
(* maintenance loop (main.py) with retention, and the requests that        *)
(* recompute a window (timeline, recompute) or ask for gaps.               *)
(*                                                                         *)
(* Time is counted in slots, SlotsPerHour to the hour; an event's time is  *)
(* the slot it lies in.  Everything runs on the event loop: a computation  *)
(* is cut only by an error or a crash between its two transactions, and    *)
(* other requests run while the maintenance loop sleeps or publishes.      *)
(***************************************************************************)
EXTENDS Integers, FiniteSets

CONSTANTS
    Sources,        \* event sources
    Expected,       \* the sources the device's latest heartbeat enables
    SlotsPerHour,
    Recompute,      \* feature_recompute_hours, in slots
    Retention,      \* retention_days in slots; 0 when retention is off
    Skew,           \* max_future_skew_seconds, in slots
    Midnights,      \* the local midnights, in slots; the last one only ends a day
    DayLength,      \* 24 hours, in slots
    MaxTime,        \* bound: slots
    MaxEvents,      \* bound: events
    MaxFaults       \* bound: failed cycles, crashes and stops of the app

ASSUME CoverageAssumption ==
    /\ IsFiniteSet(Sources)
    /\ Expected \subseteq Sources
    /\ SlotsPerHour \in Nat \ {0}
    /\ MaxTime \in Nat
    /\ Recompute \in 0..MaxTime
    /\ Retention \in Nat
    /\ Skew \in Nat
    /\ Midnights \subseteq Nat
    /\ DayLength \in Nat \ {0}
    /\ MaxEvents \in Nat
    /\ MaxFaults \in Nat

VARIABLES
    now,       \* the current slot
    up,        \* the app is running
    due,       \* a maintenance cycle starts before the slot ends
    held,      \* raw_events
    retired,   \* history: events retention has deleted
    rows,      \* data_coverage
    features,  \* hourly_features
    daily,     \* daily_features
    job,       \* the computation in progress
    faults

vars == <<now, up, due, held, retired, rows, features, daily, job, faults>>

Slots == 0..MaxTime
Event == Slots \X Sources
Hour(t) == t \div SlotsPerHour
Hours == 0..Hour(MaxTime)

\* A coverage row: the sources of the hour's events (none: is_missing).
Row == [known : BOOLEAN, seen : SUBSET Sources]
NoRow == [known |-> FALSE, seen |-> {}]

\* The hour's features: the sources counted, and the observed sources of the
\* coverage_proportion they are published with.
Feature == [known : BOOLEAN, seen : SUBSET Sources, observed : SUBSET Sources]
NoFeature == [known |-> FALSE, seen |-> {}, observed |-> {}]

\* The day's features: the sources counted in each of its hours.
Daily == [known : BOOLEAN, counted : SUBSET (Hours \X Sources)]
NoDaily == [known |-> FALSE, counted |-> {}]

\* A computation of the window [from, to), on behalf of a maintenance cycle,
\* a timeline or a recompute request; day is the local day to roll up.
Steps == {"idle", "features", "daily", "publish"}
Kinds == {"cycle", "timeline", "recompute"}
Idle == [step |-> "idle", kind |-> "recompute", from |-> 0, to |-> 0, day |-> 0]

Missing(h) == rows[h].known /\ rows[h].seen = {}

\* events_in_window, by the hour they fall in; E is held, or with retired.
\* The query's limit of 200 000 rows is left out: every window is assumed to hold
\* fewer events.
Seen(E, from, to, h) ==
    {e[2] : e \in {e \in E : from <= e[1] /\ e[1] < to /\ Hour(e[1]) = h}}

\* hour_range: from the hour that contains the start.
HourRange(from, to) == {h \in Hours : h >= Hour(from) /\ h * SlotsPerHour < to}

\* Database.coverage: the rows whose start lies in the window.
Stored(from, to) ==
    {h \in Hours : rows[h].known /\ h * SlotsPerHour >= from /\ h * SlotsPerHour < to}

\* yesterday_bounds: one more midnight has passed since.
IsYesterday(m) == Cardinality({n \in Midnights : m < n /\ n <= now}) = 1

\* The local day that begins at m ends at the next midnight.
NextMidnight(m, end) == m < end /\ \A n \in Midnights : n <= m \/ n >= end

\* Database.hourly_features: the hours whose start lies in the 24 hours.
DayHours(m) ==
    {h \in Hours : features[h].known /\ h * SlotsPerHour >= m
                                     /\ h * SlotsPerHour < m + DayLength}

\* Mutant: an event also counts for the hour after its own.
CoverageRowsMisplaced(from, to) ==
    [h \in Hours |-> IF h \in HourRange(from, to)
                     THEN [known |-> TRUE, seen |-> Seen(held, from, to, h) \cup
                                                    Seen(held, from, to, h - 1)]
                     ELSE rows[h]]

\* Mutant: INSERT OR IGNORE, an hour is computed once.
CoverageRowsOnce(from, to) ==
    [h \in Hours |-> IF h \in HourRange(from, to) /\ ~rows[h].known
                     THEN [known |-> TRUE, seen |-> Seen(held, from, to, h)]
                     ELSE rows[h]]

\* compute_coverage replaces the rows of the window's hours, an hour that the
\* window cuts included, from the events inside the window.
CoverageRows(from, to) ==
    [h \in Hours |-> IF h \in HourRange(from, to)
                     THEN [known |-> TRUE, seen |-> Seen(held, from, to, h)]
                     ELSE rows[h]]

\* At the start a recomputation window has passed, so that every hour the
\* model computes lies at or after slot 0.
Init ==
    /\ now = Recompute
    /\ up = TRUE
    /\ due = TRUE
    /\ held = {}
    /\ retired = {}
    /\ rows = [h \in Hours |-> NoRow]
    /\ features = [h \in Hours |-> NoFeature]
    /\ daily = [m \in Midnights |-> NoDaily]
    /\ job = Idle
    /\ faults = 0

Waiting == up /\ job.step \in {"idle", "publish"}

-----------------------------------------------------------------------------
(* Events and time *)

\* An event arrives, however late; its phone's clock may be ahead by the skew
\* the server allows.
Ingest ==
    /\ Waiting
    /\ Cardinality(held \cup retired) < MaxEvents
    /\ \E e \in Event : e[1] <= now + Skew /\ e \notin retired /\ held' = held \cup {e}
    /\ UNCHANGED <<now, up, due, retired, rows, features, daily, job, faults>>

\* The cycle's period is shorter than a slot: while the app is up, time
\* passes only after a cycle.
Tick ==
    /\ now < MaxTime
    /\ ~up \/ (job.step = "idle" /\ ~due)
    /\ now' = now + 1
    /\ due' = up
    /\ UNCHANGED <<up, held, retired, rows, features, daily, job, faults>>

-----------------------------------------------------------------------------
(* Computations *)

\* compute_hourly_features, first half: compute_coverage.
Compute(kind, from, to, day) ==
    /\ up
    /\ job.step = "idle"
    /\ rows' = CoverageRows(from, to)
    /\ job' = [step |-> "features", kind |-> kind, from |-> from, to |-> to, day |-> day]
    /\ UNCHANGED <<now, up, due, held, retired, features, daily, faults>>

\* Mutant: only the last hour is computed.
StartCycleHour ==
    \E day \in Midnights :
        IsYesterday(day) /\ Compute("cycle", now - SlotsPerHour, now, day)

StartCycle ==
    \E day \in Midnights :
        IsYesterday(day) /\ Compute("cycle", now - Recompute, now, day)

\* GET timeline: any local day, past, in progress or to come.
Timeline ==
    \E day, end \in Midnights :
        NextMidnight(day, end) /\ Compute("timeline", day, end, day)

\* POST recompute: any number of the last hours.
RecomputeHours ==
    \E hours \in 1..Hour(MaxTime) :
        Compute("recompute", now - hours * SlotsPerHour, now, 0)

\* Mutant: the coverage of hours that start with the window is not found.
UpsertFeaturesStrict ==
    /\ job.step = "features"
    /\ features' = [h \in Hours |->
          IF h \in HourRange(job.from, job.to)
          THEN [known |-> TRUE,
                seen |-> Seen(held, job.from, job.to, h),
                observed |-> IF h \in Stored(job.from + 1, job.to)
                             THEN rows[h].seen \cap Expected ELSE {}]
          ELSE features[h]]
    /\ job' = IF job.kind = "recompute" THEN Idle ELSE [job EXCEPT !.step = "daily"]
    /\ UNCHANGED <<now, up, due, held, retired, rows, daily, faults>>

\* compute_hourly_features, second half: each hour's features with the
\* coverage of its row, or none when the query did not return the row.
UpsertFeatures ==
    /\ job.step = "features"
    /\ features' = [h \in Hours |->
          IF h \in HourRange(job.from, job.to)
          THEN [known |-> TRUE,
                seen |-> Seen(held, job.from, job.to, h),
                observed |-> IF h \in Stored(job.from, job.to)
                             THEN rows[h].seen \cap Expected ELSE {}]
          ELSE features[h]]
    /\ job' = IF job.kind = "recompute" THEN Idle ELSE [job EXCEPT !.step = "daily"]
    /\ UNCHANGED <<now, up, due, held, retired, rows, daily, faults>>

\* Mutant: the hours up to 24 hours before the day's start are rolled up.
RollUpDayBefore ==
    /\ job.step = "daily"
    /\ daily' = [daily EXCEPT ![job.day] =
          [known |-> TRUE,
           counted |-> UNION {{h} \X features[h].seen : h \in DayHours(job.day - DayLength)}]]
    /\ job' = IF job.kind = "cycle" THEN [job EXCEPT !.step = "publish"] ELSE Idle
    /\ UNCHANGED <<now, up, due, held, retired, rows, features, faults>>

\* compute_daily_features, from the stored hourly features.  When there are
\* none it would compute them first; RollUpFindsHours says there always are.
RollUp ==
    /\ job.step = "daily"
    /\ daily' = [daily EXCEPT ![job.day] =
          [known |-> TRUE,
           counted |-> UNION {{h} \X features[h].seen : h \in DayHours(job.day)}]]
    /\ job' = IF job.kind = "cycle" THEN [job EXCEPT !.step = "publish"] ELSE Idle
    /\ UNCHANGED <<now, up, due, held, retired, rows, features, faults>>

\* find_gaps and coverage_summary compute the window only when it has no
\* row at all.
FindGaps ==
    /\ Waiting
    /\ \E from, to \in Slots :
          /\ from < to
          /\ Stored(from, to) = {}
          /\ rows' = CoverageRows(from, to)
    /\ UNCHANGED <<now, up, due, held, retired, features, daily, job, faults>>

\* Mutant: the cutoff is one slot late.
ApplyRetentionEarly ==
    /\ job.step = "publish"
    /\ LET old == {e \in held : e[1] <= now - Retention}
       IN  IF Retention > 0
           THEN held' = held \ old /\ retired' = retired \cup old
           ELSE UNCHANGED <<held, retired>>
    /\ job' = Idle
    /\ due' = FALSE
    /\ UNCHANGED <<now, up, rows, features, daily, faults>>

\* After publishing, the cycle deletes what is past the retention age.
ApplyRetention ==
    /\ job.step = "publish"
    /\ LET old == {e \in held : e[1] < now - Retention}
       IN  IF Retention > 0
           THEN held' = held \ old /\ retired' = retired \cup old
           ELSE UNCHANGED <<held, retired>>
    /\ job' = Idle
    /\ due' = FALSE
    /\ UNCHANGED <<now, up, rows, features, daily, faults>>

-----------------------------------------------------------------------------
(* Failures *)

\* A cycle fails before it has written anything for this device: in the
\* feature definitions, or for a device before it.
CycleFails ==
    /\ up
    /\ job.step = "idle"
    /\ due
    /\ faults < MaxFaults
    /\ faults' = faults + 1
    /\ due' = FALSE
    /\ UNCHANGED <<now, up, held, retired, rows, features, daily, job>>

\* An error ends a cycle or a request where it is; the loop logs it and
\* sleeps until the next cycle.
ComputationFails ==
    /\ job.step # "idle"
    /\ faults < MaxFaults
    /\ faults' = faults + 1
    /\ job' = Idle
    /\ due' = (due /\ job.kind # "cycle")
    /\ UNCHANGED <<now, up, held, retired, rows, features, daily>>

\* The app stops, by a crash or by the user, and is started again later.
Stop ==
    /\ up
    /\ faults < MaxFaults
    /\ faults' = faults + 1
    /\ up' = FALSE
    /\ due' = FALSE
    /\ job' = Idle
    /\ UNCHANGED <<now, held, retired, rows, features, daily>>

Start ==
    /\ ~up
    /\ up' = TRUE
    /\ due' = TRUE
    /\ UNCHANGED <<now, held, retired, rows, features, daily, job, faults>>

-----------------------------------------------------------------------------
(* The specification *)

Next ==
    \/ Ingest \/ Tick
    \/ StartCycle \/ Timeline \/ RecomputeHours
    \/ UpsertFeatures \/ RollUp \/ ApplyRetention
    \/ FindGaps
    \/ CycleFails \/ ComputationFails \/ Stop \/ Start

Spec == Init /\ [][Next]_vars

\* A computation runs to its end, and the loop wakes up: ready callbacks are
\* served in turn, so requests cannot keep the maintenance task waiting.
FairSpec ==
    /\ Spec
    /\ SF_vars(StartCycle)
    /\ WF_vars(UpsertFeatures \/ RollUp \/ ApplyRetention)

-----------------------------------------------------------------------------
(* Properties *)

\* Types of the state.
TypeOK ==
    /\ now \in Slots
    /\ up \in BOOLEAN
    /\ due \in BOOLEAN
    /\ held \subseteq Event
    /\ retired \subseteq Event
    /\ rows \in [Hours -> Row]
    /\ features \in [Hours -> Feature]
    /\ daily \in [Midnights -> Daily]
    /\ job \in [step : Steps, kind : Kinds, from : Int, to : Int, day : Int]
    /\ faults \in 0..MaxFaults

\* The hour begins inside the window; it may reach beyond the window's end.
BeginsIn(h, from, to) == from <= h * SlotsPerHour /\ h * SlotsPerHour < to

\* Every event ever received, and those retention may have deleted by now.
Received == held \cup retired
PastAge(e) == Retention > 0 /\ e[1] < now - Retention

\* The sources that had an event in hour h, and those a computation of a
\* window that ends at to must find: events dated before that, unless they
\* are past the retention age.
Ever(h) == {e[2] : e \in {e \in Received : Hour(e[1]) = h}}
Due(h, to) == {e[2] : e \in {e \in Received :
                                Hour(e[1]) = h /\ e[1] < to /\ ~PastAge(e)}}

\* A computation, on whoever's behalf, leaves an hour that begins in its
\* window with the sources of the events in that hour before the window's end:
\* all of those not past the retention age, however late they came, none of a
\* later event, and of the older ones what retention has left.
RecomputedHoursFaithful ==
    job.step = "features" =>
        \A h \in Hours : BeginsIn(h, job.from, job.to) =>
           /\ rows[h].known
           /\ Due(h, job.to) \subseteq rows[h].seen
           /\ rows[h].seen \subseteq Seen(Received, job.from, job.to, h)

\* No row and no feature, however old and whatever was recomputed, late or
\* deleted since, shows a source that had no event in that hour.
NothingInvented ==
    \A h \in Hours :
        rows[h].seen \cup features[h].seen \cup features[h].observed
            \subseteq Ever(h)

\* The day to roll up has hourly features: computing them first, as
\* compute_daily_features would otherwise do, is never needed.
RollUpFindsHours == job.step = "daily" => DayHours(job.day) # {}

\* The strengthening behind the safety properties, proved inductive in
\* CoverageProofs.tla.

\* Between its two transactions a computation finds the rows as it wrote
\* them, from the events still held; a cycle's window ends now.
JobInv ==
    /\ job.step # "idle" => up
    /\ job.step = "features" =>
          \A h \in HourRange(job.from, job.to) :
             rows[h] = [known |-> TRUE, seen |-> Seen(held, job.from, job.to, h)]
    /\ job.step = "daily" =>
          \A h \in HourRange(job.from, job.to) :
             /\ features[h].known
             /\ features[h].seen = Seen(held, job.from, job.to, h)
    /\ job.step \in {"features", "daily"} /\ job.kind = "cycle" =>
          job.from = now - Recompute /\ job.to = now
    /\ job.step = "daily" => job.kind # "recompute"
    /\ job.step \in {"features", "daily"} /\ job.kind # "recompute" => job.day \in Midnights

\* Only events past the retention age are deleted.
AgeInv == \A e \in retired : PastAge(e)

IndInv == JobInv /\ AgeInv /\ NothingInvented

\* An hour's features, as UpsertFeatures writes them from its row.
Agrees(f, r) == f.seen = r.seen /\ f.observed = r.seen \cap Expected

\* An hour's new features agree with its coverage row: a source counts as
\* observed in both or in neither.
FeaturesMatchCoverage ==
    [][\A h \in Hours :
          features'[h] # features[h] /\ BeginsIn(h, job.from, job.to)
             => Agrees(features'[h], rows[h])]_vars

\* What the daily features d count for hour h.
Counted(d, h) == {s \in Sources : <<h, s>> \in d.counted}

\* A roll-up counts for each hour of its day, whichever request computed the
\* hour and when, only sources that had an event in it; and for the hours of
\* the window just computed, all that were due.
DailyFaithful ==
    [][job.step = "daily" /\ daily' # daily =>
          \A h \in DayHours(job.day) :
             /\ Counted(daily'[job.day], h) \subseteq Ever(h)
             /\ BeginsIn(h, job.from, job.to) =>
                   Due(h, job.to) \subseteq Counted(daily'[job.day], h)]_vars

\* Once failures are over, the derived data catch up: the features of every
\* hour of the window agree with its row, also where an error had come between
\* the two; every event dated before now of such an hour is in the row; and in
\* yesterday's daily features, if the hour is one of them.
DerivedDataCatchUp ==
    up /\ faults = MaxFaults ~>
        \A h \in Hours : BeginsIn(h, now - Recompute, now) =>
           /\ Agrees(features[h], rows[h])
           /\ \A e \in held : Hour(e[1]) = h /\ e[1] < now =>
                 /\ e[2] \in rows[h].seen
                 /\ \A m \in Midnights : IsYesterday(m) /\ h \in DayHours(m)
                       => e[2] \in Counted(daily[m], h)

\* After a cycle an hour of its window is missing only if it holds no event
\* of before now (features.py: "1.0 when the window contains no events at all,
\* otherwise 0.0").  Violated: the window starts inside an hour, and that hour's row is
\* replaced from its tail, which may be empty.
MissingMeansEmpty ==
    job.step = "features" /\ job.kind = "cycle"
        => \A h \in HourRange(job.from, job.to) :
              Missing(h) => Seen(held, 0, now, h) = {}

\* After a cycle every hour since the first start has a row
\* (docs/data-model.md: "Every hour gets a row, including empty ones").
\* Violated: hours during which the app was stopped for longer than the
\* window never get one.
EveryHourHasARow ==
    job.step = "features" /\ job.kind = "cycle"
        => \A h \in Hours : h * SlotsPerHour \in Recompute..(now - 1) => rows[h].known
=============================================================================
