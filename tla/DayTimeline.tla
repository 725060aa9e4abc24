----------------------------- MODULE DayTimeline -----------------------------
(***************************************************************************)
(* One day of one device, from its events to the response: the hourly      *)
(* features and their daily roll-up (features.py), the hour blocks, summary *)
(* and gaps of a timeline (timeline.py, coverage.py), asked for through    *)
(* HTTP or through the stdio MCP server.                                   *)
(*                                                                         *)
(* The app answers on its event loop, so nothing comes between the steps   *)
(* of its answer.  The stdio server is another process on the same file:   *)
(* the app ingests, recomputes and applies retention between any two        *)
(* statements of a tool.                                                   *)
(* Failures between the steps are the subject of Coverage.                 *)
(*                                                                         *)
(* Time is counted in slots, SlotsPerHour to the hour.  The tables of      *)
(* derived rows are functions on the hours they have a row for.            *)
(***************************************************************************)
EXTENDS Integers, FiniteSets, Sequences, Functions

CONSTANTS
    SlotsPerHour,
    LastHour,       \* the hours are 0..LastHour
    Days,           \* local days: the slots of a midnight and of the next one
    Windows,        \* windows that coverage and gaps are asked for
    RollUpLength,   \* 24 hours, in slots
    MinHours,       \* values of the argument min_hours
    Battery,        \* kinds of battery samples
    OtherKinds,     \* kinds of other events; Heartbeat is one of them
    Heartbeat,
    Percentage,     \* the percentages a battery sample of each kind reports
    Charging,       \* the battery samples that report charging
    Times,          \* bound: the slots events may lie in
    MaxEvents,      \* bound: events
    MaxUpdates      \* bound: transactions of the app's maintenance while a tool runs

Kinds == Battery \cup OtherKinds
Hours == 0..LastHour
Slots == 0..((LastHour + 1) * SlotsPerHour - 1)

ASSUME DayAssumption ==
    /\ SlotsPerHour \in Nat \ {0}
    /\ LastHour \in Nat
    /\ Days \subseteq [start : Slots, end : Nat]
    /\ Windows \subseteq [start : Nat, end : Nat]
    /\ RollUpLength \in Nat \ {0} /\ RollUpLength % SlotsPerHour = 0
    /\ MinHours \subseteq Nat \ {0}
    /\ Heartbeat \in OtherKinds
    /\ Percentage \in [Battery -> {S \in SUBSET (0..100) : Cardinality(S) <= 1}]
    /\ Charging \subseteq Battery
    /\ Times \subseteq Slots
    /\ MaxEvents \in Nat
    /\ MaxUpdates \in Nat

VARIABLES
    held,       \* raw_events
    retired,    \* history: events retention has deleted while a tool ran
    rows,       \* data_coverage: the event_count of each hour that has a row
    hourly,     \* hourly_features: the features of each hour that has them
    daily,      \* daily_features of the day asked for; at most one set of them
    request,    \* the request in progress
    reply,      \* its response so far
    updates     \* transactions of the app's maintenance while a tool ran

vars == <<held, retired, rows, hourly, daily, request, reply, updates>>

Event == [slot : Times, kind : Kinds]
Hour(t) == t \div SlotsPerHour

\* A numeric feature value: a number, or nothing for None.
Value == {S \in SUBSET Nat : Cardinality(S) <= 1}

Feature == [level : Value, minutes : Nat, beat : 0..1, total : Nat, missing : 0..1]
Daily == [level : Value, partial : BOOLEAN, minutes : Nat, beats : Value,
          total : Nat, missing : Nat]

-----------------------------------------------------------------------------
(* The features of an hour and of a day.                                    *)

\* _mean of the function's values; the model's numbers divide evenly.
Mean(value) ==
    LET S == DOMAIN value
    IN  IF S = {} THEN {}
        ELSE {SumFunction(value) \div Cardinality(S)}

\* _sample_minutes, in the hundredths of a minute it rounds to: each positive
\* sample stands for its share of the hour.
SampleMinutes(positive, samples) ==
    LET share == (6000 * positive) \div samples
        rest == 2 * ((6000 * positive) % samples)
    IN  IF rest > samples \/ (rest = samples /\ share % 2 = 1) THEN share + 1 ELSE share

\* _hour_features, for the events E of an hour: battery_percentage_mean
\* (movement_summary is another such mean), charging_minutes (like
\* wifi_connected_minutes and the location coverage a share of the samples),
\* collector_heartbeat_coverage, events_total (calls and messages are counts
\* of their own types) and missing_data_flag.
HourFeatures(E) ==
    LET samples == {e \in E : e.kind \in Battery}
        readings == {e \in samples : Percentage[e.kind] # {}}
        charging == {e \in samples : e.kind \in Charging}
    IN  [level   |-> Mean([e \in readings |-> CHOOSE p \in Percentage[e.kind] : TRUE]),
         minutes |-> SampleMinutes(Cardinality(charging),
                                   IF samples = {} THEN 1 ELSE Cardinality(samples)),
         beat    |-> IF \E e \in E : e.kind = Heartbeat THEN 1 ELSE 0,
         total   |-> Cardinality(E),
         missing |-> IF E = {} THEN 1 ELSE 0]

\* Mutant: the roll-up takes the hour that starts when the day has ended.
RolledUpHoursInclusive(start) ==
    {h \in DOMAIN hourly : h * SlotsPerHour >= start
                           /\ h * SlotsPerHour <= start + RollUpLength}

\* The hours compute_daily_features rolls up: 24 hours from the midnight,
\* whatever the length of the local day.
RolledUpHours(start) ==
    {h \in DOMAIN hourly : h * SlotsPerHour >= start
                           /\ h * SlotsPerHour < start + RollUpLength}

\* compute_daily_features: None is left out of sums and means and makes the
\* feature partial.
DayFeatures(start) ==
    LET H == RolledUpHours(start)
        known == {h \in H : hourly[h].level # {}}
    IN  [level   |-> Mean([h \in known |-> CHOOSE v \in hourly[h].level : TRUE]),
         partial |-> known # H,
         minutes |-> SumFunction([h \in H |-> hourly[h].minutes]),
         beats   |-> Mean([h \in H |-> 60 * hourly[h].beat]),
         total   |-> SumFunction([h \in H |-> hourly[h].total]),
         missing |-> SumFunction([h \in H |-> hourly[h].missing])]

-----------------------------------------------------------------------------
(* The windows of the queries.                                              *)

\* hour_range: from the hour that contains the start.
HourRange(w) == {h \in Hours : h >= Hour(w.start) /\ h * SlotsPerHour < w.end}

\* The rows of a table whose hour starts in the window.
StoredIn(table, w) ==
    {h \in DOMAIN table : h * SlotsPerHour >= w.start /\ h * SlotsPerHour < w.end}

\* events_in_window, those of hour h.  The query's limit of 200 000 rows is
\* left out: every window is assumed to hold fewer events.
EventsOf(E, w, h) == {e \in E : w.start <= e.slot /\ e.slot < w.end /\ Hour(e.slot) = h}

\* A table with the new rows in the place of old ones.
Upsert(table, new) ==
    [h \in DOMAIN table \cup DOMAIN new |->
        IF h \in DOMAIN new THEN new[h] ELSE table[h]]

CoverageRows(E, w) == [h \in HourRange(w) |-> Cardinality(EventsOf(E, w, h))]
FeatureRows(E, w) == [h \in HourRange(w) |-> HourFeatures(EventsOf(E, w, h))]

-----------------------------------------------------------------------------
(* find_gaps: one pass over the stored rows, in the order of their hours.   *)

NoRun == [start |-> 0, end |-> 0, hours |-> 0]

\* Mutant: min_hours is exclusive.
ClosedExclusive(state, min) ==
    IF state.run.hours > min THEN state.gaps \cup {state.run} ELSE state.gaps

\* Mutant: a run is reported without its end.
ClosedWithoutEnd(state, min) ==
    IF state.run.hours > 0 /\ state.run.hours >= min
    THEN state.gaps \cup {[start |-> state.run.start, hours |-> state.run.hours]}
    ELSE state.gaps

\* The gaps with the run in progress added, if there is one of min_hours.
Closed(state, min) ==
    IF state.run.hours > 0 /\ state.run.hours >= min
    THEN state.gaps \cup {state.run} ELSE state.gaps

\* A missing row extends the run, another one ends it.
Scanned(state, h, min) ==
    IF rows[h] = 0
    THEN [state EXCEPT !.run =
            [start |-> IF state.run.hours = 0 THEN h ELSE state.run.start,
             end |-> h + 1, hours |-> state.run.hours + 1]]
    ELSE [run |-> NoRun, gaps |-> Closed(state, min)]

\* What the pass over the rows of the hours H has found before each hour.
Scan(H, min) ==
    LET found[h \in 0..(LastHour + 1)] ==
            IF h = 0 THEN [run |-> NoRun, gaps |-> {}]
            ELSE IF h - 1 \in H THEN Scanned(found[h - 1], h - 1, min)
            ELSE found[h - 1]
    IN  found

FindGaps(w, min) == Closed(Scan(StoredIn(rows, w), min)[LastHour + 1], min)

\* coverage_summary
Summary(w) ==
    LET H == StoredIn(rows, w)
        missing == {h \in H : rows[h] = 0}
    IN  [total |-> Cardinality(H), missing |-> Cardinality(missing),
         complete |-> missing = {} /\ H # {}]

-----------------------------------------------------------------------------
(* Requests.  todo holds the statements still to run; read is what the last *)
(* computation found in raw_events, rolled the daily features it has still  *)
(* to write; computed says that the rows of the next summary or gaps have   *)
(* been computed for it.                                                    *)

Who == {"app", "tool"}
Asked == {"timeline", "coverage", "gaps"}
Compute == <<"events", "coverage">>

\* Mutant: the events are counted before the derived rows are read.
TimelineStepsCountFirst ==
    Compute \o <<"events", "features", "roll_up", "upsert_daily",
                 "counts", "hourly", "rows", "daily", "summary", "gaps">>

\* build_day_timeline
TimelineSteps ==
    Compute \o <<"events", "features", "roll_up", "upsert_daily",
                 "hourly", "rows", "counts", "daily", "summary", "gaps">>

\* The coverage endpoint, get_data_coverage and find_data_gaps.
CoverageSteps(who) == IF who = "app" THEN <<"summary", "gaps">> ELSE <<"summary", "rows">>
GapSteps == <<"gaps">>

NoRequest == [who |-> "app", asked |-> "gaps", start |-> 0, end |-> 0, min |-> 1,
              todo |-> <<"idle">>, read |-> {}, rolled |-> {}, computed |-> FALSE]
NoReply == [hourly |-> <<>>, rows |-> <<>>, counts |-> <<>>, daily |-> {},
            summary |-> [total |-> 0, missing |-> 0, complete |-> FALSE], gaps |-> {}]

Idle == request.todo = <<"idle">>
Answered == request.todo = <<>>
Running == ~Idle /\ ~Answered
At(step) == Running /\ Head(request.todo) = step

Init ==
    /\ held = {}
    /\ retired = {}
    \* What earlier cycles have left, of events retention has deleted since:
    \* hours without a row, missing ones, hours with a heartbeat.
    /\ rows \in UNION {[H -> 0..1] : H \in SUBSET Hours}
    /\ hourly = [h \in DOMAIN rows |->
                    HourFeatures(IF rows[h] = 0 THEN {}
                                 ELSE {[slot |-> h * SlotsPerHour, kind |-> Heartbeat]})]
    /\ daily = {}
    /\ request = NoRequest
    /\ reply = NoReply
    /\ updates = 0

\* A cycle of the maintenance loop is four transactions: the coverage, the
\* hourly features, the daily ones, and retention.  It serves requests while it
\* publishes, before the last.
Recomputing == updates % 4 \in {1, 2}

\* store_events of a batch with one new event; the app's loop is not in a
\* request or a recomputation.
Ingest ==
    /\ Idle \/ (Running /\ request.who = "tool")
    /\ ~Recomputing
    /\ Cardinality(held \cup retired) < MaxEvents
    /\ \E e \in Event \ held : held' = held \cup {e}
    /\ UNCHANGED <<retired, rows, hourly, daily, request, reply, updates>>

All == [start |-> 0, end |-> (LastHour + 1) * SlotsPerHour]

\* The maintenance loop recomputes while a tool runs, over a window that holds
\* all these hours: the coverage, the hourly features, and the daily ones of
\* yesterday, which may be the day asked for.
Update ==
    /\ Running /\ request.who = "tool"
    /\ updates < MaxUpdates
    /\ updates' = updates + 1
    /\ \/ /\ updates % 4 = 0
          /\ rows' = Upsert(rows, CoverageRows(held, All))
          /\ UNCHANGED <<hourly, daily>>
       \/ /\ updates % 4 = 1
          /\ hourly' = Upsert(hourly, FeatureRows(held, All))
          /\ UNCHANGED <<rows, daily>>
       \/ /\ updates % 4 = 2
          /\ \/ request.asked = "timeline" /\ daily' = {DayFeatures(request.start)}
             \/ UNCHANGED daily
          /\ UNCHANGED <<rows, hourly>>
    /\ UNCHANGED <<held, retired, request, reply>>

\* apply_retention at the cycle's end: the events before a cutoff, none when
\* retention is off.
ApplyRetention ==
    /\ Running /\ request.who = "tool"
    /\ updates < MaxUpdates
    /\ updates % 4 = 3
    /\ updates' = updates + 1
    /\ \E cutoff \in Slots :
          LET old == {e \in held : e.slot < cutoff}
          IN  held' = held \ old /\ retired' = retired \cup old
    /\ UNCHANGED <<rows, hourly, daily, request, reply>>

Begin(who, asked, w, min, todo) ==
    /\ Idle
    /\ request' = [who |-> who, asked |-> asked, start |-> w.start, end |-> w.end,
                   min |-> min, todo |-> todo, read |-> {}, rolled |-> {}, computed |-> FALSE]
    /\ UNCHANGED <<held, retired, rows, hourly, daily, reply, updates>>

\* The end of the day a timeline is asked for: the next midnight, except in
\* get_day_timeline of a given date, which adds 24 hours.
DayEnds(who, day) ==
    {day.end} \cup (IF who = "tool" THEN {day.start + RollUpLength} ELSE {})

AskTimeline ==
    \E who \in Who, day \in Days : \E end \in DayEnds(who, day) :
        Begin(who, "timeline", [start |-> day.start, end |-> end], 1, TimelineSteps)

AskCoverage ==
    \E who \in Who, w \in Windows : Begin(who, "coverage", w, 1, CoverageSteps(who))

AskGaps ==
    \E w \in Windows, min \in MinHours : Begin("tool", "gaps", w, min, GapSteps)

Continue == request' = [request EXCEPT !.todo = Tail(@)]
ContinueUnread == request' = [request EXCEPT !.todo = Tail(@), !.read = {}, !.rolled = {}]
ContinueAfterRows == request' = [request EXCEPT !.todo = Tail(@), !.computed = FALSE]

\* compute_coverage and compute_hourly_features each read the events anew.
ReadEvents ==
    /\ At("events")
    /\ request' = [request EXCEPT !.todo = Tail(@), !.read = held]
    /\ UNCHANGED <<held, retired, rows, hourly, daily, reply, updates>>

UpsertCoverage ==
    /\ At("coverage")
    /\ rows' = Upsert(rows, CoverageRows(request.read, request))
    /\ ContinueUnread
    /\ UNCHANGED <<held, retired, hourly, daily, reply, updates>>

UpsertFeatures ==
    /\ At("features")
    /\ hourly' = Upsert(hourly, FeatureRows(request.read, request))
    /\ ContinueUnread
    /\ UNCHANGED <<held, retired, rows, daily, reply, updates>>

\* compute_daily_features.  A day without any hourly features would have them
\* computed first; the timeline has just computed those of this day.
RollUp ==
    /\ At("roll_up")
    /\ request' = [request EXCEPT !.todo = Tail(@), !.rolled = {DayFeatures(request.start)}]
    /\ UNCHANGED <<held, retired, rows, hourly, daily, reply, updates>>

UpsertDaily ==
    /\ At("upsert_daily")
    /\ daily' = request.rolled
    /\ ContinueUnread
    /\ UNCHANGED <<held, retired, rows, hourly, reply, updates>>

ReadHourly ==
    /\ At("hourly")
    /\ reply' = [reply EXCEPT !.hourly = [h \in StoredIn(hourly, request) |-> hourly[h]]]
    /\ Continue
    /\ UNCHANGED <<held, retired, rows, hourly, daily, updates>>

ReadRows ==
    /\ At("rows")
    /\ reply' = [reply EXCEPT !.rows = [h \in StoredIn(rows, request) |-> rows[h]]]
    /\ Continue
    /\ UNCHANGED <<held, retired, rows, hourly, daily, updates>>

\* raw_event_counts of the blocks, one for each hour of hour_range.
CountEvents ==
    /\ At("counts")
    /\ reply' = [reply EXCEPT !.counts = CoverageRows(held, request)]
    /\ Continue
    /\ UNCHANGED <<held, retired, rows, hourly, daily, updates>>

ReadDaily ==
    /\ At("daily")
    /\ reply' = [reply EXCEPT !.daily = daily]
    /\ Continue
    /\ UNCHANGED <<held, retired, rows, hourly, daily, updates>>

\* coverage_summary and find_gaps compute the rows when there are none, once:
\* a window inside one hour has none even then.
ComputeFirst ==
    /\ At("summary") \/ At("gaps")
    /\ StoredIn(rows, request) = {} /\ ~request.computed
    /\ request' = [request EXCEPT !.todo = Compute \o @, !.computed = TRUE]
    /\ UNCHANGED <<held, retired, rows, hourly, daily, reply, updates>>

Summarise ==
    /\ At("summary")
    /\ StoredIn(rows, request) # {} \/ request.computed
    /\ reply' = [reply EXCEPT !.summary = Summary(request)]
    /\ ContinueAfterRows
    /\ UNCHANGED <<held, retired, rows, hourly, daily, updates>>

ListGaps ==
    /\ At("gaps")
    /\ StoredIn(rows, request) # {} \/ request.computed
    /\ reply' = [reply EXCEPT !.gaps = FindGaps(request, request.min)]
    /\ ContinueAfterRows
    /\ UNCHANGED <<held, retired, rows, hourly, daily, updates>>

\* The request is answered; the model looks at one request at a time.
Done == Answered /\ UNCHANGED vars

Next ==
    \/ Ingest \/ Update \/ ApplyRetention
    \/ AskTimeline \/ AskCoverage \/ AskGaps
    \/ ReadEvents \/ UpsertCoverage \/ UpsertFeatures \/ RollUp \/ UpsertDaily
    \/ ReadHourly \/ ReadRows \/ CountEvents \/ ReadDaily
    \/ ComputeFirst \/ Summarise \/ ListGaps
    \/ Done

Spec == Init /\ [][Next]_vars

-----------------------------------------------------------------------------
(* Properties *)

Gap == [start : Hours, end : 1..(LastHour + 1), hours : Nat]

\* Types of the state; a table has rows of known hours only, a value is a
\* number or None.
TypeOK ==
    /\ held \subseteq Event
    /\ retired \subseteq Event
    /\ DOMAIN rows \subseteq Hours
    /\ \A h \in DOMAIN rows : rows[h] \in Nat
    /\ DOMAIN hourly \subseteq Hours
    /\ \A h \in DOMAIN hourly : hourly[h] \in Feature
    /\ daily \subseteq Daily
    /\ request.who \in Who /\ request.asked \in Asked
    /\ request.rolled \subseteq Daily
    /\ reply.daily \subseteq Daily
    /\ reply.gaps \subseteq Gap
    /\ updates \in 0..MaxUpdates

\* All rows of H from hour a to hour b are missing ones.
Unbroken(H, a, b) == \A h \in H \cap a..b : rows[h] = 0

\* Hours i..j of the stored rows H begin and end with a missing one, hold no
\* other, and cannot be extended by a missing one on either side.
MaximalRun(H, i, j) ==
    /\ i \in H /\ j \in H /\ i <= j
    /\ Unbroken(H, i, j)
    /\ \A h \in H : h < i => ~Unbroken(H, h, i)
    /\ \A h \in H : h > j => ~Unbroken(H, j, h)

\* The gap that begins with hour i and ends with hour j.
GapOf(H, i, j) == [start |-> i, end |-> j + 1, hours |-> Cardinality(H \cap i..j)]

MaximalGaps(H, min) ==
    {g \in {GapOf(H, p[1], p[2]) : p \in {q \in H \X H : MaximalRun(H, q[1], q[2])}} :
        g.hours >= min}

\* The gaps a request lists are the maximal runs of missing rows of at least
\* min_hours in its window, each with the number of rows in it: none is cut
\* short, joined to another, left out at the window's end, or reported below
\* the length asked for.
GapsAreMaximalRuns ==
    Answered /\ ~(request.asked = "coverage" /\ request.who = "tool") =>
        reply.gaps = MaximalGaps(StoredIn(rows, request), request.min)

AnsweredDay == Answered /\ request.asked = "timeline"
EventsWithin(start, end) == {e \in held : start <= e.slot /\ e.slot < end}
WholeHours == {h \in Hours : h * SlotsPerHour >= request.start
                              /\ (h + 1) * SlotsPerHour <= request.end}
Aligned(t) == t % SlotsPerHour = 0

\* In the app's timeline of a day of 24 whole hours, what is computed along
\* different ways agrees: the daily total counts each of the day's events
\* once, the daily count of missing hours is the summary's, the blocks' and the
\* gaps', and the mean battery level lies within the day's readings.  A longer
\* day's roll-up counts no event that is not the day's, a shorter one's
\* all the day's.
DayAddsUp ==
    AnsweredDay /\ request.who = "app" =>
        LET day == CHOOSE d \in reply.daily : TRUE
            events == EventsWithin(request.start, request.end)
            levels == UNION {Percentage[e.kind] : e \in {e \in events : e.kind \in Battery}}
            length == request.end - request.start
            empty == {h \in WholeHours : \A e \in events : Hour(e.slot) # h}
        IN  /\ length >= RollUpLength => day.total <= Cardinality(events)
            /\ length <= RollUpLength /\ Aligned(request.start)
                    => day.total >= Cardinality(events)
            /\ length = RollUpLength /\ Aligned(request.start) =>
                 /\ day.missing = Cardinality(empty)
                 /\ reply.summary.missing = Cardinality(empty)
                 /\ reply.summary.complete <=> empty = {}
                 /\ SumFunction([g \in reply.gaps |-> g.hours]) = Cardinality(empty)
                 /\ \A v \in day.level : (\E p \in levels : p <= v)
                                         /\ (\E p \in levels : p >= v)
                 /\ day.level = {} <=> levels = {}
                 /\ day.minutes > 0 <=> \E e \in events : e.kind \in Charging

\* Whoever asks, and whatever the app writes between the reads, a block of a
\* whole hour claims no more than the raw counts next to it and the events that
\* retention has deleted meanwhile: its features count no event beyond these,
\* and it is not observed without one.
BlocksBorneOut ==
    AnsweredDay =>
        \A h \in WholeHours \cap DOMAIN reply.counts :
            LET borne == reply.counts[h] + Cardinality(EventsOf(retired, request, h))
            IN  /\ h \in DOMAIN reply.hourly => reply.hourly[h].total <= borne
                /\ h \in DOMAIN reply.rows => reply.rows[h] <= borne
=============================================================================
