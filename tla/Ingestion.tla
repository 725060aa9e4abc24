------------------------------ MODULE Ingestion ------------------------------
(***************************************************************************)
(* One phone uploading batches of events to the app, and the app storing   *)
(* them (ingestion.py, acknowledgements.py, the ingest endpoint of main.py *)
(* and the tables of database.py they write).                              *)
(*                                                                         *)
(* The phone's outbox and the network are external: they are modelled from *)
(* what the wire schema and the endpoint assume of them.  ingest_batch is  *)
(* a sequence of SQLite transactions run on the event loop without a       *)
(* suspension point, so one batch is handled at a time and the maintenance *)
(* loop's retention runs between batches; a crash, or an error raised by   *)
(* any of the transactions, can cut the sequence anywhere.                 *)
(*                                                                         *)
(* An event id may occur several times, in one batch or in several, and    *)
(* the copies need not be equal: each has a time, a size, a device and a   *)
(* source of its own and is validated for itself, at its own moment.       *)
(***************************************************************************)
EXTENDS Naturals, FiniteSets, Sequences, Functions

CONSTANTS
    Events,        \* event ids
    Copies,        \* events as they are sent: an id with its contents
    IdOf,          \* the id of each copy
    Heartbeats,    \* copies whose source is "heartbeat"
    Foreign,       \* copies whose device_id is not the batch's device_id
    Implausible,   \* copies over the size limit or dated before 2000
    Future,        \* copies whose timestamp starts beyond the allowed clock skew
    Arrangements,  \* bound: what a batch may list, in its order
    MaxBatches,    \* bound: batch ids the phone may use
    MaxAttempts,   \* the collector's attempt limit for a rejected event
    MaxFaults      \* bound: timeouts, lost responses, errors and crashes

ASSUME EventsAssumption ==
    /\ IsFiniteSet(Copies)
    /\ IdOf \in [Copies -> Events]
    /\ Heartbeats \subseteq Copies
    /\ Foreign \subseteq Copies
    /\ Implausible \subseteq Copies
    /\ Future \subseteq Copies
    /\ Arrangements \subseteq Seq(Copies) \ {<<>>}

ASSUME BoundsAssumption ==
    /\ MaxBatches \in Nat
    /\ MaxAttempts \in Nat \ {0}
    /\ MaxFaults \in Nat

VARIABLES
    \* The phone (external).
    outbox,      \* each event's state in the collector's queue
    tries,       \* how often each event came back rejected
    current,     \* the batch being uploaded; id 0 when there is none
    waiting,     \* whether the phone holds a connection open for a response
    lastId,      \* the last batch id used
    \* The network (external).
    requests,    \* requests sent and not yet taken up by the endpoint
    replies,     \* the response on the open connection
    \* The request handler.
    handler,
    \* The database.
    first,       \* raw_events: first_batch_id of each event, 0 when it has no row
    kept,        \* raw_events: the copies whose contents the rows hold
    projected,   \* collector_heartbeats: the event ids that have a row
    batches,     \* received_batches
    verdicts,    \* batch_event_acknowledgements
    seen,        \* devices.last_seen_utc is set
    \* The environment.
    age,         \* where each copy's timestamp lies relative to the clock
    faults,      \* faults so far
    \* History, read by properties only.
    retired,     \* events whose row retention has deleted
    sent,        \* what each batch lists
    issued       \* per batch, the acknowledgements and the copies each stored

phoneVars == <<outbox, tries, current, waiting, lastId>>
netVars   == <<requests, replies>>
dbVars    == <<first, kept, projected, batches, verdicts, seen>>
histVars  == <<retired, sent, issued>>
vars == <<phoneVars, netVars, handler, dbVars, age, faults, histVars>>

BatchIds == 1..MaxBatches

Batch == [id : BatchIds, copies : Arrangements]
NoBatch == [id |-> 0, copies |-> <<>>]

\* The ids of a set of copies.
Ids(C) == {IdOf[c] : c \in C}

Request == [batch : Batch, open : BOOLEAN]

Counts == [received : Nat, stored : Nat, duplicate : Nat, rejected : Nat]
NoCounts == [received |-> 0, stored |-> 0, duplicate |-> 0, rejected |-> 0]

\* The response lists ids, the lists as sets and their lengths as counts.
Ack == [stored : SUBSET Events, duplicate : SUBSET Events,
        rejected : SUBSET Events, counts : Counts]

Accepted(a) == a.stored \cup a.duplicate

\* Where the handler is: in the validation loop or behind it, before
\* store_events; before the next heartbeat or record_batch; before
\* record_acknowledgements; before touch_device; with the response built.
Phases == {"idle", "validate", "project", "verdicts", "touch", "respond"}

\* next is the place of the next copy to validate; rejects and repeats count
\* the copies rejected and the second copies of an event to store.
Idle ==
    [phase |-> "idle", batch |-> NoBatch, open |-> FALSE, next |-> 1,
     rejected |-> {}, rejects |-> 0, toStore |-> {}, repeats |-> 0,
     stored |-> {}, duplicate |-> {}, beats |-> {}]

Validated == handler.phase = "validate" /\ handler.next > Len(handler.batch.copies)

Held == {e \in Events : first[e] # 0}

Pending == {e \in Events : outbox[e] = "pending"}

-----------------------------------------------------------------------------
(* The phone *)

Init ==
    /\ outbox = [e \in Events |-> "pending"]
    /\ tries = [e \in Events |-> 0]
    /\ current = NoBatch
    /\ waiting = FALSE
    /\ lastId = 0
    /\ requests = {}
    /\ replies = {}
    /\ handler = Idle
    /\ first = [e \in Events |-> 0]
    /\ kept = {}
    /\ projected = {}
    /\ batches = [b \in BatchIds |-> [known |-> FALSE, counts |-> NoCounts, replays |-> 0]]
    /\ verdicts = [b \in BatchIds |-> [e \in Events |-> "none"]]
    /\ seen = FALSE
    /\ age = [c \in Copies |-> IF c \in Future THEN "future" ELSE "recent"]
    /\ faults = 0
    /\ retired = {}
    /\ sent = [b \in BatchIds |-> <<>>]
    /\ issued = [b \in BatchIds |-> {}]

\* The uploader takes copies of pending events into a batch under an unused id.
Compose ==
    /\ ~waiting
    /\ lastId < MaxBatches
    /\ \E s \in Arrangements :
          LET b == [id |-> lastId + 1, copies |-> s]
          IN  /\ Ids(Range(s)) \subseteq Pending
              /\ current' = b
              /\ requests' = requests \cup {[batch |-> b, open |-> TRUE]}
              /\ sent' = [sent EXCEPT ![lastId + 1] = s]
    /\ lastId' = lastId + 1
    /\ waiting' = TRUE
    /\ UNCHANGED <<outbox, tries, replies, handler, dbVars, age, faults, retired, issued>>

\* After an error or a timeout the same batch may be sent again.
Resend ==
    /\ ~waiting
    /\ current.id # 0
    /\ requests' = requests \cup {[batch |-> current, open |-> TRUE]}
    /\ waiting' = TRUE
    /\ UNCHANGED <<outbox, tries, current, lastId, replies, handler, dbVars,
                   age, faults, histVars>>

\* The phone marks uploaded exactly what the response accepts; a rejected
\* event stays queued until it has used up its attempts.
ReceiveAck ==
    \E a \in replies :
        /\ replies' = {}
        /\ waiting' = FALSE
        /\ current' = NoBatch
        /\ tries' = [e \in Events |-> IF e \in a.rejected /\ tries[e] < MaxAttempts
                                      THEN tries[e] + 1 ELSE tries[e]]
        /\ outbox' = [e \in Events |->
                        IF e \in Accepted(a) THEN "uploaded"
                        ELSE IF outbox[e] = "pending" /\ tries'[e] = MaxAttempts
                             THEN "dead" ELSE outbox[e]]
        /\ UNCHANGED <<lastId, requests, handler, dbVars, age, faults, histVars>>

\* The connection breaks or times out: whatever the server does with the
\* request from here on, the phone does not see it.  This covers a lost
\* response as well as a request that is still on its way.
Disconnect ==
    /\ waiting
    /\ faults < MaxFaults
    /\ faults' = faults + 1
    /\ waiting' = FALSE
    /\ requests' = {[r EXCEPT !.open = FALSE] : r \in requests}
    /\ replies' = {}
    /\ handler' = [handler EXCEPT !.open = FALSE]
    /\ UNCHANGED <<outbox, tries, current, lastId, dbVars, age, histVars>>

\* A request is lost before it reaches the endpoint (nobody waits for it).
LoseRequest ==
    \E r \in requests :
        /\ ~r.open
        /\ requests' = requests \ {r}
        /\ UNCHANGED <<phoneVars, replies, handler, dbVars, age, faults, histVars>>

-----------------------------------------------------------------------------
(* The server *)

\* device_id mismatch, then _validate_event: size, clock skew, year 2000.
Rejects(c) == c \in Foreign \cup Implausible \/ age[c] = "future"

\* The endpoint answers with an error before ingest_batch: authentication,
\* rate limit, size or schema checks, or an error inside token verification.
Refuse ==
    \E r \in requests :
        /\ faults < MaxFaults
        /\ faults' = faults + 1
        /\ requests' = requests \ {r}
        /\ waiting' = (waiting /\ ~r.open)
        /\ UNCHANGED <<outbox, tries, current, lastId, replies, handler, dbVars,
                       age, histVars>>

\* ingest_batch starts.
TakeUp ==
    \E r \in requests :
        /\ handler.phase = "idle"
        /\ requests' = requests \ {r}
        /\ handler' = [Idle EXCEPT !.phase = "validate",
                                   !.batch = r.batch, !.open = r.open]
        /\ UNCHANGED <<phoneVars, replies, dbVars, age, faults, histVars>>

\* The validation loop looks at one copy at a time, and at the clock for each:
\* it is rejected, repeats an event already to be stored, or is to be stored.
Validate ==
    /\ handler.phase = "validate" /\ ~Validated
    /\ LET c == handler.batch.copies[handler.next]
           e == IdOf[c]
       IN  \/ /\ Rejects(c)
              /\ handler' = [handler EXCEPT !.next = @ + 1, !.rejects = @ + 1,
                                            !.rejected = @ \cup {e}]
           \/ /\ ~Rejects(c) /\ e \in Ids(handler.toStore)
              /\ handler' = [handler EXCEPT !.next = @ + 1, !.repeats = @ + 1,
                                            !.duplicate = @ \cup {e}]
           \/ /\ ~Rejects(c) /\ e \notin Ids(handler.toStore)
              /\ handler' = [handler EXCEPT !.next = @ + 1,
                                            !.toStore = @ \cup {c}]
    /\ UNCHANGED <<phoneVars, netVars, dbVars, age, faults, histVars>>

\* Mutant: INSERT OR REPLACE, every accepted event rewrites its row.
StoreEventsReplacing ==
    /\ Validated
    /\ LET fresh == {c \in handler.toStore : IdOf[c] \notin Held}
           ids == Ids(handler.toStore)
       IN  /\ first' = [e \in Events |-> IF e \in ids THEN handler.batch.id ELSE first[e]]
           /\ kept' = {c \in kept : IdOf[c] \notin ids} \cup handler.toStore
           /\ handler' = [handler EXCEPT !.phase = "project", !.stored = fresh,
                            !.duplicate = @ \cup (ids \ Ids(fresh)),
                            !.beats = fresh \cap Heartbeats]
    /\ UNCHANGED <<phoneVars, netVars, projected, batches, verdicts, seen, age,
                   faults, histVars>>

\* Mutant: the rows already present are not looked up, so an ignored insert
\* is still reported as stored.
StoreEventsUnchecked ==
    /\ Validated
    /\ LET fresh == {c \in handler.toStore : IdOf[c] \notin Held}
       IN  /\ first' = [e \in Events |-> IF e \in Ids(fresh) THEN handler.batch.id
                                         ELSE first[e]]
           /\ kept' = kept \cup fresh
           /\ handler' = [handler EXCEPT !.phase = "project", !.stored = handler.toStore,
                            !.beats = handler.toStore \cap Heartbeats]
    /\ UNCHANGED <<phoneVars, netVars, projected, batches, verdicts, seen, age,
                   faults, histVars>>

\* store_events: events without a row are inserted, the others are duplicates
\* like those repeated in the batch.
StoreEvents ==
    /\ Validated
    /\ LET fresh == {c \in handler.toStore : IdOf[c] \notin Held}
       IN  /\ first' = [e \in Events |-> IF e \in Ids(fresh) THEN handler.batch.id
                                         ELSE first[e]]
           /\ kept' = kept \cup fresh
           /\ handler' = [handler EXCEPT
                            !.phase = "project",
                            !.stored = fresh,
                            !.duplicate = @ \cup Ids(handler.toStore \ fresh),
                            !.beats = fresh \cap Heartbeats]
    /\ UNCHANGED <<phoneVars, netVars, projected, batches, verdicts, seen, age,
                   faults, histVars>>

\* One transaction per newly stored heartbeat.
RecordHeartbeat ==
    /\ handler.phase = "project"
    /\ \E c \in handler.beats :
          /\ projected' = projected \cup {IdOf[c]}
          /\ handler' = [handler EXCEPT !.beats = @ \ {c}]
    /\ UNCHANGED <<phoneVars, netVars, first, kept, batches, verdicts, seen, age,
                   faults, histVars>>

\* Mutant: repeats within the batch are left out of the duplicate count.
HandlerCountsNoRepeats ==
    [received  |-> Len(handler.batch.copies),
     stored    |-> Cardinality(handler.stored),
     duplicate |-> Cardinality(handler.toStore \ handler.stored),
     rejected  |-> handler.rejects]

\* Every copy counts, once, in the list its verdict puts it in.
HandlerCounts ==
    [received  |-> Len(handler.batch.copies),
     stored    |-> Cardinality(handler.stored),
     duplicate |-> Cardinality(handler.toStore \ handler.stored) + handler.repeats,
     rejected  |-> handler.rejects]

\* Mutant: the batch is recorded before its heartbeats are projected.
RecordBatchEarly ==
    /\ handler.phase = "project"
    /\ LET b == handler.batch.id
           row == IF batches[b].known
                  THEN [batches[b] EXCEPT !.replays = batches[b].replays + 1]
                  ELSE [known |-> TRUE, counts |-> HandlerCounts, replays |-> 0]
       IN  batches' = [batches EXCEPT ![b] = row]
    /\ handler' = [handler EXCEPT !.phase = "verdicts"]
    /\ UNCHANGED <<phoneVars, netVars, first, kept, projected, verdicts, seen, age,
                   faults, histVars>>

\* A batch id seen before only has its replay counter bumped: the counts
\* stay those of the first receipt that got this far.
RecordBatch ==
    /\ handler.phase = "project"
    /\ handler.beats = {}
    /\ LET b == handler.batch.id
           row == IF batches[b].known
                  THEN [batches[b] EXCEPT !.replays = batches[b].replays + 1]
                  ELSE [known |-> TRUE, counts |-> HandlerCounts, replays |-> 0]
       IN  batches' = [batches EXCEPT ![b] = row]
    /\ handler' = [handler EXCEPT !.phase = "verdicts"]
    /\ UNCHANGED <<phoneVars, netVars, first, kept, projected, verdicts, seen, age,
                   faults, histVars>>

\* Mutant: a replay replaces the batch's rows by its newly stored and
\* rejected events only.
RecordAcknowledgementsNewOnly ==
    /\ handler.phase = "verdicts"
    /\ verdicts' = [verdicts EXCEPT ![handler.batch.id] =
                      [e \in Events |->
                         IF e \in handler.rejected THEN "rejected"
                         ELSE IF e \in Ids(handler.stored) THEN "stored" ELSE "none"]]
    /\ handler' = [handler EXCEPT !.phase = "touch"]
    /\ UNCHANGED <<phoneVars, netVars, first, kept, projected, batches, seen, age,
                   faults, histVars>>

\* INSERT OR REPLACE of the stored, then the duplicate, then the rejected
\* entries: the last entry for an event is the one that stays.
RecordAcknowledgements ==
    /\ handler.phase = "verdicts"
    /\ verdicts' = [verdicts EXCEPT ![handler.batch.id] =
                      [e \in Events |->
                         CASE e \in handler.rejected  -> "rejected"
                           [] e \in handler.duplicate \ handler.rejected -> "duplicate"
                           [] e \in Ids(handler.stored)
                                  \ (handler.duplicate \cup handler.rejected) -> "stored"
                           [] OTHER -> @[e]]]
    /\ handler' = [handler EXCEPT !.phase = "touch"]
    /\ UNCHANGED <<phoneVars, netVars, first, kept, projected, batches, seen, age,
                   faults, histVars>>

TouchDevice ==
    /\ handler.phase = "touch"
    /\ seen' = TRUE
    /\ handler' = [handler EXCEPT !.phase = "respond"]
    /\ UNCHANGED <<phoneVars, netVars, first, kept, projected, batches, verdicts, age,
                   faults, histVars>>

\* Mutant: the whole request is acknowledged.
BuildAcknowledgementWholesale ==
    [stored |-> Ids(handler.stored), duplicate |-> Ids(Range(handler.batch.copies)),
     rejected |-> {}, counts |-> HandlerCounts]

\* Mutant: duplicates are left out of the accepted list.
BuildAcknowledgementStoredOnly ==
    [stored |-> Ids(handler.stored), duplicate |-> {},
     rejected |-> handler.rejected, counts |-> HandlerCounts]

BuildAcknowledgement ==
    [stored |-> Ids(handler.stored), duplicate |-> handler.duplicate,
     rejected |-> handler.rejected, counts |-> HandlerCounts]

\* The response is the acknowledgement; it is lost when nobody waits for it.
Respond ==
    /\ handler.phase = "respond"
    /\ replies' = IF handler.open THEN {BuildAcknowledgement} ELSE replies
    /\ issued' = [issued EXCEPT ![handler.batch.id] =
                    @ \cup {[ack |-> BuildAcknowledgement, rows |-> handler.stored]}]
    /\ handler' = Idle
    /\ UNCHANGED <<phoneVars, requests, dbVars, age, faults, retired, sent>>

\* A transaction raises (the shared connection is inside another thread's
\* transaction, disk full, ...): it is rolled back, what the earlier ones
\* committed stays, and the endpoint answers 500.
TransactionFails ==
    /\ (Validated /\ handler.toStore # {}) \/ handler.phase \in {"project", "verdicts", "touch"}
    /\ faults < MaxFaults
    /\ faults' = faults + 1
    /\ waiting' = (waiting /\ ~handler.open)
    /\ handler' = Idle
    /\ UNCHANGED <<outbox, tries, current, lastId, netVars, dbVars, age, histVars>>

\* The process dies and is started again: committed rows survive,
\* connections and everything in memory do not.
Crash ==
    /\ faults < MaxFaults
    /\ faults' = faults + 1
    /\ requests' = {}
    /\ replies' = {}
    /\ waiting' = FALSE
    /\ handler' = Idle
    /\ UNCHANGED <<outbox, tries, current, lastId, dbVars, age, histVars>>

\* The events whose rows are past the retention age.
Outdated == Held \cap Ids({c \in kept : age[c] = "old"})

\* Mutant: retention runs in a thread of its own, at any time.
ApplyRetentionAnyTime ==
    /\ Outdated # {}
    /\ first' = [e \in Events |-> IF e \in Outdated THEN 0 ELSE first[e]]
    /\ kept' = {c \in kept : age[c] # "old"}
    /\ retired' = retired \cup Outdated
    /\ UNCHANGED <<phoneVars, netVars, handler, projected, batches, verdicts,
                   seen, age, faults, sent, issued>>

\* The maintenance loop deletes raw events past the retention age.  It runs
\* on the event loop, so never in the middle of ingest_batch.
ApplyRetention ==
    /\ handler.phase = "idle"
    /\ Outdated # {}
    /\ first' = [e \in Events |-> IF e \in Outdated THEN 0 ELSE first[e]]
    /\ kept' = {c \in kept : age[c] # "old"}
    /\ retired' = retired \cup Outdated
    /\ UNCHANGED <<phoneVars, netVars, handler, projected, batches, verdicts,
                   seen, age, faults, sent, issued>>

\* Time passes: a timestamp comes within the allowed skew, later it falls
\* behind the retention cutoff.
Tick ==
    /\ \E c \in Copies :
          \/ age[c] = "future" /\ age' = [age EXCEPT ![c] = "recent"]
          \/ age[c] = "recent" /\ age' = [age EXCEPT ![c] = "old"]
    /\ UNCHANGED <<phoneVars, netVars, handler, dbVars, faults, histVars>>
-----------------------------------------------------------------------------
(* The specification *)

\* Nothing is left to do: the queue is settled, or the bound on batch ids
\* stops the model.
Done ==
    /\ Pending = {} \/ lastId = MaxBatches
    /\ ~waiting
    /\ current.id = 0
    /\ requests = {}
    /\ handler.phase = "idle"
    /\ UNCHANGED vars

Phone == Compose \/ Resend \/ ReceiveAck
Network == Disconnect \/ LoseRequest
IngestBatch ==
    \/ Validate \/ StoreEvents \/ RecordHeartbeat \/ RecordBatch \/ RecordAcknowledgements
    \/ TouchDevice \/ Respond
Server == TakeUp \/ IngestBatch \/ ApplyRetention
Failure == Refuse \/ TransactionFails \/ Crash

Next == Phone \/ Network \/ Server \/ Failure \/ Tick \/ Done

Spec == Init /\ [][Next]_vars

\* The uploader keeps trying, the endpoint takes up what reaches it and a
\* started handler runs on: it never waits for anything.
Fairness ==
    /\ WF_vars(Compose \/ Resend)
    /\ WF_vars(ReceiveAck)
    /\ WF_vars(TakeUp)
    /\ WF_vars(IngestBatch)

FairSpec == Spec /\ Fairness

\* stored_acknowledgement: the verdict rows with the batch row's counts.
StoredAcknowledgement(b) ==
    LET With(status) == {e \in Events : verdicts[b][e] = status}
    IN  [stored |-> With("stored"), duplicate |-> With("duplicate"),
         rejected |-> With("rejected"), counts |-> batches[b].counts]

-----------------------------------------------------------------------------
(* Properties *)

\* Types of the state; the handler's fields are those of a batch in progress.
TypeOK ==
    /\ outbox \in [Events -> {"pending", "uploaded", "dead"}]
    /\ tries \in [Events -> 0..MaxAttempts]
    /\ current \in Batch \cup {NoBatch}
    /\ waiting \in BOOLEAN
    /\ lastId \in 0..MaxBatches
    /\ requests \subseteq Request
    /\ replies \subseteq Ack
    /\ handler \in [phase : Phases, batch : Batch \cup {NoBatch}, open : BOOLEAN,
                    next : Nat \ {0}, rejected : SUBSET Events, rejects : Nat,
                    toStore : SUBSET Copies, repeats : Nat, stored : SUBSET Copies,
                    duplicate : SUBSET Events, beats : SUBSET Copies]
    /\ first \in [Events -> 0..MaxBatches]
    /\ kept \subseteq Copies
    /\ projected \subseteq Events
    /\ batches \in [BatchIds -> [known : BOOLEAN, counts : Counts, replays : Nat]]
    /\ verdicts \in [BatchIds -> [Events -> {"none", "stored", "duplicate", "rejected"}]]
    /\ seen \in BOOLEAN
    /\ age \in [Copies -> {"future", "recent", "old"}]
    /\ faults \in 0..MaxFaults
    /\ retired \subseteq Events
    /\ sent \in [BatchIds -> Arrangements \cup {<<>>}]
    /\ issued \in [BatchIds -> SUBSET [ack : Ack, rows : SUBSET Copies]]

\* The phone stops sending an event only if the server has a row for it, or
\* had one until retention removed it: no lost response, retry, error or
\* crash makes the phone drop an event the server never kept.
NothingLost == \A e \in Events : outbox[e] = "uploaded" => e \in Held \cup retired

\* raw_events is append-only: while an event has a row, no step gives that
\* row to another batch, whatever is replayed (the row may be deleted).
RowKeepsItsBatch == [][\A e \in Held : first'[e] \in {first[e], 0}]_vars

\* A verdict row that says "stored" names the batch that owns the event's
\* row, so at most one batch is ever told it was the first (until retention
\* has removed the row).
StoredVerdictOwnsRow ==
    \A b \in BatchIds, e \in Events :
        verdicts[b][e] = "stored" /\ e \notin retired => first[e] = b

\* An event accepted by an acknowledgement that rejected no copy of it stays
\* accepted in the recorded verdicts, through replays and restarts: a replay
\* may turn a rejection into an acceptance and never the other way round.  (A
\* copy rejected next to an accepted one takes the verdict row of both.)
AcceptanceStands ==
    \A b \in BatchIds : \A i \in issued[b] :
        Accepted(i.ack) \ i.ack.rejected \subseteq Accepted(StoredAcknowledgement(b))

\* An event acknowledged as stored, and stored as a heartbeat, has its
\* projection row.
StoredHeartbeatsProjected ==
    \A b \in BatchIds : \A i \in issued[b] : Ids(i.rows \cap Heartbeats) \subseteq projected

\* The ids a batch lists more than once.
Repeated(s) == {IdOf[s[i]] : i \in {k \in DOMAIN s : \E j \in DOMAIN s \ {k} :
                                                           IdOf[s[j]] = IdOf[s[k]]}}

\* Every event a batch lists gets a verdict and no other does, only one listed
\* more than once can be both accepted and rejected, and the counts account
\* for every copy.
VerdictsAddUp ==
    \A b \in BatchIds : \A i \in issued[b] :
        LET a == i.ack
        IN  /\ a.counts.received = Len(sent[b])
            /\ a.counts.received = a.counts.stored + a.counts.duplicate + a.counts.rejected
            /\ Accepted(a) \cup a.rejected = Ids(Range(sent[b]))
            /\ Accepted(a) \cap a.rejected \subseteq Repeated(sent[b])

\* The abstract store: confirmed is the phone's view, promised what the
\* issued acknowledgements accept.
Promised == {e \in Events : \E b \in BatchIds : \E i \in issued[b] : e \in Accepted(i.ack)}
Confirmed == {e \in Events : outbox[e] = "uploaded"}

Store == INSTANCE EventStore WITH promised <- Promised, confirmed <- Confirmed

\* Ingestion implements the abstract store: a row keeps its owner, an event
\* is promised only while it is held and confirmed only after a promise.
ImplementsStore == Store!Spec

\* The strengthening behind the safety properties, proved inductive in
\* IngestionProofs.tla.

\* A request carries what was sent under its batch id.
BatchInv ==
    /\ \A b \in {current, handler.batch} \cup {r.batch : r \in requests} :
          b = NoBatch \/ (b.id \in 1..lastId /\ b.copies = sent[b.id])
    /\ \A b \in BatchIds : issued[b] # {} => b <= lastId

\* What the handler calls stored and duplicate is held (no retention runs in
\* between), and what it stored is its own.
HandlerInv ==
    /\ handler.phase = "idle" => handler = Idle
    /\ handler.phase # "idle" => handler.batch \in Batch
    /\ handler.phase = "validate" => handler.stored = {} /\ handler.beats = {}
    /\ handler.phase \notin {"idle", "validate"} =>
          Ids(handler.stored) \cup handler.duplicate \subseteq Held
    /\ handler.phase = "project" \/ handler.beats = {}
    /\ handler.beats \subseteq handler.stored
    /\ \A c \in handler.stored : first[IdOf[c]] = handler.batch.id
    /\ \A c \in handler.stored \cap Heartbeats : IdOf[c] \in projected \/ c \in handler.beats

\* The copies of the batch validated so far.
Seen == {i \in DOMAIN handler.batch.copies : i < handler.next}
SeenId(i) == IdOf[handler.batch.copies[i]]

\* Verdicts are about the copies seen; a copy that is not rejected is, and
\* stays, acceptable; both verdicts for one id take two copies.
LoopInv ==
    /\ handler.next <= Len(handler.batch.copies) + 1
    /\ handler.phase \notin {"idle", "validate"} =>
          handler.next = Len(handler.batch.copies) + 1
    /\ handler.phase = "validate" => handler.duplicate \subseteq Ids(handler.toStore)
    /\ \A i \in Seen :
          /\ SeenId(i) \in handler.rejected \cup Ids(handler.toStore)
          /\ SeenId(i) \in handler.rejected \/ ~Rejects(handler.batch.copies[i])
    /\ \A e \in handler.rejected \cup Ids(handler.toStore) : \E i \in Seen : SeenId(i) = e
    /\ \A e \in handler.rejected \cap Ids(handler.toStore) :
          \E i, j \in Seen : i # j /\ SeenId(i) = e /\ SeenId(j) = e
    /\ handler.phase \notin {"idle", "validate"} =>
          /\ handler.stored \subseteq handler.toStore
          /\ Ids(handler.stored) \cup handler.duplicate = Ids(handler.toStore)

\* An acceptance without a rejection rests on acceptable copies only, so the
\* handler cannot reject one of them, and has recorded its own acceptances.
VerdictInv ==
    /\ \A b \in BatchIds : \A i \in issued[b] : \A k \in DOMAIN sent[b] :
          IdOf[sent[b][k]] \in Accepted(i.ack) \ i.ack.rejected => ~Rejects(sent[b][k])
    /\ handler.phase # "idle" => \A i \in issued[handler.batch.id] :
          handler.rejected \cap (Accepted(i.ack) \ i.ack.rejected) = {}
    /\ handler.phase \in {"touch", "respond"} =>
          (Ids(handler.stored) \cup handler.duplicate) \ handler.rejected
             \subseteq Accepted(StoredAcknowledgement(handler.batch.id))

\* What was ever promised is held or was retired, and a reply on its way is
\* one of the acknowledgements issued.
PromiseInv ==
    /\ Promised \subseteq Held \cup retired
    /\ Confirmed \subseteq Promised
    /\ \A a \in replies : Accepted(a) \subseteq Promised

IndInv ==
    /\ BatchInv
    /\ HandlerInv
    /\ LoopInv
    /\ VerdictInv
    /\ PromiseInv
    /\ StoredVerdictOwnsRow
    /\ AcceptanceStands
    /\ StoredHeartbeatsProjected

\* Once faults stop, every event whose copies are all acceptable is uploaded
\* and every other one is uploaded or given up: neither a rejected sibling nor
\* a replay blocks it.
EventsSettle ==
    \A e \in Events :
        <>(IF \E c \in Foreign \cup Implausible \cup Future : IdOf[c] = e
           THEN outbox[e] # "pending" ELSE outbox[e] = "uploaded")

\* Every heartbeat the phone is told is accepted has its projection row
\* (ingestion.py: "Heartbeats are also raw events; they are additionally
\* projected into their own table").  Violated: when a step after
\* store_events fails, the retry sees a duplicate and projects nothing, and
\* the phone, told the event is held, never sends it again.
AcceptedHeartbeatsProjected ==
    \A b \in BatchIds : \A i \in issued[b] : \A e \in Accepted(i.ack) :
        (\A c \in Copies : IdOf[c] = e => c \in Heartbeats) => e \in projected
=============================================================================
