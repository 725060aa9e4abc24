---------------------------- MODULE DatabaseFile -----------------------------
(***************************************************************************)
(* The SQLite file behind the app (database.py): the processes that open   *)
(* it (the app, and any number of stdio MCP servers, mcp_server.py), the   *)
(* migration each of them makes at its start, the write lock their         *)
(* transactions wait for, and what is left of the committed transactions   *)
(* when a process dies or the power fails.                                 *)
(*                                                                         *)
(* journal_mode=WAL keeps the committed transactions in their order.  With *)
(* synchronous=NORMAL a COMMIT does not wait for the disk: the death of a  *)
(* process loses nothing, a power failure may lose those since the last    *)
(* sync, the latest first.                                                 *)
(*                                                                         *)
(* Of the app's requests the model has the ingestion of one event in two   *)
(* of its transactions (Ingestion has all of them); of a tool's, one       *)
(* transaction that writes derived rows.                                   *)
(***************************************************************************)
EXTENDS Integers, Sequences, FiniteSets

CONSTANTS
    App,            \* the app's process
    Tools,          \* stdio MCP servers
    Events,
    LastVersion,    \* the newest version in _MIGRATIONS
    MaxToolWrites,  \* bound: transactions of the tools
    MaxFaults       \* bound: deaths of a process, power failures, lock timeouts

Processes == Tools \cup {App}
Versions == 1..LastVersion

ASSUME FileAssumption ==
    /\ App \notin Tools
    /\ LastVersion \in Nat \ {0}
    /\ MaxToolWrites \in Nat
    /\ MaxFaults \in Nat

VARIABLES
    log,        \* the committed transactions that matter here, in their order
    synced,     \* how many of them are on the disk
    lock,       \* the processes inside a transaction; at most one
    place,      \* where each process is
    version,    \* migrate's variable current
    handling,   \* the event of the app's request, if there is one
    outbox,     \* the events the phone still has to deliver
    accepted,   \* the events whose acceptance has reached the phone
    undone,     \* history: the events a power failure took out of the log
    toolWrites,
    faults

vars == <<log, synced, lock, place, version, handling, outbox, accepted, undone,
          toolWrites, faults>>

\* A committed transaction: a migration with its version, the row of an event,
\* the stored verdict about an event.
Entry == [kind : {"version"}, of : Versions] \cup [kind : {"event", "verdict"}, of : Events]
Row(e) == [kind |-> "event", of |-> e]
Verdict(e) == [kind |-> "verdict", of |-> e]
Migration(v) == [kind |-> "version", of |-> v]

Logged(entry) == \E i \in DOMAIN log : log[i] = entry

\* Outside a transaction, and inside one.
Waiting == {"migrating", "registering", "storing", "recording"}
Inside == {"applying", "register", "store", "record", "write"}
Places == {"down", "opened", "recorded", "serving"} \cup Waiting \cup Inside

\* A transaction begins, by the place before it.
InTransaction(p) ==
    CASE place[p] = "migrating"   -> "applying"
      [] place[p] = "registering" -> "register"
      [] place[p] = "storing"     -> "store"
      [] place[p] = "recording"   -> "record"
      [] OTHER -> "write"

Init ==
    /\ log = <<>>
    /\ synced = 0
    /\ lock = {}
    /\ place = [p \in Processes |-> "down"]
    /\ version = [p \in Processes |-> 0]
    /\ handling = {}
    /\ outbox = Events
    /\ accepted = {}
    /\ undone = {}
    /\ toolWrites = 0
    /\ faults = 0

-----------------------------------------------------------------------------
(* Starting a process.                                                      *)

\* s6 starts the app, a client its MCP server: the file is opened and
\* schema_migrations created if it is not there.
Open(p) ==
    /\ place[p] = "down"
    /\ place' = [place EXCEPT ![p] = "opened"]
    /\ UNCHANGED <<log, synced, lock, version, handling, outbox, accepted, undone,
                   toolWrites, faults>>

Recorded == {v \in Versions : Logged(Migration(v))}

\* schema_version: MAX(version), 0 without one.
SchemaVersion(v) == v \in Recorded \cup {0} /\ \A w \in Recorded : w <= v

\* migrate reads the version before, and outside, its transactions.
ReadVersion(p) ==
    /\ place[p] = "opened"
    /\ place' = [place EXCEPT ![p] = "migrating"]
    /\ \E v \in 0..LastVersion :
          SchemaVersion(v) /\ version' = [version EXCEPT ![p] = v]
    /\ UNCHANGED <<log, synced, lock, handling, outbox, accepted, undone,
                   toolWrites, faults>>

\* Mutant: a version is also due when it is the current one.
DueInclusive(p) == {v \in Versions : v >= version[p]}

\* The versions migrate has still to apply, in the order of _MIGRATIONS.
Due(p) == {v \in Versions : v > version[p]}

\* Mutant: whatever is there is replaced, the version is not recorded twice.
RefusedNever(p) == FALSE

\* The script's statements all say IF NOT EXISTS; it is the INSERT of a
\* version already recorded that fails, on the primary key.
Refused(p) == \E v \in Due(p) : (\A w \in Due(p) : v <= w) /\ Logged(Migration(v))

\* The transaction of one migration commits.
Apply(p) ==
    /\ place[p] = "applying"
    /\ ~Refused(p)
    /\ \E v \in Due(p) :
          /\ \A w \in Due(p) : v <= w
          /\ log' = Append(log, Migration(v))
          /\ version' = [version EXCEPT ![p] = v]
    /\ lock' = lock \ {p}
    /\ place' = [place EXCEPT ![p] = "migrating"]
    /\ UNCHANGED <<synced, handling, outbox, accepted, undone, toolWrites, faults>>

\* It fails: ROLLBACK, the error leaves the constructor and ends the process.
ApplyFails(p) ==
    /\ place[p] = "applying"
    /\ Refused(p)
    /\ lock' = lock \ {p}
    /\ place' = [place EXCEPT ![p] = "down"]
    /\ version' = [version EXCEPT ![p] = 0]
    /\ UNCHANGED <<log, synced, handling, outbox, accepted, undone, toolWrites, faults>>

\* Every version is applied: a tool's process serves, the app first writes its
\* feature definitions (a transaction each, the model has one).
Migrated(p) ==
    /\ place[p] = "migrating"
    /\ Due(p) = {}
    /\ place' = [place EXCEPT ![p] = IF p = App THEN "registering" ELSE "serving"]
    /\ UNCHANGED <<log, synced, lock, version, handling, outbox, accepted, undone,
                   toolWrites, faults>>

-----------------------------------------------------------------------------
(* Transactions.                                                            *)

Wants(p) ==
    \/ place[p] \in {"registering", "storing", "recording"}
    \/ place[p] = "migrating" /\ Due(p) # {}
    \/ place[p] = "serving" /\ p \in Tools /\ toolWrites < MaxToolWrites

\* BEGIN IMMEDIATE, which waits for the write lock of the file.
Begin(p) ==
    /\ Wants(p)
    /\ lock = {}
    /\ lock' = {p}
    /\ place' = [place EXCEPT ![p] = InTransaction(p)]
    /\ toolWrites' = IF InTransaction(p) = "write" THEN toolWrites + 1 ELSE toolWrites
    /\ UNCHANGED <<log, synced, version, handling, outbox, accepted, undone, faults>>

\* The wait exceeds busy_timeout: "database is locked".  A request answers
\* 500, a start fails.
BeginTimesOut(p) ==
    /\ Wants(p)
    /\ lock # {}
    /\ faults < MaxFaults
    /\ faults' = faults + 1
    /\ IF place[p] \in {"migrating", "registering"}
       THEN /\ place' = [place EXCEPT ![p] = "down"]
            /\ version' = [version EXCEPT ![p] = 0]
            /\ UNCHANGED handling
       ELSE /\ place' = [place EXCEPT ![p] = "serving"]
            /\ handling' = IF p = App THEN {} ELSE handling
            /\ UNCHANGED version
    /\ UNCHANGED <<log, synced, lock, outbox, accepted, undone, toolWrites>>

\* The phone's batch reaches the app.
Receive ==
    /\ place[App] = "serving"
    /\ \E e \in outbox : handling' = {e}
    /\ place' = [place EXCEPT ![App] = "storing"]
    /\ UNCHANGED <<log, synced, lock, version, outbox, accepted, undone, toolWrites, faults>>

\* An entry is added once (INSERT OR IGNORE, and OR REPLACE of an equal row).
Insert(entry) == log' = IF Logged(entry) THEN log ELSE Append(log, entry)

\* Mutant: the verdicts are committed, the rows are left for later.
StoreVerdictFirst ==
    /\ place[App] = "store"
    /\ \E e \in handling : Insert(Verdict(e))
    /\ lock' = lock \ {App}
    /\ place' = [place EXCEPT ![App] = "recording"]
    /\ UNCHANGED <<synced, version, handling, outbox, accepted, undone, toolWrites, faults>>

\* Mutant: the answer is given from memory, before the row is committed.
StoreWriteBehind ==
    /\ place[App] = "store"
    /\ log' = log
    /\ lock' = lock \ {App}
    /\ place' = [place EXCEPT ![App] = "recorded"]
    /\ UNCHANGED <<synced, version, handling, outbox, accepted, undone, toolWrites, faults>>

\* store_events commits.
Store ==
    /\ place[App] = "store"
    /\ \E e \in handling : Insert(Row(e))
    /\ lock' = lock \ {App}
    /\ place' = [place EXCEPT ![App] = "recording"]
    /\ UNCHANGED <<synced, version, handling, outbox, accepted, undone, toolWrites, faults>>

\* record_acknowledgements commits.
Record ==
    /\ place[App] = "record"
    /\ \E e \in handling : Insert(Verdict(e))
    /\ lock' = lock \ {App}
    /\ place' = [place EXCEPT ![App] = "recorded"]
    /\ UNCHANGED <<synced, version, handling, outbox, accepted, undone, toolWrites, faults>>

\* The response reaches the phone, which drops the event.
Reply ==
    /\ place[App] = "recorded"
    /\ outbox' = outbox \ handling
    /\ accepted' = accepted \cup handling
    /\ handling' = {}
    /\ place' = [place EXCEPT ![App] = "serving"]
    /\ UNCHANGED <<log, synced, lock, version, undone, toolWrites, faults>>

\* The feature definitions, or a tool's derived rows: not in the log.
EndWrite(p) ==
    /\ place[p] \in {"register", "write"}
    /\ lock' = lock \ {p}
    /\ place' = [place EXCEPT ![p] = "serving"]
    /\ UNCHANGED <<log, synced, version, handling, outbox, accepted, undone,
                   toolWrites, faults>>

-----------------------------------------------------------------------------
(* Faults.                                                                  *)

\* A checkpoint, or the operating system, brings the log to the disk.
Sync ==
    /\ synced < Len(log)
    /\ synced' = Len(log)
    /\ UNCHANGED <<log, lock, place, version, handling, outbox, accepted, undone,
                   toolWrites, faults>>

\* A process dies; its open transaction is rolled back and its lock released.
Crash(p) ==
    /\ place[p] # "down"
    /\ faults < MaxFaults
    /\ faults' = faults + 1
    /\ lock' = lock \ {p}
    /\ place' = [place EXCEPT ![p] = "down"]
    /\ version' = [version EXCEPT ![p] = 0]
    /\ handling' = IF p = App THEN {} ELSE handling
    /\ UNCHANGED <<log, synced, outbox, accepted, undone, toolWrites>>

\* The power fails: the log keeps what was synced and maybe more.
PowerFails ==
    /\ faults < MaxFaults
    /\ faults' = faults + 1
    /\ \E n \in synced..Len(log) :
          /\ log' = SubSeq(log, 1, n)
          /\ undone' = undone \cup {e \in Events : \E i \in (n + 1)..Len(log) : log[i] = Row(e)}
    /\ lock' = {}
    /\ place' = [p \in Processes |-> "down"]
    /\ version' = [p \in Processes |-> 0]
    /\ handling' = {}
    /\ UNCHANGED <<synced, outbox, accepted, toolWrites>>

Step(p) ==
    \/ Open(p) \/ ReadVersion(p) \/ Apply(p) \/ ApplyFails(p) \/ Migrated(p)
    \/ Begin(p) \/ EndWrite(p)

Ingest == Receive \/ Store \/ Record \/ Reply

\* Everything is delivered and every process waits for requests.
Done ==
    /\ outbox = {}
    /\ \A p \in Processes : place[p] = "serving"
    /\ UNCHANGED vars

Next ==
    \/ \E p \in Processes : Step(p) \/ BeginTimesOut(p) \/ Crash(p)
    \/ Ingest \/ Sync \/ PowerFails \/ Done

Spec == Init /\ [][Next]_vars

\* A started process runs on, the phone keeps sending; the disk, faults and
\* timeouts are not forced.
FairSpec ==
    /\ Spec
    /\ \A p \in Processes : WF_vars(Step(p))
    /\ WF_vars(Ingest)

-----------------------------------------------------------------------------
(* Properties *)

\* Types of the state.
TypeOK ==
    /\ log \in Seq(Entry)
    /\ synced \in 0..Len(log)
    /\ lock \subseteq Processes
    /\ place \in [Processes -> Places]
    /\ version \in [Processes -> 0..LastVersion]
    /\ handling \subseteq Events
    /\ outbox \subseteq Events
    /\ accepted \subseteq Events
    /\ undone \subseteq Events
    /\ toolWrites \in Nat
    /\ faults \in Nat

\* Whatever a failure leaves of the log, a stored verdict never stands without
\* the row it speaks of: the row was committed before it, so it cannot be lost
\* alone.
VerdictsHaveRows ==
    \A i \in DOMAIN log : log[i].kind = "verdict" =>
        \E j \in 1..(i - 1) : log[j] = Row(log[i].of)

\* Two processes that start on one file apply each migration once, in order, and
\* nothing is written before the last one: the loser of the race fails
\* instead of migrating again.
SchemaOnceInOrder ==
    \A i \in DOMAIN log :
        IF log[i].kind = "version"
        THEN \A v \in Versions :
                (\E j \in 1..(i - 1) : log[j] = Migration(v)) <=> v < log[i].of
        ELSE \E j \in 1..(i - 1) : log[j] = Migration(LastVersion)

\* The death of any process at any moment loses nothing the phone was told:
\* only a power failure can, and only what was not synced.
AcceptedSurvivesCrashes == \A e \in accepted : Logged(Row(e)) \/ e \in undone

\* After the last fault every event is delivered and the app goes on
\* serving, the races of the starts and the waits for the lock included.
AppSettles == <>[](place[App] = "serving" /\ outbox = {})
=============================================================================
