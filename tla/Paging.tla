-------------------------------- MODULE Paging --------------------------------
(***************************************************************************)
(* A client of the MCP server that reads a window of raw events page by    *)
(* page, following next_offset (query_phone_events and export_phone_window *)
(* in mcp_tools.py, events_in_window in database.py), while batches and    *)
(* retention change the table between two of its requests.                 *)
(*                                                                         *)
(* The rows are those that match the window and the sources, numbered in   *)
(* the order of the query: by event time, ties by event id.                *)
(***************************************************************************)
EXTENDS Integers, FiniteSets

CONSTANTS
    NRows,        \* bound: rows that match, 1..NRows in the query's order
    MaxLimit,     \* MAX_PAGE_SIZE
    MaxChanges,   \* bound: batches and retentions during the reading
    MaxReturned   \* bound: how far the returns of a row are counted

ASSUME PagingAssumption ==
    /\ NRows \in Nat /\ MaxLimit \in Nat \ {0}
    /\ MaxChanges \in Nat /\ MaxReturned \in Nat \ {0}

VARIABLES
    stored,    \* raw_events
    steady,    \* history: rows stored since the reading began
    limit,     \* the client's page size
    offset,    \* of the next request
    reading,   \* the client has a next_offset to follow
    returned,  \* how often each row was returned
    inserted,  \* history: how many rows were inserted since the reading began
    removed,   \* history: and how many were deleted
    changes

vars == <<stored, steady, limit, offset, reading, returned, inserted, removed, changes>>

Rows == 1..NRows

Init ==
    /\ stored \in SUBSET Rows
    /\ steady = stored
    /\ limit \in 1..MaxLimit
    /\ offset = 0
    /\ reading = TRUE
    /\ returned = [r \in Rows |-> 0]
    /\ inserted = 0
    /\ removed = 0
    /\ changes = 0

-----------------------------------------------------------------------------
(* The query and the page *)

\* A row's place in the result of the query without LIMIT.
Position(r) == Cardinality({q \in stored : q <= r})

\* events_in_window with LIMIT n and the client's offset.
EventsInWindow(n) == {r \in stored : Position(r) > offset /\ Position(r) <= offset + n}

\* Mutant: without the extra row.
HasMoreFullPage == Cardinality(EventsInWindow(limit)) > limit

\* One row more than the page is asked for.
HasMore == Cardinality(EventsInWindow(limit + 1)) > limit

\* Mutant: the extra row is taken back.
NextOffsetBack == offset + limit - 1

\* Mutant: the next offset is added to the offset.
NextOffsetAdded == offset + offset + limit

NextOffset == offset + limit

Page == EventsInWindow(limit)

Query ==
    /\ reading
    /\ returned' = [r \in Rows |-> IF r \in Page /\ returned[r] < MaxReturned
                                  THEN returned[r] + 1 ELSE returned[r]]
    /\ reading' = HasMore
    /\ offset' = IF HasMore THEN NextOffset ELSE offset
    /\ UNCHANGED <<stored, steady, limit, inserted, removed, changes>>

-----------------------------------------------------------------------------
(* Changes of the table *)

\* A batch: late events have any place in the order.
StoreEvents ==
    /\ reading
    /\ changes < MaxChanges
    /\ \E batch \in SUBSET (Rows \ stored) :
          /\ batch # {}
          /\ stored' = stored \cup batch
          /\ inserted' = inserted + Cardinality(batch)
    /\ changes' = changes + 1
    /\ UNCHANGED <<steady, limit, offset, reading, returned, removed>>

\* The events before the cutoff are deleted: the first ones of the order.
ApplyRetention ==
    /\ reading
    /\ changes < MaxChanges
    /\ \E cutoff \in Rows :
          LET old == {r \in stored : r <= cutoff}
          IN  /\ old # {}
              /\ stored' = stored \ old
              /\ steady' = steady \ old
              /\ removed' = removed + Cardinality(old)
    /\ changes' = changes + 1
    /\ UNCHANGED <<limit, offset, reading, returned, inserted>>

\* The end of the bounded run.
Done == ~reading /\ UNCHANGED vars

-----------------------------------------------------------------------------
(* The specification *)

Next == Query \/ StoreEvents \/ ApplyRetention \/ Done

Spec == Init /\ [][Next]_vars

\* The client follows next_offset.
FairSpec == Spec /\ WF_vars(Query)

-----------------------------------------------------------------------------
(* Properties *)

\* Types of the state.
TypeOK ==
    /\ stored \subseteq Rows /\ steady \subseteq stored
    /\ limit \in 1..MaxLimit /\ offset \in 0..NRows
    /\ reading \in BOOLEAN
    /\ returned \in [Rows -> 0..MaxReturned]
    /\ inserted \in Nat /\ removed \in Nat /\ changes \in 0..MaxChanges

\* The steady rows the reading has passed without returning them.
Missed == {r \in steady : returned[r] = 0 /\ (~reading \/ Position(r) <= offset)}

\* A row that is there throughout is missed only on account of a deletion,
\* one at the most for each row deleted; none without retention.
MissedByDeletionsOnly == Cardinality(Missed) <= removed

\* The returns of a row after its first one: <<r, 2>>, <<r, 3>>, ...
Repeats == {p \in Rows \X (2..MaxReturned) : p[2] <= returned[p[1]]}

\* A row is returned again only on account of an insertion, one at the most
\* for each row inserted; none without batches.
RepeatedByInsertionsOnly == Cardinality(Repeats) <= inserted

\* The reading comes to an end, whatever is stored meanwhile.
ReadingEnds == <>~reading
=============================================================================
