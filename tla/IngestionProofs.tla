-------------------------- MODULE IngestionProofs --------------------------
(***************************************************************************)
(* Proofs about Ingestion.tla for every set of events and every bound.     *)
(***************************************************************************)
EXTENDS Ingestion, FiniteSetTheorems, TLAPS

\* The number of elements of a set of copies is a natural number.
LEMMA CopiesCardinality ==
    ASSUME NEW S \in SUBSET Copies
    PROVE  IsFiniteSet(S) /\ Cardinality(S) \in Nat
BY EventsAssumption, FS_Subset, FS_CardinalityType

\* The ids of copies are event ids.
LEMMA IdsOfCopies ==
    ASSUME NEW S \in SUBSET Copies
    PROVE  Ids(S) \in SUBSET Events
BY EventsAssumption DEF Ids

\* What a batch lists is a sequence of copies, with at least one in a real batch.
LEMMA Lists ==
    /\ \A s \in Arrangements \cup {<<>>} :
          /\ Len(s) \in Nat /\ DOMAIN s = 1..Len(s)
          /\ \A i \in DOMAIN s : s[i] \in Copies /\ IdOf[s[i]] \in Events
    /\ \A b \in Batch \cup {NoBatch} : b.copies \in Arrangements \cup {<<>>}
<1>1. \A s \in Arrangements \cup {<<>>} : s \in Seq(Copies)
  <2>1. <<>> \in Seq(Copies)
    OBVIOUS
  <2>2. \A s \in Arrangements : s \in Seq(Copies)
    BY EventsAssumption
  <2> QED  BY <2>1, <2>2
<1>2. \A s \in Arrangements \cup {<<>>} :
         /\ Len(s) \in Nat /\ DOMAIN s = 1..Len(s)
         /\ \A i \in DOMAIN s : s[i] \in Copies
  BY <1>1
<1>3. \A b \in Batch \cup {NoBatch} : b.copies \in Arrangements \cup {<<>>}
  BY DEF Batch, NoBatch
<1> QED  BY <1>2, <1>3, EventsAssumption

HandlerSet ==
    [phase : Phases, batch : Batch \cup {NoBatch}, open : BOOLEAN,
     next : Nat \ {0}, rejected : SUBSET Events, rejects : Nat,
     toStore : SUBSET Copies, repeats : Nat, stored : SUBSET Copies,
     duplicate : SUBSET Events, beats : SUBSET Copies]

LEMMA HandlerType ==
    ASSUME TypeOK
    PROVE  handler \in HandlerSet
BY DEF TypeOK, HandlerSet

\* The handler's counts are counts.
LEMMA CountsType ==
    ASSUME TypeOK
    PROVE  HandlerCounts \in Counts
<1>1. /\ handler.stored \in SUBSET Copies /\ handler.toStore \in SUBSET Copies
      /\ handler.repeats \in Nat /\ handler.rejects \in Nat
      /\ handler.batch \in Batch \cup {NoBatch}
  BY HandlerType DEF HandlerSet
<1>2. /\ Cardinality(handler.stored) \in Nat
      /\ Cardinality(handler.toStore \ handler.stored) \in Nat
  <2>1. handler.toStore \ handler.stored \in SUBSET Copies
    BY <1>1
  <2> QED  BY <1>1, <2>1, CopiesCardinality
<1>3. Len(handler.batch.copies) \in Nat
  BY <1>1, Lists
<1> QED  BY <1>1, <1>2, <1>3 DEF HandlerCounts, Counts

\* The acknowledgement built from a well-typed handler is an acknowledgement.
LEMMA AckType ==
    ASSUME TypeOK
    PROVE  BuildAcknowledgement \in Ack
<1>1. Ids(handler.stored) \in SUBSET Events
  BY HandlerType, IdsOfCopies DEF HandlerSet
<1> QED  BY <1>1, CountsType DEF TypeOK, BuildAcknowledgement, Ack

LEMMA InitTypeOK == Init => TypeOK
<1> SUFFICES ASSUME Init
             PROVE  TypeOK
  OBVIOUS
<1>1. /\ outbox \in [Events -> {"pending", "uploaded", "dead"}]
      /\ tries \in [Events -> 0..MaxAttempts]
      /\ first \in [Events -> 0..MaxBatches]
      /\ age \in [Copies -> {"future", "recent", "old"}]
      /\ lastId \in 0..MaxBatches
      /\ faults \in 0..MaxFaults
  BY BoundsAssumption DEF Init
<1>2. requests \subseteq Request /\ replies \subseteq Ack
  BY DEF Init
<1>3. handler \in HandlerSet
  BY DEF Init, Idle, Phases, HandlerSet
<1>4. NoCounts \in Counts
  BY DEF NoCounts, Counts
<1>5. /\ batches \in [BatchIds -> [known : BOOLEAN, counts : Counts, replays : Nat]]
      /\ verdicts \in [BatchIds -> [Events -> {"none", "stored", "duplicate", "rejected"}]]
      /\ issued \in [BatchIds -> SUBSET [ack : Ack, rows : SUBSET Copies]]
      /\ sent \in [BatchIds -> Arrangements \cup {<<>>}]
  BY <1>4 DEF Init
<1>6. /\ current \in Batch \cup {NoBatch}
      /\ waiting \in BOOLEAN
      /\ seen \in BOOLEAN
      /\ projected \subseteq Events
      /\ retired \subseteq Events
      /\ kept \subseteq Copies
  BY DEF Init
<1> QED  BY <1>1, <1>2, <1>3, <1>5, <1>6 DEF TypeOK, HandlerSet

\* The copy under validation is one the batch lists.
LEMMA ValidatedCopy ==
    ASSUME TypeOK, Validate
    PROVE  /\ handler.batch.copies[handler.next] \in Copies
           /\ IdOf[handler.batch.copies[handler.next]] \in Events
           /\ handler.next <= Len(handler.batch.copies)
<1>1. handler.next \in Nat \ {0} /\ handler.batch \in Batch \cup {NoBatch}
  BY HandlerType DEF HandlerSet
<1>2. handler.next <= Len(handler.batch.copies) /\ handler.next >= 1
  BY <1>1, Lists DEF Validate, Validated
<1>3. handler.next \in DOMAIN handler.batch.copies
  BY <1>1, <1>2, Lists
<1> QED  BY <1>1, <1>2, <1>3, Lists

LEMMA NextTypeOK == TypeOK /\ [Next]_vars => TypeOK'
<1> SUFFICES ASSUME TypeOK, [Next]_vars
             PROVE  TypeOK'
  OBVIOUS
<1> USE BoundsAssumption
<1>1. CASE Compose
  <2>1. PICK s \in Arrangements :
           LET b == [id |-> lastId + 1, copies |-> s]
           IN  /\ current' = b
               /\ requests' = requests \cup {[batch |-> b, open |-> TRUE]}
               /\ sent' = [sent EXCEPT ![lastId + 1] = s]
    BY <1>1 DEF Compose
  <2> DEFINE b == [id |-> lastId + 1, copies |-> s]
  <2>2. lastId + 1 \in BatchIds
    BY <1>1 DEF Compose, TypeOK, BatchIds
  <2>3. b \in Batch
    BY <2>2 DEF Batch
  <2>4. requests' \subseteq Request /\ current' \in Batch \cup {NoBatch}
    <3>1. [batch |-> b, open |-> TRUE] \in Request
      BY <2>3 DEF Request
    <3> QED  BY <2>1, <2>3, <3>1 DEF TypeOK
  <2>5. lastId' \in 0..MaxBatches /\ waiting' \in BOOLEAN
    BY <1>1, <2>2 DEF Compose, BatchIds
  <2>6. sent' \in [BatchIds -> Arrangements \cup {<<>>}]
    BY <2>1 DEF TypeOK
  <2> QED  BY <1>1, <2>4, <2>5, <2>6 DEF Compose, TypeOK, dbVars
<1>2. CASE Resend
  <2>1. current \in Batch
    BY <1>2 DEF Resend, TypeOK, NoBatch
  <2>2. requests' \subseteq Request
    <3>1. [batch |-> current, open |-> TRUE] \in Request
      BY <2>1 DEF Request
    <3> QED  BY <1>2, <3>1 DEF Resend, TypeOK
  <2> QED  BY <1>2, <2>2 DEF Resend, TypeOK, dbVars, histVars
<1>3. CASE ReceiveAck
  <2>1. outbox' \in [Events -> {"pending", "uploaded", "dead"}]
    BY <1>3 DEF ReceiveAck, TypeOK
  <2>2. tries' \in [Events -> 0..MaxAttempts]
    BY <1>3 DEF ReceiveAck, TypeOK
  <2>3. /\ replies' = {} /\ waiting' = FALSE /\ current' = NoBatch
        /\ UNCHANGED <<lastId, requests, handler, dbVars, age, faults, histVars>>
    BY <1>3 DEF ReceiveAck
  <2> QED  BY <2>1, <2>2, <2>3 DEF TypeOK, dbVars, histVars
<1>4. CASE Disconnect
  <2>1. requests' \subseteq Request
    <3>1. ASSUME NEW r \in requests PROVE [r EXCEPT !.open = FALSE] \in Request
      BY <3>1 DEF TypeOK, Request
    <3> QED  BY <1>4, <3>1 DEF Disconnect
  <2>2. handler' \in HandlerSet
    BY <1>4, HandlerType DEF Disconnect, HandlerSet
  <2>4. faults' \in 0..MaxFaults
    BY <1>4 DEF Disconnect, TypeOK
  <2>3. /\ replies' = {} /\ waiting' = FALSE
        /\ UNCHANGED <<outbox, tries, current, lastId, dbVars, age, histVars>>
    BY <1>4 DEF Disconnect
  <2> QED  BY <2>1, <2>2, <2>3, <2>4 DEF TypeOK, HandlerSet, dbVars, histVars
<1>5. CASE LoseRequest
  BY <1>5 DEF LoseRequest, TypeOK, phoneVars, dbVars, histVars
<1>6. CASE Refuse
  BY <1>6 DEF Refuse, TypeOK, dbVars, histVars
<1>7. CASE TakeUp
  <2>1. PICK r \in requests : /\ requests' = requests \ {r}
                              /\ handler' = [Idle EXCEPT !.phase = "validate",
                                    !.batch = r.batch, !.open = r.open]
    BY <1>7 DEF TakeUp
  <2>2. r.batch \in Batch /\ r.open \in BOOLEAN
    BY DEF TypeOK, Request
  <2>3. handler' \in HandlerSet
    <3>1. Idle \in HandlerSet /\ "validate" \in Phases
      BY DEF HandlerSet, Idle, Phases
    <3> QED  BY <2>1, <2>2, <3>1 DEF HandlerSet
  <2> QED  BY <1>7, <2>1, <2>3 DEF TakeUp, TypeOK, HandlerSet, phoneVars, dbVars, histVars
<1>8. CASE Validate
  <2> DEFINE c == handler.batch.copies[handler.next]
  <2>1. c \in Copies /\ IdOf[c] \in Events
    BY <1>8, ValidatedCopy
  <2>2. handler' \in HandlerSet
    <3>1. \/ handler' = [handler EXCEPT !.next = @ + 1, !.rejects = @ + 1,
                                        !.rejected = @ \cup {IdOf[c]}]
          \/ handler' = [handler EXCEPT !.next = @ + 1, !.repeats = @ + 1,
                                        !.duplicate = @ \cup {IdOf[c]}]
          \/ handler' = [handler EXCEPT !.next = @ + 1, !.toStore = @ \cup {c}]
      BY <1>8 DEF Validate
    <3> HIDE DEF c
    <3>2. handler.next + 1 \in Nat \ {0} /\ handler.rejects + 1 \in Nat
          /\ handler.repeats + 1 \in Nat
      BY HandlerType DEF HandlerSet
    <3>3. CASE handler' = [handler EXCEPT !.next = @ + 1, !.rejects = @ + 1,
                                         !.rejected = @ \cup {IdOf[c]}]
      BY <2>1, <3>2, <3>3, HandlerType DEF HandlerSet
    <3>4. CASE handler' = [handler EXCEPT !.next = @ + 1, !.repeats = @ + 1,
                                         !.duplicate = @ \cup {IdOf[c]}]
      BY <2>1, <3>2, <3>4, HandlerType DEF HandlerSet
    <3>5. CASE handler' = [handler EXCEPT !.next = @ + 1, !.toStore = @ \cup {c}]
      BY <2>1, <3>2, <3>5, HandlerType DEF HandlerSet
    <3> QED  BY <3>1, <3>3, <3>4, <3>5
  <2> QED  BY <1>8, <2>2
           DEF Validate, TypeOK, HandlerSet, phoneVars, netVars, dbVars, histVars
<1>8a. CASE StoreEvents
  <2> DEFINE fresh == {c \in handler.toStore : IdOf[c] \notin Held}
  <2>1. handler.batch.id \in 0..MaxBatches
    BY DEF TypeOK, Batch, NoBatch, BatchIds
  <2>2. first' \in [Events -> 0..MaxBatches]
    BY <2>1, <1>8a DEF StoreEvents, TypeOK
  <2>3. fresh \in SUBSET Copies /\ Ids(handler.toStore \ fresh) \in SUBSET Events
    <3>1. fresh \in SUBSET Copies /\ handler.toStore \ fresh \in SUBSET Copies
      BY HandlerType DEF HandlerSet
    <3> QED  BY <3>1, IdsOfCopies
  <2>4. /\ kept' = kept \cup fresh
        /\ handler' = [handler EXCEPT !.phase = "project", !.stored = fresh,
                         !.duplicate = @ \cup Ids(handler.toStore \ fresh),
                         !.beats = fresh \cap Heartbeats]
    BY <1>8a DEF StoreEvents
  <2> HIDE DEF fresh
  <2>5. handler' \in HandlerSet
    BY <2>3, <2>4, HandlerType DEF HandlerSet, Phases
  <2> QED  BY <2>2, <2>3, <2>4, <2>5, <1>8a
           DEF StoreEvents, TypeOK, HandlerSet, phoneVars, netVars, histVars
<1>9. CASE RecordHeartbeat
  <2>1. PICK c \in handler.beats : /\ projected' = projected \cup {IdOf[c]}
                                   /\ handler' = [handler EXCEPT !.beats = @ \ {c}]
    BY <1>9 DEF RecordHeartbeat
  <2>2. handler' \in HandlerSet
    BY <2>1, HandlerType DEF HandlerSet
  <2>3. projected' \subseteq Events
    <3>1. c \in Copies
      BY HandlerType DEF HandlerSet
    <3> QED  BY <2>1, <3>1, EventsAssumption DEF TypeOK
  <2> QED  BY <1>9, <2>2, <2>3
           DEF RecordHeartbeat, TypeOK, HandlerSet, phoneVars, netVars, histVars
<1>10. CASE RecordBatch
  <2>1. batches' \in [BatchIds -> [known : BOOLEAN, counts : Counts, replays : Nat]]
    <3> DEFINE b == handler.batch.id
               row == IF batches[b].known
                      THEN [batches[b] EXCEPT !.replays = batches[b].replays + 1]
                      ELSE [known |-> TRUE, counts |-> HandlerCounts, replays |-> 0]
    <3>1. batches' = [batches EXCEPT ![b] = row]
      BY <1>10 DEF RecordBatch
    <3>2. ASSUME b \in BatchIds
          PROVE  row \in [known : BOOLEAN, counts : Counts, replays : Nat]
      <4>1. batches[b] \in [known : BOOLEAN, counts : Counts, replays : Nat]
        BY <3>2 DEF TypeOK
      <4>2. [batches[b] EXCEPT !.replays = batches[b].replays + 1]
               \in [known : BOOLEAN, counts : Counts, replays : Nat]
        BY <4>1
      <4>3. [known |-> TRUE, counts |-> HandlerCounts, replays |-> 0]
               \in [known : BOOLEAN, counts : Counts, replays : Nat]
        BY CountsType
      <4> QED  BY <4>2, <4>3
    <3> QED  BY <3>1, <3>2 DEF TypeOK
  <2> QED  BY <2>1, <1>10 DEF RecordBatch, TypeOK, phoneVars, netVars, histVars, Phases
<1>11. CASE RecordAcknowledgements
  <2>1. verdicts' \in [BatchIds -> [Events -> {"none", "stored", "duplicate", "rejected"}]]
    <3> DEFINE row == [e \in Events |->
                         CASE e \in handler.rejected  -> "rejected"
                           [] e \in handler.duplicate \ handler.rejected -> "duplicate"
                           [] e \in Ids(handler.stored)
                                  \ (handler.duplicate \cup handler.rejected) -> "stored"
                           [] OTHER -> verdicts[handler.batch.id][e]]
    <3>1. handler.batch.id \in BatchIds =>
             row \in [Events -> {"none", "stored", "duplicate", "rejected"}]
      BY DEF TypeOK
    <3>2. verdicts' = [verdicts EXCEPT ![handler.batch.id] = row]
      BY <1>11 DEF RecordAcknowledgements
    <3> QED  BY <3>1, <3>2 DEF TypeOK
  <2> QED  BY <2>1, <1>11 DEF RecordAcknowledgements, TypeOK, phoneVars, netVars, histVars, Phases
<1>12. CASE TouchDevice
  BY <1>12 DEF TouchDevice, TypeOK, phoneVars, netVars, histVars, Phases
<1>13. CASE Respond
  <2>1. [ack |-> BuildAcknowledgement, rows |-> handler.stored]
           \in [ack : Ack, rows : SUBSET Copies]
    BY AckType, HandlerType DEF HandlerSet
  <2>2. issued' \in [BatchIds -> SUBSET [ack : Ack, rows : SUBSET Copies]]
    BY <1>13, <2>1 DEF Respond, TypeOK
  <2> QED  BY <1>13, <2>2, AckType DEF Respond, TypeOK, phoneVars, dbVars, Idle, Phases
<1>14. CASE TransactionFails
  BY <1>14 DEF TransactionFails, TypeOK, netVars, dbVars, histVars, Idle, Phases
<1>15. CASE Crash
  <2>1. /\ requests' = {} /\ replies' = {} /\ waiting' = FALSE
        /\ handler' = Idle /\ faults' = faults + 1 /\ faults < MaxFaults
        /\ UNCHANGED <<outbox, tries, current, lastId, dbVars, age, histVars>>
    BY <1>15 DEF Crash
  <2>2. requests' \subseteq Request /\ replies' \subseteq Ack
    BY <2>1
  <2>3. handler' \in HandlerSet
    BY <2>1 DEF Idle, Phases, HandlerSet
  <2>4. faults' \in 0..MaxFaults
    BY <2>1 DEF TypeOK
  <2> QED  BY <2>1, <2>2, <2>3, <2>4 DEF TypeOK, HandlerSet, dbVars, histVars
<1>16. CASE ApplyRetention
  BY <1>16 DEF ApplyRetention, TypeOK, phoneVars, netVars, Held, Outdated
<1>17. CASE Tick
  BY <1>17 DEF Tick, TypeOK, phoneVars, netVars, dbVars, histVars
<1>18. CASE UNCHANGED vars
  BY <1>18 DEF vars, TypeOK, phoneVars, netVars, dbVars, histVars
<1> QED
  BY <1>1, <1>2, <1>3, <1>4, <1>5, <1>6, <1>7, <1>8, <1>8a, <1>9, <1>10, <1>11, <1>12,
     <1>13, <1>14, <1>15, <1>16, <1>17, <1>18
     DEF Next, Phone, Network, Server, IngestBatch, Failure, Done

\* Every state of the model is well typed.
THEOREM TypeCorrect == Spec => []TypeOK
BY InitTypeOK, NextTypeOK, PTL DEF Spec
-----------------------------------------------------------------------------
(* What the steps change. *)

\* The phone and the network, once a request is there: the handler can at most
\* lose the connection.
Outside ==
    Compose \/ Resend \/ ReceiveAck \/ Disconnect \/ LoseRequest \/ Refuse \/ UNCHANGED vars
Abort == TransactionFails \/ Crash

LEMMA Steps ==
    ASSUME [Next]_vars
    PROVE  \/ Outside \/ Abort \/ TakeUp \/ Validate \/ StoreEvents \/ RecordHeartbeat
           \/ RecordBatch \/ RecordAcknowledgements \/ TouchDevice \/ Respond
           \/ ApplyRetention \/ Tick
BY DEF Next, Phone, Network, Server, IngestBatch, Failure, Done, Outside, Abort

\* The fields of the handler that the properties are about are unchanged.
SameWork ==
    /\ handler'.phase = handler.phase /\ handler'.batch = handler.batch
    /\ handler'.next = handler.next /\ handler'.rejected = handler.rejected
    /\ handler'.rejects = handler.rejects /\ handler'.toStore = handler.toStore
    /\ handler'.repeats = handler.repeats /\ handler'.stored = handler.stored
    /\ handler'.duplicate = handler.duplicate /\ handler'.beats = handler.beats
    /\ handler = Idle => handler' = Idle

LEMMA OutsideFrame ==
    ASSUME TypeOK, Outside
    PROVE  SameWork /\ UNCHANGED <<dbVars, age, retired, issued>>
<1>1. handler' = handler \/ handler' = [handler EXCEPT !.open = FALSE]
  BY DEF Outside, Compose, Resend, ReceiveAck, Disconnect, LoseRequest, Refuse, vars
<1>2. UNCHANGED <<dbVars, age, retired, issued>>
  BY DEF Outside, Compose, Resend, ReceiveAck, Disconnect, LoseRequest, Refuse, vars,
         histVars
<1>3. SameWork
  BY <1>1, HandlerType DEF SameWork, HandlerSet, Idle
<1> QED  BY <1>2, <1>3

LEMMA AbortFrame ==
    ASSUME Abort
    PROVE  handler' = Idle /\ UNCHANGED <<dbVars, age, histVars>>
BY DEF Abort, TransactionFails, Crash

LEMMA TakeUpFrame ==
    ASSUME TypeOK, TakeUp
    PROVE  /\ UNCHANGED <<phoneVars, replies, dbVars, age, histVars>>
           /\ \E r \in requests : handler'.batch = r.batch /\ r.batch \in Batch
           /\ handler.phase = "idle" /\ handler'.phase = "validate" /\ handler'.next = 1
           /\ handler'.rejected = {} /\ handler'.rejects = 0 /\ handler'.toStore = {}
           /\ handler'.repeats = 0 /\ handler'.stored = {} /\ handler'.duplicate = {}
           /\ handler'.beats = {} /\ requests' \subseteq requests
BY DEF TakeUp, TypeOK, Request, Idle

LEMMA ValidateFrame ==
    ASSUME TypeOK, Validate, NEW c, c = handler.batch.copies[handler.next]
    PROVE  /\ UNCHANGED <<phoneVars, netVars, dbVars, age, histVars>>
           /\ handler.phase = "validate" /\ handler'.phase = "validate"
           /\ handler'.batch = handler.batch /\ handler'.next = handler.next + 1
           /\ handler'.stored = handler.stored /\ handler'.beats = handler.beats
           /\ \/ /\ Rejects(c)
                 /\ handler'.rejected = handler.rejected \cup {IdOf[c]}
                 /\ handler'.rejects = handler.rejects + 1
                 /\ handler'.toStore = handler.toStore
                 /\ handler'.repeats = handler.repeats
                 /\ handler'.duplicate = handler.duplicate
              \/ /\ ~Rejects(c) /\ IdOf[c] \in Ids(handler.toStore)
                 /\ handler'.rejected = handler.rejected
                 /\ handler'.rejects = handler.rejects
                 /\ handler'.toStore = handler.toStore
                 /\ handler'.repeats = handler.repeats + 1
                 /\ handler'.duplicate = handler.duplicate \cup {IdOf[c]}
              \/ /\ ~Rejects(c) /\ IdOf[c] \notin Ids(handler.toStore)
                 /\ handler'.rejected = handler.rejected
                 /\ handler'.rejects = handler.rejects
                 /\ handler'.toStore = handler.toStore \cup {c}
                 /\ handler'.repeats = handler.repeats
                 /\ handler'.duplicate = handler.duplicate
<1>1. /\ UNCHANGED <<phoneVars, netVars, dbVars, age, histVars>>
      /\ handler.phase = "validate"
  BY DEF Validate
<1>2. \/ /\ Rejects(c)
         /\ handler' = [handler EXCEPT !.next = @ + 1, !.rejects = @ + 1,
                                       !.rejected = @ \cup {IdOf[c]}]
      \/ /\ ~Rejects(c) /\ IdOf[c] \in Ids(handler.toStore)
         /\ handler' = [handler EXCEPT !.next = @ + 1, !.repeats = @ + 1,
                                       !.duplicate = @ \cup {IdOf[c]}]
      \/ /\ ~Rejects(c) /\ IdOf[c] \notin Ids(handler.toStore)
         /\ handler' = [handler EXCEPT !.next = @ + 1, !.toStore = @ \cup {c}]
  BY DEF Validate
<1>3. handler \in HandlerSet
  BY HandlerType
<1>4. CASE /\ Rejects(c)
           /\ handler' = [handler EXCEPT !.next = @ + 1, !.rejects = @ + 1,
                                         !.rejected = @ \cup {IdOf[c]}]
  BY <1>1, <1>3, <1>4 DEF HandlerSet
<1>5. CASE /\ ~Rejects(c) /\ IdOf[c] \in Ids(handler.toStore)
           /\ handler' = [handler EXCEPT !.next = @ + 1, !.repeats = @ + 1,
                                         !.duplicate = @ \cup {IdOf[c]}]
  BY <1>1, <1>3, <1>5 DEF HandlerSet
<1>6. CASE /\ ~Rejects(c) /\ IdOf[c] \notin Ids(handler.toStore)
           /\ handler' = [handler EXCEPT !.next = @ + 1, !.toStore = @ \cup {c}]
  BY <1>1, <1>3, <1>6 DEF HandlerSet
<1> QED  BY <1>2, <1>4, <1>5, <1>6

LEMMA StoreFrame ==
    ASSUME TypeOK, StoreEvents,
           NEW fresh, fresh = {c \in handler.toStore : IdOf[c] \notin Held}
    PROVE  /\ UNCHANGED <<phoneVars, netVars, projected, batches, verdicts, age, histVars>>
           /\ first' = [e \in Events |-> IF e \in Ids(fresh) THEN handler.batch.id
                                         ELSE first[e]]
           /\ Validated /\ handler'.phase = "project"
           /\ handler'.batch = handler.batch /\ handler'.next = handler.next
           /\ handler'.rejected = handler.rejected /\ handler'.rejects = handler.rejects
           /\ handler'.toStore = handler.toStore /\ handler'.repeats = handler.repeats
           /\ handler'.stored = fresh /\ handler'.beats = fresh \cap Heartbeats
           /\ handler'.duplicate = handler.duplicate \cup Ids(handler.toStore \ fresh)
<1>1. /\ UNCHANGED <<phoneVars, netVars, projected, batches, verdicts, age, histVars>>
      /\ Validated
      /\ first' = [e \in Events |-> IF e \in Ids(fresh) THEN handler.batch.id ELSE first[e]]
      /\ handler' = [handler EXCEPT !.phase = "project", !.stored = fresh,
                       !.duplicate = @ \cup Ids(handler.toStore \ fresh),
                       !.beats = fresh \cap Heartbeats]
  BY DEF StoreEvents
<1> QED  BY <1>1, HandlerType DEF HandlerSet

\* The statements of ingest_batch after store_events.
Later == RecordHeartbeat \/ RecordBatch \/ RecordAcknowledgements \/ TouchDevice

LEMMA LaterFrame ==
    ASSUME TypeOK, Later
    PROVE  /\ UNCHANGED <<phoneVars, netVars, first, kept, age, histVars>>
           /\ handler.phase \in {"project", "verdicts", "touch"}
           /\ handler'.phase \in {"project", "verdicts", "touch", "respond"}
           /\ handler'.batch = handler.batch /\ handler'.next = handler.next
           /\ handler'.rejected = handler.rejected /\ handler'.rejects = handler.rejects
           /\ handler'.toStore = handler.toStore /\ handler'.repeats = handler.repeats
           /\ handler'.stored = handler.stored /\ handler'.duplicate = handler.duplicate
           /\ handler'.beats \subseteq handler.beats
           /\ projected \subseteq projected'
           /\ ~RecordAcknowledgements => verdicts' = verdicts
           /\ handler'.phase \in {"touch", "respond"} =>
                 RecordAcknowledgements \/ handler.phase = "touch"
<1>1. handler \in HandlerSet
  BY HandlerType
<1>2. CASE RecordHeartbeat
  BY <1>1, <1>2 DEF RecordHeartbeat, HandlerSet
<1>3. CASE RecordBatch
  BY <1>1, <1>3 DEF RecordBatch, HandlerSet
<1>4. CASE RecordAcknowledgements
  BY <1>1, <1>4 DEF RecordAcknowledgements, HandlerSet
<1>5. CASE TouchDevice
  BY <1>1, <1>5 DEF TouchDevice, HandlerSet
<1> QED  BY <1>2, <1>3, <1>4, <1>5 DEF Later

-----------------------------------------------------------------------------
(* The inductive invariant: what each step does to each of its parts. *)

LEMMA InitIndInv == Init => IndInv
<1> SUFFICES ASSUME Init PROVE IndInv
  OBVIOUS
<1>1. /\ handler = Idle /\ current = NoBatch /\ requests = {} /\ replies = {}
      /\ handler.batch = NoBatch /\ handler.batch.copies = <<>> /\ handler.next = 1
      /\ handler.rejected = {} /\ handler.toStore = {} /\ handler.stored = {}
      /\ handler.phase = "idle" /\ handler.beats = {} /\ handler.duplicate = {}
  BY DEF Init, Idle, NoBatch
<1>2. \A b \in BatchIds : issued[b] = {} /\ \A e \in Events : verdicts[b][e] = "none"
  BY DEF Init
<1>3. Promised = {} /\ Confirmed = {}
  BY <1>2 DEF Init, Promised, Confirmed
<1>4. Seen = {}
  BY <1>1 DEF Seen
<1>5. LoopInv
  BY <1>1, <1>4 DEF LoopInv, Ids
<1>6. BatchInv /\ HandlerInv /\ VerdictInv /\ PromiseInv
  BY <1>1, <1>2, <1>3 DEF BatchInv, HandlerInv, VerdictInv, PromiseInv
<1>7. StoredVerdictOwnsRow /\ AcceptanceStands /\ StoredHeartbeatsProjected
  BY <1>2 DEF StoredVerdictOwnsRow, AcceptanceStands, StoredHeartbeatsProjected
<1> QED  BY <1>5, <1>6, <1>7 DEF IndInv

\* What a batch in use lists never changes.
LEMMA SentFrame ==
    ASSUME TypeOK, [Next]_vars
    PROVE  /\ lastId \in Nat /\ lastId' \in Nat /\ lastId <= lastId'
           /\ ~Compose => UNCHANGED <<sent, lastId>>
           /\ Compose => lastId' = lastId + 1 /\ lastId' \in BatchIds
           /\ \A b \in BatchIds : b <= lastId => sent'[b] = sent[b]
<1>1. lastId \in Nat
  BY DEF TypeOK
<1>2. CASE Compose
  <2>1. lastId' = lastId + 1 /\ lastId' \in BatchIds
    BY <1>1, <1>2, BoundsAssumption DEF Compose, BatchIds
  <2>2. PICK s \in Arrangements : sent' = [sent EXCEPT ![lastId + 1] = s]
    BY <1>2 DEF Compose
  <2>3. \A b \in BatchIds : b <= lastId => sent'[b] = sent[b]
    <3>1. \A b \in BatchIds : b <= lastId => b # lastId + 1
      BY <1>1 DEF BatchIds
    <3> QED  BY <2>2, <3>1 DEF TypeOK
  <2> QED  BY <1>1, <1>2, <2>1, <2>3
<1>3. CASE ~Compose
  <2>1. UNCHANGED <<sent, lastId>>
    BY <1>3
    DEF Next, Phone, Network, Server, IngestBatch, Failure, Done, Resend, ReceiveAck,
        Disconnect, LoseRequest, TakeUp, Validate, StoreEvents, RecordHeartbeat,
        RecordBatch, RecordAcknowledgements, TouchDevice, Respond, Refuse,
        TransactionFails, Crash, ApplyRetention, Tick, vars, phoneVars, histVars
  <2> QED  BY <1>1, <1>3, <2>1
<1> QED  BY <1>2, <1>3

\* Acknowledgements are only added, by Respond and for the batch it handled.
LEMMA IssuedFrame ==
    ASSUME TypeOK, HandlerInv, [Next]_vars
    PROVE  /\ ~Respond => issued' = issued
           /\ Respond => /\ handler.batch.id \in BatchIds
                         /\ \A b \in BatchIds : issued'[b] =
                              IF b = handler.batch.id
                              THEN issued[b] \cup {[ack |-> BuildAcknowledgement,
                                                    rows |-> handler.stored]}
                              ELSE issued[b]
<1>1. ASSUME ~Respond
      PROVE  issued' = issued
  BY <1>1
  DEF Next, Phone, Network, Server, IngestBatch, Failure, Done, Compose, Resend, ReceiveAck,
      Disconnect, LoseRequest, TakeUp, Validate, StoreEvents, RecordHeartbeat,
      RecordBatch, RecordAcknowledgements, TouchDevice, Refuse,
      TransactionFails, Crash, ApplyRetention, Tick, vars, histVars
<1>2. ASSUME Respond
      PROVE  handler.batch.id \in BatchIds
  BY <1>2 DEF Respond, HandlerInv, Batch
<1>3. ASSUME Respond
      PROVE  \A b \in BatchIds : issued'[b] =
                IF b = handler.batch.id
                THEN issued[b] \cup {[ack |-> BuildAcknowledgement, rows |-> handler.stored]}
                ELSE issued[b]
  BY <1>2, <1>3 DEF Respond, TypeOK
<1> QED  BY <1>1, <1>2, <1>3

\* The batches in use: the phone's, the handler's and those in requests.
InUse == {current, handler.batch} \cup {r.batch : r \in requests}

\* A step brings no batch into use, but for the one Compose has just listed.
LEMMA InUseFrame ==
    ASSUME TypeOK, [Next]_vars, NEW b \in InUse'
    PROVE  \/ b \in InUse \cup {NoBatch}
           \/ Compose /\ b.id = lastId' /\ b.copies = sent'[b.id]
<1>1. CASE Compose
  <2>1. PICK s \in Arrangements :
           /\ current' = [id |-> lastId + 1, copies |-> s]
           /\ requests' = requests \cup
                 {[batch |-> [id |-> lastId + 1, copies |-> s], open |-> TRUE]}
           /\ sent' = [sent EXCEPT ![lastId + 1] = s]
    BY <1>1 DEF Compose
  <2> DEFINE new == [id |-> lastId + 1, copies |-> s]
  <2>2. handler' = handler
    BY <1>1 DEF Compose
  <2>3. b \in InUse \cup {new}
    BY <2>1, <2>2 DEF InUse
  <2>4. lastId' = lastId + 1 /\ lastId + 1 \in BatchIds
    BY <1>1, SentFrame DEF Compose
  <2>5. new.id = lastId' /\ new.copies = sent'[new.id]
    BY <2>1, <2>4 DEF TypeOK
  <2> QED  BY <1>1, <2>3, <2>5
<1>2. CASE Resend
  BY <1>2 DEF Resend, InUse
<1>3. CASE ReceiveAck \/ LoseRequest \/ Refuse \/ UNCHANGED vars
  BY <1>3 DEF ReceiveAck, LoseRequest, Refuse, vars, phoneVars, netVars, InUse
<1>4. CASE Disconnect
  <2>1. handler'.batch = handler.batch /\ current' = current
    BY <1>4, OutsideFrame DEF Outside, SameWork, Disconnect
  <2>2. \A q \in requests' : \E r \in requests : q.batch = r.batch
    <3>1. requests' = {[r EXCEPT !.open = FALSE] : r \in requests}
      BY <1>4 DEF Disconnect
    <3>2. \A r \in requests : [r EXCEPT !.open = FALSE].batch = r.batch
      BY DEF TypeOK, Request
    <3> QED  BY <3>1, <3>2
  <2> QED  BY <2>1, <2>2 DEF InUse
<1>5. CASE TakeUp
  <2>1. /\ \E r \in requests : handler'.batch = r.batch
        /\ requests' \subseteq requests /\ current' = current
    BY <1>5, TakeUpFrame DEF phoneVars
  <2> QED  BY <2>1 DEF InUse
<1>6. CASE Validate \/ StoreEvents \/ Later
  <2>1. handler'.batch = handler.batch /\ UNCHANGED <<phoneVars, netVars>>
    BY <1>6, ValidateFrame, StoreFrame, LaterFrame
  <2> QED  BY <2>1 DEF InUse, phoneVars, netVars
<1>7. CASE Respond \/ Abort
  <2>1. handler' = Idle /\ current' = current /\ requests' \subseteq requests
    BY <1>7 DEF Respond, Abort, TransactionFails, Crash, phoneVars, netVars
  <2> QED  BY <2>1 DEF InUse, Idle
<1>8. CASE ApplyRetention \/ Tick
  BY <1>8 DEF ApplyRetention, Tick, phoneVars, netVars, InUse
<1> QED
  BY <1>1, <1>2, <1>3, <1>4, <1>5, <1>6, <1>7, <1>8, Steps DEF Outside, Later

LEMMA BatchStep ==
    ASSUME TypeOK, BatchInv, HandlerInv, [Next]_vars
    PROVE  BatchInv'
<1>1. ASSUME NEW b \in InUse'
      PROVE  b = NoBatch \/ (b.id \in 1..lastId' /\ b.copies = sent'[b.id])
  <2>1. CASE b \in InUse
    <3>1. b = NoBatch \/ (b.id \in 1..lastId /\ b.copies = sent[b.id])
      BY <2>1 DEF BatchInv, InUse
    <3>2. lastId \in 0..MaxBatches
      BY DEF TypeOK
    <3> QED  BY <3>1, <3>2, SentFrame, BoundsAssumption DEF BatchIds
  <2>2. CASE Compose /\ b.id = lastId' /\ b.copies = sent'[b.id]
    BY <2>2, SentFrame DEF BatchIds
  <2> QED  BY <1>1, <2>1, <2>2, InUseFrame
<1>2. ASSUME NEW b \in BatchIds, issued'[b] # {}
      PROVE  b <= lastId'
  <2>1. b <= lastId
    <3>1. CASE Respond /\ b = handler.batch.id
      <4>1. handler.batch # NoBatch
        BY <3>1, IssuedFrame DEF NoBatch, BatchIds
      <4> QED  BY <3>1, <4>1 DEF BatchInv
    <3>2. CASE issued'[b] = issued[b]
      BY <1>2, <3>2 DEF BatchInv
    <3> QED  BY <3>1, <3>2, IssuedFrame
  <2> QED  BY <2>1, SentFrame DEF BatchIds
<1> QED  BY <1>1, <1>2 DEF BatchInv, InUse

\* What is promised grows by what the handler accepted, when it responds.
LEMMA PromisedFrame ==
    ASSUME TypeOK, HandlerInv, [Next]_vars
    PROVE  /\ ~Respond => Promised' = Promised
           /\ Respond => Promised' = Promised \cup (Ids(handler.stored) \cup handler.duplicate)
<1>1. ASSUME ~Respond
      PROVE  Promised' = Promised
  BY <1>1, IssuedFrame DEF Promised, Accepted
<1>2. ASSUME Respond
      PROVE  Promised' = Promised \cup (Ids(handler.stored) \cup handler.duplicate)
  <2> DEFINE new == [ack |-> BuildAcknowledgement, rows |-> handler.stored]
             id == handler.batch.id
             S == Ids(handler.stored) \cup handler.duplicate
  <2>1. Accepted(new.ack) = S
    BY DEF Accepted, BuildAcknowledgement
  <2>2. S \subseteq Events
    BY IdsOfCopies DEF TypeOK
  <2>3. /\ id \in BatchIds
        /\ \A b \in BatchIds : issued'[b] = IF b = id THEN issued[b] \cup {new} ELSE issued[b]
    BY <1>2, IssuedFrame
  <2> HIDE DEF new, id, S
  <2>4. Promised' = {e \in Events : \E b \in BatchIds : \E i \in issued'[b] : e \in Accepted(i.ack)}
    BY DEF Promised, Accepted
  <2>5. \A e \in Promised' : e \in Promised \cup S
    <3> SUFFICES ASSUME NEW e \in Events, NEW b \in BatchIds, NEW i \in issued'[b],
                        e \in Accepted(i.ack)
                 PROVE  e \in Promised \cup S
      BY <2>4
    <3>1. CASE i \in issued[b]
      BY <3>1 DEF Promised
    <3>2. CASE i = new
      BY <2>1, <3>2
    <3> QED  BY <2>3, <3>1, <3>2
  <2>6. \A e \in Promised \cup S : e \in Promised'
    <3>1. ASSUME NEW e \in Events, NEW b \in BatchIds, NEW i \in issued[b],
                 e \in Accepted(i.ack)
          PROVE  e \in Promised'
      BY <2>3, <2>4, <3>1
    <3>2. ASSUME NEW e \in S
          PROVE  e \in Promised'
      <4>1. new \in issued'[id]
        BY <2>3
      <4> QED  BY <2>1, <2>2, <2>3, <2>4, <4>1, <3>2
    <3> QED  BY <3>1, <3>2 DEF Promised
  <2> QED  BY <2>5, <2>6 DEF S
<1> QED  BY <1>1, <1>2

\* Rows are only added by StoreEvents and only removed by ApplyRetention.
LEMMA RowsFrame ==
    ASSUME TypeOK, HandlerInv, [Next]_vars
    PROVE  /\ ~StoreEvents /\ ~ApplyRetention => UNCHANGED <<first, retired>>
           /\ StoreEvents => /\ retired' = retired
                             /\ \A e \in Held : first'[e] = first[e] /\ e \in Held'
           /\ ApplyRetention => /\ retired' = retired \cup Outdated
                                /\ Held' = Held \ Outdated
                                /\ \A e \in Held' : first'[e] = first[e]
           /\ \A e \in Events : e \in Held \/ e \in Held' \/ first'[e] = first[e]
<1>1. CASE StoreEvents
  <2> DEFINE fresh == {c \in handler.toStore : IdOf[c] \notin Held}
  <2>1. /\ first' = [e \in Events |-> IF e \in Ids(fresh) THEN handler.batch.id ELSE first[e]]
        /\ retired' = retired /\ handler.phase = "validate"
    BY <1>1, StoreFrame DEF histVars, Validated
  <2>2. Ids(fresh) \cap Held = {}
    BY DEF Ids
  <2>3. \A e \in Held : first'[e] = first[e] /\ e \in Held'
    BY <2>1, <2>2 DEF Held
  <2>4. \A e \in Events : e \in Held' \/ first'[e] = first[e]
    <3>1. handler.batch.id # 0
      BY <2>1 DEF HandlerInv, Batch, BatchIds
    <3> QED  BY <2>1, <3>1 DEF Held
  <2>5. ~ApplyRetention
    BY <2>1 DEF ApplyRetention
  <2> QED  BY <1>1, <2>1, <2>3, <2>4, <2>5
<1>2. CASE ApplyRetention
  <2>1. /\ first' = [e \in Events |-> IF e \in Outdated THEN 0 ELSE first[e]]
        /\ retired' = retired \cup Outdated /\ handler.phase = "idle"
    BY <1>2 DEF ApplyRetention
  <2>2. ~StoreEvents
    BY <2>1 DEF StoreEvents, Validated
  <2>3. Held' = Held \ Outdated /\ \A e \in Held' : first'[e] = first[e]
    BY <2>1 DEF Held
  <2>4. \A e \in Events : e \in Held \/ first'[e] = first[e]
    BY <2>1 DEF Outdated
  <2> QED  BY <1>2, <2>1, <2>2, <2>3, <2>4
<1>3. CASE UNCHANGED <<first, retired>> /\ ~StoreEvents /\ ~ApplyRetention
  BY <1>3
<1>4. Outside \/ Abort \/ TakeUp \/ Validate \/ Later \/ Respond \/ Tick
         => UNCHANGED <<first, retired>>
  <2>1. Outside => UNCHANGED <<first, retired>>
    BY OutsideFrame DEF dbVars
  <2>2. Abort => UNCHANGED <<first, retired>>
    BY AbortFrame DEF dbVars, histVars
  <2>3. TakeUp => UNCHANGED <<first, retired>>
    BY TakeUpFrame DEF dbVars, histVars
  <2>4. Validate => UNCHANGED <<first, retired>>
    BY ValidateFrame DEF dbVars, histVars
  <2>5. Later => UNCHANGED <<first, retired>>
    BY LaterFrame DEF histVars
  <2>6. Respond \/ Tick => UNCHANGED <<first, retired>>
    BY DEF Respond, Tick, dbVars, histVars
  <2> QED  BY <2>1, <2>2, <2>3, <2>4, <2>5, <2>6
<1> QED  BY <1>1, <1>2, <1>3, <1>4, Steps DEF Later

LEMMA PromiseStep ==
    ASSUME TypeOK, HandlerInv, PromiseInv, [Next]_vars
    PROVE  PromiseInv'
<1>1. Promised \subseteq Promised'
  BY PromisedFrame
<1>2. Promised' \subseteq Held' \cup retired'
  <2>1. Promised' \subseteq Held \cup retired
    <3>1. CASE Respond
      <4>1. Ids(handler.stored) \cup handler.duplicate \subseteq Held
        BY <3>1 DEF Respond, HandlerInv
      <4> QED  BY <3>1, <4>1, PromisedFrame DEF PromiseInv
    <3>2. CASE ~Respond
      BY <3>2, PromisedFrame DEF PromiseInv
    <3> QED  BY <3>1, <3>2
  <2>2. Held \cup retired \subseteq Held' \cup retired'
    <3>1. CASE StoreEvents
      BY <3>1, RowsFrame
    <3>2. CASE ApplyRetention
      BY <3>2, RowsFrame
    <3>3. CASE UNCHANGED <<first, retired>>
      BY <3>3 DEF Held
    <3> QED  BY <3>1, <3>2, <3>3, RowsFrame
  <2> QED  BY <2>1, <2>2
<1>3. CASE ReceiveAck
  <2>1. PICK a \in replies :
           /\ outbox' = [e \in Events |->
                           IF e \in Accepted(a) THEN "uploaded"
                           ELSE IF outbox[e] = "pending" /\ tries'[e] = MaxAttempts
                                THEN "dead" ELSE outbox[e]]
           /\ replies' = {}
    BY <1>3 DEF ReceiveAck
  <2>2. Confirmed' \subseteq Confirmed \cup Accepted(a)
    BY <2>1 DEF Confirmed
  <2>3. Confirmed' \subseteq Promised'
    BY <1>1, <2>2 DEF PromiseInv
  <2> QED  BY <1>2, <2>1, <2>3 DEF PromiseInv
<1>4. CASE Respond
  <2>1. \A a \in replies' : a \in replies \/ a = BuildAcknowledgement
    BY <1>4 DEF Respond
  <2>2. Accepted(BuildAcknowledgement) \subseteq Promised'
    BY <1>4, PromisedFrame DEF BuildAcknowledgement, Accepted
  <2>3. \A a \in replies' : Accepted(a) \subseteq Promised'
    BY <1>1, <2>1, <2>2 DEF PromiseInv
  <2>4. Confirmed' = Confirmed
    BY <1>4 DEF Respond, phoneVars, Confirmed
  <2>5. \A a \in replies' : a.stored \cup a.duplicate \subseteq Promised'
    BY <2>3 DEF Accepted
  <2> QED  BY <1>1, <1>2, <2>4, <2>5 DEF PromiseInv, Accepted
<1>5. CASE UNCHANGED outbox /\ replies' \subseteq replies
  <2>1. Confirmed' = Confirmed
    BY <1>5 DEF Confirmed
  <2>2. \A a \in replies' : a.stored \cup a.duplicate \subseteq Promised'
    BY <1>1, <1>5 DEF PromiseInv, Accepted
  <2> QED  BY <1>1, <1>2, <2>1, <2>2 DEF PromiseInv, Accepted
<1>6. ReceiveAck \/ Respond \/ (UNCHANGED outbox /\ replies' \subseteq replies)
  BY DEF Next, Phone, Network, Server, IngestBatch, Failure, Done, Compose, Resend,
      Disconnect, LoseRequest, TakeUp, Validate, StoreEvents, RecordHeartbeat,
      RecordBatch, RecordAcknowledgements, TouchDevice, Refuse,
      TransactionFails, Crash, ApplyRetention, Tick, vars, phoneVars, netVars
<1> QED  BY <1>3, <1>4, <1>5, <1>6

LEMMA HandlerStep ==
    ASSUME TypeOK, HandlerInv, LoopInv, [Next]_vars
    PROVE  HandlerInv'
<1>1. CASE Outside
  <2>1. SameWork /\ first' = first /\ projected' = projected
    BY <1>1, OutsideFrame DEF dbVars
  <2> QED  BY <2>1 DEF HandlerInv, SameWork, Held
<1>2. CASE Abort \/ Respond
  <2>1. handler' = Idle
    BY <1>2, AbortFrame DEF Respond
  <2> QED  BY <2>1 DEF HandlerInv, Idle
<1>3. CASE TakeUp
  <2>1. /\ handler'.phase = "validate" /\ handler'.batch \in Batch
        /\ handler'.stored = {} /\ handler'.beats = {}
    BY <1>3, TakeUpFrame
  <2> QED  BY <2>1 DEF HandlerInv
<1>4. CASE Validate
  <2>1. /\ handler.phase = "validate" /\ handler'.phase = "validate"
        /\ handler'.batch = handler.batch
        /\ handler'.stored = handler.stored /\ handler'.beats = handler.beats
        /\ UNCHANGED dbVars
    BY <1>4, ValidateFrame
  <2> QED  BY <2>1 DEF HandlerInv, dbVars
<1>5. CASE StoreEvents
  <2> DEFINE fresh == {c \in handler.toStore : IdOf[c] \notin Held}
  <2>1. /\ first' = [e \in Events |-> IF e \in Ids(fresh) THEN handler.batch.id
                                      ELSE first[e]]
        /\ handler.phase = "validate" /\ handler'.phase = "project"
        /\ handler'.batch = handler.batch
        /\ handler'.stored = fresh /\ handler'.beats = fresh \cap Heartbeats
        /\ handler'.duplicate = handler.duplicate \cup Ids(handler.toStore \ fresh)
    BY <1>5, StoreFrame DEF Validated
  <2>2. handler.batch \in Batch /\ handler.batch.id # 0
    BY <2>1 DEF HandlerInv, Batch, BatchIds
  <2>3. fresh \in SUBSET Copies /\ Ids(fresh) \in SUBSET Events
    <3>1. fresh \in SUBSET Copies
      BY DEF TypeOK
    <3> QED  BY <3>1, IdsOfCopies
  <2>4. \A c \in fresh : first'[IdOf[c]] = handler.batch.id
    BY <2>1, <2>3 DEF Ids
  <2>5. Ids(fresh) \subseteq Held'
    BY <2>1, <2>2, <2>3 DEF Held
  <2>6. Ids(handler.toStore \ fresh) \subseteq Held'
    <3>1. Ids(handler.toStore \ fresh) \subseteq Held
      BY DEF Ids
    <3> QED  BY <1>5, <3>1, RowsFrame
  <2>7. handler'.duplicate \subseteq Held'
    <3>1. Ids(handler.toStore) \subseteq Held'
      BY <2>5, <2>6 DEF Ids
    <3>2. handler.duplicate \subseteq Ids(handler.toStore)
      BY <2>1 DEF LoopInv
    <3> QED  BY <2>1, <2>6, <3>1, <3>2
  <2> QED  BY <2>1, <2>2, <2>4, <2>5, <2>7 DEF HandlerInv
<1>6. CASE Later
  <2>1. /\ handler.phase \in {"project", "verdicts", "touch"}
        /\ handler'.phase \in {"project", "verdicts", "touch", "respond"}
        /\ handler'.batch = handler.batch
        /\ handler'.stored = handler.stored /\ handler'.duplicate = handler.duplicate
        /\ handler'.beats \subseteq handler.beats
        /\ first' = first /\ projected \subseteq projected'
    BY <1>6, LaterFrame
  <2>2. handler'.phase = "project" \/ handler'.beats = {}
    <3>1. CASE RecordHeartbeat
      BY <3>1, HandlerType DEF RecordHeartbeat, HandlerSet
    <3>2. CASE RecordBatch
      BY <2>1, <3>2 DEF RecordBatch
    <3>3. CASE RecordAcknowledgements \/ TouchDevice
      BY <2>1, <3>3 DEF RecordAcknowledgements, TouchDevice, HandlerInv
    <3> QED  BY <1>6, <3>1, <3>2, <3>3 DEF Later
  <2>3. \A c \in handler.beats : IdOf[c] \in projected' \/ c \in handler'.beats
    <3>1. CASE RecordHeartbeat
      <4>1. PICK x \in handler.beats : /\ projected' = projected \cup {IdOf[x]}
                                       /\ handler' = [handler EXCEPT !.beats = @ \ {x}]
        BY <3>1 DEF RecordHeartbeat
      <4>2. handler'.beats = handler.beats \ {x}
        BY <4>1, HandlerType DEF HandlerSet
      <4> QED  BY <4>1, <4>2
    <3>2. CASE ~RecordHeartbeat
      <4>1. handler' \in {[handler EXCEPT !.phase = "verdicts"], [handler EXCEPT !.phase = "touch"],
                          [handler EXCEPT !.phase = "respond"]}
        BY <1>6, <3>2 DEF Later, RecordBatch, RecordAcknowledgements, TouchDevice
      <4> QED  BY <4>1, HandlerType DEF HandlerSet
    <3> QED  BY <3>1, <3>2
  <2>4. HandlerInv => /\ Ids(handler.stored) \cup handler.duplicate \subseteq Held
                      /\ handler.batch \in Batch /\ handler.beats \subseteq handler.stored
                      /\ \A c \in handler.stored : first[IdOf[c]] = handler.batch.id
                      /\ \A c \in handler.stored \cap Heartbeats :
                            IdOf[c] \in projected \/ c \in handler.beats
    BY <2>1 DEF HandlerInv
  <2>5. Held' = Held
    BY <2>1 DEF Held
  <2>6. \A c \in handler.stored \cap Heartbeats : IdOf[c] \in projected' \/ c \in handler'.beats
    BY <2>1, <2>3, <2>4
  <2> QED  BY <2>1, <2>2, <2>4, <2>5, <2>6 DEF HandlerInv
<1>7. CASE ApplyRetention
  <2>1. handler' = handler /\ handler.phase = "idle"
    BY <1>7 DEF ApplyRetention
  <2>2. handler = Idle
    BY <2>1 DEF HandlerInv
  <2> QED  BY <2>1, <2>2 DEF HandlerInv, Idle
<1>8. CASE Tick
  <2>1. UNCHANGED <<handler, first, projected>>
    BY <1>8 DEF Tick, dbVars
  <2> QED  BY <2>1 DEF HandlerInv, Held
<1> QED
  BY <1>1, <1>2, <1>3, <1>4, <1>5, <1>6, <1>7, <1>8, Steps DEF Later

\* The part of LoopInv that is about the copies seen.
SeenInv ==
    /\ \A i \in Seen :
          /\ SeenId(i) \in handler.rejected \cup Ids(handler.toStore)
          /\ SeenId(i) \in handler.rejected \/ ~Rejects(handler.batch.copies[i])
    /\ \A e \in handler.rejected \cup Ids(handler.toStore) : \E i \in Seen : SeenId(i) = e
    /\ \A e \in handler.rejected \cap Ids(handler.toStore) :
          \E i, j \in Seen : i # j /\ SeenId(i) = e /\ SeenId(j) = e

\* A copy that is acceptable stays acceptable.
LEMMA RejectsFrame ==
    ASSUME TypeOK, [Next]_vars, NEW c \in Copies, Rejects(c)'
    PROVE  Rejects(c)
<1>1. CASE Tick
  <2>1. age'[c] = "future" => age[c] = "future"
    BY <1>1 DEF Tick, TypeOK
  <2> QED  BY <2>1 DEF Rejects
<1>2. CASE ~Tick
  <2>1. age' = age
    BY <1>2
    DEF Next, Phone, Network, Server, IngestBatch, Failure, Done, Compose, Resend, ReceiveAck,
        Disconnect, LoseRequest, TakeUp, Validate, StoreEvents, RecordHeartbeat,
        RecordBatch, RecordAcknowledgements, TouchDevice, Respond, Refuse,
        TransactionFails, Crash, ApplyRetention, vars
  <2> QED  BY <2>1 DEF Rejects
<1> QED  BY <1>1, <1>2

\* A step that leaves the loop's fields alone leaves SeenInv alone.
LEMMA SameLoop ==
    ASSUME TypeOK, SeenInv, [Next]_vars,
           handler'.batch = handler.batch, handler'.next = handler.next,
           handler'.rejected = handler.rejected, handler'.toStore = handler.toStore
    PROVE  SeenInv'
<1>1. Seen' = Seen /\ \A i \in Seen : SeenId(i)' = SeenId(i)
  BY DEF Seen, SeenId
<1>2. \A i \in Seen : handler.batch.copies[i] \in Copies
  BY Lists, HandlerType DEF HandlerSet, Seen
<1>3. \A i \in Seen : Rejects(handler.batch.copies[i])' => Rejects(handler.batch.copies[i])
  <2> TAKE i \in Seen
  <2>1. PICK c \in Copies : c = handler.batch.copies[i]
    BY <1>2
  <2>2. Rejects(handler.batch.copies[i])' => Rejects(c)'
    BY <2>1 DEF Rejects
  <2> QED  BY <2>1, <2>2, RejectsFrame
<1>4. UNCHANGED <<handler.rejected, Ids(handler.toStore)>>
  BY DEF Ids
<1> QED  BY <1>1, <1>3, <1>4 DEF SeenInv

\* A step after which the handler has seen nothing.
LEMMA NothingSeen ==
    ASSUME handler'.next = 1, handler'.batch \in Batch \cup {NoBatch},
           handler'.rejected = {}, handler'.toStore = {}
    PROVE  SeenInv' /\ handler'.next <= Len(handler'.batch.copies) + 1
<1>1. Len(handler'.batch.copies) \in Nat /\ Seen' = {}
  BY Lists DEF Seen
<1> QED  BY <1>1 DEF SeenInv, Ids

\* Validate looks at the next copy and at no other.
LEMMA ValidateSeen ==
    ASSUME TypeOK, LoopInv, Validate
    PROVE  SeenInv' /\ handler'.next <= Len(handler'.batch.copies) + 1
           /\ handler'.duplicate \subseteq Ids(handler'.toStore)
<1> DEFINE n == handler.next
           copies == handler.batch.copies
           c == copies[n]
<1>1. /\ n \in Nat \ {0} /\ n <= Len(copies) /\ Len(copies) \in Nat
      /\ DOMAIN copies = 1..Len(copies)
  <2>1. n \in Nat \ {0} /\ Len(copies) \in Nat /\ DOMAIN copies = 1..Len(copies)
    BY Lists, HandlerType DEF HandlerSet
  <2>2. ~(n > Len(copies))
    BY DEF Validate, Validated
  <2> QED  BY <2>1, <2>2
<1>2. /\ handler'.batch = handler.batch /\ handler'.next = n + 1 /\ age' = age
      /\ handler.phase = "validate"
  BY ValidateFrame
<1>3. Seen' = Seen \cup {n} /\ n \notin Seen /\ n \in DOMAIN copies
  <2>1. Seen' = {i \in DOMAIN copies : i < n + 1}
    BY <1>2 DEF Seen
  <2>2. Seen = {i \in DOMAIN copies : i < n}
    BY DEF Seen
  <2> HIDE DEF n, copies
  <2> QED  BY <1>1, <2>1, <2>2
<1>4. \A i \in DOMAIN copies : SeenId(i)' = SeenId(i) /\ SeenId(n) = IdOf[c]
  BY <1>2 DEF SeenId
<1>5. \A i \in DOMAIN copies : Rejects(copies[i])' <=> Rejects(copies[i])
  BY <1>2 DEF Rejects
<1>6. handler.duplicate \subseteq Ids(handler.toStore)
  BY <1>2 DEF LoopInv
<1>7. SeenInv
  BY DEF LoopInv, SeenInv
<1>8. /\ \A i \in Seen : /\ SeenId(i) \in handler.rejected \cup Ids(handler.toStore)
                         /\ SeenId(i) \in handler.rejected \/ ~Rejects(copies[i])
      /\ \A e \in handler.rejected \cup Ids(handler.toStore) : \E i \in Seen : SeenId(i) = e
      /\ \A e \in handler.rejected \cap Ids(handler.toStore) :
            \E i, j \in Seen : i # j /\ SeenId(i) = e /\ SeenId(j) = e
  BY <1>7 DEF SeenInv
<1>9. Seen \subseteq DOMAIN copies
  BY DEF Seen
<1>10. SUFFICES
        /\ \A i \in Seen \cup {n} :
              /\ SeenId(i) \in handler'.rejected \cup Ids(handler'.toStore)
              /\ SeenId(i) \in handler'.rejected \/ ~Rejects(copies[i])
        /\ \A e \in handler'.rejected \cup Ids(handler'.toStore) :
              \E i \in Seen \cup {n} : SeenId(i) = e
        /\ \A e \in handler'.rejected \cap Ids(handler'.toStore) :
              \E i, j \in Seen \cup {n} : i # j /\ SeenId(i) = e /\ SeenId(j) = e
        /\ handler'.duplicate \subseteq Ids(handler'.toStore)
  <2>1. handler'.next <= Len(handler'.batch.copies) + 1
    BY <1>1, <1>2
  <2>2. \A i \in Seen \cup {n} : i \in DOMAIN copies
    BY <1>3, <1>9
  <2>3. handler'.batch.copies = copies /\ Ids(handler.toStore)' = Ids(handler'.toStore)
    BY <1>2 DEF Ids
  <2> QED  BY <1>2, <1>3, <1>4, <1>5, <2>1, <2>2, <2>3 DEF SeenInv
<1>11. CASE /\ Rejects(c)
            /\ handler'.rejected = handler.rejected \cup {IdOf[c]}
            /\ handler'.toStore = handler.toStore
            /\ handler'.duplicate = handler.duplicate
  <2>1. \A e \in handler'.rejected \cap Ids(handler.toStore) :
           \E i, j \in Seen \cup {n} : i # j /\ SeenId(i) = e /\ SeenId(j) = e
    <3> TAKE e \in handler'.rejected \cap Ids(handler.toStore)
    <3>1. CASE e \in handler.rejected
      BY <3>1, <1>8
    <3>2. CASE e = IdOf[c]
      BY <3>2, <1>3, <1>4, <1>8
    <3> QED  BY <1>11, <3>1, <3>2
  <2> QED  BY <1>3, <1>4, <1>6, <1>8, <1>11, <2>1
<1>12. CASE /\ ~Rejects(c) /\ IdOf[c] \in Ids(handler.toStore)
            /\ handler'.rejected = handler.rejected
            /\ handler'.toStore = handler.toStore
            /\ handler'.duplicate = handler.duplicate \cup {IdOf[c]}
  BY <1>3, <1>4, <1>6, <1>8, <1>12
<1>13. CASE /\ ~Rejects(c) /\ IdOf[c] \notin Ids(handler.toStore)
            /\ handler'.rejected = handler.rejected
            /\ handler'.toStore = handler.toStore \cup {c}
            /\ handler'.duplicate = handler.duplicate
  <2>1. Ids(handler'.toStore) = Ids(handler.toStore) \cup {IdOf[c]}
    BY <1>13 DEF Ids
  <2>2. \A e \in handler'.rejected \cap Ids(handler'.toStore) :
           \E i, j \in Seen \cup {n} : i # j /\ SeenId(i) = e /\ SeenId(j) = e
    <3> TAKE e \in handler'.rejected \cap Ids(handler'.toStore)
    <3>1. CASE e \in Ids(handler.toStore)
      BY <3>1, <1>8, <1>13
    <3>2. CASE e = IdOf[c]
      BY <3>2, <1>3, <1>4, <1>8, <1>13
    <3> QED  BY <2>1, <3>1, <3>2
  <2> QED  BY <1>3, <1>4, <1>6, <1>8, <1>13, <2>1, <2>2
<1> QED  BY <1>11, <1>12, <1>13, ValidateFrame

LEMMA LoopStep ==
    ASSUME TypeOK, HandlerInv, LoopInv, [Next]_vars
    PROVE  LoopInv'
<1>1. SeenInv
  BY DEF LoopInv, SeenInv
<1>2. CASE Outside
  <2>1. SameWork
    BY <1>2, OutsideFrame
  <2>2. SeenInv'
    BY <1>1, <2>1, SameLoop DEF SameWork
  <2> QED  BY <2>1, <2>2 DEF LoopInv, SeenInv, SameWork, Ids
<1>3. CASE Abort \/ Respond
  <2>1. /\ handler'.phase = "idle" /\ handler'.next = 1 /\ handler'.batch = NoBatch
        /\ handler'.rejected = {} /\ handler'.toStore = {}
    BY <1>3, AbortFrame DEF Respond, Idle
  <2>2. SeenInv' /\ handler'.next <= Len(handler'.batch.copies) + 1
    BY <2>1, NothingSeen
  <2> QED  BY <2>1, <2>2 DEF LoopInv, SeenInv
<1>4. CASE TakeUp
  <2>1. /\ handler'.phase = "validate" /\ handler'.next = 1 /\ handler'.batch \in Batch
        /\ handler'.rejected = {} /\ handler'.toStore = {} /\ handler'.duplicate = {}
    BY <1>4, TakeUpFrame
  <2>2. SeenInv' /\ handler'.next <= Len(handler'.batch.copies) + 1
    BY <2>1, NothingSeen
  <2> QED  BY <2>1, <2>2 DEF LoopInv, SeenInv
<1>5. CASE Validate
  <2>1. handler'.phase = "validate"
    BY <1>5, ValidateFrame
  <2>2. SeenInv' /\ handler'.next <= Len(handler'.batch.copies) + 1
        /\ handler'.duplicate \subseteq Ids(handler'.toStore)
    BY <1>5, ValidateSeen
  <2>3. Ids(handler.toStore)' = Ids(handler'.toStore)
    OBVIOUS
  <2> QED  BY <2>1, <2>2, <2>3 DEF LoopInv, SeenInv
<1>6. CASE StoreEvents
  <2> DEFINE fresh == {c \in handler.toStore : IdOf[c] \notin Held}
  <2>1. /\ Validated /\ handler'.phase = "project"
        /\ handler'.batch = handler.batch /\ handler'.next = handler.next
        /\ handler'.rejected = handler.rejected /\ handler'.toStore = handler.toStore
        /\ handler'.stored = fresh
        /\ handler'.duplicate = handler.duplicate \cup Ids(handler.toStore \ fresh)
    BY <1>6, StoreFrame
  <2>2. SeenInv'
    BY <1>1, <2>1, SameLoop
  <2>3. handler'.next = Len(handler'.batch.copies) + 1
    <3>1. handler.next \in Nat \ {0} /\ Len(handler.batch.copies) \in Nat
      BY Lists, HandlerType DEF HandlerSet
    <3>2. /\ handler.next > Len(handler.batch.copies)
          /\ handler.next <= Len(handler.batch.copies) + 1
      BY <2>1 DEF Validated, LoopInv
    <3> QED  BY <2>1, <3>1, <3>2
  <2>4. handler.duplicate \subseteq Ids(handler.toStore)
    BY <2>1 DEF LoopInv, Validated
  <2>5. Ids(fresh) \cup Ids(handler.toStore \ fresh) = Ids(handler.toStore)
    BY DEF Ids
  <2>6. /\ handler'.stored \subseteq handler'.toStore
        /\ Ids(handler'.stored) \cup handler'.duplicate = Ids(handler'.toStore)
    BY <2>1, <2>4, <2>5
  <2>7. handler'.next <= Len(handler'.batch.copies) + 1
    BY <2>1 DEF LoopInv
  <2> QED  BY <2>1, <2>2, <2>3, <2>6, <2>7 DEF LoopInv, SeenInv, Ids
<1>7. CASE Later
  <2>1. /\ handler.phase \in {"project", "verdicts", "touch"}
        /\ handler'.phase \in {"project", "verdicts", "touch", "respond"}
        /\ handler'.batch = handler.batch /\ handler'.next = handler.next
        /\ handler'.rejected = handler.rejected /\ handler'.toStore = handler.toStore
        /\ handler'.stored = handler.stored /\ handler'.duplicate = handler.duplicate
    BY <1>7, LaterFrame
  <2>2. SeenInv'
    BY <1>1, <2>1, SameLoop
  <2> QED  BY <2>1, <2>2 DEF LoopInv, SeenInv, Ids
<1>8. CASE ApplyRetention \/ Tick
  <2>1. handler' = handler
    BY <1>8 DEF ApplyRetention, Tick
  <2>2. SeenInv'
    BY <1>1, <2>1, SameLoop
  <2> QED  BY <2>1, <2>2 DEF LoopInv, SeenInv, Ids
<1> QED
  BY <1>2, <1>3, <1>4, <1>5, <1>6, <1>7, <1>8, Steps DEF Later

\* What an acknowledgement accepts of its batch without rejecting a copy.
Clean(a) == Accepted(a) \ a.rejected

\* What the recorded verdicts of a batch accept.
Recorded(b) == {e \in Events : verdicts[b][e] \in {"stored", "duplicate"}}

LEMMA RecordedIsAccepted ==
    ASSUME NEW b
    PROVE  Accepted(StoredAcknowledgement(b)) = Recorded(b)
BY DEF Accepted, StoredAcknowledgement, Recorded

\* The copies a batch lists are copies.
LEMMA SentCopies ==
    ASSUME TypeOK, NEW b \in BatchIds, NEW k \in DOMAIN sent[b]
    PROVE  sent[b][k] \in Copies
<1>1. sent[b] \in Arrangements \cup {<<>>}
  BY DEF TypeOK
<1> QED  BY <1>1, Lists

\* The verdicts of a batch change only when its handler records them: a
\* rejected event becomes rejected, an accepted one accepted, and no other
\* event changes.
LEMMA VerdictsFrame ==
    ASSUME TypeOK, HandlerInv, [Next]_vars
    PROVE  /\ ~RecordAcknowledgements => verdicts' = verdicts
           /\ RecordAcknowledgements =>
                 /\ handler.batch.id \in BatchIds
                 /\ \A b \in BatchIds \ {handler.batch.id} : verdicts'[b] = verdicts[b]
                 /\ \A e \in Events :
                       LET old == verdicts[handler.batch.id][e]
                           new == verdicts'[handler.batch.id][e]
                       IN  /\ new = "stored" => old = "stored" \/ e \in Ids(handler.stored)
                           /\ e \in (Ids(handler.stored) \cup handler.duplicate)
                                       \ handler.rejected => new \in {"stored", "duplicate"}
                           /\ e \notin handler.rejected /\ old \in {"stored", "duplicate"}
                                 => new \in {"stored", "duplicate"}
<1>1. ASSUME ~RecordAcknowledgements
      PROVE  verdicts' = verdicts
  BY <1>1
  DEF Next, Phone, Network, Server, IngestBatch, Failure, Done, Compose, Resend, ReceiveAck,
      Disconnect, LoseRequest, TakeUp, Validate, StoreEvents, RecordHeartbeat,
      RecordBatch, TouchDevice, Respond, Refuse,
      TransactionFails, Crash, ApplyRetention, Tick, vars, dbVars
<1>2. ASSUME RecordAcknowledgements
      PROVE  /\ handler.batch.id \in BatchIds
             /\ \A b \in BatchIds \ {handler.batch.id} : verdicts'[b] = verdicts[b]
             /\ \A e \in Events :
                   LET old == verdicts[handler.batch.id][e]
                       new == verdicts'[handler.batch.id][e]
                   IN  /\ new = "stored" => old = "stored" \/ e \in Ids(handler.stored)
                       /\ e \in (Ids(handler.stored) \cup handler.duplicate)
                                   \ handler.rejected => new \in {"stored", "duplicate"}
                       /\ e \notin handler.rejected /\ old \in {"stored", "duplicate"}
                             => new \in {"stored", "duplicate"}
  <2> DEFINE id == handler.batch.id
             row == [e \in Events |->
                       CASE e \in handler.rejected  -> "rejected"
                         [] e \in handler.duplicate \ handler.rejected -> "duplicate"
                         [] e \in Ids(handler.stored)
                                \ (handler.duplicate \cup handler.rejected) -> "stored"
                         [] OTHER -> verdicts[id][e]]
  <2>1. handler.phase = "verdicts" /\ verdicts' = [verdicts EXCEPT ![id] = row]
    BY <1>2 DEF RecordAcknowledgements
  <2>2. id \in BatchIds
    BY <2>1 DEF HandlerInv, Batch
  <2>3. verdicts'[id] = row /\ \A b \in BatchIds \ {id} : verdicts'[b] = verdicts[b]
    BY <2>1, <2>2 DEF TypeOK
  <2>4. \A e \in Events :
           /\ row[e] = "stored" => verdicts[id][e] = "stored" \/ e \in Ids(handler.stored)
           /\ e \in (Ids(handler.stored) \cup handler.duplicate) \ handler.rejected
                 => row[e] \in {"stored", "duplicate"}
           /\ e \notin handler.rejected /\ verdicts[id][e] \in {"stored", "duplicate"}
                 => row[e] \in {"stored", "duplicate"}
    OBVIOUS
  <2> QED  BY <2>2, <2>3, <2>4
<1> QED  BY <1>1, <1>2

\* The first part of VerdictInv: an acceptance without a rejection rests on
\* acceptable copies only.
LEMMA SoundAcceptance ==
    ASSUME TypeOK, BatchInv, HandlerInv, LoopInv, VerdictInv, [Next]_vars,
           NEW b \in BatchIds, NEW i \in issued'[b], NEW k \in DOMAIN sent'[b],
           IdOf[sent'[b][k]] \in Clean(i.ack)
    PROVE  ~Rejects(sent[b][k])'
<1>1. CASE i \in issued[b]
  <2>1. sent'[b] = sent[b]
    BY <1>1, SentFrame DEF BatchInv
  <2>2. ~Rejects(sent[b][k])
    BY <1>1, <2>1 DEF VerdictInv, Clean
  <2>3. PICK c \in Copies : c = sent[b][k]
    BY <2>1, SentCopies
  <2>4. ~Rejects(c)'
    BY <2>2, <2>3, RejectsFrame
  <2> QED  BY <2>1, <2>3, <2>4 DEF Rejects
<1>2. CASE i \notin issued[b]
  <2> DEFINE copies == handler.batch.copies
  <2>1. /\ Respond /\ b = handler.batch.id
        /\ i = [ack |-> BuildAcknowledgement, rows |-> handler.stored]
    BY <1>2, IssuedFrame
  <2>2. sent'[b] = sent[b] /\ age' = age
    BY <2>1 DEF Respond
  <2>3. sent[b] = copies
    <3>1. handler.batch # NoBatch
      BY <2>1, IssuedFrame DEF NoBatch, BatchIds
    <3> QED  BY <2>1, <3>1 DEF BatchInv
  <2>4. k \in Seen /\ SeenId(k) = IdOf[copies[k]]
    <3>1. handler.next = Len(copies) + 1
      BY <2>1 DEF Respond, LoopInv
    <3>2. Len(copies) \in Nat /\ DOMAIN copies = 1..Len(copies)
      BY Lists, HandlerType DEF HandlerSet
    <3>3. k \in 1..Len(copies)
      BY <2>2, <2>3, <3>2
    <3>4. k < handler.next
      BY <3>1, <3>2, <3>3
    <3> QED  BY <3>2, <3>3, <3>4 DEF Seen, SeenId
  <2>5. SeenId(k) \notin handler.rejected
    BY <2>1, <2>2, <2>3, <2>4 DEF Clean, BuildAcknowledgement
  <2>6. ~Rejects(copies[k])
    BY <2>4, <2>5 DEF LoopInv
  <2> QED  BY <2>2, <2>3, <2>6 DEF Rejects
<1> QED  BY <1>1, <1>2

\* The second part: the handler rejects nothing its batch was promised.
LEMMA SoundRejection ==
    ASSUME TypeOK, BatchInv, HandlerInv, LoopInv, VerdictInv, [Next]_vars,
           handler'.phase # "idle", NEW i \in issued'[handler'.batch.id]
    PROVE  handler'.rejected \cap Clean(i.ack) = {}
<1>1. ~Respond /\ ~Abort
  BY AbortFrame DEF Respond, Idle
<1>2. issued' = issued
  BY <1>1, IssuedFrame
<1>3. CASE TakeUp
  BY <1>3, TakeUpFrame
<1>4. CASE Validate
  <2> DEFINE c == handler.batch.copies[handler.next]
             id == handler.batch.id
  <2>1. /\ handler.phase = "validate" /\ handler'.batch = handler.batch
        /\ \/ Rejects(c) /\ handler'.rejected = handler.rejected \cup {IdOf[c]}
           \/ handler'.rejected = handler.rejected
    BY <1>4, ValidateFrame
  <2>2. i \in issued[id] /\ handler.rejected \cap Clean(i.ack) = {}
    BY <1>2, <2>1 DEF VerdictInv, Clean
  <2>3. Rejects(c) => IdOf[c] \notin Clean(i.ack)
    <3>1. handler.batch \in Batch
      BY <2>1 DEF HandlerInv
    <3>2. id \in BatchIds /\ handler.batch # NoBatch
      BY <3>1 DEF Batch, NoBatch, BatchIds
    <3>3. sent[id] = handler.batch.copies
      BY <3>2 DEF BatchInv
    <3>4. handler.next \in DOMAIN handler.batch.copies
      <4>1. /\ handler.next \in Nat \ {0} /\ Len(handler.batch.copies) \in Nat
            /\ DOMAIN handler.batch.copies = 1..Len(handler.batch.copies)
        BY Lists, HandlerType DEF HandlerSet
      <4>2. ~(handler.next > Len(handler.batch.copies))
        BY <1>4 DEF Validate, Validated
      <4> QED  BY <4>1, <4>2
    <3> QED  BY <2>2, <3>2, <3>3, <3>4 DEF VerdictInv, Clean
  <2> QED  BY <2>1, <2>2, <2>3
<1>5. CASE /\ handler'.phase # "idle" => handler.phase # "idle"
           /\ handler'.batch = handler.batch /\ handler'.rejected = handler.rejected
  BY <1>2, <1>5 DEF VerdictInv, Clean
<1>6. CASE Outside
  BY <1>5, <1>6, OutsideFrame DEF SameWork
<1>7. CASE StoreEvents
  BY <1>5, <1>7, StoreFrame DEF Validated
<1>8. CASE Later
  BY <1>5, <1>8, LaterFrame
<1>9. CASE ApplyRetention \/ Tick
  BY <1>5, <1>9 DEF ApplyRetention, Tick
<1> QED  BY <1>1, <1>3, <1>4, <1>6, <1>7, <1>8, <1>9, Steps DEF Later

\* The third part: what the handler accepts is recorded once it has recorded
\* its verdicts.
LEMMA SoundRecord ==
    ASSUME TypeOK, HandlerInv, VerdictInv, [Next]_vars, handler'.phase \in {"touch", "respond"}
    PROVE  (Ids(handler'.stored) \cup handler'.duplicate) \ handler'.rejected
              \subseteq Recorded(handler.batch.id)'
<1>1. CASE RecordAcknowledgements
  <2>1. /\ handler'.batch = handler.batch /\ handler'.rejected = handler.rejected
        /\ handler'.stored = handler.stored /\ handler'.duplicate = handler.duplicate
    BY <1>1, LaterFrame DEF Later
  <2>2. Ids(handler.stored) \cup handler.duplicate \subseteq Events
    BY IdsOfCopies DEF TypeOK
  <2> QED  BY <1>1, <2>1, <2>2, VerdictsFrame DEF Recorded
<1>2. CASE /\ handler.phase \in {"touch", "respond"} /\ verdicts' = verdicts
           /\ handler'.batch = handler.batch /\ handler'.rejected = handler.rejected
           /\ handler'.stored = handler.stored /\ handler'.duplicate = handler.duplicate
  <2>1. (Ids(handler.stored) \cup handler.duplicate) \ handler.rejected
           \subseteq Recorded(handler.batch.id)
    BY <1>2, RecordedIsAccepted DEF VerdictInv
  <2> QED  BY <1>2, <2>1 DEF Recorded
<1>3. CASE Outside
  BY <1>2, <1>3, OutsideFrame DEF SameWork, dbVars
<1>4. CASE Abort \/ Respond \/ TakeUp \/ Validate \/ StoreEvents
  <2>1. Abort \/ Respond => handler'.phase = "idle"
    BY AbortFrame DEF Respond, Idle
  <2>2. TakeUp \/ Validate => handler'.phase = "validate"
    BY TakeUpFrame, ValidateFrame
  <2>3. StoreEvents => handler'.phase = "project"
    BY StoreFrame
  <2> QED  BY <1>4, <2>1, <2>2, <2>3
<1>5. CASE Later /\ ~RecordAcknowledgements
  BY <1>2, <1>5, LaterFrame
<1>6. CASE ApplyRetention \/ Tick
  BY <1>2, <1>6 DEF ApplyRetention, Tick, dbVars
<1> QED  BY <1>1, <1>3, <1>4, <1>5, <1>6, Steps DEF Later

LEMMA VerdictStep ==
    ASSUME TypeOK, BatchInv, HandlerInv, LoopInv, VerdictInv, [Next]_vars
    PROVE  VerdictInv'
<1>1. \A b \in BatchIds : \A i \in issued'[b] : \A k \in DOMAIN sent'[b] :
         IdOf[sent'[b][k]] \in Accepted(i.ack) \ i.ack.rejected => ~Rejects(sent[b][k])'
  BY SoundAcceptance DEF Clean
<1>2. handler'.phase # "idle" => \A i \in issued'[handler'.batch.id] :
         handler'.rejected \cap (Accepted(i.ack) \ i.ack.rejected) = {}
  BY SoundRejection DEF Clean
<1>3. handler'.phase \in {"touch", "respond"} =>
         (Ids(handler'.stored) \cup handler'.duplicate) \ handler'.rejected
            \subseteq Recorded(handler.batch.id)'
  BY SoundRecord
<1> QED  BY <1>1, <1>2, <1>3
         DEF VerdictInv, Accepted, Rejects, Recorded, StoredAcknowledgement, Ids

LEMMA OwnerStep ==
    ASSUME TypeOK, HandlerInv, StoredVerdictOwnsRow, [Next]_vars
    PROVE  StoredVerdictOwnsRow'
<1> SUFFICES ASSUME NEW b \in BatchIds, NEW e \in Events,
                    verdicts'[b][e] = "stored", e \notin retired'
             PROVE  first'[e] = b
  BY DEF StoredVerdictOwnsRow
<1>1. e \notin retired
  BY RowsFrame
<1>2. CASE verdicts[b][e] = "stored"
  <2>1. first[e] = b /\ e \in Held
    BY <1>1, <1>2 DEF StoredVerdictOwnsRow, Held, BatchIds
  <2>2. CASE StoreEvents
    BY <2>1, <2>2, RowsFrame
  <2>3. CASE ApplyRetention
    BY <2>1, <2>3, RowsFrame
  <2>4. CASE ~StoreEvents /\ ~ApplyRetention
    BY <2>1, <2>4, RowsFrame
  <2> QED  BY <2>2, <2>3, <2>4
<1>3. CASE verdicts[b][e] # "stored"
  <2>1. RecordAcknowledgements /\ b = handler.batch.id /\ e \in Ids(handler.stored)
    BY <1>3, VerdictsFrame
  <2>2. first[e] = b
    BY <2>1 DEF HandlerInv, Ids
  <2>3. first' = first
    BY <2>1 DEF RecordAcknowledgements
  <2> QED  BY <2>2, <2>3
<1> QED  BY <1>2, <1>3

LEMMA AcceptanceStep ==
    ASSUME TypeOK, HandlerInv, VerdictInv, AcceptanceStands, [Next]_vars
    PROVE  AcceptanceStands'
<1>1. ASSUME NEW b \in BatchIds, NEW i \in issued'[b]
      PROVE  Clean(i.ack) \subseteq Recorded(b)'
  <2>1. CASE i \in issued[b]
    <3>1. Clean(i.ack) \subseteq Recorded(b)
      BY <2>1, RecordedIsAccepted DEF AcceptanceStands, Clean
    <3>2. CASE ~RecordAcknowledgements \/ b # handler.batch.id
      BY <3>1, <3>2, VerdictsFrame DEF Recorded
    <3>3. CASE RecordAcknowledgements /\ b = handler.batch.id
      <4>1. handler.rejected \cap Clean(i.ack) = {}
        BY <2>1, <3>3 DEF RecordAcknowledgements, VerdictInv, Clean
      <4> QED  BY <3>1, <3>3, <4>1, VerdictsFrame DEF Recorded
    <3> QED  BY <3>2, <3>3
  <2>2. CASE i \notin issued[b]
    <3>1. /\ Respond /\ b = handler.batch.id
          /\ i = [ack |-> BuildAcknowledgement, rows |-> handler.stored]
      BY <1>1, <2>2, IssuedFrame
    <3>2. Clean(i.ack) = (Ids(handler.stored) \cup handler.duplicate) \ handler.rejected
      BY <3>1 DEF Clean, Accepted, BuildAcknowledgement
    <3>3. (Ids(handler.stored) \cup handler.duplicate) \ handler.rejected \subseteq Recorded(b)
      BY <3>1, RecordedIsAccepted DEF Respond, VerdictInv
    <3>4. verdicts' = verdicts
      BY <3>1 DEF Respond, dbVars
    <3> QED  BY <3>2, <3>3, <3>4 DEF Recorded
  <2> QED  BY <2>1, <2>2
<1> QED  BY <1>1 DEF AcceptanceStands, Clean, Recorded, Accepted, StoredAcknowledgement

LEMMA ProjectionStep ==
    ASSUME TypeOK, HandlerInv, StoredHeartbeatsProjected, [Next]_vars
    PROVE  StoredHeartbeatsProjected'
<1>1. projected \subseteq projected'
  <2>1. CASE RecordHeartbeat
    BY <2>1 DEF RecordHeartbeat
  <2>2. CASE ~RecordHeartbeat
    BY <2>2
    DEF Next, Phone, Network, Server, IngestBatch, Failure, Done, Compose, Resend, ReceiveAck,
        Disconnect, LoseRequest, TakeUp, Validate, StoreEvents, RecordAcknowledgements,
        RecordBatch, TouchDevice, Respond, Refuse,
        TransactionFails, Crash, ApplyRetention, Tick, vars, dbVars
  <2> QED  BY <2>1, <2>2
<1>2. ASSUME NEW b \in BatchIds, NEW i \in issued'[b]
      PROVE  Ids(i.rows \cap Heartbeats) \subseteq projected'
  <2>1. CASE i \in issued[b]
    BY <1>1, <2>1 DEF StoredHeartbeatsProjected
  <2>2. CASE i \notin issued[b]
    <3>1. Respond /\ i.rows = handler.stored
      <4>1. Respond /\ i = [ack |-> BuildAcknowledgement, rows |-> handler.stored]
        BY <1>2, <2>2, IssuedFrame
      <4> QED  BY <4>1
    <3>2. \A c \in handler.stored \cap Heartbeats : IdOf[c] \in projected
      BY <3>1 DEF Respond, HandlerInv
    <3> QED  BY <1>1, <3>1, <3>2 DEF Ids
  <2> QED  BY <2>1, <2>2
<1> QED  BY <1>2 DEF StoredHeartbeatsProjected, Ids

LEMMA NextIndInv == TypeOK /\ IndInv /\ [Next]_vars => IndInv'
<1> SUFFICES ASSUME TypeOK, IndInv, [Next]_vars
             PROVE  IndInv'
  OBVIOUS
<1>1. /\ BatchInv /\ HandlerInv /\ LoopInv /\ VerdictInv /\ PromiseInv
      /\ StoredVerdictOwnsRow /\ AcceptanceStands /\ StoredHeartbeatsProjected
  BY DEF IndInv
<1>2. BatchInv' /\ HandlerInv' /\ LoopInv' /\ VerdictInv' /\ PromiseInv'
  BY <1>1, BatchStep, HandlerStep, LoopStep, VerdictStep, PromiseStep
<1>3. StoredVerdictOwnsRow' /\ AcceptanceStands' /\ StoredHeartbeatsProjected'
  BY <1>1, OwnerStep, AcceptanceStep, ProjectionStep
<1> QED  BY <1>2, <1>3 DEF IndInv

\* The inductive invariant holds in every state.
THEOREM Invariance == Spec => []IndInv
<1>1. TypeOK /\ IndInv /\ [Next]_vars => (TypeOK /\ IndInv)'
  BY NextTypeOK, NextIndInv
<1>2. Init => TypeOK /\ IndInv
  BY InitTypeOK, InitIndInv
<1> QED  BY <1>1, <1>2, PTL DEF Spec

\* No event the phone has dropped was missing from the store: it is held, or
\* retention removed it.
THEOREM NothingIsLost == Spec => []NothingLost
<1>1. IndInv => NothingLost
  BY DEF IndInv, PromiseInv, NothingLost, Confirmed
<1> QED  BY <1>1, Invariance, PTL

\* At most one batch owns an event's row, and only that batch is recorded as
\* having stored it.
THEOREM StoredVerdictsOwnRows == Spec => []StoredVerdictOwnsRow
<1>1. IndInv => StoredVerdictOwnsRow
  BY DEF IndInv
<1> QED  BY <1>1, Invariance, PTL

\* Recorded verdicts keep accepting what an acknowledgement accepted without
\* rejecting a copy of it.
THEOREM AcceptanceSurvives == Spec => []AcceptanceStands
<1>1. IndInv => AcceptanceStands
  BY DEF IndInv
<1> QED  BY <1>1, Invariance, PTL

\* Every heartbeat acknowledged as stored is projected.
THEOREM HeartbeatsProjected == Spec => []StoredHeartbeatsProjected
<1>1. IndInv => StoredHeartbeatsProjected
  BY DEF IndInv
<1> QED  BY <1>1, Invariance, PTL

\* No step moves a row to another batch.
THEOREM RowsKeepTheirBatch == Spec => RowKeepsItsBatch
<1>1. TypeOK /\ IndInv /\ [Next]_vars => [\A e \in Held : first'[e] \in {first[e], 0}]_vars
  <2> SUFFICES ASSUME TypeOK, IndInv, Next, NEW e \in Held
               PROVE  first'[e] \in {first[e], 0}
    OBVIOUS
  <2>1. CASE ApplyRetention
    BY <2>1 DEF ApplyRetention, Held
  <2>2. CASE ~ApplyRetention
    BY <2>2, RowsFrame DEF IndInv
  <2> QED  BY <2>1, <2>2
<1> QED  BY <1>1, TypeCorrect, Invariance, PTL DEF Spec, RowKeepsItsBatch

-----------------------------------------------------------------------------
(* Refinement *)

\* Every step of Ingestion is a step of the abstract store or changes
\* nothing it can see.
LEMMA StepRefines ==
    ASSUME TypeOK, IndInv, [Next]_vars
    PROVE  [Store!Next]_(Store!storeVars)
<1> USE DEF Store!storeVars, Store!Held
<1>a. HandlerInv
  BY DEF IndInv
<1>1. CASE StoreEvents
  <2> DEFINE fresh == {c \in handler.toStore : IdOf[c] \notin Held}
  <2>1. /\ first' = [e \in Events |-> IF e \in Ids(fresh) THEN handler.batch.id ELSE first[e]]
        /\ UNCHANGED <<phoneVars, histVars>> /\ handler.phase = "validate"
    BY <1>1, StoreFrame DEF Validated
  <2>2. /\ handler.batch.id \in 1..MaxBatches
        /\ Ids(fresh) \in SUBSET Events
    <3>1. fresh \in SUBSET Copies
      BY DEF TypeOK
    <3> QED  BY <1>a, <2>1, <3>1, IdsOfCopies DEF HandlerInv, Batch, BatchIds
  <2>3. UNCHANGED <<retired, Promised, Confirmed>>
    BY <2>1 DEF Promised, Confirmed, phoneVars, histVars
  <2>4. Ids(fresh) \cap Held = {}
    BY DEF Ids
  <2>5. Store!Store(handler.batch.id, Ids(fresh))
    BY <2>1, <2>3, <2>4 DEF Store!Store, Held
  <2> QED  BY <2>2, <2>5 DEF Store!Next
<1>2. CASE Respond
  <2> DEFINE S == Ids(handler.stored) \cup handler.duplicate
  <2>1. UNCHANGED <<phoneVars, dbVars, retired>>
    BY <1>2 DEF Respond
  <2>2. S \subseteq Held /\ S \in SUBSET Events
    BY <1>2, <1>a DEF Respond, HandlerInv, Held
  <2>3. Promised' = Promised \cup S
    BY <1>2, <1>a, PromisedFrame
  <2>4. UNCHANGED <<first, retired, Confirmed>>
    BY <2>1 DEF Confirmed, phoneVars, dbVars
  <2>5. Store!Promise(S)
    BY <2>2, <2>3, <2>4 DEF Store!Promise, Held
  <2> QED  BY <2>2, <2>5 DEF Store!Next
<1>3. CASE ReceiveAck
  <2>1. PICK a \in replies :
           /\ outbox' = [e \in Events |->
                           IF e \in Accepted(a) THEN "uploaded"
                           ELSE IF outbox[e] = "pending" /\ tries'[e] = MaxAttempts
                                THEN "dead" ELSE outbox[e]]
           /\ UNCHANGED <<dbVars, histVars>>
    BY <1>3 DEF ReceiveAck
  <2>2. Accepted(a) \subseteq Promised /\ Accepted(a) \in SUBSET Events
    BY DEF IndInv, PromiseInv, Promised
  <2>3. Confirmed' = Confirmed \cup Accepted(a)
    BY <2>1, <2>2 DEF Confirmed
  <2>4. UNCHANGED <<first, retired, Promised>>
    BY <2>1 DEF Promised, dbVars, histVars
  <2>5. Store!Confirm(Accepted(a))
    BY <2>2, <2>3, <2>4 DEF Store!Confirm
  <2> QED  BY <2>2, <2>5 DEF Store!Next
<1>4. CASE ApplyRetention
  <2>1. /\ first' = [e \in Events |-> IF e \in Outdated THEN 0 ELSE first[e]]
        /\ retired' = retired \cup Outdated
        /\ UNCHANGED <<phoneVars, issued>>
    BY <1>4 DEF ApplyRetention
  <2>2. Outdated \subseteq Held /\ Outdated \in SUBSET Events
    BY DEF Outdated, Held
  <2>3. UNCHANGED <<Promised, Confirmed>>
    BY <2>1 DEF Promised, Confirmed, phoneVars
  <2> HIDE DEF Outdated
  <2>4. Store!Expire(Outdated)
    BY <2>1, <2>2, <2>3 DEF Store!Expire, Held
  <2> QED  BY <2>2, <2>4 DEF Store!Next
<1>5. CASE UNCHANGED <<first, retired, issued, outbox>>
  BY <1>5 DEF Promised, Confirmed
<1> QED
  BY <1>1, <1>2, <1>3, <1>4, <1>5
     DEF Next, Phone, Network, Server, IngestBatch, Failure, Compose, Resend, Disconnect,
         LoseRequest, Refuse, TakeUp, Validate, RecordHeartbeat, RecordBatch,
         RecordAcknowledgements, TouchDevice, TransactionFails, Crash, Tick, Done, vars,
         phoneVars, dbVars, histVars

\* Ingestion implements the abstract event store.
THEOREM Refinement == Spec => ImplementsStore
<1>1. Init => Store!Init
  BY DEF Init, Store!Init, Promised, Confirmed
<1>2. TypeOK /\ IndInv /\ [Next]_vars => [Store!Next]_(Store!storeVars)
  BY StepRefines
<1> QED  BY <1>1, <1>2, TypeCorrect, Invariance, PTL DEF Spec, ImplementsStore, Store!Spec

-----------------------------------------------------------------------------
(* The counts *)

\* Every copy seen is to be stored, or counted as a rejection or a repeat.
TallyInv ==
    handler.phase # "idle" =>
        Cardinality(handler.toStore) + handler.rejects + handler.repeats = handler.next - 1

\* A set of copies is counted by its parts.
LEMMA SplitCount ==
    ASSUME NEW S \in SUBSET Copies, NEW A \in SUBSET S
    PROVE  Cardinality(S) = Cardinality(A) + Cardinality(S \ A)
<1>1. /\ IsFiniteSet(A) /\ IsFiniteSet(S \ A)
      /\ Cardinality(A) \in Nat /\ Cardinality(S \ A) \in Nat
  <2>1. A \in SUBSET Copies /\ S \ A \in SUBSET Copies
    OBVIOUS
  <2> QED  BY <2>1, CopiesCardinality
<1>2. S = A \cup (S \ A) /\ A \cap (S \ A) = {}
  OBVIOUS
<1>3. Cardinality(S)
        = Cardinality(A) + Cardinality(S \ A) - Cardinality(A \cap (S \ A))
  BY <1>1, <1>2, FS_Union
<1> QED  BY <1>1, <1>2, <1>3, FS_EmptySet

LEMMA TallyStep ==
    ASSUME TypeOK, HandlerInv, TallyInv, [Next]_vars
    PROVE  TallyInv'
<1>1. CASE /\ handler'.phase # "idle" => handler.phase # "idle"
           /\ handler'.next = handler.next /\ handler'.toStore = handler.toStore
           /\ handler'.rejects = handler.rejects /\ handler'.repeats = handler.repeats
  BY <1>1 DEF TallyInv
<1>2. CASE Outside
  BY <1>1, <1>2, OutsideFrame DEF SameWork
<1>3. CASE Abort \/ Respond
  <2>1. handler'.phase = "idle"
    BY <1>3, AbortFrame DEF Respond, Idle
  <2> QED  BY <2>1 DEF TallyInv
<1>4. CASE TakeUp
  <2>1. /\ handler'.next = 1 /\ handler'.toStore = {}
        /\ handler'.rejects = 0 /\ handler'.repeats = 0
    BY <1>4, TakeUpFrame
  <2> QED  BY <2>1, FS_EmptySet DEF TallyInv
<1>5. CASE Validate
  <2> DEFINE c == handler.batch.copies[handler.next]
             S == handler.toStore
  <2>1. /\ handler.next \in Nat /\ handler.rejects \in Nat /\ handler.repeats \in Nat
        /\ S \in SUBSET Copies
    BY HandlerType DEF HandlerSet
  <2>2. IsFiniteSet(S) /\ Cardinality(S) \in Nat
    BY <2>1, CopiesCardinality
  <2>3. handler'.next = handler.next + 1 /\ handler.phase = "validate"
    BY <1>5, ValidateFrame
  <2>4. Cardinality(S) + handler.rejects + handler.repeats = handler.next - 1
    BY <2>3 DEF TallyInv
  <2>5. \/ /\ handler'.rejects = handler.rejects + 1 /\ handler'.toStore = S
           /\ handler'.repeats = handler.repeats
        \/ /\ handler'.rejects = handler.rejects /\ handler'.toStore = S
           /\ handler'.repeats = handler.repeats + 1
        \/ /\ handler'.rejects = handler.rejects /\ handler'.repeats = handler.repeats
           /\ handler'.toStore = S \cup {c} /\ c \notin S
    BY <1>5, ValidateFrame DEF Ids
  <2>6. c \notin S => Cardinality(S \cup {c}) = Cardinality(S) + 1
    BY <2>2, FS_AddElement
  <2> HIDE DEF c, S
  <2>7. Cardinality(handler'.toStore) + handler'.rejects + handler'.repeats = handler'.next - 1
    <3>1. CASE handler'.toStore = S
      <4>1. \/ handler'.rejects = handler.rejects + 1 /\ handler'.repeats = handler.repeats
            \/ handler'.rejects = handler.rejects /\ handler'.repeats = handler.repeats + 1
        BY <2>5, <3>1
      <4>2. Cardinality(handler'.toStore) = Cardinality(S)
        BY <3>1
      <4> QED  BY <2>1, <2>2, <2>3, <2>4, <4>1, <4>2
    <3>2. CASE handler'.toStore = S \cup {c} /\ c \notin S
      <4>1. Cardinality(handler'.toStore) = Cardinality(S) + 1
        BY <2>6, <3>2
      <4>2. handler'.toStore # S
        BY <3>2
      <4>3. handler'.rejects = handler.rejects /\ handler'.repeats = handler.repeats
        BY <2>5, <4>2
      <4> QED  BY <2>1, <2>2, <2>3, <2>4, <4>1, <4>3
    <3> QED  BY <2>5, <3>1, <3>2
  <2> QED  BY <2>7 DEF TallyInv
<1>6. CASE StoreEvents
  BY <1>1, <1>6, StoreFrame DEF Validated
<1>7. CASE Later
  BY <1>1, <1>7, LaterFrame
<1>8. CASE ApplyRetention \/ Tick
  BY <1>1, <1>8 DEF ApplyRetention, Tick
<1> QED
  BY <1>2, <1>3, <1>4, <1>5, <1>6, <1>7, <1>8, Steps DEF Later

\* The acknowledgement of a batch accounts for what the batch lists.
LEMMA RespondAddsUp ==
    ASSUME TypeOK, HandlerInv, LoopInv, TallyInv, handler.phase = "respond"
    PROVE  LET a == BuildAcknowledgement
               copies == handler.batch.copies
           IN  /\ a.counts.received = Len(copies)
               /\ a.counts.received = a.counts.stored + a.counts.duplicate + a.counts.rejected
               /\ Accepted(a) \cup a.rejected = Ids(Range(copies))
               /\ Accepted(a) \cap a.rejected \subseteq Repeated(copies)
<1> DEFINE a == BuildAcknowledgement
           copies == handler.batch.copies
           X == handler.rejected
           T == Ids(handler.toStore)
<1>1. Accepted(a) = T /\ a.rejected = X /\ a.counts = HandlerCounts
  BY DEF BuildAcknowledgement, Accepted, LoopInv
<1>2. /\ handler.next = Len(copies) + 1 /\ handler.stored \in SUBSET handler.toStore
      /\ handler.toStore \in SUBSET Copies
      /\ Cardinality(handler.toStore) + handler.rejects + handler.repeats = handler.next - 1
      /\ Len(copies) \in Nat /\ DOMAIN copies = 1..Len(copies)
      /\ handler.rejects \in Nat /\ handler.repeats \in Nat
  <2>1. handler.next = Len(copies) + 1 /\ handler.stored \in SUBSET handler.toStore
    BY DEF LoopInv
  <2>2. /\ handler.toStore \in SUBSET Copies /\ handler.batch \in Batch \cup {NoBatch}
        /\ handler.rejects \in Nat /\ handler.repeats \in Nat
    BY HandlerType DEF HandlerSet
  <2>3. Len(copies) \in Nat /\ DOMAIN copies = 1..Len(copies)
    BY <2>2, Lists
  <2> QED  BY <2>1, <2>2, <2>3 DEF TallyInv
<1>3. Seen = DOMAIN copies
  <2> HIDE DEF copies
  <2>1. \A i \in DOMAIN copies : i < handler.next
    BY <1>2
  <2> QED  BY <2>1 DEF Seen, copies
<1>4. a.counts.received = Len(copies)
  BY <1>1 DEF HandlerCounts
<1>5. a.counts.stored + a.counts.duplicate + a.counts.rejected = Len(copies)
  <2> DEFINE s == Cardinality(handler.stored)
             d == Cardinality(handler.toStore \ handler.stored)
  <2>1. Cardinality(handler.toStore) = s + d
    BY <1>2, SplitCount
  <2>2. s \in Nat /\ d \in Nat
    <3>1. handler.stored \in SUBSET Copies /\ handler.toStore \ handler.stored \in SUBSET Copies
      BY <1>2
    <3> QED  BY <3>1, CopiesCardinality
  <2>3. /\ a.counts.stored = s /\ a.counts.duplicate = d + handler.repeats
        /\ a.counts.rejected = handler.rejects
    BY <1>1 DEF HandlerCounts
  <2> HIDE DEF a, s, d, copies
  <2> QED  BY <1>2, <2>1, <2>2, <2>3
<1>6. /\ \A i \in DOMAIN copies : IdOf[copies[i]] \in X \cup T
      /\ \A e \in X \cup T : \E i \in DOMAIN copies : IdOf[copies[i]] = e
      /\ \A e \in X \cap T : \E i, j \in DOMAIN copies :
            i # j /\ IdOf[copies[i]] = e /\ IdOf[copies[j]] = e
  BY <1>3 DEF LoopInv, SeenId
<1>7. Ids(Range(copies)) = {IdOf[copies[i]] : i \in DOMAIN copies}
  BY DEF Ids, Range
<1>8. X \cup T = Ids(Range(copies))
  <2> HIDE DEF X, T, copies
  <2> QED  BY <1>6, <1>7
<1>9. X \cap T \subseteq Repeated(copies)
  <2> HIDE DEF X, T, copies
  <2>1. ASSUME NEW e \in X \cap T
        PROVE  e \in Repeated(copies)
    <3>1. PICK i \in DOMAIN copies, j \in DOMAIN copies :
             i # j /\ IdOf[copies[i]] = e /\ IdOf[copies[j]] = e
      BY <1>6
    <3>2. i \in {k \in DOMAIN copies : \E l \in DOMAIN copies \ {k} :
                                          IdOf[copies[l]] = IdOf[copies[k]]}
      BY <3>1
    <3> QED  BY <3>1, <3>2 DEF Repeated
  <2> QED  BY <2>1
<1> QED  BY <1>1, <1>4, <1>5, <1>8, <1>9

LEMMA AddUpStep ==
    ASSUME TypeOK, IndInv, TallyInv, VerdictsAddUp, [Next]_vars
    PROVE  VerdictsAddUp'
<1> SUFFICES ASSUME NEW b \in BatchIds, NEW i \in issued'[b]
             PROVE  /\ i.ack.counts.received = Len(sent'[b])
                    /\ i.ack.counts.received
                         = i.ack.counts.stored + i.ack.counts.duplicate + i.ack.counts.rejected
                    /\ Accepted(i.ack) \cup i.ack.rejected = Ids(Range(sent'[b]))
                    /\ Accepted(i.ack) \cap i.ack.rejected \subseteq Repeated(sent'[b])
  BY DEF VerdictsAddUp, Accepted, Repeated, Ids, Range
<1>1. BatchInv /\ HandlerInv /\ LoopInv
  BY DEF IndInv
<1>2. CASE i \in issued[b]
  <2>1. sent'[b] = sent[b]
    BY <1>1, <1>2, SentFrame DEF BatchInv
  <2> QED  BY <1>2, <2>1 DEF VerdictsAddUp
<1>3. CASE i \notin issued[b]
  <2>1. /\ Respond /\ b = handler.batch.id
        /\ i = [ack |-> BuildAcknowledgement, rows |-> handler.stored]
    BY <1>1, <1>3, IssuedFrame
  <2>2. sent'[b] = sent[b]
    BY <2>1 DEF Respond
  <2>3. sent[b] = handler.batch.copies
    <3>1. handler.batch # NoBatch
      BY <1>1, <2>1, IssuedFrame DEF NoBatch, BatchIds
    <3> QED  BY <1>1, <2>1, <3>1 DEF BatchInv
  <2>4. i.ack = BuildAcknowledgement /\ handler.phase = "respond"
    BY <2>1 DEF Respond
  <2> QED  BY <1>1, <2>2, <2>3, <2>4, RespondAddsUp
<1> QED  BY <1>2, <1>3

\* Every event of a request gets a verdict, only one listed more than once can
\* get both kinds, and the counts of the acknowledgement account for every copy
\* in the request.
THEOREM CountsAccount == Spec => []VerdictsAddUp
<1>1. Init => TallyInv /\ VerdictsAddUp
  BY DEF Init, TallyInv, VerdictsAddUp, Idle
<1>2. /\ TypeOK /\ IndInv /\ TallyInv /\ VerdictsAddUp /\ [Next]_vars
      => (TallyInv /\ VerdictsAddUp)'
  BY TallyStep, AddUpStep DEF IndInv
<1> QED  BY <1>1, <1>2, TypeCorrect, Invariance, PTL DEF Spec
=============================================================================
