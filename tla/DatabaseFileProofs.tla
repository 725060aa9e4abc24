-------------------------- MODULE DatabaseFileProofs --------------------------
(***************************************************************************)
(* Proofs about DatabaseFile, for any number of processes, events,         *)
(* migrations and faults: what the log holds after any deaths, power       *)
(* failures and racing starts.                                             *)
(***************************************************************************)
EXTENDS DatabaseFile, SequenceTheorems, TLAPS

\* The places of the app that come after its migrations.
Migrating == {"down", "opened", "migrating", "applying"}

\* What a process has migrated is in the log.
VersionInv == \A p \in Processes : \A v \in 1..version[p] : Logged(Migration(v))

\* The app writes only after its last migration.
PlaceInv == place[App] \notin Migrating => version[App] = LastVersion

\* The handler's event has its row when its verdict is written.
HandlingInv ==
    place[App] \in {"recording", "record", "recorded"} =>
        \A e \in handling : Logged(Row(e))

\* A request has one event.
SingleInv == \A a, b \in handling : a = b

IndInv ==
    /\ TypeOK
    /\ SingleInv
    /\ VersionInv
    /\ PlaceInv
    /\ HandlingInv
    /\ VerdictsHaveRows
    /\ SchemaOnceInOrder
    /\ AcceptedSurvivesCrashes

-----------------------------------------------------------------------------
(* The log.                                                                 *)

\* What Append does to the log.
LEMMA Appended ==
    ASSUME log \in Seq(Entry), NEW x \in Entry
    PROVE  /\ Append(log, x) \in Seq(Entry)
           /\ Len(Append(log, x)) = Len(log) + 1
           /\ DOMAIN Append(log, x) = 1..(Len(log) + 1)
           /\ \A i \in 1..Len(log) : Append(log, x)[i] = log[i]
           /\ Append(log, x)[Len(log) + 1] = x
           /\ DOMAIN log = 1..Len(log)
           /\ Len(log) \in Nat
  OBVIOUS

\* What a power failure leaves of it.
LEMMA Cut ==
    ASSUME log \in Seq(Entry), NEW n \in 0..Len(log)
    PROVE  /\ SubSeq(log, 1, n) \in Seq(Entry)
           /\ Len(SubSeq(log, 1, n)) = n
           /\ DOMAIN SubSeq(log, 1, n) = 1..n
           /\ \A i \in 1..n : SubSeq(log, 1, n)[i] = log[i]
           /\ DOMAIN log = 1..Len(log)
           /\ Len(log) \in Nat
  <1>1. Len(log) \in Nat /\ DOMAIN log = 1..Len(log)
    OBVIOUS
  <1>2. \A i \in 1..n : log[i] \in Entry
    BY <1>1
  <1>3. QED
    BY <1>1, <1>2, SubSeqProperties

\* An entry that is in the log stays in it when another one is appended.
LEMMA StaysLogged ==
    ASSUME log \in Seq(Entry), NEW x \in Entry, log' = Append(log, x), NEW y, Logged(y)
    PROVE  Logged(y)'
  BY Appended DEF Logged

\* The appended entry is in the log.
LEMMA NowLogged ==
    ASSUME log \in Seq(Entry), NEW x \in Entry, log' = Append(log, x)
    PROVE  Logged(x)'
  <1>1. Len(log) + 1 \in DOMAIN log' /\ log'[Len(log) + 1] = x
    BY Appended
  <1>2. QED
    BY <1>1 DEF Logged

-----------------------------------------------------------------------------
(* Type correctness.                                                        *)

LEMMA EntryTypes ==
    /\ \A e \in Events : Row(e) \in Entry /\ Verdict(e) \in Entry
    /\ \A v \in Versions : Migration(v) \in Entry
  BY DEF Entry, Row, Verdict, Migration

LEMMA TypeInit == Init => TypeOK
  BY FileAssumption DEF Init, TypeOK, Processes, Places

\* Each action keeps the types.
LEMMA TypeStep == TypeOK /\ [Next]_vars => TypeOK'
  <1> SUFFICES ASSUME TypeOK, [Next]_vars PROVE TypeOK'
    OBVIOUS
  <1> USE FileAssumption DEF TypeOK, Places, Waiting, Inside
  <1>1. ASSUME NEW p \in Processes, Open(p) PROVE TypeOK'
    BY <1>1 DEF Open
  <1>2. ASSUME NEW p \in Processes, ReadVersion(p) PROVE TypeOK'
    BY <1>2 DEF ReadVersion
  <1>3. ASSUME NEW p \in Processes, Apply(p) PROVE TypeOK'
    <2>1. PICK v \in Versions : log' = Append(log, Migration(v))
                               /\ version' = [version EXCEPT ![p] = v]
      BY <1>3 DEF Apply, Due
    <2>2. log' \in Seq(Entry) /\ synced' \in 0..Len(log')
      BY <1>3, <2>1, EntryTypes, Appended DEF Apply
    <2>3. QED
      BY <1>3, <2>1, <2>2 DEF Apply, Versions
  <1>4. ASSUME NEW p \in Processes, ApplyFails(p) PROVE TypeOK'
    BY <1>4 DEF ApplyFails
  <1>5. ASSUME NEW p \in Processes, Migrated(p) PROVE TypeOK'
    BY <1>5 DEF Migrated
  <1>6. ASSUME NEW p \in Processes, Begin(p) PROVE TypeOK'
    BY <1>6 DEF Begin, InTransaction
  <1>7. ASSUME NEW p \in Processes, EndWrite(p) PROVE TypeOK'
    BY <1>7 DEF EndWrite
  <1>8. ASSUME NEW p \in Processes, BeginTimesOut(p) PROVE TypeOK'
    BY <1>8 DEF BeginTimesOut
  <1>9. ASSUME NEW p \in Processes, Crash(p) PROVE TypeOK'
    BY <1>9 DEF Crash
  <1>10. CASE Receive
    BY <1>10 DEF Receive
  <1>11. CASE Store
    <2>1. PICK e \in handling : Insert(Row(e))
      BY <1>11 DEF Store
    <2>2. log' \in Seq(Entry) /\ synced' \in 0..Len(log')
      BY <1>11, <2>1, EntryTypes, Appended DEF Store, Insert
    <2>3. QED
      BY <1>11, <2>2 DEF Store
  <1>12. CASE Record
    <2>1. PICK e \in handling : Insert(Verdict(e))
      BY <1>12 DEF Record
    <2>2. log' \in Seq(Entry) /\ synced' \in 0..Len(log')
      BY <1>12, <2>1, EntryTypes, Appended DEF Record, Insert
    <2>3. QED
      BY <1>12, <2>2 DEF Record
  <1>13. CASE Reply
    BY <1>13 DEF Reply
  <1>14. CASE Sync
    BY <1>14 DEF Sync
  <1>15. CASE PowerFails
    <2>1. PICK n \in synced..Len(log) : log' = SubSeq(log, 1, n)
      BY <1>15 DEF PowerFails
    <2>2. n \in 0..Len(log)
      BY <2>1
    <2>3. log' \in Seq(Entry) /\ synced' \in 0..Len(log')
      BY <1>15, <2>1, <2>2, Cut DEF PowerFails
    <2>4. undone' \subseteq Events
      BY <1>15 DEF PowerFails
    <2>5. QED
      BY <1>15, <2>3, <2>4 DEF PowerFails
  <1>16. CASE UNCHANGED vars
    BY <1>16 DEF vars
  <1>17. QED
    BY <1>1, <1>2, <1>3, <1>4, <1>5, <1>6, <1>7, <1>8, <1>9, <1>10, <1>11, <1>12,
       <1>13, <1>14, <1>15, <1>16 DEF Next, Step, Ingest, Done

\* Type correctness of the file, its processes and the phone.
THEOREM TypeCorrect == Spec => []TypeOK
  BY TypeInit, TypeStep, PTL DEF Spec

-----------------------------------------------------------------------------
(* The steps that change the log: a migration, a row, a verdict, a power    *)
(* failure.  Every other step leaves it alone.                              *)

Appends(x) == log' = Append(log, x) /\ x \in Entry

LEMMA LogSteps ==
    ASSUME IndInv, [Next]_vars
    PROVE  \/ log' = log
           \/ \E p \in Processes : Apply(p)
           \/ \E e \in handling : Store /\ ~Logged(Row(e)) /\ Appends(Row(e))
           \/ \E e \in handling : Record /\ ~Logged(Verdict(e)) /\ Appends(Verdict(e))
           \/ PowerFails
  <1> USE DEF IndInv, TypeOK
  <1>1. CASE Store
    BY <1>1, EntryTypes DEF Store, Insert, Appends
  <1>2. CASE Record
    BY <1>2, EntryTypes DEF Record, Insert, Appends
  <1>3. ASSUME NEW p \in Processes, Step(p) \/ BeginTimesOut(p) \/ Crash(p)
        PROVE  log' = log \/ Apply(p)
    BY <1>3 DEF Step, Open, ReadVersion, ApplyFails, Migrated, Begin, EndWrite,
                BeginTimesOut, Crash
  <1>4. CASE Receive \/ Reply \/ Sync \/ Done \/ UNCHANGED vars
    BY <1>4 DEF Receive, Reply, Sync, Done, vars
  <1>5. QED
    BY <1>1, <1>2, <1>3, <1>4 DEF Next, Ingest

\* A migration is applied on top of exactly those before it: what the process
\* has migrated is in the log, and a later one would have brought its own along.
LEMMA ApplyNext ==
    ASSUME IndInv, NEW p \in Processes, Apply(p)
    PROVE  \E v \in Versions :
              /\ Appends(Migration(v))
              /\ version' = [version EXCEPT ![p] = v]
              /\ \A w \in Versions : Logged(Migration(w)) <=> w < v
              /\ \A w \in Versions : w < v <=> w <= version[p]
  <1> USE FileAssumption DEF IndInv, TypeOK
  <1>1. PICK v \in Due(p) : /\ \A w \in Due(p) : v <= w
                             /\ log' = Append(log, Migration(v))
                             /\ version' = [version EXCEPT ![p] = v]
    BY DEF Apply
  <1>2. v \in Versions /\ version[p] \in 0..LastVersion /\ v > version[p]
    BY <1>1 DEF Due
  <1>3. ~Logged(Migration(v))
    BY <1>1 DEF Apply, Refused
  <1>4. \A w \in Versions : w < v <=> w <= version[p]
    BY <1>1, <1>2 DEF Due, Versions
  <1>5. ASSUME NEW w \in Versions, w < v PROVE Logged(Migration(w))
    BY <1>4, <1>5, <1>2 DEF VersionInv, Versions
  <1>6. ASSUME NEW w \in Versions, Logged(Migration(w)) PROVE w < v
    <2>1. PICK i \in DOMAIN log : log[i] = Migration(w)
      BY <1>6 DEF Logged
    <2>2. log[i].kind = "version" /\ log[i].of = w
      BY <2>1 DEF Migration
    <2>3. (\E j \in 1..(i - 1) : log[j] = Migration(v)) <=> v < w
      BY <1>2, <2>2 DEF SchemaOnceInOrder
    <2>4. ~(\E j \in 1..(i - 1) : log[j] = Migration(v))
      BY <1>3 DEF Logged
    <2>5. w # v
      BY <1>3, <1>6
    <2>6. QED
      BY <1>2, <2>3, <2>4, <2>5 DEF Versions
  <1>7. QED
    BY <1>1, <1>2, <1>4, <1>5, <1>6, EntryTypes DEF Appends, Versions

\* Entry i of a log l stands where SchemaOnceInOrder wants it.
InOrder(l, i) ==
    IF l[i].kind = "version"
    THEN \A v \in Versions : (\E j \in 1..(i - 1) : l[j] = Migration(v)) <=> v < l[i].of
    ELSE \E j \in 1..(i - 1) : l[j] = Migration(LastVersion)

\* The order of migrations and data.
LEMMA SchemaStep == IndInv /\ [Next]_vars => SchemaOnceInOrder'
  <1> SUFFICES ASSUME IndInv, [Next]_vars PROVE SchemaOnceInOrder'
    OBVIOUS
  <1> USE FileAssumption DEF IndInv, TypeOK
  <1>1. CASE log' = log
    BY <1>1 DEF SchemaOnceInOrder
  <1>2. ASSUME NEW x \in Entry, Appends(x),
               IF x.kind = "version"
               THEN \A v \in Versions : Logged(Migration(v)) <=> v < x.of
               ELSE Logged(Migration(LastVersion))
        PROVE  SchemaOnceInOrder'
    <2>1. /\ DOMAIN log' = 1..(Len(log) + 1) /\ DOMAIN log = 1..Len(log)
          /\ Len(log) \in Nat
          /\ log'[Len(log) + 1] = x
          /\ \A i \in 1..Len(log) : log'[i] = log[i]
      BY <1>2, Appended DEF Appends
    <2>2. ASSUME NEW i \in 1..Len(log)
          PROVE  \A y : (\E j \in 1..(i - 1) : log'[j] = y)
                        <=> (\E j \in 1..(i - 1) : log[j] = y)
      BY <2>1
    <2>3. \A y : (\E j \in 1..Len(log) : log'[j] = y) <=> Logged(y)
      BY <2>1 DEF Logged
    <2>4. ASSUME NEW i \in 1..Len(log)
          PROVE  IF log'[i].kind = "version"
                 THEN \A v \in Versions :
                        (\E j \in 1..(i - 1) : log'[j] = Migration(v)) <=> v < log'[i].of
                 ELSE \E j \in 1..(i - 1) : log'[j] = Migration(LastVersion)
      BY <2>1, <2>2 DEF SchemaOnceInOrder
    <2>5. IF x.kind = "version"
          THEN \A v \in Versions :
                 (\E j \in 1..Len(log) : log'[j] = Migration(v)) <=> v < x.of
          ELSE \E j \in 1..Len(log) : log'[j] = Migration(LastVersion)
      BY <1>2, <2>3
    <2>6. (Len(log) + 1) - 1 = Len(log)
      BY <2>1
    <2>7. SUFFICES ASSUME NEW i \in DOMAIN log'
                   PROVE  InOrder(log', i)
      BY DEF SchemaOnceInOrder, InOrder
    <2>8. CASE i = Len(log) + 1
      BY <2>1, <2>5, <2>6, <2>8 DEF InOrder
    <2>9. CASE i \in 1..Len(log)
      BY <2>4, <2>9 DEF InOrder
    <2>10. QED
      BY <2>1, <2>8, <2>9
  <1>3. ASSUME NEW p \in Processes, Apply(p) PROVE SchemaOnceInOrder'
    <2>1. PICK v \in Versions : /\ Appends(Migration(v))
                                 /\ \A w \in Versions : Logged(Migration(w)) <=> w < v
      BY <1>3, ApplyNext
    <2>2. Migration(v).kind = "version" /\ Migration(v).of = v /\ Migration(v) \in Entry
      BY EntryTypes DEF Migration
    <2>3. QED
      BY <1>2, <2>1, <2>2
  <1>4. ASSUME Store \/ Record PROVE Logged(Migration(LastVersion))
    <2>1. version[App] = LastVersion
      BY <1>4 DEF Store, Record, PlaceInv, Migrating
    <2>2. LastVersion \in 1..version[App] /\ App \in Processes
      BY <2>1 DEF Processes
    <2>3. QED
      BY <2>2 DEF VersionInv
  <1>5. ASSUME NEW e \in handling, Store, Appends(Row(e)) PROVE SchemaOnceInOrder'
    <2>1. Row(e).kind # "version" /\ Row(e) \in Entry
      BY <1>5 DEF Row, Appends
    <2>2. QED
      BY <1>2, <1>4, <1>5, <2>1
  <1>6. ASSUME NEW e \in handling, Record, Appends(Verdict(e)) PROVE SchemaOnceInOrder'
    <2>1. Verdict(e).kind # "version" /\ Verdict(e) \in Entry
      BY <1>6 DEF Verdict, Appends
    <2>2. QED
      BY <1>2, <1>4, <1>6, <2>1
  <1>7. CASE PowerFails
    <2>1. PICK n \in 0..Len(log) : log' = SubSeq(log, 1, n)
      BY <1>7 DEF PowerFails
    <2>2. /\ DOMAIN log' = 1..n /\ DOMAIN log = 1..Len(log) /\ Len(log) \in Nat
          /\ \A i \in 1..n : log'[i] = log[i]
      BY <2>1, Cut
    <2>3. ASSUME NEW i \in 1..n
          PROVE  \A y : (\E j \in 1..(i - 1) : log'[j] = y)
                        <=> (\E j \in 1..(i - 1) : log[j] = y)
      BY <2>2
    <2>4. SUFFICES ASSUME NEW i \in DOMAIN log'
                   PROVE  InOrder(log', i)
      BY DEF SchemaOnceInOrder, InOrder
    <2>5. i \in 1..n /\ i \in DOMAIN log /\ log'[i] = log[i]
      BY <2>2
    <2>6. InOrder(log, i)
      BY <2>5 DEF SchemaOnceInOrder, InOrder
    <2>7. QED
      BY <2>3, <2>5, <2>6 DEF InOrder
  <1>8. QED
    BY <1>1, <1>3, <1>5, <1>6, <1>7, LogSteps

\* An entry leaves the log in a power failure only.
LEMMA LoggedStays ==
    ASSUME IndInv, [Next]_vars, ~PowerFails, NEW y, Logged(y)
    PROVE  Logged(y)'
  <1> USE DEF IndInv, TypeOK
  <1>1. CASE log' = log
    BY <1>1 DEF Logged
  <1>2. ASSUME NEW x, Appends(x) PROVE Logged(y)'
    BY <1>2, StaysLogged DEF Appends
  <1>3. ASSUME NEW p \in Processes, Apply(p) PROVE \E x : Appends(x)
    BY <1>3, ApplyNext
  <1>4. QED
    BY <1>1, <1>2, <1>3, LogSteps

LEMMA AppendedLogged ==
    ASSUME IndInv, NEW x, Appends(x)
    PROVE  Logged(x)'
  BY NowLogged DEF Appends, IndInv, TypeOK

\* Verdicts and rows.
LEMMA VerdictStep == IndInv /\ [Next]_vars => VerdictsHaveRows'
  <1> SUFFICES ASSUME IndInv, [Next]_vars PROVE VerdictsHaveRows'
    OBVIOUS
  <1> USE DEF IndInv, TypeOK
  <1>1. CASE log' = log
    BY <1>1 DEF VerdictsHaveRows
  <1>2. ASSUME NEW x \in Entry, Appends(x), x.kind = "verdict" => Logged(Row(x.of))
        PROVE  VerdictsHaveRows'
    <2>1. /\ DOMAIN log' = 1..(Len(log) + 1) /\ DOMAIN log = 1..Len(log)
          /\ Len(log) \in Nat
          /\ log'[Len(log) + 1] = x
          /\ \A i \in 1..Len(log) : log'[i] = log[i]
      BY <1>2, Appended DEF Appends
    <2>2. SUFFICES ASSUME NEW i \in DOMAIN log', log'[i].kind = "verdict"
                   PROVE  \E j \in 1..(i - 1) : log'[j] = Row(log'[i].of)
      BY DEF VerdictsHaveRows, Row
    <2>3. CASE i = Len(log) + 1
      <3>1. PICK j \in 1..Len(log) : log[j] = Row(x.of)
        BY <1>2, <2>1, <2>2, <2>3 DEF Logged
      <3>2. j \in 1..(i - 1) /\ log'[j] = Row(log'[i].of)
        BY <2>1, <2>3, <3>1
      <3>3. QED
        BY <3>2
    <2>4. CASE i \in 1..Len(log)
      <3>1. log[i].kind = "verdict" /\ log'[i] = log[i]
        BY <2>1, <2>2, <2>4
      <3>2. PICK j \in 1..(i - 1) : log[j] = Row(log[i].of)
        BY <2>1, <2>4, <3>1 DEF VerdictsHaveRows
      <3>3. j \in 1..Len(log)
        BY <2>1, <2>4
      <3>4. QED
        BY <2>1, <3>1, <3>2, <3>3
    <2>5. QED
      BY <2>1, <2>3, <2>4
  <1>3. ASSUME NEW p \in Processes, Apply(p) PROVE VerdictsHaveRows'
    <2>1. PICK v \in Versions : Appends(Migration(v))
      BY <1>3, ApplyNext
    <2>2. Migration(v).kind # "verdict" /\ Migration(v) \in Entry
      BY EntryTypes DEF Migration
    <2>3. QED
      BY <1>2, <2>1, <2>2
  <1>4. ASSUME NEW e \in handling, Store, Appends(Row(e)) PROVE VerdictsHaveRows'
    <2>1. Row(e).kind # "verdict" /\ Row(e) \in Entry
      BY <1>4 DEF Row, Appends
    <2>2. QED
      BY <1>2, <1>4, <2>1
  <1>5. ASSUME NEW e \in handling, Record, Appends(Verdict(e)) PROVE VerdictsHaveRows'
    <2>1. Logged(Row(e))
      BY <1>5 DEF Record, HandlingInv
    <2>2. Verdict(e).of = e /\ Verdict(e) \in Entry
      BY <1>5 DEF Verdict, Appends
    <2>3. QED
      BY <1>2, <1>5, <2>1, <2>2
  <1>6. CASE PowerFails
    <2>1. PICK n \in 0..Len(log) : log' = SubSeq(log, 1, n)
      BY <1>6 DEF PowerFails
    <2>2. /\ DOMAIN log' = 1..n /\ DOMAIN log = 1..Len(log) /\ Len(log) \in Nat
          /\ \A i \in 1..n : log'[i] = log[i]
      BY <2>1, Cut
    <2>3. SUFFICES ASSUME NEW i \in DOMAIN log', log'[i].kind = "verdict"
                   PROVE  \E j \in 1..(i - 1) : log'[j] = Row(log'[i].of)
      BY DEF VerdictsHaveRows, Row
    <2>4. i \in 1..n /\ i \in DOMAIN log /\ log'[i] = log[i]
      BY <2>2
    <2>5. PICK j \in 1..(i - 1) : log[j] = Row(log[i].of)
      BY <2>3, <2>4 DEF VerdictsHaveRows
    <2>6. QED
      BY <2>2, <2>4, <2>5
  <1>7. QED
    BY <1>1, <1>3, <1>4, <1>5, <1>6, LogSteps

\* What has been migrated, and the place of the app.
LEMMA VersionStep == IndInv /\ [Next]_vars => VersionInv'
  <1> SUFFICES ASSUME IndInv, [Next]_vars,
                      NEW q \in Processes, NEW v \in 1..version'[q]
               PROVE  Logged(Migration(v))'
    BY DEF VersionInv, Migration
  <1> USE FileAssumption DEF IndInv, TypeOK
  <1>1. CASE PowerFails
    BY <1>1 DEF PowerFails
  <1>2. ASSUME ~PowerFails, v \in 1..version[q] PROVE Logged(Migration(v))'
    BY <1>2, LoggedStays DEF VersionInv
  <1>3. ASSUME NEW p \in Processes, Apply(p), ~PowerFails PROVE Logged(Migration(v))'
    <2>1. PICK u \in Versions : /\ Appends(Migration(u))
                                 /\ version' = [version EXCEPT ![p] = u]
                                 /\ \A w \in Versions : Logged(Migration(w)) <=> w < u
      BY <1>3, ApplyNext
    <2>2. CASE p # q
      BY <1>2, <1>3, <2>1, <2>2
    <2>3. CASE p = q /\ v < u
      BY <1>3, <2>1, <2>3, LoggedStays DEF Versions
    <2>4. CASE p = q /\ v = u
      BY <2>1, <2>4, AppendedLogged
    <2>5. QED
      BY <2>1, <2>2, <2>3, <2>4 DEF Versions
  <1>4. ASSUME NEW p \in Processes, ReadVersion(p) PROVE Logged(Migration(v))'
    <2>1. PICK u \in 0..LastVersion : SchemaVersion(u) /\ version' = [version EXCEPT ![p] = u]
      BY <1>4 DEF ReadVersion
    <2>2. log' = log
      BY <1>4 DEF ReadVersion
    <2>3. CASE p # q
      BY <2>1, <2>2, <2>3 DEF VersionInv, Logged
    <2>4. CASE p = q
      <3>1. v \in 1..u /\ u \in Versions
        BY <2>1, <2>4 DEF Versions
      <3>2. Logged(Migration(u))
        BY <2>1, <3>1 DEF SchemaVersion, Recorded, Versions
      <3>3. PICK i \in DOMAIN log : log[i] = Migration(u)
        BY <3>2 DEF Logged
      <3>4. log[i].kind = "version" /\ log[i].of = u
        BY <3>3 DEF Migration
      <3>5. CASE v < u
        <4>1. \E j \in 1..(i - 1) : log[j] = Migration(v)
          <5>1. v \in Versions /\ i \in DOMAIN log
            BY <3>1, <3>3, <3>5 DEF Versions
          <5>2. (\E j \in 1..(i - 1) : log[j] = Migration(v)) <=> v < log[i].of
            BY <3>4, <5>1 DEF SchemaOnceInOrder
          <5>3. QED
            BY <3>4, <3>5, <5>2
        <4>2. QED
          BY <4>1, <2>2, <3>3 DEF Logged
      <3>6. CASE v = u
        BY <2>2, <3>2, <3>6 DEF Logged
      <3>7. QED
        BY <3>1, <3>5, <3>6 DEF Versions
    <2>5. QED
      BY <2>3, <2>4
  <1>5. ASSUME NEW p \in Processes,
               ApplyFails(p) \/ BeginTimesOut(p) \/ Crash(p), ~PowerFails
        PROVE  Logged(Migration(v))'
    <2>1. version' = version \/ version' = [version EXCEPT ![p] = 0]
      BY <1>5 DEF ApplyFails, BeginTimesOut, Crash
    <2>2. v \in 1..version[q]
      BY <2>1
    <2>3. QED
      BY <1>2, <1>5, <2>2
  <1>6. CASE version' = version
    BY <1>1, <1>2, <1>6
  <1>7. ASSUME NEW p \in Processes, Open(p) \/ Migrated(p) \/ Begin(p) \/ EndWrite(p)
        PROVE  version' = version
    BY <1>7 DEF Open, Migrated, Begin, EndWrite
  <1>8. CASE Ingest \/ Sync \/ Done \/ UNCHANGED vars
    BY <1>6, <1>8 DEF Ingest, Receive, Store, Record, Reply, Sync, Done, vars
  <1>9. QED
    BY <1>1, <1>3, <1>4, <1>5, <1>6, <1>7, <1>8 DEF Next, Step

LEMMA PlaceStep == IndInv /\ [Next]_vars => PlaceInv'
  <1> SUFFICES ASSUME IndInv, [Next]_vars PROVE PlaceInv'
    OBVIOUS
  <1> App \in Processes /\ App \notin Tools
    BY FileAssumption DEF Processes
  <1> USE FileAssumption DEF IndInv, TypeOK, PlaceInv, Migrating
  <1>1. ASSUME NEW p \in Processes, Open(p) \/ ReadVersion(p) PROVE PlaceInv'
    BY <1>1 DEF Open, ReadVersion
  <1>2. ASSUME NEW p \in Processes, Apply(p) \/ ApplyFails(p) PROVE PlaceInv'
    BY <1>2 DEF Apply, ApplyFails
  <1>3. ASSUME NEW p \in Processes, Migrated(p) PROVE PlaceInv'
    <2>1. version[p] = LastVersion
      <3>1. \A v \in Versions : ~(v > version[p])
        BY <1>3 DEF Migrated, Due
      <3>2. LastVersion \in Versions /\ version[p] \in 0..LastVersion
        BY DEF Versions
      <3>3. ~(LastVersion > version[p])
        BY <3>1, <3>2
      <3>4. QED
        BY <3>2, <3>3
    <2>2. QED
      BY <1>3, <2>1 DEF Migrated
  <1>4. ASSUME NEW p \in Processes, Begin(p) PROVE PlaceInv'
    BY <1>4 DEF Begin, InTransaction, Wants
  <1>5. ASSUME NEW p \in Processes, EndWrite(p) PROVE PlaceInv'
    BY <1>5 DEF EndWrite
  <1>6. ASSUME NEW p \in Processes, BeginTimesOut(p) PROVE PlaceInv'
    BY <1>6 DEF BeginTimesOut, Wants
  <1>7. ASSUME NEW p \in Processes, Crash(p) PROVE PlaceInv'
    BY <1>7 DEF Crash
  <1>8. CASE Ingest
    BY <1>8 DEF Ingest, Receive, Store, Record, Reply
  <1>9. CASE PowerFails
    BY <1>9 DEF PowerFails
  <1>10. CASE Sync \/ Done \/ UNCHANGED vars
    BY <1>10 DEF Sync, Done, vars
  <1>11. QED
    BY <1>1, <1>2, <1>3, <1>4, <1>5, <1>6, <1>7, <1>8, <1>9, <1>10 DEF Next, Step

LEMMA SingleStep == IndInv /\ [Next]_vars => SingleInv'
  <1> SUFFICES ASSUME IndInv, [Next]_vars PROVE SingleInv'
    OBVIOUS
  <1> USE DEF IndInv, SingleInv
  <1>1. ASSUME NEW p \in Processes, Step(p) PROVE handling' = handling
    BY <1>1 DEF Step, Open, ReadVersion, Apply, ApplyFails, Migrated, Begin, EndWrite
  <1>2. ASSUME NEW p \in Processes, BeginTimesOut(p) \/ Crash(p)
        PROVE  handling' \in {handling, {}}
    BY <1>2 DEF BeginTimesOut, Crash
  <1>3. CASE Receive
    BY <1>3 DEF Receive
  <1>4. CASE Store \/ Record \/ Reply \/ Sync \/ PowerFails \/ Done \/ UNCHANGED vars
    BY <1>4 DEF Store, Record, Reply, Sync, PowerFails, Done, vars
  <1>5. QED
    BY <1>1, <1>2, <1>3, <1>4 DEF Next, Ingest

\* The event of the app's request.
LEMMA HandlingStep == IndInv /\ [Next]_vars => HandlingInv'
  <1> SUFFICES ASSUME IndInv, [Next]_vars, NEW e \in handling',
                      place'[App] \in {"recording", "record", "recorded"}
               PROVE  Logged(Row(e))'
    BY DEF HandlingInv, Row
  <1> App \in Processes /\ App \notin Tools
    BY FileAssumption DEF Processes
  <1> USE FileAssumption DEF IndInv, TypeOK
  <1>1. ASSUME ~PowerFails, e \in handling,
               place[App] \in {"recording", "record", "recorded"}
        PROVE  Logged(Row(e))'
    <2>1. Logged(Row(e))
      BY <1>1 DEF HandlingInv
    <2>2. QED
      BY <1>1, <2>1, LoggedStays
  <1>2. CASE Store
    <2>1. PICK f \in handling : Insert(Row(f))
      BY <1>2 DEF Store
    <2>2. e \in handling /\ e = f
      BY <1>2, <2>1 DEF Store, SingleInv
    <2>3. CASE Logged(Row(f))
      BY <2>1, <2>2, <2>3 DEF Insert, Logged
    <2>4. CASE ~Logged(Row(f))
      BY <2>1, <2>2, <2>4, AppendedLogged, EntryTypes DEF Insert, Appends
    <2>5. QED
      BY <2>3, <2>4
  <1>3. ASSUME NEW p \in Processes, Step(p) PROVE Logged(Row(e))'
    <2>1. e \in handling /\ ~PowerFails
      BY <1>3 DEF Step, Open, ReadVersion, Apply, ApplyFails, Migrated, Begin, EndWrite,
                  PowerFails
    <2>2. place[App] \in {"recording", "record", "recorded"}
      BY <1>3 DEF Step, Open, ReadVersion, Apply, ApplyFails, Migrated, Begin, EndWrite,
                  InTransaction, Wants
    <2>3. QED
      BY <1>1, <2>1, <2>2
  <1>4. ASSUME NEW p \in Processes, BeginTimesOut(p) \/ Crash(p), ~PowerFails
        PROVE  Logged(Row(e))'
    <2>1. e \in handling /\ place[App] \in {"recording", "record", "recorded"}
      BY <1>4 DEF BeginTimesOut, Crash
    <2>2. QED
      BY <1>1, <1>4, <2>1
  <1>5. CASE PowerFails
    BY <1>5 DEF PowerFails
  <1>6. CASE (Record \/ Sync \/ Done \/ UNCHANGED vars) /\ ~PowerFails
    <2>1. e \in handling /\ place[App] \in {"recording", "record", "recorded"}
      BY <1>6 DEF Record, Sync, Done, vars
    <2>2. QED
      BY <1>1, <1>6, <2>1
  <1>7. CASE Receive \/ Reply
    BY <1>7 DEF Receive, Reply
  <1>8. QED
    BY <1>2, <1>3, <1>4, <1>5, <1>6, <1>7 DEF Next, Ingest

\* What the phone was told.
LEMMA AcceptedStep == IndInv /\ [Next]_vars => AcceptedSurvivesCrashes'
  <1> SUFFICES ASSUME IndInv, [Next]_vars, NEW e \in accepted'
               PROVE  Logged(Row(e))' \/ e \in undone'
    BY DEF AcceptedSurvivesCrashes, Row
  <1> USE DEF IndInv, TypeOK
  <1>1. CASE PowerFails
    <2>1. PICK n \in synced..Len(log) :
             /\ log' = SubSeq(log, 1, n)
             /\ undone' = undone \cup
                   {f \in Events : \E i \in (n + 1)..Len(log) : log[i] = Row(f)}
      BY <1>1 DEF PowerFails
    <2>2. n \in 0..Len(log) /\ e \in accepted /\ e \in Events
      BY <1>1, <2>1 DEF PowerFails
    <2>3. CASE Logged(Row(e))
      <3>1. PICK i \in DOMAIN log : log[i] = Row(e)
        BY <2>3 DEF Logged
      <3>2. /\ DOMAIN log' = 1..n /\ DOMAIN log = 1..Len(log) /\ Len(log) \in Nat
            /\ \A j \in 1..n : log'[j] = log[j]
        BY <2>1, <2>2, Cut
      <3>3. CASE i \in 1..n
        <4>1. i \in DOMAIN log' /\ log'[i] = Row(e)
          BY <3>1, <3>2, <3>3
        <4>2. QED
          BY <4>1 DEF Logged
      <3>4. CASE i \in (n + 1)..Len(log)
        BY <2>1, <2>2, <3>1, <3>4
      <3>5. QED
        BY <2>2, <3>1, <3>2, <3>3, <3>4
    <2>4. CASE e \in undone
      BY <2>1, <2>4
    <2>5. QED
      BY <2>2, <2>3, <2>4 DEF AcceptedSurvivesCrashes
  <1>2. ASSUME ~PowerFails, Logged(Row(e)) PROVE Logged(Row(e))'
    BY <1>2, LoggedStays
  <1>3. ~PowerFails => undone' = undone
    BY DEF Next, Step, Ingest, Open, ReadVersion, Apply, ApplyFails, Migrated, Begin,
           EndWrite, BeginTimesOut, Crash, Receive, Store, Record, Reply, Sync, Done, vars
  <1>4. CASE Reply
    <2>1. e \in accepted \/ Logged(Row(e))
      BY <1>4 DEF Reply, HandlingInv
    <2>2. QED
      BY <1>1, <1>2, <1>3, <2>1 DEF AcceptedSurvivesCrashes
  <1>5. CASE accepted' = accepted
    BY <1>1, <1>2, <1>3, <1>5 DEF AcceptedSurvivesCrashes
  <1>6. Reply \/ accepted' = accepted
    BY DEF Next, Step, Ingest, Open, ReadVersion, Apply, ApplyFails, Migrated, Begin,
           EndWrite, BeginTimesOut, Crash, Receive, Store, Record, Sync, PowerFails,
           Done, vars
  <1>7. QED
    BY <1>4, <1>5, <1>6

LEMMA IndInit == Init => IndInv
  <1> SUFFICES ASSUME Init PROVE IndInv
    OBVIOUS
  <1>1. TypeOK
    BY TypeInit
  <1>2. App \in Processes /\ DOMAIN log = {}
    BY DEF Init, Processes
  <1>3. QED
    BY <1>1, <1>2 DEF Init, IndInv, SingleInv, VersionInv, PlaceInv, HandlingInv, Migrating,
         VerdictsHaveRows, SchemaOnceInOrder, AcceptedSurvivesCrashes

\* The inductive invariant holds throughout: the three properties below hold
\* together or not at all.
THEOREM Invariance == Spec => []IndInv
  <1>1. IndInv /\ [Next]_vars => IndInv'
    BY TypeStep, SingleStep, VersionStep, PlaceStep, HandlingStep, VerdictStep, SchemaStep,
       AcceptedStep DEF IndInv
  <1>2. QED
    BY IndInit, <1>1, PTL DEF Spec

\* Whatever processes die and however often the power fails, no verdict is
\* kept without the row it speaks of.
THEOREM VerdictRows == Spec => []VerdictsHaveRows
  <1>1. IndInv => VerdictsHaveRows
    BY DEF IndInv
  <1>2. QED
    BY <1>1, Invariance, PTL

\* However many processes start on the file at once, each migration is applied
\* once, in the order of the versions, and before any data.
THEOREM SchemaOrder == Spec => []SchemaOnceInOrder
  <1>1. IndInv => SchemaOnceInOrder
    BY DEF IndInv
  <1>2. QED
    BY <1>1, Invariance, PTL

\* What the phone was told is in the file, unless a power failure took it out.
THEOREM AcceptedSurvive == Spec => []AcceptedSurvivesCrashes
  <1>1. IndInv => AcceptedSurvivesCrashes
    BY DEF IndInv
  <1>2. QED
    BY <1>1, Invariance, PTL
=============================================================================
