--------------------------- MODULE PublicationProofs ---------------------------
(* Proofs about Publication, for any devices, entities and bounds.           *)
EXTENDS Publication, TLAPS

LoopRecord == [step : Steps, left : SUBSET Devices, device : Devices,
               states : State, entity : Entities]
Shown == [Devices -> [Entities -> State \cup {Absent}]]

-----------------------------------------------------------------------------
(* Lemmas about the loop's place and the states *)

LEMMA AsleepType == Asleep \in LoopRecord /\ Asleep.step = "sleep"
  <1>1. NoState \in State
    BY PublicationAssumption DEF NoState, State, Days
  <1>2. 1 \in Devices /\ 1 \in Entities
    BY PublicationAssumption DEF Devices, Entities
  <1> QED
    BY <1>1, <1>2 DEF Asleep, LoopRecord, Steps

LEMMA CurrentType ==
    ASSUME TypeOK, NEW d \in Devices
    PROVE  Current(d) \in State
  <1>1. yesterday \in Days /\ version[d] \in 0..MaxVersion
    BY DEF TypeOK
  <1>2. (yesterday \in rolled[d]) \in BOOLEAN
    OBVIOUS
  <1> QED
    BY <1>1, <1>2 DEF Current, State

\* A state of the database is not the absence of one.
LEMMA StatesAreShown ==
    ASSUME NEW s \in State
    PROVE  s # Absent
  <1>1. s.day \in Days /\ Absent.day = -1
    BY DEF State, Absent
  <1> QED
    BY <1>1, PublicationAssumption DEF Days

\* One post changes one entity of one device.
LEMMA AppliedEffect ==
    ASSUME TypeOK
    PROVE  /\ Applied \in Shown
           /\ \A d \in Devices, e \in Entities :
                 Applied[d][e] = IF d = loop.device /\ e = loop.entity
                                 THEN loop.states ELSE published[d][e]
  <1>1. loop.device \in Devices /\ loop.entity \in Entities /\ loop.states \in State
    BY DEF TypeOK
  <1>2. published \in Shown
    BY DEF TypeOK, Shown
  <1> QED
    BY <1>1, <1>2 DEF Applied, Shown

\* The loop after a post: the same device and states, the next entity or none.
LEMMA PostedEffect ==
    ASSUME TypeOK, loop.step = "post"
    PROVE  /\ Posted \in LoopRecord
           /\ Posted.left = loop.left /\ Posted.device = loop.device
           /\ Posted.states = loop.states
           /\ \/ /\ Posted.step = "build" /\ loop.entity = NEntities
                 /\ Posted.entity = loop.entity
              \/ Posted.step = "post" /\ Posted.entity = loop.entity + 1
  <1>1. loop \in LoopRecord
    BY DEF TypeOK, LoopRecord
  <1>2. CASE loop.entity = NEntities
    <2>1. Posted = [loop EXCEPT !.step = "build"]
      BY <1>2 DEF Posted
    <2>2. "build" \in Steps
      BY DEF Steps
    <2> QED
      BY <1>1, <1>2, <2>1, <2>2 DEF LoopRecord
  <1>3. CASE loop.entity # NEntities
    <2>1. Posted = [loop EXCEPT !.entity = loop.entity + 1]
      BY <1>3 DEF Posted
    <2>2. loop.entity + 1 \in Entities
      BY <1>1, <1>3, PublicationAssumption DEF LoopRecord, Entities
    <2> QED
      BY <1>1, <2>1, <2>2 DEF LoopRecord
  <1> QED
    BY <1>2, <1>3

-----------------------------------------------------------------------------
(* Types *)

\* Every step keeps the types.
LEMMA TypeNext ==
    ASSUME TypeOK, [Next]_vars
    PROVE  TypeOK'
  <1> USE PublicationAssumption
  <1>l. loop \in LoopRecord /\ Asleep \in LoopRecord
    BY AsleepType DEF TypeOK, LoopRecord
  <1>p. published \in Shown /\ Applied \in Shown
    BY AppliedEffect DEF TypeOK, Shown
  <1>1. CASE Midnight
    BY <1>1 DEF Midnight, TypeOK, Days
  <1>2. CASE Enroll
    BY <1>2 DEF Enroll, TypeOK
  <1>3. CASE Ingest
    <2>1. PICK d \in devices : /\ version[d] < MaxVersion
                               /\ version' = [version EXCEPT ![d] = version[d] + 1]
      BY <1>3 DEF Ingest
    <2>2. version' \in [Devices -> 0..MaxVersion]
      BY <2>1 DEF TypeOK
    <2> QED
      BY <1>3, <2>2 DEF Ingest, TypeOK
  <1>4. CASE Timeline
    <2>1. PICK d \in devices, day \in Days :
             rolled' = [rolled EXCEPT ![d] = rolled[d] \cup {day}]
      BY <1>4 DEF Timeline
    <2>2. rolled' \in [Devices -> SUBSET Days]
      BY <2>1 DEF TypeOK
    <2> QED
      BY <1>4, <2>2 DEF Timeline, TypeOK
  <1>5. CASE Wake
    <2>1. loop' \in LoopRecord
      BY <1>5, <1>l DEF Wake, LoopRecord, Steps, TypeOK
    <2> QED
      BY <1>5, <2>1 DEF Wake, TypeOK, LoopRecord
  <1>6. CASE ComputeDevice
    <2>1. PICK d \in Devices :
             /\ rolled' = [rolled EXCEPT ![d] = rolled[d] \cup {yesterday}]
             /\ loop' = [loop EXCEPT !.left = loop.left \ {d}]
      BY <1>6 DEF ComputeDevice
    <2>2. rolled' \in [Devices -> SUBSET Days]
      BY <2>1 DEF TypeOK
    <2>3. loop' \in LoopRecord
      BY <2>1, <1>l DEF LoopRecord
    <2> QED
      BY <1>6, <2>2, <2>3 DEF ComputeDevice, TypeOK, LoopRecord
  <1>7. CASE StartPublishing
    <2>1. loop' \in LoopRecord
      BY <1>7, <1>l DEF StartPublishing, LoopRecord, Steps, TypeOK
    <2> QED
      BY <1>7, <2>1 DEF StartPublishing, TypeOK, LoopRecord
  <1>8. CASE BuildStates
    <2>1. PICK d \in Devices :
             loop' = [step |-> "post", left |-> loop.left \ {d}, device |-> d,
                      states |-> Current(d), entity |-> 1]
      BY <1>8 DEF BuildStates
    <2>2. Current(d) \in State /\ 1 \in Entities /\ "post" \in Steps
      BY CurrentType DEF Entities, Steps
    <2>3. loop' \in LoopRecord
      BY <2>1, <2>2, <1>l DEF LoopRecord
    <2> QED
      BY <1>8, <2>3 DEF BuildStates, TypeOK, LoopRecord
  <1>9. CASE Post
    <2>1. loop' \in LoopRecord /\ published' \in Shown
      BY <1>9, <1>p, PostedEffect DEF Post
    <2> QED
      BY <1>9, <2>1 DEF Post, TypeOK, LoopRecord, Shown
  <1>10. CASE EndCycle
    BY <1>10, <1>l DEF EndCycle, TypeOK, LoopRecord
  <1>11. CASE PostFails
    <2>1. loop' \in LoopRecord /\ published' \in Shown /\ faults' \in 0..MaxFaults
      BY <1>11, <1>p, PostedEffect DEF PostFails, TypeOK
    <2> QED
      BY <1>11, <2>1 DEF PostFails, TypeOK, LoopRecord, Shown
  <1>12. CASE CycleFails
    BY <1>12, <1>l DEF CycleFails, TypeOK, LoopRecord
  <1>13. CASE Restart
    <2>1. published' \in Shown /\ faults' \in 0..MaxFaults
      BY <1>13, <1>p DEF Restart, TypeOK
    <2> QED
      BY <1>13, <2>1, <1>l DEF Restart, TypeOK, LoopRecord, Shown
  <1>14. CASE UNCHANGED vars
    BY <1>14 DEF vars, TypeOK
  <1> QED
    BY <1>1, <1>2, <1>3, <1>4, <1>5, <1>6, <1>7, <1>8, <1>9, <1>10, <1>11,
       <1>12, <1>13, <1>14 DEF Next

\* The state has its types in every reachable state.
THEOREM TypeCorrect == Spec => []TypeOK
  <1>1. Init => TypeOK
    <2> SUFFICES ASSUME Init PROVE TypeOK
      OBVIOUS
    <2>1. yesterday \in Days /\ faults \in 0..MaxFaults
      BY PublicationAssumption DEF Init, Days
    <2>2. version \in [Devices -> 0..MaxVersion]
      BY PublicationAssumption DEF Init
    <2>3. loop \in [step : Steps, left : SUBSET Devices, device : Devices,
                    states : State, entity : Entities]
      BY AsleepType DEF Init, LoopRecord
    <2> QED
      BY <2>1, <2>2, <2>3 DEF Init, TypeOK
  <1>2. TypeOK /\ [Next]_vars => TypeOK'
    BY TypeNext
  <1> QED
    BY <1>1, <1>2, PTL DEF Spec

-----------------------------------------------------------------------------
(* What is shown has been computed, and shows one state *)

\* Rolled-up days stay, and the clock does not go back.
LEMMA DaysGrow ==
    ASSUME TypeOK, [Next]_vars
    PROVE  /\ \A d \in Devices : rolled[d] \subseteq rolled'[d]
           /\ yesterday <= yesterday'
  <1> USE DEF TypeOK, Days
  <1>1. CASE Timeline
    BY <1>1 DEF Timeline
  <1>2. CASE ComputeDevice
    <2>1. PICK d \in Devices : rolled' = [rolled EXCEPT ![d] = rolled[d] \cup {yesterday}]
      BY <1>2 DEF ComputeDevice
    <2> QED
      BY <1>2, <2>1 DEF ComputeDevice
  <1>3. CASE Midnight
    BY <1>3 DEF Midnight
  <1>4. CASE UNCHANGED <<rolled, yesterday>>
    BY <1>4
  <1>5. (Enroll \/ Ingest \/ Wake \/ StartPublishing \/ BuildStates \/ Post \/ EndCycle
          \/ PostFails \/ CycleFails \/ Restart \/ UNCHANGED vars)
             => UNCHANGED <<rolled, yesterday>>
    BY DEF Enroll, Ingest, Wake, StartPublishing, BuildStates, Post, EndCycle, PostFails,
           CycleFails, Restart, vars
  <1> QED
    BY <1>1, <1>2, <1>3, <1>4, <1>5 DEF Next

\* What may be shown may be shown later, too, and a computed device remains
\* one.
LEMMA GroundedStays ==
    ASSUME TypeOK, [Next]_vars, NEW d \in Devices
    PROVE  /\ Computed(d) => Computed(d)'
           /\ \A s : Grounded(d, s) =>
                 \E day \in rolled'[d] : IF s.rolled THEN day = s.day ELSE day < s.day
  <1>1. rolled[d] \subseteq rolled'[d] /\ yesterday <= yesterday'
    BY DaysGrow
  <1>2. Computed(d) => Computed(d)'
    <2> SUFFICES ASSUME NEW day \in rolled[d], day <= yesterday
                 PROVE  \E later \in rolled'[d] : later <= yesterday'
      BY DEF Computed
    <2>1. day \in rolled'[d]
      BY <1>1
    <2>2. day \in Int /\ yesterday \in Int /\ yesterday' \in Int
      BY TypeNext DEF TypeOK, Days
    <2> QED
      BY <1>1, <2>1, <2>2
  <1> QED
    BY <1>1, <1>2 DEF Grounded

\* The state of a computed device may be shown.
LEMMA CurrentGrounded ==
    ASSUME TypeOK, NEW d \in Devices, Computed(d)
    PROVE  Grounded(d, Current(d))
  <1>1. PICK day \in rolled[d] : day <= yesterday
    BY DEF Computed
  <1>2. day \in Int /\ yesterday \in Int
    BY DEF TypeOK, Days
  <1>3. Current(d).day = yesterday /\ Current(d).rolled = (yesterday \in rolled[d])
    BY DEF Current
  <1>4. CASE yesterday \in rolled[d]
    BY <1>3, <1>4 DEF Grounded
  <1>5. CASE yesterday \notin rolled[d]
    <2>1. day < yesterday
      BY <1>1, <1>2, <1>5
    <2> QED
      BY <1>3, <1>5, <2>1 DEF Grounded
  <1> QED
    BY <1>4, <1>5

\* A step that leaves what is published alone keeps it shown for a reason.
LEMMA ShownStays ==
    ASSUME TypeOK, ComputedBeforePublished, [Next]_vars, UNCHANGED published
    PROVE  ComputedBeforePublished'
  <1> SUFFICES ASSUME NEW d \in Devices, NEW e \in Entities, published[d][e] # Absent
               PROVE  Grounded(d, published[d][e])'
    BY DEF ComputedBeforePublished
  <1>1. Grounded(d, published[d][e])
    BY DEF ComputedBeforePublished
  <1> QED
    BY <1>1, GroundedStays DEF Grounded

\* A post shows what the loop has built for a reason.
LEMMA AppliedGrounded ==
    ASSUME TypeOK, LoopInv, ComputedBeforePublished, [Next]_vars,
           loop.step = "post", published' \in {published, Applied}
    PROVE  ComputedBeforePublished'
  <1>1. CASE published' = published
    BY <1>1, ShownStays
  <1>2. CASE published' = Applied
    <2> SUFFICES ASSUME NEW d \in Devices, NEW e \in Entities, published'[d][e] # Absent
                 PROVE  Grounded(d, published[d][e])'
      BY DEF ComputedBeforePublished
    <2>1. Grounded(loop.device, loop.states)
      BY DEF LoopInv, Covered, PostInv
    <2>2. published'[d][e] = IF d = loop.device /\ e = loop.entity
                             THEN loop.states ELSE published[d][e]
      BY <1>2, AppliedEffect
    <2>3. Grounded(d, published'[d][e])
      BY <2>1, <2>2 DEF ComputedBeforePublished
    <2> QED
      BY <2>3, GroundedStays DEF Grounded
  <1> QED
    BY <1>1, <1>2

\* A step of the loop to where nothing is posted and nothing is begun.
LEMMA IdleLoop ==
    ASSUME loop'.step = "sleep"
    PROVE  LoopInv'
  BY DEF LoopInv, Covered, PostInv

\* A step that keeps the loop and what is published, and forgets no fault.
LEMMA LoopStays ==
    ASSUME TypeOK, LoopInv, [Next]_vars, UNCHANGED <<loop, published, faults>>,
           devices' = devices \/ loop.step # "compute"
    PROVE  LoopInv'
  <1>1. \A d \in Devices : Computed(d) => Computed(d)'
    BY GroundedStays
  <1>2. loop.left \subseteq Devices /\ devices \subseteq Devices /\ loop.device \in Devices
    BY DEF TypeOK
  <1>3. Covered'
    BY <1>1, <1>2 DEF LoopInv, Covered, PostInv
  <1>4. PostInv'
    <2> SUFFICES ASSUME loop.step = "post" PROVE PostInv'
      BY DEF PostInv
    <2>1. Grounded(loop.device, loop.states)
      BY DEF LoopInv, Covered, PostInv
    <2>2. Grounded(loop.device, loop.states)'
      BY <1>2, <2>1, GroundedStays DEF Grounded
    <2> QED
      BY <2>2 DEF LoopInv, Covered, PostInv, PostInv
  <1> QED
    BY <1>3, <1>4 DEF LoopInv, Covered, PostInv

\* Outside of a post the same entities are compared.
LEMMA NoTornStays ==
    ASSUME TypeOK, NoTornPass, UNCHANGED published, faults' = 0 => faults = 0,
           \/ loop' = loop
           \/ loop.step # "post" /\ (loop'.step = "post" => loop'.entity = 1)
    PROVE  NoTornPass'
  <1>1. CASE loop' = loop
    BY <1>1 DEF NoTornPass, Boundary
  <1>2. CASE loop.step # "post" /\ (loop'.step = "post" => loop'.entity = 1)
    <2>1. \A d : Boundary(d) = 1
      BY <1>2 DEF Boundary
    <2>2. \A d : Boundary(d)' = 1
      BY <1>2 DEF Boundary
    <2> QED
      BY <2>1, <2>2 DEF NoTornPass
  <1> QED
    BY <1>1, <1>2

\* A post that is not lost carries the pass on.
LEMMA PostCarriesOn ==
    ASSUME TypeOK, LoopInv, NoTornPass, Post
    PROVE  NoTornPass' /\ PostInv'
  <1> DEFINE D == loop.device  n == loop.entity
  <1>1. /\ loop.step = "post" /\ loop' = Posted /\ faults' = faults /\ published' = Applied
        /\ D \in Devices /\ n \in 1..NEntities
    BY DEF Post, TypeOK, Entities
  <1>2. \A d \in Devices, e \in Entities :
           published'[d][e] = IF d = D /\ e = n THEN loop.states ELSE published[d][e]
    BY <1>1, AppliedEffect
  <1>3. /\ loop'.device = D /\ loop'.states = loop.states
        /\ \/ loop'.step = "build" /\ n = NEntities
           \/ loop'.step = "post" /\ loop'.entity = n + 1
    BY <1>1, PostedEffect
  <1>4. faults = 0 => \A e \in Entities : e <= n => published'[D][e] = loop.states
    <2> SUFFICES ASSUME faults = 0, NEW e \in Entities, e <= n
                 PROVE  published'[D][e] = loop.states
      OBVIOUS
    <2>1. CASE e = n
      BY <1>1, <1>2, <2>1
    <2>2. CASE e < n
      <3>1. published[D][e] = loop.states
        BY <1>1, <2>2 DEF LoopInv, Covered, PostInv
      <3> QED
        BY <1>1, <1>2, <2>2, <3>1
    <2> QED
      BY <1>1, <2>1, <2>2 DEF Entities
  <1>5. NoTornPass'
    <2> SUFFICES ASSUME faults' = 0, NEW d \in Devices, NEW e \in Entities, NEW f \in Entities,
                        (e < Boundary(d) <=> f < Boundary(d))'
                 PROVE  published'[d][e] = published'[d][f]
      BY DEF NoTornPass
    <2>1. CASE d # D
      <3>1. Boundary(d) = 1
        BY <2>1 DEF Boundary
      <3>2. ~(e < 1) /\ ~(f < 1)
        BY DEF Entities
      <3>3. published[d][e] = published[d][f]
        BY <1>1, <3>1, <3>2 DEF NoTornPass
      <3> QED
        BY <1>2, <2>1, <3>3
    <2>2. CASE d = D /\ loop'.step = "build" /\ n = NEntities
      <3>1. e <= n /\ f <= n
        BY <2>2 DEF Entities
      <3> QED
        BY <1>1, <1>4, <2>2, <3>1
    <2>3. CASE d = D /\ loop'.step = "post" /\ loop'.entity = n + 1
      <3>1. Boundary(d)' = n + 1
        BY <1>3, <2>3 DEF Boundary
      <3>2. (e < n + 1) <=> (f < n + 1)
        BY <3>1
      <3>3. CASE e <= n /\ f <= n
        BY <1>1, <1>4, <2>3, <3>3
      <3>4. CASE ~(e <= n) /\ ~(f <= n)
        <4>1. Boundary(d) = n
          BY <1>1, <2>3 DEF Boundary
        <4>2. ~(e < n) /\ ~(f < n) /\ e # n /\ f # n
          BY <1>1, <3>4 DEF Entities
        <4>3. published[d][e] = published[d][f]
          BY <1>1, <4>1, <4>2 DEF NoTornPass
        <4> QED
          BY <1>2, <4>2, <4>3
      <3> QED
        BY <1>1, <3>2, <3>3, <3>4 DEF Entities
    <2> QED
      BY <1>3, <2>1, <2>2, <2>3
  <1>6. PostInv'
    <2> SUFFICES ASSUME loop'.step = "post" PROVE PostInv'
      BY DEF PostInv
    <2>1. Grounded(D, loop.states)
      BY <1>1 DEF LoopInv, Covered, PostInv
    <2>2. UNCHANGED rolled
      BY DEF Post
    <2>3. loop'.entity = n + 1 /\ loop'.device = D /\ loop'.states = loop.states
      BY <1>3
    <2>4. Grounded(loop.device, loop.states)'
      BY <2>1, <2>2, <2>3 DEF Grounded
    <2>5. \A e \in Entities : e < n + 1 => e <= n
      BY <1>1 DEF Entities
    <2>6. faults = 0 => \A e \in Entities :
             e < loop'.entity => published'[loop'.device][e] = loop'.states
      BY <1>4, <2>3, <2>5
    <2> QED
      BY <1>1, <2>4, <2>6 DEF PostInv
  <1> QED
    BY <1>5, <1>6

\* Every step keeps the strengthened invariant.
LEMMA IndNext ==
    ASSUME TypeOK, IndInv, [Next]_vars
    PROVE  IndInv'
  <1> USE DEF IndInv
  <1>c. \A d \in Devices : Computed(d) => Computed(d)'
    BY GroundedStays
  <1>t. loop.left \subseteq Devices /\ devices \subseteq Devices /\ faults \in Nat
    BY DEF TypeOK
  <1>1. CASE Midnight
    BY <1>1, LoopStays, NoTornStays, ShownStays DEF Midnight
  <1>2. CASE Enroll
    <2>1. loop.step # "compute"
      BY <1>2 DEF Enroll, Waiting
    <2> QED
      BY <1>2, <2>1, LoopStays, NoTornStays, ShownStays DEF Enroll
  <1>3. CASE Ingest
    BY <1>3, LoopStays, NoTornStays, ShownStays DEF Ingest
  <1>4. CASE Timeline
    BY <1>4, LoopStays, NoTornStays, ShownStays DEF Timeline
  <1>5. CASE Wake
    <2>1. loop.step = "sleep" /\ loop'.step = "compute" /\ loop'.left = devices
      BY <1>5 DEF Wake, TypeOK
    <2>2. UNCHANGED <<published, faults, devices>>
      BY <1>5 DEF Wake
    <2>3. LoopInv'
      BY <2>1, <2>2 DEF LoopInv, Covered, PostInv
    <2> QED
      BY <2>1, <2>2, <2>3, NoTornStays, ShownStays
  <1>6. CASE ComputeDevice
    <2>1. PICK d \in Devices :
             /\ rolled' = [rolled EXCEPT ![d] = rolled[d] \cup {yesterday}]
             /\ loop' = [loop EXCEPT !.left = loop.left \ {d}]
      BY <1>6 DEF ComputeDevice
    <2>2. /\ loop.step = "compute"
          /\ loop'.step = "compute" /\ loop'.left = loop.left \ {d}
          /\ UNCHANGED <<published, faults, devices, yesterday>>
      BY <1>6, <2>1 DEF ComputeDevice, TypeOK
    <2>3. Computed(d)'
      <3>1. yesterday \in rolled'[d]
        BY <2>1 DEF TypeOK
      <3>2. yesterday <= yesterday
        BY DEF TypeOK, Days
      <3> QED
        BY <2>2, <3>1, <3>2 DEF Computed
    <2>4. \A c \in devices \ loop'.left : Computed(c)'
      <3> SUFFICES ASSUME NEW c \in devices, c \notin loop'.left, c # d
                   PROVE  Computed(c)'
        BY <2>3
      <3>1. Computed(c)
        BY <2>2 DEF LoopInv, Covered, PostInv
      <3> QED
        BY <1>c, <1>t, <3>1
    <2>5. LoopInv'
      BY <2>2, <2>4 DEF LoopInv, Covered, PostInv
    <2> QED
      BY <2>2, <2>5, NoTornStays, ShownStays
  <1>7. CASE StartPublishing
    <2>1. /\ loop.step = "compute" /\ loop.left = {}
          /\ loop'.step = "build" /\ loop'.left = devices
      BY <1>7 DEF StartPublishing, TypeOK
    <2>2. UNCHANGED <<published, faults, devices>>
      BY <1>7 DEF StartPublishing
    <2>3. \A d \in loop'.left : Computed(d)'
      BY <1>c, <1>t, <2>1 DEF LoopInv, Covered, PostInv
    <2>4. LoopInv'
      BY <2>1, <2>3 DEF LoopInv, Covered, PostInv
    <2> QED
      BY <2>1, <2>2, <2>4, NoTornStays, ShownStays
  <1>8. CASE BuildStates
    <2>1. PICK d \in Devices :
             /\ IsNext(d)
             /\ loop' = [step |-> "post", left |-> loop.left \ {d}, device |-> d,
                         states |-> Current(d), entity |-> 1]
      BY <1>8 DEF BuildStates
    <2>2. /\ loop.step = "build"
          /\ UNCHANGED <<yesterday, version, rolled, published, faults, devices>>
      BY <1>8 DEF BuildStates
    <2>3. Computed(d) /\ \A c \in loop.left : Computed(c)
      BY <2>1, <2>2 DEF LoopInv, Covered, PostInv, IsNext
    <2>4. Grounded(loop.device, loop.states)'
      <3>1. Grounded(d, Current(d))
        BY <2>3, CurrentGrounded
      <3> QED
        BY <2>1, <2>2, <3>1 DEF Grounded
    <2>5. Covered'
      BY <1>c, <1>t, <2>1, <2>3 DEF Covered
    <2>6. \A e \in Entities : ~(e < 1)
      BY DEF Entities
    <2>7. LoopInv'
      BY <2>1, <2>4, <2>5, <2>6 DEF LoopInv, Covered, PostInv
    <2> QED
      BY <2>1, <2>2, <2>7, NoTornStays, ShownStays
  <1>9. CASE Post
    <2>1. loop.step = "post" /\ published' = Applied /\ loop' = Posted
      BY <1>9 DEF Post
    <2>2. Covered'
      BY <1>c, <1>t, <2>1, PostedEffect DEF LoopInv, Covered, PostInv
    <2>3. NoTornPass' /\ PostInv'
      BY <1>9, PostCarriesOn
    <2>4. ComputedBeforePublished'
      BY <2>1, AppliedGrounded
    <2> QED
      BY <2>2, <2>3, <2>4 DEF LoopInv, Covered, PostInv
  <1>10. CASE EndCycle
    <2>1. loop.step = "build" /\ loop'.step = "sleep" /\ UNCHANGED <<published, faults>>
      BY <1>10, AsleepType DEF EndCycle
    <2> QED
      BY <2>1, IdleLoop, NoTornStays, ShownStays
  <1>11. CASE PostFails
    <2>1. /\ loop.step = "post" /\ published' \in {published, Applied} /\ loop' = Posted
          /\ faults' # 0 /\ UNCHANGED rolled
      BY <1>11, <1>t DEF PostFails
    <2>2. Covered'
      BY <1>c, <1>t, <2>1, PostedEffect DEF LoopInv, Covered, PostInv
    <2>3. PostInv'
      <3>1. Grounded(loop.device, loop.states)
        BY <2>1 DEF LoopInv, Covered, PostInv
      <3>2. loop'.device = loop.device /\ loop'.states = loop.states
        BY <2>1, PostedEffect
      <3>3. Grounded(loop.device, loop.states)'
        BY <2>1, <3>1, <3>2 DEF Grounded
      <3> QED
        BY <2>1, <3>3 DEF PostInv
    <2>4. NoTornPass'
      BY <2>1 DEF NoTornPass
    <2>5. ComputedBeforePublished'
      BY <2>1, AppliedGrounded
    <2> QED
      BY <2>2, <2>3, <2>4, <2>5 DEF LoopInv, Covered, PostInv
  <1>12. CASE CycleFails
    <2>1. loop'.step = "sleep" /\ faults' # 0 /\ UNCHANGED published
      BY <1>12, <1>t, AsleepType DEF CycleFails
    <2> QED
      BY <2>1, IdleLoop, ShownStays DEF NoTornPass
  <1>13. CASE Restart
    <2>1. loop'.step = "sleep" /\ faults' # 0
      BY <1>13, <1>t, AsleepType DEF Restart
    <2>2. ComputedBeforePublished'
      <3>1. CASE loop.step = "post"
        <4>1. published' \in {published, Applied}
          BY <1>13 DEF Restart
        <4> QED
          BY <3>1, <4>1, AppliedGrounded
      <3>2. CASE loop.step # "post"
        BY <1>13, <3>2, ShownStays DEF Restart
      <3> QED
        BY <3>1, <3>2
    <2> QED
      BY <2>1, <2>2, IdleLoop DEF NoTornPass
  <1>14. CASE UNCHANGED vars
    BY <1>14, LoopStays, NoTornStays, ShownStays DEF vars
  <1> QED
    BY <1>1, <1>2, <1>3, <1>4, <1>5, <1>6, <1>7, <1>8, <1>9, <1>10, <1>11,
       <1>12, <1>13, <1>14 DEF Next

\* The strengthened invariant holds in every reachable state.
THEOREM Invariance == Spec => []IndInv
  <1>1. Init => IndInv
    <2> SUFFICES ASSUME Init PROVE IndInv
      OBVIOUS
    <2>1. loop.step = "sleep"
      BY AsleepType DEF Init
    <2>2. \A d \in Devices, e \in Entities : published[d][e] = Absent
      BY DEF Init
    <2>3. ComputedBeforePublished
      BY <2>2 DEF ComputedBeforePublished
    <2>4. NoTornPass
      BY <2>2 DEF NoTornPass
    <2> QED
      BY <2>1, <2>3, <2>4 DEF IndInv, LoopInv, Covered, PostInv
  <1>2. TypeOK /\ IndInv /\ [Next]_vars => IndInv'
    BY IndNext
  <1> QED
    BY <1>1, <1>2, TypeCorrect, PTL DEF Spec

\* As long as nothing fails, a device's entities show one state of the
\* database, and two on either side of the post in progress.
THEOREM PassesNotTorn == Spec => []NoTornPass
  BY Invariance, PTL DEF IndInv

\* Nothing is published of a device before it has been computed, whatever
\* fails, and whenever a device is enrolled.
THEOREM PublishedAfterComputed == Spec => []ComputedBeforePublished
  BY Invariance, PTL DEF IndInv
=============================================================================
