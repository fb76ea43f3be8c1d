-------------------------- MODULE Delivery_proofs --------------------------
(***************************************************************************)
(* Proofs about Delivery, for any drivers, vehicles, times and number of   *)
(* concurrent requests: types, that whatever is under way names driver and *)
(* vehicle, and, for clients that send a version they have seen, what the  *)
(* version column is for.  Last, for requests that come one at a time,     *)
(* that nobody is booked twice.                                            *)
(***************************************************************************)
EXTENDS Delivery, SequenceTheorems, TLAPS

(***************************************************************************)
(* Type correctness, with what a request remembers of the row it read.     *)
(***************************************************************************)
\* The row an update read is older than the row as it is, or the same.
UpdateFits(q) ==
    /\ q.input \in Updates /\ q.input.id \in DOMAIN deliveries
    /\ q.input.status \in ALLOWED_TRANSITIONS[q.current.status] /\ Assigned(q)
    /\ q.input.version <= q.current.version + Ahead
    /\ q.current.version <= deliveries[q.input.id].version
    /\ q.current.version = deliveries[q.input.id].version => q.current = deliveries[q.input.id]

Fits(q) == q = Idle \/ (q.phase # "idle" /\ q.input \in Creations) \/ (q.phase # "idle" /\ UpdateFits(q))

RequestsFit == \A r \in Slots : Fits(request[r])

TypeInv == TypeOK /\ Len(deliveries) <= MaxDeliveries /\ RequestsFit

SlotType == [phase : Phases, input : Creations \cup Updates \cup {NoInput}, current : DeliveryRow]

\* What the type invariant says of the rows and the requests.
LEMMA TypedFacts ==
    ASSUME TypeInv
    PROVE  /\ Len(deliveries) \in Nat /\ DOMAIN deliveries = 1 .. Len(deliveries)
           /\ DOMAIN deliveries \subseteq 1 .. MaxDeliveries
           /\ \A d \in DOMAIN deliveries : deliveries[d] \in DeliveryRow
           /\ \A r \in Slots : request[r] \in SlotType
<1>1. /\ Len(deliveries) \in Nat /\ DOMAIN deliveries = 1 .. Len(deliveries)
      /\ \A d \in DOMAIN deliveries : deliveries[d] \in DeliveryRow
  BY LenProperties, ElementOfSeq DEF TypeInv, TypeOK
<1>2. DOMAIN deliveries \subseteq 1 .. MaxDeliveries
  BY <1>1, ConstantsAssumption DEF TypeInv
<1>3. \A r \in Slots : request[r] \in SlotType
  BY DEF TypeInv, TypeOK, SlotType
<1> QED
  BY <1>1, <1>2, <1>3

\* A creation is an input without a row, and an update has one.
LEMMA InputKinds ==
    /\ \A input \in Creations : input.id = 0
    /\ \A input \in Updates : input.id \in 1 .. MaxDeliveries /\ input.id # 0
BY ConstantsAssumption DEF Creations, Updates

\* A new row has its type.
LEMMA NewDeliveryTyped ==
    ASSUME NEW status \in Statuses, NEW driver \in Drivers \cup {0}, NEW vehicle \in Vehicles \cup {0},
           NEW at \in Times \cup {0}, NEW purchase \in 0 .. MaxSales, NEW invoice \in 0 .. MaxSales
    PROVE  NewDelivery(status, driver, vehicle, at, purchase, invoice) \in DeliveryRow
<1> DEFINE Step == [from : Statuses \cup {"none"}, to : Statuses]
           first == [from |-> "none", to |-> status]
<1>1. first \in Step
  OBVIOUS
<1> HIDE DEF Step, first
<1>2. <<first>> \in Seq(Step)
  BY <1>1
<1>3. 1 \in Nat \ {0}
  OBVIOUS
<1> QED
  BY <1>2, <1>3 DEF NewDelivery, DeliveryRow, Step, first

\* A free slot has its type.
LEMMA IdleTyped == Idle \in SlotType
<1>1. <<>> \in Seq([from : Statuses \cup {"none"}, to : Statuses])
  OBVIOUS
<1>2. 0 \in 0 .. MaxSales /\ 1 \in Nat \ {0} /\ "PENDING" \in Statuses
  BY ConstantsAssumption DEF Statuses
<1>3. NoRow \in DeliveryRow
  BY <1>1, <1>2 DEF NoRow, DeliveryRow
<1> QED
  BY <1>3 DEF Idle, SlotType, Phases

\* A request that proceeds, or ends, while the rows stay.
LEMMA RequestMoves ==
    ASSUME TypeInv, NEW r \in Slots, NEW q \in SlotType, Fits(q),
           request' = [request EXCEPT ![r] = q],
           drivers' \subseteq Drivers, vehicles' \subseteq Vehicles, UNCHANGED <<sales, deliveries>>
    PROVE  TypeInv'
<1>1. request' \in [Slots -> SlotType]
  BY TypedFacts DEF TypeInv, TypeOK, SlotType
<1>2. TypeOK'
  BY <1>1 DEF TypeInv, TypeOK, SlotType
<1>3. \A s \in Slots : request'[s] = q \/ request'[s] = request[s]
  BY DEF TypeInv, TypeOK
<1>4. \A p : Fits(p)' <=> Fits(p)
  BY DEF Fits, UpdateFits, Assigned, DriverOf, VehicleOf
<1>5. RequestsFit'
  BY <1>3, <1>4 DEF TypeInv, RequestsFit
<1> QED
  BY <1>2, <1>5 DEF TypeInv

\* A check that is passed only changes the phase.
LEMMA CheckPassed ==
    ASSUME TypeInv, NEW r \in Slots, NEW phase \in Phases \ {"idle"}, request[r].phase # "idle"
    PROVE  [request[r] EXCEPT !.phase = phase] \in SlotType /\ Fits([request[r] EXCEPT !.phase = phase])
<1> DEFINE q == [request[r] EXCEPT !.phase = phase]
<1>1. request[r] \in SlotType /\ Fits(request[r])
  BY TypedFacts DEF TypeInv, RequestsFit
<1>2. q \in SlotType /\ q.phase = phase /\ q.input = request[r].input /\ q.current = request[r].current
  BY <1>1 DEF SlotType
<1> HIDE DEF q
<1>3. Fits(q)
  BY <1>1, <1>2 DEF Fits, UpdateFits, Assigned, DriverOf, VehicleOf, Idle
<1> QED
  BY <1>2, <1>3 DEF q

\* Rows are added.
LEMMA RowAdded ==
    ASSUME TypeInv, NEW row \in DeliveryRow, Len(deliveries) < MaxDeliveries,
           deliveries' = Append(deliveries, row), sales' \in 0 .. MaxSales,
           request' = request \/ \E r \in Slots : request' = [request EXCEPT ![r] = Idle],
           UNCHANGED <<drivers, vehicles>>
    PROVE  TypeInv'
<1>1. /\ deliveries' \in Seq(DeliveryRow) /\ Len(deliveries') = Len(deliveries) + 1
      /\ \A d \in DOMAIN deliveries : d \in DOMAIN deliveries' /\ deliveries'[d] = deliveries[d]
  BY TypedFacts DEF TypeInv, TypeOK
<1>2. request' \in [Slots -> SlotType]
  BY IdleTyped, TypedFacts DEF TypeInv, TypeOK, SlotType
<1>3. TypeOK'
  BY <1>1, <1>2 DEF TypeInv, TypeOK, SlotType
<1>4. \A s \in Slots : request'[s] = Idle \/ request'[s] = request[s]
  BY DEF TypeInv, TypeOK
<1>5. \A q : Fits(q) => Fits(q)'
  BY <1>1 DEF Fits, UpdateFits, Assigned, DriverOf, VehicleOf
<1>6. RequestsFit'
  BY <1>4, <1>5 DEF TypeInv, RequestsFit, Fits
<1> QED
  BY <1>1, <1>3, <1>6, TypedFacts, ConstantsAssumption DEF TypeInv

\* An update writes a row of its type.
LEMMA UpdatedTyped ==
    ASSUME NEW row \in DeliveryRow, NEW q, q.input \in Updates, q.current \in DeliveryRow
    PROVE  /\ Updated(row, q) \in DeliveryRow /\ Updated(row, q).version = row.version + 1
           /\ Updated(row, q).status = q.input.status
           /\ DriverOf(q) # 0 => Updated(row, q).driver = DriverOf(q)
           /\ VehicleOf(q) # 0 => Updated(row, q).vehicle = VehicleOf(q)
           /\ Updated(row, q).history =
                 Append(row.history, [from |-> q.current.status, to |-> q.input.status])
<1> DEFINE Step == [from : Statuses \cup {"none"}, to : Statuses]
           next == [from |-> q.current.status, to |-> q.input.status]
<1>1. /\ q.current.status \in Statuses /\ q.input.status \in Statuses
      /\ DriverOf(q) \in Drivers \cup {0} /\ VehicleOf(q) \in Vehicles \cup {0}
  BY DEF Updates, DeliveryRow, DriverOf, VehicleOf
<1>2. next \in Step
  BY <1>1
<1>3. row.history \in Seq(Step)
  BY DEF DeliveryRow
<1> HIDE DEF Step, next
<1>4. Append(row.history, next) \in Seq(Step)
  BY <1>2, <1>3, AppendProperties
<1>5. row.version + 1 \in Nat \ {0}
  BY DEF DeliveryRow
<1> DEFINE driver == Written(DriverOf(q), row.driver)
           vehicle == Written(VehicleOf(q), row.vehicle)
           history == Append(row.history, next)
           version == row.version + 1
<1>6. Updated(row, q) = [row EXCEPT !.status = q.input.status, !.driver = driver, !.vehicle = vehicle,
                                    !.version = version, !.history = history]
  BY DEF Updated, next
<1>7. q.input.status \in Statuses /\ driver \in Drivers \cup {0} /\ vehicle \in Vehicles \cup {0}
  BY <1>1 DEF Written, DeliveryRow
<1>8. version \in Nat \ {0} /\ history \in Seq(Step)
  BY <1>4, <1>5
<1>9. /\ version = row.version + 1 /\ history = Append(row.history, next)
      /\ DriverOf(q) # 0 => driver = DriverOf(q)
      /\ VehicleOf(q) # 0 => vehicle = VehicleOf(q)
  BY DEF Written
<1> HIDE DEF driver, vehicle, history, version
<1>10. Updated(row, q) \in DeliveryRow
  BY <1>6, <1>7, <1>8 DEF DeliveryRow, Step
<1>11. /\ Updated(row, q).status = q.input.status /\ Updated(row, q).version = version
       /\ Updated(row, q).driver = driver /\ Updated(row, q).vehicle = vehicle
       /\ Updated(row, q).history = history
  BY <1>6 DEF DeliveryRow
<1> QED
  BY <1>9, <1>10, <1>11 DEF next

\* What an update that is accepted does to its row.
LEMMA AcceptedUpdate ==
    ASSUME TypeInv, NEW r \in Slots, UpdateDelivery(r)
    PROVE  LET q == request[r] IN
           /\ UpdateFits(q) /\ q.current \in DeliveryRow
           /\ deliveries[q.input.id] \in DeliveryRow
           /\ deliveries[q.input.id].version = q.input.version
           /\ DOMAIN deliveries' = DOMAIN deliveries
           /\ deliveries'[q.input.id] = Updated(deliveries[q.input.id], q)
           /\ \A d \in DOMAIN deliveries \ {q.input.id} : deliveries'[d] = deliveries[d]
<1> DEFINE q == request[r]
<1>1. q \in SlotType /\ Fits(q) /\ q.phase = "write" /\ q.input.id # 0
  BY TypedFacts DEF TypeInv, RequestsFit, UpdateDelivery, IsUpdate
<1>2. q # Idle /\ q.input \notin Creations
  BY <1>1, InputKinds DEF Idle
<1>3. UpdateFits(q) /\ q.current \in DeliveryRow
  BY <1>1, <1>2 DEF Fits, SlotType
<1>4. deliveries[q.input.id] \in DeliveryRow /\ deliveries[q.input.id].version = q.input.version
  BY <1>3, TypedFacts DEF UpdateFits, UpdateDelivery, SameVersion
<1>5. deliveries' = [deliveries EXCEPT ![q.input.id] = Updated(@, q)]
  BY DEF UpdateDelivery
<1> QED
  BY <1>3, <1>4, <1>5 DEF UpdateFits

\* The write of an update keeps the types.
LEMMA UpdateStep ==
    ASSUME TypeInv, NEW r \in Slots, UpdateDelivery(r)
    PROVE  TypeInv'
<1> DEFINE q   == request[r]
           id  == q.input.id
           new == Updated(deliveries[id], q)
<1>1. /\ UpdateFits(q) /\ q.current \in DeliveryRow /\ deliveries[id] \in DeliveryRow
      /\ deliveries'[id] = new /\ DOMAIN deliveries' = DOMAIN deliveries
      /\ \A d \in DOMAIN deliveries \ {id} : deliveries'[d] = deliveries[d]
      /\ id \in DOMAIN deliveries /\ q.input \in Updates
  BY AcceptedUpdate DEF UpdateFits
<1>2. new \in DeliveryRow /\ new.version = deliveries[id].version + 1
  BY <1>1, UpdatedTyped
<1> HIDE DEF new
<1>3. deliveries' = [deliveries EXCEPT ![id] = new]
  BY DEF UpdateDelivery, new
<1>4. deliveries' \in Seq(DeliveryRow) /\ Len(deliveries') = Len(deliveries)
  BY <1>1, <1>2, <1>3, TypedFacts, ExceptSeq DEF TypeInv, TypeOK
<1>5. /\ request' = [request EXCEPT ![r] = Idle] /\ UNCHANGED <<drivers, vehicles, sales>>
  BY DEF UpdateDelivery
<1>6. request' \in [Slots -> SlotType]
  BY <1>5, IdleTyped, TypedFacts DEF TypeInv, TypeOK, SlotType
<1>7. TypeOK'
  BY <1>4, <1>5, <1>6 DEF TypeInv, TypeOK, SlotType
<1>8. \A s \in Slots : request'[s] = Idle \/ request'[s] = request[s]
  BY <1>5 DEF TypeInv, TypeOK
<1>9. ASSUME NEW p, p.current \in DeliveryRow, UpdateFits(p)
      PROVE  UpdateFits(p)'
  <2> DEFINE pid == p.input.id
  <2>1. /\ p.input \in Updates /\ pid \in DOMAIN deliveries
        /\ p.input.status \in ALLOWED_TRANSITIONS[p.current.status] /\ Assigned(p)
        /\ p.input.version <= p.current.version + Ahead
        /\ p.current.version <= deliveries[pid].version
        /\ p.current.version = deliveries[pid].version => p.current = deliveries[pid]
    BY <1>9 DEF UpdateFits
  <2>2. /\ p.current.version <= deliveries'[pid].version
        /\ p.current.version = deliveries'[pid].version => p.current = deliveries'[pid]
    <3>1. CASE pid = id
      <4>1. p.current.version \in Nat /\ deliveries[id].version \in Nat
        BY <1>1, <1>9 DEF DeliveryRow
      <4> QED
        BY <1>1, <1>2, <2>1, <3>1, <4>1
    <3>2. CASE pid # id
      BY <1>1, <2>1, <3>2
    <3> QED
      BY <3>1, <3>2
  <2>3. Assigned(p)' /\ pid \in DOMAIN deliveries'
    BY <1>1, <2>1 DEF Assigned, DriverOf, VehicleOf
  <2> QED
    BY <2>1, <2>2, <2>3 DEF UpdateFits
<1>10. RequestsFit'
  <2> SUFFICES ASSUME NEW s \in Slots PROVE Fits(request[s])'
    BY DEF RequestsFit
  <2>1. CASE request'[s] = Idle
    BY <2>1 DEF Fits
  <2>2. CASE request'[s] = request[s]
    <3>1. PICK p : p = request[s]
      OBVIOUS
    <3>2. Fits(p) /\ p.current \in DeliveryRow
      BY <3>1, TypedFacts DEF TypeInv, RequestsFit, SlotType
    <3>3. Fits(p)'
      BY <1>9, <3>2 DEF Fits
    <3> QED
      BY <2>2, <3>1, <3>3 DEF Fits, UpdateFits, Assigned, DriverOf, VehicleOf
  <2> QED
    BY <1>8, <2>1, <2>2
<1> QED
  BY <1>4, <1>7, <1>10 DEF TypeInv

\* The arrival of a creation keeps the types.
LEMMA BeginCreationStep ==
    ASSUME TypeInv, NEW r \in Slots, NEW driver \in Drivers \cup {0}, NEW vehicle \in Vehicles \cup {0},
           NEW at \in Times \cup {0}, NEW purchase \in 0 .. MaxSales, NEW invoice \in 0 .. MaxSales,
           BeginCreation(r, driver, vehicle, at, purchase, invoice)
    PROVE  TypeInv'
<1> DEFINE input == [id |-> 0, driver |-> driver, vehicle |-> vehicle, scheduledAt |-> at,
                     purchase |-> purchase, invoice |-> invoice]
           p     == [Idle EXCEPT !.input = input]
           q     == [p EXCEPT !.phase = NextCheck(p, "read")]
<1>1. input \in Creations
  BY DEF Creations
<1>2. NextCheck(p, "read") \in Phases \ {"idle"}
  BY DEF NextCheck, Phases
<1> HIDE DEF input
<1>3. p \in SlotType /\ p.input = input
  BY <1>1, IdleTyped DEF Idle, SlotType
<1>4. q \in SlotType /\ q.phase # "idle" /\ q.input = input
  BY <1>2, <1>3 DEF SlotType
<1>5. request' = [request EXCEPT ![r] = q] /\ UNCHANGED <<drivers, vehicles, sales, deliveries>>
  BY DEF BeginCreation, Proceed, input
<1> HIDE DEF p, q
<1>6. Fits(q)
  BY <1>1, <1>4 DEF Fits
<1> QED
  BY <1>4, <1>5, <1>6, RequestMoves DEF TypeInv, TypeOK

\* The arrival of an update keeps the types.
LEMMA BeginUpdateStep ==
    ASSUME TypeInv, NEW r \in Slots, NEW driver \in Drivers \cup {0}, NEW vehicle \in Vehicles \cup {0},
           NEW d \in DOMAIN deliveries, NEW status \in Statuses \ {"PENDING"},
           NEW version \in 1 .. deliveries[d].version + Ahead,
           BeginUpdate(r, d, status, version, driver, vehicle)
    PROVE  TypeInv'
<1> DEFINE input == [id |-> d, status |-> status, version |-> version,
                     driver |-> driver, vehicle |-> vehicle]
           p     == [Idle EXCEPT !.input = input, !.current = deliveries[d]]
           q     == [p EXCEPT !.phase = NextCheck(p, "read")]
<1>0. /\ deliveries[d] \in DeliveryRow /\ deliveries[d].version \in Nat
      /\ d \in 1 .. MaxDeliveries /\ version \in Nat \ {0}
  <2>1. deliveries[d] \in DeliveryRow /\ d \in 1 .. MaxDeliveries
    BY TypedFacts
  <2>2. deliveries[d].version \in Nat /\ Ahead \in Nat
    BY <2>1, ConstantsAssumption DEF DeliveryRow
  <2> QED
    BY <2>1, <2>2
<1>1. input \in Updates
  BY <1>0 DEF Updates
<1>2. NextCheck(p, "read") \in Phases \ {"idle"}
  BY DEF NextCheck, Phases
<1>3. /\ input.id = d /\ input.status = status /\ input.version = version
  OBVIOUS
<1>4. /\ version <= deliveries[d].version + Ahead /\ Assigned(p)
      /\ status \in ALLOWED_TRANSITIONS[p.current.status]
      /\ request' = [request EXCEPT ![r] = q] /\ UNCHANGED <<drivers, vehicles, sales, deliveries>>
  BY DEF BeginUpdate, Proceed
<1> HIDE DEF input
<1>5. p \in SlotType /\ p.input = input /\ p.current = deliveries[d]
  BY <1>0, <1>1, IdleTyped DEF Idle, SlotType
<1> HIDE DEF p
<1>6. q \in SlotType /\ q.phase # "idle" /\ q.input = input /\ q.current = deliveries[d]
  BY <1>2, <1>5 DEF SlotType
<1> HIDE DEF q
<1>7. Assigned(q)
  BY <1>4, <1>5, <1>6 DEF Assigned, DriverOf, VehicleOf
<1>8. Fits(q)
  BY <1>0, <1>1, <1>3, <1>4, <1>5, <1>6, <1>7 DEF Fits, UpdateFits
<1> QED
  BY <1>4, <1>6, <1>8, RequestMoves DEF TypeInv, TypeOK

\* The checks of a request keep the types.
LEMMA CheckSteps ==
    ASSUME TypeInv, NEW r \in Slots, CheckDriver(r) \/ CheckVehicle(r) \/ CheckConflict(r)
    PROVE  TypeInv'
<1>1. \E phase \in Phases \ {"idle"} :
         /\ request[r].phase # "idle"
         /\ request' = [request EXCEPT ![r] = [request[r] EXCEPT !.phase = phase]]
         /\ UNCHANGED <<drivers, vehicles, sales, deliveries>>
  <2>1. \A q, after : NextCheck(q, after) \in Phases \ {"idle"}
    BY DEF NextCheck, Phases
  <2>2. CASE CheckConflict(r)
    BY <2>2 DEF CheckConflict, Phases
  <2>3. CASE CheckDriver(r) \/ CheckVehicle(r)
    BY <2>1, <2>3 DEF CheckDriver, CheckVehicle, Proceed
  <2> QED
    BY <2>2, <2>3
<1> QED
  BY <1>1, CheckPassed, RequestMoves DEF TypeInv, TypeOK

\* The write of a creation keeps the types.
LEMMA InsertStep ==
    ASSUME TypeInv, NEW r \in Slots, InsertDelivery(r)
    PROVE  TypeInv'
<1> DEFINE input  == request[r].input
           status == IF input.driver # 0 /\ input.vehicle # 0 THEN "ASSIGNED" ELSE "PENDING"
           row    == NewDelivery(status, input.driver, input.vehicle, input.scheduledAt,
                                 input.purchase, input.invoice)
<1>1. request[r] \in SlotType /\ Fits(request[r]) /\ request[r].phase = "write" /\ input.id = 0
  BY TypedFacts DEF TypeInv, RequestsFit, InsertDelivery, IsUpdate
<1>2. input \in Creations
  BY <1>1, InputKinds DEF Fits, UpdateFits, Idle
<1>3. status \in Statuses
  BY DEF Statuses
<1>4. row \in DeliveryRow
  BY <1>2, <1>3, NewDeliveryTyped DEF Creations
<1>5. /\ Len(deliveries) < MaxDeliveries /\ deliveries' = Append(deliveries, row)
      /\ request' = [request EXCEPT ![r] = Idle] /\ UNCHANGED <<drivers, vehicles, sales>>
  BY DEF InsertDelivery
<1> HIDE DEF row
<1> QED
  BY <1>4, <1>5, RowAdded DEF TypeInv, TypeOK

\* A sale keeps the types.
LEMMA CreatePurchaseStep ==
    ASSUME TypeInv, NEW at \in Times \cup {0}, NEW delivered \in BOOLEAN, CreatePurchase(at, delivered)
    PROVE  TypeInv'
<1> DEFINE row == NewDelivery("PENDING", 0, 0, at, sales + 1, sales + 1)
<1>1. sales' = sales + 1 /\ sales' \in 0 .. MaxSales /\ UNCHANGED <<drivers, vehicles, request>>
  BY ConstantsAssumption DEF CreatePurchase, TypeInv, TypeOK
<1>2. row \in DeliveryRow
  BY <1>1, NewDeliveryTyped DEF Statuses
<1>3. CASE delivered
  <2>1. Len(deliveries) < MaxDeliveries /\ deliveries' = Append(deliveries, row)
    BY <1>3 DEF CreatePurchase
  <2> HIDE DEF row
  <2> QED
    BY <1>1, <1>2, <2>1, RowAdded
<1>4. CASE ~delivered
  <2>1. deliveries' = deliveries
    BY <1>4 DEF CreatePurchase
  <2>2. TypeOK' /\ RequestsFit'
    BY <1>1, <2>1 DEF TypeInv, TypeOK, RequestsFit, Fits, UpdateFits, Assigned, DriverOf, VehicleOf
  <2> QED
    BY <2>1, <2>2 DEF TypeInv
<1> QED
  BY <1>3, <1>4

\* Every step keeps the types and what requests remember.
LEMMA TypeStep == TypeInv /\ [Next]_vars => TypeInv'
<1> SUFFICES ASSUME TypeInv, [Next]_vars PROVE TypeInv'
  OBVIOUS
<1>1. ASSUME UNCHANGED <<sales, deliveries, request>>, drivers' \subseteq Drivers, vehicles' \subseteq Vehicles
      PROVE  TypeInv'
  BY <1>1 DEF TypeInv, TypeOK, RequestsFit, Fits, UpdateFits, Assigned, DriverOf, VehicleOf
<1>2. ASSUME NEW d \in Drivers, NEW active \in BOOLEAN, SetDriver(d, active)
      PROVE  TypeInv'
  BY <1>1, <1>2 DEF SetDriver, TypeInv, TypeOK
<1>3. ASSUME NEW v \in Vehicles, NEW usable \in BOOLEAN, SetVehicle(v, usable)
      PROVE  TypeInv'
  BY <1>1, <1>3 DEF SetVehicle, TypeInv, TypeOK
<1>4. ASSUME NEW r \in Slots, Fail(r)
      PROVE  TypeInv'
  <2>1. Fits(Idle)
    BY DEF Fits
  <2> QED
    BY <1>4, <2>1, IdleTyped, RequestMoves DEF Fail, TypeInv, TypeOK
<1>5. CASE UNCHANGED vars
  BY <1>1, <1>5 DEF vars, TypeInv, TypeOK
<1> QED
  BY <1>2, <1>3, <1>4, <1>5, UpdateStep, InsertStep, CheckSteps, BeginCreationStep, BeginUpdateStep,
     CreatePurchaseStep DEF Next, Serve

\* The types and the memory of the requests are kept throughout.
LEMMA TypeInvariance == Spec => []TypeInv
<1>1. Init => TypeInv
  <2> SUFFICES ASSUME Init PROVE TypeInv
    OBVIOUS
  <2>1. request \in [Slots -> SlotType]
    BY IdleTyped DEF Init
  <2>2. deliveries \in Seq(DeliveryRow) /\ Len(deliveries) = 0 /\ 0 \in 0 .. MaxSales
    BY ConstantsAssumption DEF Init
  <2> QED
    BY <2>1, <2>2, ConstantsAssumption DEF Init, TypeInv, TypeOK, SlotType, RequestsFit, Fits
<1> QED
  BY <1>1, TypeStep, PTL DEF Spec

(***************************************************************************)
(* Drivers, vehicles, sales, deliveries and requests keep their types.     *)
(***************************************************************************)
THEOREM TypeCorrect == Spec => []TypeOK
<1>1. TypeInv => TypeOK
  BY DEF TypeInv
<1> QED
  BY <1>1, TypeInvariance, PTL

(***************************************************************************)
(* What a step does to the rows: none changes, one is added by a creation, *)
(* or one is updated.                                                      *)
(***************************************************************************)
RowsKept == deliveries' = deliveries

RowCreated ==
    \E status \in {"PENDING", "ASSIGNED"}, driver \in Drivers \cup {0}, vehicle \in Vehicles \cup {0},
       at \in Times \cup {0}, purchase, invoice \in 0 .. MaxSales :
          /\ status = "ASSIGNED" => driver # 0 /\ vehicle # 0
          /\ deliveries' = Append(deliveries, NewDelivery(status, driver, vehicle, at, purchase, invoice))

\* A step keeps all rows, adds one or is the write of an update.
LEMMA StepOfRows ==
    ASSUME TypeInv, [Next]_vars
    PROVE  RowsKept \/ RowCreated \/ \E r \in Slots : UpdateDelivery(r)
<1>1. ASSUME NEW r \in Slots, InsertDelivery(r)
      PROVE  RowCreated
  <2> DEFINE input == request[r].input
  <2>1. request[r] \in SlotType /\ Fits(request[r]) /\ request[r].phase = "write" /\ input.id = 0
    BY <1>1, TypedFacts DEF TypeInv, RequestsFit, InsertDelivery, IsUpdate
  <2>2. input \in Creations
    BY <2>1, InputKinds DEF Fits, UpdateFits, Idle
  <2> DEFINE status == IF input.driver # 0 /\ input.vehicle # 0 THEN "ASSIGNED" ELSE "PENDING"
  <2>3. status \in {"PENDING", "ASSIGNED"} /\ (status = "ASSIGNED" => input.driver # 0 /\ input.vehicle # 0)
    OBVIOUS
  <2>4. deliveries' = Append(deliveries, NewDelivery(status, input.driver, input.vehicle,
                                                     input.scheduledAt, input.purchase, input.invoice))
    BY <1>1 DEF InsertDelivery
  <2>5. /\ input.driver \in Drivers \cup {0} /\ input.vehicle \in Vehicles \cup {0}
        /\ input.scheduledAt \in Times \cup {0}
        /\ input.purchase \in 0 .. MaxSales /\ input.invoice \in 0 .. MaxSales
    BY <2>2 DEF Creations
  <2> HIDE DEF status, input
  <2> QED
    BY <2>3, <2>4, <2>5 DEF RowCreated
<1>2. ASSUME NEW at \in Times \cup {0}, NEW delivered \in BOOLEAN, CreatePurchase(at, delivered)
      PROVE  RowsKept \/ RowCreated
  <2>1. sales + 1 \in 0 .. MaxSales
    BY <1>2, ConstantsAssumption DEF CreatePurchase, TypeInv, TypeOK
  <2> QED
    BY <1>2, <2>1 DEF CreatePurchase, RowsKept, RowCreated
<1>3. ASSUME NEW r \in Slots, CheckDriver(r) \/ CheckVehicle(r) \/ CheckConflict(r) \/ Fail(r)
      PROVE  RowsKept
  BY <1>3 DEF RowsKept, CheckDriver, CheckVehicle, CheckConflict, Fail, Proceed
<1>4. ASSUME NEW d, NEW active, SetDriver(d, active) \/ SetVehicle(d, active)
      PROVE  RowsKept
  BY <1>4 DEF RowsKept, SetDriver, SetVehicle
<1>5. ASSUME NEW r, NEW d, NEW status, NEW version, NEW driver, NEW vehicle, NEW at, NEW purchase, NEW invoice,
             \/ BeginCreation(r, driver, vehicle, at, purchase, invoice)
             \/ BeginUpdate(r, d, status, version, driver, vehicle)
      PROVE  RowsKept
  BY <1>5 DEF RowsKept, BeginCreation, BeginUpdate, Proceed
<1>6. CASE UNCHANGED vars
  BY <1>6 DEF vars, RowsKept
<1> QED
  BY <1>1, <1>2, <1>3, <1>4, <1>5, <1>6 DEF Next, Serve

\* A row that is added.
LEMMA AddedRow ==
    ASSUME TypeInv, NEW row, deliveries' = Append(deliveries, row), NEW d \in DOMAIN deliveries'
    PROVE  deliveries'[d] = row \/ (d \in DOMAIN deliveries /\ deliveries'[d] = deliveries[d])
BY TypedFacts DEF TypeInv, TypeOK

(***************************************************************************)
(* Whatever is assigned, on its way or delivered names driver and vehicle. *)
(***************************************************************************)
THEOREM AssignedNamesBoth == Spec => []AssignedHasBoth
<1>1. Init => AssignedHasBoth
  BY DEF Init, AssignedHasBoth
<1>2. TypeInv /\ AssignedHasBoth /\ [Next]_vars => AssignedHasBoth'
  <2> SUFFICES ASSUME TypeInv, AssignedHasBoth, [Next]_vars, NEW d \in DOMAIN deliveries',
                      deliveries'[d].status \in {"ASSIGNED", "IN_TRANSIT", "DELIVERED"}
               PROVE  deliveries'[d].driver # 0 /\ deliveries'[d].vehicle # 0
    BY DEF AssignedHasBoth
  <2>1. CASE RowsKept
    BY <2>1 DEF RowsKept, AssignedHasBoth
  <2>2. CASE RowCreated
    <3>1. PICK status \in {"PENDING", "ASSIGNED"}, driver \in Drivers \cup {0},
               vehicle \in Vehicles \cup {0}, at \in Times \cup {0},
               purchase \in 0 .. MaxSales, invoice \in 0 .. MaxSales :
             /\ status = "ASSIGNED" => driver # 0 /\ vehicle # 0
             /\ deliveries' = Append(deliveries, NewDelivery(status, driver, vehicle, at, purchase, invoice))
      BY <2>2 DEF RowCreated
    <3> DEFINE row == NewDelivery(status, driver, vehicle, at, purchase, invoice)
    <3>2. row.status = status /\ row.driver = driver /\ row.vehicle = vehicle
      BY DEF NewDelivery
    <3> HIDE DEF row
    <3>3. deliveries'[d] = row \/ (d \in DOMAIN deliveries /\ deliveries'[d] = deliveries[d])
      BY <3>1, AddedRow DEF row
    <3> QED
      BY <3>1, <3>2, <3>3 DEF AssignedHasBoth
  <2>3. ASSUME NEW r \in Slots, UpdateDelivery(r)
        PROVE  deliveries'[d].driver # 0 /\ deliveries'[d].vehicle # 0
    <3> DEFINE q   == request[r]
               new == Updated(deliveries[q.input.id], q)
    <3>1. /\ UpdateFits(q) /\ q.current \in DeliveryRow /\ deliveries[q.input.id] \in DeliveryRow
          /\ deliveries'[q.input.id] = new /\ DOMAIN deliveries' = DOMAIN deliveries
          /\ \A e \in DOMAIN deliveries \ {q.input.id} : deliveries'[e] = deliveries[e]
          /\ q.input \in Updates /\ Assigned(q)
      BY <2>3, AcceptedUpdate DEF UpdateFits
    <3>2. /\ new.status = q.input.status
          /\ DriverOf(q) # 0 => new.driver = DriverOf(q)
          /\ VehicleOf(q) # 0 => new.vehicle = VehicleOf(q)
      <4>1. PICK p : p = q
        OBVIOUS
      <4>2. /\ Updated(deliveries[q.input.id], p).status = p.input.status
            /\ DriverOf(p) # 0 => Updated(deliveries[q.input.id], p).driver = DriverOf(p)
            /\ VehicleOf(p) # 0 => Updated(deliveries[q.input.id], p).vehicle = VehicleOf(p)
        BY <3>1, <4>1, UpdatedTyped
      <4> QED
        BY <4>1, <4>2
    <3> HIDE DEF new
    <3>3. CASE d = q.input.id
      BY <3>1, <3>2, <3>3 DEF Assigned
    <3>4. CASE d # q.input.id
      BY <3>1, <3>4 DEF AssignedHasBoth
    <3> QED
      BY <3>3, <3>4
  <2> QED
    BY <2>1, <2>2, <2>3, StepOfRows
<1> QED
  BY <1>1, <1>2, TypeInvariance, PTL DEF Spec

(***************************************************************************)
(* For clients that send a version they have seen, an update is applied to *)
(* the row it was checked against.                                         *)
(***************************************************************************)
LEMMA UpdatedAsRead ==
    ASSUME Ahead = 0, TypeInv, NEW r \in Slots, UpdateDelivery(r)
    PROVE  deliveries[request[r].input.id] = request[r].current
<1> DEFINE q == request[r]
<1>1. /\ UpdateFits(q) /\ q.current \in DeliveryRow /\ q.input \in Updates
      /\ deliveries[q.input.id] \in DeliveryRow
      /\ deliveries[q.input.id].version = q.input.version
  BY AcceptedUpdate DEF UpdateFits
<1>2. /\ q.input.version \in Nat /\ q.current.version \in Nat
      /\ deliveries[q.input.id].version \in Nat
  BY <1>1 DEF Updates, DeliveryRow
<1>3. /\ q.input.version <= q.current.version
      /\ q.current.version <= deliveries[q.input.id].version
  BY <1>1, <1>2 DEF UpdateFits
<1>4. q.current.version = deliveries[q.input.id].version
  BY <1>1, <1>2, <1>3
<1> QED
  BY <1>1, <1>4 DEF UpdateFits

\* For clients that send a version they have seen, an update is written only on the
\* row it was checked against: nobody's write in between is lost (the version in the
\* where of updateDeliveryStatus).
THEOREM NothingOverwritten == ASSUME Ahead = 0 PROVE Spec => UpdatesSeeTheRow
<1>1. TypeInv /\ [Next]_vars =>
         \A r \in Slots : UpdateDelivery(r) => deliveries[request[r].input.id] = request[r].current
  BY UpdatedAsRead
<1> QED
  BY <1>1, TypeInvariance, PTL DEF Spec, UpdatesSeeTheRow

(***************************************************************************)
(* For such clients the history of a delivery is one legal life.           *)
(***************************************************************************)
\* HistoryIsLegalLife for one row.
LegalLife(row) ==
    /\ Len(row.history) = row.version
    /\ row.history[Len(row.history)].to = row.status
    /\ \A k \in DOMAIN row.history :
          /\ LegalStep(row.history[k].from, row.history[k].to)
          /\ row.history[k].from = IF k = 1 THEN "none" ELSE row.history[k - 1].to

\* The history of a new delivery is legal.
LEMMA FirstStepLegal ==
    ASSUME NEW status \in {"PENDING", "ASSIGNED"}, NEW driver, NEW vehicle, NEW at, NEW purchase, NEW invoice
    PROVE  LegalLife(NewDelivery(status, driver, vehicle, at, purchase, invoice))
BY DEF LegalLife, NewDelivery, LegalStep

\* A legal history goes on legally with a transition of the table.
LEMMA NextStepLegal ==
    ASSUME NEW row \in DeliveryRow, LegalLife(row), NEW new, NEW status,
           status \in ALLOWED_TRANSITIONS[row.status],
           new.status = status, new.version = row.version + 1,
           new.history = Append(row.history, [from |-> row.status, to |-> status])
    PROVE  LegalLife(new)
<1> DEFINE Step == [from : Statuses \cup {"none"}, to : Statuses]
           step == [from |-> row.status, to |-> status]
           n    == Len(row.history)
<1>1. /\ row.history \in Seq(Step) /\ n = row.version /\ n \in Nat \ {0}
      /\ row.status \in Statuses
  BY DEF DeliveryRow, LegalLife
<1>2. LegalStep(row.status, status)
  BY <1>1 DEF ALLOWED_TRANSITIONS, LegalStep, Statuses
<1>3. status \in Statuses
  BY <1>1 DEF ALLOWED_TRANSITIONS, Statuses
<1>4. step \in Step /\ step.from = row.status /\ step.to = status
  BY <1>1, <1>3
<1> HIDE DEF Step, step
<1>5. /\ Len(new.history) = n + 1 /\ new.history[n + 1] = step
      /\ \A k \in 1 .. n : new.history[k] = row.history[k]
      /\ DOMAIN new.history = 1 .. n + 1 /\ DOMAIN row.history = 1 .. n
  BY <1>1, <1>4 DEF step
<1>6. ASSUME NEW k \in 1 .. n + 1
      PROVE  /\ LegalStep(new.history[k].from, new.history[k].to)
             /\ new.history[k].from = IF k = 1 THEN "none" ELSE new.history[k - 1].to
  <2>1. CASE k = n + 1
    <3>1. new.history[k - 1] = row.history[n] /\ row.history[n].to = row.status /\ k # 1
      BY <1>1, <1>5, <2>1 DEF LegalLife
    <3> QED
      BY <1>2, <1>4, <1>5, <2>1, <3>1
  <2>2. CASE k \in 1 .. n
    <3>1. new.history[k] = row.history[k] /\ (k # 1 => new.history[k - 1] = row.history[k - 1])
      BY <1>1, <1>5, <2>2
    <3> QED
      BY <1>5, <2>2, <3>1 DEF LegalLife
  <2> QED
    BY <1>1, <2>1, <2>2
<1> QED
  BY <1>1, <1>4, <1>5, <1>6 DEF LegalLife

\* For such clients every delivery lives through ALLOWED_TRANSITIONS only, from its
\* creation to its last status.
THEOREM LivesAreLegal == ASSUME Ahead = 0 PROVE Spec => []HistoryIsLegalLife
<1>0. HistoryIsLegalLife <=> \A d \in DOMAIN deliveries : LegalLife(deliveries[d])
  BY DEF HistoryIsLegalLife, LegalLife
<1>1. Init => HistoryIsLegalLife
  BY DEF Init, HistoryIsLegalLife
<1>2. TypeInv /\ HistoryIsLegalLife /\ [Next]_vars => HistoryIsLegalLife'
  <2> SUFFICES ASSUME TypeInv, HistoryIsLegalLife, [Next]_vars, NEW d \in DOMAIN deliveries'
               PROVE  LegalLife(deliveries'[d])
    BY DEF HistoryIsLegalLife, LegalLife
  <2>0. \A e \in DOMAIN deliveries : LegalLife(deliveries[e])
    BY <1>0
  <2>1. CASE RowsKept
    BY <2>0, <2>1 DEF RowsKept
  <2>2. CASE RowCreated
    <3>1. PICK row : LegalLife(row) /\ deliveries' = Append(deliveries, row)
      BY <2>2, FirstStepLegal DEF RowCreated
    <3>2. deliveries'[d] = row \/ (d \in DOMAIN deliveries /\ deliveries'[d] = deliveries[d])
      BY <3>1, AddedRow
    <3> QED
      BY <2>0, <3>1, <3>2
  <2>3. ASSUME NEW r \in Slots, UpdateDelivery(r)
        PROVE  LegalLife(deliveries'[d])
    <3> DEFINE q   == request[r]
               id  == q.input.id
               new == Updated(deliveries[id], q)
    <3>1. /\ UpdateFits(q) /\ q.current \in DeliveryRow /\ deliveries[id] \in DeliveryRow
          /\ deliveries'[id] = new /\ DOMAIN deliveries' = DOMAIN deliveries
          /\ \A e \in DOMAIN deliveries \ {id} : deliveries'[e] = deliveries[e]
          /\ q.input \in Updates /\ id \in DOMAIN deliveries
          /\ q.input.status \in ALLOWED_TRANSITIONS[q.current.status]
      BY <2>3, AcceptedUpdate DEF UpdateFits
    <3>2. /\ new.status = q.input.status /\ new.version = deliveries[id].version + 1
          /\ new.history = Append(deliveries[id].history,
                                  [from |-> q.current.status, to |-> q.input.status])
      BY <3>1, UpdatedTyped
    <3>3. deliveries[id] = q.current
      BY <2>3, UpdatedAsRead
    <3> HIDE DEF new
    <3>4. LegalLife(new)
      BY <2>0, <3>1, <3>2, <3>3, NextStepLegal
    <3> QED
      BY <2>0, <3>1, <3>4
  <2> QED
    BY <2>1, <2>2, <2>3, StepOfRows
<1> QED
  BY <1>1, <1>2, TypeInvariance, PTL DEF Spec

(***************************************************************************)
(* One request at a time, as a single client sends them: what the check    *)
(* found is still so at the write, and no driver or vehicle is booked      *)
(* twice.  With two requests at once it may be: the run of the finding.    *)
(***************************************************************************)
\* Somebody is to be found free at a known time.
ToBeFree(q) == ScheduledAt(q) # 0 /\ (DriverOf(q) # 0 \/ VehicleOf(q) # 0)

\* What the checks of a request have established.
Checked(q) ==
    /\ IsUpdate(q) => /\ q.input.id \in DOMAIN deliveries
                      /\ q.current.scheduledAt = deliveries[q.input.id].scheduledAt
    /\ q.phase = "write" /\ ToBeFree(q) => ~Conflict(q)

SerialInv == AssignedHasBoth /\ NoDoubleBooking /\ \A r \in Slots : Checked(request[r])

\* A check is skipped only where nobody is to be found free.
LEMMA CheckSkipped ==
    ASSUME NEW q, NEW after, NextCheck(q, after) = "write"
    PROVE  ~ToBeFree(q)
BY DEF NextCheck, ToBeFree

\* A free slot has nothing to be checked.
LEMMA IdleChecked == Checked(Idle)
BY DEF Checked, Idle, NoInput, IsUpdate

\* The phase says nothing of the row and the resources.
LEMMA PhaseOnly ==
    ASSUME NEW p \in SlotType, NEW phase \in Phases
    PROVE  LET q == [p EXCEPT !.phase = phase] IN
           /\ q.phase = phase /\ q.input = p.input /\ q.current = p.current
           /\ IsUpdate(q) = IsUpdate(p) /\ (ToBeFree(q) <=> ToBeFree(p))
           /\ (Conflict(q) <=> Conflict(p)) /\ DriverOf(q) = DriverOf(p) /\ VehicleOf(q) = VehicleOf(p)
<1> DEFINE q == [p EXCEPT !.phase = phase]
<1>1. q.phase = phase /\ q.input = p.input /\ q.current = p.current
  BY DEF SlotType
<1> HIDE DEF q
<1>2. IsUpdate(q) = IsUpdate(p) /\ DriverOf(q) = DriverOf(p) /\ VehicleOf(q) = VehicleOf(p)
  BY <1>1 DEF IsUpdate, DriverOf, VehicleOf
<1>3. ScheduledAt(q) = ScheduledAt(p)
  BY <1>1, <1>2 DEF ScheduledAt
<1> QED
  BY <1>1, <1>2, <1>3 DEF ToBeFree, Conflict, q

\* A request that goes on, or ends, while the rows stay.
LEMMA RequestChecked ==
    ASSUME TypeInv, SerialInv, NEW r \in Slots, NEW q, Checked(q),
           request' = [request EXCEPT ![r] = q], UNCHANGED deliveries
    PROVE  SerialInv'
<1>1. \A s \in Slots : request'[s] = q \/ request'[s] = request[s]
  BY DEF TypeInv, TypeOK
<1>2. \A p : Checked(p)' <=> Checked(p)
  BY DEF Checked, Conflict, ToBeFree, DriverOf, VehicleOf, ScheduledAt, IsUpdate
<1>3. \A s \in Slots : Checked(request[s])'
  <2> TAKE s \in Slots
  <2>1. PICK p : p = request'[s] /\ Checked(p)
    BY <1>1 DEF SerialInv
  <2>2. Checked(p)'
    BY <1>2, <2>1
  <2> QED
    BY <2>1, <2>2 DEF Checked, Conflict, ToBeFree, DriverOf, VehicleOf, ScheduledAt, IsUpdate
<1> QED
  BY <1>3 DEF SerialInv, AssignedHasBoth, NoDoubleBooking

\* NoDoubleBooking for two rows.
Apart(x, y) ==
    (/\ {x.status, y.status} \subseteq {"ASSIGNED", "IN_TRANSIT"}
     /\ x.scheduledAt # 0 /\ y.scheduledAt # 0
     /\ x.scheduledAt - y.scheduledAt \in -Window .. Window)
    => x.driver # y.driver /\ x.vehicle # y.vehicle

\* No double booking is every two rows being apart.
LEMMA ApartRows == NoDoubleBooking <=> \A d, e \in DOMAIN deliveries : d # e => Apart(deliveries[d], deliveries[e])
BY DEF NoDoubleBooking, Apart

\* Whichever is named first.
LEMMA ApartSymmetric ==
    ASSUME NEW x \in DeliveryRow, NEW y \in DeliveryRow, Apart(x, y)
    PROVE  Apart(y, x)
<1>1. x.scheduledAt \in Nat /\ y.scheduledAt \in Nat /\ Window \in Nat
  BY ConstantsAssumption DEF DeliveryRow
<1>2. y.scheduledAt - x.scheduledAt \in -Window .. Window => x.scheduledAt - y.scheduledAt \in -Window .. Window
  BY <1>1
<1> QED
  BY <1>2 DEF Apart

\* A row written for a request that was checked is apart from every other.
LEMMA CheckedApart ==
    ASSUME TypeInv, NEW q, ToBeFree(q) => ~Conflict(q),
           NEW row \in DeliveryRow, row.scheduledAt = ScheduledAt(q),
           row.status \in Busy => /\ row.driver = DriverOf(q) /\ row.driver # 0
                                  /\ row.vehicle = VehicleOf(q) /\ row.vehicle # 0,
           NEW d \in DOMAIN deliveries, d # q.input.id
    PROVE  Apart(row, deliveries[d])
<1> DEFINE other == deliveries[d]
<1>1. other \in DeliveryRow
  BY TypedFacts
<1>2. SUFFICES ASSUME {row.status, other.status} \subseteq {"ASSIGNED", "IN_TRANSIT"},
                      row.scheduledAt # 0, other.scheduledAt # 0,
                      row.scheduledAt - other.scheduledAt \in -Window .. Window
               PROVE  row.driver # other.driver /\ row.vehicle # other.vehicle
  BY DEF Apart
<1>3. row.status \in Busy /\ other.status \in Busy
  BY <1>2 DEF Busy
<1>4. /\ row.driver = DriverOf(q) /\ row.driver # 0
      /\ row.vehicle = VehicleOf(q) /\ row.vehicle # 0
  BY <1>3
<1>5. row.scheduledAt \in Nat /\ other.scheduledAt \in Nat /\ Window \in Nat
  BY <1>1, ConstantsAssumption DEF DeliveryRow
<1>6. Near(ScheduledAt(q), other.scheduledAt)
  BY <1>2, <1>5 DEF Near
<1>7. ~Conflict(q)
  BY <1>2, <1>4 DEF ToBeFree
<1> QED
  BY <1>2, <1>3, <1>4, <1>6, <1>7 DEF Conflict

\* A row apart from the rest is added.
LEMMA AddedApart ==
    ASSUME TypeInv, NoDoubleBooking, NEW row \in DeliveryRow, deliveries' = Append(deliveries, row),
           \A d \in DOMAIN deliveries : Apart(row, deliveries[d])
    PROVE  NoDoubleBooking'
<1>1. \A d \in DOMAIN deliveries' :
         \/ d = Len(deliveries) + 1 /\ deliveries'[d] = row
         \/ d \in DOMAIN deliveries /\ deliveries'[d] = deliveries[d]
  BY TypedFacts DEF TypeInv, TypeOK
<1>2. \A d \in DOMAIN deliveries : Apart(deliveries[d], row)
  BY TypedFacts, ApartSymmetric
<1>3. \A d, e \in DOMAIN deliveries' : d # e => Apart(deliveries'[d], deliveries'[e])
  BY <1>1, <1>2, ApartRows
<1> QED
  BY <1>3 DEF NoDoubleBooking, Apart

\* A row is replaced by one apart from the rest.
LEMMA ReplacedApart ==
    ASSUME TypeInv, NoDoubleBooking, NEW id \in DOMAIN deliveries, NEW row \in DeliveryRow,
           DOMAIN deliveries' = DOMAIN deliveries, deliveries'[id] = row,
           \A d \in DOMAIN deliveries \ {id} : deliveries'[d] = deliveries[d] /\ Apart(row, deliveries[d])
    PROVE  NoDoubleBooking'
<1>1. \A d \in DOMAIN deliveries \ {id} : Apart(deliveries[d], row)
  BY TypedFacts, ApartSymmetric
<1>2. \A d, e \in DOMAIN deliveries' : d # e => Apart(deliveries'[d], deliveries'[e])
  BY <1>1, ApartRows
<1> QED
  BY <1>2 DEF NoDoubleBooking, Apart

\* A sale's delivery is nobody's yet, and so in nobody's way.
LEMMA PurchaseChecked ==
    ASSUME TypeInv, SerialInv, NEW at \in Times \cup {0}, NEW delivered \in BOOLEAN,
           CreatePurchase(at, delivered)
    PROVE  NoDoubleBooking' /\ \A r \in Slots : Checked(request[r])'
<1>1. UNCHANGED request
  BY DEF CreatePurchase
<1>2. CASE UNCHANGED deliveries
  BY <1>1, <1>2 DEF SerialInv, NoDoubleBooking, Checked, Conflict, ToBeFree, DriverOf, VehicleOf, ScheduledAt, IsUpdate
<1>3. CASE ~UNCHANGED deliveries
  <2> DEFINE row == NewDelivery("PENDING", 0, 0, at, sales + 1, sales + 1)
  <2>1. deliveries' = Append(deliveries, row) /\ sales + 1 \in 0 .. MaxSales
    BY <1>3, ConstantsAssumption DEF CreatePurchase, TypeInv, TypeOK
  <2>2. row \in DeliveryRow
    BY <2>1, NewDeliveryTyped DEF Statuses
  <2>3. row.status = "PENDING"
    BY DEF NewDelivery
  <2> HIDE DEF row
  <2>4. \A d \in DOMAIN deliveries : Apart(row, deliveries[d])
    BY <2>3 DEF Apart
  <2>5. NoDoubleBooking'
    BY <2>1, <2>2, <2>4, AddedApart DEF SerialInv
  <2>6. \A d \in DOMAIN deliveries' :
           (deliveries'[d] = row) \/ (d \in DOMAIN deliveries /\ deliveries'[d] = deliveries[d])
    BY <2>1, AddedRow
  <2>7. \A d \in DOMAIN deliveries : d \in DOMAIN deliveries' /\ deliveries'[d] = deliveries[d]
    BY <2>1, <2>2 DEF TypeInv, TypeOK
  <2>8. ASSUME NEW p, Checked(p) PROVE Checked(p)'
    <3>1. Conflict(p)' => Conflict(p)
      BY <2>3, <2>6 DEF Conflict, Busy, DriverOf, VehicleOf, ScheduledAt, IsUpdate
    <3> QED
      BY <2>7, <2>8, <3>1 DEF Checked, ToBeFree, DriverOf, VehicleOf, ScheduledAt, IsUpdate
  <2>9. \A r \in Slots : Checked(request[r])'
    <3> TAKE r \in Slots
    <3>1. PICK p : p = request[r] /\ Checked(p)
      BY DEF SerialInv
    <3>2. Checked(p)' /\ p = request'[r]
      BY <1>1, <2>8, <3>1
    <3> QED
      BY <3>2 DEF Checked, Conflict, ToBeFree, DriverOf, VehicleOf, ScheduledAt, IsUpdate
  <2> QED
    BY <2>5, <2>9
<1> QED
  BY <1>2, <1>3

\* The writes, which leave the only slot idle.
LEMMA InsertChecked ==
    ASSUME TypeInv, SerialInv, NEW r \in Slots, InsertDelivery(r)
    PROVE  NoDoubleBooking'
<1> DEFINE q      == request[r]
           input  == q.input
           status == IF input.driver # 0 /\ input.vehicle # 0 THEN "ASSIGNED" ELSE "PENDING"
           row    == NewDelivery(status, input.driver, input.vehicle,
                                 input.scheduledAt, input.purchase, input.invoice)
<1>1. q \in SlotType /\ Fits(q) /\ q.phase = "write" /\ input.id = 0 /\ ~IsUpdate(q) /\ Checked(q)
  BY TypedFacts DEF TypeInv, RequestsFit, InsertDelivery, IsUpdate, SerialInv
<1>2. input \in Creations
  BY <1>1, InputKinds DEF Fits, UpdateFits, Idle
<1>3. /\ input.driver \in Drivers \cup {0} /\ input.vehicle \in Vehicles \cup {0}
      /\ input.scheduledAt \in Times \cup {0}
      /\ input.purchase \in 0 .. MaxSales /\ input.invoice \in 0 .. MaxSales
  BY <1>2 DEF Creations
<1>4. row \in DeliveryRow
  BY <1>3, NewDeliveryTyped DEF Statuses
<1>5. /\ row.driver = input.driver /\ row.vehicle = input.vehicle /\ row.scheduledAt = input.scheduledAt
      /\ row.status \in Busy => row.driver # 0 /\ row.vehicle # 0
  BY DEF NewDelivery, Busy
<1>6. deliveries' = Append(deliveries, row)
  BY DEF InsertDelivery
<1> HIDE DEF row
<1>7. ASSUME NEW d \in DOMAIN deliveries
      PROVE  Apart(row, deliveries[d])
  <2>1. CASE row.status \notin Busy
    BY <2>1 DEF Apart, Busy
  <2>2. CASE row.status \in Busy
    <3>1. row.driver = DriverOf(q) /\ row.vehicle = VehicleOf(q) /\ row.scheduledAt = ScheduledAt(q)
      BY <1>1, <1>5, <2>2 DEF DriverOf, VehicleOf, ScheduledAt
    <3>2. d # q.input.id
      BY <1>1, <1>7, TypedFacts
    <3>3. ToBeFree(q) => ~Conflict(q)
      BY <1>1 DEF Checked
    <3> HIDE DEF q
    <3> QED
      BY <1>4, <1>5, <3>1, <3>2, <3>3, CheckedApart
  <2> QED
    BY <2>1, <2>2
<1> QED
  BY <1>4, <1>6, <1>7, AddedApart DEF SerialInv

\* The write of a checked update books nobody twice.
LEMMA UpdateChecked ==
    ASSUME TypeInv, SerialInv, NEW r \in Slots, UpdateDelivery(r)
    PROVE  NoDoubleBooking'
<1> DEFINE q   == request[r]
           id  == q.input.id
           new == Updated(deliveries[id], q)
<1>1. /\ UpdateFits(q) /\ q.current \in DeliveryRow /\ deliveries[id] \in DeliveryRow
      /\ deliveries'[id] = new /\ DOMAIN deliveries' = DOMAIN deliveries
      /\ \A d \in DOMAIN deliveries \ {id} : deliveries'[d] = deliveries[d]
      /\ id \in DOMAIN deliveries /\ q.input \in Updates /\ Assigned(q)
  BY AcceptedUpdate DEF UpdateFits
<1>2. Checked(q) /\ q.phase = "write" /\ IsUpdate(q)
  BY DEF SerialInv, UpdateDelivery
<1>3. /\ new \in DeliveryRow /\ new.status = q.input.status
      /\ DriverOf(q) # 0 => new.driver = DriverOf(q)
      /\ VehicleOf(q) # 0 => new.vehicle = VehicleOf(q)
  <2>1. PICK p : p = q
    OBVIOUS
  <2>2. LET made == Updated(deliveries[id], p) IN
        /\ made \in DeliveryRow /\ made.status = p.input.status
        /\ DriverOf(p) # 0 => made.driver = DriverOf(p)
        /\ VehicleOf(p) # 0 => made.vehicle = VehicleOf(p)
    BY <1>1, <2>1, UpdatedTyped
  <2> QED
    BY <2>1, <2>2
<1>4. new.scheduledAt = deliveries[id].scheduledAt
  <2> DEFINE row      == deliveries[id]
             driver   == Written(DriverOf(q), row.driver)
             vehicle  == Written(VehicleOf(q), row.vehicle)
             history  == Append(row.history, [from |-> q.current.status, to |-> q.input.status])
             version  == row.version + 1
  <2>1. new = [row EXCEPT !.status = q.input.status, !.driver = driver, !.vehicle = vehicle,
                          !.version = version, !.history = history]
    BY DEF Updated
  <2>2. row \in DeliveryRow
    BY <1>1
  <2> HIDE DEF row, driver, vehicle, history, version, new
  <2>3. new.scheduledAt = row.scheduledAt
    BY <2>1, <2>2 DEF DeliveryRow
  <2> QED
    BY <2>3 DEF row
<1>5. new.scheduledAt = ScheduledAt(q)
  BY <1>2, <1>4 DEF Checked, ScheduledAt
<1>6. new.status \in Busy => /\ new.driver = DriverOf(q) /\ new.driver # 0
                              /\ new.vehicle = VehicleOf(q) /\ new.vehicle # 0
  BY <1>1, <1>3 DEF Assigned, Busy
<1>7. ToBeFree(q) => ~Conflict(q)
  BY <1>2 DEF Checked
<1> HIDE DEF new
<1>8. \A d \in DOMAIN deliveries \ {id} : Apart(new, deliveries[d])
  <2> TAKE d \in DOMAIN deliveries \ {id}
  <2>1. PICK p : p = q
    OBVIOUS
  <2> QED
    BY <1>3, <1>5, <1>6, <1>7, <2>1, CheckedApart
<1>9. NoDoubleBooking
  BY DEF SerialInv
<1> QED
  BY <1>1, <1>3, <1>8, <1>9, ReplacedApart

\* A request that arrives has read the row it is about.
LEMMA ArrivalChecked ==
    ASSUME TypeInv, NEW p \in SlotType,
           IsUpdate(p) => p.input.id \in DOMAIN deliveries /\ p.current = deliveries[p.input.id]
    PROVE  Checked([p EXCEPT !.phase = NextCheck(p, "read")])
<1> DEFINE q == [p EXCEPT !.phase = NextCheck(p, "read")]
<1>1. NextCheck(p, "read") \in Phases
  BY DEF NextCheck, Phases
<1>2. /\ q.phase = NextCheck(p, "read") /\ q.input = p.input /\ q.current = p.current
      /\ IsUpdate(q) = IsUpdate(p) /\ (ToBeFree(q) <=> ToBeFree(p))
  BY <1>1, PhaseOnly
<1> HIDE DEF q
<1>3. q.phase = "write" => ~ToBeFree(q)
  BY <1>2, CheckSkipped
<1> QED
  BY <1>2, <1>3 DEF Checked, q

\* A request that arrives has not been checked yet.
LEMMA ArrivalStep ==
    ASSUME TypeInv, SerialInv, NEW r \in Slots,
           NEW driver \in Drivers \cup {0}, NEW vehicle \in Vehicles \cup {0},
           \/ \E at \in Times \cup {0}, purchase, invoice \in 0 .. MaxSales :
                 BeginCreation(r, driver, vehicle, at, purchase, invoice)
           \/ \E d \in DOMAIN deliveries, status \in Statuses \ {"PENDING"} :
                 \E version \in 1 .. deliveries[d].version + Ahead :
                    BeginUpdate(r, d, status, version, driver, vehicle)
    PROVE  SerialInv'
<1>1. ASSUME NEW at \in Times \cup {0}, NEW purchase \in 0 .. MaxSales, NEW invoice \in 0 .. MaxSales,
             BeginCreation(r, driver, vehicle, at, purchase, invoice)
      PROVE  SerialInv'
  <2> DEFINE input == [id |-> 0, driver |-> driver, vehicle |-> vehicle, scheduledAt |-> at,
                       purchase |-> purchase, invoice |-> invoice]
             p     == [Idle EXCEPT !.input = input]
  <2>1. input \in Creations /\ input.id = 0
    BY DEF Creations
  <2>2. /\ request' = [request EXCEPT ![r] = [p EXCEPT !.phase = NextCheck(p, "read")]]
        /\ UNCHANGED deliveries
    BY <1>1 DEF BeginCreation, Proceed
  <2> HIDE DEF input
  <2>3. p \in SlotType /\ p.input = input
    BY <2>1, IdleTyped DEF Idle, SlotType
  <2> HIDE DEF p
  <2>4. Checked([p EXCEPT !.phase = NextCheck(p, "read")])
    BY <2>1, <2>3, ArrivalChecked DEF IsUpdate
  <2> QED
    BY <2>2, <2>4, RequestChecked
<1>2. ASSUME NEW d \in DOMAIN deliveries, NEW status \in Statuses \ {"PENDING"},
             NEW version \in 1 .. deliveries[d].version + Ahead,
             BeginUpdate(r, d, status, version, driver, vehicle)
      PROVE  SerialInv'
  <2> DEFINE input == [id |-> d, status |-> status, version |-> version,
                       driver |-> driver, vehicle |-> vehicle]
             p     == [Idle EXCEPT !.input = input, !.current = deliveries[d]]
  <2>1. /\ deliveries[d] \in DeliveryRow /\ deliveries[d].version \in Nat
        /\ d \in 1 .. MaxDeliveries /\ version \in Nat \ {0}
    <3>1. deliveries[d] \in DeliveryRow /\ d \in 1 .. MaxDeliveries
      BY TypedFacts
    <3>2. deliveries[d].version \in Nat /\ Ahead \in Nat
      BY <3>1, ConstantsAssumption DEF DeliveryRow
    <3> QED
      BY <3>1, <3>2
  <2>2. input \in Updates /\ input.id = d
    BY <2>1 DEF Updates
  <2>3. /\ request' = [request EXCEPT ![r] = [p EXCEPT !.phase = NextCheck(p, "read")]]
        /\ UNCHANGED deliveries
    BY <1>2 DEF BeginUpdate, Proceed
  <2> HIDE DEF input
  <2>4. p \in SlotType /\ p.input = input /\ p.current = deliveries[d]
    BY <2>1, <2>2, IdleTyped DEF Idle, SlotType
  <2> HIDE DEF p
  <2>5. Checked([p EXCEPT !.phase = NextCheck(p, "read")])
    BY <2>2, <2>4, ArrivalChecked
  <2> QED
    BY <2>3, <2>5, RequestChecked
<1> QED
  BY <1>1, <1>2

\* The checks, of which the last is the one for conflicts.
LEMMA ChecksKeepSerial ==
    ASSUME TypeInv, SerialInv, NEW r \in Slots, CheckDriver(r) \/ CheckVehicle(r) \/ CheckConflict(r)
    PROVE  SerialInv'
<1> DEFINE p == request[r]
<1>1. p \in SlotType /\ Checked(p)
  BY TypedFacts DEF SerialInv
<1>2. ASSUME NEW after, Proceed(r, p, after)
      PROVE  SerialInv'
  <2> DEFINE q == [p EXCEPT !.phase = NextCheck(p, after)]
  <2>1. NextCheck(p, after) \in Phases
    BY DEF NextCheck, Phases
  <2>2. request' = [request EXCEPT ![r] = q] /\ UNCHANGED deliveries
    BY <1>2 DEF Proceed
  <2> HIDE DEF p
  <2>3. /\ q.phase = NextCheck(p, after) /\ q.input = p.input /\ q.current = p.current
        /\ IsUpdate(q) = IsUpdate(p) /\ (ToBeFree(q) <=> ToBeFree(p))
    BY <1>1, <2>1, PhaseOnly
  <2> HIDE DEF q
  <2>4. Checked(q)
    BY <1>1, <2>3, CheckSkipped DEF Checked
  <2> QED
    BY <2>2, <2>4, RequestChecked
<1>3. CASE CheckConflict(r)
  <2> DEFINE q == [p EXCEPT !.phase = "write"]
  <2>1. ~Conflict(p) /\ request' = [request EXCEPT ![r] = q] /\ UNCHANGED deliveries
    BY <1>3 DEF CheckConflict
  <2> HIDE DEF p
  <2>2. /\ q.phase = "write" /\ q.input = p.input /\ q.current = p.current
        /\ IsUpdate(q) = IsUpdate(p) /\ (Conflict(q) <=> Conflict(p))
    BY <1>1, PhaseOnly DEF Phases
  <2> HIDE DEF q
  <2>3. Checked(q)
    BY <1>1, <2>1, <2>2 DEF Checked
  <2> QED
    BY <2>1, <2>3, RequestChecked
<1> QED
  BY <1>2, <1>3 DEF CheckDriver, CheckVehicle

\* A write leaves the only slot idle.
LEMMA WriteEnds ==
    ASSUME \A s, t \in Slots : s = t, TypeInv, NEW r \in Slots, InsertDelivery(r) \/ UpdateDelivery(r)
    PROVE  \A s \in Slots : Checked(request[s])'
<1>1. \A s \in Slots : request'[s] = Idle
  BY DEF InsertDelivery, UpdateDelivery, TypeInv, TypeOK
<1> QED
  BY <1>1 DEF Checked, Idle, NoInput, IsUpdate

\* What one request at a time keeps.
LEMMA SerialStep ==
    ASSUME \A s, t \in Slots : s = t, TypeInv, SerialInv, AssignedHasBoth', [Next]_vars
    PROVE  SerialInv'
<1>1. ASSUME UNCHANGED <<deliveries, request>> PROVE SerialInv'
  BY <1>1 DEF SerialInv, AssignedHasBoth, NoDoubleBooking, Checked, Conflict, ToBeFree, DriverOf,
              VehicleOf, ScheduledAt, IsUpdate
<1>2. ASSUME NEW d, NEW active, SetDriver(d, active) \/ SetVehicle(d, active) PROVE SerialInv'
  BY <1>1, <1>2 DEF SetDriver, SetVehicle
<1>3. ASSUME NEW r \in Slots, Fail(r) PROVE SerialInv'
  BY <1>3, IdleChecked, RequestChecked DEF Fail
<1>4. ASSUME NEW r \in Slots, InsertDelivery(r) \/ UpdateDelivery(r) PROVE SerialInv'
  BY <1>4, InsertChecked, UpdateChecked, WriteEnds DEF SerialInv
<1>5. ASSUME NEW at \in Times \cup {0}, NEW delivered \in BOOLEAN, CreatePurchase(at, delivered)
      PROVE  SerialInv'
  BY <1>5, PurchaseChecked DEF SerialInv
<1>6. CASE UNCHANGED vars
  BY <1>1, <1>6 DEF vars
<1> QED
  BY <1>2, <1>3, <1>4, <1>5, <1>6, ChecksKeepSerial, ArrivalStep DEF Next, Serve

(***************************************************************************)
(* If at most one request is served at a time, no driver or vehicle is on  *)
(* two deliveries within the window of each other, however creations,      *)
(* updates, purchases and failures follow each other.                      *)
(***************************************************************************)
THEOREM SerialBooking == ASSUME \A r, q \in Slots : r = q PROVE Spec => []NoDoubleBooking
<1>1. Init => SerialInv
  BY IdleChecked DEF Init, SerialInv, AssignedHasBoth, NoDoubleBooking
<1>2. TypeInv /\ SerialInv /\ AssignedHasBoth' /\ [Next]_vars => SerialInv'
  BY SerialStep
<1>3. SerialInv => NoDoubleBooking
  BY DEF SerialInv
<1> QED
  BY <1>1, <1>2, <1>3, TypeInvariance, AssignedNamesBoth, PTL DEF Spec
=============================================================================
