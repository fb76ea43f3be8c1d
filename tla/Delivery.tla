------------------------------ MODULE Delivery ------------------------------
(***************************************************************************)
(* Deliveries, drivers and vehicles.  createDelivery and                   *)
(* updateDeliveryStatus run at READ COMMITTED and take no lock: each reads *)
(* what it checks statement by statement and writes at the end, so that a  *)
(* request here is one step per statement.  A slot is a request the server *)
(* is working on.                                                          *)
(*                                                                         *)
(* Ids, versions and times are numbers, and 0 is null.  Purchase n has     *)
(* invoice n.  Of the status of a driver or vehicle the model keeps        *)
(* whether it may be assigned: `drivers` are the ACTIVE ones, `vehicles`   *)
(* those AVAILABLE or IN_USE.  That the customer is active and owns the    *)
(* purchase and invoice is left to Fail: a refusal without effect.         *)
(***************************************************************************)
EXTENDS Integers, Sequences

CONSTANTS
    Slots,          \* requests the server handles at once
    Drivers,        \* sets of ids
    Vehicles,
    Times,          \* values of scheduledAt
    Window,         \* the two hours within which deliveries conflict
    Ahead,          \* how far a client's version may be ahead of what is committed
    MaxSales,       \* bounds on the number of rows
    MaxDeliveries

ASSUME ConstantsAssumption ==
    /\ {Window, Ahead, MaxSales, MaxDeliveries} \subseteq Nat
    /\ Drivers \cup Vehicles \cup Times \subseteq Nat \ {0}

VARIABLES drivers, vehicles, sales, deliveries, request

vars == <<drivers, vehicles, sales, deliveries, request>>

-----------------------------------------------------------------------------
Statuses == {"PENDING", "ASSIGNED", "IN_TRANSIT", "DELIVERED", "CANCELLED"}

\* One row, with its DeliveryStatusHistory rows.
DeliveryRow ==
    [status : Statuses, version : Nat \ {0}, driver : Drivers \cup {0}, vehicle : Vehicles \cup {0},
     scheduledAt : Times \cup {0}, purchase : 0 .. MaxSales, invoice : 0 .. MaxSales,
     history : Seq([from : Statuses \cup {"none"}, to : Statuses])]

NoRow == [status |-> "PENDING", version |-> 1, driver |-> 0, vehicle |-> 0, scheduledAt |-> 0,
          purchase |-> 0, invoice |-> 0, history |-> <<>>]

Creations == [id : {0}, driver : Drivers \cup {0}, vehicle : Vehicles \cup {0},
              scheduledAt : Times \cup {0}, purchase : 0 .. MaxSales, invoice : 0 .. MaxSales]

Updates == [id : 1 .. MaxDeliveries, status : Statuses \ {"PENDING"}, version : Nat \ {0},
            driver : Drivers \cup {0}, vehicle : Vehicles \cup {0}]

NoInput == [id |-> 0]

Phases == {"idle", "driver", "vehicle", "conflict", "write"}

TypeOK ==
    /\ drivers \subseteq Drivers /\ vehicles \subseteq Vehicles
    /\ sales \in 0 .. MaxSales
    /\ deliveries \in Seq(DeliveryRow)
    /\ request \in [Slots -> [phase   : Phases,
                              input   : Creations \cup Updates \cup {NoInput},
                              current : DeliveryRow]]

Idle == [phase |-> "idle", input |-> NoInput, current |-> NoRow]

-----------------------------------------------------------------------------
ALLOWED_TRANSITIONS ==
    [PENDING    |-> {"ASSIGNED", "CANCELLED"},
     ASSIGNED   |-> {"IN_TRANSIT", "CANCELLED"},
     IN_TRANSIT |-> {"DELIVERED"},
     DELIVERED  |-> {},
     CANCELLED  |-> {}]

IsUpdate(q) == q.input.id # 0

\* input.driverId ?? current.driverId, and nothing on a creation without one
DriverOf(q)  == IF q.input.driver # 0 THEN q.input.driver ELSE q.current.driver
VehicleOf(q) == IF q.input.vehicle # 0 THEN q.input.vehicle ELSE q.current.vehicle

ScheduledAt(q) == IF IsUpdate(q) THEN q.current.scheduledAt ELSE q.input.scheduledAt

Busy == {"ASSIGNED", "IN_TRANSIT"}

StrictlyNear(a, b) == a - b < Window /\ b - a < Window  \* mutant: gt and lt

Near(a, b) == a - b <= Window /\ b - a <= Window

Conflict(q) ==
    \E d \in DOMAIN deliveries \ {q.input.id} :
        /\ deliveries[d].status \in Busy
        /\ deliveries[d].scheduledAt # 0 /\ Near(ScheduledAt(q), deliveries[d].scheduledAt)
        /\ \/ DriverOf(q) # 0 /\ deliveries[d].driver = DriverOf(q)
           \/ VehicleOf(q) # 0 /\ deliveries[d].vehicle = VehicleOf(q)

EitherAssigned(q) ==  \* mutant: || for &&
    q.input.status \in {"ASSIGNED", "IN_TRANSIT", "DELIVERED"} => DriverOf(q) # 0 \/ VehicleOf(q) # 0

Assigned(q) ==
    q.input.status \in {"ASSIGNED", "IN_TRANSIT", "DELIVERED"} => DriverOf(q) # 0 /\ VehicleOf(q) # 0

\* The next statement of assertResourcesAvailable, or the write after it.
NextCheck(q, after) ==
    CASE after = "read" /\ DriverOf(q) # 0                  -> "driver"
      [] after \in {"read", "driver"} /\ VehicleOf(q) # 0   -> "vehicle"
      [] ScheduledAt(q) # 0 /\ (DriverOf(q) # 0 \/ VehicleOf(q) # 0) -> "conflict"
      [] OTHER                                              -> "write"

-----------------------------------------------------------------------------
Init ==
    /\ drivers = {} /\ vehicles = {}
    /\ sales = 0
    /\ deliveries = <<>>
    /\ request = [r \in Slots |-> Idle]

\* createDriver and updateDriver, whose deliveries are not looked at.
SetDriver(d, active) ==
    /\ drivers' = IF active THEN drivers \cup {d} ELSE drivers \ {d}
    /\ UNCHANGED <<vehicles, sales, deliveries, request>>

SetVehicle(v, usable) ==
    /\ vehicles' = IF usable THEN vehicles \cup {v} ELSE vehicles \ {v}
    /\ UNCHANGED <<drivers, sales, deliveries, request>>

CountedFromZero(status, driver, vehicle, at, purchase, invoice) ==  \* mutant: default(0)
    [status |-> status, version |-> 0, driver |-> driver, vehicle |-> vehicle, scheduledAt |-> at,
     purchase |-> purchase, invoice |-> invoice, history |-> <<[from |-> "none", to |-> status]>>]

NewDelivery(status, driver, vehicle, at, purchase, invoice) ==
    [status |-> status, version |-> 1, driver |-> driver, vehicle |-> vehicle, scheduledAt |-> at,
     purchase |-> purchase, invoice |-> invoice, history |-> <<[from |-> "none", to |-> status]>>]

\* createPurchase adds a purchase, its invoice and, if asked, a delivery.
CreatePurchase(at, delivered) ==
    /\ sales < MaxSales
    /\ sales' = sales + 1
    /\ IF delivered
       THEN /\ Len(deliveries) < MaxDeliveries
            /\ deliveries' = Append(deliveries, NewDelivery("PENDING", 0, 0, at, sales + 1, sales + 1))
       ELSE UNCHANGED deliveries
    /\ UNCHANGED <<drivers, vehicles, request>>

-----------------------------------------------------------------------------
Proceed(r, q, after) ==
    /\ request' = [request EXCEPT ![r] = [q EXCEPT !.phase = NextCheck(q, after)]]
    /\ UNCHANGED <<drivers, vehicles, sales, deliveries>>

\* A request arrives, and its first statement reads what it is about.
BeginCreation(r, driver, vehicle, at, purchase, invoice) ==
    LET input == [id |-> 0, driver |-> driver, vehicle |-> vehicle, scheduledAt |-> at,
                  purchase |-> purchase, invoice |-> invoice]
    IN
    /\ request[r].phase = "idle"
    /\ purchase <= sales /\ invoice <= sales
    /\ purchase # 0 /\ invoice # 0 => purchase = invoice
    /\ Proceed(r, [Idle EXCEPT !.input = input], "read")

\* The client sends the version of the row it has seen, of some time ago.
BeginUpdate(r, d, status, version, driver, vehicle) ==
    LET input == [id |-> d, status |-> status, version |-> version,
                  driver |-> driver, vehicle |-> vehicle]
        q == [Idle EXCEPT !.input = input, !.current = deliveries[d]]
    IN
    /\ request[r].phase = "idle"
    /\ version <= deliveries[d].version + Ahead
    /\ status \in ALLOWED_TRANSITIONS[q.current.status]
    /\ Assigned(q)
    /\ Proceed(r, q, "read")

CheckDriver(r) ==
    /\ request[r].phase = "driver"
    /\ DriverOf(request[r]) \in drivers
    /\ Proceed(r, request[r], "driver")

CheckVehicle(r) ==
    /\ request[r].phase = "vehicle"
    /\ VehicleOf(request[r]) \in vehicles
    /\ Proceed(r, request[r], "vehicle")

CheckConflict(r) ==
    /\ request[r].phase = "conflict"
    /\ ~Conflict(request[r])
    /\ request' = [request EXCEPT ![r].phase = "write"]
    /\ UNCHANGED <<drivers, vehicles, sales, deliveries>>

\* purchaseId and invoiceId are @unique columns.
Unique(input) ==
    /\ input.purchase # 0 => \A d \in DOMAIN deliveries : deliveries[d].purchase # input.purchase
    /\ input.invoice # 0 => \A d \in DOMAIN deliveries : deliveries[d].invoice # input.invoice

InsertDelivery(r) ==
    LET input == request[r].input IN
    /\ request[r].phase = "write" /\ ~IsUpdate(request[r])
    /\ Len(deliveries) < MaxDeliveries /\ Unique(input)
    /\ deliveries' =
          Append(deliveries,
                 NewDelivery(IF input.driver # 0 /\ input.vehicle # 0 THEN "ASSIGNED" ELSE "PENDING",
                             input.driver, input.vehicle, input.scheduledAt, input.purchase, input.invoice))
    /\ request' = [request EXCEPT ![r] = Idle]
    /\ UNCHANGED <<drivers, vehicles, sales>>

AnyVersion(r) == TRUE  \* mutant: no version in the WHERE clause

SameVersion(r) == deliveries[request[r].input.id].version = request[r].input.version

\* Prisma leaves a column alone that is undefined.
Written(id, old) == IF id # 0 THEN id ELSE old

VersionKept(row, q) ==  \* mutant: the version is not incremented
    [row EXCEPT !.status = q.input.status,
                !.driver = Written(DriverOf(q), @), !.vehicle = Written(VehicleOf(q), @),
                !.history = Append(@, [from |-> q.current.status, to |-> q.input.status])]

Updated(row, q) ==
    [row EXCEPT !.status = q.input.status,
                !.driver = Written(DriverOf(q), @), !.vehicle = Written(VehicleOf(q), @),
                !.version = @ + 1,
                !.history = Append(@, [from |-> q.current.status, to |-> q.input.status])]

\* updateMany on id and version, then the history row, in one commit.
UpdateDelivery(r) ==
    LET q == request[r] IN
    /\ q.phase = "write" /\ IsUpdate(q)
    /\ SameVersion(r)
    /\ deliveries' = [deliveries EXCEPT ![q.input.id] = Updated(@, q)]
    /\ request' = [request EXCEPT ![r] = Idle]
    /\ UNCHANGED <<drivers, vehicles, sales>>

\* Any check may refuse the request, and the transaction may fail or time out:
\* it is rolled back and answered.
Fail(r) ==
    /\ request[r].phase # "idle"
    /\ request' = [request EXCEPT ![r] = Idle]
    /\ UNCHANGED <<drivers, vehicles, sales, deliveries>>

Serve(r) ==
    \/ CheckDriver(r) \/ CheckVehicle(r) \/ CheckConflict(r)
    \/ InsertDelivery(r) \/ UpdateDelivery(r) \/ Fail(r)

Next ==
    \/ \E d \in Drivers, active \in BOOLEAN : SetDriver(d, active)
    \/ \E v \in Vehicles, usable \in BOOLEAN : SetVehicle(v, usable)
    \/ \E at \in Times \cup {0}, delivered \in BOOLEAN : CreatePurchase(at, delivered)
    \/ \E r \in Slots, driver \in Drivers \cup {0}, vehicle \in Vehicles \cup {0} :
          \/ \E at \in Times \cup {0}, purchase, invoice \in 0 .. MaxSales :
                BeginCreation(r, driver, vehicle, at, purchase, invoice)
          \/ \E d \in DOMAIN deliveries, status \in Statuses \ {"PENDING"} :
                \E version \in 1 .. deliveries[d].version + Ahead :
                   BeginUpdate(r, d, status, version, driver, vehicle)
    \/ \E r \in Slots : Serve(r)

Spec == Init /\ [][Next]_vars

-----------------------------------------------------------------------------
LegalStep(from, to) ==
    \/ from = "none" /\ to \in {"PENDING", "ASSIGNED"}
    \/ from = "PENDING" /\ to \in {"ASSIGNED", "CANCELLED"}
    \/ from = "ASSIGNED" /\ to \in {"IN_TRANSIT", "CANCELLED"}
    \/ from = "IN_TRANSIT" /\ to = "DELIVERED"

\* The history of a delivery is one legal life from its creation to its present
\* status, with one row per version, however requests that checked different
\* states of the row interleave.
HistoryIsLegalLife ==
    \A d \in DOMAIN deliveries :
        LET history == deliveries[d].history IN
        /\ Len(history) = deliveries[d].version
        /\ history[Len(history)].to = deliveries[d].status
        /\ \A k \in DOMAIN history :
              /\ LegalStep(history[k].from, history[k].to)
              /\ history[k].from = IF k = 1 THEN "none" ELSE history[k - 1].to

\* A delivery that is assigned, on its way or delivered names who drove what,
\* through whichever of creation and update it got there.
AssignedHasBoth ==
    \A d \in DOMAIN deliveries :
        deliveries[d].status \in {"ASSIGNED", "IN_TRANSIT", "DELIVERED"} =>
            deliveries[d].driver # 0 /\ deliveries[d].vehicle # 0

\* An accepted update is applied to the row it was checked against: no update
\* that was committed in between is overwritten.
UpdatesSeeTheRow ==
    [][\A r \in Slots : UpdateDelivery(r) => deliveries[request[r].input.id] = request[r].current]_vars

\* No driver or vehicle is on two deliveries within two hours of each other.
NoDoubleBooking ==
    \A d, e \in DOMAIN deliveries :
        (/\ d # e
         /\ {deliveries[d].status, deliveries[e].status} \subseteq {"ASSIGNED", "IN_TRANSIT"}
         /\ deliveries[d].scheduledAt # 0 /\ deliveries[e].scheduledAt # 0
         /\ deliveries[d].scheduledAt - deliveries[e].scheduledAt \in -Window .. Window)
        => /\ deliveries[d].driver # deliveries[e].driver
           /\ deliveries[d].vehicle # deliveries[e].vehicle
=============================================================================
