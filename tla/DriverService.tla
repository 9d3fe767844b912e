--------------------------- MODULE DriverService ---------------------------
(***************************************************************************)
(* src/service/driver.ts, the driver's presence: going online and offline  *)
(* and reporting a position.  A handler stamps its UPDATE with new Date()  *)
(* and then waits for the database, so the UPDATEs of two requests of one  *)
(* driver may land in either order.  The SELECT that follows the UPDATE    *)
(* only feeds the response.  updateLocation rejects coordinates out of     *)
(* range before the UPDATE: Places holds valid ones.                       *)
(***************************************************************************)
EXTENDS DriverRepo

CONSTANTS
    Calls,      \* presence UPDATEs that can be pending at the same time
    MaxTime     \* bound on the clock, for model checking

ASSUME DriverServiceAssumption == MaxTime \in Nat

VARIABLES
    clock,      \* the wall clock that new Date() reads
    drivers,    \* the "drivers" table
    pending     \* the UPDATEs sent to it that have not run yet

driverVars == <<clock, drivers, pending>>

\* place is Null in an update of the status.
Update == [driver : Drivers, isOnline : BOOLEAN, place : Places \cup {Null}, at : Nat]

NoUpdate == [driver |-> Null, isOnline |-> FALSE, place |-> Null, at |-> 0]

DriverTypeOK ==
    /\ clock \in Nat
    /\ drivers \in [Drivers -> DriverRow]
    /\ pending \in [Calls -> Update \cup {NoUpdate}]

\* A driver row as driverRegister inserts it.
RegisteredDriver ==
    [isOnline |-> FALSE, place |-> Null, lastPingAt |-> Null, locatedAt |-> Null]

DriverInit ==
    /\ clock = 0
    /\ drivers = [d \in Drivers |-> RegisteredDriver]
    /\ pending = [c \in Calls |-> NoUpdate]

Send(c, update) ==
    /\ pending[c] = NoUpdate
    /\ pending' = [pending EXCEPT ![c] = update]
    /\ UNCHANGED <<clock, drivers>>

updateStatus(c, d, isOnline) ==
    Send(c, [driver |-> d, isOnline |-> isOnline, place |-> Null, at |-> clock])

updateLocation(c, d, place) ==
    Send(c, [driver |-> d, isOnline |-> FALSE, place |-> place, at |-> clock])

Updated(row, update) ==
    IF update.place = Null
    THEN updateOnlineStatusByUserId(row, update.isOnline, update.at)
    ELSE updateLocationByUserId(row, update.place, update.at)

land(c) ==
    /\ pending[c] # NoUpdate
    /\ drivers' = [drivers EXCEPT ![pending[c].driver] = Updated(@, pending[c])]
    /\ pending' = [pending EXCEPT ![c] = NoUpdate]
    /\ UNCHANGED clock

\* The UPDATE is rejected, or the process dies before it is sent.
lose(c) ==
    /\ pending[c] # NoUpdate
    /\ pending' = [pending EXCEPT ![c] = NoUpdate]
    /\ UNCHANGED <<clock, drivers>>

Tick ==
    /\ clock < MaxTime
    /\ clock' = clock + 1
    /\ UNCHANGED <<drivers, pending>>

DriverNext ==
    \/ \E c \in Calls :
         \/ \E d \in Drivers, isOnline \in BOOLEAN : updateStatus(c, d, isOnline)
         \/ \E d \in Drivers, place \in Places : updateLocation(c, d, place)
         \/ land(c)
         \/ lose(c)
    \/ Tick
=============================================================================
