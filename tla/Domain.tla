------------------------------- MODULE Domain -------------------------------
(***************************************************************************)
(* The vocabulary of the service: the enumerations of                      *)
(* src/constant/common.ts, the rows of the "rides" and "drivers" tables,   *)
(* and the people and places that appear in them.                          *)
(*                                                                         *)
(* Coordinates are abstracted to a set of Places with a Distance between   *)
(* them; the price, the ride code and the drop-off are left out, because   *)
(* no later operation reads them.  Dates are whole seconds, the precision  *)
(* of the DATETIME columns they are stored in.                             *)
(***************************************************************************)
EXTENDS Integers, Sequences

CONSTANTS
    Riders,     \* ids of users of type "rider"
    Drivers,    \* ids of users of type "driver", each with a drivers row
    Places,     \* (lat, lng) pairs
    Null        \* SQL NULL

ASSUME DomainAssumption ==
    /\ Riders \cap Drivers = {}
    /\ Null \notin Riders \cup Drivers \cup Places \cup Int

RideStatus ==
    {"requested", "assigned", "accepted", "started", "completed",
     "cancelled_by_rider", "cancelled_by_driver", "no_driver"}

RideType == {"online", "scheduled"}

PaymentStatus == {"paid", "unpaid"}

Date == Int

RideRow ==
    [rider         : Riders,
     driver        : Drivers \cup {Null},
     type          : RideType,
     status        : RideStatus,
     paymentStatus : PaymentStatus,
     scheduledAt   : Date \cup {Null},
     pickup        : Places]

\* locatedAt is auxiliary: when the driver's app last reported a position.
\* No query reads it; it is compared with lastPingAt, which the code does read.
DriverRow ==
    [isOnline   : BOOLEAN,
     place      : Places \cup {Null},
     lastPingAt : Date \cup {Null},
     locatedAt  : Date \cup {Null}]
=============================================================================
