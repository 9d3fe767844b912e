--------------------------- MODULE RideProperties ---------------------------
(***************************************************************************)
(* What rides go through, whatever the interleaving.  Every write of       *)
(* ride.ts is an UPDATE by id that does not look at the row, so much of    *)
(* what one handler checks can be undone by another; these properties say  *)
(* what is left, and the last ones what the documents promise beyond that. *)
(* RideHistory says which handlers are to blame for the difference.        *)
(***************************************************************************)
EXTENDS RideService

Online(id) == rides[id].type = "online"

-----------------------------------------------------------------------------
(* Safety under any interleaving and any failure.                          *)

\* README.md:59. Each milestone was reached through the one before it:
\* racing writes may undo a status, never skip one.
MilestonesInOrder ==
    \A id \in DOMAIN rides :
        /\ "completed" \in trail[id] => "started" \in trail[id]
        /\ "started" \in trail[id] => "accepted" \in trail[id]
        /\ "accepted" \in trail[id] => "assigned" \in trail[id]

\* A ride is paid only if it was completed, even when the two UPDATEs of
\* driverCompleteRide interleave with a cancellation.
PaidOnlyAfterCompletion ==
    \A id \in DOMAIN rides :
        rides[id].paymentStatus = "paid" => "completed" \in trail[id]

\* A ride has a driver exactly when it was assigned once: no status that needs
\* a driver is ever written to a ride without one.
DriverIffAssigned ==
    \A id \in DOMAIN rides :
        rides[id].driver # Null <=> "assigned" \in trail[id]

\* The ownership check of a request is made before its await; it still holds
\* when the UPDATE runs (the check of the status, on the contrary, may not).
OwnershipHoldsAtWrite ==
    \A t \in Tasks :
        task[t].pc \in {"update", "pay"} =>
            LET row == rides[task[t].ride] IN
              /\ row.type = "online"
              /\ task[t].actor = IF task[t].to = "cancelled_by_rider"
                                 THEN row.rider ELSE row.driver

\* Nobody takes an online ride over: its driver is assigned once.
OnlineDriverFixed ==
    [][\A id \in DOMAIN rides :
          Online(id) /\ rides[id].driver # Null
              => rides'[id].driver = rides[id].driver]_vars

\* Every request of a driver or a rider asks for an online ride, so a
\* scheduled ride stays where the sweep left it: it is never accepted,
\* cancelled or paid.
ScheduledRideIsNeverServed ==
    \A id \in DOMAIN rides :
        ~Online(id) =>
            /\ trail[id] \subseteq {"requested", "assigned", "no_driver"}
            /\ rides[id].paymentStatus = "unpaid"

\* ride.ts:41.  A rider gets more than one active ride for a time only by
\* requests that overlap: each such ride takes a handler of its own that was
\* under way when the rider had none.
ActiveNeedsOverlap ==
    \A id \in DOMAIN rides :
        Cardinality(findActiveRideByRider(rides, rides[id].rider,
                                          rides[id].scheduledAt))
            <= Cardinality(Tasks)

-----------------------------------------------------------------------------
(* What the documents and the error messages promise.                      *)

\* ride.ts:41.  "An active ride already exists for this rider" is the error
\* that is to keep a rider from having two.
OneActiveRidePerRider ==
    \A i, j \in DOMAIN rides :
        /\ rides[i].status \in ActiveStatuses /\ rides[j].status \in ActiveStatuses
        /\ rides[i].rider = rides[j].rider
        /\ rides[i].scheduledAt = rides[j].scheduledAt
        => i = j

\* ride.ts:297, :332.  A ride that was cancelled or completed stays as it ended.
EndedIsFinal ==
    [][\A id \in DOMAIN rides :
          rides[id].status \in Ended => rides'[id].status = rides[id].status]_vars

\* README.md:57, ride.ts:62.  A match is made on live locations: the driver's
\* app has sent the location within the freshness window.
MatchedOnLiveLocation ==
    \A t \in Tasks :
        task[t].pc = "assign" /\ task[t].choice # Null =>
            drivers[task[t].choice].locatedAt >= task[t].since

\* README.md:73-75. A scheduled ride whose time has come gets its match.
DueRideProcessed ==
    \A id \in 1..MaxRides :
        (/\ id \in DOMAIN rides
         /\ rides[id].scheduledAt # Null
         /\ rides[id].scheduledAt <= clock) ~>
            (id \in DOMAIN rides /\ rides[id].status # "requested")
=============================================================================
