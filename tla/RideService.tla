---------------------------- MODULE RideService ----------------------------
(***************************************************************************)
(* src/service/ride.ts: online and scheduled rides.                        *)
(*                                                                         *)
(* Node runs one callback at a time, so the code between two awaits is     *)
(* atomic and everything else interleaves.  A request whose handler is     *)
(* suspended is a task: its pc names the database call it is waiting for,  *)
(* and the rest of the record is what the handler remembers across the     *)
(* await.  A handler that throws before its first write leaves the state   *)
(* alone and is not modelled; a request is one of the tasks only from the  *)
(* moment its outcome depends on an earlier read.                          *)
(*                                                                         *)
(* pc        the task waits for                             src/service    *)
(* "check"   the SELECT of createScheduledRide              ride.ts:88     *)
(* "insert"  the INSERT of create                           ride.ts:59,113 *)
(* "match"   its turn to run assignNearestDriver            ride.ts:192    *)
(* "find"    the SELECT of fresh drivers                    ride.ts:194    *)
(* "assign"  the UPDATE with the driver, or no_driver       ride.ts:197-226*)
(* "update"  the UPDATE of the status                       ride.ts:295    *)
(* "pay"     the UPDATE of the payment status               ride.ts:315    *)
(***************************************************************************)
EXTENDS DriverService, RideRepo, FiniteSets, Functions

CONSTANTS
    Tasks,         \* handlers that can be suspended at the same time
    MaxRides,      \* bound on the table, for model checking
    FreshWindow,   \* config.RIDE_ASSIGNMENT.DRIVER_LOCATION_FRESH_MINUTES
    NearbyRadius,  \* config.RIDE_ASSIGNMENT.NEARBY_RADIUS_KM
    DaysAhead,     \* config.RIDE_SCHEDULING_DAYS_AHEAD
    Distance,      \* calculateDistanceKm between two places
    Faults,        \* may a database call fail or the process die?
    Worker         \* does something call processDueScheduledRides?

ASSUME RideServiceAssumption ==
    /\ IsFiniteSet(Tasks)
    /\ MaxRides \in Nat /\ FreshWindow \in Nat /\ DaysAhead \in Nat
    /\ NearbyRadius \in Nat
    /\ Distance \in [Places \X Places -> Nat]
    /\ Faults \in BOOLEAN /\ Worker \in BOOLEAN

VARIABLES
    rides,    \* the "rides" table
    task,     \* the suspended handlers
    trail     \* auxiliary: trail[id] is every status ride id has had

tables == <<rides, trail>>
rideVars == <<rides, task, trail>>
vars == <<clock, drivers, pending, rides, task, trail>>

Steps == {"check", "insert", "match", "find", "assign", "update", "pay"}

Task ==
    [pc     : Steps \cup {"idle"},
     ride   : Nat,                              \* id of the ride, if it has one
     actor  : Riders \cup Drivers \cup {Null},  \* who sent the request
     pickup : Places \cup {Null},
     at     : Date \cup {Null},                 \* scheduledAt
     since  : Date \cup {Null},                 \* freshSince
     choice : Drivers \cup {Null},              \* chosenDriver, Null for none
     to     : RideStatus \cup {Null}]           \* the status to write

IdleTask ==
    [pc |-> "idle", ride |-> 0, actor |-> Null, pickup |-> Null,
     at |-> Null, since |-> Null, choice |-> Null, to |-> Null]

TypeOK ==
    /\ DriverTypeOK
    /\ rides \in Seq(RideRow)
    /\ task \in [Tasks -> Task]
    /\ trail \in Seq(SUBSET RideStatus)
    /\ Len(trail) = Len(rides)

Init ==
    /\ DriverInit
    /\ rides = <<>>
    /\ task = [t \in Tasks |-> IdleTask]
    /\ trail = <<>>

-----------------------------------------------------------------------------
\* Tasks.

Idle(t) == task[t].pc = "idle"

Suspend(t, newTask) == task' = [task EXCEPT ![t] = newTask]

Finish(t) == Suspend(t, IdleTask)

Creating == {t \in Tasks : task[t].pc \in {"check", "insert"}}

Room == Len(rides) + Cardinality(Creating) < MaxRides

Matching(t) == task[t].pc \in {"match", "find", "assign"}

MatchTask(id) == [IdleTask EXCEPT !.pc = "match", !.ride = id]

\* rideRepo.update: UPDATE ... WHERE id.  None of its callers makes the write
\* depend on what the row holds by then.
Write(id, row) ==
    /\ rides' = [rides EXCEPT ![id] = row]
    /\ trail' = [trail EXCEPT ![id] = @ \cup {row.status}]

-----------------------------------------------------------------------------
\* Creating a ride.

createOnlineRide(t, r, pickup) ==
    /\ Idle(t) /\ Room
    /\ findActiveRideByRider(rides, r, Null) = {}
    /\ Suspend(t, [IdleTask EXCEPT !.pc = "insert", !.actor = r,
                                   !.pickup = pickup, !.at = Null])
    /\ UNCHANGED <<driverVars, tables>>

\* new Date() has milliseconds: a time in the current second may be the future.
createScheduledRide(t, r, pickup, at) ==
    /\ Idle(t) /\ Room
    /\ at >= clock
    /\ at <= clock + DaysAhead
    /\ Suspend(t, [IdleTask EXCEPT !.pc = "check", !.actor = r,
                                   !.pickup = pickup, !.at = at])
    /\ UNCHANGED <<driverVars, tables>>

\* A rider with an active ride at the same time gets an error.
checkScheduled(t) ==
    /\ task[t].pc = "check"
    /\ IF findActiveRideByRider(rides, task[t].actor, task[t].at) = {}
       THEN Suspend(t, [task[t] EXCEPT !.pc = "insert"])
       ELSE Finish(t)
    /\ UNCHANGED <<driverVars, tables>>

\* The row both kinds of creation insert.
NewRide(t) ==
    [rider |-> task[t].actor, driver |-> Null,
     type |-> IF task[t].at = Null THEN "online" ELSE "scheduled",
     status |-> "requested", paymentStatus |-> "unpaid",
     scheduledAt |-> task[t].at, pickup |-> task[t].pickup]

\* Mutant: the match after the INSERT is forgotten.
MatchedAtOnce_never(t) == FALSE

MatchedAtOnce(t) == task[t].at = Null

\* An online ride is matched at once, a scheduled one answers the request.
create(t) ==
    /\ task[t].pc = "insert"
    /\ rides' = Append(rides, NewRide(t))
    /\ trail' = Append(trail, {"requested"})
    /\ IF MatchedAtOnce(t) THEN Suspend(t, MatchTask(Len(rides) + 1))
                           ELSE Finish(t)
    /\ UNCHANGED driverVars

-----------------------------------------------------------------------------
\* Matching a ride with a driver.

assignNearestDriver(t) ==
    /\ task[t].pc = "match"
    /\ Suspend(t, [task[t] EXCEPT !.pc = "find", !.since = clock - FreshWindow])
    /\ UNCHANGED <<driverVars, tables>>

DistanceTo(d, id) == Distance[rides[id].pickup, drivers[d].place]

Candidates(id, since) ==
    {d \in findFreshOnlineDriversWithLocation(drivers, since) :
        DistanceTo(d, id) <= NearbyRadius}

\* The SELECT has no ORDER BY, so a tie goes to either driver.
Nearest(id, since) ==
    {d \in Candidates(id, since) :
        \A e \in Candidates(id, since) : DistanceTo(d, id) <= DistanceTo(e, id)}

findDrivers(t) ==
    /\ task[t].pc = "find"
    /\ LET found == Nearest(task[t].ride, task[t].since) IN
         \E d \in found \cup {Null} :
            /\ d = Null <=> found = {}
            /\ Suspend(t, [task[t] EXCEPT !.pc = "assign", !.choice = d])
    /\ UNCHANGED <<driverVars, tables>>

\* Mutant: candidates[0] is taken without the check for none.
Assigned_unchecked(row, d) == [row EXCEPT !.driver = d, !.status = "assigned"]

Assigned(row, d) ==
    IF d = Null THEN [row EXCEPT !.status = "no_driver"]
                ELSE [row EXCEPT !.driver = d, !.status = "assigned"]

assign(t) ==
    /\ task[t].pc = "assign"
    /\ Write(task[t].ride, Assigned(rides[task[t].ride], task[t].choice))
    /\ Finish(t)
    /\ UNCHANGED driverVars

-----------------------------------------------------------------------------
\* The driver's and the rider's requests: read and check, then write.

\* Mutants: no check of the type, no check that it is this driver.
loadAnyRide(id) == id \in DOMAIN rides
ensureSomeDriver(id, d) == rides[id].driver # Null

loadOnlineRide(id) == id \in DOMAIN rides /\ rides[id].type = "online"

ensureDriver(id, d) == rides[id].driver = d

Ended == {"completed", "cancelled_by_rider", "cancelled_by_driver"}

\* What is left of a request after its checks passed: the awaited UPDATE.
WriteStatus(t, id, actor, to) ==
    /\ Suspend(t, [IdleTask EXCEPT !.pc = "update", !.ride = id,
                                   !.actor = actor, !.to = to])
    /\ UNCHANGED <<driverVars, tables>>

transitionStatusForDriver(t, id, d, from, to) ==
    /\ Idle(t)
    /\ loadOnlineRide(id)
    /\ ensureDriver(id, d)
    /\ rides[id].status = from
    /\ WriteStatus(t, id, d, to)

driverAcceptRide(t, id, d) ==
    transitionStatusForDriver(t, id, d, "assigned", "accepted")

\* Mutant: a ride can be started before it was accepted.
driverStartRide_early(t, id, d) ==
    transitionStatusForDriver(t, id, d, "assigned", "started")

driverStartRide(t, id, d) ==
    transitionStatusForDriver(t, id, d, "accepted", "started")

driverCompleteRide(t, id, d) ==
    transitionStatusForDriver(t, id, d, "started", "completed")

\* Mutant: the status is not checked.
riderCancelRide_anytime(t, id, r) ==
    /\ Idle(t)
    /\ loadOnlineRide(id)
    /\ rides[id].rider = r
    /\ WriteStatus(t, id, r, "cancelled_by_rider")

riderCancelRide(t, id, r) ==
    /\ Idle(t)
    /\ loadOnlineRide(id)
    /\ rides[id].rider = r
    /\ rides[id].status \notin Ended
    /\ WriteStatus(t, id, r, "cancelled_by_rider")

\* Mutant: a status the ENUM column does not have.
driverCancelRide_misspelt(t, id, d) ==
    /\ Idle(t)
    /\ loadOnlineRide(id)
    /\ ensureDriver(id, d)
    /\ rides[id].status \notin Ended
    /\ WriteStatus(t, id, d, "canceled_by_driver")

driverCancelRide(t, id, d) ==
    /\ Idle(t)
    /\ loadOnlineRide(id)
    /\ ensureDriver(id, d)
    /\ rides[id].status \notin Ended
    /\ WriteStatus(t, id, d, "cancelled_by_driver")

\* Mutants: the payment follows no completion, or every end of a ride.
PaysNext_never(to) == FALSE
PaysNext_afterAnyEnd(to) == to \in Ended

PaysNext(to) == to = "completed"

\* The status that was checked may be another by now.  driverCompleteRide goes
\* on to mark the payment.
update(t) ==
    /\ task[t].pc = "update"
    /\ Write(task[t].ride, [rides[task[t].ride] EXCEPT !.status = task[t].to])
    /\ IF PaysNext(task[t].to)
       THEN Suspend(t, [task[t] EXCEPT !.pc = "pay"])
       ELSE Finish(t)
    /\ UNCHANGED driverVars

Paid(row) == [row EXCEPT !.paymentStatus = "paid"]

pay(t) ==
    /\ task[t].pc = "pay"
    /\ Write(task[t].ride, Paid(rides[task[t].ride]))
    /\ Finish(t)
    /\ UNCHANGED driverVars

-----------------------------------------------------------------------------
\* The scheduled sweep, and failures.

\* One sweep starts a match for each ride it found, and waits for none before
\* it starts the next.  It may find fewer than are due now, because it read
\* the clock before the SELECT.  A sweep does not wait for an earlier one.
processDueScheduledRides ==
    /\ Worker
    /\ \E slots \in SUBSET {t \in Tasks : Idle(t)} \ {{}} :
         \E due \in Injection(slots, findDueScheduled(rides, clock)) :
            task' = [t \in Tasks |-> IF t \in slots THEN MatchTask(due[t])
                                                     ELSE task[t]]
    /\ UNCHANGED <<driverVars, tables>>

\* A database call rejects, or the process dies with its handlers (one step
\* for each of them): what the task had still to do is never done.
Abort(t) ==
    /\ Faults
    /\ ~Idle(t)
    /\ Finish(t)
    /\ UNCHANGED <<driverVars, tables>>

-----------------------------------------------------------------------------
Request(t) ==
    \/ \E r \in Riders, p \in Places : createOnlineRide(t, r, p)
    \/ \E r \in Riders, p \in Places, at \in 0..MaxTime :
          createScheduledRide(t, r, p, at)
    \/ \E id \in DOMAIN rides, d \in Drivers :
          \/ driverAcceptRide(t, id, d)
          \/ driverStartRide(t, id, d)
          \/ driverCompleteRide(t, id, d)
          \/ driverCancelRide(t, id, d)
    \/ \E id \in DOMAIN rides, r \in Riders : riderCancelRide(t, id, r)

Resume(t) ==
    \/ checkScheduled(t)
    \/ create(t)
    \/ assignNearestDriver(t)
    \/ findDrivers(t)
    \/ assign(t)
    \/ update(t)
    \/ pay(t)

Next ==
    \/ DriverNext /\ UNCHANGED rideVars
    \/ \E t \in Tasks : Request(t) \/ Resume(t) \/ Abort(t)
    \/ processDueScheduledRides

\* The database answers every call and the event loop runs every callback.
\* A worker that exists finds a free connection sooner or later.
Fairness ==
    /\ \A t \in Tasks : WF_vars(Resume(t))
    /\ SF_vars(processDueScheduledRides)

Spec == Init /\ [][Next]_vars

FairSpec == Spec /\ Fairness
=============================================================================
