-------------------------- MODULE RideOverlapProofs --------------------------
(***************************************************************************)
(* Requests that overlap can give a rider several active rides for one     *)
(* time, but no more than there are handlers (OverlapInv): a ride opens    *)
(* only after a check that found none active, and at that moment every     *)
(* ride that may become active again has a suspended handler of its own    *)
(* (CheckedInv).                                                           *)
(***************************************************************************)
EXTENDS RideProofs, FiniteSetTheorems

\* A handler waits for its INSERT since before this step, or found in this
\* step that the rider has no active ride.
LEMMA InsertIsChecked ==
  ASSUME Inv, Next, NEW s \in Tasks, task'[s].pc = "insert"
  PROVE  \/ task'[s] = task[s]
         \/ /\ rides' = rides
            /\ findActiveRideByRider(rides, task'[s].actor, task'[s].at) = {}
<1>1. task \in [Tasks -> Task]
  BY DEF Inv, TypeOK
<1>2. ASSUME NEW t \in Tasks, NEW k, Suspend(t, k), k.pc # "insert"
      PROVE  task'[s] = task[s]
  BY <1>1, <1>2 DEF Suspend
<1>3. ASSUME NEW t \in Tasks, Finish(t) PROVE task'[s] = task[s]
  BY <1>2, <1>3 DEF Finish, IdleTask
<1>4. ASSUME NEW t \in Tasks, NEW r \in Riders, NEW p \in Places,
             createOnlineRide(t, r, p)
      PROVE  \/ task'[s] = task[s]
             \/ /\ rides' = rides
                /\ findActiveRideByRider(rides, task'[s].actor, task'[s].at) = {}
  BY <1>1, <1>4 DEF createOnlineRide, Suspend, IdleTask, tables
<1>5. ASSUME NEW t \in Tasks, checkScheduled(t)
      PROVE  \/ task'[s] = task[s]
             \/ /\ rides' = rides
                /\ findActiveRideByRider(rides, task'[s].actor, task'[s].at) = {}
  <2>1. CASE Finish(t)
    BY <1>3, <2>1
  <2>2. CASE ~Finish(t)
    <3>1. /\ findActiveRideByRider(rides, task[t].actor, task[t].at) = {}
          /\ task' = [task EXCEPT ![t] = [task[t] EXCEPT !.pc = "insert"]]
          /\ rides' = rides
      BY <1>5, <2>2 DEF checkScheduled, Suspend, tables
    <3>2. CASE s = t
      <4>1. task'[s].actor = task[t].actor /\ task'[s].at = task[t].at
        BY <1>1, <3>1, <3>2 DEF Task
      <4> QED BY <3>1, <4>1
    <3>3. CASE s # t
      BY <1>1, <3>1, <3>3
    <3> QED BY <3>2, <3>3
  <2> QED BY <2>1, <2>2
<1>6. ASSUME NEW t \in Tasks, Request(t)
      PROVE  \/ task'[s] = task[s]
             \/ /\ rides' = rides
                /\ findActiveRideByRider(rides, task'[s].actor, task'[s].at) = {}
  <2>1. ASSUME NEW r \in Riders, NEW p \in Places, NEW at \in 0..MaxTime,
               createScheduledRide(t, r, p, at)
        PROVE  task'[s] = task[s]
    BY <1>1, <2>1 DEF createScheduledRide, Suspend, IdleTask
  <2>2. ASSUME NEW id, NEW actor, NEW to, WriteStatus(t, id, actor, to)
        PROVE  task'[s] = task[s]
    BY <1>1, <2>2 DEF WriteStatus, Suspend, IdleTask
  <2> QED BY <1>4, <1>6, <2>1, <2>2
      DEF Request, driverAcceptRide, driverStartRide, driverCompleteRide,
          driverCancelRide, riderCancelRide, transitionStatusForDriver
<1>7. ASSUME NEW t \in Tasks, create(t) PROVE task'[s] = task[s]
  BY <1>2, <1>3, <1>7 DEF create, MatchTask, IdleTask
<1>8. ASSUME NEW t \in Tasks, assignNearestDriver(t) \/ findDrivers(t) \/ update(t)
      PROVE  task'[s] = task[s]
  <2>1. CASE assignNearestDriver(t)
    BY <1>1, <2>1 DEF assignNearestDriver, Suspend, Task
  <2>2. CASE findDrivers(t)
    BY <1>1, <2>2 DEF findDrivers, Suspend, Task
  <2>3. CASE update(t)
    BY <1>1, <2>3 DEF update, Suspend, Finish, IdleTask, Task
  <2> QED BY <1>8, <2>1, <2>2, <2>3
<1>9. ASSUME NEW t \in Tasks, assign(t) \/ pay(t) \/ Abort(t)
      PROVE  task'[s] = task[s]
  BY <1>3, <1>9 DEF assign, pay, Abort
<1>10. CASE processDueScheduledRides
  BY <1>1, <1>10 DEF processDueScheduledRides, MatchTask, IdleTask
<1>11. CASE UNCHANGED rideVars
  BY <1>11 DEF rideVars
<1> QED BY <1>5, <1>6, <1>7, <1>8, <1>9, <1>10, <1>11 DEF Next, Resume

-----------------------------------------------------------------------------
\* A suspended handler that may make its ride active again.
Activates(k) ==
    \/ k.pc \in {"match", "find", "assign"}
    \/ k.pc = "update" /\ k.to \in ActiveStatuses

\* The rides of a rider for a time that are active or may become so.
Open(r, at) ==
    {id \in DOMAIN rides :
        /\ rides[id].rider = r /\ rides[id].scheduledAt = at
        /\ \/ rides[id].status \in ActiveStatuses
           \/ \E t \in Tasks : task[t].ride = id /\ Activates(task[t])}

\* The handlers that will add one.
Waiting(r, at) ==
    {t \in Tasks : task[t].pc = "insert" /\ task[t].actor = r /\ task[t].at = at}

Bounded(r, at) ==
    Cardinality(Open(r, at)) + Cardinality(Waiting(r, at)) <= Cardinality(Tasks)

\* A ride opens only while no ride is active, when every open one has a handler
\* of its own; so open rides and handlers about to add one never outnumber the
\* handlers, although later an open ride needs no handler to stay open.
OverlapInv == \A r \in Riders, at \in Date \cup {Null} : Bounded(r, at)

LEMMA FiniteCounts ==
  ASSUME TypeOK, NEW r, NEW at
  PROVE  /\ IsFiniteSet(Open(r, at)) /\ Cardinality(Open(r, at)) \in Nat
         /\ IsFiniteSet(Waiting(r, at)) /\ Cardinality(Waiting(r, at)) \in Nat
         /\ IsFiniteSet(Tasks) /\ Cardinality(Tasks) \in Nat
<1>1. Open(r, at) \in SUBSET (1..Len(rides)) /\ IsFiniteSet(1..Len(rides))
  BY FS_Interval DEF Open, TypeOK
<1>2. Waiting(r, at) \in SUBSET Tasks /\ IsFiniteSet(Tasks)
  BY RideServiceAssumption DEF RideServiceAssumption, Waiting
<1> QED BY <1>1, <1>2, FS_Subset, FS_CardinalityType

\* A handler becomes a threat to a ride only by the check that it is active.
LEMMA ActivatorsFindActive ==
  ASSUME Inv, Next, NEW s \in Tasks, Activates(task[s])',
         NEW id \in DOMAIN rides, task'[s].ride = id
  PROVE  \/ Activates(task[s]) /\ task[s].ride = id
         \/ rides[id].status \in ActiveStatuses
<1>1. task \in [Tasks -> Task] /\ rides \in Seq(RideRow)
  BY DEF Inv, TypeOK
<1>2. CASE task'[s] = task[s]
  BY <1>2 DEF Activates
<1>3. ASSUME NEW t \in Tasks, NEW k, Suspend(t, k), ~Activates(k)
      PROVE  task'[s] = task[s]
  BY <1>1, <1>3 DEF Suspend, Activates
<1>4. ASSUME NEW t \in Tasks, Finish(t) PROVE task'[s] = task[s]
  <2>1. ~Activates(IdleTask)
    BY DEF Activates, IdleTask
  <2> QED BY <1>3, <1>4, <2>1 DEF Finish
<1>5. ASSUME NEW t \in Tasks, NEW i, NEW actor, NEW to, WriteStatus(t, i, actor, to),
             to \in ActiveStatuses => rides[i].status \in ActiveStatuses
      PROVE  task'[s] = task[s] \/ rides[id].status \in ActiveStatuses
  <2> DEFINE k == [IdleTask EXCEPT !.pc = "update", !.ride = i,
                                   !.actor = actor, !.to = to]
  <2>1. k.pc = "update" /\ k.ride = i /\ k.to = to /\ Suspend(t, k)
    BY <1>5 DEF WriteStatus, IdleTask
  <2> HIDE DEF k
  <2>2. CASE s = t
    <3>1. task'[s] = k
      BY <1>1, <2>1, <2>2 DEF Suspend
    <3> QED BY <1>5, <2>1, <3>1 DEF Activates
  <2>3. CASE s # t
    BY <1>1, <2>1, <2>3 DEF Suspend
  <2> QED BY <2>2, <2>3
<1>6. ASSUME NEW t \in Tasks, Request(t)
      PROVE  task'[s] = task[s] \/ rides[id].status \in ActiveStatuses
  <2>1. ASSUME NEW r \in Riders, NEW p \in Places, createOnlineRide(t, r, p)
        PROVE  task'[s] = task[s]
    BY <1>3, <2>1 DEF createOnlineRide, Activates, IdleTask
  <2>2. ASSUME NEW r \in Riders, NEW p \in Places, NEW at \in 0..MaxTime,
               createScheduledRide(t, r, p, at)
        PROVE  task'[s] = task[s]
    BY <1>3, <2>2 DEF createScheduledRide, Activates, IdleTask
  <2>3. ASSUME NEW i \in DOMAIN rides, NEW d \in Drivers,
               driverAcceptRide(t, i, d) \/ driverStartRide(t, i, d)
        PROVE  task'[s] = task[s] \/ rides[id].status \in ActiveStatuses
    BY <1>5, <2>3 DEF driverAcceptRide, driverStartRide, transitionStatusForDriver,
       ActiveStatuses
  <2>4. ASSUME NEW i \in DOMAIN rides, NEW d \in Drivers,
               driverCompleteRide(t, i, d) \/ driverCancelRide(t, i, d)
        PROVE  task'[s] = task[s] \/ rides[id].status \in ActiveStatuses
    BY <1>5, <2>4 DEF driverCompleteRide, driverCancelRide, transitionStatusForDriver,
       ActiveStatuses
  <2>5. ASSUME NEW i \in DOMAIN rides, NEW r \in Riders, riderCancelRide(t, i, r)
        PROVE  task'[s] = task[s] \/ rides[id].status \in ActiveStatuses
    BY <1>5, <2>5 DEF riderCancelRide, ActiveStatuses
  <2> QED BY <1>6, <2>1, <2>2, <2>3, <2>4, <2>5 DEF Request
<1>7. ASSUME NEW t \in Tasks, create(t) PROVE task'[s] = task[s]
  <2>1. CASE Finish(t)
    BY <1>4, <2>1
  <2>2. CASE Suspend(t, MatchTask(Len(rides) + 1))
    <3>1. MatchTask(Len(rides) + 1).ride # id
      BY <1>1 DEF MatchTask, IdleTask
    <3> QED BY <1>1, <2>2, <3>1 DEF Suspend
  <2> QED BY <1>7, <2>1, <2>2 DEF create
<1>8. ASSUME NEW t \in Tasks, checkScheduled(t) PROVE task'[s] = task[s]
  <2>1. ~Activates([task[t] EXCEPT !.pc = "insert"])
    BY <1>1 DEF Activates, Task
  <2> QED BY <1>3, <1>4, <1>8, <2>1 DEF checkScheduled
<1>9. ASSUME NEW t \in Tasks, assignNearestDriver(t) \/ findDrivers(t)
      PROVE  task'[s] = task[s] \/ (Activates(task[s]) /\ task[s].ride = task'[s].ride)
  <2>1. CASE assignNearestDriver(t)
    BY <1>1, <2>1 DEF assignNearestDriver, Suspend, Activates, Task
  <2>2. CASE findDrivers(t)
    BY <1>1, <2>2 DEF findDrivers, Suspend, Activates, Task
  <2> QED BY <1>9, <2>1, <2>2
<1>10. ASSUME NEW t \in Tasks, update(t) PROVE task'[s] = task[s]
  <2>1. ~Activates([task[t] EXCEPT !.pc = "pay"])
    BY <1>1 DEF Activates, Task
  <2> QED BY <1>3, <1>4, <1>10, <2>1 DEF update
<1>11. ASSUME NEW t \in Tasks, assign(t) \/ pay(t) \/ Abort(t)
       PROVE  task'[s] = task[s]
  BY <1>4, <1>11 DEF assign, pay, Abort
<1>12. CASE processDueScheduledRides
  <2>1. PICK slots \in SUBSET Tasks :
           \E due \in Injection(slots, findDueScheduled(rides, clock)) :
              task' = [t \in Tasks |-> IF t \in slots THEN MatchTask(due[t])
                                                      ELSE task[t]]
    BY <1>12 DEF processDueScheduledRides
  <2>2. PICK due \in Injection(slots, findDueScheduled(rides, clock)) :
              task' = [t \in Tasks |-> IF t \in slots THEN MatchTask(due[t])
                                                      ELSE task[t]]
    BY <2>1
  <2>3. CASE s \in slots
    <3>1. due[s] \in findDueScheduled(rides, clock)
      BY <2>2, <2>3 DEF Injection
    <3>2. task'[s].ride = due[s]
      BY <2>2, <2>3 DEF MatchTask, IdleTask
    <3> QED BY <3>1, <3>2 DEF findDueScheduled, ActiveStatuses
  <2>4. CASE s \notin slots
    BY <1>2, <2>2, <2>4
  <2> QED BY <2>3, <2>4
<1>13. CASE UNCHANGED rideVars
  BY <1>2, <1>13 DEF rideVars
<1> QED BY <1>2, <1>6, <1>7, <1>8, <1>9, <1>10, <1>11, <1>12, <1>13 DEF Next, Resume

\* No step opens a ride that exists.
LEMMA OpenIsNotReopened ==
  ASSUME Inv, Next, NEW r, NEW at, NEW id \in DOMAIN rides, id \in Open(r, at)'
  PROVE  id \in Open(r, at)
<1>1. rides \in Seq(RideRow) /\ rides[id] \in RideRow
  BY DEF Inv, TypeOK
<1>2. /\ rides'[id].rider = rides[id].rider
      /\ rides'[id].scheduledAt = rides[id].scheduledAt
  <2>1. ASSUME NEW d, rides'[id] = Assigned(rides[id], d)
        PROVE  /\ rides'[id].rider = rides[id].rider
               /\ rides'[id].scheduledAt = rides[id].scheduledAt
    BY <1>1, <2>1 DEF Assigned, RideRow
  <2>2. ASSUME NEW to, rides'[id] = [rides[id] EXCEPT !.status = to]
        PROVE  /\ rides'[id].rider = rides[id].rider
               /\ rides'[id].scheduledAt = rides[id].scheduledAt
    BY <1>1, <2>2 DEF RideRow
  <2>3. CASE rides'[id] = [rides[id] EXCEPT !.paymentStatus = "paid"]
    BY <1>1, <2>3 DEF RideRow
  <2> QED BY <2>1, <2>2, <2>3, RowChange
<1>3. rides'[id].status \in ActiveStatuses =>
        \/ rides[id].status \in ActiveStatuses
        \/ \E t \in Tasks : task[t].ride = id /\ Activates(task[t])
  <2>1. CASE rides'[id].status = rides[id].status
    BY <2>1
  <2>2. ASSUME NEW t \in Tasks, task[t].ride = id, task[t].pc = "assign"
        PROVE  Activates(task[t])
    BY <2>2 DEF Activates
  <2>3. ASSUME NEW t \in Tasks, task[t].ride = id, task[t].pc = "update",
               rides'[id] = [rides[id] EXCEPT !.status = task[t].to],
               rides'[id].status \in ActiveStatuses
        PROVE  Activates(task[t])
    BY <1>1, <2>3 DEF Activates, RideRow
  <2>4. CASE rides'[id] = [rides[id] EXCEPT !.paymentStatus = "paid"]
    BY <1>1, <2>4 DEF RideRow
  <2> QED BY <2>1, <2>2, <2>3, <2>4, RowChange
<1> QED BY <1>2, <1>3, ActivatorsFindActive DEF Open

\* Where a request finds no active ride, each open one has a handler of its own,
\* which is not one of those that will add a ride.
CheckedInv ==
    \A r, at : findActiveRideByRider(rides, r, at) = {} => Bounded(r, at)

LEMMA NoneActiveIsBounded == TypeOK => CheckedInv
<1> SUFFICES ASSUME TypeOK, NEW r, NEW at, findActiveRideByRider(rides, r, at) = {}
             PROVE  Bounded(r, at)
  BY DEF CheckedInv
<1> DEFINE open == Open(r, at)
           waiting == Waiting(r, at)
           f == [id \in open |->
                   CHOOSE t \in Tasks : task[t].ride = id /\ Activates(task[t])]
<1>1. \A id \in open : \E t \in Tasks : task[t].ride = id /\ Activates(task[t])
  BY DEF Open, findActiveRideByRider
<1>2. \A id \in open : /\ f[id] \in Tasks
                       /\ task[f[id]].ride = id /\ Activates(task[f[id]])
  BY <1>1
<1>3. waiting \subseteq Tasks /\ \A t \in waiting : ~Activates(task[t])
  BY DEF Waiting, Activates
<1>4. f \in Injection(open, Tasks \ waiting)
  BY <1>2, <1>3 DEF Injection, IsInjective
<1>5. /\ IsFiniteSet(open) /\ Cardinality(open) \in Nat
      /\ IsFiniteSet(waiting) /\ Cardinality(waiting) \in Nat
      /\ IsFiniteSet(Tasks) /\ Cardinality(Tasks) \in Nat
  BY FiniteCounts
<1> HIDE DEF open, waiting, f
<1>6. IsFiniteSet(Tasks \ waiting) /\ Cardinality(open) <= Cardinality(Tasks \ waiting)
  BY <1>4, <1>5, FS_Injection, FS_Difference
<1>7. Cardinality(Tasks \ waiting) = Cardinality(Tasks) - Cardinality(waiting)
  <2>1. Tasks \cap waiting = waiting
    BY <1>3
  <2> QED BY <1>5, <2>1, FS_Difference
<1>8. Cardinality(open) + Cardinality(waiting) <= Cardinality(Tasks)
  BY <1>5, <1>6, <1>7
<1> QED BY <1>8 DEF Bounded, open, waiting

\* A handler inserts its ride: one more is open, one less is waiting.
LEMMA CreatedIsBounded ==
  ASSUME Inv, Next, NEW r, NEW at, Bounded(r, at), NEW t \in Waiting(r, at),
         NEW new, Open(r, at)' \in SUBSET (Open(r, at) \cup {new}),
         Waiting(r, at)' \in SUBSET (Waiting(r, at) \ {t})
  PROVE  Bounded(r, at)'
<1>1. /\ IsFiniteSet(Open(r, at)) /\ Cardinality(Open(r, at)) \in Nat
      /\ IsFiniteSet(Waiting(r, at)) /\ Cardinality(Waiting(r, at)) \in Nat
      /\ Cardinality(Tasks) \in Nat
  BY FiniteCounts DEF Inv
<1>2. /\ Cardinality(Waiting(r, at)') <= Cardinality(Waiting(r, at)) - 1
      /\ Cardinality(Waiting(r, at)') \in Nat
  BY <1>1, FS_RemoveElement, FS_Subset, FS_CardinalityType
<1>3. /\ Cardinality(Open(r, at)') <= Cardinality(Open(r, at)) + 1
      /\ Cardinality(Open(r, at)') \in Nat
  <2>1. /\ IsFiniteSet(Open(r, at) \cup {new})
        /\ Cardinality(Open(r, at) \cup {new}) <= Cardinality(Open(r, at)) + 1
        /\ Cardinality(Open(r, at) \cup {new}) \in Nat
    <3> DEFINE open == Open(r, at)
    <3>1. /\ IsFiniteSet(open \cup {new})
          /\ \/ Cardinality(open \cup {new}) = Cardinality(open)
             \/ Cardinality(open \cup {new}) = Cardinality(open) + 1
      BY <1>1, FS_AddElement
    <3> QED BY <1>1, <3>1
  <2>2. /\ Cardinality(Open(r, at)') <= Cardinality(Open(r, at) \cup {new})
        /\ Cardinality(Open(r, at)') \in Nat
    BY <2>1, FS_Subset, FS_CardinalityType
  <2> QED BY <1>1, <2>1, <2>2
<1> QED BY <1>1, <1>2, <1>3 DEF Bounded

LEMMA StepKeepsBounded ==
  ASSUME Inv, CheckedInv', Next, NEW r, NEW at, Bounded(r, at)
  PROVE  Bounded(r, at)'
<1>1. task \in [Tasks -> Task] /\ rides \in Seq(RideRow)
  BY DEF Inv, TypeOK
<1>2. CASE \E s \in Tasks : s \in Waiting(r, at)' /\ task'[s] # task[s]
  <2>1. findActiveRideByRider(rides', r, at) = {}
    BY <1>2, InsertIsChecked DEF Waiting
  <2> QED BY <2>1 DEF CheckedInv
<1>3. CASE \A s \in Waiting(r, at)' : task'[s] = task[s]
  <2>1. Waiting(r, at)' \in SUBSET Waiting(r, at)
    BY <1>3 DEF Waiting
  <2>2. ASSUME NEW t \in Tasks, create(t)
        PROVE  /\ Waiting(r, at)' \in SUBSET (Waiting(r, at) \ {t})
               /\ \A id \in Open(r, at)' : id \in DOMAIN rides \/ id = Len(rides) + 1
               /\ t \notin Waiting(r, at) =>
                     \A id \in Open(r, at)' : id \in DOMAIN rides
    <3>1. /\ rides' = Append(rides, NewRide(t))
          /\ task[t].pc = "insert"
      BY <2>2 DEF create
    <3>2. /\ DOMAIN rides' = DOMAIN rides \cup {Len(rides) + 1}
          /\ rides'[Len(rides) + 1] = NewRide(t)
      BY <1>1, <3>1
    <3>3. NewRide(t).rider = task[t].actor /\ NewRide(t).scheduledAt = task[t].at
      BY DEF NewRide
    <3>4. task'[t].pc # "insert"
      <4>1. MatchTask(Len(rides) + 1).pc # "insert" /\ IdleTask.pc # "insert"
        BY DEF MatchTask, IdleTask
      <4> QED BY <1>1, <2>2, <4>1 DEF create, Suspend, Finish
    <3>5. t \notin Waiting(r, at)'
      BY <3>4 DEF Waiting
    <3>6. \A id \in Open(r, at)' : /\ id \in DOMAIN rides'
                                   /\ rides'[id].rider = r
                                   /\ rides'[id].scheduledAt = at
      BY DEF Open
    <3>7. t \in Waiting(r, at) <=> task[t].actor = r /\ task[t].at = at
      BY <3>1 DEF Waiting
    <3> QED BY <2>1, <3>2, <3>3, <3>5, <3>6, <3>7
  <2>3. \A id \in Open(r, at)' : id \in DOMAIN rides => id \in Open(r, at)
    BY OpenIsNotReopened
  <2>4. CASE \E t \in Waiting(r, at) : create(t)
    <3>1. PICK t \in Waiting(r, at) : create(t)
      BY <2>4
    <3>2. PICK new : new = Len(rides) + 1
      OBVIOUS
    <3>3. /\ Waiting(r, at)' \in SUBSET (Waiting(r, at) \ {t})
          /\ Open(r, at)' \in SUBSET (Open(r, at) \cup {new})
      BY <2>2, <2>3, <3>1, <3>2 DEF Waiting
    <3> QED BY <3>1, <3>3, CreatedIsBounded
  <2>5. CASE ~ \E t \in Waiting(r, at) : create(t)
    <3>1. Open(r, at)' \in SUBSET Open(r, at)
      <4>1. CASE \E t \in Tasks : create(t)
        BY <2>2, <2>3, <2>5, <4>1
      <4>2. CASE ~ \E t \in Tasks : create(t)
        BY <2>3, <4>2, CreateGrows DEF Open
      <4> QED BY <4>1, <4>2
    <3>2. /\ Cardinality(Open(r, at)') <= Cardinality(Open(r, at))
          /\ Cardinality(Open(r, at)') \in Nat
          /\ Cardinality(Waiting(r, at)') <= Cardinality(Waiting(r, at))
          /\ Cardinality(Waiting(r, at)') \in Nat
      BY <2>1, <3>1, FiniteCounts, FS_Subset, FS_CardinalityType DEF Inv
    <3> QED BY <3>2, FiniteCounts DEF Bounded, Inv
  <2> QED BY <2>4, <2>5
<1> QED BY <1>2, <1>3 DEF Waiting

\* ride.ts:41.  However requests overlap, fail or race, a rider has no more
\* active rides for one time than handlers can be suspended at once.
THEOREM ActiveRidesNeedOverlap == Spec => []ActiveNeedsOverlap
<1>1. Init => OverlapInv
  <2> SUFFICES ASSUME Init, NEW r, NEW at PROVE Bounded(r, at)
    BY DEF OverlapInv
  <2>1. Open(r, at) = {} /\ Waiting(r, at) = {}
    BY DEF Init, Open, Waiting, IdleTask
  <2>2. Cardinality(Tasks) \in Nat
    BY RideServiceAssumption, FS_CardinalityType DEF RideServiceAssumption
  <2> QED BY <2>1, <2>2, FS_EmptySet DEF Bounded
<1>2. Inv /\ CheckedInv' /\ OverlapInv /\ [Next]_vars => OverlapInv'
  <2>1. ASSUME Inv, CheckedInv', OverlapInv, Next PROVE OverlapInv'
    BY <2>1, StepKeepsBounded DEF OverlapInv
  <2>2. ASSUME OverlapInv, UNCHANGED vars PROVE OverlapInv'
    BY <2>2 DEF OverlapInv, Bounded, Open, Waiting, vars
  <2> QED BY <2>1, <2>2
<1>3. Inv /\ OverlapInv => ActiveNeedsOverlap
  <2> SUFFICES ASSUME Inv, OverlapInv, NEW id \in DOMAIN rides
               PROVE  Cardinality(findActiveRideByRider(rides, rides[id].rider,
                                                        rides[id].scheduledAt))
                        <= Cardinality(Tasks)
    BY DEF ActiveNeedsOverlap
  <2> DEFINE r == rides[id].rider
             at == rides[id].scheduledAt
  <2>1. r \in Riders /\ at \in Date \cup {Null}
    <3>1. rides[id] \in RideRow
      BY DEF Inv, TypeOK
    <3> QED BY <3>1 DEF RideRow
  <2>2. Bounded(r, at)
    BY <2>1 DEF OverlapInv
  <2>3. findActiveRideByRider(rides, r, at) \in SUBSET Open(r, at)
    BY DEF findActiveRideByRider, Open
  <2>4. TypeOK
    BY DEF Inv
  <2> HIDE DEF r, at
  <2>5. /\ IsFiniteSet(Open(r, at)) /\ Cardinality(Open(r, at)) \in Nat
        /\ Cardinality(Waiting(r, at)) \in Nat /\ Cardinality(Tasks) \in Nat
    BY <2>4, FiniteCounts
  <2>6. /\ Cardinality(findActiveRideByRider(rides, r, at)) <= Cardinality(Open(r, at))
        /\ Cardinality(findActiveRideByRider(rides, r, at)) \in Nat
    BY <2>3, <2>5, FS_Subset, FS_CardinalityType
  <2>7. Cardinality(findActiveRideByRider(rides, r, at)) <= Cardinality(Tasks)
    BY <2>2, <2>5, <2>6 DEF Bounded
  <2> QED BY <2>7 DEF r, at
<1>4. Inv => CheckedInv
  BY NoneActiveIsBounded DEF Inv
<1> QED BY <1>1, <1>2, <1>3, <1>4, Invariance, PTL DEF Spec
=============================================================================
