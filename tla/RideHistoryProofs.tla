-------------------------- MODULE RideHistoryProofs --------------------------
(***************************************************************************)
(* RideHistory's properties for any constants, with failures or without.   *)
(*                                                                         *)
(* The invariant HistoryInv ties each handler that was not overtaken to    *)
(* the row it will write (Checked): what it checked was true when it was   *)
(* read, and the step that makes it false is the step that overtakes it.   *)
(* From there its write is a step of the documented lifecycle, and the     *)
(* ride it inserts is the only active one of its rider and time (Clear).   *)
(* Handlers that were overtaken account for all the rest, because what     *)
(* they touch is raced.  What failures leave undone is kept in dropped,    *)
(* and nothing else is missing (Accounted); what drivers have sent is no   *)
(* older than what the table and the UPDATEs under way say (Sent).         *)
(***************************************************************************)
EXTENDS RideHistory, RideOverlapProofs

\* The status that was checked is the status that will be overwritten.
Checked(k) ==
    LET status == rides[k.ride].status IN
    /\ k.pc \in {"match", "find", "assign"} => status = "requested"
    /\ k.pc = "update" =>
          /\ k.to = "accepted" => status = "assigned"
          /\ k.to = "started" => status = "accepted"
          /\ k.to = "completed" => status = "started"
          /\ status \notin Ended
    /\ k.pc = "pay" => status = "completed"

\* No active ride among those made without a race.
Clear(rider, at) ==
    \A id \in DOMAIN rides \ raced :
        ~ /\ rides[id].rider = rider /\ rides[id].scheduledAt = at
          /\ rides[id].status \in ActiveStatuses

\* An online ride whose match is not over has no driver yet.
Undriven(id) ==
    Online(id) /\ rides[id].status \in {"requested", "no_driver"} =>
        rides[id].driver = Null

HistoryInv ==
    /\ Inv
    /\ \A t \in Tasks \ overtaken :
          /\ Checked(task[t])
          /\ task[t].pc = "insert" => Clear(task[t].actor, task[t].at)
    /\ \A id \in DOMAIN rides : Undriven(id)
    /\ PaidIsCompletedUnlessRaced
    /\ OneActiveUnlessRaced

-----------------------------------------------------------------------------
\* The history variables only watch.
LEMMA HistoryStep == [HistoryNext]_allVars => [Next]_vars
BY DEF HistoryNext, allVars

LEMMA HistoryInitInv == HistoryInit => Inv
BY InitInv DEF HistoryInit

\* The history variables only watch, so what RideProofs shows of every behaviour of the
\* service holds of those with a history: rows, handlers and trails agree.
THEOREM HistoryKeepsInv == HistorySpec => []Inv
BY HistoryInitInv, HistoryStep, StepKeepsInv, PTL DEF HistorySpec

\* How the record of a handler changes: by a step of its own, or by the sweep
\* that finds it idle.
LEMMA HandlersMoveThemselves ==
  ASSUME Inv, Next, NEW s \in Tasks
  PROVE  \/ task'[s] = task[s]
         \/ Request(s) \/ Resume(s) \/ Abort(s)
         \/ /\ Idle(s) /\ UNCHANGED <<driverVars, tables>>
            /\ \E id \in findDueScheduled(rides, clock) : task'[s] = MatchTask(id)
<1>1. task \in [Tasks -> Task]
  BY DEF Inv, TypeOK
<1>2. ASSUME NEW t \in Tasks, NEW k, Suspend(t, k), s # t PROVE task'[s] = task[s]
  BY <1>1, <1>2 DEF Suspend
<1>3. ASSUME NEW t \in Tasks, Request(t), s # t PROVE task'[s] = task[s]
  BY <1>2, <1>3
     DEF Request, createOnlineRide, createScheduledRide, driverAcceptRide,
         driverStartRide, driverCompleteRide, driverCancelRide, riderCancelRide,
         transitionStatusForDriver, WriteStatus
<1>4. ASSUME NEW t \in Tasks, Resume(t) \/ Abort(t), s # t
      PROVE  task'[s] = task[s]
  BY <1>2, <1>4 DEF Resume, checkScheduled, create, assignNearestDriver,
     findDrivers, assign, update, pay, Abort, Finish
<1>5. CASE processDueScheduledRides
  <2>1. PICK slots \in SUBSET {t \in Tasks : Idle(t)} \ {{}} :
           \E due \in Injection(slots, findDueScheduled(rides, clock)) :
              task' = [t \in Tasks |-> IF t \in slots THEN MatchTask(due[t])
                                                      ELSE task[t]]
    BY <1>5 DEF processDueScheduledRides
  <2>2. PICK due \in Injection(slots, findDueScheduled(rides, clock)) :
              task' = [t \in Tasks |-> IF t \in slots THEN MatchTask(due[t])
                                                      ELSE task[t]]
    BY <2>1
  <2>3. CASE s \in slots
    <3>1. due[s] \in findDueScheduled(rides, clock) /\ task'[s] = MatchTask(due[s])
      BY <2>2, <2>3 DEF Injection
    <3> QED BY <1>5, <2>3, <3>1 DEF processDueScheduledRides
  <2>4. CASE s \notin slots
    BY <2>2, <2>4
  <2> QED BY <2>3, <2>4
<1>6. CASE UNCHANGED rideVars
  BY <1>6 DEF rideVars
<1> QED BY <1>3, <1>4, <1>5, <1>6 DEF Next

\* The only ways in which a request suspends its handler.
LEMMA RequestStarts ==
  ASSUME Inv, NEW s \in Tasks, Request(s)
  PROVE  /\ Idle(s) /\ UNCHANGED <<driverVars, tables>>
         /\ \/ task'[s].pc \in {"check", "insert"}
            \/ task'[s].pc = "update" /\ Checked(task[s])'
<1>1. task \in [Tasks -> Task] /\ rides \in Seq(RideRow)
  BY DEF Inv, TypeOK
<1>2. ASSUME NEW r \in Riders, NEW p \in Places, createOnlineRide(s, r, p)
      PROVE  /\ Idle(s) /\ UNCHANGED <<driverVars, tables>>
             /\ task'[s].pc = "insert"
  BY <1>1, <1>2 DEF createOnlineRide, Suspend, IdleTask
<1>3. ASSUME NEW r \in Riders, NEW p \in Places, NEW at \in 0..MaxTime,
             createScheduledRide(s, r, p, at)
      PROVE  /\ Idle(s) /\ UNCHANGED <<driverVars, tables>>
             /\ task'[s].pc = "check"
  BY <1>1, <1>3 DEF createScheduledRide, Suspend, IdleTask
<1>4. ASSUME NEW id, NEW actor, NEW to, Idle(s), WriteStatus(s, id, actor, to),
             to = "accepted" => rides[id].status = "assigned",
             to = "started" => rides[id].status = "accepted",
             to = "completed" => rides[id].status = "started",
             rides[id].status \notin Ended
      PROVE  /\ Idle(s) /\ UNCHANGED <<driverVars, tables>>
             /\ task'[s].pc = "update" /\ Checked(task[s])'
  <2>1. /\ task'[s].pc = "update" /\ task'[s].ride = id /\ task'[s].to = to
        /\ rides' = rides
    BY <1>1, <1>4 DEF WriteStatus, Suspend, IdleTask, tables
  <2> QED BY <1>4, <2>1 DEF Checked, WriteStatus
<1>5. CASE \E id \in DOMAIN rides, d \in Drivers :
              \/ driverAcceptRide(s, id, d)
              \/ driverStartRide(s, id, d)
              \/ driverCompleteRide(s, id, d)
              \/ driverCancelRide(s, id, d)
  BY <1>4, <1>5 DEF driverAcceptRide, driverStartRide, driverCompleteRide,
                    driverCancelRide, transitionStatusForDriver, Ended
<1>6. CASE \E id \in DOMAIN rides, r \in Riders : riderCancelRide(s, id, r)
  BY <1>4, <1>6 DEF riderCancelRide, Ended
<1> QED BY <1>2, <1>3, <1>5, <1>6 DEF Request

\* A handler that moves has just checked the row it will write, or goes on
\* with the match of the same ride.
LEMMA MovesAreChecked ==
  ASSUME Inv, Next, NEW s \in Tasks, task'[s] # task[s]
  PROVE  \/ Checked(task[s])'
         \/ /\ Matching(s) /\ Matching(s)' /\ rides' = rides
            /\ task'[s].ride = task[s].ride
<1>1. /\ task \in [Tasks -> Task] /\ rides \in Seq(RideRow) /\ TaskInv(task[s])
      /\ task[s] \in Task
  BY DEF Inv, TypeOK
<1>2. CASE Request(s)
  <2>1. task'[s].pc \in {"check", "insert"} => Checked(task[s])'
    BY DEF Checked
  <2> QED BY <1>2, <2>1, RequestStarts
<1>3. CASE Finish(s)
  BY <1>1, <1>3 DEF Finish, Suspend, IdleTask, Checked
<1>4. CASE checkScheduled(s) /\ ~Finish(s)
  BY <1>1, <1>4 DEF checkScheduled, Suspend, Task, Checked
<1>5. CASE create(s) /\ ~Finish(s)
  <2> DEFINE new == Len(rides) + 1
  <2>1. task'[s] = MatchTask(new) /\ rides'[new].status = "requested"
    BY <1>1, <1>5 DEF create, Suspend, NewRide
  <2> HIDE DEF new
  <2> QED BY <2>1 DEF Checked, MatchTask, IdleTask
<1>6. CASE assignNearestDriver(s) \/ findDrivers(s)
  <2>1. CASE assignNearestDriver(s)
    BY <1>1, <2>1 DEF assignNearestDriver, Suspend, Task, Matching, tables
  <2>2. CASE findDrivers(s)
    BY <1>1, <2>2 DEF findDrivers, Suspend, Task, Matching, tables
  <2> QED BY <1>6, <2>1, <2>2
<1>7. CASE update(s) /\ ~Finish(s)
  <2>1. /\ task'[s].pc = "pay" /\ task'[s].ride = task[s].ride
        /\ task[s].to = "completed"
    BY <1>1, <1>7 DEF update, PaysNext, Suspend, Task
  <2>2. rides'[task[s].ride].status = "completed"
    <3>1. task[s].ride \in DOMAIN rides /\ rides[task[s].ride] \in RideRow
      BY <1>1, <1>7 DEF update, TaskInv
    <3> QED BY <1>1, <1>7, <2>1, <3>1 DEF update, Write, RideRow
  <2> QED BY <2>1, <2>2 DEF Checked
<1>8. CASE assign(s) \/ pay(s) \/ Abort(s)
  BY <1>3, <1>8 DEF assign, pay, Abort
<1>9. ASSUME UNCHANGED tables, NEW id \in findDueScheduled(rides, clock),
             task'[s] = MatchTask(id)
      PROVE  Checked(task[s])'
  BY <1>9 DEF tables, Checked, MatchTask, IdleTask, findDueScheduled
<1> QED BY <1>2, <1>3, <1>4, <1>5, <1>6, <1>7, <1>8, <1>9,
           HandlersMoveThemselves DEF Resume

\* A handler that is not overtaken by a step in which it waits was not
\* overtaken before, and the step leaves what it relies on.
LEMMA NotOvertaken ==
  ASSUME Inv, HistoryNext, NEW s \in Tasks \ overtaken', task'[s] = task[s], ~Idle(s)
  PROVE  /\ s \notin overtaken
         /\ OnRide(s) => rides'[task[s].ride].status = rides[task[s].ride].status
         /\ task[s].pc = "insert" =>
               \A id \in DOMAIN rides' \ DOMAIN rides :
                  ~ /\ rides'[id].rider = task[s].actor
                    /\ rides'[id].scheduledAt = task[s].at
<1>1. ~Overtakes(s) /\ ~(s \in overtaken /\ GoesOn(s))
  BY DEF HistoryNext, Record
<1>2. GoesOn(s) /\ ~Moves(s)
  BY DEF GoesOn, Moves, Idle
<1> QED BY <1>1, <1>2 DEF Overtakes

LEMMA StepKeepsChecked ==
  ASSUME Inv, HistoryNext, \A t \in Tasks \ overtaken : Checked(task[t]),
         NEW s \in Tasks \ overtaken'
  PROVE  Checked(task[s])'
<1>1. CASE task'[s] = task[s] /\ OnRide(s)
  <2>1. Checked(task[s]) /\ rides'[task[s].ride].status = rides[task[s].ride].status
    BY <1>1, NotOvertaken DEF OnRide, Idle
  <2> QED BY <1>1, <2>1 DEF Checked
<1>2. CASE task'[s] = task[s] /\ ~OnRide(s)
  BY <1>2 DEF OnRide, Checked
<1>3. CASE task'[s] # task[s]
  <2>1. SUFFICES ASSUME Matching(s), Matching(s)', rides' = rides,
                        task'[s].ride = task[s].ride
                 PROVE  Checked(task[s])'
    BY <1>3, MovesAreChecked DEF HistoryNext
  <2>2. s \notin overtaken
    BY <2>1 DEF HistoryNext, Record, GoesOn, Matching
  <2> QED BY <2>1, <2>2 DEF Checked, Matching
<1> QED BY <1>1, <1>2, <1>3

-----------------------------------------------------------------------------
\* A row changes by the write of a handler that moves.
LEMMA RowWriter ==
  ASSUME Inv, Next, NEW id \in DOMAIN rides
  PROVE  \/ rides'[id] = rides[id]
         \/ \E t \in Tasks :
              /\ task[t].ride = id /\ Moves(t)
              /\ \/ /\ task[t].pc = "assign"
                    /\ rides'[id] = Assigned(rides[id], task[t].choice)
                 \/ /\ task[t].pc = "update"
                    /\ rides'[id] = [rides[id] EXCEPT !.status = task[t].to]
                 \/ /\ task[t].pc = "pay"
                    /\ rides'[id] = [rides[id] EXCEPT !.paymentStatus = "paid"]
<1>1. rides \in Seq(RideRow) /\ task \in [Tasks -> Task]
  BY DEF Inv, TypeOK
<1>2. CASE rides' = rides
  BY <1>2
<1>3. ASSUME NEW t \in Tasks, create(t) PROVE rides'[id] = rides[id]
  BY <1>1, <1>3 DEF create
<1>4. ASSUME NEW t \in Tasks, NEW row, Write(task[t].ride, row)
      PROVE  \/ rides'[id] = rides[id]
             \/ task[t].ride = id /\ rides'[id] = row
  BY <1>1, <1>4 DEF Write
<1>5. ASSUME NEW t \in Tasks, assign(t) PROVE task[t].pc = "assign" /\ Moves(t)
  BY <1>1, <1>5 DEF assign, Finish, Suspend, IdleTask, Moves
<1>6. ASSUME NEW t \in Tasks, update(t) PROVE task[t].pc = "update" /\ Moves(t)
  BY <1>1, <1>6 DEF update, Finish, Suspend, IdleTask, Moves, Task
<1>7. ASSUME NEW t \in Tasks, pay(t) PROVE task[t].pc = "pay" /\ Moves(t)
  BY <1>1, <1>7 DEF pay, Finish, Suspend, IdleTask, Moves
<1>8. CASE \E t \in Tasks : assign(t)
  BY <1>4, <1>5, <1>8 DEF assign
<1>9. CASE \E t \in Tasks : update(t)
  BY <1>4, <1>6, <1>9 DEF update
<1>10. CASE \E t \in Tasks : pay(t)
  BY <1>4, <1>7, <1>10 DEF pay, Paid
<1> QED BY <1>2, <1>3, <1>8, <1>9, <1>10, OnlyWritersWrite DEF tables

\* What a step without a race does to a row that was never in one.
LEMMA UnracedRow ==
  ASSUME HistoryInv, HistoryNext, NEW id \in DOMAIN rides, id \notin raced'
  PROVE  /\ id \notin raced
         /\ rides'[id].rider = rides[id].rider
         /\ rides'[id].scheduledAt = rides[id].scheduledAt
         /\ rides'[id].status \in ActiveStatuses => rides[id].status \in ActiveStatuses
         /\ rides'[id].paymentStatus = "paid" => rides'[id].status = "completed"
<1>1. /\ rides[id] \in RideRow /\ Inv /\ Next /\ id \in DOMAIN rides'
  BY CreateGrows DEF HistoryInv, Inv, TypeOK, HistoryNext
<1>2. /\ id \notin raced
      /\ rides'[id] # rides[id] => ~ \E t \in overtaken : Moves(t)
  BY <1>1 DEF HistoryNext, Record, ChangedRides
<1>3. rides[id].paymentStatus = "paid" => rides[id].status = "completed"
  BY <1>2 DEF HistoryInv, PaidIsCompletedUnlessRaced
<1>4. CASE rides'[id] = rides[id]
  BY <1>2, <1>3, <1>4
<1>5. ASSUME NEW t \in Tasks, task[t].ride = id, Checked(task[t]), task[t].pc = "assign",
             rides'[id] = Assigned(rides[id], task[t].choice)
      PROVE  /\ rides'[id].rider = rides[id].rider
             /\ rides'[id].scheduledAt = rides[id].scheduledAt
             /\ rides[id].status \in ActiveStatuses
             /\ rides'[id].paymentStatus # "paid"
  <2>1. rides[id].status = "requested"
    BY <1>5 DEF Checked
  <2> QED BY <1>1, <1>3, <1>5, <2>1 DEF Assigned, RideRow, ActiveStatuses
<1>6. ASSUME NEW t \in Tasks, task[t].ride = id, Checked(task[t]), task[t].pc = "update",
             rides'[id] = [rides[id] EXCEPT !.status = task[t].to]
      PROVE  /\ rides'[id].rider = rides[id].rider
             /\ rides'[id].scheduledAt = rides[id].scheduledAt
             /\ rides'[id].status \in ActiveStatuses => rides[id].status \in ActiveStatuses
             /\ rides'[id].paymentStatus # "paid"
  <2>1. /\ task[t].to \in {"accepted", "started", "completed",
                           "cancelled_by_rider", "cancelled_by_driver"}
        /\ task[t].to = "accepted" => rides[id].status = "assigned"
        /\ task[t].to = "started" => rides[id].status = "accepted"
        /\ rides[id].status \notin Ended
    BY <1>1, <1>6 DEF Checked, Inv, TaskInv
  <2>2. /\ rides'[id].rider = rides[id].rider
        /\ rides'[id].scheduledAt = rides[id].scheduledAt
        /\ rides'[id].status = task[t].to
        /\ rides'[id].paymentStatus = rides[id].paymentStatus
    BY <1>1, <1>6 DEF RideRow
  <2> QED BY <1>3, <2>1, <2>2 DEF ActiveStatuses, Ended
<1>7. ASSUME NEW t \in Tasks, task[t].ride = id, Checked(task[t]), task[t].pc = "pay",
             rides'[id] = [rides[id] EXCEPT !.paymentStatus = "paid"]
      PROVE  /\ rides'[id].rider = rides[id].rider
             /\ rides'[id].scheduledAt = rides[id].scheduledAt
             /\ rides'[id].status = rides[id].status /\ rides[id].status = "completed"
  BY <1>1, <1>7 DEF RideRow, Checked
<1>8. CASE rides'[id] # rides[id]
  <2>1. PICK t \in Tasks :
          /\ task[t].ride = id /\ Moves(t)
          /\ \/ /\ task[t].pc = "assign"
                /\ rides'[id] = Assigned(rides[id], task[t].choice)
             \/ /\ task[t].pc = "update"
                /\ rides'[id] = [rides[id] EXCEPT !.status = task[t].to]
             \/ /\ task[t].pc = "pay"
                /\ rides'[id] = [rides[id] EXCEPT !.paymentStatus = "paid"]
    BY <1>1, <1>8, RowWriter
  <2>2. Checked(task[t])
    BY <1>2, <1>8, <2>1 DEF HistoryInv
  <2> QED BY <1>2, <1>5, <1>6, <1>7, <2>1, <2>2
<1> QED BY <1>4, <1>8

\* Only create adds rides, one at a time.
LEMMA NewRow ==
  ASSUME Inv, Next, NEW id \in DOMAIN rides' \ DOMAIN rides
  PROVE  \E t \in Tasks :
            /\ task[t].pc = "insert" /\ Moves(t)
            /\ rides'[id] = NewRide(t) /\ id = Len(rides) + 1
            /\ \A i \in DOMAIN rides : rides'[i] = rides[i]
<1>1. rides \in Seq(RideRow) /\ task \in [Tasks -> Task]
  BY DEF Inv, TypeOK
<1>2. PICK t \in Tasks : create(t)
  BY CreateGrows
<1>3. rides' = Append(rides, NewRide(t)) /\ task[t].pc = "insert"
  BY <1>2 DEF create
<1>4. /\ rides'[id] = NewRide(t) /\ id = Len(rides) + 1
      /\ \A i \in DOMAIN rides : rides'[i] = rides[i]
  BY <1>1, <1>3
<1>5. Moves(t)
  <2>1. MatchTask(Len(rides) + 1).pc # "insert" /\ IdleTask.pc # "insert"
    BY DEF MatchTask, IdleTask
  <2> QED BY <1>1, <1>2, <1>3, <2>1 DEF create, Suspend, Finish, Moves
<1> QED BY <1>3, <1>4, <1>5

\* An inserter that was not overtaken still finds no active ride.
LEMMA StepKeepsClear ==
  ASSUME HistoryInv, HistoryNext, NEW s \in Tasks \ overtaken', task'[s].pc = "insert"
  PROVE  Clear(task[s].actor, task[s].at)'
<1>1. Inv /\ Next
  BY DEF HistoryInv, HistoryNext
<1>2. SUFFICES ASSUME NEW id \in DOMAIN rides' \ raced',
                      rides'[id].rider = task'[s].actor,
                      rides'[id].scheduledAt = task'[s].at,
                      rides'[id].status \in ActiveStatuses
               PROVE  FALSE
  BY DEF Clear
<1>3. CASE task'[s] = task[s]
  <2>1. s \notin overtaken /\ id \in DOMAIN rides
    BY <1>1, <1>2, <1>3, NotOvertaken DEF Idle
  <2>2. Clear(task[s].actor, task[s].at)
    BY <1>3, <2>1 DEF HistoryInv
  <2> QED BY <1>2, <1>3, <2>1, <2>2, UnracedRow DEF Clear
<1>4. CASE task'[s] # task[s]
  <2>1. /\ rides' = rides
        /\ findActiveRideByRider(rides, task'[s].actor, task'[s].at) = {}
    BY <1>1, <1>4, InsertIsChecked
  <2> QED BY <1>2, <2>1 DEF findActiveRideByRider
<1> QED BY <1>3, <1>4

LEMMA StepKeepsOneActive ==
  ASSUME HistoryInv, HistoryNext PROVE OneActiveUnlessRaced'
<1>1. Inv /\ Next
  BY DEF HistoryInv, HistoryNext
<1>2. \A id \in DOMAIN rides \ raced' :
        /\ id \notin raced
        /\ rides'[id].rider = rides[id].rider
        /\ rides'[id].scheduledAt = rides[id].scheduledAt
        /\ rides'[id].status \in ActiveStatuses => rides[id].status \in ActiveStatuses
  BY UnracedRow
<1>3. ASSUME NEW i \in DOMAIN rides' \ raced', NEW j \in DOMAIN rides' \ raced',
             rides'[i].status \in ActiveStatuses, rides'[j].status \in ActiveStatuses,
             rides'[i].rider = rides'[j].rider,
             rides'[i].scheduledAt = rides'[j].scheduledAt,
             j \notin DOMAIN rides
      PROVE  i = j
  <2>1. PICK t \in Tasks :
            /\ task[t].pc = "insert" /\ Moves(t)
            /\ rides'[j] = NewRide(t) /\ j = Len(rides) + 1
            /\ \A id \in DOMAIN rides : rides'[id] = rides[id]
    BY <1>1, <1>3, NewRow
  <2>2. t \notin overtaken
    BY <1>3, <2>1 DEF HistoryNext, Record, ChangedRides
  <2>3. Clear(task[t].actor, task[t].at)
    BY <2>1, <2>2 DEF HistoryInv
  <2>4. i \notin DOMAIN rides
    BY <1>2, <1>3, <2>1, <2>3 DEF Clear, NewRide
  <2>5. i = Len(rides) + 1
    BY <1>1, <1>3, <2>4, NewRow
  <2> QED BY <2>1, <2>5
<1>4. ASSUME NEW i \in DOMAIN rides \ raced', NEW j \in DOMAIN rides \ raced',
             rides'[i].status \in ActiveStatuses, rides'[j].status \in ActiveStatuses,
             rides'[i].rider = rides'[j].rider,
             rides'[i].scheduledAt = rides'[j].scheduledAt
      PROVE  i = j
  BY <1>2, <1>4 DEF HistoryInv, OneActiveUnlessRaced
<1> QED BY <1>3, <1>4 DEF OneActiveUnlessRaced

LEMMA StepKeepsPaidCompleted ==
  ASSUME HistoryInv, HistoryNext PROVE PaidIsCompletedUnlessRaced'
<1>1. ASSUME NEW id \in DOMAIN rides' \ raced', id \notin DOMAIN rides
      PROVE  rides'[id].paymentStatus # "paid"
  BY <1>1, NewRow DEF HistoryInv, HistoryNext, NewRide
<1> QED BY <1>1, UnracedRow DEF PaidIsCompletedUnlessRaced

LEMMA StepKeepsUndriven ==
  ASSUME HistoryInv, HistoryNext, NEW id \in DOMAIN rides'
  PROVE  Undriven(id)'
<1>1. Inv /\ Next
  BY DEF HistoryInv, HistoryNext
<1>2. CASE id \notin DOMAIN rides
  BY <1>1, <1>2, NewRow DEF Undriven, Online, NewRide
<1>3. CASE id \in DOMAIN rides
  <2>1. rides[id] \in RideRow /\ Undriven(id)
    BY <1>1, <1>3 DEF HistoryInv, Inv, TypeOK
  <2>2. CASE rides'[id] = rides[id]
    BY <2>1, <2>2 DEF Undriven, Online
  <2>3. ASSUME NEW t \in Tasks, task[t].ride = id, task[t].pc = "assign",
               rides'[id] = Assigned(rides[id], task[t].choice)
        PROVE  Undriven(id)'
    <3>1. Online(id) => rides[id].driver = Null
      BY <1>1, <2>3 DEF Inv, TaskInv
    <3> QED BY <2>1, <2>3, <3>1 DEF Undriven, Online, Assigned, RideRow
  <2>4. ASSUME NEW t \in Tasks, task[t].ride = id, task[t].pc = "update",
               rides'[id] = [rides[id] EXCEPT !.status = task[t].to]
        PROVE  Undriven(id)'
    <3>1. task[t].to \notin {"requested", "no_driver"}
      BY <1>1, <2>4 DEF Inv, TaskInv
    <3> QED BY <2>1, <2>4, <3>1 DEF Undriven, RideRow
  <2>5. CASE rides'[id] = [rides[id] EXCEPT !.paymentStatus = "paid"]
    BY <2>1, <2>5 DEF Undriven, Online, RideRow
  <2> QED BY <1>1, <1>3, <2>2, <2>3, <2>4, <2>5, RowChange
<1> QED BY <1>2, <1>3

\* What a handler that was not overtaken has checked holds when it writes.
LEMMA HistoryInvariance == HistorySpec => []HistoryInv
<1>1. HistoryInit => HistoryInv
  <2> SUFFICES ASSUME HistoryInit PROVE HistoryInv
    OBVIOUS
  <2>1. rides = <<>> /\ \A t \in Tasks : task[t].pc = "idle"
    BY DEF HistoryInit, Init, IdleTask
  <2> QED BY <2>1, HistoryInitInv DEF HistoryInv, Checked, Undriven,
             PaidIsCompletedUnlessRaced, OneActiveUnlessRaced
<1>2. HistoryInv /\ [HistoryNext]_allVars => HistoryInv'
  <2>1. ASSUME HistoryInv, HistoryNext PROVE HistoryInv'
    <3>1. Inv /\ Next /\ Inv'
      BY <2>1, StepKeepsInv DEF HistoryInv, HistoryNext
    <3>2. (\A t \in Tasks \ overtaken : Checked(task[t]))'
      BY <2>1, <3>1, StepKeepsChecked DEF HistoryInv
    <3>3. (\A t \in Tasks \ overtaken :
             task[t].pc = "insert" => Clear(task[t].actor, task[t].at))'
      BY <2>1, StepKeepsClear
    <3>4. (\A id \in DOMAIN rides : Undriven(id))'
      BY <2>1, StepKeepsUndriven
    <3> QED BY <2>1, <3>1, <3>2, <3>3, <3>4, StepKeepsOneActive,
               StepKeepsPaidCompleted DEF HistoryInv
  <2>2. ASSUME HistoryInv, UNCHANGED allVars PROVE HistoryInv'
    <3>1. /\ Inv' /\ rides' = rides /\ task' = task
          /\ overtaken' = overtaken /\ raced' = raced
      BY <2>2, StutterKeepsInv DEF HistoryInv, allVars, history, vars
    <3> QED BY <2>2, <3>1 DEF HistoryInv, Checked, Clear, Undriven, Online,
               PaidIsCompletedUnlessRaced, OneActiveUnlessRaced
  <2> QED BY <2>1, <2>2
<1> QED BY <1>1, <1>2, PTL DEF HistorySpec

\* A rider has no two active rides for one time but those that handlers made
\* or revived after the check they rest on had become false.
THEOREM OneActiveWithoutRaces == HistorySpec => []OneActiveUnlessRaced
<1>1. HistoryInv => OneActiveUnlessRaced
  BY DEF HistoryInv
<1> QED BY <1>1, HistoryInvariance, PTL

\* A paid ride is completed, unless a write overtook another on it.
THEOREM PaidIsCompletedWithoutRaces == HistorySpec => []PaidIsCompletedUnlessRaced
<1>1. HistoryInv => PaidIsCompletedUnlessRaced
  BY DEF HistoryInv
<1> QED BY <1>1, HistoryInvariance, PTL

-----------------------------------------------------------------------------
(* The lifecycle of RideLifecycle. *)

LEMMA CreateIsRequest ==
  ASSUME Inv, NEW t \in Tasks, create(t)
  PROVE  Lifecycle!Request
<1> DEFINE new == Len(rides) + 1
           row == NewRide(t)
           type == IF task[t].at = Null THEN "online" ELSE "scheduled"
<1>1. rides \in Seq(RideRow) /\ rides' = Append(rides, row)
  BY DEF Inv, TypeOK, create
<1>2. /\ row.type = type /\ row.status = "requested" /\ row.driver = Null
      /\ row.paymentStatus = "unpaid"
  BY DEF NewRide
<1>3. Ledger' = Append(Ledger, Lifecycle!Entry(type))
  <2> HIDE DEF row, type
  <2>1. Ledger = [i \in 1..Len(rides) |-> Ledger[i]] /\ Len(rides) \in Nat
    BY <1>1 DEF Ledger
  <2>2. Len(Ledger) = Len(rides)
    BY <2>1
  <2>3. /\ DOMAIN rides' = 1..new /\ rides'[new] = row
        /\ \A i \in 1..Len(rides) : rides'[i] = rides[i]
    BY <1>1
  <2> QED BY <1>1, <1>2, <2>2, <2>3 DEF Ledger, Lifecycle!Entry
<1> HIDE DEF row
<1> QED BY <1>3 DEF Lifecycle!Request

\* The entry of the ledger for a row.
EntryOf(row) ==
    [type |-> row.type, status |-> row.status,
     driver |-> row.driver, paymentStatus |-> row.paymentStatus]

LEMMA LedgerWrite ==
  ASSUME rides \in Seq(RideRow), NEW id \in DOMAIN rides, NEW row, Write(id, row)
  PROVE  /\ Ledger' = [Ledger EXCEPT ![id] = EntryOf(row)]
         /\ Ledger[id] = EntryOf(rides[id])
BY DEF Write, Ledger, EntryOf

\* A write of a field of an entry is a write of the entry.
LEMMA OneFieldWrite ==
  \A f, id, s :
     /\ [f EXCEPT ![id].status = s] = [f EXCEPT ![id] = [f[id] EXCEPT !.status = s]]
     /\ [f EXCEPT ![id].paymentStatus = s] =
           [f EXCEPT ![id] = [f[id] EXCEPT !.paymentStatus = s]]
OBVIOUS

LEMMA AssignIsMatch ==
  ASSUME Inv, NEW t \in Tasks, Checked(task[t]), assign(t), NEW id, id = task[t].ride
  PROVE  Lifecycle!Match(id)
<1> DEFINE d == task[t].choice
           row == Assigned(rides[id], d)
<1>1. /\ rides \in Seq(RideRow) /\ id \in DOMAIN rides /\ rides[id] \in RideRow
      /\ rides[id].status = "requested" /\ d \in Drivers \cup {Null}
      /\ Write(id, row)
  BY DEF assign, Checked, Inv, TypeOK, TaskInv, Task
<1>2. /\ row.type = rides[id].type /\ row.paymentStatus = rides[id].paymentStatus
      /\ row.status = IF d = Null THEN "no_driver" ELSE "assigned"
      /\ row.driver = IF d = Null THEN rides[id].driver ELSE d
  BY <1>1 DEF Assigned, RideRow
<1>3. Ledger' = [Ledger EXCEPT ![id] = EntryOf(row)] /\ Ledger[id] = EntryOf(rides[id])
  BY <1>1, LedgerWrite
<1>4. Ledger[id].status = "requested"
  BY <1>1, <1>3 DEF EntryOf
<1> HIDE DEF row, d
<1>5. CASE d = Null
  <2>1. [Ledger[id] EXCEPT !.status = "no_driver"] = EntryOf(row)
    BY <1>2, <1>3, <1>5 DEF EntryOf
  <2>2. Ledger' = [Ledger EXCEPT ![id].status = "no_driver"]
    BY <1>3, <2>1, OneFieldWrite
  <2> QED BY <1>4, <2>2 DEF Lifecycle!Match
<1>6. CASE d # Null
  <2> DEFINE half == [Ledger[id] EXCEPT !.status = "assigned"]
  <2>1. half = [type |-> row.type, status |-> row.status,
                driver |-> rides[id].driver, paymentStatus |-> row.paymentStatus]
    BY <1>2, <1>3, <1>6 DEF EntryOf
  <2>2. [half EXCEPT !.driver = d] = EntryOf(row)
    <3> HIDE DEF half
    <3> QED BY <1>2, <1>6, <2>1 DEF EntryOf
  <2>3. Ledger' = [Ledger EXCEPT ![id].status = "assigned", ![id].driver = d]
    <3>1. [Ledger EXCEPT ![id].status = "assigned", ![id].driver = d] =
            [Ledger EXCEPT ![id] = [half EXCEPT !.driver = d]]
      OBVIOUS
    <3> QED BY <1>3, <2>2, <3>1
  <2> QED BY <1>1, <1>4, <1>6, <2>3 DEF Lifecycle!Match
<1> QED BY <1>5, <1>6

LEMMA UpdateIsMove ==
  ASSUME Inv, NEW t \in Tasks, Checked(task[t]), update(t),
         NEW id, id = task[t].ride, Undriven(id)
  PROVE  Lifecycle!Transition(id)
<1> DEFINE to == task[t].to
           row == [rides[id] EXCEPT !.status = to]
<1>1. /\ rides \in Seq(RideRow) /\ id \in DOMAIN rides /\ rides[id] \in RideRow
      /\ rides[id].type = "online" /\ Write(id, row)
      /\ task[t].pc = "update" /\ TaskInv(task[t])
  BY DEF update, Inv, TypeOK, TaskInv, Online
<1>2. /\ row.type = rides[id].type /\ row.paymentStatus = rides[id].paymentStatus
      /\ row.status = to /\ row.driver = rides[id].driver
  BY <1>1 DEF RideRow
<1>3. Ledger' = [Ledger EXCEPT ![id] = EntryOf(row)] /\ Ledger[id] = EntryOf(rides[id])
  BY <1>1, LedgerWrite
<1>4. /\ to \in {"accepted", "started", "completed", "cancelled_by_rider",
                 "cancelled_by_driver"}
      /\ to = "accepted" => rides[id].status = "assigned"
      /\ to = "started" => rides[id].status = "accepted"
      /\ to = "completed" => rides[id].status = "started"
      /\ rides[id].status \in Lifecycle!Undone
      /\ to = "cancelled_by_driver" =>
            rides[id].status \in {"assigned", "accepted", "started"}
  <2>1. rides[id].status \in Lifecycle!Undone
    BY <1>1 DEF Checked, Ended, Lifecycle!Undone, RideRow, RideStatus
  <2>2. to = "cancelled_by_driver" => rides[id].driver # Null
    BY <1>1, DomainAssumption DEF TaskInv, DomainAssumption
  <2> QED BY <1>1, <2>1, <2>2 DEF TaskInv, Checked, Undriven, Online, Lifecycle!Undone
<1> HIDE DEF row, to
<1>5. Ledger' = [Ledger EXCEPT ![id].status = to]
  <2>1. [Ledger[id] EXCEPT !.status = to] = EntryOf(row)
    BY <1>2, <1>3 DEF EntryOf
  <2> QED BY <1>3, <2>1, OneFieldWrite
<1>6. Ledger[id].type = "online" /\ Ledger[id].status = rides[id].status
  BY <1>1, <1>3 DEF EntryOf
<1> QED BY <1>4, <1>5, <1>6 DEF Lifecycle!Transition, Lifecycle!Move

\* A ride that another handler has already paid stays as it is.
LEMMA PayIsPay ==
  ASSUME Inv, NEW t \in Tasks, Checked(task[t]), pay(t), NEW id, id = task[t].ride
  PROVE  Lifecycle!Pay(id) \/ rides' = rides
<1> DEFINE row == Paid(rides[id])
<1>1. /\ rides \in Seq(RideRow) /\ id \in DOMAIN rides /\ rides[id] \in RideRow
      /\ Write(id, row) /\ rides[id].status = "completed"
  BY DEF pay, Checked, Inv, TypeOK, TaskInv
<1>2. /\ row.type = rides[id].type /\ row.paymentStatus = "paid"
      /\ row.status = "completed" /\ row.driver = rides[id].driver
  BY <1>1 DEF Paid, RideRow
<1>3. Ledger' = [Ledger EXCEPT ![id] = EntryOf(row)] /\ Ledger[id] = EntryOf(rides[id])
  BY <1>1, LedgerWrite
<1>4. CASE rides[id].paymentStatus = "unpaid"
  <2> HIDE DEF row
  <2>1. Ledger' = [Ledger EXCEPT ![id].paymentStatus = "paid"]
    <3>1. [Ledger[id] EXCEPT !.paymentStatus = "paid"] = EntryOf(row)
      BY <1>1, <1>2, <1>3 DEF EntryOf
    <3> QED BY <1>3, <3>1, OneFieldWrite
  <2>2. Ledger[id].status = "completed" /\ Ledger[id].paymentStatus = "unpaid"
    BY <1>1, <1>3, <1>4 DEF EntryOf
  <2> QED BY <2>1, <2>2 DEF Lifecycle!Pay
<1>5. CASE rides[id].paymentStatus = "paid"
  <2>1. row = rides[id]
    BY <1>1, <1>5 DEF Paid, RideRow
  <2> QED BY <1>1, <2>1 DEF Write
<1> QED BY <1>1, <1>4, <1>5 DEF RideRow, PaymentStatus

\* Every step takes one row along one documented transition, unless it is the
\* write of a handler whose check another write has overtaken.
THEOREM LifecycleWithoutRaces == HistorySpec => OnlyOvertakenLeaveLifecycle
<1> DEFINE Allowed == Lifecycle!LifecycleNext \/ \E t \in overtaken : Moves(t)
<1>1. ASSUME HistoryInv, HistoryNext PROVE rides' # rides => Allowed
  <2>1. Inv /\ Next
    BY <1>1 DEF HistoryInv, HistoryNext
  <2>2. ASSUME NEW t \in Tasks, create(t) PROVE Allowed
    BY <2>1, <2>2, CreateIsRequest DEF Lifecycle!LifecycleNext
  <2>3. ASSUME NEW t \in Tasks, assign(t) \/ update(t) \/ pay(t), t \in overtaken
        PROVE  Allowed
    <3>1. /\ task \in [Tasks -> Task] /\ task[t].pc \in {"assign", "update", "pay"}
          /\ \/ task' = [task EXCEPT ![t] = IdleTask]
             \/ /\ task[t].pc = "update"
                /\ task' = [task EXCEPT ![t] = [task[t] EXCEPT !.pc = "pay"]]
      BY <2>1, <2>3 DEF Inv, TypeOK, assign, update, pay, Finish, Suspend
    <3>2. task'[t].pc # task[t].pc
      BY <3>1 DEF IdleTask, Task
    <3> QED BY <2>3, <3>2 DEF Moves
  <2>4. ASSUME NEW t \in Tasks \ overtaken, assign(t) \/ update(t) \/ pay(t)
        PROVE  Lifecycle!LifecycleNext \/ rides' = rides
    <3>1. PICK id : id = task[t].ride
      OBVIOUS
    <3>2. id \in DOMAIN Ledger /\ id \in DOMAIN rides
      BY <2>1, <2>4, <3>1 DEF Inv, TaskInv, assign, update, pay, Ledger
    <3>3. Checked(task[t]) /\ Undriven(id)
      BY <1>1, <3>2 DEF HistoryInv
    <3>4. Lifecycle!Transition(id) \/ Lifecycle!Pay(id) \/ rides' = rides
      BY <2>1, <2>4, <3>1, <3>3, AssignIsMatch, UpdateIsMove, PayIsPay
         DEF Lifecycle!Transition
    <3> QED BY <3>2, <3>4 DEF Lifecycle!LifecycleNext
  <2> HIDE DEF Allowed
  <2>5. ASSUME NEW t \in Tasks, assign(t) \/ update(t) \/ pay(t)
        PROVE  Allowed \/ rides' = rides
    BY <2>3, <2>4, <2>5 DEF Allowed
  <2> QED BY <2>1, <2>2, <2>5, OnlyWritersWrite DEF tables
<1>2. HistoryInv /\ [HistoryNext]_allVars => [rides' # rides => Allowed]_Ledger
  BY <1>1 DEF allVars, vars
<1> QED BY <1>2, HistoryInvariance, PTL DEF HistorySpec, OnlyOvertakenLeaveLifecycle

-----------------------------------------------------------------------------
(* What failures leave undone. *)

\* An online ride has had its one match, has it still, or lost it to a failure.
Accounted ==
    /\ \A id : <<id, "match">> \in dropped => id \in DOMAIN rides
    /\ \A t \in Tasks :
          Matching(t) /\ Online(task[t].ride) => <<task[t].ride, "match">> \notin dropped
    /\ \A id \in DOMAIN rides :
          Online(id) /\ rides[id].status = "requested" =>
              \/ \E t \in Tasks : task[t].ride = id /\ Matching(t)
              \/ <<id, "match">> \in dropped

LEMMA MatchGoesOn ==
  ASSUME Inv, Next, NEW s \in Tasks, Matching(s)
  PROVE  \/ assign(s) \/ Abort(s)
         \/ Matching(s)' /\ task'[s].ride = task[s].ride
<1>1. task \in [Tasks -> Task] /\ ~Idle(s)
  BY DEF Inv, TypeOK, Matching, Idle
<1>2. CASE task'[s] = task[s]
  BY <1>2 DEF Matching
<1>3. CASE assignNearestDriver(s)
  BY <1>1, <1>3 DEF assignNearestDriver, Suspend, Matching, Task
<1>4. CASE findDrivers(s)
  BY <1>1, <1>4 DEF findDrivers, Suspend, Matching, Task
<1>5. ~checkScheduled(s) /\ ~create(s) /\ ~update(s) /\ ~pay(s)
  BY DEF Matching, checkScheduled, create, update, pay
<1>6. ~Request(s)
  BY <1>1, RequestStarts
<1> QED BY <1>1, <1>2, <1>3, <1>4, <1>5, <1>6, HandlersMoveThemselves DEF Resume

LEMMA PaymentGoesOn ==
  ASSUME Inv, Next, NEW s \in Tasks, task[s].pc = "pay"
  PROVE  pay(s) \/ Abort(s) \/ task'[s] = task[s]
<1>1. ~Idle(s)
  BY DEF Idle
<1>2. ~Request(s)
  BY <1>1, RequestStarts
<1> QED BY <1>1, <1>2, HandlersMoveThemselves DEF Resume, checkScheduled, create,
           assignNearestDriver, findDrivers, assign, update

LEMMA TypeIsFixed ==
  ASSUME Inv, Next, NEW id \in DOMAIN rides
  PROVE  rides'[id].type = rides[id].type
<1>1. rides[id] \in RideRow
  BY DEF Inv, TypeOK
<1>2. ASSUME NEW d, rides'[id] = Assigned(rides[id], d)
      PROVE  rides'[id].type = rides[id].type
  BY <1>1, <1>2 DEF Assigned, RideRow
<1>3. ASSUME NEW to, rides'[id] = [rides[id] EXCEPT !.status = to]
      PROVE  rides'[id].type = rides[id].type
  BY <1>1, <1>3 DEF RideRow
<1>4. CASE rides'[id] = [rides[id] EXCEPT !.paymentStatus = "paid"]
  BY <1>1, <1>4 DEF RideRow
<1> QED BY <1>2, <1>3, <1>4, RowChange

\* An online ride that exists gets no matcher it did not have.
LEMMA NoSecondMatch ==
  ASSUME Inv, Next, NEW s \in Tasks, Matching(s)', NEW id \in DOMAIN rides,
         task'[s].ride = id, Online(id)
  PROVE  Matching(s) /\ task[s].ride = id
<1>1. task \in [Tasks -> Task] /\ rides \in Seq(RideRow)
  BY DEF Inv, TypeOK
<1>2. CASE task'[s] = task[s]
  BY <1>2 DEF Matching
<1>3. ~Request(s)
  BY RequestStarts DEF Matching
<1>4. ~Finish(s)
  BY <1>1 DEF Finish, Suspend, IdleTask, Matching
<1>5. ~checkScheduled(s)
  BY <1>1, <1>4 DEF checkScheduled, Suspend, Matching, Task
<1>6. ~create(s)
  <2>1. SUFFICES ASSUME create(s) PROVE FALSE
    OBVIOUS
  <2>2. task'[s] = MatchTask(Len(rides) + 1)
    BY <1>1, <1>4, <2>1 DEF create, Suspend
  <2>3. task'[s].ride = Len(rides) + 1
    BY <2>2 DEF MatchTask, IdleTask
  <2> QED BY <1>1, <2>3
<1>7. CASE assignNearestDriver(s) \/ findDrivers(s)
  <2>1. CASE assignNearestDriver(s)
    BY <1>1, <2>1 DEF assignNearestDriver, Suspend, Matching, Task
  <2>2. CASE findDrivers(s)
    BY <1>1, <2>2 DEF findDrivers, Suspend, Matching, Task
  <2> QED BY <1>7, <2>1, <2>2
<1>8. ~update(s)
  BY <1>1, <1>4 DEF update, Suspend, Matching, Task
<1>9. ~assign(s) /\ ~pay(s) /\ ~Abort(s)
  BY <1>4 DEF assign, pay, Abort
<1>10. ~ \E due \in findDueScheduled(rides, clock) : task'[s] = MatchTask(due)
  BY DEF findDueScheduled, Online, MatchTask, IdleTask
<1> QED BY <1>2, <1>3, <1>5, <1>6, <1>7, <1>8, <1>9, <1>10,
           HandlersMoveThemselves DEF Resume

\* The ride created last, if one was.
LEMMA NewRideIsMatched ==
  ASSUME Inv, NEW t \in Tasks, create(t), NEW id \in DOMAIN rides' \ DOMAIN rides
  PROVE  /\ rides'[id].type = "online" => Matching(t)' /\ task'[t].ride = id
         /\ trail'[id] = {"requested"}
<1>1. /\ rides \in Seq(RideRow) /\ trail \in Seq(SUBSET RideStatus)
      /\ Len(trail) = Len(rides) /\ task \in [Tasks -> Task]
      /\ rides' = Append(rides, NewRide(t)) /\ trail' = Append(trail, {"requested"})
  BY DEF Inv, TypeOK, create
<1>2. id = Len(rides) + 1 /\ rides'[id] = NewRide(t) /\ trail'[id] = {"requested"}
  BY <1>1
<1>3. CASE task[t].at = Null
  <2>1. task'[t] = MatchTask(id)
    BY <1>1, <1>2, <1>3 DEF create, MatchedAtOnce, Suspend
  <2> QED BY <1>2, <2>1 DEF Matching, MatchTask, IdleTask
<1>4. CASE task[t].at # Null
  <2>1. NewRide(t).type = "scheduled"
    BY <1>4 DEF NewRide
  <2> QED BY <1>2, <2>1
<1> QED BY <1>3, <1>4

\* What a failure adds to dropped is what its handler was doing.
LEMMA DroppedGrows ==
  ASSUME HistoryNext
  PROVE  /\ dropped \subseteq dropped'
         /\ \A t \in Tasks : Abort(t) => Undone(t) \subseteq dropped'
         /\ \A x \in dropped' \ dropped : \E t \in Tasks : Abort(t) /\ x \in Undone(t)
BY DEF HistoryNext, Record

LEMMA DroppedMatch ==
  ASSUME HistoryNext, NEW id, <<id, "match">> \in dropped' \ dropped
  PROVE  \E t \in Tasks : Abort(t) /\ Matching(t) /\ task[t].ride = id
<1>1. PICK t \in Tasks : Abort(t) /\ <<id, "match">> \in Undone(t)
  BY DroppedGrows
<1>2. CASE Matching(t)
  BY <1>1, <1>2 DEF Undone
<1>3. CASE ~Matching(t)
  <2>1. <<id, "match">> \notin {<<task[t].ride, "pay">>}
    OBVIOUS
  <2> QED BY <1>1, <1>3, <2>1 DEF Undone
<1> QED BY <1>2, <1>3

LEMMA StepKeepsAccounted ==
  ASSUME Inv, Accounted, HistoryNext PROVE Accounted'
<1>1. Next /\ rides \in Seq(RideRow) /\ task \in [Tasks -> Task]
  BY DEF HistoryNext, Inv, TypeOK
<1>2. ASSUME NEW id, <<id, "match">> \in dropped' PROVE id \in DOMAIN rides'
  <2>1. id \in DOMAIN rides
    BY <1>2, DroppedMatch DEF Accounted, Inv, TaskInv, Matching
  <2> QED BY <1>1, <2>1, CreateGrows
<1>3. ASSUME NEW s \in Tasks, Matching(s)', Online(task[s].ride)',
             <<task'[s].ride, "match">> \in dropped'
      PROVE  FALSE
  <2> DEFINE id == task'[s].ride
  <2>1. id \in DOMAIN rides
    BY <1>3, DroppedMatch DEF Accounted, Inv, TaskInv, Matching
  <2>2. Online(id)
    <3>1. rides'[id].type = rides[id].type
      BY <1>1, <2>1, TypeIsFixed
    <3> QED BY <1>3, <3>1 DEF Online
  <2>3. Matching(s) /\ task[s].ride = id
    BY <1>1, <1>3, <2>1, <2>2, NoSecondMatch
  <2>4. <<id, "match">> \notin dropped
    BY <2>2, <2>3 DEF Accounted
  <2>5. PICK t \in Tasks : Abort(t) /\ Matching(t) /\ task[t].ride = id
    BY <1>3, <2>4, DroppedMatch
  <2>6. s = t
    BY <2>2, <2>3, <2>5 DEF Inv, OneMatcher
  <2>7. task'[s] = IdleTask
    BY <1>1, <2>5, <2>6 DEF Abort, Finish, Suspend
  <2> QED BY <1>3, <2>7 DEF Matching, IdleTask
<1>4. ASSUME NEW id \in DOMAIN rides', rides'[id].type = "online",
             rides'[id].status = "requested"
      PROVE  \/ \E t \in Tasks : task'[t].ride = id /\ Matching(t)'
             \/ <<id, "match">> \in dropped'
  <2>1. CASE id \notin DOMAIN rides
    BY <1>1, <1>4, <2>1, NewRideIsMatched, CreateGrows
  <2>2. CASE id \in DOMAIN rides
    <3>1. rides[id] \in RideRow
      BY <1>1, <2>2
    <3>2. \A d : Assigned(rides[id], d).status # "requested"
      BY <3>1 DEF Assigned, RideRow
    <3>3. ASSUME NEW t \in Tasks, task[t].ride = id, task[t].pc = "update"
          PROVE  rides'[id] # [rides[id] EXCEPT !.status = task[t].to]
      BY <1>4, <3>1, <3>3 DEF Inv, TaskInv, RideRow
    <3>4. /\ [rides[id] EXCEPT !.paymentStatus = "paid"].status = rides[id].status
          /\ [rides[id] EXCEPT !.paymentStatus = "paid"].type = rides[id].type
      BY <3>1 DEF RideRow
    <3>5. \A t \in Tasks : rides'[id] # Assigned(rides[id], task[t].choice)
      BY <1>4, <3>2
    <3>6. \/ rides'[id] = rides[id]
          \/ rides'[id] = [rides[id] EXCEPT !.paymentStatus = "paid"]
      BY <1>1, <2>2, <3>3, <3>5, RowChange
    <3>7. rides[id].type = "online" /\ rides[id].status = "requested"
      BY <1>4, <3>4, <3>6
    <3>8. CASE <<id, "match">> \in dropped
      BY <3>8, DroppedGrows
    <3>9. CASE \E t \in Tasks : task[t].ride = id /\ Matching(t)
      <4>1. PICK t \in Tasks : task[t].ride = id /\ Matching(t)
        BY <3>9
      <4>2. ~assign(t)
        <5>1. SUFFICES ASSUME assign(t) PROVE FALSE
          OBVIOUS
        <5>2. rides'[id] = Assigned(rides[id], task[t].choice)
          BY <1>1, <2>2, <4>1, <5>1 DEF assign, Write
        <5> QED BY <3>5, <5>2
      <4>3. Abort(t) => <<id, "match">> \in dropped'
        <5>1. <<id, "match">> \in Undone(t)
          BY <4>1 DEF Undone, Matching
        <5> QED BY <5>1, DroppedGrows
      <4> QED BY <1>1, <4>1, <4>2, <4>3, MatchGoesOn
    <3> QED BY <2>2, <3>7, <3>8, <3>9 DEF Accounted, Online
  <2> QED BY <2>1, <2>2
<1> QED BY <1>2, <1>3, <1>4 DEF Accounted, Online

\* An online ride in "requested" has its handler, or lost it to a failure and
\* gets no other.
THEOREM RequestedIsMatched == HistorySpec => []RequestedIsBeingMatched
<1>1. HistoryInit => Accounted
  BY DEF HistoryInit, Init, Accounted, Matching, IdleTask
<1>2. Inv /\ Accounted /\ [HistoryNext]_allVars => Accounted'
  <2>1. ASSUME Accounted, UNCHANGED allVars PROVE Accounted'
    BY <2>1 DEF Accounted, Online, Matching, allVars, vars, history
  <2> QED BY <2>1, StepKeepsAccounted
<1>3. Accounted => RequestedIsBeingMatched
  BY DEF Accounted, RequestedIsBeingMatched
<1> QED BY <1>1, <1>2, <1>3, HistoryKeepsInv, PTL DEF HistorySpec

\* A status enters the trail of a ride by the write that gives it.
LEMMA TrailChange ==
  ASSUME Inv, Next, NEW id \in DOMAIN rides, "completed" \in trail'[id]
  PROVE  \/ "completed" \in trail[id]
         \/ \E t \in Tasks : update(t) /\ task[t].ride = id /\ task[t].to = "completed"
<1>1. /\ rides \in Seq(RideRow) /\ trail \in Seq(SUBSET RideStatus)
      /\ Len(trail) = Len(rides)
  BY DEF Inv, TypeOK
<1>2. ASSUME NEW t \in Tasks, NEW row, Write(task[t].ride, row)
      PROVE  \/ trail'[id] = trail[id]
             \/ task[t].ride = id /\ trail'[id] = trail[id] \cup {row.status}
  BY <1>1, <1>2 DEF Write
<1>3. ASSUME NEW t \in Tasks, create(t) PROVE trail'[id] = trail[id]
  BY <1>1, <1>3 DEF create
<1>4. ASSUME NEW t \in Tasks, assign(t) PROVE "completed" \in trail[id]
  <2> DEFINE row == Assigned(rides[task[t].ride], task[t].choice)
  <2>1. row.status # "completed"
    BY <1>1, <1>4 DEF Assigned, assign, Inv, TaskInv, RideRow
  <2> HIDE DEF row
  <2>2. Write(task[t].ride, row)
    BY <1>4 DEF assign, row
  <2> QED BY <1>2, <2>1, <2>2
<1>5. ASSUME NEW t \in Tasks, update(t)
      PROVE  \/ "completed" \in trail[id]
             \/ task[t].ride = id /\ task[t].to = "completed"
  <2> DEFINE row == [rides[task[t].ride] EXCEPT !.status = task[t].to]
  <2>1. row.status = task[t].to
    BY <1>1, <1>5 DEF update, Inv, TaskInv, RideRow
  <2> HIDE DEF row
  <2>2. Write(task[t].ride, row)
    BY <1>5 DEF update, row
  <2> QED BY <1>2, <2>1, <2>2
<1>6. ASSUME NEW t \in Tasks, pay(t) PROVE "completed" \in trail[id]
  <2> DEFINE row == Paid(rides[task[t].ride])
  <2>1. /\ task[t].ride \in DOMAIN rides
        /\ row.status = rides[task[t].ride].status
    BY <1>1, <1>6 DEF Paid, pay, Inv, TaskInv, RideRow
  <2> HIDE DEF row
  <2>2. Write(task[t].ride, row)
    BY <1>6 DEF pay, row
  <2>3. rides[task[t].ride].status \in trail[task[t].ride]
    BY <2>1 DEF Inv, RowInv
  <2> QED BY <1>2, <2>1, <2>2, <2>3
<1> QED BY <1>3, <1>4, <1>5, <1>6, OnlyWritersWrite DEF tables

LEMMA StepKeepsPaying ==
  ASSUME Inv, UnpaidIsBeingPaid, HistoryNext PROVE UnpaidIsBeingPaid'
<1> SUFFICES ASSUME NEW id \in DOMAIN rides', "completed" \in trail'[id],
                    rides'[id].paymentStatus = "unpaid"
             PROVE  \/ \E t \in Tasks : task'[t].ride = id /\ task'[t].pc = "pay"
                    \/ <<id, "pay">> \in dropped'
  BY DEF UnpaidIsBeingPaid
<1>1. Next
  BY DEF HistoryNext
<1>2. CASE id \notin DOMAIN rides
  BY <1>1, <1>2, NewRideIsMatched, CreateGrows
<1>3. ASSUME id \in DOMAIN rides,
             NEW t \in Tasks, update(t), task[t].ride = id, task[t].to = "completed"
      PROVE  task'[t].ride = id /\ task'[t].pc = "pay"
  BY <1>3 DEF update, PaysNext, Suspend, Inv, TypeOK, Task
<1>4. CASE id \in DOMAIN rides /\ "completed" \in trail[id]
  <2>1. rides[id] \in RideRow
    BY <1>4 DEF Inv, TypeOK
  <2>2. /\ \A to : [rides[id] EXCEPT !.status = to].paymentStatus
                      = rides[id].paymentStatus
        /\ [rides[id] EXCEPT !.paymentStatus = "paid"].paymentStatus = "paid"
        /\ \A d : Assigned(rides[id], d).paymentStatus = rides[id].paymentStatus
    BY <2>1 DEF RideRow, Assigned
  <2>3. rides[id].paymentStatus = "unpaid"
    <3>1. \/ rides'[id] = rides[id]
          \/ \E t \in Tasks : rides'[id] = Assigned(rides[id], task[t].choice)
          \/ \E t \in Tasks : rides'[id] = [rides[id] EXCEPT !.status = task[t].to]
      BY <1>1, <1>4, <2>2, RowChange
    <3> QED BY <2>2, <3>1
  <2>4. CASE <<id, "pay">> \in dropped
    BY <2>4, DroppedGrows
  <2>5. CASE \E t \in Tasks : task[t].ride = id /\ task[t].pc = "pay"
    <3>1. PICK t \in Tasks : task[t].ride = id /\ task[t].pc = "pay"
      BY <2>5
    <3>2. ~pay(t)
      <4>1. SUFFICES ASSUME pay(t) PROVE FALSE
        OBVIOUS
      <4>2. rides'[id] = [rides[id] EXCEPT !.paymentStatus = "paid"]
        BY <1>4, <3>1, <4>1 DEF pay, Paid, Write, Inv, TypeOK
      <4> QED BY <2>2, <4>2
    <3>3. Abort(t) => <<id, "pay">> \in dropped'
      <4>1. <<id, "pay">> \in Undone(t)
        BY <3>1 DEF Undone, Matching
      <4> QED BY <4>1, DroppedGrows
    <3> QED BY <1>1, <3>1, <3>2, <3>3, PaymentGoesOn
  <2> QED BY <1>4, <2>3, <2>4, <2>5 DEF UnpaidIsBeingPaid
<1> QED BY <1>1, <1>2, <1>3, <1>4, TrailChange

\* A completed ride is paid, has the handler that is going to mark it paid, or
\* lost it to a failure.
THEOREM UnpaidIsPaid == HistorySpec => []UnpaidIsBeingPaid
<1>1. HistoryInit => UnpaidIsBeingPaid
  BY DEF HistoryInit, Init, UnpaidIsBeingPaid
<1>2. Inv /\ UnpaidIsBeingPaid /\ [HistoryNext]_allVars => UnpaidIsBeingPaid'
  <2>1. ASSUME UnpaidIsBeingPaid, UNCHANGED allVars PROVE UnpaidIsBeingPaid'
    BY <2>1 DEF UnpaidIsBeingPaid, allVars, vars, history
  <2> QED BY <2>1, StepKeepsPaying
<1> QED BY <1>1, <1>2, HistoryKeepsInv, PTL DEF HistorySpec

-----------------------------------------------------------------------------
(* What drivers have sent. *)

\* Driver d sent an update stamped with since or later.
HeardSince(d, since) == heard[d] \in Nat /\ heard[d] >= since

\* heard is ahead of every stamp in the table and of every UPDATE on its way.
Sent ==
    /\ heard \in [Drivers -> Nat \cup {Null}]
    /\ \A d \in Drivers : heard[d] # Null => heard[d] <= clock
    /\ \A d \in Drivers :
          drivers[d].lastPingAt # Null => HeardSince(d, drivers[d].lastPingAt)
    /\ \A c \in Calls :
          pending[c] # NoUpdate => HeardSince(pending[c].driver, pending[c].at)
    /\ \A t \in Tasks :
          task[t].pc = "assign" /\ task[t].choice # Null =>
              HeardSince(task[t].choice, task[t].since)

\* The clock never runs back, so what was heard is never forgotten.
LEMMA HeardGrows ==
  ASSUME Inv, Sent, HistoryNext, NEW d \in Drivers
  PROVE  /\ heard' \in [Drivers -> Nat \cup {Null}]
         /\ clock <= clock'
         /\ heard'[d] # Null => heard'[d] <= clock'
         /\ \A since \in Int : HeardSince(d, since) => HeardSince(d, since)'
<1>1. clock \in Nat /\ clock' \in Nat /\ Next
  BY StepKeepsInv DEF Inv, TypeOK, DriverTypeOK, HistoryNext
<1>2. clock <= clock'
  <2>1. CASE DriverNext
    BY <1>1, <2>1 DEF DriverNext, updateStatus, updateLocation, Send, land, lose, Tick
  <2>2. ASSUME NEW t \in Tasks, Request(t) \/ Resume(t) \/ Abort(t)
        PROVE  clock' = clock
    BY <2>2, RequestStarts DEF Resume, checkScheduled, create, assignNearestDriver,
       findDrivers, assign, update, pay, Abort, driverVars
  <2>3. CASE processDueScheduledRides
    BY <1>1, <2>3 DEF processDueScheduledRides, driverVars
  <2> QED BY <1>1, <2>1, <2>2, <2>3 DEF Next
<1>3. \A e \in Drivers : heard'[e] = IF Reports(e) THEN clock ELSE heard[e]
  BY DEF HistoryNext, Record
<1>4. heard' \in [Drivers -> Nat \cup {Null}]
  BY <1>1 DEF HistoryNext, Record, Sent
<1>5. heard'[d] # Null => heard'[d] <= clock'
  BY <1>1, <1>2, <1>3 DEF Sent
<1>6. ASSUME NEW since \in Int, HeardSince(d, since) PROVE HeardSince(d, since)'
  <2>1. heard[d] <= clock
    BY <1>6, DomainAssumption DEF Sent, HeardSince, DomainAssumption
  <2> QED BY <1>1, <1>3, <1>6, <2>1 DEF HeardSince
<1> QED BY <1>2, <1>4, <1>5, <1>6

\* What reaches the table was sent.
LEMMA StepKeepsPingsSent ==
  ASSUME Inv, Sent, HistoryNext, NEW d \in Drivers, drivers'[d].lastPingAt # Null
  PROVE  HeardSince(d, drivers[d].lastPingAt)'
<1>1. /\ drivers \in [Drivers -> DriverRow] /\ Inv' /\ Next
      /\ pending \in [Calls -> Update \cup {NoUpdate}]
  BY StepKeepsInv DEF Inv, TypeOK, DriverTypeOK, HistoryNext
<1>2. drivers'[d].lastPingAt \in Int
  BY <1>1 DEF Inv, TypeOK, DriverTypeOK, DriverRow, Date
<1>3. CASE drivers' = drivers
  BY <1>2, <1>3, HeardGrows DEF Sent, HeardSince
<1>4. ASSUME NEW c \in Calls, land(c)
      PROVE  HeardSince(d, drivers'[d].lastPingAt)
  <2>1. /\ pending[c] \in Update
        /\ drivers' = [drivers EXCEPT ![pending[c].driver] =
                          Updated(drivers[pending[c].driver], pending[c])]
    BY <1>1, <1>4 DEF land
  <2>2. /\ pending[c].driver \in Drivers
        /\ HeardSince(pending[c].driver, pending[c].at)
    BY <1>4, <2>1 DEF Sent, land, Update
  <2>3. Updated(drivers[pending[c].driver], pending[c]).lastPingAt = pending[c].at
    <3>1. drivers[pending[c].driver] \in DriverRow
      BY <1>1, <2>2
    <3>2. CASE pending[c].place = Null
      BY <3>1, <3>2 DEF Updated, updateOnlineStatusByUserId, DriverRow
    <3>3. CASE pending[c].place # Null
      BY <3>1, <3>3 DEF Updated, updateLocationByUserId, DriverRow
    <3> QED BY <3>2, <3>3
  <2>4. drivers'[d].lastPingAt =
          IF d = pending[c].driver THEN pending[c].at ELSE drivers[d].lastPingAt
    BY <1>1, <2>1, <2>2, <2>3
  <2> QED BY <2>2, <2>4 DEF Sent
<1>5. CASE DriverNext
  <2>1. drivers' = drivers \/ \E c \in Calls : land(c)
    BY <1>5 DEF DriverNext, updateStatus, updateLocation, Send, lose, Tick
  <2> QED BY <1>2, <1>3, <1>4, <2>1, HeardGrows
<1>6. CASE ~DriverNext
  <2>1. ASSUME NEW t \in Tasks, Request(t) \/ Resume(t) \/ Abort(t)
        PROVE  drivers' = drivers
    BY <1>1, <2>1, RequestStarts DEF Resume, checkScheduled, create,
       assignNearestDriver, findDrivers, assign, update, pay, Abort, driverVars
  <2>2. ASSUME processDueScheduledRides PROVE drivers' = drivers
    BY <2>2 DEF processDueScheduledRides, driverVars
  <2>3. drivers' = drivers
    BY <1>1, <1>6, <2>1, <2>2 DEF Next, driverVars
  <2> QED BY <1>3, <2>3
<1> QED BY <1>5, <1>6

\* An UPDATE is stamped with the clock that heard keeps.
LEMMA StepKeepsPendingSent ==
  ASSUME Inv, Sent, HistoryNext, NEW c \in Calls, pending'[c] # NoUpdate
  PROVE  HeardSince(pending[c].driver, pending[c].at)'
<1>1. /\ pending \in [Calls -> Update \cup {NoUpdate}] /\ clock \in Nat
      /\ pending' \in [Calls -> Update \cup {NoUpdate}] /\ Next
  BY StepKeepsInv DEF Inv, TypeOK, DriverTypeOK, HistoryNext
<1>2. pending'[c] \in Update
  BY <1>1
<1>3. pending'[c].driver \in Drivers /\ pending'[c].at \in Int
  BY <1>2 DEF Update
<1>4. CASE pending'[c] = pending[c]
  <2>1. HeardSince(pending[c].driver, pending[c].at)
    BY <1>4 DEF Sent
  <2> QED BY <1>3, <1>4, <2>1, HeardGrows DEF HeardSince
<1>5. CASE pending'[c] # pending[c]
  <2>1. ASSUME NEW b \in Calls, NEW u, Send(b, u), u.at = clock
        PROVE  pending[c] = NoUpdate /\ pending'[c].at = clock
    BY <1>1, <1>5, <2>1 DEF Send
  <2>2. pending[c] = NoUpdate /\ pending'[c].at = clock
    <3>1. ASSUME NEW t \in Tasks, Request(t) \/ Resume(t) \/ Abort(t)
          PROVE  pending' = pending
      BY <1>1, <3>1, RequestStarts DEF Resume, checkScheduled, create,
         assignNearestDriver, findDrivers, assign, update, pay, Abort, driverVars
    <3>2. CASE processDueScheduledRides
      BY <1>5, <3>2 DEF processDueScheduledRides, driverVars
    <3>3. CASE DriverNext
      <4>1. ~Tick
        BY <1>5 DEF Tick
      <4>2. ASSUME NEW b \in Calls, land(b) \/ lose(b) PROVE FALSE
        BY <1>1, <1>2, <1>5, <4>2 DEF land, lose
      <4> QED BY <2>1, <3>3, <4>1, <4>2 DEF DriverNext, updateStatus, updateLocation
    <3> QED BY <1>1, <1>5, <3>1, <3>2, <3>3 DEF Next
  <2>3. Reports(pending'[c].driver)
    BY <2>2 DEF Reports
  <2>4. heard'[pending'[c].driver] = clock
    BY <1>3, <2>3 DEF HistoryNext, Record
  <2> QED BY <1>1, <2>2, <2>4 DEF HeardSince
<1> QED BY <1>4, <1>5

\* The drivers a match chooses among have sent an update in time.
LEMMA StepKeepsChoiceHeard ==
  ASSUME Inv, Sent, HistoryNext, NEW s \in Tasks,
         task'[s].pc = "assign", task'[s].choice # Null
  PROVE  HeardSince(task[s].choice, task[s].since)'
<1>1. /\ Next /\ Inv' /\ task \in [Tasks -> Task] /\ task[s] \in Task
      /\ task'[s] \in Task
  BY StepKeepsInv DEF Inv, TypeOK, HistoryNext
<1>2. task'[s].choice \in Drivers /\ task'[s].since \in Int
  BY <1>1 DEF Task, Inv, TaskInv
<1>3. SUFFICES HeardSince(task'[s].choice, task'[s].since)
  BY <1>2, HeardGrows DEF HeardSince
<1>4. CASE task'[s] = task[s]
  BY <1>4 DEF Sent
<1>5. CASE findDrivers(s)
  <2>1. PICK d \in Nearest(task[s].ride, task[s].since) \cup {Null} :
            Suspend(s, [task[s] EXCEPT !.pc = "assign", !.choice = d])
    BY <1>5 DEF findDrivers
  <2>2. task'[s].choice = d /\ task'[s].since = task[s].since
    BY <1>1, <2>1 DEF Suspend, Task
  <2>3. d \in findFreshOnlineDriversWithLocation(drivers, task[s].since)
    BY <2>2 DEF Nearest, Candidates
  <2>4. /\ drivers[d].lastPingAt # Null /\ drivers[d].lastPingAt >= task[s].since
        /\ d \in Drivers
    BY <2>3 DEF findFreshOnlineDriversWithLocation
  <2>5. HeardSince(d, drivers[d].lastPingAt)
    BY <2>4 DEF Sent
  <2>6. drivers[d].lastPingAt \in Int
    BY <2>4 DEF Inv, TypeOK, DriverTypeOK, DriverRow, Date
  <2> QED BY <1>2, <2>2, <2>4, <2>5, <2>6 DEF HeardSince
<1>6. ~Request(s) /\ ~Finish(s)
  <2>1. ~Finish(s)
    BY <1>1 DEF Finish, Suspend, IdleTask
  <2> QED BY <2>1, RequestStarts
<1>7. ~checkScheduled(s) /\ ~assignNearestDriver(s) /\ ~update(s)
  BY <1>1, <1>6 DEF checkScheduled, assignNearestDriver, update, Suspend, Task
<1>8. ~create(s)
  BY <1>1, <1>6 DEF create, Suspend, MatchTask, IdleTask
<1>9. ~assign(s) /\ ~pay(s) /\ ~Abort(s)
  BY <1>6 DEF assign, pay, Abort
<1>10. ~ \E due \in findDueScheduled(rides, clock) : task'[s] = MatchTask(due)
  BY DEF MatchTask, IdleTask
<1> QED BY <1>1, <1>4, <1>5, <1>6, <1>7, <1>8, <1>9, <1>10,
           HandlersMoveThemselves DEF Resume

\* No driver is assigned by a match whose freshness window the driver was
\* silent in, however late the UPDATEs of earlier requests land.
THEOREM AssignedDriversWereHeard == HistorySpec => []AssignedDriverHeard
<1>1. HistoryInit => Sent
  BY DEF HistoryInit, Init, DriverInit, RegisteredDriver, IdleTask, Sent
<1>2. Inv /\ Sent /\ [HistoryNext]_allVars => Sent'
  <2>1. ASSUME Sent, UNCHANGED allVars PROVE Sent'
    BY <2>1 DEF Sent, HeardSince, allVars, vars, history
  <2>2. ASSUME Inv, Sent, HistoryNext PROVE Sent'
    <3>1. heard' \in [Drivers -> Nat \cup {Null}]
      <4>1. clock \in Nat
        BY <2>2 DEF Inv, TypeOK, DriverTypeOK
      <4> QED BY <2>2, <4>1 DEF Sent, HistoryNext, Record
    <3>2. \A d \in Drivers : heard'[d] # Null => heard'[d] <= clock'
      BY <2>2, HeardGrows
    <3> QED BY <2>2, <3>1, <3>2, StepKeepsPingsSent, StepKeepsPendingSent,
               StepKeepsChoiceHeard DEF Sent
  <2> QED BY <2>1, <2>2
<1>3. Sent => AssignedDriverHeard
  BY DEF Sent, HeardSince, AssignedDriverHeard
<1> QED BY <1>1, <1>2, <1>3, HistoryKeepsInv, PTL DEF HistorySpec
=============================================================================
