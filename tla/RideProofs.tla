---------------------------- MODULE RideProofs ----------------------------
(***************************************************************************)
(* RideService keeps the safety properties of RideProperties for any       *)
(* number of riders, drivers, places, handlers and rides, with failures or *)
(* without, with a sweep worker or without.                                *)
(*                                                                         *)
(* None of the properties is inductive alone: what a write does to a row   *)
(* depends on what the suspended handler checked before its await.  Inv    *)
(* ties each suspended handler (TaskInv) to the row it will write, each    *)
(* row to its history (RowInv), and says that an online ride is matched    *)
(* by one handler only (OneMatcher), which is why its driver is never      *)
(* overwritten and the ownership checks stay true.                         *)
(***************************************************************************)
EXTENDS RideProperties, TLAPS

\* What a handler still relies on when it resumes.
TaskInv(k) ==
    /\ k.pc \in {"check", "insert"} => k.actor \in Riders /\ k.pickup \in Places
    /\ k.pc \in {"match", "find", "assign", "update", "pay"} => k.ride \in DOMAIN rides
    /\ k.pc \in {"match", "find", "assign"} /\ Online(k.ride) =>
          rides[k.ride].driver = Null
    /\ k.pc \in {"find", "assign"} => k.since \in Int
    /\ k.pc \in {"update", "pay"} =>
          /\ Online(k.ride)
          /\ \/ /\ k.to = "cancelled_by_rider"
                /\ k.actor = rides[k.ride].rider
             \/ /\ k.to \in {"accepted", "started", "completed", "cancelled_by_driver"}
                /\ k.actor \in Drivers
                /\ k.actor = rides[k.ride].driver
          /\ k.to = "accepted" => "assigned" \in trail[k.ride]
          /\ k.to = "started" => "accepted" \in trail[k.ride]
          /\ k.to = "completed" => "started" \in trail[k.ride]
    /\ k.pc = "pay" => "completed" \in trail[k.ride]

\* A row agrees with its history.
RowInv(id) ==
    /\ rides[id].status \in trail[id]
    /\ "completed" \in trail[id] => "started" \in trail[id]
    /\ "started" \in trail[id] => "accepted" \in trail[id]
    /\ "accepted" \in trail[id] => "assigned" \in trail[id]
    /\ rides[id].driver # Null <=> "assigned" \in trail[id]
    /\ rides[id].paymentStatus = "paid" => "completed" \in trail[id]
    /\ ~Online(id) => /\ trail[id] \subseteq {"requested", "assigned", "no_driver"}
                      /\ rides[id].paymentStatus = "unpaid"

OneMatcher ==
    \A s, t \in Tasks :
        /\ Matching(s) /\ Matching(t)
        /\ task[s].ride = task[t].ride
        /\ Online(task[s].ride)
        => s = t

Inv ==
    /\ TypeOK
    /\ \A t \in Tasks : TaskInv(task[t])
    /\ \A id \in DOMAIN rides : RowInv(id)
    /\ OneMatcher

-----------------------------------------------------------------------------
LEMMA IdleTaskInv == IdleTask \in Task /\ (TaskInv(IdleTask))'
  BY DEF IdleTask, Task, Steps, TaskInv

LEMMA MatchTaskType ==
  ASSUME NEW id \in Nat
  PROVE  /\ MatchTask(id) \in Task
         /\ MatchTask(id).pc = "match" /\ MatchTask(id).ride = id
BY DEF MatchTask, IdleTask, Task, Steps

LEMMA InitInv == Init => Inv
<1> SUFFICES ASSUME Init PROVE Inv
  OBVIOUS
<1> USE DEF Init, DriverInit
<1>1. TypeOK
  <2>1. RegisteredDriver \in DriverRow
    BY DEF RegisteredDriver, DriverRow
  <2> QED BY <2>1, IdleTaskInv DEF TypeOK, DriverTypeOK, NoUpdate
<1>2. \A t \in Tasks : TaskInv(task[t])
  BY DEF TaskInv, IdleTask
<1>3. OneMatcher
  BY DEF OneMatcher, Matching, IdleTask
<1> QED BY <1>1, <1>2, <1>3 DEF Inv

\* A step that only replaces the record of one handler.
LEMMA SuspendKeepsInv ==
  ASSUME Inv, NEW t \in Tasks, NEW k \in Task, Suspend(t, k),
         UNCHANGED <<driverVars, tables>>,
         TaskInv(k),
         k.pc \in {"match", "find", "assign"} =>
            Matching(t) /\ k.ride = task[t].ride
  PROVE  Inv'
<1> USE DEF Inv, driverVars, tables, Suspend
<1>1. task' = [task EXCEPT ![t] = k] /\ task \in [Tasks -> Task]
  BY DEF TypeOK
<1>2. TypeOK'
  BY <1>1 DEF TypeOK, DriverTypeOK
<1>3. (\A s \in Tasks : TaskInv(task[s]))'
  BY <1>1 DEF TaskInv, Online
<1>4. (\A id \in DOMAIN rides : RowInv(id))'
  BY DEF RowInv, Online
<1>5. OneMatcher'
  BY <1>1 DEF OneMatcher, Matching, Online
<1> QED BY <1>2, <1>3, <1>4, <1>5

\* What an UPDATE by id does to the two tables.
LEMMA WriteEffect ==
  ASSUME TypeOK, NEW t \in Tasks, NEW k \in Task, Suspend(t, k),
         NEW id \in DOMAIN rides, NEW row \in RideRow, Write(id, row),
         UNCHANGED driverVars
  PROVE  /\ TypeOK'
         /\ DOMAIN rides' = DOMAIN rides
         /\ DOMAIN trail = DOMAIN rides
         /\ \A i \in DOMAIN rides : rides'[i] = IF i = id THEN row ELSE rides[i]
         /\ \A i \in DOMAIN rides :
              trail'[i] = IF i = id THEN trail[i] \cup {row.status} ELSE trail[i]
         /\ \A s \in Tasks : task'[s] = IF s = t THEN k ELSE task[s]
<1> USE DEF Write, Suspend
<1>1. /\ rides \in Seq(RideRow) /\ trail \in Seq(SUBSET RideStatus)
      /\ Len(trail) = Len(rides) /\ task \in [Tasks -> Task]
      /\ row.status \in RideStatus
  BY DEF TypeOK, RideRow
<1>2. /\ rides' \in Seq(RideRow) /\ Len(rides') = Len(rides)
      /\ DOMAIN rides' = DOMAIN rides
  BY <1>1
<1>3. trail[id] \cup {row.status} \in SUBSET RideStatus
  BY <1>1
<1>4. trail' \in Seq(SUBSET RideStatus) /\ Len(trail') = Len(trail)
  BY <1>1, <1>3
<1>5. task' \in [Tasks -> Task]
  BY <1>1
<1>6. TypeOK'
  BY <1>1, <1>2, <1>4, <1>5 DEF TypeOK, DriverTypeOK, driverVars
<1>7. DOMAIN trail = DOMAIN rides
  BY <1>1
<1>8. \A i \in DOMAIN rides :
        /\ rides'[i] = IF i = id THEN row ELSE rides[i]
        /\ trail'[i] = IF i = id THEN trail[i] \cup {row.status} ELSE trail[i]
  BY <1>1, <1>7
<1>9. \A s \in Tasks : task'[s] = IF s = t THEN k ELSE task[s]
  BY <1>1
<1> QED BY <1>2, <1>6, <1>7, <1>8, <1>9

LEMMA AssignKeepsInv == Inv /\ (\E t \in Tasks : assign(t)) => Inv'
<1> SUFFICES ASSUME Inv, NEW t \in Tasks, assign(t) PROVE Inv'
  OBVIOUS
<1> DEFINE id == task[t].ride
           row == Assigned(rides[id], task[t].choice)
<1>1. /\ TypeOK /\ TaskInv(task[t]) /\ task[t] \in Task /\ task[t].pc = "assign"
      /\ id \in DOMAIN rides /\ rides[id] \in RideRow /\ RowInv(id)
      /\ Online(id) => rides[id].driver = Null
  BY DEF Inv, TypeOK, TaskInv, assign
<1>2. /\ row \in RideRow /\ row.type = rides[id].type /\ row.rider = rides[id].rider
      /\ row.paymentStatus = rides[id].paymentStatus
      /\ \/ row.status = "no_driver" /\ row.driver = rides[id].driver
         \/ row.status = "assigned" /\ row.driver # Null
  BY <1>1 DEF Assigned, RideRow, Task, RideStatus
<1>3. /\ TypeOK' /\ DOMAIN rides' = DOMAIN rides /\ DOMAIN trail = DOMAIN rides
      /\ \A i \in DOMAIN rides : rides'[i] = IF i = id THEN row ELSE rides[i]
      /\ \A i \in DOMAIN rides :
           trail'[i] = IF i = id THEN trail[i] \cup {row.status} ELSE trail[i]
      /\ \A s \in Tasks : task'[s] = IF s = t THEN IdleTask ELSE task[s]
  <2> HIDE DEF row, id
  <2>1. Write(id, row) /\ Suspend(t, IdleTask) /\ UNCHANGED driverVars
    BY DEF assign, Finish, id, row
  <2> QED BY <1>1, <1>2, <2>1, WriteEffect, IdleTaskInv
<1>4. clock' = clock /\ drivers' = drivers
  BY DEF assign, driverVars
<1>5. \A i \in DOMAIN rides : rides'[i].type = rides[i].type
  BY <1>2, <1>3
<1> HIDE DEF row, id
<1>6. ASSUME NEW s \in Tasks PROVE TaskInv(task[s])'
  <2>1. CASE s = t
    BY <2>1, <1>3, IdleTaskInv
  <2>2. CASE s # t
    <3>1. task'[s] = task[s] /\ TaskInv(task[s])
      BY <1>3, <2>2 DEF Inv
    <3>2. CASE task[s].ride # id
      BY <1>3, <1>4, <3>1, <3>2 DEF TaskInv, Online
    <3>3. CASE task[s].ride = id /\ Matching(s)
      <4>1. ~Online(id)
        BY <1>1, <2>2, <3>3 DEF Inv, OneMatcher, Matching, id
      <4> QED BY <1>3, <1>4, <1>5, <1>1, <3>1, <3>3, <4>1 DEF TaskInv, Online, Matching
    <3>4. CASE task[s].ride = id /\ ~Matching(s)
      <4>1. task[s].pc \in {"update", "pay"} =>
               task[s].to = "cancelled_by_rider"
        BY <1>1, <3>1, <3>4, DomainAssumption DEF TaskInv, DomainAssumption
      <4>2. task[s].pc \in {"update", "pay"} =>
               /\ Online(task[s].ride)' /\ task[s].actor = rides'[id].rider
               /\ task[s].pc = "pay" => "completed" \in trail'[id]
        BY <1>1, <1>2, <1>3, <1>5, <3>1, <3>4, <4>1 DEF TaskInv, Online
      <4>3. task[s].pc \in {"update", "pay"} => task[s].ride \in DOMAIN rides'
        BY <1>3, <3>1 DEF TaskInv
      <4> QED BY <1>3, <1>4, <3>1, <3>4, <4>1, <4>2, <4>3 DEF TaskInv, Matching
    <3> QED BY <3>2, <3>3, <3>4
  <2> QED BY <2>1, <2>2
<1>7. ASSUME NEW i \in DOMAIN rides' PROVE RowInv(i)'
  <2>1. RowInv(i)
    BY <1>3 DEF Inv
  <2>2. CASE i # id
    BY <1>3, <2>1, <2>2 DEF RowInv, Online
  <2>3. CASE i = id
    <3>1. rides'[i] = row /\ trail'[i] = trail[i] \cup {row.status}
      BY <1>1, <1>3, <2>3
    <3> QED BY <1>2, <2>1, <2>3, <3>1 DEF RowInv, Online
  <2> QED BY <2>2, <2>3
<1>8. OneMatcher'
  BY <1>1, <1>3, <1>5 DEF Inv, OneMatcher, Matching, Online, IdleTask, TaskInv
<1> QED BY <1>3, <1>6, <1>7, <1>8 DEF Inv

\* What a suspended handler relies on survives a step that adds rides, or
\* statuses to a trail, and leaves the people of the other rides alone.
LEMMA GrowthKeepsTaskInv ==
  ASSUME NEW k \in Task, TaskInv(k), UNCHANGED driverVars,
         \A i \in DOMAIN rides :
            /\ i \in DOMAIN rides'
            /\ rides'[i].type = rides[i].type
            /\ rides'[i].rider = rides[i].rider
            /\ rides'[i].driver = rides[i].driver
            /\ trail[i] \subseteq trail'[i]
  PROVE  TaskInv(k)'
BY DEF TaskInv, Online, driverVars

LEMMA UpdateKeepsInv == Inv /\ (\E t \in Tasks : update(t)) => Inv'
<1> SUFFICES ASSUME Inv, NEW t \in Tasks, update(t) PROVE Inv'
  OBVIOUS
<1> DEFINE id == task[t].ride
           row == [rides[id] EXCEPT !.status = task[t].to]
           k == IF task[t].to = "completed" THEN [task[t] EXCEPT !.pc = "pay"]
                                            ELSE IdleTask
<1>1. /\ TypeOK /\ TaskInv(task[t]) /\ task[t] \in Task /\ task[t].pc = "update"
      /\ id \in DOMAIN rides /\ rides[id] \in RideRow /\ RowInv(id)
  BY DEF Inv, TypeOK, TaskInv, update
<1>2. /\ Online(id)
      /\ task[t].to \in {"accepted", "started", "completed",
                         "cancelled_by_rider", "cancelled_by_driver"}
      /\ task[t].to = "accepted" => "assigned" \in trail[id]
      /\ task[t].to = "started" => "accepted" \in trail[id]
      /\ task[t].to = "completed" => "started" \in trail[id]
  BY <1>1 DEF TaskInv
<1>3. /\ row \in RideRow /\ row.type = rides[id].type /\ row.rider = rides[id].rider
      /\ row.driver = rides[id].driver /\ row.status = task[t].to
      /\ row.paymentStatus = rides[id].paymentStatus
  BY <1>1, <1>2 DEF RideRow, RideStatus
<1>4. k \in Task /\ ~(k.pc \in {"match", "find", "assign"})
  BY <1>1, IdleTaskInv DEF Task, Steps, IdleTask
<1>5. /\ TypeOK' /\ DOMAIN rides' = DOMAIN rides /\ DOMAIN trail = DOMAIN rides
      /\ \A i \in DOMAIN rides : rides'[i] = IF i = id THEN row ELSE rides[i]
      /\ \A i \in DOMAIN rides :
           trail'[i] = IF i = id THEN trail[i] \cup {row.status} ELSE trail[i]
      /\ \A s \in Tasks : task'[s] = IF s = t THEN k ELSE task[s]
  <2>1. Write(id, row) /\ Suspend(t, k) /\ UNCHANGED driverVars
    BY DEF update, PaysNext, Finish
  <2> HIDE DEF row, id, k
  <2> QED BY <1>1, <1>3, <1>4, <2>1, WriteEffect
<1>6. UNCHANGED driverVars
  BY DEF update
<1> HIDE DEF row
<1>7. \A i \in DOMAIN rides :
        /\ i \in DOMAIN rides'
        /\ rides'[i].type = rides[i].type
        /\ rides'[i].rider = rides[i].rider
        /\ rides'[i].driver = rides[i].driver
        /\ trail[i] \subseteq trail'[i]
  BY <1>3, <1>5
<1>8. ASSUME NEW s \in Tasks PROVE TaskInv(task[s])'
  <2>1. CASE s # t
    <3>1. task'[s] = task[s] /\ TaskInv(task[s]) /\ task[s] \in Task
      BY <1>5, <2>1 DEF Inv, TypeOK
    <3>2. ASSUME NEW x \in Task, TaskInv(x) PROVE TaskInv(x)'
      BY <1>6, <1>7, <3>2, GrowthKeepsTaskInv
    <3> QED BY <3>1, <3>2
  <2>2. CASE s = t /\ task[t].to # "completed"
    BY <2>2, <1>5, IdleTaskInv
  <2>3. CASE s = t /\ task[t].to = "completed"
    <3>1. /\ task'[s].pc = "pay" /\ task'[s].ride = id /\ task'[s].to = "completed"
          /\ task'[s].actor = task[t].actor
      BY <1>1, <1>5, <2>3 DEF Task
    <3>2. /\ task[t].actor \in Drivers /\ task[t].actor = rides[id].driver
      BY <1>1, <2>3 DEF TaskInv
    <3>3. /\ id \in DOMAIN rides' /\ rides'[id].type = "online"
          /\ rides'[id].driver = rides[id].driver
          /\ "completed" \in trail'[id] /\ "started" \in trail'[id]
      <4>1. id \in DOMAIN rides' /\ rides'[id].driver = rides[id].driver
        BY <1>1, <1>7
      <4>2. rides'[id].type = "online"
        BY <1>1, <1>2, <1>7 DEF Online
      <4>3. trail'[id] = trail[id] \cup {"completed"}
        BY <1>1, <1>3, <1>5, <2>3
      <4> QED BY <1>2, <2>3, <4>1, <4>2, <4>3
    <3> HIDE DEF id
    <3> QED BY <3>1, <3>2, <3>3 DEF TaskInv, Online
  <2> QED BY <2>1, <2>2, <2>3
<1>9. ASSUME NEW i \in DOMAIN rides' PROVE RowInv(i)'
  <2>1. RowInv(i)
    BY <1>5 DEF Inv
  <2>2. CASE i # id
    BY <1>5, <2>1, <2>2 DEF RowInv, Online
  <2>3. CASE i = id
    <3>1. rides'[i] = row /\ trail'[i] = trail[i] \cup {row.status}
      BY <1>1, <1>5, <2>3
    <3> HIDE DEF id
    <3> QED BY <1>2, <1>3, <2>1, <2>3, <3>1 DEF RowInv, Online
  <2> QED BY <2>2, <2>3
<1>10. OneMatcher'
  <2> HIDE DEF k
  <2> QED BY <1>4, <1>5, <1>7 DEF Inv, OneMatcher, Matching, Online, TaskInv
<1> QED BY <1>5, <1>8, <1>9, <1>10 DEF Inv

LEMMA PayKeepsInv == Inv /\ (\E t \in Tasks : pay(t)) => Inv'
<1> SUFFICES ASSUME Inv, NEW t \in Tasks, pay(t) PROVE Inv'
  OBVIOUS
<1> DEFINE id == task[t].ride
           row == [rides[id] EXCEPT !.paymentStatus = "paid"]
<1>1. /\ TypeOK /\ TaskInv(task[t]) /\ task[t] \in Task /\ task[t].pc = "pay"
      /\ id \in DOMAIN rides /\ rides[id] \in RideRow /\ RowInv(id)
      /\ Online(id) /\ "completed" \in trail[id]
  BY DEF Inv, TypeOK, TaskInv, pay
<1>2. /\ row \in RideRow /\ row.type = rides[id].type /\ row.rider = rides[id].rider
      /\ row.driver = rides[id].driver /\ row.status = rides[id].status
  BY <1>1 DEF RideRow, PaymentStatus
<1>3. /\ TypeOK' /\ DOMAIN rides' = DOMAIN rides /\ DOMAIN trail = DOMAIN rides
      /\ \A i \in DOMAIN rides : rides'[i] = IF i = id THEN row ELSE rides[i]
      /\ \A i \in DOMAIN rides :
           trail'[i] = IF i = id THEN trail[i] \cup {row.status} ELSE trail[i]
      /\ \A s \in Tasks : task'[s] = IF s = t THEN IdleTask ELSE task[s]
  <2>1. Write(id, row) /\ Suspend(t, IdleTask) /\ UNCHANGED driverVars
    BY DEF pay, Paid, Finish
  <2> HIDE DEF row, id
  <2> QED BY <1>1, <1>2, <2>1, WriteEffect, IdleTaskInv
<1>4. UNCHANGED driverVars
  BY DEF pay
<1> HIDE DEF row
<1>5. \A i \in DOMAIN rides :
        /\ i \in DOMAIN rides'
        /\ rides'[i].type = rides[i].type
        /\ rides'[i].rider = rides[i].rider
        /\ rides'[i].driver = rides[i].driver
        /\ trail[i] \subseteq trail'[i]
  BY <1>2, <1>3
<1>6. ASSUME NEW s \in Tasks PROVE TaskInv(task[s])'
  <2>1. CASE s = t
    BY <2>1, <1>3, IdleTaskInv
  <2>2. CASE s # t
    <3>1. task'[s] = task[s] /\ TaskInv(task[s]) /\ task[s] \in Task
      BY <1>3, <2>2 DEF Inv, TypeOK
    <3>2. ASSUME NEW x \in Task, TaskInv(x) PROVE TaskInv(x)'
      BY <1>4, <1>5, <3>2, GrowthKeepsTaskInv
    <3> QED BY <3>1, <3>2
  <2> QED BY <2>1, <2>2
<1>7. ASSUME NEW i \in DOMAIN rides' PROVE RowInv(i)'
  <2>1. RowInv(i) /\ i \in DOMAIN rides
    BY <1>3 DEF Inv
  <2>2. trail'[i] = trail[i] /\ rides'[i].status = rides[i].status
    <3>1. CASE i # id
      BY <1>3, <2>1, <3>1
    <3>2. CASE i = id
      BY <1>2, <1>3, <2>1, <3>2 DEF RowInv
    <3> QED BY <3>1, <3>2
  <2>3. CASE i # id
    BY <1>3, <2>1, <2>3 DEF RowInv, Online
  <2>4. CASE i = id
    BY <1>1, <1>5, <2>1, <2>2, <2>4 DEF RowInv, Online
  <2> QED BY <2>3, <2>4
<1>8. OneMatcher'
  BY <1>1, <1>3, <1>5 DEF Inv, OneMatcher, Matching, Online, IdleTask, TaskInv
<1> QED BY <1>3, <1>6, <1>7, <1>8 DEF Inv

LEMMA CreateKeepsInv == Inv /\ (\E t \in Tasks : create(t)) => Inv'
<1> SUFFICES ASSUME Inv, NEW t \in Tasks, create(t) PROVE Inv'
  OBVIOUS
<1> DEFINE new == Len(rides) + 1
           row == NewRide(t)
           k == IF task[t].at = Null THEN MatchTask(new) ELSE IdleTask
<1>1. /\ TypeOK /\ TaskInv(task[t]) /\ task[t] \in Task /\ task[t].pc = "insert"
      /\ rides \in Seq(RideRow) /\ trail \in Seq(SUBSET RideStatus)
      /\ Len(trail) = Len(rides) /\ task \in [Tasks -> Task]
  BY DEF Inv, TypeOK, create
<1>2. /\ row \in RideRow /\ row.status = "requested" /\ row.driver = Null
      /\ row.paymentStatus = "unpaid"
      /\ row.type = "online" <=> task[t].at = Null
  <2>1. task[t].actor \in Riders /\ task[t].pickup \in Places
    BY <1>1 DEF TaskInv
  <2> QED BY <1>1, <2>1 DEF NewRide, RideRow, RideType, RideStatus, PaymentStatus, Task
<1>3. k \in Task
  <2>1. new \in Nat
    BY <1>1
  <2> QED BY <2>1, IdleTaskInv, MatchTaskType
<1>4. /\ rides' = Append(rides, row) /\ trail' = Append(trail, {"requested"})
      /\ task' = [task EXCEPT ![t] = k] /\ UNCHANGED driverVars
  BY DEF create, MatchedAtOnce, Suspend, Finish
<1> HIDE DEF row
<1>5. /\ DOMAIN rides = 1..Len(rides) /\ DOMAIN rides' = DOMAIN rides \cup {new}
      /\ rides'[new] = row /\ trail'[new] = {"requested"} /\ new \notin DOMAIN rides
      /\ \A i \in DOMAIN rides : rides'[i] = rides[i] /\ trail'[i] = trail[i]
      /\ rides' \in Seq(RideRow) /\ Len(trail') = Len(rides')
  BY <1>1, <1>2, <1>4
<1>6. trail' \in Seq(SUBSET RideStatus)
  <2>1. {"requested"} \in SUBSET RideStatus
    BY DEF RideStatus
  <2> QED BY <1>1, <1>4, <2>1
<1>7. TypeOK'
  BY <1>1, <1>3, <1>4, <1>5, <1>6 DEF TypeOK, DriverTypeOK, driverVars
<1>8. \A i \in DOMAIN rides :
        /\ i \in DOMAIN rides'
        /\ rides'[i].type = rides[i].type
        /\ rides'[i].rider = rides[i].rider
        /\ rides'[i].driver = rides[i].driver
        /\ trail[i] \subseteq trail'[i]
  BY <1>5
<1>9. \A s \in Tasks : task'[s] = IF s = t THEN k ELSE task[s]
  BY <1>1, <1>4
<1>10. /\ Matching(t)' => task'[t].ride = new
       /\ (TaskInv(task[t]))'
  <2>1. CASE task[t].at = Null
    <3>1. task'[t] = MatchTask(new)
      BY <1>9, <2>1
    <3>2. /\ task'[t].pc = "match" /\ task'[t].ride = new
      BY <3>1 DEF MatchTask, IdleTask
    <3> HIDE DEF new
    <3> QED BY <1>2, <1>5, <3>2 DEF TaskInv, Online
  <2>2. CASE task[t].at # Null
    BY <1>9, <2>2, IdleTaskInv DEF Matching, IdleTask
  <2> QED BY <2>1, <2>2
<1>11. ASSUME NEW s \in Tasks PROVE TaskInv(task[s])'
  <2>1. CASE s = t
    BY <2>1, <1>10
  <2>2. CASE s # t
    <3>1. task'[s] = task[s] /\ TaskInv(task[s]) /\ task[s] \in Task
      BY <1>9, <2>2 DEF Inv, TypeOK
    <3>2. ASSUME NEW x \in Task, TaskInv(x) PROVE TaskInv(x)'
      BY <1>4, <1>8, <3>2, GrowthKeepsTaskInv
    <3> QED BY <3>1, <3>2
  <2> QED BY <2>1, <2>2
<1>12. ASSUME NEW i \in DOMAIN rides' PROVE RowInv(i)'
  <2> HIDE DEF new
  <2>1. CASE i = new
    BY <1>2, <1>5, <2>1 DEF RowInv, Online
  <2>2. CASE i # new
    <3>1. i \in DOMAIN rides /\ RowInv(i)
      BY <1>5, <2>2 DEF Inv
    <3> QED BY <1>5, <3>1 DEF RowInv, Online
  <2> QED BY <2>1, <2>2
<1>13. OneMatcher'
  <2> HIDE DEF k, new
  <2>1. \A s \in Tasks : s # t /\ Matching(s)' =>
          /\ Matching(s) /\ task'[s].ride = task[s].ride
          /\ task[s].ride \in DOMAIN rides /\ task'[s].ride # new
    BY <1>5, <1>9 DEF Inv, Matching, TaskInv
  <2> QED BY <1>5, <1>8, <1>10, <2>1 DEF Inv, OneMatcher, Online
<1> QED BY <1>7, <1>11, <1>12, <1>13 DEF Inv

\* The drivers' updates change neither the rides nor the handlers.
LEMMA DriverStepType == DriverTypeOK /\ DriverNext => DriverTypeOK'
<1> SUFFICES ASSUME DriverTypeOK, DriverNext PROVE DriverTypeOK'
  OBVIOUS
<1> USE DEF DriverTypeOK
<1>1. ASSUME NEW c \in Calls, NEW u \in Update, Send(c, u) PROVE DriverTypeOK'
  BY <1>1 DEF Send
<1>2. ASSUME NEW c \in Calls, NEW d \in Drivers, NEW b \in BOOLEAN,
             updateStatus(c, d, b)
      PROVE  DriverTypeOK'
  <2> DEFINE u == [driver |-> d, isOnline |-> b, place |-> Null, at |-> clock]
  <2>1. u \in Update
    BY DEF Update
  <2> QED BY <1>1, <1>2, <2>1 DEF updateStatus
<1>3. ASSUME NEW c \in Calls, NEW d \in Drivers, NEW p \in Places,
             updateLocation(c, d, p)
      PROVE  DriverTypeOK'
  <2> DEFINE u == [driver |-> d, isOnline |-> FALSE, place |-> p, at |-> clock]
  <2>1. u \in Update
    BY DEF Update
  <2> QED BY <1>1, <1>3, <2>1 DEF updateLocation
<1>4. ASSUME NEW c \in Calls, land(c) PROVE DriverTypeOK'
  <2>1. pending[c] \in Update
    BY <1>4 DEF land
  <2>2. /\ pending[c].driver \in Drivers /\ pending[c].isOnline \in BOOLEAN
        /\ pending[c].place \in Places \cup {Null} /\ pending[c].at \in Date
    BY <2>1 DEF Update, Date
  <2>3. Updated(drivers[pending[c].driver], pending[c]) \in DriverRow
    <3>1. drivers[pending[c].driver] \in DriverRow
      BY <2>2
    <3>2. CASE pending[c].place = Null
      BY <2>2, <3>1, <3>2 DEF Updated, updateOnlineStatusByUserId, DriverRow
    <3>3. CASE pending[c].place # Null
      BY <2>2, <3>1, <3>3 DEF Updated, updateLocationByUserId, DriverRow
    <3> QED BY <3>2, <3>3
  <2>4. drivers' \in [Drivers -> DriverRow]
    BY <1>4, <2>2, <2>3 DEF land
  <2> QED BY <1>4, <2>4 DEF land
<1>5. ASSUME NEW c \in Calls, lose(c) PROVE DriverTypeOK'
  BY <1>5 DEF lose
<1>6. CASE Tick
  BY <1>6 DEF Tick
<1> QED BY <1>2, <1>3, <1>4, <1>5, <1>6 DEF DriverNext

LEMMA DriverStepKeepsInv == Inv /\ DriverNext /\ UNCHANGED rideVars => Inv'
<1> SUFFICES ASSUME Inv, DriverNext, UNCHANGED rideVars PROVE Inv'
  OBVIOUS
<1>1. rides' = rides /\ task' = task /\ trail' = trail
  BY DEF rideVars
<1>2. TypeOK'
  BY <1>1, DriverStepType DEF Inv, TypeOK
<1>3. (\A s \in Tasks : TaskInv(task[s]))'
  BY <1>1 DEF Inv, TaskInv, Online
<1>4. (\A id \in DOMAIN rides : RowInv(id))' /\ OneMatcher'
  BY <1>1 DEF Inv, RowInv, OneMatcher, Matching, Online
<1> QED BY <1>2, <1>3, <1>4 DEF Inv

LEMMA SweepKeepsInv == Inv /\ processDueScheduledRides => Inv'
<1> SUFFICES ASSUME Inv, processDueScheduledRides PROVE Inv'
  OBVIOUS
<1>1. PICK slots \in SUBSET {t \in Tasks : Idle(t)} \ {{}} :
        \E due \in Injection(slots, findDueScheduled(rides, clock)) :
          task' = [t \in Tasks |-> IF t \in slots THEN MatchTask(due[t]) ELSE task[t]]
  BY DEF processDueScheduledRides
<1>2. PICK due \in Injection(slots, findDueScheduled(rides, clock)) :
          task' = [t \in Tasks |-> IF t \in slots THEN MatchTask(due[t]) ELSE task[t]]
  BY <1>1
<1>3. \A t \in slots : /\ due[t] \in DOMAIN rides /\ due[t] \in Nat
                       /\ ~Online(due[t])
  BY <1>2 DEF Injection, findDueScheduled, Inv, TypeOK, Online
<1>4. UNCHANGED <<driverVars, tables>>
  BY DEF processDueScheduledRides
<1>5. \A t \in Tasks :
        /\ task'[t] \in Task
        /\ \/ task'[t] = task[t]
           \/ /\ task'[t].pc = "match" /\ task'[t].ride \in DOMAIN rides
              /\ ~Online(task'[t].ride)
  BY <1>2, <1>3, MatchTaskType DEF Inv, TypeOK
<1>6. TypeOK'
  BY <1>2, <1>4, <1>5 DEF Inv, TypeOK, DriverTypeOK, driverVars, tables
<1>7. ASSUME NEW t \in Tasks PROVE TaskInv(task[t])'
  BY <1>4, <1>5 DEF Inv, TaskInv, Online, driverVars, tables
<1>8. (\A id \in DOMAIN rides : RowInv(id))'
  BY <1>4 DEF Inv, RowInv, Online, tables
<1>9. OneMatcher'
  BY <1>4, <1>5 DEF Inv, OneMatcher, Matching, Online, tables
<1> QED BY <1>6, <1>7, <1>8, <1>9 DEF Inv

\* A request that has just been read and checked.
LEMMA RequestKeepsInv == Inv /\ (\E t \in Tasks : Request(t)) => Inv'
<1> SUFFICES ASSUME Inv, NEW t \in Tasks, Request(t) PROVE Inv'
  OBVIOUS
<1>1. /\ rides \in Seq(RideRow) /\ task[t] \in Task
      /\ \A id \in DOMAIN rides : id \in Nat /\ rides[id] \in RideRow /\ RowInv(id)
  BY DEF Inv, TypeOK
<1>2. ASSUME NEW r \in Riders, NEW p \in Places,
             NEW at \in Date \cup {Null}, NEW pc \in {"check", "insert"},
             Suspend(t, [IdleTask EXCEPT !.pc = pc, !.actor = r, !.pickup = p, !.at = at]),
             UNCHANGED <<driverVars, tables>>
      PROVE  Inv'
  <2> DEFINE k == [IdleTask EXCEPT !.pc = pc, !.actor = r, !.pickup = p, !.at = at]
  <2>1. k \in Task /\ k.pc = pc /\ k.actor = r /\ k.pickup = p
    BY <1>2 DEF IdleTask, Task, Steps
  <2> HIDE DEF k
  <2>2. TaskInv(k) /\ ~(k.pc \in {"match", "find", "assign"})
    BY <2>1 DEF TaskInv
  <2>3. Suspend(t, k)
    BY <1>2 DEF k
  <2> QED BY <1>2, <2>1, <2>2, <2>3, SuspendKeepsInv
<1>3. ASSUME NEW id \in DOMAIN rides, NEW actor \in Riders \cup Drivers,
             NEW to \in RideStatus, WriteStatus(t, id, actor, to),
             Online(id),
             \/ /\ to = "cancelled_by_rider"
                /\ actor = rides[id].rider
             \/ /\ to \in {"accepted", "started", "completed", "cancelled_by_driver"}
                /\ actor \in Drivers
                /\ actor = rides[id].driver,
             to = "accepted" => "assigned" \in trail[id],
             to = "started" => "accepted" \in trail[id],
             to = "completed" => "started" \in trail[id]
      PROVE  Inv'
  <2> DEFINE k == [IdleTask EXCEPT !.pc = "update", !.ride = id, !.actor = actor, !.to = to]
  <2>1. k \in Task /\ k.pc = "update" /\ k.ride = id /\ k.actor = actor /\ k.to = to
    BY <1>1 DEF IdleTask, Task, Steps
  <2>2. Suspend(t, k) /\ UNCHANGED <<driverVars, tables>>
    BY <1>3 DEF WriteStatus
  <2> HIDE DEF k
  <2>3. TaskInv(k)
    BY <1>3, <2>1 DEF TaskInv
  <2> QED BY <2>1, <2>2, <2>3, SuspendKeepsInv
<1>4. CASE \E r \in Riders, p \in Places : createOnlineRide(t, r, p)
  <2>1. PICK r \in Riders, p \in Places : createOnlineRide(t, r, p)
    BY <1>4
  <2>2. /\ Suspend(t, [IdleTask EXCEPT !.pc = "insert", !.actor = r, !.pickup = p, !.at = Null])
        /\ UNCHANGED <<driverVars, tables>>
    BY <2>1 DEF createOnlineRide
  <2> QED BY <2>2, <1>2
<1>5. CASE \E r \in Riders, p \in Places, at \in 0..MaxTime : createScheduledRide(t, r, p, at)
  <2>1. PICK r \in Riders, p \in Places, at \in 0..MaxTime : createScheduledRide(t, r, p, at)
    BY <1>5
  <2>2. at \in Date
    BY DEF Date
  <2> QED BY <1>2, <2>1, <2>2 DEF createScheduledRide
<1>6. ASSUME NEW id \in DOMAIN rides, NEW d \in Drivers,
             \/ driverAcceptRide(t, id, d)
             \/ driverStartRide(t, id, d)
             \/ driverCompleteRide(t, id, d)
             \/ driverCancelRide(t, id, d)
      PROVE  Inv'
  <2>1. RowInv(id)
    BY <1>1
  <2>2. CASE driverAcceptRide(t, id, d)
    <3>1. /\ Online(id) /\ d = rides[id].driver /\ "assigned" \in trail[id]
          /\ WriteStatus(t, id, d, "accepted")
      BY <2>1, <2>2 DEF driverAcceptRide, transitionStatusForDriver, loadOnlineRide,
                        ensureDriver, RowInv, Online
    <3> QED BY <1>3, <3>1 DEF RideStatus
  <2>3. CASE driverStartRide(t, id, d)
    <3>1. /\ Online(id) /\ d = rides[id].driver /\ "accepted" \in trail[id]
          /\ WriteStatus(t, id, d, "started")
      BY <2>1, <2>3 DEF driverStartRide, transitionStatusForDriver, loadOnlineRide,
                        ensureDriver, RowInv, Online
    <3> QED BY <1>3, <3>1 DEF RideStatus
  <2>4. CASE driverCompleteRide(t, id, d)
    <3>1. /\ Online(id) /\ d = rides[id].driver /\ "started" \in trail[id]
          /\ WriteStatus(t, id, d, "completed")
      BY <2>1, <2>4 DEF driverCompleteRide, transitionStatusForDriver, loadOnlineRide,
                        ensureDriver, RowInv, Online
    <3> QED BY <1>3, <3>1 DEF RideStatus
  <2>5. CASE driverCancelRide(t, id, d)
    <3>1. /\ Online(id) /\ d = rides[id].driver
          /\ WriteStatus(t, id, d, "cancelled_by_driver")
      BY <2>5 DEF driverCancelRide, loadOnlineRide, ensureDriver, Online
    <3> QED BY <1>3, <3>1 DEF RideStatus
  <2> QED BY <1>6, <2>2, <2>3, <2>4, <2>5
<1>7. CASE \E id \in DOMAIN rides, r \in Riders : riderCancelRide(t, id, r)
  <2>1. PICK id \in DOMAIN rides, r \in Riders : riderCancelRide(t, id, r)
    BY <1>7
  <2>2. /\ Online(id) /\ r = rides[id].rider
        /\ WriteStatus(t, id, r, "cancelled_by_rider")
    BY <2>1 DEF riderCancelRide, loadOnlineRide, Online
  <2> QED BY <1>3, <2>2 DEF RideStatus
<1> QED BY <1>4, <1>5, <1>6, <1>7 DEF Request

\* Steps that only read, and the loss of a handler.
LEMMA ReadStepKeepsInv ==
  ASSUME Inv, NEW t \in Tasks,
         \/ checkScheduled(t) \/ assignNearestDriver(t) \/ findDrivers(t) \/ Abort(t)
  PROVE  Inv'
<1>1. TaskInv(task[t]) /\ task[t] \in Task /\ UNCHANGED <<driverVars, tables>>
  BY DEF Inv, TypeOK, checkScheduled, assignNearestDriver, findDrivers, Abort
<1>2. TaskInv(IdleTask) /\ IdleTask \in Task /\ IdleTask.pc = "idle"
  BY IdleTaskInv DEF TaskInv, IdleTask
<1>3. CASE Finish(t)
  BY <1>1, <1>2, <1>3, SuspendKeepsInv DEF Finish
<1>4. CASE checkScheduled(t) /\ ~Finish(t)
  <2> DEFINE k == [task[t] EXCEPT !.pc = "insert"]
  <2>1. Suspend(t, k) /\ task[t].pc = "check"
    BY <1>4 DEF checkScheduled
  <2>2. k \in Task /\ k.pc = "insert" /\ k.actor = task[t].actor /\ k.pickup = task[t].pickup
    BY <1>1 DEF Task, Steps
  <2> HIDE DEF k
  <2>3. TaskInv(k)
    BY <1>1, <2>1, <2>2 DEF TaskInv
  <2> QED BY <1>1, <2>1, <2>2, <2>3, SuspendKeepsInv
<1>5. CASE assignNearestDriver(t)
  <2> DEFINE k == [task[t] EXCEPT !.pc = "find", !.since = clock - FreshWindow]
  <2>1. Suspend(t, k) /\ task[t].pc = "match"
    BY <1>5 DEF assignNearestDriver
  <2>2. clock - FreshWindow \in Int
    BY RideServiceAssumption DEF RideServiceAssumption, Inv, TypeOK, DriverTypeOK
  <2>3. k \in Task /\ k.pc = "find" /\ k.ride = task[t].ride /\ k.since = clock - FreshWindow
    BY <1>1, <2>2 DEF Task, Steps, Date
  <2> HIDE DEF k
  <2>4. TaskInv(k)
    BY <1>1, <2>1, <2>2, <2>3 DEF TaskInv
  <2> QED BY <1>1, <2>1, <2>3, <2>4, SuspendKeepsInv DEF Matching
<1>6. CASE findDrivers(t)
  <2> DEFINE found == Nearest(task[t].ride, task[t].since)
  <2>1. PICK d \in found \cup {Null} : Suspend(t, [task[t] EXCEPT !.pc = "assign", !.choice = d])
    BY <1>6 DEF findDrivers
  <2> DEFINE k == [task[t] EXCEPT !.pc = "assign", !.choice = d]
  <2>2. d # Null => d \in Drivers
    BY DEF Nearest, Candidates, findFreshOnlineDriversWithLocation
  <2>3. task[t].pc = "find"
    BY <1>6 DEF findDrivers
  <2> HIDE DEF found
  <2>4. /\ k \in Task /\ k.pc = "assign" /\ k.ride = task[t].ride
        /\ k.since = task[t].since /\ k.choice = d
    BY <1>1, <2>2 DEF Task, Steps
  <2>5. Suspend(t, k)
    BY <2>1
  <2> HIDE DEF k
  <2>6. TaskInv(k)
    BY <1>1, <2>2, <2>3, <2>4 DEF TaskInv
  <2> QED BY <1>1, <2>3, <2>4, <2>5, <2>6, SuspendKeepsInv DEF Matching
<1> QED BY <1>3, <1>4, <1>5, <1>6 DEF Abort

LEMMA StutterKeepsInv == Inv /\ UNCHANGED vars => Inv'
BY DEF Inv, vars, TypeOK, DriverTypeOK, TaskInv, RowInv, OneMatcher,
       Matching, Online

-----------------------------------------------------------------------------
LEMMA StepKeepsInv == Inv /\ [Next]_vars => Inv'
<1> SUFFICES ASSUME Inv, [Next]_vars PROVE Inv'
  OBVIOUS
<1>1. CASE DriverNext /\ UNCHANGED rideVars
  BY <1>1, DriverStepKeepsInv
<1>2. ASSUME NEW t \in Tasks, Request(t) PROVE Inv'
  BY <1>2, RequestKeepsInv
<1>3. ASSUME NEW t \in Tasks, Resume(t) PROVE Inv'
  BY <1>3, ReadStepKeepsInv, CreateKeepsInv, AssignKeepsInv, UpdateKeepsInv,
     PayKeepsInv DEF Resume
<1>4. ASSUME NEW t \in Tasks, Abort(t) PROVE Inv'
  BY <1>4, ReadStepKeepsInv
<1>5. CASE processDueScheduledRides
  BY <1>5, SweepKeepsInv
<1>6. CASE UNCHANGED vars
  BY <1>6, StutterKeepsInv
<1> QED BY <1>1, <1>2, <1>3, <1>4, <1>5, <1>6 DEF Next

\* Inv holds in every reachable state.
THEOREM Invariance == Spec => []Inv
BY InitInv, StepKeepsInv, PTL DEF Spec

\* The tables and the suspended handlers are well formed, for any constants.
THEOREM TypeCorrect == Spec => []TypeOK
<1>1. Inv => TypeOK
  BY DEF Inv
<1> QED BY <1>1, Invariance, PTL

\* No interleaving, failure or sweep makes an online ride skip a milestone.
THEOREM MilestonesAreInOrder == Spec => []MilestonesInOrder
<1>1. Inv => MilestonesInOrder
  BY DEF Inv, RowInv, MilestonesInOrder
<1> QED BY <1>1, Invariance, PTL

\* A payment is marked only on a ride whose completion was written.
THEOREM PaymentFollowsCompletion == Spec => []PaidOnlyAfterCompletion
<1>1. Inv => PaidOnlyAfterCompletion
  BY DEF Inv, RowInv, PaidOnlyAfterCompletion
<1> QED BY <1>1, Invariance, PTL

\* A ride has a driver exactly when it was assigned.
THEOREM DriverMeansAssigned == Spec => []DriverIffAssigned
<1>1. Inv => DriverIffAssigned
  BY DEF Inv, RowInv, DriverIffAssigned
<1> QED BY <1>1, Invariance, PTL

\* What ensureDriver and the rider check established before the await is true
\* when the UPDATE runs.
THEOREM OwnershipIsStable == Spec => []OwnershipHoldsAtWrite
<1>1. Inv => OwnershipHoldsAtWrite
  BY DEF Inv, TaskInv, OwnershipHoldsAtWrite, Online
<1> QED BY <1>1, Invariance, PTL

\* Nothing but the sweep ever touches a scheduled ride.
THEOREM ScheduledRidesStayUnserved == Spec => []ScheduledRideIsNeverServed
<1>1. Inv => ScheduledRideIsNeverServed
  BY DEF Inv, RowInv, ScheduledRideIsNeverServed
<1> QED BY <1>1, Invariance, PTL

-----------------------------------------------------------------------------
\* The steps that write to the two tables.
LEMMA OnlyWritersWrite ==
  ASSUME Next
  PROVE  \/ UNCHANGED tables
         \/ \E t \in Tasks : create(t) \/ assign(t) \/ update(t) \/ pay(t)
<1>1. ASSUME NEW t \in Tasks, Request(t) PROVE UNCHANGED tables
  <2>1. CASE \E r \in Riders, p \in Places : createOnlineRide(t, r, p)
    BY <2>1 DEF createOnlineRide
  <2>2. CASE \E r \in Riders, p \in Places, at \in 0..MaxTime :
                createScheduledRide(t, r, p, at)
    BY <2>2 DEF createScheduledRide
  <2>3. CASE \E i \in DOMAIN rides, d \in Drivers :
                \/ driverAcceptRide(t, i, d) \/ driverStartRide(t, i, d)
                \/ driverCompleteRide(t, i, d) \/ driverCancelRide(t, i, d)
    BY <2>3 DEF driverAcceptRide, driverStartRide, driverCompleteRide,
                driverCancelRide, transitionStatusForDriver, WriteStatus
  <2>4. CASE \E i \in DOMAIN rides, r \in Riders : riderCancelRide(t, i, r)
    BY <2>4 DEF riderCancelRide, WriteStatus
  <2> QED BY <1>1, <2>1, <2>2, <2>3, <2>4 DEF Request
<1>2. ASSUME NEW t \in Tasks, Resume(t)
      PROVE  UNCHANGED tables \/ create(t) \/ assign(t) \/ update(t) \/ pay(t)
  BY <1>2 DEF Resume, checkScheduled, assignNearestDriver, findDrivers
<1>3. ASSUME NEW t \in Tasks, Abort(t) PROVE UNCHANGED tables
  BY <1>3 DEF Abort
<1>4. CASE processDueScheduledRides
  BY <1>4 DEF processDueScheduledRides
<1>5. CASE UNCHANGED rideVars
  BY <1>5 DEF rideVars, tables
<1> QED BY <1>1, <1>2, <1>3, <1>4, <1>5 DEF Next

\* How a step changes a row that exists: not at all, or by the write of the
\* handler that was suspended on it.
LEMMA RowChange ==
  ASSUME Inv, Next, NEW id \in DOMAIN rides
  PROVE  \/ rides'[id] = rides[id]
         \/ \E t \in Tasks :
              /\ task[t].ride = id
              /\ \/ /\ task[t].pc = "assign"
                    /\ rides'[id] = Assigned(rides[id], task[t].choice)
                 \/ /\ task[t].pc = "update"
                    /\ rides'[id] = [rides[id] EXCEPT !.status = task[t].to]
                 \/ /\ task[t].pc = "pay"
                    /\ rides'[id] = [rides[id] EXCEPT !.paymentStatus = "paid"]
<1>1. rides \in Seq(RideRow)
  BY DEF Inv, TypeOK
<1>2. CASE rides' = rides
  BY <1>2
<1>3. ASSUME NEW t \in Tasks, create(t) PROVE rides'[id] = rides[id]
  BY <1>1, <1>3 DEF create
<1>4. ASSUME NEW t \in Tasks, NEW row, Write(task[t].ride, row)
      PROVE  \/ rides'[id] = rides[id]
             \/ task[t].ride = id /\ rides'[id] = row
  BY <1>1, <1>4 DEF Write
<1>5. CASE \E t \in Tasks : assign(t)
  BY <1>4, <1>5 DEF assign
<1>6. CASE \E t \in Tasks : update(t)
  BY <1>4, <1>6 DEF update
<1>7. CASE \E t \in Tasks : pay(t)
  BY <1>4, <1>7 DEF pay, Paid
<1> QED BY <1>2, <1>3, <1>5, <1>6, <1>7, OnlyWritersWrite DEF tables

\* No ride is deleted, and only create adds one.
LEMMA CreateGrows ==
  ASSUME Inv, Next
  PROVE  /\ \A id \in DOMAIN rides : id \in DOMAIN rides'
         /\ DOMAIN rides' # DOMAIN rides => \E t \in Tasks : create(t)
<1>1. rides \in Seq(RideRow)
  BY DEF Inv, TypeOK
<1>2. CASE \E t \in Tasks : create(t)
  BY <1>1, <1>2 DEF create
<1>3. CASE ~ \E t \in Tasks : create(t)
  <2>1. DOMAIN rides' = DOMAIN rides
    <3>1. ASSUME NEW t \in Tasks, assign(t) \/ update(t) \/ pay(t)
          PROVE  DOMAIN rides' = DOMAIN rides
      BY <1>1, <3>1 DEF assign, update, pay, Write
    <3> QED BY <1>3, <3>1, OnlyWritersWrite DEF tables
  <2> QED BY <1>3, <2>1
<1> QED BY <1>2, <1>3

\* The driver of an online ride is assigned once: nobody takes it over.
THEOREM DriverIsFixed == Spec => OnlineDriverFixed
<1>1. ASSUME Inv, Next, NEW id \in DOMAIN rides, Online(id), rides[id].driver # Null
      PROVE  rides'[id].driver = rides[id].driver
  <2>1. rides[id] \in RideRow
    BY <1>1 DEF Inv, TypeOK
  <2>2. \A t \in Tasks : task[t].ride = id => task[t].pc # "assign"
    BY <1>1 DEF Inv, TaskInv
  <2>3. /\ \A to : [rides[id] EXCEPT !.status = to].driver = rides[id].driver
        /\ [rides[id] EXCEPT !.paymentStatus = "paid"].driver = rides[id].driver
    BY <2>1 DEF RideRow
  <2>4. CASE rides'[id] = rides[id]
    BY <2>4
  <2>5. CASE \E t \in Tasks : rides'[id] = [rides[id] EXCEPT !.status = task[t].to]
    BY <2>3, <2>5
  <2>6. CASE rides'[id] = [rides[id] EXCEPT !.paymentStatus = "paid"]
    BY <2>3, <2>6
  <2> QED BY <1>1, <2>2, <2>4, <2>5, <2>6, RowChange
<1>2. Inv /\ [Next]_vars => [\A id \in DOMAIN rides :
          Online(id) /\ rides[id].driver # Null
              => rides'[id].driver = rides[id].driver]_vars
  BY <1>1
<1> QED BY <1>2, Invariance, PTL DEF Spec, OnlineDriverFixed
=============================================================================
