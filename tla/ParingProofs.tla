---------------------------- MODULE ParingProofs ----------------------------
(***************************************************************************)
(* OfflineParing keeps its invariants for any drivers, codes, handlers and *)
(* expiry.  Inv says what a suspended handler may rely on: its clock is    *)
(* not ahead of the wall clock, and the pairing it has found is a row,     *)
(* since no code deletes one.                                              *)
(***************************************************************************)
EXTENDS OfflineParing, FiniteSetTheorems, SequenceTheorems, TLAPS

\* What a handler holds that has found its pairing.
Holding == {"record", "mark"}

TaskInv(t) ==
    /\ task[t].now <= clock
    /\ task[t].pc \in {"expire", "issue"} => task[t].actor \in Drivers
    /\ task[t].pc \in {"lookup"} \cup Holding => task[t].actor \in Riders
    /\ task[t].pc \in Holding => task[t].paring \in DOMAIN parings

IssuedInThePast == \A id \in DOMAIN parings : parings[id].createdAt <= clock

Inv ==
    /\ TypeOK
    /\ \A t \in Tasks : TaskInv(t)
    /\ \A i \in DOMAIN rides : rides[i].paring \in DOMAIN parings
    /\ IssuedInThePast
    /\ UsedIffRecorded
    /\ ExpiredIsOver
    /\ RequestedInTime

-----------------------------------------------------------------------------
LEMMA InitInv == Init => Inv
BY EmptySeq DEF Init, Inv, TypeOK, TaskInv, IdleTask, ParingTask, UsedIffRecorded,
   ExpiredIsOver, RequestedInTime, IssuedInThePast, UsesOf, Holding

LEMMA Rows ==
  ASSUME TypeOK
  PROVE  /\ \A id \in DOMAIN parings : parings[id] \in ParingRow
         /\ \A i \in DOMAIN rides : rides[i] \in OfflineRideRow
         /\ DOMAIN parings = 1..Len(parings) /\ Len(parings) \in Nat
         /\ DOMAIN rides = 1..Len(rides) /\ Len(rides) \in Nat
BY ElementOfSeq, LenProperties DEF TypeOK

\* A handler that starts, finds its pairing, fails or ends writes no table.
LEMMA SuspendKeepsInv ==
  ASSUME Inv, NEW t \in Tasks, NEW newTask \in ParingTask, Suspend(t, newTask),
         UNCHANGED <<clock, parings, rides>>,
         newTask.now <= clock,
         newTask.pc \in {"expire", "issue"} => newTask.actor \in Drivers,
         newTask.pc \in {"lookup"} \cup Holding => newTask.actor \in Riders,
         newTask.pc \in Holding =>
           /\ newTask.paring \in DOMAIN parings
           /\ newTask.now <= parings[newTask.paring].expiresAt
  PROVE  Inv'
<1>1. TypeOK'
  BY DEF Inv, TypeOK, Suspend
<1>2. (\A s \in Tasks : TaskInv(s))'
  BY DEF Inv, TypeOK, Suspend, TaskInv
<1>3. RequestedInTime'
  BY DEF Inv, TypeOK, Suspend, RequestedInTime, HoldersOf, Holding
<1> QED BY <1>1, <1>2, <1>3 DEF Inv, UsedIffRecorded, ExpiredIsOver, UsesOf,
           IssuedInThePast

\* Handlers that hold what they held, and the ends of the pairings, are as before.
LEMMA HoldersInTime ==
  ASSUME RequestedInTime, DOMAIN parings \subseteq DOMAIN parings',
         \A id \in DOMAIN parings : parings'[id].expiresAt = parings[id].expiresAt,
         \A t \in Tasks : task'[t].pc \in Holding =>
           /\ task[t].pc \in Holding /\ task[t].paring \in DOMAIN parings
           /\ task'[t].paring = task[t].paring /\ task'[t].now = task[t].now
  PROVE  RequestedInTime'
BY DEF RequestedInTime, HoldersOf, Holding

LEMMA IdleState == IdleTask \in ParingTask /\ IdleTask.pc = "idle" /\ IdleTask.now = 0
BY DEF IdleTask, ParingTask

LEMMA StartKeepsInv ==
  ASSUME Inv, NEW t \in Tasks,
         \/ \E d \in Drivers : generateOfflineParing(t, d)
         \/ \E r \in Riders, code \in Codes : createOfflineRide(t, r, code)
  PROVE  Inv'
<1>0. clock \in Nat
  BY DEF Inv, TypeOK
<1>1. ASSUME NEW d \in Drivers, generateOfflineParing(t, d) PROVE Inv'
  <2> DEFINE state == [IdleTask EXCEPT !.pc = "expire", !.actor = d, !.now = clock]
  <2>1. state \in ParingTask /\ state.pc = "expire" /\ state.actor = d /\ state.now = clock
    BY <1>0 DEF IdleTask, ParingTask
  <2>2. Suspend(t, state) /\ UNCHANGED <<clock, parings, rides>>
    BY <1>1 DEF generateOfflineParing
  <2> HIDE DEF state
  <2> QED BY <1>0, <2>1, <2>2, SuspendKeepsInv DEF Holding
<1>2. ASSUME NEW r \in Riders, NEW code \in Codes, createOfflineRide(t, r, code) PROVE Inv'
  <2> DEFINE state == [IdleTask EXCEPT !.pc = "lookup", !.actor = r, !.code = code,
                                       !.now = clock]
  <2>1. state \in ParingTask /\ state.pc = "lookup" /\ state.actor = r /\ state.now = clock
    BY <1>0 DEF IdleTask, ParingTask
  <2>2. Suspend(t, state) /\ UNCHANGED <<clock, parings, rides>>
    BY <1>2 DEF createOfflineRide
  <2> HIDE DEF state
  <2> QED BY <1>0, <2>1, <2>2, SuspendKeepsInv DEF Holding
<1> QED BY <1>1, <1>2

LEMMA AbortKeepsInv == ASSUME Inv, NEW t \in Tasks, Abort(t) PROVE Inv'
BY IdleState, SuspendKeepsInv DEF Abort, Finish, Inv, TypeOK, Holding

\* Within its transaction a handler goes on with what it has found.
LEMMA InsertKeepsInv == ASSUME Inv, NEW t \in Tasks, insertRide(t) PROVE Inv'
<1> DEFINE state == [task[t] EXCEPT !.pc = "mark"]
<1>1. UNCHANGED <<clock, parings, rides>> /\ task[t] \in ParingTask /\ TaskInv(t)
      /\ task[t].pc = "record" /\ Suspend(t, state)
  BY DEF insertRide, Inv, TypeOK
<1>2. /\ state \in ParingTask /\ state.pc = "mark" /\ state.paring = task[t].paring
      /\ state.actor = task[t].actor /\ state.now = task[t].now
  BY <1>1 DEF ParingTask
<1>3. /\ task[t].paring \in DOMAIN parings
      /\ task[t].now <= parings[task[t].paring].expiresAt
  BY <1>1 DEF Inv, RequestedInTime, HoldersOf, TaskInv, Holding
<1> HIDE DEF state
<1> QED BY <1>1, <1>2, <1>3, SuspendKeepsInv DEF TaskInv, Holding

LEMMA LookupKeepsInv == ASSUME Inv, NEW t \in Tasks, lookup(t) PROVE Inv'
<1>1. UNCHANGED <<clock, parings, rides>> /\ clock \in Nat /\ task[t] \in ParingTask
      /\ TaskInv(t) /\ task[t].pc = "lookup"
  BY DEF lookup, Inv, TypeOK
<1>2. CASE Finish(t)
  BY <1>1, <1>2, IdleState, SuspendKeepsInv DEF Finish, Holding
<1>3. ASSUME NEW id \in findActiveByCode(task[t].code, task[t].now),
             Suspend(t, [task[t] EXCEPT !.pc = "record", !.paring = id])
      PROVE  Inv'
  <2> DEFINE state == [task[t] EXCEPT !.pc = "record", !.paring = id]
  <2>1. id \in DOMAIN parings /\ id \in Nat /\ parings[id].expiresAt >= task[t].now
    BY Rows DEF findActiveByCode, Inv
  <2>4. parings[id].expiresAt \in Nat /\ task[t].now \in Nat
    BY <1>1, <2>1, Rows DEF Inv, ParingRow, ParingTask
  <2>2. /\ state \in ParingTask /\ state.pc = "record" /\ state.paring = id
        /\ state.actor = task[t].actor /\ state.now = task[t].now
    BY <1>1, <2>1 DEF ParingTask
  <2>3. Suspend(t, state)
    BY <1>3
  <2> HIDE DEF state
  <2> QED BY <1>1, <2>1, <2>2, <2>3, <2>4, SuspendKeepsInv DEF TaskInv, Holding
<1> QED BY <1>2, <1>3 DEF lookup

\* What is marked expired was active, so not used, and has ended.
LEMMA ExpireKeepsInv == ASSUME Inv, NEW t \in Tasks, expireOld(t) PROVE Inv'
<1> DEFINE state == [task[t] EXCEPT !.pc = "issue"]
           swept(id) == IF ExpiredBy(parings[id], task[t].now)
                        THEN [parings[id] EXCEPT !.status = "expired"] ELSE parings[id]
<1>1. /\ clock' = clock /\ clock \in Nat /\ rides' = rides
      /\ task \in [Tasks -> ParingTask] /\ task[t].pc = "expire" /\ TaskInv(t)
      /\ parings' = [id \in DOMAIN parings |-> swept(id)]
      /\ task' = [task EXCEPT ![t] = state]
  BY DEF expireOld, Suspend, Inv, TypeOK
<1>2. \A id \in DOMAIN parings :
        /\ swept(id) \in ParingRow
        /\ swept(id).expiresAt = parings[id].expiresAt
        /\ swept(id).createdAt = parings[id].createdAt
        /\ swept(id).status = parings[id].status
             \/ /\ swept(id).status = "expired" /\ parings[id].status = "active"
                /\ parings[id].expiresAt < task[t].now
  BY Rows DEF Inv, ParingRow, ExpiredBy
<1>3. /\ state \in ParingTask /\ state.pc = "issue" /\ state.actor = task[t].actor
      /\ state.now = task[t].now
  BY <1>1 DEF ParingTask
<1> HIDE DEF state, swept
<1>4. parings' \in Seq(ParingRow) /\ DOMAIN parings' = DOMAIN parings
      /\ \A id \in DOMAIN parings : parings'[id] = swept(id)
  BY <1>1, <1>2, Rows, SeqDef DEF Inv
<1>5. TypeOK'
  BY <1>1, <1>3, <1>4 DEF Inv, TypeOK
<1>6. (\A s \in Tasks : TaskInv(s))'
  BY <1>1, <1>3, <1>4 DEF Inv, TaskInv, Holding
<1>7. UsedIffRecorded'
  BY <1>1, <1>2, <1>4 DEF Inv, UsedIffRecorded, UsesOf
<1>8. ExpiredIsOver'
  <2>1. task[t].now \in Nat /\ task[t].now <= clock
    BY <1>1 DEF TaskInv, ParingTask
  <2>2. \A id \in DOMAIN parings : parings[id].expiresAt \in Nat
    BY Rows DEF Inv, ParingRow
  <2> QED BY <1>1, <1>2, <1>4, <2>1, <2>2 DEF Inv, ExpiredIsOver
<1>9. RequestedInTime'
  <2>1. \A s \in Tasks : task'[s].pc \in Holding => task'[s] = task[s] /\ TaskInv(s)
    BY <1>1, <1>3 DEF Inv, Holding
  <2> QED BY <1>2, <1>4, <2>1, HoldersInTime DEF Inv, TaskInv
<1>10. IssuedInThePast'
  BY <1>1, <1>2, <1>4 DEF Inv, IssuedInThePast
<1> QED BY <1>1, <1>4, <1>5, <1>6, <1>7, <1>8, <1>9, <1>10 DEF Inv

\* A new pairing is active and no ride refers to it.
LEMMA CreateKeepsInv == ASSUME Inv, NEW t \in Tasks, create(t) PROVE Inv'
<1>1. PICK code \in Codes, createdAt \in task[t].now .. clock :
        parings' = Append(parings,
           [driver |-> task[t].actor, code |-> code, status |-> "active",
            expiresAt |-> task[t].now + ExpiryTime, createdAt |-> createdAt])
  BY DEF create
<1> DEFINE row == [driver |-> task[t].actor, code |-> code, status |-> "active",
                   expiresAt |-> task[t].now + ExpiryTime, createdAt |-> createdAt]
           n == Len(parings)
<1>2. /\ clock' = clock /\ clock \in Nat /\ rides' = rides
      /\ task \in [Tasks -> ParingTask] /\ task[t].pc = "issue" /\ TaskInv(t)
      /\ task' = [task EXCEPT ![t] = IdleTask]
  BY DEF create, Finish, Suspend, Inv, TypeOK
<1>3. row \in ParingRow /\ row.status = "active" /\ row.createdAt <= clock
  BY <1>2, OfflineParingAssumption DEF TaskInv, ParingTask, ParingRow
<1>4. parings' = Append(parings, row)
  BY <1>1
<1> HIDE DEF row
<1>5. /\ parings' \in Seq(ParingRow) /\ DOMAIN parings' = 1..(n + 1)
      /\ DOMAIN parings = 1..n /\ n \in Nat /\ parings'[n + 1] = row
      /\ \A id \in 1..n : parings'[id] = parings[id]
  BY <1>3, <1>4, Rows, AppendProperties DEF Inv, TypeOK
<1>6. TypeOK'
  BY <1>2, <1>5, IdleState DEF Inv, TypeOK
<1>7. (\A s \in Tasks : TaskInv(s))'
  BY <1>2, <1>5, IdleState DEF Inv, TaskInv, Holding
<1>8. UsedIffRecorded'
  BY <1>2, <1>3, <1>5 DEF Inv, UsedIffRecorded, UsesOf
<1>9. ExpiredIsOver'
  BY <1>2, <1>3, <1>5 DEF Inv, ExpiredIsOver
<1>10. RequestedInTime'
  <2>1. \A s \in Tasks : task'[s].pc \in Holding => task'[s] = task[s] /\ TaskInv(s)
    BY <1>2, IdleState DEF Inv, Holding
  <2> QED BY <1>5, <2>1, HoldersInTime DEF Inv, TaskInv
<1>11. IssuedInThePast'
  BY <1>2, <1>3, <1>5 DEF Inv, IssuedInThePast
<1> QED BY <1>2, <1>5, <1>6, <1>7, <1>8, <1>9, <1>10, <1>11 DEF Inv

\* The tables after the transaction of createOffline.
LEMMA Recorded ==
  ASSUME Inv, NEW t \in Tasks, createOffline(t)
  PROVE  LET p == task[t].paring
             n == Len(rides)
         IN /\ p \in DOMAIN parings /\ n \in Nat
            /\ DOMAIN rides = 1..n /\ DOMAIN rides' = 1..(n + 1)
            /\ rides' \in Seq(OfflineRideRow) /\ rides'[n + 1].paring = p
            /\ rides'[n + 1].driver = parings[p].driver
            /\ \A i \in 1..n : rides'[i] = rides[i]
            /\ parings' \in Seq(ParingRow) /\ DOMAIN parings' = DOMAIN parings
            /\ parings'[p].status = "used" /\ parings'[p].driver = parings[p].driver
            /\ parings'[p].expiresAt = parings[p].expiresAt
            /\ parings'[p].createdAt = parings[p].createdAt
            /\ \A id \in DOMAIN parings : id # p => parings'[id] = parings[id]
            /\ clock' = clock /\ task' = [task EXCEPT ![t] = IdleTask]
<1> DEFINE p == task[t].paring
           n == Len(rides)
           row == OfflineRide(t)
           used == Used(parings[p])
<1>1. p \in DOMAIN parings /\ p \in Nat /\ task[t].actor \in Riders
      /\ parings[p] \in ParingRow
  BY Rows DEF createOffline, Inv, TypeOK, TaskInv, ParingTask, Holding
<1>2. row \in OfflineRideRow /\ row.paring = p /\ row.driver = parings[p].driver
  BY <1>1 DEF OfflineRide, OfflineRideRow, ParingRow
<1>3. /\ used \in ParingRow /\ used.status = "used"
      /\ used.driver = parings[p].driver /\ used.expiresAt = parings[p].expiresAt
      /\ used.createdAt = parings[p].createdAt
  BY <1>1 DEF Used, ParingRow
<1>4. /\ rides' = Append(rides, row) /\ parings' = [parings EXCEPT ![p] = used]
      /\ clock' = clock /\ task' = [task EXCEPT ![t] = IdleTask]
  BY DEF createOffline, Finish, Suspend
<1> HIDE DEF row, used, p
<1>5. /\ rides' \in Seq(OfflineRideRow) /\ DOMAIN rides' = 1..(n + 1)
      /\ DOMAIN rides = 1..n /\ n \in Nat /\ rides'[n + 1] = row
      /\ \A i \in 1..n : rides'[i] = rides[i]
  BY <1>2, <1>4, Rows, AppendProperties DEF Inv, TypeOK
<1>6. parings' \in Seq(ParingRow) /\ DOMAIN parings' = DOMAIN parings
      /\ parings'[p] = used
      /\ \A id \in DOMAIN parings : id # p => parings'[id] = parings[id]
  BY <1>1, <1>3, <1>4, Rows, ExceptSeq DEF Inv, TypeOK
<1> QED BY <1>1, <1>2, <1>3, <1>4, <1>5, <1>6 DEF p

\* The ride and the mark on its pairing come together.
LEMMA CreateOfflineKeepsInv == ASSUME Inv, NEW t \in Tasks, createOffline(t) PROVE Inv'
<1> DEFINE p == task[t].paring
           n == Len(rides)
<1>1. /\ p \in DOMAIN parings /\ n \in Nat
      /\ DOMAIN rides = 1..n /\ DOMAIN rides' = 1..(n + 1)
      /\ rides' \in Seq(OfflineRideRow) /\ rides'[n + 1].paring = p
      /\ \A i \in 1..n : rides'[i] = rides[i]
      /\ parings' \in Seq(ParingRow) /\ DOMAIN parings' = DOMAIN parings
      /\ parings'[p].status = "used" /\ parings'[p].expiresAt = parings[p].expiresAt
      /\ parings'[p].createdAt = parings[p].createdAt
      /\ \A id \in DOMAIN parings : id # p => parings'[id] = parings[id]
      /\ clock' = clock /\ task' = [task EXCEPT ![t] = IdleTask]
  BY Recorded
<1> HIDE DEF p, n
<1>2. TypeOK'
  BY <1>1, IdleState DEF Inv, TypeOK
<1>3. (\A s \in Tasks : TaskInv(s))'
  BY <1>1, IdleState DEF Inv, TypeOK, TaskInv, Holding
<1>4. \A i \in DOMAIN rides' : rides'[i].paring \in DOMAIN parings'
  BY <1>1 DEF Inv
<1>5. UsedIffRecorded'
  <2> DEFINE uses(id) == {i \in DOMAIN rides' : rides'[i].paring = id}
  <2>1. n + 1 \in uses(p)
    BY <1>1
  <2>2. \A id \in DOMAIN parings : id # p => uses(id) = UsesOf(id)
    BY <1>1 DEF UsesOf
  <2>3. \A id \in DOMAIN parings' : parings'[id].status = "used" <=> uses(id) # {}
    <3> HIDE DEF uses
    <3> QED BY <1>1, <2>1, <2>2 DEF Inv, UsedIffRecorded
  <2> QED BY <2>3 DEF UsedIffRecorded, UsesOf
<1>6. ExpiredIsOver'
  BY <1>1 DEF Inv, ExpiredIsOver
<1>7. RequestedInTime'
  <2>1. \A s \in Tasks : task'[s].pc \in Holding => task'[s] = task[s] /\ TaskInv(s)
    BY <1>1, IdleState DEF Inv, TypeOK, Holding
  <2>2. \A id \in DOMAIN parings : parings'[id].expiresAt = parings[id].expiresAt
    BY <1>1
  <2> QED BY <1>1, <2>1, <2>2, HoldersInTime DEF Inv, TaskInv
<1>8. IssuedInThePast'
  BY <1>1 DEF Inv, IssuedInThePast
<1> QED BY <1>2, <1>3, <1>4, <1>5, <1>6, <1>7, <1>8 DEF Inv

LEMMA TickKeepsInv == ASSUME Inv, Tick PROVE Inv'
<1>1. /\ clock' = clock + 1 /\ clock \in Nat /\ UNCHANGED <<parings, rides, task>>
      /\ task \in [Tasks -> ParingTask]
  BY DEF Tick, Inv, TypeOK
<1>2. TypeOK'
  BY <1>1 DEF Inv, TypeOK
<1>3. (\A s \in Tasks : TaskInv(s))'
  BY <1>1 DEF Inv, TaskInv, ParingTask, Holding
<1>4. UsedIffRecorded'
  BY <1>1 DEF Inv, UsedIffRecorded, UsesOf
<1>5. ExpiredIsOver'
  <2>1. \A id \in DOMAIN parings : parings[id].expiresAt \in Nat
    BY Rows DEF Inv, ParingRow
  <2> QED BY <1>1, <2>1 DEF Inv, ExpiredIsOver
<1>6. RequestedInTime'
  BY <1>1 DEF Inv, RequestedInTime, HoldersOf
<1>7. IssuedInThePast'
  <2>1. \A id \in DOMAIN parings : parings[id].createdAt \in Nat
    BY Rows DEF Inv, ParingRow
  <2> QED BY <1>1, <2>1 DEF Inv, IssuedInThePast
<1> QED BY <1>1, <1>2, <1>3, <1>4, <1>5, <1>6, <1>7 DEF Inv

LEMMA NextKeepsInv == Inv /\ [Next]_vars => Inv'
<1> SUFFICES ASSUME Inv, [Next]_vars PROVE Inv'
  OBVIOUS
<1>1. CASE UNCHANGED vars
  BY <1>1 DEF Inv, TypeOK, TaskInv, UsedIffRecorded, UsesOf, ExpiredIsOver,
     RequestedInTime, HoldersOf, IssuedInThePast, vars
<1> QED BY <1>1, StartKeepsInv, ExpireKeepsInv, CreateKeepsInv, LookupKeepsInv,
           InsertKeepsInv, CreateOfflineKeepsInv, AbortKeepsInv, TickKeepsInv DEF Next

\* The inductive invariant.
THEOREM Invariance == Spec => []Inv
BY InitInv, NextKeepsInv, PTL DEF Spec

\* The table, the rides and the handlers are well formed.
THEOREM TypeCorrect == Spec => []TypeOK
<1>1. Inv => TypeOK
  BY DEF Inv
<1> QED BY <1>1, Invariance, PTL

\* repo/ride.ts:24-34.  A pairing is marked used exactly when a ride was recorded
\* with it, whatever expires or fails.
THEOREM RideAndMarkGoTogether == Spec => []UsedIffRecorded
<1>1. Inv => UsedIffRecorded
  BY DEF Inv
<1> QED BY <1>1, Invariance, PTL

\* repo/offline-paring.ts:46-51.  Only pairings that have ended are expired, however
\* old the clock of the handler that expires them.
THEOREM ExpiryIsNeverEarly == Spec => []ExpiredIsOver
<1>1. Inv => ExpiredIsOver
  BY DEF Inv
<1> QED BY <1>1, Invariance, PTL

\* service/ride.ts:154-157.  However long a request waits for its transaction, and
\* whoever expires its pairing meanwhile, it came before the pairing's end.
THEOREM LateRidesWereRequestedInTime == Spec => []RequestedInTime
<1>1. Inv => RequestedInTime
  BY DEF Inv
<1> QED BY <1>1, Invariance, PTL

-----------------------------------------------------------------------------
Bounded(id) ==
    Cardinality(UsesOf(id)) + Cardinality(HoldersOf(id)) <= Cardinality(Tasks)

LEMMA Finite ==
  ASSUME TypeOK, NEW id
  PROVE  /\ IsFiniteSet(UsesOf(id)) /\ Cardinality(UsesOf(id)) \in Nat
         /\ IsFiniteSet(HoldersOf(id)) /\ Cardinality(HoldersOf(id)) \in Nat
         /\ Cardinality(HoldersOf(id)) <= Cardinality(Tasks)
         /\ Cardinality(Tasks) \in Nat
<1>1. UsesOf(id) \in SUBSET (1..Len(rides)) /\ IsFiniteSet(1..Len(rides))
  BY Rows, FS_Interval DEF UsesOf
<1>2. HoldersOf(id) \in SUBSET Tasks /\ IsFiniteSet(Tasks)
  BY OfflineParingAssumption DEF HoldersOf
<1> QED BY <1>1, <1>2, FS_Subset, FS_CardinalityType

\* A pairing that no ride was recorded with has no more holders than handlers.
LEMMA UnusedIsBounded ==
  ASSUME NEW id, UsesOf(id)' = {}
  PROVE  Bounded(id)'
<1>1. HoldersOf(id)' \in SUBSET Tasks /\ IsFiniteSet(Tasks)
  BY OfflineParingAssumption DEF HoldersOf
<1>2. /\ Cardinality(HoldersOf(id)') <= Cardinality(Tasks)
      /\ Cardinality(HoldersOf(id)') \in Nat /\ Cardinality(Tasks) \in Nat
  BY <1>1, FS_Subset, FS_CardinalityType
<1>3. Cardinality(UsesOf(id)') = 0
  BY FS_EmptySet
<1> QED BY <1>2, <1>3 DEF Bounded

\* Only a lookup makes a handler hold a pairing.
NoNewHolder(id) ==
    \A t \in Tasks : task'[t].pc \in Holding /\ task'[t].paring = id =>
                     task[t].pc \in Holding /\ task[t].paring = id

LEMMA ReleaseHoldsNothing ==
  ASSUME TypeOK, NEW t \in Tasks, NEW newTask, Suspend(t, newTask),
         newTask.pc \notin Holding, NEW id
  PROVE  NoNewHolder(id)
BY DEF Suspend, NoNewHolder, TypeOK

LEMMA OnlyLookupHolds ==
  ASSUME TypeOK, NEW id, [Next]_vars, ~ \E t \in Tasks : lookup(t)
  PROVE  NoNewHolder(id)
<1>1. ASSUME NEW t \in Tasks, NEW d \in Drivers, generateOfflineParing(t, d)
      PROVE  NoNewHolder(id)
  BY <1>1, ReleaseHoldsNothing DEF generateOfflineParing, IdleTask, Holding
<1>2. ASSUME NEW t \in Tasks, NEW r \in Riders, NEW code \in Codes,
             createOfflineRide(t, r, code)
      PROVE  NoNewHolder(id)
  BY <1>2, ReleaseHoldsNothing DEF createOfflineRide, IdleTask, Holding
<1>3. ASSUME NEW t \in Tasks, expireOld(t) PROVE NoNewHolder(id)
  <2>1. task[t] \in ParingTask
    BY DEF TypeOK
  <2>2. [task[t] EXCEPT !.pc = "issue"].pc \notin Holding
    BY <2>1 DEF ParingTask, Holding
  <2>3. Suspend(t, [task[t] EXCEPT !.pc = "issue"])
    BY <1>3 DEF expireOld
  <2> QED BY <2>2, <2>3, ReleaseHoldsNothing
<1>4. ASSUME NEW t \in Tasks, create(t) \/ createOffline(t) \/ Abort(t)
      PROVE  NoNewHolder(id)
  BY <1>4, IdleState, ReleaseHoldsNothing DEF create, createOffline, Abort, Finish, Holding
<1>6. ASSUME NEW t \in Tasks, insertRide(t) PROVE NoNewHolder(id)
  BY <1>6 DEF insertRide, Suspend, NoNewHolder, Holding, TypeOK, ParingTask
<1>5. CASE UNCHANGED task
  BY <1>5 DEF NoNewHolder
<1> QED BY <1>1, <1>2, <1>3, <1>4, <1>5, <1>6 DEF Next, Tick, vars

\* Handlers that start, fail or end without a record leave the count no higher.
LEMMA FewerHolders ==
  ASSUME TypeOK, TypeOK', NEW id, Bounded(id),
         {i \in DOMAIN rides' : rides'[i].paring = id} = UsesOf(id),
         NoNewHolder(id)
  PROVE  Bounded(id)'
<1>1. HoldersOf(id)' \in SUBSET HoldersOf(id)
  BY DEF HoldersOf, NoNewHolder, Holding
<1>2. /\ Cardinality(HoldersOf(id)') <= Cardinality(HoldersOf(id))
      /\ Cardinality(HoldersOf(id)') \in Nat
  BY <1>1, Finite, FS_Subset, FS_CardinalityType
<1>3. UsesOf(id)' = UsesOf(id)
  BY DEF UsesOf
<1>4. /\ Cardinality(UsesOf(id)) \in Nat /\ Cardinality(HoldersOf(id)) \in Nat
      /\ Cardinality(Tasks) \in Nat
  BY Finite
<1> QED BY <1>2, <1>3, <1>4 DEF Bounded

\* The handler that records is one ride more and one holder less.
LEMMA RecordKeepsBound ==
  ASSUME Inv, Inv', NEW t \in Tasks, createOffline(t), NEW id \in DOMAIN parings,
         id = task[t].paring, Bounded(id)
  PROVE  Bounded(id)'
<1> DEFINE n == Len(rides)
<1>1. /\ n \in Nat /\ DOMAIN rides = 1..n /\ DOMAIN rides' = 1..(n + 1)
      /\ rides'[n + 1].paring = id /\ \A i \in 1..n : rides'[i] = rides[i]
      /\ task' = [task EXCEPT ![t] = IdleTask] /\ task[t].pc = "mark"
      /\ task \in [Tasks -> ParingTask]
  BY Recorded DEF createOffline, Inv, TypeOK
<1> HIDE DEF n
<1>2. UsesOf(id)' = UsesOf(id) \cup {n + 1} /\ n + 1 \notin UsesOf(id)
  BY <1>1 DEF UsesOf
<1>3. HoldersOf(id)' = HoldersOf(id) \ {t} /\ t \in HoldersOf(id)
  BY <1>1, IdleState DEF HoldersOf
<1>4. /\ IsFiniteSet(UsesOf(id)) /\ Cardinality(UsesOf(id)) \in Nat
      /\ IsFiniteSet(HoldersOf(id)) /\ Cardinality(HoldersOf(id)) \in Nat
      /\ Cardinality(Tasks) \in Nat
  BY Finite DEF Inv
<1>5. Cardinality(UsesOf(id) \cup {n + 1}) = Cardinality(UsesOf(id)) + 1
  BY <1>2, <1>4, FS_AddElement
<1>6. Cardinality(HoldersOf(id) \ {t}) = Cardinality(HoldersOf(id)) - 1
  BY <1>3, <1>4, FS_RemoveElement
<1> QED BY <1>2, <1>3, <1>4, <1>5, <1>6 DEF Bounded

LEMMA NextKeepsBound ==
  ASSUME Inv, Inv', [Next]_vars, ReuseNeedsOverlap
  PROVE  ReuseNeedsOverlap'
<1>1. TypeOK /\ TypeOK' /\ \A id \in DOMAIN parings : Bounded(id)
  BY DEF Inv, ReuseNeedsOverlap, Bounded
<1> SUFFICES ASSUME NEW id \in DOMAIN parings' PROVE Bounded(id)'
  BY DEF ReuseNeedsOverlap, Bounded
<1> DEFINE uses == {i \in DOMAIN rides' : rides'[i].paring = id}
<1>2. CASE \E t \in Tasks : lookup(t)
  <2>1. PICK t \in Tasks : lookup(t)
    BY <1>2
  <2>2. /\ UNCHANGED <<parings, rides>> /\ task \in [Tasks -> ParingTask]
        /\ id \in DOMAIN parings /\ uses = UsesOf(id) /\ UsesOf(id)' = UsesOf(id)
    BY <2>1 DEF lookup, Inv, TypeOK, UsesOf
  <2>3. CASE id \in findActiveByCode(task[t].code, task[t].now)
    <3>1. parings[id].status # "used"
      BY <2>3 DEF findActiveByCode
    <3>2. UsesOf(id)' = {}
      BY <2>2, <3>1 DEF Inv, UsedIffRecorded
    <3> QED BY <3>2, UnusedIsBounded
  <2>4. CASE id \notin findActiveByCode(task[t].code, task[t].now)
    <3>1. CASE Finish(t)
      BY <1>1, <2>2, <3>1, IdleState, ReleaseHoldsNothing, FewerHolders DEF Finish, Holding
    <3>2. ASSUME NEW other \in findActiveByCode(task[t].code, task[t].now),
                 Suspend(t, [task[t] EXCEPT !.pc = "record", !.paring = other])
          PROVE  Bounded(id)'
      <4>1. other # id /\ task[t] \in ParingTask
        BY <2>2, <2>4, <3>2
      <4>2. NoNewHolder(id)
        BY <2>2, <3>2, <4>1 DEF NoNewHolder, Suspend, ParingTask, Holding
      <4> QED BY <1>1, <2>2, <4>2, FewerHolders
    <3> QED BY <2>1, <3>1, <3>2 DEF lookup
  <2> QED BY <2>3, <2>4
<1>3. ASSUME NoNewHolder(id), NEW t \in Tasks, createOffline(t) PROVE Bounded(id)'
  <2>1. id \in DOMAIN parings
    BY <1>3, Recorded
  <2>2. CASE id = task[t].paring
    BY <1>1, <1>3, <2>1, <2>2, RecordKeepsBound
  <2>3. CASE id # task[t].paring
    <3>1. PICK n \in Nat : /\ DOMAIN rides = 1..n /\ DOMAIN rides' = 1..(n + 1)
                           /\ rides'[n + 1].paring = task[t].paring
                           /\ \A i \in 1..n : rides'[i] = rides[i]
      BY <1>3, Recorded
    <3>2. uses = UsesOf(id)
      BY <2>3, <3>1 DEF UsesOf
    <3> QED BY <1>1, <1>3, <2>1, <3>2, FewerHolders
  <2> QED BY <2>2, <2>3
<1>4. ASSUME NoNewHolder(id), rides' = rides PROVE Bounded(id)'
  <2>1. uses = UsesOf(id) /\ UsesOf(id)' = UsesOf(id)
    BY <1>4 DEF UsesOf
  <2>2. CASE id \in DOMAIN parings
    BY <1>1, <1>4, <2>1, <2>2, FewerHolders
  <2>3. CASE id \notin DOMAIN parings
    <3>1. UsesOf(id) = {}
      BY <2>3 DEF Inv, UsesOf
    <3> QED BY <2>1, <3>1, UnusedIsBounded
  <2> QED BY <2>2, <2>3
<1>5. rides' = rides \/ \E t \in Tasks : createOffline(t)
  BY DEF Next, vars, generateOfflineParing, createOfflineRide, expireOld, create,
     lookup, insertRide, Abort, Tick
<1> QED BY <1>1, <1>2, <1>3, <1>4, <1>5, OnlyLookupHolds

\* A code is good for as many rides as handlers overlap on it, for one when none do.
THEOREM ReuseTakesOverlap == Spec => []ReuseNeedsOverlap
<1>1. Init => ReuseNeedsOverlap
  BY DEF Init, ReuseNeedsOverlap
<1>2. Inv /\ Inv' /\ ReuseNeedsOverlap /\ [Next]_vars => ReuseNeedsOverlap'
  BY NextKeepsBound
<1> QED BY <1>1, <1>2, Invariance, PTL DEF Spec

-----------------------------------------------------------------------------
\* Some pairing is the newest: the times after it are the fewest.
LEMMA NewestExists ==
  ASSUME Inv, NEW ids \in SUBSET DOMAIN parings, ids # {}
  PROVE  \E id \in ids : \A other \in ids :
           parings[other].createdAt <= parings[id].createdAt
<1> DEFINE since(id) == parings[id].createdAt .. clock
           spans == {since(id) : id \in ids}
<1>1. /\ clock \in Nat
      /\ \A id \in ids : parings[id].createdAt \in Nat /\ parings[id].createdAt <= clock
  BY Rows DEF Inv, TypeOK, ParingRow, IssuedInThePast
<1>2. spans \subseteq FiniteSubsetsOf(Nat) /\ spans # {}
  <2>1. ASSUME NEW id \in ids PROVE since(id) \in SUBSET Nat /\ IsFiniteSet(since(id))
    <3>1. parings[id].createdAt \in Int /\ clock \in Int /\ since(id) \in SUBSET Nat
      BY <1>1
    <3> QED BY <3>1, FS_Interval
  <2> QED BY <2>1 DEF FiniteSubsetsOf
<1> HIDE DEF spans
<1>3. PICK span \in spans : \A other \in spans :
                               ~ (<<other, span>> \in StrictSubsetOrdering(Nat))
  BY <1>2, FS_StrictSubsetOrderingWellFounded, WFMin, Zenon
<1>4. PICK id \in ids : span = since(id)
  BY <1>3 DEF spans
<1>5. ASSUME NEW other \in ids, parings[other].createdAt > parings[id].createdAt
      PROVE  FALSE
  <2>1. since(other) \subseteq since(id) /\ since(id) \in SUBSET Nat
        /\ since(other) \in SUBSET Nat
    BY <1>1, <1>5
  <2>2. parings[id].createdAt \in since(id) /\ parings[id].createdAt \notin since(other)
    BY <1>1, <1>5
  <2>3. since(other) \in spans
    BY DEF spans
  <2> QED BY <1>3, <1>4, <2>1, <2>2, <2>3 DEF StrictSubsetOrdering
<1> QED BY <1>1, <1>5

\* The "<" of expireOld and the ">=" of findActiveByCode meet, whatever old clocks the
\* sweeps read: a request that comes now finds a pairing exactly when one is usable.
THEOREM UsablePairingsAreFound == Spec => []UsableIsFound
<1>1. ASSUME Inv, NEW code \in Codes, NEW id \in DOMAIN parings,
             parings[id].code = code, parings[id].status # "used",
             parings[id].expiresAt >= clock
      PROVE  findActiveByCode(code, clock) # {}
  <2> DEFINE found == {other \in DOMAIN parings :
                         /\ parings[other].code = code
                         /\ parings[other].status = "active"
                         /\ parings[other].expiresAt >= clock}
  <2>1. parings[id] \in ParingRow /\ clock \in Nat
    BY <1>1, Rows DEF Inv, TypeOK
  <2>2. id \in found
    BY <1>1, <2>1 DEF Inv, ExpiredIsOver, ParingRow
  <2>3. \E newest \in found : \A other \in found :
          parings[other].createdAt <= parings[newest].createdAt
    <3>1. found \in SUBSET DOMAIN parings /\ found # {}
      BY <2>2
    <3> HIDE DEF found
    <3> QED BY <1>1, <3>1, NewestExists
  <2> QED BY <2>3 DEF findActiveByCode
<1>2. Inv => UsableIsFound
  BY <1>1 DEF UsableIsFound, findActiveByCode
<1> QED BY <1>2, Invariance, PTL

-----------------------------------------------------------------------------
(* The tables as ParingLifecycle sees them. *)

Ledger(table) ==
    [id \in DOMAIN table |-> [driver |-> table[id].driver, status |-> table[id].status]]

Records(table) ==
    [i \in DOMAIN table |-> [driver |-> table[i].driver, paring |-> table[i].paring]]

LEMMA CreateIsIssue == ASSUME Inv, NEW t \in Tasks, create(t) PROVE Lifecycle!Issue
<1> DEFINE d == task[t].actor
           n == Len(parings)
<1>1. d \in Drivers /\ rides' = rides /\ parings \in Seq(ParingRow)
  BY DEF create, Inv, TaskInv, TypeOK
<1>2. PICK code \in Codes, createdAt \in task[t].now .. clock :
        parings' = Append(parings,
           [driver |-> d, code |-> code, status |-> "active",
            expiresAt |-> task[t].now + ExpiryTime, createdAt |-> createdAt])
  BY DEF create
<1> HIDE DEF d
<1>3. /\ DOMAIN parings = 1..n /\ n \in Nat /\ DOMAIN parings' = 1..(n + 1)
      /\ parings'[n + 1].driver = d /\ parings'[n + 1].status = "active"
      /\ \A id \in 1..n : parings'[id] = parings[id]
  BY <1>1, <1>2
<1>4. Ledger(parings) \in Seq([driver : Drivers, status : {"active", "used", "expired"}])
      /\ Len(Ledger(parings)) = n
  <2>1. \A id \in 1..n : parings[id] \in ParingRow
    BY <1>1, <1>3
  <2> QED BY <1>3, <2>1, SeqDef DEF Ledger, ParingRow
<1> HIDE DEF n
<1>5. Ledger(parings') = Append(Ledger(parings), [driver |-> d, status |-> "active"])
  BY <1>3, <1>4 DEF Ledger
<1> QED BY <1>1, <1>5 DEF Lifecycle!Issue, Ledger

LEMMA ExpireOldIsExpire ==
  ASSUME Inv, NEW t \in Tasks, expireOld(t),
         NEW ids, ids = {id \in DOMAIN parings : ExpiredBy(parings[id], task[t].now)}
  PROVE  ids \in SUBSET DOMAIN Ledger(parings) /\ Lifecycle!Expire(ids)
<1>1. rides' = rides /\ DOMAIN Ledger(parings) = DOMAIN parings
  BY DEF expireOld, Ledger
<1>2. /\ DOMAIN parings' = DOMAIN parings
      /\ \A id \in DOMAIN parings : /\ parings[id] \in ParingRow
                                    /\ parings'[id] = IF id \in ids
                                         THEN [parings[id] EXCEPT !.status = "expired"]
                                         ELSE parings[id]
  BY Rows DEF expireOld, Inv
<1>3. \A id \in ids : Ledger(parings)[id].status = "active"
  BY DEF ExpiredBy, Ledger
<1>4. Ledger(parings') = [id \in DOMAIN Ledger(parings) |->
                            IF id \in ids
                            THEN [Ledger(parings)[id] EXCEPT !.status = "expired"]
                            ELSE Ledger(parings)[id]]
  BY <1>1, <1>2 DEF Ledger, ParingRow
<1>5. Lifecycle!Expire(ids)
  BY <1>1, <1>3, <1>4 DEF Lifecycle!Expire, Ledger
<1>6. ids \in SUBSET DOMAIN Ledger(parings)
  BY <1>1
<1> QED BY <1>5, <1>6

\* ParingLifecycle counts as its user does.
LEMMA SameCount == ASSUME NEW S PROVE Lifecycle!Cardinality(S) = Cardinality(S)
BY DEF Lifecycle!Cardinality, Cardinality

\* The handler is one of those that hold its pairing, so there is a use left for it.
LEMMA CreateOfflineIsSpend ==
  ASSUME Inv, ReuseNeedsOverlap, NEW t \in Tasks, createOffline(t),
         NEW id, id = task[t].paring
  PROVE  id \in DOMAIN Ledger(parings) /\ Lifecycle!Spend(id)
<1> DEFINE n == Len(rides)
<1>1. /\ id \in DOMAIN parings /\ n \in Nat
      /\ DOMAIN rides = 1..n /\ DOMAIN rides' = 1..(n + 1)
      /\ rides'[n + 1].paring = id /\ rides'[n + 1].driver = parings[id].driver
      /\ \A i \in 1..n : rides'[i] = rides[i]
      /\ DOMAIN parings' = DOMAIN parings
      /\ parings'[id].status = "used" /\ parings'[id].driver = parings[id].driver
      /\ \A other \in DOMAIN parings : other # id => parings'[other] = parings[other]
  BY Recorded
<1>2. Cardinality({i \in DOMAIN Records(rides) : Records(rides)[i].paring = id})
        < Cardinality(Tasks)
  <2>1. {i \in DOMAIN Records(rides) : Records(rides)[i].paring = id} = UsesOf(id)
    BY DEF Records, UsesOf
  <2>2. t \in HoldersOf(id)
    BY DEF createOffline, HoldersOf
  <2>3. /\ Cardinality(UsesOf(id)) \in Nat /\ Cardinality(HoldersOf(id)) \in Nat
        /\ Cardinality(Tasks) \in Nat /\ IsFiniteSet(HoldersOf(id))
    BY Finite DEF Inv
  <2>4. Cardinality(HoldersOf(id)) # 0
    BY <2>2, <2>3, FS_EmptySet
  <2>5. Cardinality(UsesOf(id)) + Cardinality(HoldersOf(id)) <= Cardinality(Tasks)
    BY <1>1 DEF ReuseNeedsOverlap
  <2>6. Cardinality(UsesOf(id)) < Cardinality(Tasks)
    BY <2>3, <2>4, <2>5
  <2> QED BY <2>1, <2>6
<1>3. Len(Records(rides)) = n /\ Records(rides) \in Seq([driver : Drivers, paring : Nat])
  <2>1. \A i \in 1..n : rides[i] \in OfflineRideRow
    BY <1>1, Rows DEF Inv
  <2> QED BY <1>1, <2>1, SeqDef DEF Records, OfflineRideRow
<1> HIDE DEF n
<1>4. Records(rides') = Append(Records(rides), [driver |-> Ledger(parings)[id].driver,
                                                paring |-> id])
  BY <1>1, <1>3 DEF Records, Ledger
<1>5. Ledger(parings') = [Ledger(parings) EXCEPT ![id].status = "used"]
  BY <1>1 DEF Ledger
<1>6. Lifecycle!Cardinality({i \in DOMAIN Records(rides) : Records(rides)[i].paring = id})
        < Cardinality(Tasks)
  BY <1>2, SameCount
<1> QED BY <1>1, <1>4, <1>5, <1>6 DEF Lifecycle!Spend, Ledger, Records

\* README.md:76-82.  However handlers overlap, a pairing is issued, expired and spent
\* as the document says, but for the rides it is worth: as many as handlers.
THEOREM ImplementsLifecycle == Spec => FollowsLifecycle
<1>1. Init => Lifecycle!LifecycleInit
  BY DEF Init, Lifecycle!LifecycleInit
<1>2. Inv /\ ReuseNeedsOverlap /\ [Next]_vars
        => [Lifecycle!LifecycleNext]_<<Ledger(parings), Records(rides)>>
  <2> SUFFICES ASSUME Inv, ReuseNeedsOverlap, [Next]_vars
               PROVE  Lifecycle!LifecycleNext \/ UNCHANGED <<Ledger(parings), Records(rides)>>
    OBVIOUS
  <2>1. CASE UNCHANGED <<parings, rides>>
    BY <2>1 DEF Ledger, Records
  <2>2. ASSUME NEW t \in Tasks, create(t) PROVE Lifecycle!LifecycleNext
    BY <2>2, CreateIsIssue DEF Lifecycle!LifecycleNext
  <2>3. ASSUME NEW t \in Tasks, expireOld(t) PROVE Lifecycle!LifecycleNext
    <3>1. PICK ids : ids = {id \in DOMAIN parings : ExpiredBy(parings[id], task[t].now)}
      OBVIOUS
    <3> QED BY <2>3, <3>1, ExpireOldIsExpire DEF Lifecycle!LifecycleNext, Ledger
  <2>4. ASSUME NEW t \in Tasks, createOffline(t) PROVE Lifecycle!LifecycleNext
    <3>1. PICK id : id = task[t].paring
      OBVIOUS
    <3> QED BY <2>4, <3>1, CreateOfflineIsSpend DEF Lifecycle!LifecycleNext, Ledger
  <2>5. \/ UNCHANGED <<parings, rides>>
        \/ \E t \in Tasks : create(t) \/ expireOld(t) \/ createOffline(t)
    BY DEF Next, vars, generateOfflineParing, createOfflineRide, lookup,
       insertRide, Abort, Tick
  <2> QED BY <2>1, <2>2, <2>3, <2>4, <2>5
<1> QED BY <1>1, <1>2, Invariance, ReuseTakesOverlap, PTL
    DEF Spec, FollowsLifecycle, Lifecycle!LifecycleSpec, Ledger, Records
=============================================================================
