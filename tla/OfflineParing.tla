--------------------------- MODULE OfflineParing ---------------------------
(***************************************************************************)
(* Offline rides: the driver's generateOfflineParing (src/service/         *)
(* driver.ts), the rider's createOfflineRide (src/service/ride.ts) and the *)
(* queries of src/repo/offline-paring.ts they interleave on.  The module   *)
(* keeps the source's spelling of "pairing".                               *)
(*                                                                         *)
(* As in RideService, a task is a handler suspended on a database call:    *)
(*   "expire"  the UPDATE of expireOld                      driver.ts:50   *)
(*   "issue"   the INSERT of the new pairing                driver.ts:62   *)
(*   "lookup"  the SELECT of findActiveByCode               ride.ts:154    *)
(*   "record"  the INSERT of createOffline's transaction    ride.ts:175    *)
(*   "mark"    its UPDATE of the pairing and its COMMIT                    *)
(***************************************************************************)
EXTENDS Domain, FiniteSets

CONSTANTS
    Codes,         \* what generateCode may return; nothing makes a code unique
    Tasks,         \* handlers that can be suspended at the same time
    ExpiryTime,    \* config.OTP_EXPIRY_MINUTES
    MaxParings,    \* bound on the pairings, for model checking
    MaxTime,       \* bound on the clock, for model checking
    Faults         \* may a database call fail or the process die?

ASSUME OfflineParingAssumption ==
    /\ ExpiryTime \in Nat /\ MaxParings \in Nat /\ MaxTime \in Nat
    /\ Faults \in BOOLEAN
    /\ IsFiniteSet(Tasks)
    /\ Null \notin Codes

VARIABLES
    clock,      \* the wall clock that new Date() reads
    parings,    \* the "offline_pairings" table; a row's id is its index
    rides,      \* the offline rows of the "rides" table
    task        \* the suspended handlers

vars == <<clock, parings, rides, task>>

ParingRow ==
    [driver : Drivers, code : Codes, status : {"active", "used", "expired"},
     expiresAt : Nat, createdAt : Nat]

\* paring is auxiliary: the pairing the ride was recorded with.  The row keeps
\* its driver only.
OfflineRideRow ==
    [rider : Riders, driver : Drivers, type : {"offline"}, status : {"completed"},
     paymentStatus : {"paid"}, paring : Nat]

ParingTask ==
    [pc     : {"idle", "expire", "issue", "lookup", "record", "mark"},
     actor  : Riders \cup Drivers \cup {Null},
     now    : Nat,                       \* the clock the handler has read
     code   : Codes \cup {Null},
     paring : Nat]                       \* id of the pairing that was found

IdleTask == [pc |-> "idle", actor |-> Null, now |-> 0, code |-> Null, paring |-> 0]

Init ==
    /\ clock = 0
    /\ parings = <<>>
    /\ rides = <<>>
    /\ task = [t \in Tasks |-> IdleTask]

-----------------------------------------------------------------------------
Suspend(t, newTask) == task' = [task EXCEPT ![t] = newTask]

Finish(t) == Suspend(t, IdleTask)

Issuing == {t \in Tasks : task[t].pc \in {"expire", "issue"}}

\* The driver asks for a code.
generateOfflineParing(t, d) ==
    /\ task[t].pc = "idle"
    /\ Len(parings) + Cardinality(Issuing) < MaxParings
    /\ Suspend(t, [IdleTask EXCEPT !.pc = "expire", !.actor = d, !.now = clock])
    /\ UNCHANGED <<clock, parings, rides>>

\* Mutants: the status is not asked for; the comparison is off by one.
ExpiredBy_anyStatus(row, now) == row.expiresAt < now
ExpiredBy_tooEarly(row, now) == row.status = "active" /\ row.expiresAt <= now

\* The WHERE clause of expireOld.
ExpiredBy(row, now) == row.status = "active" /\ row.expiresAt < now

expireOld(t) ==
    /\ task[t].pc = "expire"
    /\ parings' = [id \in DOMAIN parings |->
                     IF ExpiredBy(parings[id], task[t].now)
                     THEN [parings[id] EXCEPT !.status = "expired"]
                     ELSE parings[id]]
    /\ Suspend(t, [task[t] EXCEPT !.pc = "issue"])
    /\ UNCHANGED <<clock, rides>>

\* createdAt is stamped before the INSERT runs, at a time not before now.
create(t) ==
    /\ task[t].pc = "issue"
    /\ \E code \in Codes, createdAt \in task[t].now .. clock :
         parings' = Append(parings,
           [driver |-> task[t].actor, code |-> code, status |-> "active",
            expiresAt |-> task[t].now + ExpiryTime, createdAt |-> createdAt])
    /\ Finish(t)
    /\ UNCHANGED <<clock, rides>>

\* A rider sends a code.
createOfflineRide(t, r, code) ==
    /\ task[t].pc = "idle"
    /\ Suspend(t, [IdleTask EXCEPT !.pc = "lookup", !.actor = r, !.code = code,
                                   !.now = clock])
    /\ UNCHANGED <<clock, parings, rides>>

\* Mutants: used pairings are found as well; so are those that have ended; so
\* are not those that end now.
findActiveByCode_evenUsed(code, now) ==
    {id \in DOMAIN parings :
        parings[id].code = code /\ parings[id].expiresAt >= now}
findActiveByCode_evenEnded(code, now) ==
    {id \in DOMAIN parings :
        parings[id].code = code /\ parings[id].status = "active"}
findActiveByCode_beforeEnd(code, now) ==
    {id \in DOMAIN parings :
        /\ parings[id].code = code
        /\ parings[id].status = "active"
        /\ parings[id].expiresAt > now}

\* ORDER BY createdAt DESC: among the newest, the database picks.
findActiveByCode(code, now) ==
    LET found == {id \in DOMAIN parings :
                    /\ parings[id].code = code
                    /\ parings[id].status = "active"
                    /\ parings[id].expiresAt >= now}
    IN {id \in found :
          \A other \in found : parings[other].createdAt <= parings[id].createdAt}

\* No pairing: the rider gets an error.
lookup(t) ==
    /\ task[t].pc = "lookup"
    /\ LET found == findActiveByCode(task[t].code, task[t].now) IN
         \/ found = {} /\ Finish(t)
         \/ \E id \in found :
              Suspend(t, [task[t] EXCEPT !.pc = "record", !.paring = id])
    /\ UNCHANGED <<clock, parings, rides>>

\* Mutant: a status the ENUM column does not have.
Used_misspelt(row) == [row EXCEPT !.status = "consumed"]

Used(row) == [row EXCEPT !.status = "used"]

\* The row of a handler that has found its pairing.
OfflineRide(t) ==
    [rider |-> task[t].actor, driver |-> parings[task[t].paring].driver,
     type |-> "offline", status |-> "completed", paymentStatus |-> "paid",
     paring |-> task[t].paring]

\* Mutant: the INSERT is not given the transaction, so everyone sees the ride.
insertRide_alone(t) ==
    /\ task[t].pc = "record"
    /\ rides' = Append(rides, OfflineRide(t))
    /\ Suspend(t, [task[t] EXCEPT !.pc = "mark"])
    /\ UNCHANGED <<clock, parings>>

\* The transaction's first statement; its ride is seen by nobody else.
insertRide(t) ==
    /\ task[t].pc = "record"
    /\ Suspend(t, [task[t] EXCEPT !.pc = "mark"])
    /\ UNCHANGED <<clock, parings, rides>>

\* UPDATE the pairing WHERE id, COMMIT.  The UPDATE does not ask whether the pairing
\* is still active.
createOffline(t) ==
    /\ task[t].pc = "mark"
    /\ rides' = Append(rides, OfflineRide(t))
    /\ parings' = [parings EXCEPT ![task[t].paring] = Used(@)]
    /\ Finish(t)
    /\ UNCHANGED clock

\* A call rejects or the process dies; an open transaction is rolled back.
Abort(t) ==
    /\ Faults
    /\ task[t].pc # "idle"
    /\ Finish(t)
    /\ UNCHANGED <<clock, parings, rides>>

Tick ==
    /\ clock < MaxTime
    /\ clock' = clock + 1
    /\ UNCHANGED <<parings, rides, task>>

Next ==
    \/ \E t \in Tasks :
         \/ \E d \in Drivers : generateOfflineParing(t, d)
         \/ \E r \in Riders, code \in Codes : createOfflineRide(t, r, code)
         \/ expireOld(t)
         \/ create(t)
         \/ lookup(t)
         \/ insertRide(t)
         \/ createOffline(t)
         \/ Abort(t)
    \/ Tick

Spec == Init /\ [][Next]_vars

-----------------------------------------------------------------------------
\* The table, the rides and the suspended handlers are well formed.
TypeOK ==
    /\ clock \in Nat
    /\ parings \in Seq(ParingRow)
    /\ rides \in Seq(OfflineRideRow)
    /\ task \in [Tasks -> ParingTask]

UsesOf(id) == {i \in DOMAIN rides : rides[i].paring = id}

\* Handlers that have found the pairing and not yet committed its ride.
HoldersOf(id) ==
    {t \in Tasks : task[t].pc \in {"record", "mark"} /\ task[t].paring = id}

\* repo/ride.ts:24-34.  The ride and the mark on its pairing appear together, though
\* they are two statements between which the process may die and others look, and
\* later calls of expireOld take neither away.
UsedIffRecorded ==
    \A id \in DOMAIN parings : parings[id].status = "used" <=> UsesOf(id) # {}

\* A code is used again only by handlers that found it before it was used: no
\* more of them than can overlap, and once only when none do.
ReuseNeedsOverlap ==
    \A id \in DOMAIN parings :
        Cardinality(UsesOf(id)) + Cardinality(HoldersOf(id)) <= Cardinality(Tasks)

\* repo/offline-paring.ts:46-51.  A pairing that a request could still use is not
\* expired, whatever old clock a handler read.
ExpiredIsOver ==
    \A id \in DOMAIN parings :
        parings[id].status = "expired" => parings[id].expiresAt < clock

\* service/ride.ts:154-157.  The transaction may turn an expired pairing into a used
\* one, but only for a request that came before the pairing's end.
RequestedInTime ==
    \A id \in DOMAIN parings : \A t \in HoldersOf(id) :
        task[t].now <= parings[id].expiresAt

\* The "<" of expireOld and the ">=" of findActiveByCode meet: whatever sweeps have
\* run, a request that comes now finds a pairing exactly when one with its code is
\* unused and has not ended.
UsableIsFound ==
    \A code \in Codes :
        findActiveByCode(code, clock) # {} <=>
          \E id \in DOMAIN parings :
             /\ parings[id].code = code
             /\ parings[id].status # "used"
             /\ parings[id].expiresAt >= clock

\* README.md:79.  "Backend validates paring, marks the code as used": one
\* code, one ride.
ParingUsedOnce ==
    \A i, j \in DOMAIN rides : rides[i].paring = rides[j].paring => i = j

Lifecycle == INSTANCE ParingLifecycle WITH
    ledger <- [id \in DOMAIN parings |-> [driver |-> parings[id].driver,
                                         status |-> parings[id].status]],
    records <- [i \in DOMAIN rides |-> [driver |-> rides[i].driver,
                                       paring |-> rides[i].paring]],
    Uses <- Cardinality(Tasks)

\* README.md:76-82.  A pairing is issued, may expire once and stays expired unless
\* a ride is recorded with it, and is spent on rides with the driver it was issued
\* to: on no more of them than handlers can overlap.
FollowsLifecycle == Lifecycle!LifecycleSpec
=============================================================================
