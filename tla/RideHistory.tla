---------------------------- MODULE RideHistory ----------------------------
(***************************************************************************)
(* RideService with history variables that say which handlers were         *)
(* overtaken: the row they checked, or the rows they found missing, have   *)
(* changed under them while they waited.  The code notices nothing of the  *)
(* kind, and these are the handlers that take a ride out of the lifecycle  *)
(* of README.md:58-60 or give a rider a second active ride.  The           *)
(* properties say that they are the only ones, and that of what a failed   *)
(* handler leaves undone nothing else is forgotten.                        *)
(***************************************************************************)
EXTENDS RideProperties

VARIABLES
    overtaken,  \* the suspended handlers whose check is out of date
    raced,      \* ids of the rides such a handler has created or changed
    dropped,    \* ids with "match" or "pay", for what a failure left undone
    heard       \* when each driver last sent an update, the stamp of that

history == <<overtaken, raced, dropped, heard>>
allVars == <<vars, history>>

\* The tasks that work on a ride they have read.
OnRide(t) == task[t].pc \in {"match", "find", "assign", "update", "pay"}

HistoryInit ==
    /\ Init
    /\ overtaken = {} /\ raced = {} /\ dropped = {}
    /\ heard = [d \in Drivers |-> Null]

Moves(t) == task'[t] # task[t]

\* The step gives another status to the ride that t has checked, or inserts a
\* ride that t has looked for in vain.
Overtakes(t) ==
    /\ ~Moves(t)
    /\ \/ /\ OnRide(t)
          /\ rides'[task[t].ride].status # rides[task[t].ride].status
       \/ /\ task[t].pc = "insert"
          /\ \E id \in DOMAIN rides' \ DOMAIN rides :
                /\ rides'[id].rider = task[t].actor
                /\ rides'[id].scheduledAt = task[t].at

\* t still works on what it worked on before the step.
GoesOn(t) == task'[t].pc # "idle" /\ task'[t].ride = task[t].ride

ChangedRides ==
    {id \in DOMAIN rides' : id \in DOMAIN rides => rides'[id] # rides[id]}

\* What handler t would still have done to its ride.  An UPDATE that finds the
\* row as it would leave it is not told from one that failed.
Undone(t) ==
    CASE Matching(t)         -> {<<task[t].ride, "match">>}
      [] task[t].pc = "pay"  -> {<<task[t].ride, "pay">>}
      [] OTHER               -> {}

\* Driver d sends an update of the status or of the position.
Reports(d) ==
    \E c \in Calls : pending[c] = NoUpdate /\ pending'[c].driver = d

Record ==
    /\ overtaken' = {t \in Tasks : Overtakes(t) \/ (t \in overtaken /\ GoesOn(t))}
    /\ raced' = IF \E t \in overtaken : Moves(t) THEN raced \cup ChangedRides
                                                  ELSE raced
    /\ dropped' = dropped \cup UNION {Undone(t) : t \in {u \in Tasks : Abort(u)}}
    /\ heard' = [d \in Drivers |-> IF Reports(d) THEN clock ELSE heard[d]]

HistoryNext == Next /\ Record

HistorySpec == HistoryInit /\ [][HistoryNext]_allVars

FairHistorySpec == HistorySpec /\ Fairness

-----------------------------------------------------------------------------
(* What overtaken handlers, and they alone, do to the documented lifecycle. *)

Ledger == [id \in DOMAIN rides |->
             [type |-> rides[id].type, status |-> rides[id].status,
              driver |-> rides[id].driver,
              paymentStatus |-> rides[id].paymentStatus]]

Lifecycle == INSTANCE RideLifecycle WITH ledger <- Ledger

\* README.md:58-60.  Every row moves along the documented transitions only,
\* whatever fails, except by the write of a handler whose check another write
\* has overtaken: no row is revived, skips a status, or changes its driver in
\* another way.
OnlyOvertakenLeaveLifecycle ==
    [][rides' # rides =>
          Lifecycle!LifecycleNext \/ \E t \in overtaken : Moves(t)]_Ledger

\* ride.ts:41, :91.  A rider has no two active rides for one time but those
\* that overtaken handlers have made or revived.
OneActiveUnlessRaced ==
    \A i, j \in DOMAIN rides \ raced :
        /\ rides[i].status \in ActiveStatuses /\ rides[j].status \in ActiveStatuses
        /\ rides[i].rider = rides[j].rider
        /\ rides[i].scheduledAt = rides[j].scheduledAt
        => i = j

\* ride.ts:311-317.  A ride that is paid ends completed, unless a cancellation
\* or another write overtook its completion.
PaidIsCompletedUnlessRaced ==
    \A id \in DOMAIN rides \ raced :
        rides[id].paymentStatus = "paid" => rides[id].status = "completed"

-----------------------------------------------------------------------------
(* Late updates of a driver's presence.                                    *)

\* README.md:45-47. A driver assigned by a match has sent an update since the
\* freshness window of the match began, in whatever order the UPDATEs of such
\* requests land or get lost.
AssignedDriverHeard ==
    \A t \in Tasks :
        task[t].pc = "assign" /\ task[t].choice # Null =>
            heard[task[t].choice] >= task[t].since

-----------------------------------------------------------------------------
(* What a failure leaves undone, and that nothing else is.                  *)

\* ride.ts:59-68.  An online ride in "requested" has a match under way, or it
\* had one that failed, and then no other handler ever matches it.
RequestedIsBeingMatched ==
    \A id \in DOMAIN rides :
        Online(id) /\ rides[id].status = "requested" =>
            ((\E t \in Tasks : task[t].ride = id /\ Matching(t))
                <=> <<id, "match">> \notin dropped)

\* ride.ts:311-317.  A completed ride that is not paid is about to be, or the
\* second UPDATE of driverCompleteRide failed.
UnpaidIsBeingPaid ==
    \A id \in DOMAIN rides :
        "completed" \in trail[id] /\ rides[id].paymentStatus = "unpaid" =>
            \/ \E t \in Tasks : task[t].ride = id /\ task[t].pc = "pay"
            \/ <<id, "pay">> \in dropped

\* ride.ts:126-146.  A match of the sweep that fails is only logged, and its ride
\* stays due: once handlers stop failing a later sweep serves it.  An online ride
\* has no such second chance.
DueRideRetried == <>[][\A t \in Tasks : ~Abort(t)]_vars => DueRideProcessed
=============================================================================
