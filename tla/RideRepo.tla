------------------------------ MODULE RideRepo ------------------------------
(***************************************************************************)
(* src/repo/ride.ts: the queries on the "rides" table.  The table is a     *)
(* sequence of rows and a ride's auto-increment id is its index.  No code  *)
(* deletes a ride.                                                         *)
(***************************************************************************)
EXTENDS Domain

ActiveStatuses == {"requested", "assigned", "accepted", "started"}

\* Mutant: the IN list has only the first status.
findRequestedRideByRider(table, rider, at) ==
    {id \in DOMAIN table :
        /\ table[id].rider = rider
        /\ table[id].scheduledAt = at
        /\ table[id].status = "requested"}

\* Ids of the rides among which findOne picks.  The handlers test only
\* whether there is one.  at = Null asks for rides without scheduledAt.
findActiveRideByRider(table, rider, at) ==
    {id \in DOMAIN table :
        /\ table[id].rider = rider
        /\ table[id].scheduledAt = at
        /\ table[id].status \in ActiveStatuses}

\* Mutant: the type is not asked for, and no date counts as due.
findDueAny(table, now) ==
    {id \in DOMAIN table :
        /\ table[id].status = "requested"
        /\ table[id].scheduledAt = Null \/ table[id].scheduledAt <= now}

\* Mutant: the sweep takes only what falls due as it runs.
findDueScheduled_justNow(table, now) ==
    {id \in DOMAIN table :
        /\ table[id].type = "scheduled"
        /\ table[id].status = "requested"
        /\ table[id].scheduledAt = now}

findDueScheduled(table, now) ==
    {id \in DOMAIN table :
        /\ table[id].type = "scheduled"
        /\ table[id].status = "requested"
        /\ table[id].scheduledAt # Null
        /\ table[id].scheduledAt <= now}
=============================================================================
