----------------------------- MODULE DriverRepo -----------------------------
(***************************************************************************)
(* src/repo/driver.ts: each query on the "drivers" table as an operator on *)
(* a row, or on the table [Drivers -> DriverRow].  MySQL runs one          *)
(* statement at a time on a row, so each operator is one atomic step of    *)
(* the modules that use it.                                                *)
(***************************************************************************)
EXTENDS Domain

\* Driver.update({isOnline, lastPingAt: new Date()}, {where: {userId}})
updateOnlineStatusByUserId(row, isOnline, now) ==
    [row EXCEPT !.isOnline = isOnline, !.lastPingAt = now]

\* Driver.update({currentLat, currentLng, lastPingAt: new Date()}, ...)
updateLocationByUserId(row, place, now) ==
    [row EXCEPT !.place = place, !.lastPingAt = now, !.locatedAt = now]

\* Mutant: isOnline is trusted alone.
findOnlineDriversWithLocation(table, since) ==
    {d \in Drivers : table[d].isOnline /\ table[d].place # Null}

\* NULL compares as false in SQL, hence the guards on Null.
findFreshOnlineDriversWithLocation(table, since) ==
    {d \in Drivers :
        /\ table[d].isOnline
        /\ table[d].lastPingAt # Null
        /\ table[d].lastPingAt >= since
        /\ table[d].place # Null}
=============================================================================
