------------------------------ MODULE MCRide ------------------------------
(***************************************************************************)
(* Small instances of RideProperties for TLC.  Places lie on a line, so    *)
(* that a driver can be here, near or out of the radius.                   *)
(***************************************************************************)
EXTENDS RideProperties, TLC

CONSTANTS r1, r2, d1, d2, here, near, far

MCDistance ==
    LET At == (here :> 0) @@ (near :> 1) @@ (far :> 3)
    IN [pair \in Places \X Places |->
          IF At[pair[1]] > At[pair[2]] THEN At[pair[1]] - At[pair[2]]
                                       ELSE At[pair[2]] - At[pair[1]]]

\* Handlers, drivers and riders are interchangeable; for safety runs only.
MCSymmetry ==
    Permutations(Tasks) \cup Permutations(Calls)
        \cup Permutations(Drivers) \cup Permutations(Riders)
=============================================================================
