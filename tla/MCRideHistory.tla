--------------------------- MODULE MCRideHistory ---------------------------
(***************************************************************************)
(* The instances of MCRide for the properties of RideHistory.              *)
(***************************************************************************)
EXTENDS MCRide, RideHistory
=============================================================================
