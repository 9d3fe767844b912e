------------------------------ MODULE MCParing ------------------------------
(* Small instances of OfflineParing for TLC. *)
EXTENDS OfflineParing, TLC

\* Tasks, drivers, riders and codes are interchangeable.
MCSymmetry ==
    Permutations(Tasks) \cup Permutations(Drivers)
      \cup Permutations(Riders) \cup Permutations(Codes)
=============================================================================
