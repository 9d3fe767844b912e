------------------------------ MODULE MCServer ------------------------------
(* Small instances of ServerLifecycle for TLC. *)
EXTENDS ServerLifecycle
=============================================================================
