---------------------------- MODULE MCFleetSleep ----------------------------
(* Small instances of FleetSleep for TLC. *)
EXTENDS FleetSleep
=============================================================================
