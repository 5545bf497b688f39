---------------------------- MODULE MCCoreEvents ----------------------------
(* CoreEvents for TLC. *)
EXTENDS CoreEvents
CONSTANTS tickCb, userCb
=============================================================================
