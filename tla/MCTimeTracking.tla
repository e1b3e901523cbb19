--------------------------- MODULE MCTimeTracking ---------------------------
(* Two users, whose requests meet at one of the other's entries at most. *)
EXTENDS TimeTracking

CONSTANTS ana, bob

MCUsers == {ana, bob}
MCOneUser == {ana}
=============================================================================
