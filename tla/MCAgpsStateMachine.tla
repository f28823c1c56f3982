------------------------- MODULE MCAgpsStateMachine -------------------------
(* Model-checking values for AgpsStateMachine. *)
EXTENDS AgpsStateMachine, TLC

CONSTANTS i1, i2, i3

MCIds == {i1, i2, i3}
MCTypes == {"SUPL", "WIFI"}
=============================================================================
