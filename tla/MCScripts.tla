------------------------------ MODULE MCScripts ------------------------------
(***************************************************************************)
(* Values of the constants for TLC: three of the four services.            *)
(***************************************************************************)
EXTENDS Scripts

CONSTANTS oracle, bridge, sequencer

Services == <<oracle, bridge, sequencer>>

=============================================================================
