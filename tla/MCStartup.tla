------------------------------ MODULE MCStartup ------------------------------
(* Startup for TLC. A liveness property is checked without symmetry.       *)
EXTENDS Startup

CONSTANTS i1, i2
=============================================================================
