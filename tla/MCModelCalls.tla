---------------------------- MODULE MCModelCalls ----------------------------
(* ModelCalls for TLC: a ceiling that the first charge reaches. A liveness *)
(* property is checked without symmetry.                                   *)
EXTENDS ModelCalls

MCCeilings == {[limit |-> 1, action |-> "block"]}
=============================================================================
