---------------------------- MODULE MCIngestion ----------------------------
(* Ingestion for TLC: calls and tenants are interchangeable.               *)
EXTENDS Ingestion, TLC

CONSTANTS o1, o2, x, y

MCSize == [c \in Content |-> IF c = x THEN 2 ELSE 1]

CallSymmetry == Permutations(Request) \cup Permutations(Org)
=============================================================================
