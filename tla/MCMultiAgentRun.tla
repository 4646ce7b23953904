-------------------------- MODULE MCMultiAgentRun --------------------------
(* MultiAgentRun for TLC.                                                  *)
EXTENDS MultiAgentRun, TLC

\* Tight in the rounds from the start, tight in the rounds later, tight in the
\* revisions.
SomeLimits == {<<1, 1>>, <<2, 2>>, <<3, 1>>}

RequestSymmetry == Permutations(Request)
CallSymmetry == RequestSymmetry \cup Permutations(Instance)
=============================================================================
