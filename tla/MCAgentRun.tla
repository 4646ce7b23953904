---------------------------- MODULE MCAgentRun ----------------------------
(* Agent runs with the constants of the run below.                         *)
EXTENDS AgentRun

CONSTANTS q1, q2, o1, o2, c1

MCRequest == {q1, q2}
MCOrg == {o1, o2}
MCConversation == {c1}
\* not set, too small, the least and the greatest, too large
MCConfigured == {NULL, 0, 1, MaxLimit, MaxLimit + 1}
=============================================================================
