---------------------------- MODULE RunLifecycle ----------------------------
(***************************************************************************)
(* What the platform promises of a multi-agent run to whoever reads it     *)
(* back and to whoever is sent webhooks about it: it is created once, ends *)
(* once, with a reason and an output, stays as it ended, and is announced  *)
(* as it ended, at most once by each call.  MultiAgentRun is the           *)
(* mechanism, in which calls to start, stream and decide race each other.  *)
(***************************************************************************)
EXTENDS Naturals

CONSTANTS
    Run,
    Call,           \* whoever may announce a run
    NULL            \* no reason, no output yet

VARIABLES
    stage,          \* how far each run is
    result,         \* reason and output of each run
    announced       \* what was sent about it, and by which call

vars == <<stage, result, announced>>

\* Nobody aborts a run, and no rejection ends one.
Results == {"completed", "max-rounds-reached", "max-revisions-reached"} \X (Nat \ {0})

Init == /\ stage = [r \in Run |-> "absent"]
        /\ result = [r \in Run |-> <<NULL, NULL>>]
        /\ announced = [r \in Run |-> {}]

Create(r) == /\ stage[r] = "absent"
             /\ stage' = [stage EXCEPT ![r] = "running"]
             /\ UNCHANGED <<result, announced>>

\* Reason and output are written together, and for good.
End(r) == /\ stage[r] = "running"
          /\ stage' = [stage EXCEPT ![r] = "terminated"]
          /\ result'[r] \in Results
          /\ result' = [result EXCEPT ![r] = result'[r]]
          /\ UNCHANGED announced

\* A call that has not announced any run tells how this one ended.
Announce(r, c) ==
    /\ stage[r] = "terminated"
    /\ \A s \in Run : \A a \in announced[s] : a.by # c
    /\ announced' = [announced EXCEPT ![r] = @ \cup {[by |-> c, reason |-> result[r][1]]}]
    /\ UNCHANGED <<stage, result>>

Next == \E r \in Run : \/ Create(r) \/ End(r)
                       \/ \E c \in Call : Announce(r, c)

Spec == Init /\ [][Next]_vars
=============================================================================
