-------------------------- MODULE WebhookDelivery --------------------------
(***************************************************************************)
(* What the durable webhook queue promises for one intended delivery (one  *)
(* event for one subscription), whoever carries it out and however often   *)
(* it is tried.  WebhookOutbox is the mechanism; it implements this        *)
(* module as long as a worker's pass is over before its lease is.          *)
(***************************************************************************)
CONSTANTS
    Occurrence,     \* things that are announced
    Subscription    \* the endpoints they are announced to

Entry == Occurrence \X Subscription

VARIABLES
    phase,          \* what the queue says of each intended delivery
    acked,          \* the endpoint answered 2xx to it at least once
    deleted         \* subscriptions that no longer exist

vars == <<phase, acked, deleted>>

Phases == {"unborn", "pending", "delivered", "abandoned", "removed"}

Init == /\ phase = [e \in Entry |-> "unborn"]
        /\ acked = [e \in Entry |-> FALSE]
        /\ deleted = {}

\* The intent is written down, once, and only for an endpoint that exists.
Accept(e) == /\ phase[e] = "unborn"
             /\ e[2] \notin deleted
             /\ phase' = [phase EXCEPT ![e] = "pending"]
             /\ UNCHANGED <<acked, deleted>>

\* The endpoint answers 2xx.  Only an undecided delivery is dialled, or one
\* whose subscription went away while the request was being made.
Reach(e) == /\ phase[e] \in {"pending", "removed"}
            /\ acked' = [acked EXCEPT ![e] = TRUE]
            /\ UNCHANGED <<phase, deleted>>

\* Success is recorded, and only of something the endpoint acknowledged.
Deliver(e) == /\ phase[e] = "pending"
              /\ acked[e]
              /\ phase' = [phase EXCEPT ![e] = "delivered"]
              /\ UNCHANGED <<acked, deleted>>

GiveUp(e) == /\ phase[e] = "pending"
             /\ phase' = [phase EXCEPT ![e] = "abandoned"]
             /\ UNCHANGED <<acked, deleted>>

\* An operator asks again for what was given up, and for nothing else.
Redeliver(e) == /\ phase[e] = "abandoned"
                /\ phase' = [phase EXCEPT ![e] = "pending"]
                /\ UNCHANGED <<acked, deleted>>

\* Delivered rows are forgotten after their retention, several at a time.
Forget(S) == /\ \A e \in S : phase[e] = "delivered"
             /\ phase' = [e \in Entry |-> IF e \in S THEN "removed" ELSE phase[e]]
             /\ UNCHANGED <<acked, deleted>>

\* A subscription is deleted, and what was queued for it goes with it.
Unsubscribe(s) ==
    /\ s \notin deleted
    /\ deleted' = deleted \cup {s}
    /\ phase' = [e \in Entry |-> IF e[2] = s /\ phase[e] # "unborn"
                                 THEN "removed" ELSE phase[e]]
    /\ UNCHANGED acked

Next == \/ \E e \in Entry : \/ Accept(e) \/ Reach(e) \/ Deliver(e)
                            \/ GiveUp(e) \/ Redeliver(e)
        \/ \E S \in SUBSET Entry : Forget(S)
        \/ \E s \in Subscription : Unsubscribe(s)

Spec == Init /\ [][Next]_vars
=============================================================================
