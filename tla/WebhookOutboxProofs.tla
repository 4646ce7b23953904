------------------------ MODULE WebhookOutboxProofs ------------------------
(***************************************************************************)
(* What holds of WebhookOutbox for every number of events, subscriptions   *)
(* and workers, and every value of the settings.                           *)
(***************************************************************************)
EXTENDS WebhookOutbox, FiniteSetTheorems, TLAPS

(***************************************************************************)
(* The exponential gap is an integer, whatever the settings.               *)
(***************************************************************************)
LEMMA DelayIsInt ==
    ASSUME NEW attempts \in Nat
    PROVE  NextAttemptDelay(attempts) \in Int
<1> DEFINE exponent == IF attempts > 1 THEN attempts - 1 ELSE 0
           delay == Backoff * 2^exponent
<1>1. exponent \in Int /\ exponent >= 0
  OBVIOUS
<1> HIDE DEF exponent
<1>2. delay \in Int
  BY <1>1, OutboxAssumption
<1> HIDE DEF delay
<1>3. (IF delay < MaxAttemptDelay THEN delay ELSE MaxAttemptDelay) \in Int
  BY <1>2, OutboxAssumption
<1> QED
  BY <1>3 DEF NextAttemptDelay, delay, exponent

(***************************************************************************)
(* While a worker has a job it is one of its claimed rows.                 *)
(***************************************************************************)
JobInv ==
    \A w \in Worker :
        /\ pc[w] \in {"post", "answered", "settle"} => job[w] \in batch[w]
        /\ pc[w] = "post" => verdict[w] = "none"
        /\ pc[w] = "answered" => verdict[w] \in {"delivered", "failed"}

LEMMA TypeInit == Init => TypeOK /\ JobInv
<1> SUFFICES ASSUME Init PROVE TypeOK /\ JobInv
  OBVIOUS
<1>1. Unborn \in Row
  BY DEF Unborn, Row, Statuses
<1>2. TypeOK
  BY <1>1, OutboxAssumption DEF Init, TypeOK, Verdicts
<1>3. JobInv
  BY DEF Init, JobInv
<1> QED
  BY <1>2, <1>3

(***************************************************************************)
(* Every step keeps the types, and the job among the claimed rows.         *)
(***************************************************************************)
LEMMA TypeStep == TypeOK /\ JobInv /\ [Next]_vars => TypeOK' /\ JobInv'
<1> SUFFICES ASSUME TypeOK, JobInv, [Next]_vars PROVE TypeOK' /\ JobInv'
  OBVIOUS
<1> USE OutboxAssumption
<1>0. Removed \in Row
  BY DEF Removed, Row, Statuses
<1>1. CASE UNCHANGED vars
  BY <1>1 DEF vars, TypeOK, JobInv
<1>2. CASE Tick
  BY <1>2 DEF Tick, queueVars, emitVars, workerVars, history, TypeOK, JobInv
<1>3. ASSUME NEW o \in Occurrence, LookUpSubscribers(o) PROVE TypeOK' /\ JobInv'
  BY <1>3 DEF LookUpSubscribers, queueVars, workerVars, history, TypeOK, JobInv
<1>4. ASSUME NEW o \in Occurrence, NEW s \in Subscription, Enqueue(o, s)
      PROVE  TypeOK' /\ JobInv'
  <2>1. row' \in [Entry -> Row]
    <3>1. CASE row' = row
      BY <3>1 DEF TypeOK
    <3>2. ASSUME NEW moment \in Moments,
                 row' = [row EXCEPT ![<<o, s>>] =
                          [status |-> "pending", attempts |-> 0, nextAt |-> moment,
                           leasedUntil |-> NULL, settledAt |-> 0]]
          PROVE  row' \in [Entry -> Row]
      BY <3>2 DEF TypeOK, Entry, Row, Statuses, Moments
    <3> QED
      BY <1>4, <3>1, <3>2 DEF Enqueue
  <2>2. QED
    BY <1>4, <2>1 DEF Enqueue, workerVars, history, TypeOK, JobInv
<1>5. ASSUME NEW s \in Subscription, SetActive(s) PROVE TypeOK' /\ JobInv'
  BY <1>5 DEF SetActive, emitVars, workerVars, history, TypeOK, JobInv
<1>6. ASSUME NEW s \in Subscription, DeleteSubscription(s) PROVE TypeOK' /\ JobInv'
  BY <1>6, <1>0 DEF DeleteSubscription, emitVars, workerVars, history, TypeOK, JobInv
<1>7. ASSUME NEW e \in Entry, Requeue(e) PROVE TypeOK' /\ JobInv'
  <2>1. row' \in [Entry -> Row]
    BY <1>7 DEF Requeue, TypeOK, Row, Statuses, Moments
  <2>2. QED
    BY <1>7, <2>1 DEF Requeue, emitVars, workerVars, history, TypeOK, JobInv
<1>8. ASSUME NEW w \in Worker, ClaimDue(w) PROVE TypeOK' /\ JobInv'
  <2>1. PICK moment \in Moments : \E S \in Batches(moment) :
          /\ row' = [e \in Entry |-> IF e \in S THEN LeasedRow(row[e], moment)
                                     ELSE row[e]]
          /\ batch' = [batch EXCEPT ![w] = {Snapshot(e) : e \in S}]
          /\ now' = [now EXCEPT ![w] = moment]
    BY <1>8 DEF ClaimDue
  <2>2. PICK S \in Batches(moment) :
          /\ row' = [e \in Entry |-> IF e \in S THEN LeasedRow(row[e], moment)
                                     ELSE row[e]]
          /\ batch' = [batch EXCEPT ![w] = {Snapshot(e) : e \in S}]
    BY <2>1
  <2>3. moment \in Int
    BY DEF Moments, TypeOK
  <2>4. S \subseteq Entry
    BY DEF Batches, Due
  <2>5. \A e \in Entry : LeasedRow(row[e], moment) \in Row /\ Snapshot(e) \in Claimed
    BY <2>3 DEF LeasedRow, Snapshot, Row, Claimed, TypeOK
  <2>6. row' \in [Entry -> Row]
    BY <2>2, <2>5 DEF TypeOK
  <2>7. batch' \in [Worker -> SUBSET Claimed]
    BY <2>2, <2>4, <2>5 DEF TypeOK
  <2>8. QED
    BY <1>8, <2>1, <2>3, <2>6, <2>7 DEF ClaimDue, emitVars, history, TypeOK, JobInv
<1>9. ASSUME NEW w \in Worker, LookUp(w) PROVE TypeOK' /\ JobInv'
  <2>1. PICK c \in batch[w] : job' = [job EXCEPT ![w] = c]
          /\ pc' = [pc EXCEPT ![w] = IF subs[c.id[2]] = "active" THEN "post" ELSE "settle"]
          /\ verdict' = [verdict EXCEPT ![w] =
                           IF subs[c.id[2]] = "active" THEN "none" ELSE subs[c.id[2]]]
    BY <1>9 DEF LookUp
  <2>2. c \in Claimed /\ subs[c.id[2]] \in {"active", "paused", "deleted"}
    BY DEF TypeOK, Claimed, Entry
  <2>3. QED
    BY <1>9, <2>1, <2>2 DEF LookUp, queueVars, emitVars, passVars, history,
                            TypeOK, JobInv, Verdicts
<1>10. ASSUME NEW w \in Worker, Post(w) PROVE TypeOK' /\ JobInv'
  <2>1. job[w] \in Claimed
    BY <1>10 DEF Post, JobInv, TypeOK
  <2>2. job[w].id \in Entry
    BY <2>1 DEF Claimed
  <2>3. /\ pc[w] = "post"
        /\ \/ /\ pc' = [pc EXCEPT ![w] = "answered"]
              /\ verdict' = [verdict EXCEPT ![w] = "delivered"]
              /\ acked' = [acked EXCEPT ![job[w].id] = TRUE]
           \/ /\ pc' = [pc EXCEPT ![w] = "answered"]
              /\ verdict' = [verdict EXCEPT ![w] = "failed"]
              /\ acked' = acked
        /\ UNCHANGED <<clock, queueVars, emitVars, passVars, batch, job, lastPrune,
                       settleLost>>
    BY <1>10 DEF Post
  <2>4. acked' \in [Entry -> BOOLEAN]
    BY <2>3 DEF TypeOK
  <2>5. QED
    BY <2>3, <2>4 DEF queueVars, emitVars, passVars, TypeOK, JobInv, Verdicts
<1>11. ASSUME NEW w \in Worker, RecordDelivery(w) PROVE TypeOK' /\ JobInv'
  <2>1. job[w] \in Claimed /\ verdict[w] \in {"delivered", "failed"}
    BY <1>11 DEF RecordDelivery, JobInv, TypeOK
  <2>2. job[w].id \in Entry /\ job[w].attempts \in Nat
    BY <2>1 DEF Claimed
  <2> DEFINE entry == [status |-> verdict[w], attempts |-> job[w].attempts + 1]
  <2>3. entry \in [status : {"delivered", "failed"}, attempts : Nat]
    BY <2>1, <2>2
  <2>4. log' \in {log, [log EXCEPT ![job[w].id] = @ \cup {entry}]}
    BY <1>11 DEF RecordDelivery
  <2> HIDE DEF entry
  <2>5. log' \in [Entry -> SUBSET [status : {"delivered", "failed"}, attempts : Nat]]
    BY <2>2, <2>3, <2>4 DEF TypeOK
  <2>6. QED
    BY <1>11, <2>5 DEF RecordDelivery, emitVars, passVars, history, TypeOK, JobInv
<1>12. ASSUME NEW w \in Worker, MarkDelivered(w) \/ Abandon(w) \/ Reschedule(w)
       PROVE  TypeOK' /\ JobInv'
  <2>1. job[w] \in Claimed
    BY <1>12 DEF MarkDelivered, Abandon, Reschedule, JobInv, TypeOK
  <2>2. job[w].id \in Entry /\ job[w].attempts \in Nat /\ job[w].attempts + 1 \in Nat
    BY <2>1 DEF Claimed
  <2>3. Counted(w) \in Nat
    BY <2>2 DEF Counted
  <2>4. NextAttemptDelay(job[w].attempts + 1) \in Int
    BY <2>2, DelayIsInt
  <2>5. row[job[w].id].nextAt \in Int
    BY <2>2 DEF TypeOK, Row
  <2>6. row' \in [Entry -> Row]
    <3>1. CASE MarkDelivered(w)
      <4> DEFINE new == [status |-> "delivered", attempts |-> Counted(w),
                         nextAt |-> row[job[w].id].nextAt, leasedUntil |-> NULL,
                         settledAt |-> clock]
      <4>1. new \in Row
        BY <2>3, <2>5 DEF Row, Statuses, TypeOK
      <4>2. row' = row \/ row' = [row EXCEPT ![job[w].id] = new]
        BY <3>1 DEF MarkDelivered, Update
      <4> QED
        BY <4>1, <4>2 DEF TypeOK
    <3>2. CASE Abandon(w)
      <4> DEFINE new == [status |-> "abandoned", attempts |-> Counted(w),
                         nextAt |-> row[job[w].id].nextAt, leasedUntil |-> NULL,
                         settledAt |-> 0]
      <4>1. new \in Row
        BY <2>3, <2>5 DEF Row, Statuses
      <4>2. row' = row \/ row' = [row EXCEPT ![job[w].id] = new]
        BY <3>2 DEF Abandon, Update
      <4> QED
        BY <4>1, <4>2 DEF TypeOK
    <3>3. CASE Reschedule(w)
      <4> DEFINE next == now[w] + NextAttemptDelay(job[w].attempts + 1)
                 new == [status |-> "pending", attempts |-> Counted(w),
                         nextAt |-> next, leasedUntil |-> NULL, settledAt |-> 0]
      <4>1. next \in Int
        BY <2>4 DEF TypeOK
      <4>2. row' = row \/ row' = [row EXCEPT ![job[w].id] = new]
        BY <3>3 DEF Reschedule, Update
      <4> HIDE DEF next
      <4>3. new \in Row
        BY <2>3, <4>1 DEF Row, Statuses
      <4> QED
        BY <4>2, <4>3 DEF TypeOK
    <3> QED
      BY <1>12, <3>1, <3>2, <3>3
  <2>7. AttemptOver(w)
        /\ UNCHANGED <<clock, subs, log, emitVars, now, started, lastPrune, history>>
    BY <1>12 DEF MarkDelivered, Abandon, Reschedule
  <2>8. QED
    BY <2>6, <2>7 DEF AttemptOver, emitVars, history, TypeOK, JobInv, Verdicts
<1>13. ASSUME NEW w \in Worker, AttemptFails(w) PROVE TypeOK' /\ JobInv'
  <2>1. settleLost' \in [Entry -> BOOLEAN]
    BY <1>13 DEF AttemptFails, LoseSettle, TypeOK, JobInv, Claimed
  <2>2. QED
    BY <1>13, <2>1 DEF AttemptFails, AttemptOver, queueVars, emitVars, TypeOK, JobInv,
                       Verdicts
<1>14. ASSUME NEW w \in Worker, FinishPass(w) PROVE TypeOK' /\ JobInv'
  BY <1>14, <1>0 DEF FinishPass, PassOver, emitVars, history, TypeOK, JobInv
<1>15. ASSUME NEW w \in Worker, Crash(w) PROVE TypeOK' /\ JobInv'
  <2>1. settleLost' \in [Entry -> BOOLEAN]
    BY <1>15 DEF Crash, LoseSettle, TypeOK
  <2>2. QED
    BY <1>15, <2>1 DEF Crash, queueVars, emitVars, TypeOK, JobInv, Verdicts
<1>16. ASSUME NEW w \in Worker, Start(w) PROVE TypeOK' /\ JobInv'
  BY <1>16 DEF Start, queueVars, emitVars, passVars, history, TypeOK, JobInv
<1> QED
  BY <1>1, <1>2, <1>3, <1>4, <1>5, <1>6, <1>7, <1>8, <1>9, <1>10, <1>11, <1>12,
     <1>13, <1>14, <1>15, <1>16 DEF Next, WorkerStep

(***************************************************************************)
(* The types hold throughout.                                              *)
(***************************************************************************)
THEOREM TypeCorrect == Spec => [](TypeOK /\ JobInv)
  BY TypeInit, TypeStep, PTL DEF Spec

-----------------------------------------------------------------------------
(* What the steps that write rows do, said once.                           *)

(***************************************************************************)
(* A claim leases a set of due rows and remembers exactly those.           *)
(***************************************************************************)
LEMMA LeaseOnly ==
    ASSUME NEW r, NEW moment
    PROVE  /\ LeasedRow(r, moment).status = r.status
           /\ LeasedRow(r, moment).attempts = r.attempts
           /\ LeasedRow(r, moment).leasedUntil = moment + Lease
  BY DEF LeasedRow

ClaimOf(w, moment, S) ==
    /\ moment \in Int
    /\ S \subseteq Due(moment)
    /\ \A e \in Entry : row'[e] = IF e \in S THEN LeasedRow(row[e], moment)
                                  ELSE row[e]
    /\ batch' = [batch EXCEPT ![w] = {Snapshot(e) : e \in S}]
    /\ now' = [now EXCEPT ![w] = moment]

LEMMA ClaimEffect ==
    ASSUME TypeOK, NEW w \in Worker, ClaimDue(w)
    PROVE  \E moment \in Moments, S \in SUBSET Entry : ClaimOf(w, moment, S)
<1>1. PICK moment \in Moments : \E S \in Batches(moment) :
        /\ row' = [e \in Entry |-> IF e \in S THEN LeasedRow(row[e], moment)
                                   ELSE row[e]]
        /\ batch' = [batch EXCEPT ![w] = {Snapshot(e) : e \in S}]
        /\ now' = [now EXCEPT ![w] = moment]
  BY DEF ClaimDue
<1>2. PICK S \in Batches(moment) :
        /\ row' = [e \in Entry |-> IF e \in S THEN LeasedRow(row[e], moment)
                                   ELSE row[e]]
        /\ batch' = [batch EXCEPT ![w] = {Snapshot(e) : e \in S}]
        /\ now' = [now EXCEPT ![w] = moment]
  BY <1>1
<1>3. moment \in Int
  BY DEF Moments, TypeOK
<1>4. S \subseteq Due(moment) /\ S \in SUBSET Entry
  BY DEF Batches, Due
<1>5. ClaimOf(w, moment, S)
  BY <1>2, <1>3, <1>4 DEF ClaimOf
<1> QED
  BY <1>4, <1>5

(***************************************************************************)
(* A settling step writes the worker's own row, if it is still there, and  *)
(* ends the attempt.                                                       *)
(***************************************************************************)
LEMMA SettleEffect ==
    ASSUME TypeOK, JobInv, NEW w \in Worker,
           MarkDelivered(w) \/ Abandon(w) \/ Reschedule(w)
    PROVE  LET e == job[w].id IN
           /\ pc[w] = "settle" /\ job[w] \in batch[w] /\ job[w] \in Claimed
           /\ e \in Entry
           /\ \A f \in Entry \ {e} : row'[f] = row[f]
           /\ row[e].status \in {"unborn", "removed"} => row'[e] = row[e]
           /\ row[e].status \notin {"unborn", "removed"} =>
                 /\ row'[e].attempts = Counted(w)
                 /\ row'[e].leasedUntil = NULL
                 /\ MarkDelivered(w) => row'[e].status = "delivered"
                 /\ Abandon(w) => row'[e].status = "abandoned"
                 /\ Reschedule(w) => row'[e].status = "pending"
           /\ AttemptOver(w)
           /\ UNCHANGED <<clock, subs, log, emitVars, now, started, lastPrune, history>>
<1> DEFINE e == job[w].id
<1>1. pc[w] = "settle" /\ job[w] \in batch[w]
  BY DEF MarkDelivered, Abandon, Reschedule, JobInv
<1>2. job[w] \in Claimed
  BY <1>1 DEF TypeOK
<1>3. e \in Entry
  BY <1>2 DEF Claimed
<1>4. AttemptOver(w)
      /\ UNCHANGED <<clock, subs, log, emitVars, now, started, lastPrune, history>>
  BY DEF MarkDelivered, Abandon, Reschedule
<1>5. \A f \in Entry \ {e} : row'[f] = row[f]
  BY DEF MarkDelivered, Abandon, Reschedule, Update, TypeOK
<1>6. row[e].status \in {"unborn", "removed"} => row'[e] = row[e]
  BY DEF MarkDelivered, Abandon, Reschedule, Update
<1>7. ASSUME row[e].status \notin {"unborn", "removed"}
      PROVE  /\ row'[e].attempts = Counted(w)
             /\ row'[e].leasedUntil = NULL
             /\ MarkDelivered(w) => row'[e].status = "delivered"
             /\ Abandon(w) => row'[e].status = "abandoned"
             /\ Reschedule(w) => row'[e].status = "pending"
  <2>1. CASE MarkDelivered(w)
    <3>1. ~Abandon(w) /\ ~Reschedule(w)
      BY <2>1 DEF MarkDelivered, Abandon, Reschedule, Exhausted
    <3> QED
      BY <1>3, <1>7, <2>1, <3>1 DEF MarkDelivered, Update, TypeOK
  <2>2. CASE Abandon(w)
    <3>1. ~MarkDelivered(w) /\ ~Reschedule(w)
      BY <2>2 DEF MarkDelivered, Abandon, Reschedule, Exhausted
    <3> QED
      BY <1>3, <1>7, <2>2, <3>1 DEF Abandon, Update, TypeOK
  <2>3. CASE Reschedule(w)
    <3>1. ~MarkDelivered(w) /\ ~Abandon(w)
      BY <2>3 DEF MarkDelivered, Abandon, Reschedule, Exhausted
    <3> QED
      BY <1>3, <1>7, <2>3, <3>1 DEF Reschedule, Update, TypeOK
  <2> QED
    BY <2>1, <2>2, <2>3
<1> QED
  BY <1>1, <1>2, <1>3, <1>4, <1>5, <1>6, <1>7

-----------------------------------------------------------------------------
(* The schedule, without any assumption on how long passes take.           *)

(***************************************************************************)
(* The inductive strengthening: the rows, what workers remember of the     *)
(* rows they claimed, and what the verdicts rest on.                       *)
(***************************************************************************)
ClaimsWithinSchedule ==
    \A w \in Worker : \A c \in batch[w] : c.attempts < MaxAttempts

VerdictInv ==
    \A w \in Worker : pc[w] \in {"answered", "settle"} =>
        /\ verdict[w] = "delivered" => acked[job[w].id]
        /\ verdict[w] = "deleted" => subs[job[w].id[2]] = "deleted"

\* Nothing is queued for a subscription that is gone.
GoneInv ==
    \A e \in Entry : subs[e[2]] = "deleted" => row[e].status \in {"unborn", "removed"}

ScheduleInv ==
    /\ AttemptsWithinSchedule
    /\ ClaimsWithinSchedule
    /\ DeliveredWasAcked
    /\ AbandonedForCause
    /\ VerdictInv
    /\ GoneInv

LEMMA ScheduleInit == Init => ScheduleInv
  BY OutboxAssumption DEF Init, Unborn, ScheduleInv, AttemptsWithinSchedule,
     ClaimsWithinSchedule, DeliveredWasAcked, AbandonedForCause, VerdictInv, GoneInv

LEMMA ScheduleStep ==
    TypeOK /\ JobInv /\ ScheduleInv /\ [Next]_vars => ScheduleInv'
<1> SUFFICES ASSUME TypeOK, JobInv, ScheduleInv, [Next]_vars PROVE ScheduleInv'
  OBVIOUS
<1> USE OutboxAssumption
<1> USE DEF ScheduleInv, AttemptsWithinSchedule, ClaimsWithinSchedule,
            DeliveredWasAcked, AbandonedForCause, VerdictInv, GoneInv
<1>1. CASE UNCHANGED vars
  BY <1>1 DEF vars
<1>2. CASE Tick
  BY <1>2 DEF Tick, queueVars, emitVars, workerVars, history
<1>3. ASSUME NEW o \in Occurrence, LookUpSubscribers(o) PROVE ScheduleInv'
  BY <1>3 DEF LookUpSubscribers, queueVars, workerVars, history
<1>4. ASSUME NEW o \in Occurrence, NEW s \in Subscription, Enqueue(o, s)
      PROVE  ScheduleInv'
  <2>1. \A e \in Entry : \/ row'[e] = row[e]
                         \/ /\ row'[e].status = "pending" /\ row'[e].attempts = 0
                            /\ subs[e[2]] # "deleted"
    <3>1. CASE row' = row
      BY <3>1
    <3>2. ASSUME NEW moment \in Moments, subs[s] # "deleted",
                 row' = [row EXCEPT ![<<o, s>>] =
                          [status |-> "pending", attempts |-> 0, nextAt |-> moment,
                           leasedUntil |-> NULL, settledAt |-> 0]]
          PROVE  \A e \in Entry : \/ row'[e] = row[e]
                                  \/ /\ row'[e].status = "pending" /\ row'[e].attempts = 0
                                     /\ subs[e[2]] # "deleted"
      BY <3>2 DEF TypeOK
    <3> QED
      BY <1>4, <3>1, <3>2 DEF Enqueue
  <2>2. QED
    BY <1>4, <2>1 DEF Enqueue, workerVars, history
<1>5. ASSUME NEW s \in Subscription, SetActive(s) PROVE ScheduleInv'
  <2>1. \A t \in Subscription : subs'[t] = "deleted" <=> subs[t] = "deleted"
    BY <1>5 DEF SetActive, TypeOK
  <2>2. /\ \A v \in Worker : pc[v] \in {"answered", "settle"} => job[v].id[2] \in Subscription
        /\ \A e \in Entry : e[2] \in Subscription
    BY DEF JobInv, TypeOK, Claimed, Entry
  <2>3. UNCHANGED <<row, acked, pc, batch, job, verdict>>
    BY <1>5 DEF SetActive, workerVars, history
  <2> QED
    BY <2>1, <2>2, <2>3
<1>6. ASSUME NEW s \in Subscription, DeleteSubscription(s) PROVE ScheduleInv'
  <2>1. /\ \A e \in Entry : \/ row'[e] = row[e] /\ (e[2] # s \/ row[e].status = "unborn")
                            \/ row'[e].status = "removed" /\ row'[e].attempts = 0
        /\ \A t \in Subscription : subs'[t] = IF t = s THEN "deleted" ELSE subs[t]
    BY <1>6 DEF DeleteSubscription, Removed, TypeOK
  <2>2. /\ \A v \in Worker : pc[v] \in {"answered", "settle"} => job[v].id[2] \in Subscription
        /\ \A e \in Entry : e[2] \in Subscription
    BY DEF JobInv, TypeOK, Claimed, Entry
  <2>3. UNCHANGED <<acked, pc, batch, job, verdict>>
    BY <1>6 DEF DeleteSubscription, workerVars, history
  <2> QED
    BY <2>1, <2>2, <2>3
<1>7. ASSUME NEW e \in Entry, Requeue(e) PROVE ScheduleInv'
  <2>1. \A f \in Entry : \/ row'[f] = row[f]
                         \/ /\ row'[f].status = "pending" /\ row'[f].attempts = 0
                            /\ subs[f[2]] # "deleted"
    BY <1>7 DEF Requeue, TypeOK
  <2>2. QED
    BY <1>7, <2>1 DEF Requeue, workerVars, history
<1>8. ASSUME NEW w \in Worker, ClaimDue(w) PROVE ScheduleInv'
  <2>1. PICK moment \in Moments, S \in SUBSET Entry : ClaimOf(w, moment, S)
    BY <1>8, ClaimEffect
  <2>2. \A e \in Entry : /\ row'[e].status = row[e].status
                         /\ row'[e].attempts = row[e].attempts
    <3>1. \A e \in Entry : row'[e] = row[e] \/ row'[e] = LeasedRow(row[e], moment)
      BY <2>1, Zenon DEF ClaimOf
    <3>2. TAKE e \in Entry
    <3>3. CASE row'[e] = row[e]
      BY <3>3
    <3>4. CASE row'[e] = LeasedRow(row[e], moment)
      BY <3>4, LeaseOnly
    <3> QED
      BY <3>1, <3>3, <3>4
  <2>3. \A e \in S : e \in Entry /\ Snapshot(e).attempts < MaxAttempts
    BY <2>1 DEF ClaimOf, Due, Snapshot
  <2>4. ClaimsWithinSchedule'
    BY <2>1, <2>3 DEF ClaimOf, TypeOK
  <2>5. VerdictInv'
    BY <1>8 DEF ClaimDue, history, TypeOK
  <2>6. subs' = subs /\ acked' = acked
    BY <1>8 DEF ClaimDue, history
  <2>7. QED
    BY <2>2, <2>4, <2>5, <2>6
<1>9. ASSUME NEW w \in Worker, LookUp(w) PROVE ScheduleInv'
  <2>1. PICK c \in batch[w] :
          /\ job' = [job EXCEPT ![w] = c]
          /\ pc' = [pc EXCEPT ![w] = IF subs[c.id[2]] = "active" THEN "post" ELSE "settle"]
          /\ verdict' = [verdict EXCEPT ![w] =
                           IF subs[c.id[2]] = "active" THEN "none" ELSE subs[c.id[2]]]
    BY <1>9 DEF LookUp
  <2>2. subs[c.id[2]] \in {"active", "paused", "deleted"}
    BY DEF TypeOK, Claimed, Entry
  <2>3. VerdictInv'
    BY <1>9, <2>1, <2>2 DEF LookUp, queueVars, history, TypeOK
  <2>4. QED
    BY <1>9, <2>3 DEF LookUp, queueVars, history
<1>10. ASSUME NEW w \in Worker, Post(w) PROVE ScheduleInv'
  <2>1. job[w] \in Claimed
    BY <1>10 DEF Post, JobInv, TypeOK
  <2>2. job[w].id \in Entry
    BY <2>1 DEF Claimed
  <2>3. /\ \/ /\ pc' = [pc EXCEPT ![w] = "answered"]
              /\ verdict' = [verdict EXCEPT ![w] = "delivered"]
              /\ acked' = [acked EXCEPT ![job[w].id] = TRUE]
           \/ /\ pc' = [pc EXCEPT ![w] = "answered"]
              /\ verdict' = [verdict EXCEPT ![w] = "failed"]
              /\ acked' = acked
        /\ UNCHANGED <<queueVars, batch, job>>
    BY <1>10 DEF Post
  <2>4. \A e \in Entry : acked[e] => acked'[e]
    BY <2>3 DEF TypeOK
  <2>5. \A v \in Worker : pc[v] \in {"answered", "settle"} => job[v].id \in Entry
    BY DEF JobInv, TypeOK, Claimed
  <2>6. VerdictInv'
    BY <2>2, <2>3, <2>4, <2>5 DEF queueVars, TypeOK
  <2>7. QED
    BY <2>3, <2>4, <2>6 DEF queueVars
<1>11. ASSUME NEW w \in Worker, RecordDelivery(w) PROVE ScheduleInv'
  BY <1>11 DEF RecordDelivery, emitVars, passVars, history, TypeOK
<1>12. ASSUME NEW w \in Worker, MarkDelivered(w) \/ Abandon(w) \/ Reschedule(w)
       PROVE  ScheduleInv'
  <2> DEFINE e == job[w].id
  <2>1. /\ pc[w] = "settle" /\ job[w] \in batch[w] /\ job[w] \in Claimed /\ e \in Entry
        /\ \A f \in Entry \ {e} : row'[f] = row[f]
        /\ row[e].status \in {"unborn", "removed"} => row'[e] = row[e]
        /\ AttemptOver(w)
        /\ UNCHANGED <<subs, history>>
    BY <1>12, SettleEffect
  <2>2. row[e].status \notin {"unborn", "removed"} =>
          /\ row'[e].attempts = Counted(w)
          /\ MarkDelivered(w) => row'[e].status = "delivered"
          /\ Abandon(w) => row'[e].status = "abandoned"
          /\ Reschedule(w) => row'[e].status = "pending"
    BY <1>12, SettleEffect
  <2>3. job[w].attempts \in Nat /\ job[w].attempts < MaxAttempts
    BY <2>1 DEF Claimed
  <2>4. Counted(w) \in Nat /\ Counted(w) <= MaxAttempts
    BY <2>3 DEF Counted
  <2>5. Reschedule(w) => Counted(w) < MaxAttempts
    BY <2>3 DEF Reschedule, Exhausted, Counted
  <2>6. Abandon(w) => \/ Counted(w) = MaxAttempts
                      \/ row[e].status \in {"unborn", "removed"}
    BY <2>1, <2>3, <2>4 DEF Abandon, Exhausted
  <2>7. MarkDelivered(w) => acked[e]
    BY <2>1 DEF MarkDelivered
  <2>8. AttemptsWithinSchedule'
    BY <1>12, <2>1, <2>2, <2>4, <2>5
  <2>9. DeliveredWasAcked' /\ AbandonedForCause' /\ GoneInv'
    BY <1>12, <2>1, <2>2, <2>6, <2>7 DEF history
  <2>10. ClaimsWithinSchedule' /\ VerdictInv'
    BY <2>1 DEF AttemptOver, history, TypeOK
  <2> QED
    BY <2>8, <2>9, <2>10
<1>13. ASSUME NEW w \in Worker, AttemptFails(w) PROVE ScheduleInv'
  <2>1. ClaimsWithinSchedule' /\ VerdictInv'
    <3>1. CASE pc[w] = "settle" /\ AttemptOver(w)
      BY <1>13, <3>1 DEF AttemptFails, AttemptOver, queueVars, TypeOK
    <3>2. CASE /\ pc[w] = "pass"
               /\ \E c \in batch[w] : batch' = [batch EXCEPT ![w] = @ \ {c}]
               /\ UNCHANGED <<pc, job, verdict>>
      BY <1>13, <3>2 DEF AttemptFails, queueVars, TypeOK
    <3> QED
      BY <1>13, <3>1, <3>2 DEF AttemptFails
  <2>2. QED
    BY <1>13, <2>1 DEF AttemptFails, queueVars
<1>14. ASSUME NEW w \in Worker, FinishPass(w) PROVE ScheduleInv'
  <2>1. \A e \in Entry : row'[e] = row[e] \/ row'[e] = Removed
    BY <1>14 DEF FinishPass, TypeOK
  <2>2. \A e \in Entry : \/ row'[e] = row[e]
                         \/ row'[e].status = "removed" /\ row'[e].attempts = 0
    BY <2>1 DEF Removed
  <2>3. VerdictInv'
    BY <1>14 DEF FinishPass, PassOver, history, TypeOK
  <2>4. QED
    BY <1>14, <2>2, <2>3 DEF FinishPass, history
<1>15. ASSUME NEW w \in Worker, Crash(w) PROVE ScheduleInv'
  BY <1>15 DEF Crash, queueVars, emitVars, TypeOK
<1>16. ASSUME NEW w \in Worker, Start(w) PROVE ScheduleInv'
  BY <1>16 DEF Start, queueVars, emitVars, passVars, history, TypeOK
<1> QED
  BY <1>1, <1>2, <1>3, <1>4, <1>5, <1>6, <1>7, <1>8, <1>9, <1>10, <1>11, <1>12,
     <1>13, <1>14, <1>15, <1>16 DEF Next, WorkerStep

(***************************************************************************)
(* Whatever stale workers write over each other, no row is scheduled       *)
(* beyond its last attempt.                                                *)
(***************************************************************************)
THEOREM ScheduleIsBounded == Spec => []AttemptsWithinSchedule
<1>1. ScheduleInv => AttemptsWithinSchedule
  BY DEF ScheduleInv
<1> QED
  BY TypeInit, TypeStep, ScheduleInit, ScheduleStep, <1>1, PTL DEF Spec

(***************************************************************************)
(* Whatever stale workers write over each other, delivered means the       *)
(* endpoint answered 2xx.                                                  *)
(***************************************************************************)
THEOREM DeliveredMeansAcked == Spec => []DeliveredWasAcked
<1>1. ScheduleInv => DeliveredWasAcked
  BY DEF ScheduleInv
<1> QED
  BY TypeInit, TypeStep, ScheduleInit, ScheduleStep, <1>1, PTL DEF Spec

(***************************************************************************)
(* No event is given up before its schedule is used.                       *)
(***************************************************************************)
THEOREM NothingGivenUpEarly == Spec => []AbandonedForCause
<1>1. ScheduleInv => AbandonedForCause
  BY DEF ScheduleInv
<1> QED
  BY TypeInit, TypeStep, ScheduleInit, ScheduleStep, <1>1, PTL DEF Spec

-----------------------------------------------------------------------------
(***************************************************************************)
(* What the lease buys, for every number of events, subscriptions and      *)
(* workers, when it covers a whole pass and the clocks' disagreement: one  *)
(* worker per row, no needless second delivery, and the promise of         *)
(* WebhookDelivery.                                                        *)
(***************************************************************************)

\* The operator's side of the bargain: batch x attempt, and twice the skew of
\* the instances' clocks, are shorter than the lease.
LeaseCoversPass == PassTicks + 2 * Skew < Lease

(***************************************************************************)
(* A worker has claimed rows only during a pass, and a pass is short.      *)
(***************************************************************************)
PassInv ==
    \A w \in Worker :
        /\ ~InPass(w) => batch[w] = {}
        /\ InPass(w) => /\ clock <= started[w] + PassTicks
                        /\ started[w] <= now[w] + Skew

(***************************************************************************)
(* A claimed row is pending under exactly this worker's lease, or gone.    *)
(***************************************************************************)
HeldInv ==
    \A w \in Worker : \A c \in batch[w] :
        \/ row[c.id].status = "removed"
        \/ row[c.id].status = "pending" /\ row[c.id].leasedUntil = now[w] + Lease

(***************************************************************************)
(* A row is claimed by one worker, once.                                   *)
(***************************************************************************)
OneClaim ==
    \A v, w \in Worker : \A c \in batch[v] : \A d \in batch[w] :
        c.id = d.id => v = w /\ c = d

(***************************************************************************)
(* Nothing has been written yet for what is still to be enqueued.          *)
(***************************************************************************)
FanInv ==
    \A o \in Occurrence :
        /\ o \notin dispatched => fan[o] = {}
        /\ \A s \in Subscription :
              o \notin dispatched \/ s \in fan[o] => row[<<o, s>>].status = "unborn"

(***************************************************************************)
(* Where an unrecorded 2xx may be: in the hands of the worker that got it, *)
(* or lost.                                                                *)
(***************************************************************************)
Settling(w) == pc[w] \in {"answered", "settle"} /\ verdict[w] = "delivered"

AckInv ==
    /\ \A e \in Entry : row[e].status = "unborn" => ~acked[e]
    /\ \A w \in Worker : \A c \in batch[w] :
          acked[c.id] => settleLost[c.id] \/ (Settling(w) /\ job[w] = c)
    /\ \A e \in Entry : acked[e] /\ row[e].status \in {"pending", "abandoned"} =>
          settleLost[e] \/ \E w \in Worker : Settling(w) /\ job[w].id = e

LeaseInv == PassInv /\ HeldInv /\ OneClaim /\ FanInv /\ AckInv

LEMMA PassTicksIsNat == PassTicks \in Nat
  BY OutboxAssumption DEF PassTicks

LEMMA LeaseInit == Init => LeaseInv
<1> SUFFICES ASSUME Init PROVE LeaseInv
  OBVIOUS
<1>1. PassInv /\ HeldInv /\ OneClaim
  BY DEF Init, InPass, PassInv, HeldInv, OneClaim
<1>2. \A e \in Entry : row[e].status = "unborn" /\ ~acked[e]
  BY DEF Init, Unborn
<1>3. FanInv
  BY <1>2 DEF Init, FanInv, Entry
<1>4. AckInv
  BY <1>2 DEF Init, AckInv
<1> QED
  BY <1>1, <1>3, <1>4 DEF LeaseInv

(***************************************************************************)
(* The crux: a row somebody holds is not due for anybody else, because its *)
(* lease has not run out on any clock.                                     *)
(***************************************************************************)
LEMMA HeldIsNotDue ==
    ASSUME LeaseCoversPass, TypeOK, PassInv, HeldInv,
           NEW w \in Worker, NEW c \in batch[w], NEW moment \in Moments
    PROVE  c.id \notin Due(moment)
<1>1. InPass(w)
  BY DEF PassInv
<1>2. clock <= started[w] + PassTicks /\ started[w] <= now[w] + Skew
  BY <1>1 DEF PassInv
<1>3. /\ moment \in Int /\ moment <= clock + Skew
      /\ clock \in Int /\ started[w] \in Int /\ now[w] \in Int
  BY OutboxAssumption DEF Moments, TypeOK
<1>4. now[w] + Lease \in Int /\ ~(now[w] + Lease <= moment)
  BY <1>2, <1>3, PassTicksIsNat, OutboxAssumption DEF LeaseCoversPass
<1>5. now[w] + Lease # NULL
  BY <1>4, OutboxAssumption
<1> QED
  BY <1>4, <1>5 DEF HeldInv, Due

(***************************************************************************)
(* Steps that leave the workers alone keep the invariant if they leave     *)
(* alone every row but those that were unborn, abandoned or delivered, or  *)
(* that they remove.                                                       *)
(***************************************************************************)
RowFrame(e) ==
    \/ row'[e] = row[e]
    \/ row'[e].status = "removed" /\ row[e].status # "unborn"
    \/ row[e].status \in {"unborn", "abandoned"} /\ row'[e].status = "pending"

LEMMA FrameKeepsHeld ==
    ASSUME TypeOK, HeldInv, UNCHANGED <<batch, now>>,
           \A e \in Entry : RowFrame(e)
    PROVE  HeldInv'
<1> SUFFICES ASSUME NEW w \in Worker, NEW c \in batch[w]
             PROVE  \/ row'[c.id].status = "removed"
                    \/ /\ row'[c.id].status = "pending"
                       /\ row'[c.id].leasedUntil = now[w] + Lease
  BY DEF HeldInv
<1>1. c.id \in Entry
  BY DEF TypeOK, Claimed
<1>2. RowFrame(c.id)
  BY <1>1
<1> QED
  BY <1>2 DEF HeldInv, RowFrame

LEMMA FrameKeepsAck ==
    ASSUME TypeOK, AckInv, UNCHANGED <<pc, batch, job, verdict, acked, settleLost>>,
           \A e \in Entry : RowFrame(e)
    PROVE  AckInv'
<1>1. \A e \in Entry : row'[e].status = "unborn" => row[e].status = "unborn"
  BY DEF RowFrame
<1>2. \A e \in Entry : row'[e].status \in {"pending", "abandoned"} =>
         row[e].status \in {"pending", "abandoned", "unborn"}
  BY DEF RowFrame
<1>3. \A w \in Worker : Settling(w)' = Settling(w)
  BY DEF Settling
<1> QED
  BY <1>1, <1>2, <1>3 DEF AckInv

LEMMA LeaseStep ==
    ASSUME LeaseCoversPass, TypeOK, TypeOK', JobInv, LeaseInv, [Next]_vars
    PROVE  LeaseInv'
<1> USE DEF LeaseInv
<1>1. CASE UNCHANGED vars
  BY <1>1 DEF vars, PassInv, InPass, HeldInv, OneClaim, FanInv, AckInv, Settling
<1>2. CASE Tick
  <2>1. PassInv'
    BY <1>2, PassTicksIsNat DEF Tick, workerVars, PassInv, InPass, TypeOK
  <2>2. HeldInv' /\ OneClaim' /\ FanInv' /\ AckInv'
    BY <1>2 DEF Tick, queueVars, emitVars, workerVars, history,
                HeldInv, OneClaim, FanInv, AckInv, Settling
  <2> QED
    BY <2>1, <2>2
<1>3. ASSUME NEW o \in Occurrence, LookUpSubscribers(o) PROVE LeaseInv'
  <2>1. FanInv'
    <3>1. /\ o \notin dispatched /\ dispatched' = dispatched \cup {o} /\ row' = row
          /\ \A p \in Occurrence \ {o} : fan'[p] = fan[p]
      BY <1>3 DEF LookUpSubscribers, queueVars, TypeOK
    <3> QED
      BY <3>1 DEF FanInv
  <2>2. PassInv' /\ HeldInv' /\ OneClaim' /\ AckInv'
    BY <1>3 DEF LookUpSubscribers, queueVars, workerVars, history,
                PassInv, InPass, HeldInv, OneClaim, AckInv, Settling
  <2> QED
    BY <2>1, <2>2
<1>4. ASSUME NEW o \in Occurrence, NEW s \in Subscription, Enqueue(o, s)
      PROVE  LeaseInv'
  <2>1. <<o, s>> \in Entry /\ row[<<o, s>>].status = "unborn"
    BY <1>4 DEF Enqueue, FanInv, Entry
  <2>2. \A e \in Entry : /\ RowFrame(e)
                         /\ e # <<o, s>> => row'[e] = row[e]
    <3>1. CASE row' = row
      BY <3>1 DEF RowFrame
    <3>2. ASSUME NEW moment \in Moments,
                 row' = [row EXCEPT ![<<o, s>>] =
                          [status |-> "pending", attempts |-> 0, nextAt |-> moment,
                           leasedUntil |-> NULL, settledAt |-> 0]]
          PROVE  \A e \in Entry : RowFrame(e) /\ (e # <<o, s>> => row'[e] = row[e])
      BY <2>1, <3>2 DEF TypeOK, RowFrame
    <3> QED
      BY <1>4, <3>1, <3>2 DEF Enqueue
  <2>3. HeldInv' /\ AckInv'
    BY <1>4, <2>2, FrameKeepsHeld, FrameKeepsAck DEF Enqueue, workerVars, history
  <2>4. FanInv'
    <3>1. /\ dispatched' = dispatched
          /\ fan' = [fan EXCEPT ![o] = fan[o] \ {s}]
      BY <1>4 DEF Enqueue
    <3>2. o \in dispatched
      BY <1>4, <2>1, <3>1 DEF Enqueue, FanInv
    <3> QED
      BY <2>2, <3>1, <3>2 DEF FanInv, Entry, TypeOK
  <2>5. PassInv' /\ OneClaim'
    BY <1>4 DEF Enqueue, workerVars, PassInv, InPass, OneClaim
  <2> QED
    BY <2>3, <2>4, <2>5
<1>5. ASSUME NEW s \in Subscription, SetActive(s) PROVE LeaseInv'
  BY <1>5 DEF SetActive, emitVars, workerVars, history, PassInv, InPass, HeldInv,
              OneClaim, FanInv, AckInv, Settling
<1>6. ASSUME NEW s \in Subscription, DeleteSubscription(s) PROVE LeaseInv'
  <2>1. \A e \in Entry : \/ row'[e] = row[e]
                         \/ row'[e] = Removed /\ row[e].status # "unborn"
    BY <1>6 DEF DeleteSubscription
  <2>2. \A e \in Entry : RowFrame(e)
    BY <2>1 DEF RowFrame, Removed
  <2>3. HeldInv' /\ AckInv'
    BY <1>6, <2>2, FrameKeepsHeld, FrameKeepsAck DEF DeleteSubscription, workerVars, history
  <2>4. PassInv' /\ OneClaim'
    BY <1>6 DEF DeleteSubscription, workerVars, PassInv, InPass, OneClaim
  <2>5. FanInv'
    BY <1>6, <2>1 DEF DeleteSubscription, emitVars, FanInv, Entry
  <2> QED
    BY <2>3, <2>4, <2>5
<1>7. ASSUME NEW e \in Entry, Requeue(e) PROVE LeaseInv'
  <2>1. \A f \in Entry : RowFrame(f) /\ (row[f].status = "unborn" => row'[f] = row[f])
    BY <1>7 DEF Requeue, RowFrame, TypeOK
  <2>2. HeldInv' /\ AckInv'
    BY <1>7, <2>1, FrameKeepsHeld, FrameKeepsAck DEF Requeue, workerVars, history
  <2>3. PassInv' /\ OneClaim'
    BY <1>7 DEF Requeue, workerVars, PassInv, InPass, OneClaim
  <2>4. FanInv'
    BY <1>7, <2>1 DEF Requeue, emitVars, FanInv, Entry
  <2> QED
    BY <2>2, <2>3, <2>4
<1>8. ASSUME NEW w \in Worker, ClaimDue(w) PROVE LeaseInv'
  <2>1. PICK moment \in Moments, S \in SUBSET Entry : ClaimOf(w, moment, S)
    BY <1>8, ClaimEffect
  <2>2. /\ pc[w] = "idle" /\ pc' = [pc EXCEPT ![w] = "pass"]
        /\ started' = [started EXCEPT ![w] = clock]
        /\ now' = [now EXCEPT ![w] = moment]
        /\ batch' = [batch EXCEPT ![w] = {Snapshot(e) : e \in S}]
        /\ UNCHANGED <<clock, subs, log, emitVars, job, verdict, history>>
    BY <1>8, <2>1 DEF ClaimDue, ClaimOf
  <2>3. batch[w] = {}
    BY <2>2 DEF PassInv, InPass
  <2>4. \A v \in Worker : \A c \in batch[v] : c.id \notin S
    BY <2>1, HeldIsNotDue DEF ClaimOf
  <2>5. \A c \in batch'[w] : c.id \in S /\ c = Snapshot(c.id)
    BY <2>2 DEF Snapshot, TypeOK
  <2>6. \A v \in Worker \ {w} : /\ batch'[v] = batch[v] /\ now'[v] = now[v]
                               /\ pc'[v] = pc[v] /\ started'[v] = started[v]
    BY <2>2 DEF TypeOK
  <2>7. now'[w] = moment /\ started'[w] = clock /\ pc'[w] = "pass"
    BY <2>2 DEF TypeOK
  <2>8. \A e \in Entry : /\ e \in S => row'[e] = LeasedRow(row[e], moment)
                         /\ e \notin S => row'[e] = row[e]
                         /\ row'[e].status = row[e].status
    <3>1. \A e \in Entry : /\ e \in S => row'[e] = LeasedRow(row[e], moment)
                           /\ e \notin S => row'[e] = row[e]
      BY <2>1 DEF ClaimOf
    <3> QED
      BY <3>1, LeaseOnly
  <2>9. PassInv'
    <3>1. clock <= clock + PassTicks /\ clock <= moment + Skew
      BY PassTicksIsNat, OutboxAssumption DEF Moments, TypeOK
    <3> QED
      BY <2>2, <2>6, <2>7, <3>1 DEF PassInv, InPass
  <2>10. HeldInv'
    <3> SUFFICES ASSUME NEW v \in Worker, NEW c \in batch'[v]
                 PROVE  \/ row'[c.id].status = "removed"
                        \/ /\ row'[c.id].status = "pending"
                           /\ row'[c.id].leasedUntil = now'[v] + Lease
      BY DEF HeldInv
    <3>1. CASE v = w
      <4>1. c.id \in S /\ c.id \in Entry
        BY <2>5, <3>1
      <4>2. row[c.id].status = "pending"
        BY <2>1, <4>1 DEF ClaimOf, Due
      <4> QED
        BY <2>7, <2>8, <3>1, <4>1, <4>2, LeaseOnly
    <3>2. CASE v # w
      <4>1. c \in batch[v] /\ c.id \notin S /\ c.id \in Entry
        BY <2>4, <2>6, <3>2 DEF TypeOK, Claimed
      <4> QED
        BY <2>6, <2>8, <3>2, <4>1 DEF HeldInv
    <3> QED
      BY <3>1, <3>2
  <2>11. OneClaim'
    <3> SUFFICES ASSUME NEW u \in Worker, NEW v \in Worker,
                        NEW c \in batch'[u], NEW d \in batch'[v], c.id = d.id
                 PROVE  u = v /\ c = d
      BY DEF OneClaim
    <3>1. CASE u = w /\ v = w
      BY <2>5, <3>1
    <3>2. CASE u = w /\ v # w
      BY <2>4, <2>5, <2>6, <3>2
    <3>3. CASE u # w /\ v = w
      BY <2>4, <2>5, <2>6, <3>3
    <3>4. CASE u # w /\ v # w
      BY <2>6, <3>4 DEF OneClaim
    <3> QED
      BY <3>1, <3>2, <3>3, <3>4
  <2>12. FanInv'
    BY <2>2, <2>8 DEF emitVars, FanInv, Entry
  <2>13. AckInv'
    <3>1. \A v \in Worker : Settling(v)' = Settling(v)
      BY <2>2, <2>6, <2>7 DEF Settling, TypeOK
    <3>2. ASSUME NEW v \in Worker, NEW c \in batch'[v], acked[c.id]
          PROVE  settleLost[c.id] \/ (Settling(v) /\ job[v] = c)
      <4>1. CASE v # w
        BY <2>6, <3>2, <4>1 DEF AckInv
      <4>2. CASE v = w
        <5>1. c.id \in S /\ c.id \in Entry /\ row[c.id].status = "pending"
          BY <2>1, <2>5, <4>2 DEF ClaimOf, Due
        <5>2. settleLost[c.id] \/ \E u \in Worker : Settling(u) /\ job[u].id = c.id
          BY <3>2, <5>1 DEF AckInv
        <5>3. \A u \in Worker : Settling(u) => job[u] \in batch[u]
          BY DEF Settling, JobInv
        <5> QED
          BY <2>4, <5>1, <5>2, <5>3
      <4> QED
        BY <4>1, <4>2
    <3> QED
      BY <2>2, <2>8, <3>1, <3>2 DEF AckInv, history
  <2> QED
    BY <2>9, <2>10, <2>11, <2>12, <2>13
<1>9. ASSUME NEW w \in Worker, LookUp(w) PROVE LeaseInv'
  <2>1. PICK c \in batch[w] :
          /\ job' = [job EXCEPT ![w] = c]
          /\ pc' = [pc EXCEPT ![w] = IF subs[c.id[2]] = "active" THEN "post" ELSE "settle"]
          /\ verdict' = [verdict EXCEPT ![w] =
                           IF subs[c.id[2]] = "active" THEN "none" ELSE subs[c.id[2]]]
    BY <1>9 DEF LookUp
  <2>2. /\ pc[w] = "pass"
        /\ UNCHANGED <<clock, row, dispatched, fan, now, started, batch, acked, settleLost>>
    BY <1>9 DEF LookUp, queueVars, emitVars, passVars, history
  <2>3. subs[c.id[2]] \in {"active", "paused", "deleted"}
    BY DEF TypeOK, Claimed, Entry
  <2>4. ~Settling(w) /\ ~Settling(w)'
    BY <2>1, <2>2, <2>3 DEF Settling, TypeOK
  <2>5. \A v \in Worker \ {w} : Settling(v)' = Settling(v) /\ job'[v] = job[v]
    BY <2>1 DEF Settling, TypeOK
  <2>6. PassInv'
    BY <2>1, <2>2 DEF PassInv, InPass, TypeOK
  <2>7. AckInv'
    BY <2>2, <2>4, <2>5 DEF AckInv
  <2>8. HeldInv' /\ OneClaim' /\ FanInv'
    BY <2>2 DEF HeldInv, OneClaim, FanInv
  <2> QED
    BY <2>6, <2>7, <2>8
<1>10. ASSUME NEW w \in Worker, Post(w) PROVE LeaseInv'
  <2> DEFINE e == job[w].id
  <2>1. job[w] \in batch[w] /\ job[w] \in Claimed /\ e \in Entry /\ pc[w] = "post"
    BY <1>10 DEF Post, JobInv, TypeOK, Claimed
  <2>2. /\ \/ /\ pc' = [pc EXCEPT ![w] = "answered"]
              /\ verdict' = [verdict EXCEPT ![w] = "delivered"]
              /\ acked' = [acked EXCEPT ![job[w].id] = TRUE]
           \/ /\ pc' = [pc EXCEPT ![w] = "answered"]
              /\ verdict' = [verdict EXCEPT ![w] = "failed"]
              /\ acked' = acked
        /\ UNCHANGED <<clock, row, dispatched, fan, now, started, batch, job, settleLost>>
    BY <1>10 DEF Post, queueVars, emitVars, passVars
  <2>3. \A f \in Entry \ {e} : acked'[f] = acked[f]
    BY <2>1, <2>2 DEF TypeOK
  <2>4. acked'[e] = acked[e] \/ Settling(w)'
    BY <2>1, <2>2 DEF Settling, TypeOK
  <2>5. ~Settling(w)
    BY <2>1 DEF Settling
  <2>6. \A v \in Worker \ {w} : Settling(v)' = Settling(v)
    BY <2>2 DEF Settling, TypeOK
  <2>7. row[e].status \in {"pending", "removed"}
    BY <2>1 DEF HeldInv
  <2>8. PassInv'
    BY <2>1, <2>2 DEF PassInv, InPass, TypeOK
  <2>9. HeldInv' /\ OneClaim' /\ FanInv'
    BY <2>2 DEF HeldInv, OneClaim, FanInv
  <2>10. AckInv'
    <3>1. \A f \in Entry : row'[f].status = "unborn" => ~acked'[f]
      BY <2>2, <2>3, <2>7 DEF AckInv
    <3>2. ASSUME NEW v \in Worker, NEW c \in batch[v], acked'[c.id]
          PROVE  settleLost[c.id] \/ (Settling(v)' /\ job[v] = c)
      <4>1. c.id \in Entry
        BY DEF TypeOK, Claimed
      <4>2. CASE c.id = e
        <5>1. v = w /\ c = job[w]
          BY <2>1, <4>2 DEF OneClaim
        <5> QED
          BY <2>4, <2>5, <3>2, <4>2, <5>1 DEF AckInv
      <4>3. CASE c.id # e
        <5>1. settleLost[c.id] \/ (Settling(v) /\ job[v] = c)
          BY <2>3, <3>2, <4>1, <4>3 DEF AckInv
        <5> QED
          BY <2>5, <2>6, <5>1
      <4> QED
        BY <4>2, <4>3
    <3>3. ASSUME NEW f \in Entry, acked'[f], row[f].status \in {"pending", "abandoned"}
          PROVE  settleLost[f] \/ \E v \in Worker : Settling(v)' /\ job[v].id = f
      <4>1. CASE f = e /\ Settling(w)'
        BY <4>1
      <4>2. CASE f # e \/ acked'[f] = acked[f]
        <5>1. settleLost[f] \/ \E v \in Worker : Settling(v) /\ job[v].id = f
          BY <2>3, <3>3, <4>2 DEF AckInv
        <5> QED
          BY <2>5, <2>6, <5>1
      <4> QED
        BY <2>4, <4>1, <4>2
    <3> QED
      BY <2>2, <3>1, <3>2, <3>3 DEF AckInv
  <2> QED
    BY <2>8, <2>9, <2>10
<1>11. ASSUME NEW w \in Worker, RecordDelivery(w) PROVE LeaseInv'
  <2>1. /\ pc[w] = "answered" /\ pc' = [pc EXCEPT ![w] = "settle"]
        /\ UNCHANGED <<clock, row, dispatched, fan, now, started, batch, job, verdict,
                       acked, settleLost>>
    BY <1>11 DEF RecordDelivery, emitVars, passVars, history
  <2>2. \A v \in Worker : Settling(v)' = Settling(v)
    BY <2>1 DEF Settling, TypeOK
  <2>3. PassInv'
    BY <2>1 DEF PassInv, InPass, TypeOK
  <2>4. HeldInv' /\ OneClaim' /\ FanInv' /\ AckInv'
    BY <2>1, <2>2 DEF HeldInv, OneClaim, FanInv, AckInv
  <2> QED
    BY <2>3, <2>4
<1>12. ASSUME NEW w \in Worker, MarkDelivered(w) \/ Abandon(w) \/ Reschedule(w)
       PROVE  LeaseInv'
  <2> DEFINE e == job[w].id
  <2>1. /\ pc[w] = "settle" /\ job[w] \in batch[w] /\ job[w] \in Claimed /\ e \in Entry
        /\ \A f \in Entry \ {e} : row'[f] = row[f]
        /\ row[e].status \in {"unborn", "removed"} => row'[e] = row[e]
        /\ AttemptOver(w)
        /\ UNCHANGED <<clock, now, started, dispatched, fan, acked, settleLost>>
    BY <1>12, SettleEffect DEF emitVars, history
  <2>2. row[e].status \notin {"unborn", "removed"} =>
          /\ MarkDelivered(w) => row'[e].status = "delivered"
          /\ Abandon(w) => row'[e].status = "abandoned"
          /\ Reschedule(w) => row'[e].status = "pending"
    BY <1>12, SettleEffect
  <2>3. /\ pc' = [pc EXCEPT ![w] = "pass"]
        /\ batch' = [batch EXCEPT ![w] = @ \ {job[w]}]
        /\ job' = [job EXCEPT ![w] = NULL]
        /\ verdict' = [verdict EXCEPT ![w] = "none"]
    BY <2>1 DEF AttemptOver
  <2>4. \A v \in Worker \ {w} : /\ Settling(v)' = Settling(v) /\ job'[v] = job[v]
                               /\ batch'[v] = batch[v]
    BY <2>3 DEF Settling, TypeOK
  <2>5. ~Settling(w)'
    BY <2>3 DEF Settling, TypeOK
  <2>6. \A v \in Worker : \A c \in batch'[v] : /\ c \in batch[v] /\ c.id # e
                                             /\ c.id \in Entry
    <3> SUFFICES ASSUME NEW v \in Worker, NEW c \in batch'[v]
                 PROVE  c \in batch[v] /\ c.id # e /\ c.id \in Entry
      OBVIOUS
    <3>1. c \in batch[v] /\ (v = w => c # job[w])
      BY <2>3 DEF TypeOK
    <3>2. c.id # e
      BY <2>1, <3>1 DEF OneClaim
    <3> QED
      BY <3>1, <3>2 DEF TypeOK, Claimed
  <2>7. row[e].status \in {"pending", "removed"}
    BY <2>1 DEF HeldInv
  <2>8. acked[e] => settleLost[e] \/ MarkDelivered(w)
    <3>1. acked[e] => settleLost[e] \/ verdict[w] = "delivered"
      BY <2>1 DEF AckInv, Settling
    <3>2. verdict[w] = "delivered" => MarkDelivered(w)
      BY <1>12 DEF Abandon, Reschedule, Exhausted
    <3> QED
      BY <3>1, <3>2
  <2>9. PassInv'
    BY <2>1, <2>3 DEF PassInv, InPass, TypeOK
  <2>10. HeldInv'
    BY <2>1, <2>6 DEF HeldInv
  <2>11. OneClaim'
    BY <2>6 DEF OneClaim
  <2>12. FanInv'
    BY <2>1, <2>7 DEF FanInv, Entry
  <2>13. AckInv'
    <3>1. \A f \in Entry : row'[f].status = "unborn" => ~acked[f]
      BY <1>12, <2>1, <2>2, <2>7 DEF AckInv
    <3>2. ASSUME NEW v \in Worker, NEW c \in batch'[v], acked[c.id]
          PROVE  settleLost[c.id] \/ (Settling(v)' /\ job'[v] = c)
      <4>1. settleLost[c.id] \/ (Settling(v) /\ job[v] = c)
        BY <2>6, <3>2 DEF AckInv
      <4>2. v = w => c # job[v]
        BY <2>6
      <4> QED
        BY <2>4, <4>1, <4>2
    <3>3. ASSUME NEW f \in Entry, acked[f], row'[f].status \in {"pending", "abandoned"}
          PROVE  settleLost[f] \/ \E v \in Worker : Settling(v)' /\ job'[v].id = f
      <4>1. CASE f = e
        BY <1>12, <2>1, <2>2, <2>7, <2>8, <3>3, <4>1
      <4>2. CASE f # e
        <5>1. row'[f] = row[f]
          BY <2>1, <4>2
        <5>2. settleLost[f] \/ \E v \in Worker : Settling(v) /\ job[v].id = f
          BY <3>3, <5>1 DEF AckInv
        <5> QED
          BY <2>4, <4>2, <5>2
      <4> QED
        BY <4>1, <4>2
    <3> QED
      BY <2>1, <3>1, <3>2, <3>3 DEF AckInv
  <2> QED
    BY <2>9, <2>10, <2>11, <2>12, <2>13
<1>13. ASSUME NEW w \in Worker, AttemptFails(w) \/ Crash(w) PROVE LeaseInv'
  <2>1. /\ UNCHANGED <<clock, row, dispatched, fan, acked>>
        /\ \A v \in Worker : /\ batch'[v] \subseteq batch[v]
                             /\ batch'[v] # {} => now'[v] = now[v]
    BY <1>13 DEF AttemptFails, AttemptOver, Crash, queueVars, emitVars, TypeOK
  <2>2. PassInv'
    <3>1. CASE Crash(w)
      BY <3>1 DEF Crash, PassInv, InPass, TypeOK
    <3>2. CASE AttemptFails(w)
      <4>1. /\ UNCHANGED <<clock, now, started>>
            /\ \A v \in Worker : InPass(v)' = InPass(v)
        BY <3>2 DEF AttemptFails, AttemptOver, InPass, TypeOK
      <4> QED
        BY <2>1, <4>1 DEF PassInv
    <3> QED
      BY <1>13, <3>1, <3>2
  <2>3. HeldInv'
    <3> SUFFICES ASSUME NEW v \in Worker, NEW c \in batch'[v]
                 PROVE  \/ row'[c.id].status = "removed"
                        \/ /\ row'[c.id].status = "pending"
                           /\ row'[c.id].leasedUntil = now'[v] + Lease
      BY DEF HeldInv
    <3>1. c \in batch[v] /\ now'[v] = now[v]
      BY <2>1
    <3> QED
      BY <2>1, <3>1 DEF HeldInv
  <2>4. OneClaim' /\ FanInv'
    BY <2>1 DEF OneClaim, FanInv
  <2>5. \A v \in Worker \ {w} : Settling(v)' = Settling(v) /\ job'[v] = job[v]
    BY <1>13 DEF AttemptFails, AttemptOver, Crash, Settling, TypeOK
  <2>6. \A f \in Entry : settleLost[f] => settleLost'[f]
    BY <1>13 DEF AttemptFails, Crash, LoseSettle, TypeOK
  <2>7. \/ Settling(w)' /\ Settling(w) /\ job'[w] = job[w]
        \/ ~Settling(w)
        \/ settleLost'[job[w].id]
    <3>1. Settling(w) => job[w].id \in Entry
      BY DEF Settling, JobInv, TypeOK, Claimed
    <3>2. CASE Settling(w)
      <4>1. verdict[w] = "delivered" /\ pc[w] # "pass"
        BY <3>2 DEF Settling
      <4>2. LoseSettle(w)
        BY <1>13, <4>1 DEF AttemptFails, Crash
      <4> QED
        BY <3>1, <3>2, <4>1, <4>2 DEF LoseSettle, TypeOK
    <3> QED
      BY <3>2
  <2>8. AckInv'
    <3>1. ASSUME NEW v \in Worker, NEW c \in batch'[v], acked[c.id]
          PROVE  settleLost'[c.id] \/ (Settling(v)' /\ job'[v] = c)
      <4>1. c \in batch[v] /\ c.id \in Entry
        BY <2>1 DEF TypeOK, Claimed
      <4>2. settleLost[c.id] \/ (Settling(v) /\ job[v] = c)
        BY <3>1, <4>1 DEF AckInv
      <4> QED
        BY <2>5, <2>6, <2>7, <4>1, <4>2
    <3>2. ASSUME NEW f \in Entry, acked[f], row[f].status \in {"pending", "abandoned"}
          PROVE  settleLost'[f] \/ \E v \in Worker : Settling(v)' /\ job'[v].id = f
      <4>1. settleLost[f] \/ \E v \in Worker : Settling(v) /\ job[v].id = f
        BY <3>2 DEF AckInv
      <4> QED
        BY <2>5, <2>6, <2>7, <4>1
    <3> QED
      BY <2>1, <3>1, <3>2 DEF AckInv
  <2> QED
    BY <2>2, <2>3, <2>4, <2>8
<1>14. ASSUME NEW w \in Worker, FinishPass(w) PROVE LeaseInv'
  <2>1. /\ pc[w] = "pass" /\ batch[w] = {} /\ pc' = [pc EXCEPT ![w] = "idle"]
        /\ now' = [now EXCEPT ![w] = 0] /\ started' = [started EXCEPT ![w] = 0]
        /\ UNCHANGED <<clock, dispatched, fan, batch, job, verdict, acked, settleLost>>
    BY <1>14 DEF FinishPass, PassOver, emitVars, history
  <2>2. \A e \in Entry : row'[e] = row[e] \/ (row'[e] = Removed /\ row[e].status = "delivered")
    BY <1>14 DEF FinishPass, TypeOK
  <2>3. \A e \in Entry : \/ row'[e] = row[e]
                         \/ row'[e].status = "removed" /\ row[e].status = "delivered"
    BY <2>2 DEF Removed
  <2>4. PassInv'
    BY <2>1 DEF PassInv, InPass, TypeOK
  <2>5. HeldInv'
    <3> SUFFICES ASSUME NEW v \in Worker, NEW c \in batch[v]
                 PROVE  \/ row'[c.id].status = "removed"
                        \/ /\ row'[c.id].status = "pending"
                           /\ row'[c.id].leasedUntil = now'[v] + Lease
      BY <2>1 DEF HeldInv
    <3>1. v # w /\ c.id \in Entry
      BY <2>1 DEF TypeOK, Claimed
    <3>2. now'[v] = now[v]
      BY <2>1, <3>1 DEF TypeOK
    <3> QED
      BY <2>3, <3>1, <3>2 DEF HeldInv
  <2>6. OneClaim'
    BY <2>1 DEF OneClaim
  <2>7. FanInv'
    BY <2>1, <2>3 DEF FanInv, Entry
  <2>8. \A v \in Worker : Settling(v)' = Settling(v)
    BY <2>1 DEF Settling, TypeOK
  <2>9. AckInv'
    BY <2>1, <2>3, <2>8 DEF AckInv
  <2> QED
    BY <2>4, <2>5, <2>6, <2>7, <2>9
<1>15. ASSUME NEW w \in Worker, Start(w) PROVE LeaseInv'
  <2>1. /\ pc[w] = "down" /\ pc' = [pc EXCEPT ![w] = "idle"]
        /\ UNCHANGED <<clock, row, dispatched, fan, now, started, batch, job, verdict,
                       acked, settleLost>>
    BY <1>15 DEF Start, queueVars, emitVars, passVars, history
  <2>2. \A v \in Worker : Settling(v)' = Settling(v)
    BY <2>1 DEF Settling, TypeOK
  <2>3. PassInv'
    BY <2>1 DEF PassInv, InPass, TypeOK
  <2>4. HeldInv' /\ OneClaim' /\ FanInv' /\ AckInv'
    BY <2>1, <2>2 DEF HeldInv, OneClaim, FanInv, AckInv
  <2> QED
    BY <2>3, <2>4
<1> QED
  BY <1>1, <1>2, <1>3, <1>4, <1>5, <1>6, <1>7, <1>8, <1>9, <1>10, <1>11, <1>12,
     <1>13, <1>14, <1>15 DEF Next, WorkerStep

-----------------------------------------------------------------------------
(***************************************************************************)
(* If the lease covers the pass, two workers never hold one row.           *)
(***************************************************************************)
THEOREM ClaimsAreExclusive ==
    ASSUME LeaseCoversPass
    PROVE  Spec => []ExclusiveClaim
<1>1. LeaseInv => ExclusiveClaim
  BY DEF LeaseInv, OneClaim, ExclusiveClaim, Held
<1>2. TypeOK /\ JobInv /\ LeaseInv /\ [Next]_vars => TypeOK' /\ JobInv' /\ LeaseInv'
  BY TypeStep, LeaseStep
<1> QED
  BY TypeInit, LeaseInit, <1>1, <1>2, PTL DEF Spec

(***************************************************************************)
(* If the lease covers the pass, an acknowledged event is sent again only  *)
(* after a crash or a refused settle lost the acknowledgement.             *)
(***************************************************************************)
THEOREM NoNeedlessDuplicate ==
    ASSUME LeaseCoversPass
    PROVE  Spec => []DuplicateOnlyAfterLostSettle
<1>1. JobInv /\ LeaseInv => DuplicateOnlyAfterLostSettle
  BY DEF JobInv, LeaseInv, AckInv, Settling, DuplicateOnlyAfterLostSettle
<1>2. TypeOK /\ JobInv /\ LeaseInv /\ [Next]_vars => TypeOK' /\ JobInv' /\ LeaseInv'
  BY TypeStep, LeaseStep
<1> QED
  BY TypeInit, LeaseInit, <1>1, <1>2, PTL DEF Spec

-----------------------------------------------------------------------------
(* The queue implements the promise of WebhookDelivery.                    *)

phase == [e \in Entry |-> row[e].status]
deleted == {s \in Subscription : subs[s] = "deleted"}

\* A step of the queue that changes no row's status, no acknowledgement and
\* no subscription's existence is invisible to the promise.
LEMMA InvisibleStep ==
    ASSUME \A e \in Entry : row'[e].status = row[e].status,
           acked' = acked,
           \A s \in Subscription : subs'[s] = "deleted" <=> subs[s] = "deleted"
    PROVE  UNCHANGED Promise!vars
<1>1. phase' = phase
  BY DEF phase
<1>2. deleted' = deleted
  BY DEF deleted
<1> QED
  BY <1>1, <1>2 DEF Promise!vars, phase, deleted

LEMMA PromiseInit == Init => Promise!Init
<1> SUFFICES ASSUME Init PROVE Promise!Init
  OBVIOUS
<1>1. \A e \in Entry : row[e].status = "unborn"
  BY DEF Init, Unborn
<1>2. \A s \in Subscription : subs[s] # "deleted"
  BY DEF Init
<1> QED
  BY <1>1, <1>2 DEF Init, Promise!Init, Promise!Entry, Entry

(***************************************************************************)
(* What a step does to the row of one entry, the promise sees as a change  *)
(* of that entry's phase alone.                                            *)
(***************************************************************************)
LEMMA OnePhase ==
    ASSUME NEW e \in Entry,
           \A f \in Entry \ {e} : row'[f] = row[f]
    PROVE  phase' = [phase EXCEPT ![e] = row'[e].status]
<1>1. \A f \in Entry : f # e => row'[f].status = row[f].status
  OBVIOUS
<1> QED
  BY <1>1 DEF phase

(***************************************************************************)
(* Every step of the queue is a step of the promise, or invisible to it.   *)
(***************************************************************************)
LEMMA PromiseStep ==
    ASSUME TypeOK, JobInv, ScheduleInv, LeaseInv, [Next]_vars
    PROVE  [Promise!Next]_(Promise!vars)
<1> USE DEF LeaseInv
<1>a. ASSUME NEW e \in Entry,
             \/ Promise!Accept(e) \/ Promise!Reach(e) \/ Promise!Deliver(e)
             \/ Promise!GiveUp(e) \/ Promise!Redeliver(e)
      PROVE  Promise!Next
  BY <1>a DEF Promise!Next, Promise!Entry, Entry
<1>b. ASSUME NEW S \in SUBSET Entry, Promise!Forget(S) PROVE Promise!Next
  BY <1>b DEF Promise!Next, Promise!Entry, Entry
<1>1. ASSUME NEW o \in Occurrence, NEW s \in Subscription, Enqueue(o, s)
      PROVE  Promise!Next \/ UNCHANGED Promise!vars
  <2> DEFINE e == <<o, s>>
  <2>1. e \in Entry /\ row[e].status = "unborn" /\ acked' = acked /\ subs' = subs
    BY <1>1 DEF Enqueue, FanInv, Entry, history
  <2>2. CASE row' = row
    BY <2>1, <2>2, InvisibleStep
  <2>3. CASE row' # row
    <3>1. PICK moment \in Moments :
            row' = [row EXCEPT ![<<o, s>>] =
                      [status |-> "pending", attempts |-> 0, nextAt |-> moment,
                       leasedUntil |-> NULL, settledAt |-> 0]]
      BY <1>1, <2>3 DEF Enqueue
    <3>2. row'[e].status = "pending" /\ \A f \in Entry \ {e} : row'[f] = row[f]
      BY <2>1, <3>1 DEF TypeOK
    <3>3. phase' = [phase EXCEPT ![e] = "pending"] /\ phase[e] = "unborn"
      BY <2>1, <3>2, OnePhase DEF phase
    <3>4. s \notin deleted
      BY <1>1, <2>3 DEF Enqueue, deleted
    <3>5. Promise!Accept(e)
      BY <2>1, <3>3, <3>4 DEF Promise!Accept, phase, deleted
    <3> QED
      BY <2>1, <3>5, <1>a
  <2> QED
    BY <2>2, <2>3
<1>2. ASSUME NEW e \in Entry, Requeue(e)
      PROVE  Promise!Next \/ UNCHANGED Promise!vars
  <2>1. /\ row[e].status = "abandoned" /\ acked' = acked /\ subs' = subs
        /\ row'[e].status = "pending" /\ \A f \in Entry \ {e} : row'[f] = row[f]
    BY <1>2 DEF Requeue, history, TypeOK
  <2>2. phase' = [phase EXCEPT ![e] = "pending"] /\ phase[e] = "abandoned"
    BY <2>1, OnePhase DEF phase
  <2>3. Promise!Redeliver(e)
    BY <2>1, <2>2 DEF Promise!Redeliver, phase
  <2> QED
    BY <2>3, <1>a
<1>3. ASSUME NEW s \in Subscription, DeleteSubscription(s)
      PROVE  Promise!Next \/ UNCHANGED Promise!vars
  <2>1. /\ subs[s] # "deleted" /\ subs' = [subs EXCEPT ![s] = "deleted"]
        /\ acked' = acked
        /\ \A e \in Entry : row'[e] = IF e[2] = s /\ row[e].status # "unborn"
                                     THEN Removed ELSE row[e]
    BY <1>3 DEF DeleteSubscription, history
  <2>2. s \notin deleted /\ deleted' = deleted \cup {s}
    BY <2>1 DEF deleted, TypeOK
  <2>3. phase' = [e \in Entry |-> IF e[2] = s /\ phase[e] # "unborn"
                                  THEN "removed" ELSE phase[e]]
    <3>1. \A e \in Entry : row'[e].status = IF e[2] = s /\ row[e].status # "unborn"
                                           THEN "removed" ELSE row[e].status
      BY <2>1 DEF Removed
    <3> QED
      BY <3>1 DEF phase
  <2>4. Promise!Unsubscribe(s)
    BY <2>1, <2>2, <2>3 DEF Promise!Unsubscribe, Promise!Entry, Entry, phase, deleted
  <2> QED
    BY <2>4 DEF Promise!Next
<1>4. ASSUME NEW s \in Subscription, SetActive(s) PROVE UNCHANGED Promise!vars
  <2>1. /\ row' = row /\ acked' = acked
        /\ \A t \in Subscription : subs'[t] = "deleted" <=> subs[t] = "deleted"
    BY <1>4 DEF SetActive, history, TypeOK
  <2> QED
    BY <2>1, InvisibleStep
<1>5. ASSUME NEW w \in Worker, ClaimDue(w) PROVE UNCHANGED Promise!vars
  <2>1. PICK moment \in Moments, S \in SUBSET Entry : ClaimOf(w, moment, S)
    BY <1>5, ClaimEffect
  <2>2. \A e \in Entry : row'[e].status = row[e].status
    BY <2>1, LeaseOnly DEF ClaimOf
  <2>3. acked' = acked /\ subs' = subs
    BY <1>5 DEF ClaimDue, history
  <2> QED
    BY <2>2, <2>3, InvisibleStep
<1>6. ASSUME NEW w \in Worker, Post(w)
      PROVE  Promise!Next \/ UNCHANGED Promise!vars
  <2> DEFINE e == job[w].id
  <2>1. job[w] \in batch[w] /\ e \in Entry
    BY <1>6 DEF Post, JobInv, TypeOK, Claimed
  <2>2. phase[e] \in {"pending", "removed"}
    BY <2>1 DEF HeldInv, phase
  <2>3. /\ row' = row /\ subs' = subs
        /\ acked' = acked \/ acked' = [acked EXCEPT ![job[w].id] = TRUE]
    BY <1>6 DEF Post, queueVars
  <2>4. CASE acked' = acked
    BY <2>3, <2>4, InvisibleStep
  <2>5. CASE acked' = [acked EXCEPT ![e] = TRUE]
    <3>1. phase' = phase /\ deleted' = deleted
      BY <2>3 DEF phase, deleted
    <3>2. Promise!Reach(e)
      BY <2>2, <2>5, <3>1 DEF Promise!Reach, phase, deleted
    <3> QED
      BY <2>1, <3>2, <1>a
  <2> QED
    BY <2>3, <2>4, <2>5
<1>7. ASSUME NEW w \in Worker, MarkDelivered(w) \/ Abandon(w) \/ Reschedule(w)
      PROVE  Promise!Next \/ UNCHANGED Promise!vars
  <2>1. PICK e \in Entry :
        /\ job[w] \in batch[w] /\ e = job[w].id
        /\ \A f \in Entry \ {e} : row'[f] = row[f]
        /\ row[e].status \in {"unborn", "removed"} => row'[e] = row[e]
        /\ row[e].status \notin {"unborn", "removed"} =>
              /\ MarkDelivered(w) => row'[e].status = "delivered"
              /\ Abandon(w) => row'[e].status = "abandoned"
              /\ Reschedule(w) => row'[e].status = "pending"
    BY <1>7, SettleEffect
  <2>2. acked' = acked /\ subs' = subs
    BY <1>7 DEF MarkDelivered, Abandon, Reschedule, history
  <2>3. row[e].status \in {"pending", "removed"}
    BY <2>1 DEF HeldInv
  <2>4. phase' = [phase EXCEPT ![e] = row'[e].status] /\ deleted' = deleted
    BY <2>1, <2>2, OnePhase DEF deleted
  <2>5. CASE \A f \in Entry : row'[f].status = row[f].status
    BY <2>2, <2>5, InvisibleStep
  <2>6. CASE MarkDelivered(w) /\ row[e].status = "pending"
    <3>1. acked[e]
      BY <2>1, <2>6 DEF MarkDelivered, ScheduleInv, VerdictInv
    <3>2. phase' = [phase EXCEPT ![e] = "delivered"] /\ phase[e] = "pending"
      BY <2>1, <2>4, <2>6 DEF phase
    <3>3. Promise!Deliver(e)
      BY <2>2, <2>4, <3>1, <3>2 DEF Promise!Deliver, phase, deleted
    <3> QED
      BY <2>1, <3>3, <1>a
  <2>7. CASE Abandon(w) /\ row[e].status = "pending"
    <3>1. phase' = [phase EXCEPT ![e] = "abandoned"] /\ phase[e] = "pending"
      BY <2>1, <2>4, <2>7 DEF phase
    <3>2. Promise!GiveUp(e)
      BY <2>2, <2>4, <3>1 DEF Promise!GiveUp, phase, deleted
    <3> QED
      BY <2>1, <3>2, <1>a
  <2>8. CASE Reschedule(w) /\ row[e].status = "pending"
    BY <2>1, <2>5, <2>8
  <2> QED
    BY <1>7, <2>1, <2>3, <2>5, <2>6, <2>7, <2>8
<1>8. ASSUME NEW w \in Worker, FinishPass(w)
      PROVE  Promise!Next \/ UNCHANGED Promise!vars
  <2>1. acked' = acked /\ subs' = subs
    BY <1>8 DEF FinishPass, history
  <2>2. \A e \in Entry : row'[e] = row[e] \/ (row'[e] = Removed /\ row[e].status = "delivered")
    BY <1>8 DEF FinishPass, TypeOK
  <2>3. PICK S \in SUBSET Entry : \A e \in Entry :
            /\ e \in S => row[e].status = "delivered" /\ row'[e].status = "removed"
            /\ e \notin S => row'[e].status = row[e].status
    <3> DEFINE T == {e \in Entry : row'[e] # row[e]}
    <3>1. \A e \in Entry :
            /\ e \in T => row[e].status = "delivered" /\ row'[e].status = "removed"
            /\ e \notin T => row'[e].status = row[e].status
      BY <2>2 DEF Removed
    <3> QED
      BY <3>1
  <2>4. /\ \A e \in S : phase[e] = "delivered"
        /\ phase' = [e \in Entry |-> IF e \in S THEN "removed" ELSE phase[e]]
        /\ deleted' = deleted
    BY <2>1, <2>3 DEF phase, deleted
  <2>5. Promise!Forget(S)
    BY <2>1, <2>4 DEF Promise!Forget, Promise!Entry, Entry, phase, deleted
  <2> QED
    BY <2>5, <1>b
<1>9. CASE \/ UNCHANGED vars \/ Tick \/ \E o \in Occurrence : LookUpSubscribers(o)
           \/ \E w \in Worker : \/ LookUp(w) \/ RecordDelivery(w) \/ AttemptFails(w)
                                \/ Start(w) \/ Crash(w)
  <2>1. row' = row /\ acked' = acked /\ subs' = subs
    BY <1>9 DEF vars, Tick, LookUpSubscribers, LookUp, RecordDelivery, AttemptFails,
                Start, Crash, queueVars, history
  <2> QED
    BY <2>1, InvisibleStep
<1> QED
  BY <1>1, <1>2, <1>3, <1>4, <1>5, <1>6, <1>7, <1>8, <1>9 DEF Next, WorkerStep

(***************************************************************************)
(* If the lease covers the pass, the queue implements WebhookDelivery:     *)
(* nothing written down is lost or settled twice, only an acknowledged     *)
(* event is delivered, and nothing settled is dialled again.               *)
(***************************************************************************)
THEOREM QueueKeepsPromise ==
    ASSUME LeaseCoversPass
    PROVE  Spec => KeepsPromise
<1> DEFINE Inv == TypeOK /\ JobInv /\ ScheduleInv /\ LeaseInv
<1>1. Init => Inv
  BY TypeInit, ScheduleInit, LeaseInit
<1>2. Inv /\ [Next]_vars => Inv'
  BY TypeStep, ScheduleStep, LeaseStep
<1>3. Inv /\ [Next]_vars => [Promise!Next]_(Promise!vars)
  BY PromiseStep
<1> QED
  BY <1>1, <1>2, <1>3, PromiseInit, PTL DEF Spec, KeepsPromise, Promise!Spec

=============================================================================
