--------------------------- MODULE WebhookOutbox ---------------------------
(***************************************************************************)
(* The durable webhook queue: the dispatcher that writes delivery intent,  *)
(* the webhook_outbox table with its leases, the delivery workers that     *)
(* drain it (webhooks/worker.py), the one HTTP attempt they make per claim *)
(* (webhooks/emitter.py), the delivery log, and the operator's actions on  *)
(* subscriptions and abandoned rows (api/routers/webhooks.py).             *)
(*                                                                         *)
(* A Worker is a delivery thread: one per application instance, or two in  *)
(* one process when stop() gave up waiting for a thread that start() then  *)
(* replaced.  The stores are the PostgreSQL ones: each call is one atomic  *)
(* step, as it is one transaction there, and everything may happen between *)
(* two of them.  The in-memory stores of a keyless deployment, whose       *)
(* methods are not atomic, are not modelled.                               *)
(***************************************************************************)
EXTENDS Integers, FiniteSets

CONSTANTS
    Subscription,    \* registered endpoints
    Occurrence,      \* things that happen and are announced by webhook
    Worker,          \* delivery threads
    Mortal,          \* the workers whose process may die
    BatchSize,       \* WEBHOOK_BATCH_SIZE
    MaxAttempts,     \* WEBHOOK_MAX_ATTEMPTS
    Backoff,         \* WEBHOOK_BACKOFF_SECONDS, in ticks
    MaxAttemptDelay, \* MAX_ATTEMPT_DELAY_SECONDS, in ticks
    Lease,           \* LEASE_SECONDS, in ticks
    Retention,       \* SETTLED_RETENTION, in ticks
    PruneInterval,   \* one hour, in ticks
    AttemptTicks,    \* longest time one attempt takes, its store calls included
    Skew,            \* how far a process's clock may be from true time
    Horizon,         \* bound: true time stops here
    NULL             \* SQL NULL / Python None

ASSUME OutboxAssumption ==
    /\ BatchSize \in Nat \ {0}
    /\ MaxAttempts \in Nat \ {0}
    /\ Backoff \in Nat
    /\ MaxAttemptDelay \in Nat
    /\ Lease \in Nat \ {0}
    /\ Retention \in Nat
    /\ PruneInterval \in Nat
    /\ AttemptTicks \in Nat
    /\ Skew \in Nat
    /\ Horizon \in Nat
    /\ Mortal \subseteq Worker
    /\ NULL \notin Int

\* One outbox row per (event, subscription).
Entry == Occurrence \X Subscription

Statuses == {"unborn", "pending", "delivered", "abandoned", "removed"}
Verdicts == {"none", "deleted", "paused", "delivered", "failed"}

Row == [status : Statuses, attempts : Nat, nextAt : Int,
        leasedUntil : Int \cup {NULL}, settledAt : Int]

\* settledAt is updated_at of a delivered row, in true time: what reads it is a
\* retention of days, to which the skew of the clocks is nothing.

\* What a worker keeps of a row it claimed.
Claimed == [id : Entry, attempts : Nat, due : Int]

VARIABLES
    clock,       \* true time
    subs,        \* webhook_subscriptions: state of each
    row,         \* webhook_outbox
    log,         \* webhook_deliveries, per entry: the rows with its id
    dispatched,  \* occurrences whose subscribers were looked up
    fan,         \* subscribers an occurrence is still to be enqueued for
    pc,          \* where each worker is
    now,         \* the moment its pass began, on its own clock
    started,     \* the same moment in true time
    began,       \* when it turned to its current row, in true time
    batch,       \* rows claimed and not finished with
    job,         \* the row it is attempting
    verdict,     \* what the attempt came to
    lastPrune,   \* when it last swept, on its own clock
    acked,       \* history: the endpoint answered 2xx to this entry
    settleLost   \* history: such an answer was never recorded in the row

queueVars  == <<subs, row, log>>
emitVars   == <<dispatched, fan>>
passVars   == <<now, started, began>>
workerVars == <<pc, now, started, began, batch, job, verdict, lastPrune>>
history    == <<acked, settleLost>>
vars == <<clock, subs, row, log, dispatched, fan, pc, now, started, began,
          batch, job, verdict, lastPrune, acked, settleLost>>

Unborn  == [status |-> "unborn", attempts |-> 0, nextAt |-> 0,
            leasedUntil |-> NULL, settledAt |-> 0]
Removed == [status |-> "removed", attempts |-> 0, nextAt |-> 0,
            leasedUntil |-> NULL, settledAt |-> 0]

Init ==
    /\ clock = 0
    /\ subs = [s \in Subscription |-> "active"]
    /\ row = [e \in Entry |-> Unborn]
    /\ log = [e \in Entry |-> {}]
    /\ dispatched = {}
    /\ fan = [o \in Occurrence |-> {}]
    /\ pc = [w \in Worker |-> "idle"]
    /\ now = [w \in Worker |-> 0]
    /\ started = [w \in Worker |-> 0]
    /\ began = [w \in Worker |-> 0]
    /\ batch = [w \in Worker |-> {}]
    /\ job = [w \in Worker |-> NULL]
    /\ verdict = [w \in Worker |-> "none"]
    /\ lastPrune = [w \in Worker |-> NULL]
    /\ acked = [e \in Entry |-> FALSE]
    /\ settleLost = [e \in Entry |-> FALSE]

-----------------------------------------------------------------------------
(* Time.                                                                   *)

\* What a process may read from its clock, or have read a moment ago.
Moments == (clock - Skew)..(clock + Skew)

InPass(w) == pc[w] \in {"pass", "post", "answered", "settle"}

\* The worst case of a pass, by the worker's own account: batch x timeout.
PassTicks == BatchSize * AttemptTicks

\* An attempt lasts at most AttemptTicks and a pass PassTicks: time waits for
\* the worker, not the reverse.
Tick ==
    /\ clock < Horizon
    /\ \A w \in Worker : InPass(w) => /\ clock < began[w] + AttemptTicks
                                     /\ clock < started[w] + PassTicks
    /\ clock' = clock + 1
    /\ UNCHANGED <<queueVars, emitVars, workerVars, history>>

\* next_attempt_delay: the delay before attempt number attempts + 1.
NextAttemptDelay(attempts) ==
    LET delay == Backoff * 2^(IF attempts > 1 THEN attempts - 1 ELSE 0)
    IN  IF delay < MaxAttemptDelay THEN delay ELSE MaxAttemptDelay

-----------------------------------------------------------------------------
(* The dispatcher: one row per active subscription, each on its own.       *)

\* list_for_event, or the lookup failing; paused subscriptions want nothing.
LookUpSubscribers(o) ==
    /\ o \notin dispatched
    /\ dispatched' = dispatched \cup {o}
    /\ fan' \in {[fan EXCEPT ![o] = {s \in Subscription : subs[s] = "active"}],
                 [fan EXCEPT ![o] = {}]}
    /\ UNCHANGED <<clock, queueVars, workerVars, history>>

\* The INSERT: the foreign key refuses a subscription deleted meanwhile, and any
\* one insert may fail without touching the others (so does that of a payload
\* with no JSON form, which is why no worker ever meets one).
Enqueue(o, s) ==
    /\ s \in fan[o]
    /\ fan' = [fan EXCEPT ![o] = @ \ {s}]
    /\ \/ /\ subs[s] # "deleted"
          /\ \E moment \in Moments :
                row' = [row EXCEPT ![<<o, s>>] =
                          [status |-> "pending", attempts |-> 0, nextAt |-> moment,
                           leasedUntil |-> NULL, settledAt |-> 0]]
       \/ row' = row
    /\ UNCHANGED <<clock, subs, log, dispatched, workerVars, history>>

-----------------------------------------------------------------------------
(* The operator.                                                           *)

\* PATCH {"active": ...}.
SetActive(s) ==
    /\ subs[s] # "deleted"
    /\ \E state \in {"active", "paused"} \ {subs[s]} :
          subs' = [subs EXCEPT ![s] = state]
    /\ UNCHANGED <<clock, row, log, emitVars, workerVars, history>>

\* DELETE: the foreign keys take the log and the queued rows with it.
DeleteSubscription(s) ==
    /\ subs[s] # "deleted"
    /\ subs' = [subs EXCEPT ![s] = "deleted"]
    /\ log' = [e \in Entry |-> IF e[2] = s THEN {} ELSE log[e]]
    /\ row' = [e \in Entry |->
                 IF e[2] = s /\ row[e].status # "unborn"
                 THEN Removed ELSE row[e]]
    /\ UNCHANGED <<clock, emitVars, workerVars, history>>

\* POST /webhooks/queue/{entry}/redeliver: abandoned rows only.
Requeue(e) ==
    /\ row[e].status = "abandoned"
    /\ \E moment \in Moments :
          row' = [row EXCEPT ![e] =
                    [status |-> "pending", attempts |-> 0, nextAt |-> moment,
                     leasedUntil |-> NULL, settledAt |-> 0]]
    /\ UNCHANGED <<clock, subs, log, emitVars, workerVars, history>>

-----------------------------------------------------------------------------
(* The worker: one pass is a claim, one attempt per claimed row, a sweep.  *)

\* Bug for testing the runs: the claim does not look at the lease.
DueLeasedOrNot(moment) ==
    {e \in Entry : row[e].status = "pending" /\ row[e].nextAt <= moment}

\* Bug: a lease, once taken, never runs out.
DueUnleased(moment) ==
    {e \in Entry : /\ row[e].status = "pending" /\ row[e].nextAt <= moment
                   /\ row[e].leasedUntil = NULL}

Due(moment) ==
    {e \in Entry : /\ row[e].status = "pending"
                   /\ row[e].nextAt <= moment
                   /\ \/ row[e].leasedUntil = NULL
                      \/ row[e].leasedUntil <= moment}

\* ORDER BY next_attempt_at LIMIT BatchSize; ties fall either way.
Batches(moment) ==
    {S \in SUBSET Due(moment) :
        /\ \/ Cardinality(S) = BatchSize
           \/ S = Due(moment) /\ Cardinality(S) <= BatchSize
        /\ \A e \in S, f \in Due(moment) \ S : row[e].nextAt <= row[f].nextAt}

LeasedRow(r, moment) ==
    [status |-> r.status, attempts |-> r.attempts, nextAt |-> r.nextAt,
     leasedUntil |-> moment + Lease, settledAt |-> r.settledAt]

Snapshot(e) == [id |-> e, attempts |-> row[e].attempts, due |-> row[e].nextAt]

\* claim_due: select and lease in one statement, the clock read just before.
ClaimDue(w) ==
    /\ pc[w] = "idle"
    /\ \E moment \in Moments : \E S \in Batches(moment) :
          /\ row' = [e \in Entry |-> IF e \in S THEN LeasedRow(row[e], moment)
                                     ELSE row[e]]
          /\ batch' = [batch EXCEPT ![w] = {Snapshot(e) : e \in S}]
          /\ now' = [now EXCEPT ![w] = moment]
    /\ started' = [started EXCEPT ![w] = clock]
    /\ began' = [began EXCEPT ![w] = clock]
    /\ pc' = [pc EXCEPT ![w] = "pass"]
    /\ UNCHANGED <<clock, subs, log, emitVars, job, verdict, lastPrune, history>>

\* The head of _attempt: the longest due row left, and its subscription as it
\* is now.
LookUp(w) ==
    /\ pc[w] = "pass"
    /\ \E c \in batch[w] :
          /\ \A d \in batch[w] : c.due <= d.due
          /\ job' = [job EXCEPT ![w] = c]
          /\ LET state == subs[c.id[2]] IN
                /\ pc' = [pc EXCEPT ![w] = IF state = "active" THEN "post"
                                           ELSE "settle"]
                /\ verdict' = [verdict EXCEPT ![w] =
                                  IF state = "active" THEN "none" ELSE state]
    /\ UNCHANGED <<clock, queueVars, emitVars, passVars, batch, lastPrune, history>>

\* deliver_once up to the answer: a 2xx or anything else.
Post(w) ==
    /\ pc[w] = "post"
    /\ \/ /\ verdict' = [verdict EXCEPT ![w] = "delivered"]
          /\ acked' = [acked EXCEPT ![job[w].id] = TRUE]
       \/ /\ verdict' = [verdict EXCEPT ![w] = "failed"]
          /\ UNCHANGED acked
    /\ pc' = [pc EXCEPT ![w] = "answered"]
    /\ UNCHANGED <<clock, queueVars, emitVars, passVars, batch, job, lastPrune,
                   settleLost>>

\* deliver_once after the answer: the delivery log.  Its key is the row's id,
\* so PostgreSQL keeps the first attempt's row and refuses the later ones,
\* and refuses one for a deleted subscription; a refusal is logged and ignored.
RecordDelivery(w) ==
    /\ pc[w] = "answered"
    /\ LET e == job[w].id
           entry == [status |-> verdict[w], attempts |-> job[w].attempts + 1]
           refused == log[e] # {} \/ subs[e[2]] = "deleted"
       IN  log' \in {log} \cup
                    (IF refused THEN {} ELSE {[log EXCEPT ![e] = @ \cup {entry}]})
    /\ pc' = [pc EXCEPT ![w] = "settle"]
    /\ UNCHANGED <<clock, subs, row, emitVars, passVars, batch, job, verdict,
                   lastPrune, history>>

\* The attempt count a settled row gets: only a real attempt adds to it.
Counted(w) == IF verdict[w] \in {"deleted", "paused"} THEN job[w].attempts
              ELSE job[w].attempts + 1

\* Bugs: one attempt too many, one too few.
ExhaustedLate(w) == verdict[w] = "failed" /\ Counted(w) > MaxAttempts
ExhaustedEarly(w) == verdict[w] = "failed" /\ Counted(w) >= MaxAttempts - 1

Exhausted(w) == verdict[w] = "failed" /\ Counted(w) >= MaxAttempts

\* On to the next row of the batch.
AttemptOver(w) ==
    /\ pc' = [pc EXCEPT ![w] = "pass"]
    /\ began' = [began EXCEPT ![w] = clock]
    /\ batch' = [batch EXCEPT ![w] = @ \ {job[w]}]
    /\ job' = [job EXCEPT ![w] = NULL]
    /\ verdict' = [verdict EXCEPT ![w] = "none"]

\* Bug: the settle is an upsert, and brings back a row that was deleted.
UpdateOrInsert(e, new) == row' = [row EXCEPT ![e] = new]

\* UPDATE ... WHERE id = :id: whatever the row has become, if it is there.
Update(e, new) ==
    row' = IF row[e].status \in {"unborn", "removed"} THEN row
           ELSE [row EXCEPT ![e] = new]

\* Bug: the settle forgets the status.
MarkSettledOnly(w) ==
    /\ pc[w] = "settle"
    /\ verdict[w] = "delivered"
    /\ LET e == job[w].id IN
       Update(e, [status |-> row[e].status, attempts |-> Counted(w),
                  nextAt |-> row[e].nextAt, leasedUntil |-> NULL,
                  settledAt |-> clock])
    /\ AttemptOver(w)
    /\ UNCHANGED <<clock, subs, log, emitVars, now, started, lastPrune, history>>

MarkDelivered(w) ==
    /\ pc[w] = "settle"
    /\ verdict[w] = "delivered"
    /\ LET e == job[w].id IN
       Update(e, [status |-> "delivered", attempts |-> Counted(w),
                  nextAt |-> row[e].nextAt, leasedUntil |-> NULL,
                  settledAt |-> clock])
    /\ AttemptOver(w)
    /\ UNCHANGED <<clock, subs, log, emitVars, now, started, lastPrune, history>>

Abandon(w) ==
    /\ pc[w] = "settle"
    /\ verdict[w] = "deleted" \/ Exhausted(w)
    /\ LET e == job[w].id IN
       Update(e, [status |-> "abandoned", attempts |-> Counted(w),
                  nextAt |-> row[e].nextAt, leasedUntil |-> NULL,
                  settledAt |-> 0])
    /\ AttemptOver(w)
    /\ UNCHANGED <<clock, subs, log, emitVars, now, started, lastPrune, history>>

Reschedule(w) ==
    /\ pc[w] = "settle"
    /\ verdict[w] \in {"paused", "failed"} /\ ~Exhausted(w)
    /\ LET e == job[w].id IN
       Update(e, [status |-> "pending", attempts |-> Counted(w),
                  nextAt |-> now[w] + NextAttemptDelay(job[w].attempts + 1),
                  leasedUntil |-> NULL, settledAt |-> 0])
    /\ AttemptOver(w)
    /\ UNCHANGED <<clock, subs, log, emitVars, now, started, lastPrune, history>>

\* What an answered 2xx leaves behind when its worker does not settle it.
LoseSettle(w) ==
    settleLost' = IF verdict[w] = "delivered"
                  THEN [settleLost EXCEPT ![job[w].id] = TRUE] ELSE settleLost

\* A store refuses the lookup or the settle: run_once contains it to the
\* entry, whose row stays leased.
AttemptFails(w) ==
    /\ \/ /\ pc[w] = "pass"
          /\ \E c \in batch[w] :
                /\ \A d \in batch[w] : c.due <= d.due
                /\ batch' = [batch EXCEPT ![w] = @ \ {c}]
          /\ began' = [began EXCEPT ![w] = clock]
          /\ UNCHANGED <<pc, job, verdict, settleLost>>
       \/ /\ pc[w] = "settle"
          /\ AttemptOver(w)
          /\ LoseSettle(w)
    /\ UNCHANGED <<clock, queueVars, emitVars, now, started, lastPrune, acked>>

PassOver(w) ==
    /\ pc' = [pc EXCEPT ![w] = "idle"]
    /\ now' = [now EXCEPT ![w] = 0]
    /\ started' = [started EXCEPT ![w] = 0]
    /\ began' = [began EXCEPT ![w] = 0]

\* _maybe_prune at the end of the pass, at most once per PruneInterval; the
\* DELETE itself may fail, the attempt at it still counts.
FinishPass(w) ==
    /\ pc[w] = "pass"
    /\ batch[w] = {}
    /\ IF lastPrune[w] # NULL /\ now[w] - lastPrune[w] < PruneInterval
       THEN UNCHANGED <<lastPrune, row>>
       ELSE /\ lastPrune' = [lastPrune EXCEPT ![w] = now[w]]
            /\ row' \in {row, [e \in Entry |->
                                 IF /\ row[e].status = "delivered"
                                    /\ row[e].settledAt < now[w] - Retention
                                 THEN Removed ELSE row[e]]}
    /\ PassOver(w)
    /\ UNCHANGED <<clock, subs, log, emitVars, batch, job, verdict, history>>

\* The process dies: what the worker held is forgotten, its leases are not.
Crash(w) ==
    /\ w \in Mortal
    /\ pc[w] # "down"
    /\ pc' = [pc EXCEPT ![w] = "down"]
    /\ now' = [now EXCEPT ![w] = 0]
    /\ started' = [started EXCEPT ![w] = 0]
    /\ began' = [began EXCEPT ![w] = 0]
    /\ batch' = [batch EXCEPT ![w] = {}]
    /\ job' = [job EXCEPT ![w] = NULL]
    /\ verdict' = [verdict EXCEPT ![w] = "none"]
    /\ lastPrune' = [lastPrune EXCEPT ![w] = NULL]
    /\ LoseSettle(w)
    /\ UNCHANGED <<clock, queueVars, emitVars, acked>>

Start(w) ==
    /\ pc[w] = "down"
    /\ pc' = [pc EXCEPT ![w] = "idle"]
    /\ UNCHANGED <<clock, queueVars, emitVars, passVars, batch, job, verdict,
                   lastPrune, history>>

-----------------------------------------------------------------------------
WorkerStep(w) ==
    \/ ClaimDue(w) \/ LookUp(w) \/ Post(w) \/ RecordDelivery(w)
    \/ MarkDelivered(w) \/ Abandon(w) \/ Reschedule(w) \/ AttemptFails(w)
    \/ FinishPass(w) \/ Start(w)

Next ==
    \/ Tick
    \/ \E o \in Occurrence : LookUpSubscribers(o)
    \/ \E o \in Occurrence, s \in Subscription : Enqueue(o, s)
    \/ \E s \in Subscription : SetActive(s) \/ DeleteSubscription(s)
    \/ \E e \in Entry : Requeue(e)
    \/ \E w \in Worker : WorkerStep(w) \/ Crash(w)

Spec == Init /\ [][Next]_vars

\* Time passes, and a running worker thread keeps running.
FairSpec == Spec /\ WF_vars(Tick) /\ \A w \in Worker : WF_vars(WorkerStep(w))

-----------------------------------------------------------------------------
(* What is expected of it.                                                 *)

TypeOK ==
    /\ clock \in Int
    /\ subs \in [Subscription -> {"active", "paused", "deleted"}]
    /\ row \in [Entry -> Row]
    /\ log \in [Entry -> SUBSET [status : {"delivered", "failed"}, attempts : Nat]]
    /\ dispatched \in SUBSET Occurrence
    /\ fan \in [Occurrence -> SUBSET Subscription]
    /\ pc \in [Worker -> {"down", "idle", "pass", "post", "answered", "settle"}]
    /\ now \in [Worker -> Int]
    /\ started \in [Worker -> Int]
    /\ began \in [Worker -> Int]
    /\ batch \in [Worker -> SUBSET Claimed]
    /\ job \in [Worker -> Claimed \cup {NULL}]
    /\ verdict \in [Worker -> Verdicts]
    /\ lastPrune \in [Worker -> Int \cup {NULL}]
    /\ acked \in [Entry -> BOOLEAN]
    /\ settleLost \in [Entry -> BOOLEAN]

\* The entries a worker claimed in this pass and has not finished with.
Held(w) == {c.id : c \in batch[w]}

\* Two workers never work on one row: while one is between claiming a row and
\* settling it, no other claims it, although leases expire by the clock and
\* nothing checks the lease again before the request or the settle.
ExclusiveClaim ==
    \A w1, w2 \in Worker : w1 # w2 => Held(w1) \cap Held(w2) = {}

\* The schedule is bounded: no row is ever due for an attempt beyond
\* MaxAttempts, whatever stale workers, pauses and redeliveries write over it.
AttemptsWithinSchedule ==
    \A e \in Entry :
        /\ row[e].attempts <= MaxAttempts
        /\ row[e].status = "pending" => row[e].attempts < MaxAttempts

\* A row says delivered only if the endpoint answered 2xx to that event.
DeliveredWasAcked ==
    \A e \in Entry : row[e].status = "delivered" => acked[e]

\* Nothing is given up early: an abandoned row used its whole schedule.  A
\* worker that finds the subscription gone abandons the row too, but deleting it
\* took the row, and the update meets nothing.
AbandonedForCause ==
    \A e \in Entry : row[e].status = "abandoned" => row[e].attempts = MaxAttempts

\* Several instances share the queue without double-delivering: an event the
\* endpoint acknowledged is sent again only if that answer was never recorded
\* (its worker died, or the store refused the settle).
DuplicateOnlyAfterLostSettle ==
    \A w \in Worker :
        pc[w] = "post" /\ acked[job[w].id] => settleLost[job[w].id]

\* The queue keeps the promise of WebhookDelivery: nothing written down is
\* lost or settled twice, a settled row changes only by redelivery, retention
\* or the deletion of its subscription, and only an acknowledged one is
\* delivered.
Promise == INSTANCE WebhookDelivery WITH
    phase <- [e \in Entry |-> row[e].status],
    deleted <- {s \in Subscription : subs[s] = "deleted"}
KeepsPromise == Promise!Spec

-----------------------------------------------------------------------------
(* Progress.                                                               *)

\* A row that is due, and free to be claimed, before time stops.
ClaimableInTime(e) ==
    /\ row[e].status = "pending"
    /\ row[e].nextAt <= Horizon - Skew
    /\ row[e].leasedUntil = NULL \/ row[e].leasedUntil <= Horizon - Skew

\* A due row is attempted: as long as one worker survives, no row stays due
\* forever, even one whose worker died holding its lease.
DueIsAttempted == \A e \in Entry : ClaimableInTime(e) ~> ~ClaimableInTime(e)
=============================================================================
