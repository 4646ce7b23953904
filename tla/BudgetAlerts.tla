---------------------------- MODULE BudgetAlerts ----------------------------
(***************************************************************************)
(* Budget threshold announcements (observability/budget_alerts.py) with    *)
(* what they stand on: the ceiling and the cached spend of the guard       *)
(* (observability/budget.py), the requests that ask for a run              *)
(* (api/deps.py), and the handlers that change the ceiling                 *)
(* (api/routers/budget.py).                                                *)
(*                                                                         *)
(* One organisation.  Several processes share the PostgreSQL tables; each  *)
(* has a cache of the spend, a memo of what it announced, a bounded        *)
(* backlog and one announcing thread.  A request is a handler on its way   *)
(* from one store call to the next.                                        *)
(***************************************************************************)
EXTENDS Integers, Sequences, FiniteSets

CONSTANTS
    Process,        \* application instances
    Slot,           \* requests an instance handles at a time
    Mortal,         \* the processes that may die
    Threshold,      \* BUDGET_THRESHOLDS, percent
    Limit,          \* ceilings an owner may set
    SpendLevel,     \* sums the usage records of a period may come to
    MaxQueued,      \* _MAX_QUEUED_ANNOUNCEMENTS
    AuditRequired,  \* AUDIT_REQUIRED: a refused audit write fails the request
    LastPeriod,     \* bound: months
    MaxEdits,       \* bound: changes of the ceiling
    MaxFailures,    \* bound: fan-outs that fail
    NULL            \* no budget / nothing cached

ASSUME AlertsAssumption ==
    /\ Threshold \subseteq Nat \ {0}
    /\ Limit \subseteq Nat
    /\ SpendLevel \subseteq Nat
    /\ 0 \in SpendLevel
    /\ MaxQueued \in Nat
    /\ AuditRequired \in BOOLEAN
    /\ LastPeriod \in Nat \ {0}
    /\ MaxEdits \in Nat
    /\ MaxFailures \in Nat
    /\ Mortal \subseteq Process
    /\ NULL \notin Nat

Request == Process \X Slot
Home(r) == r[1]

Period == 1..LastPeriod

\* What is claimed: the announcement of one threshold in one period.
Key == Period \X Threshold

\* Budget_Status: spend_is_authoritative is known.
Status == [period : Period, limit : Limit \cup {NULL}, spent : Nat, known : BOOLEAN]

VARIABLES
    period,    \* the calendar month it is
    limit,     \* spend_budgets: the ceiling
    spent,     \* what the usage records of each period come to
    claims,    \* budget_notifications
    cache,     \* per process: the guard's cached spend
    memo,      \* per process: the keys marked as announced
    backlog,   \* per process: dispatched and not begun
    step,      \* where each request is
    role,      \* "run", or "set" or "remove" for a change of the ceiling
    snap,      \* the status a request computes
    fresh,     \* its spend was computed, not cached
    say,       \* where each announcing thread is
    talk,      \* the status it announces
    todo,      \* thresholds it is still to turn to
    at,        \* the key it has claimed and not finished with
    edits,     \* history: changes of the ceiling so far
    failures,  \* history: fan-outs that failed so far
    told,      \* history: complete fan-outs of each key
    adrift     \* history: claims that stand for one of the two causes below

guardVars == <<period, limit, spent, cache>>
reqVars   == <<step, role, snap, fresh>>
sayVars   == <<say, talk, todo, at>>
history   == <<edits, failures, told, adrift>>
vars == <<period, limit, spent, claims, cache, memo, backlog, step, role, snap,
          fresh, say, talk, todo, at, edits, failures, told, adrift>>

Init ==
    /\ period = 1
    /\ limit \in Limit \cup {NULL}
    /\ spent = [m \in Period |-> 0]
    /\ claims = {}
    /\ cache = [p \in Process |-> NULL]
    /\ memo = [p \in Process |-> {}]
    /\ backlog = [p \in Process |-> <<>>]
    /\ step = [r \in Request |-> "idle"]
    /\ role = [r \in Request |-> "run"]
    /\ snap = [r \in Request |-> NULL]
    /\ fresh = [r \in Request |-> FALSE]
    /\ say = [p \in Process |-> "idle"]
    /\ talk = [p \in Process |-> NULL]
    /\ todo = [p \in Process |-> {}]
    /\ at = [p \in Process |-> NULL]
    /\ edits = 0
    /\ failures = 0
    /\ told = [k \in Key |-> 0]
    /\ adrift = {}

-----------------------------------------------------------------------------
(* The world: metered work goes on, months pass, cached figures expire.    *)

Meter ==
    /\ \E s \in SpendLevel : /\ s > spent[period]
                             /\ spent' = [spent EXCEPT ![period] = s]
    /\ UNCHANGED <<period, limit, claims, cache, memo, backlog, reqVars, sayVars,
                   history>>

Rollover ==
    /\ period < LastPeriod
    /\ period' = period + 1
    /\ UNCHANGED <<limit, spent, claims, cache, memo, backlog, reqVars, sayVars,
                   history>>

\* The cached figure is older than budget_cache_seconds.
CacheExpires(p) ==
    /\ cache[p] # NULL
    /\ cache' = [cache EXCEPT ![p] = NULL]
    /\ UNCHANGED <<period, limit, spent, claims, memo, backlog, reqVars, sayVars,
                   history>>

-----------------------------------------------------------------------------
(* crossed_thresholds and pending.                                         *)

Crossed(sum, ceiling) ==
    {t \in Threshold : /\ ceiling # NULL
                       /\ ceiling = 0 => t = 100
                       /\ 100 * sum >= t * ceiling}

KeysOf(status) == {<<status.period, t>> : t \in Crossed(status.spent, status.limit)}

Pending(p, status) ==
    {t \in Crossed(status.spent, status.limit) :
        status.known /\ <<status.period, t>> \notin memo[p]}

-----------------------------------------------------------------------------
(* Requests.                                                               *)

\* Budget_Guard.status, first half: the period is computed, the budget read.
ReadBudget(r) ==
    snap' = [snap EXCEPT ![r] = [period |-> period, limit |-> limit,
                                 spent |-> 0, known |-> FALSE]]

\* A run is asked for: enforce_budget.
AskForRun(r) ==
    /\ step[r] = "idle"
    /\ step' = [step EXCEPT ![r] = "spend"]
    /\ ReadBudget(r)
    /\ UNCHANGED <<guardVars, claims, memo, backlog, role, fresh, sayVars, history>>

\* PUT or DELETE /budget: the one statement on spend_budgets.
EditBudget(r, ceiling) ==
    /\ step[r] = "idle"
    /\ edits < MaxEdits
    /\ edits' = edits + 1
    /\ limit' = ceiling
    /\ step' = [step EXCEPT ![r] = "budget"]
    /\ role' = [role EXCEPT ![r] = IF ceiling = NULL THEN "remove" ELSE "set"]
    /\ UNCHANGED <<period, spent, claims, cache, memo, backlog, snap, fresh, sayVars,
                   failures, told, adrift>>

\* Back to idle; nothing a request knew is kept.
RequestOver(r) ==
    /\ step' = [step EXCEPT ![r] = "idle"]
    /\ role' = [role EXCEPT ![r] = "run"]
    /\ snap' = [snap EXCEPT ![r] = NULL]
    /\ fresh' = [fresh EXCEPT ![r] = FALSE]

\* The cached spend is dropped and the status read anew.
Remeasure(r) ==
    /\ step[r] = "budget"
    /\ cache' = [cache EXCEPT ![Home(r)] = NULL]
    /\ ReadBudget(r)
    /\ step' = [step EXCEPT ![r] = "spend"]
    /\ UNCHANGED <<period, limit, spent, claims, memo, backlog, role, fresh, sayVars,
                   history>>

\* PUT only: the audit write between the change and its reconciliation raises.
AuditFails(r) ==
    /\ AuditRequired
    /\ step[r] = "budget"
    /\ role[r] = "set"
    /\ cache' = [cache EXCEPT ![Home(r)] = NULL]
    /\ RequestOver(r)
    /\ adrift' = adrift \cup claims
    /\ UNCHANGED <<period, limit, spent, claims, memo, backlog, sayVars, edits,
                   failures, told>>

\* Budget_Guard.status, second half: the cached figure of this period, else
\* the sum over the usage records, else a zero that is no figure.
ReadSpend(r) ==
    /\ step[r] = "spend"
    /\ step' = [step EXCEPT ![r] = "decide"]
    /\ LET held == cache[Home(r)]
           measured(s, known) ==
               snap' = [snap EXCEPT ![r] = [period |-> snap[r].period,
                                            limit |-> snap[r].limit,
                                            spent |-> s, known |-> known]]
       IN  IF held # NULL /\ held.period = snap[r].period
           THEN measured(held.spent, TRUE) /\ UNCHANGED fresh
           ELSE \/ /\ measured(spent[snap[r].period], TRUE)
                   /\ fresh' = [fresh EXCEPT ![r] = TRUE]
                \/ measured(0, FALSE) /\ UNCHANGED fresh
    /\ UNCHANGED <<guardVars, claims, memo, backlog, role, sayVars, history>>

\* A computed figure is cached, in place of whatever was.
Remember(r) ==
    cache' = IF fresh[r]
             THEN [cache EXCEPT ![Home(r)] = [period |-> snap[r].period,
                                              spent |-> snap[r].spent]]
             ELSE cache

\* Futures the alert service counts as outstanding.
Outstanding(p) == Len(backlog[p]) + (IF say[p] = "idle" THEN 0 ELSE 1)

\* The run is let in or refused; either way what is pending is dispatched, or
\* dropped when the backlog is full.
Decide(r) ==
    /\ step[r] = "decide"
    /\ role[r] = "run"
    /\ Remember(r)
    /\ LET p == Home(r) IN
       backlog' = IF Pending(p, snap[r]) # {} /\ Outstanding(p) < MaxQueued
                  THEN [backlog EXCEPT ![p] = Append(@, snap[r])]
                  ELSE backlog
    /\ RequestOver(r)
    /\ UNCHANGED <<period, limit, spent, claims, memo, sayVars, history>>

\* Bug: the month is not looked at, or rather the wrong ones are.
StaleElsewhere(status, keys) ==
    {k \in keys : k[1] # status.period /\ k \notin KeysOf(status)}

\* Claims of the period that its new standing does not cross.
Stale(status, keys) ==
    {k \in keys : k[1] = status.period /\ k \notin KeysOf(status)}

\* reconcile, the store: release_except, unless the spend is unknown or the
\* store refuses.  Against the ceiling of now it leaves nothing adrift of its
\* month.
Reconcile(r) ==
    /\ step[r] = "decide"
    /\ role[r] # "run"
    /\ Remember(r)
    /\ \/ /\ snap[r].known
          /\ claims' = claims \ Stale(snap[r], claims)
          /\ adrift' = {k \in adrift \cap claims' : snap[r].limit = limit =>
                                                     k[1] # snap[r].period}
          /\ step' = [step EXCEPT ![r] = "forget"]
          /\ UNCHANGED <<role, snap, fresh>>
       \/ /\ adrift' = adrift \cup claims
          /\ RequestOver(r)
          /\ UNCHANGED claims
    /\ UNCHANGED <<period, limit, spent, memo, backlog, sayVars, edits, failures, told>>

\* reconcile, the memo: of this process only.
Forget(r) ==
    /\ step[r] = "forget"
    /\ LET p == Home(r) IN
       memo' = [memo EXCEPT ![p] = @ \ Stale(snap[r], @)]
    /\ RequestOver(r)
    /\ UNCHANGED <<guardVars, claims, backlog, sayVars, history>>

-----------------------------------------------------------------------------
(* The announcing thread.                                                  *)

\* announce begins: what is still pending, and only if the ceiling is still
\* the one measured against, or cannot be read.
Begin(p) ==
    /\ say[p] = "idle"
    /\ backlog[p] # <<>>
    /\ LET status == Head(backlog[p])
           due == Pending(p, status)
       IN  \/ /\ due # {}
              /\ say' = [say EXCEPT ![p] = "claim"]
              /\ talk' = [talk EXCEPT ![p] = status]
              /\ todo' = [todo EXCEPT ![p] = due]
              /\ UNCHANGED at
           \/ /\ due = {} \/ status.limit # limit
              /\ UNCHANGED sayVars
    /\ backlog' = [backlog EXCEPT ![p] = Tail(@)]
    /\ UNCHANGED <<guardVars, claims, memo, reqVars, history>>

\* The loop is at an end when no threshold is left.
Onward(p, left) ==
    /\ say' = [say EXCEPT ![p] = IF left = {} THEN "idle" ELSE "claim"]
    /\ talk' = [talk EXCEPT ![p] = IF left = {} THEN NULL ELSE talk[p]]
    /\ todo' = [todo EXCEPT ![p] = left]
    /\ at' = [at EXCEPT ![p] = NULL]

\* The claim is this thread's, and the fan-out is next.
Granted(p, k) ==
    /\ claims' = claims \cup {k}
    /\ adrift' = IF talk[p].limit = limit THEN adrift ELSE adrift \cup {k}
    /\ say' = [say EXCEPT ![p] = "enqueue"]
    /\ at' = [at EXCEPT ![p] = k]
    /\ todo' = [todo EXCEPT ![p] = @ \ {k[2]}]
    /\ UNCHANGED talk

Lowest(S) == {t \in S : \A u \in S : t <= u}

\* Bug: the insert is looked at for errors only, not for whether it inserted.
ClaimUnlessRefused(p) ==
    /\ say[p] = "claim"
    /\ \E t \in Lowest(todo[p]) :
          \/ Granted(p, <<talk[p].period, t>>)
          \/ Onward(p, todo[p] \ {t}) /\ UNCHANGED <<claims, adrift>>
    /\ UNCHANGED <<guardVars, memo, backlog, reqVars, edits, failures, told>>

\* The lowest threshold left: INSERT ... ON CONFLICT DO NOTHING is granted,
\* lost to whoever has it, or refused.
Claim(p) ==
    /\ say[p] = "claim"
    /\ \E t \in Lowest(todo[p]) : LET k == <<talk[p].period, t>> IN
          \/ k \notin claims /\ Granted(p, k)
          \/ Onward(p, todo[p] \ {t}) /\ UNCHANGED <<claims, adrift>>
    /\ UNCHANGED <<guardVars, memo, backlog, reqVars, edits, failures, told>>

\* dispatch_budget_threshold_crossed: all of the fan-out, or it failed
\* somewhere, having reached none or some.
Enqueue(p) ==
    /\ say[p] = "enqueue"
    /\ \/ /\ told' = [told EXCEPT ![at[p]] = @ + 1]
          /\ say' = [say EXCEPT ![p] = "settle"]
          /\ UNCHANGED failures
       \/ /\ failures < MaxFailures
          /\ failures' = failures + 1
          /\ say' = [say EXCEPT ![p] = "release"]
          /\ UNCHANGED told
    /\ UNCHANGED <<guardVars, claims, memo, backlog, reqVars, talk, todo, at, edits,
                   adrift>>

\* _clear_attempts: announced, not to be looked at again in this period.
Settle(p) ==
    /\ say[p] = "settle"
    /\ memo' = [memo EXCEPT ![p] = @ \cup {at[p]}]
    /\ Onward(p, todo[p])
    /\ UNCHANGED <<guardVars, claims, backlog, reqVars, history>>

\* _release: the claim is given back by key, whoever's it is by now, unless
\* the store refuses.
Release(p) ==
    /\ say[p] = "release"
    /\ claims' \in {claims, claims \ {at[p]}}
    /\ adrift' = adrift \cap claims'
    /\ Onward(p, todo[p])
    /\ UNCHANGED <<guardVars, memo, backlog, reqVars, edits, failures, told>>

\* The process dies, and another takes its place with nothing in memory.
Crash(p) ==
    /\ p \in Mortal
    /\ cache' = [cache EXCEPT ![p] = NULL]
    /\ memo' = [memo EXCEPT ![p] = {}]
    /\ backlog' = [backlog EXCEPT ![p] = <<>>]
    /\ step' = [r \in Request |-> IF Home(r) = p THEN "idle" ELSE step[r]]
    /\ role' = [r \in Request |-> IF Home(r) = p THEN "run" ELSE role[r]]
    /\ snap' = [r \in Request |-> IF Home(r) = p THEN NULL ELSE snap[r]]
    /\ fresh' = [r \in Request |-> IF Home(r) = p THEN FALSE ELSE fresh[r]]
    /\ say' = [say EXCEPT ![p] = "idle"]
    /\ talk' = [talk EXCEPT ![p] = NULL]
    /\ todo' = [todo EXCEPT ![p] = {}]
    /\ at' = [at EXCEPT ![p] = NULL]
    /\ adrift' = IF \E r \in Request : /\ Home(r) = p /\ role[r] # "run"
                                       /\ step[r] # "forget"
                 THEN adrift \cup claims ELSE adrift
    /\ UNCHANGED <<period, limit, spent, claims, edits, failures, told>>

-----------------------------------------------------------------------------
Next ==
    \/ Meter \/ Rollover
    \/ \E p \in Process : \/ CacheExpires(p) \/ Begin(p) \/ Claim(p) \/ Enqueue(p)
                          \/ Settle(p) \/ Release(p) \/ Crash(p)
    \/ \E r \in Request : \/ AskForRun(r) \/ Remeasure(r) \/ AuditFails(r)
                          \/ ReadSpend(r) \/ Decide(r) \/ Reconcile(r) \/ Forget(r)
                          \/ \E ceiling \in Limit \cup {NULL} : EditBudget(r, ceiling)

Spec == Init /\ [][Next]_vars

-----------------------------------------------------------------------------
(* What is expected of it.                                                 *)

TypeOK ==
    /\ period \in Period
    /\ limit \in Limit \cup {NULL}
    /\ spent \in [Period -> Nat]
    /\ claims \in SUBSET Key
    /\ cache \in [Process -> [period : Period, spent : Nat] \cup {NULL}]
    /\ memo \in [Process -> SUBSET Key]
    /\ backlog \in [Process -> Seq(Status)]
    /\ step \in [Request -> {"idle", "budget", "spend", "decide", "forget"}]
    /\ role \in [Request -> {"run", "set", "remove"}]
    /\ snap \in [Request -> Status \cup {NULL}]
    /\ fresh \in [Request -> BOOLEAN]
    /\ say \in [Process -> {"idle", "claim", "enqueue", "settle", "release"}]
    /\ talk \in [Process -> Status \cup {NULL}]
    /\ todo \in [Process -> SUBSET Threshold]
    /\ at \in [Process -> Key \cup {NULL}]
    /\ edits \in Nat
    /\ failures \in Nat
    /\ told \in [Key -> Nat]
    /\ adrift \in SUBSET Key

\* A condition that stays true is announced once: whatever number of requests
\* on whatever number of processes observe a crossing, and whichever of them
\* die, it is told again only for a changed ceiling or a failed fan-out.
RepeatedOnlyForCause ==
    \A k \in Key : told[k] <= 1 + edits + failures

\* A change of the ceiling between its write and its reconciliation.
Editing(r) == role[r] # "run" /\ step[r] \in {"budget", "spend", "decide"}

\* A claim that no crossing justifies silences the crossing to come, which the
\* code's comments (budget_alerts.py:316-318, 413-415) take for impossible.  Outside a
\* change of the ceiling one stands for two causes only, and at the longest until
\* the next change is reconciled: it was taken after the ceiling it was measured
\* against had changed, or a change was not reconciled (its process died, its
\* audit write or the store was refused, the spend was unknown).
StrayClaimHasCause ==
    (\A r \in Request : ~Editing(r)) =>
        \A k \in claims : k[1] = period =>
            k[2] \in Crossed(spent[period], limit) \/ k \in adrift
=============================================================================
