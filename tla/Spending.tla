------------------------------ MODULE Spending ------------------------------
(***************************************************************************)
(* What ModelCalls is about: ceilings, usage records and their sums, what  *)
(* the processes remember of them, where each request stands; and what the *)
(* budget promises of the requests it admits and refuses.  Its names are   *)
(* not those of BudgetAlerts, which has the same ceilings and records from *)
(* the side of the announcements, so that one module can speak of both.    *)
(***************************************************************************)
EXTENDS Integers, FiniteSets

CONSTANTS
    Server,       \* instances of the application
    Caller,       \* bound: the requests made
    Org,          \* organisations, each with one principal
    Ceilings,     \* the budgets an owner may set: [limit, action]
    Costs,        \* what one answer may cost
    Cache,        \* budget_cache_seconds
    PeriodLength, \* a calendar month
    RateWindow, RateMax,  \* rate_limit_window_seconds, rate_limit_max
    Hints,        \* the cool-offs a provider may ask for; None when it names none
    Margin, DefaultHint, MaxSleep, MaxWait,  \* groq_provider.py:31-37,178-181
    MaxCalls,     \* bound: model calls of one request
    LastMoment,   \* bound: the clock
    MaxFaults,    \* bound: failures of stores and the provider, and crashes
    None          \* None

ASSUME ModelCallsAssumption ==
    /\ Cache \in Nat \ {0} /\ PeriodLength \in Nat \ {0}
    /\ RateWindow \in Nat \ {0} /\ RateMax \in Nat \ {0}
    /\ Costs \subseteq Nat /\ Costs # {} /\ Hints \subseteq Nat \cup {None}
    /\ Ceilings \subseteq [limit : Nat, action : {"warn", "block"}]
    /\ {Margin, DefaultHint, MaxSleep} \subseteq Nat \ {0} /\ MaxWait \in Nat
    /\ MaxCalls \in Nat /\ LastMoment \in Nat /\ MaxFaults \in Nat
    /\ None \notin Nat \cup Ceilings

Steps == {"free", "set", "invalidate", "status", "spend", "remember",
          "generate", "sleep", "meter", "over"}
Answers == {"none", "answered", "rate_limited", "budget_exceeded", "failed"}

VARIABLES
    now,        \* the clock
    budgets,    \* spend_budgets: the ceiling of each organisation
    usage,      \* usage_records, with when each was committed
    counters,   \* Redis: requests counted in the current window
    cached,     \* what each process remembers of each organisation's spend
    pc, job,    \* what each request is about to do, where, for whom and why
    standing,   \* the Budget_Status it is judged by
    waited,     \* how long its current call has waited out rate limits
    calls,      \* the model calls it has made
    answer,     \* what its caller was told
    faults

-----------------------------------------------------------------------------
\* The records of a period, and those of them a report at a moment has.
PeriodOf(t) == t \div PeriodLength
InPeriod(o, moment)    == {u \in usage : u.org = o /\ PeriodOf(u.at) = PeriodOf(moment)}
UsageReport(o, moment) == {u \in InPeriod(o, moment) : u.at <= moment}
\* The sum of the costs, as the number of units charged: a record stands for
\* as many as it costs.
Total(records) == Cardinality(UNION {{u} \X (1..u.cost) : u \in records})

-----------------------------------------------------------------------------
\* Bounded overshoot: a run admitted under a blocking ceiling, by a spend that
\* was computed, overlooks only what was committed within the cache window
\* before it; all that was spent in its period before that stayed below the
\* ceiling (docs/KNOWN_LIMITATIONS.md:32-35, observability/budget.py:332-362).
AdmittedWithinWindow ==
    \A r \in Caller :
        LET s == standing[r]
            known == {u \in UsageReport(s.org, s.moment) : u.done + Cache <= s.moment}
        IN  /\ pc[r] \in {"generate", "sleep", "meter"} /\ s.measured
            /\ s.budget # None /\ s.budget.action = "block"
            => Total(known) < s.budget.limit

\* A run is refused only when its organisation had spent the ceiling in the
\* very period of the request: neither another period's total, kept by a cache,
\* nor another organisation's counts (observability/budget.py:276-287).
RefusedForCause ==
    \A r \in Caller : answer[r] = "budget_exceeded" =>
        LET s == standing[r]
        IN  s.budget.action = "block" /\ Total(InPeriod(s.org, s.moment)) >= s.budget.limit
=============================================================================
