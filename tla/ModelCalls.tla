----------------------------- MODULE ModelCalls -----------------------------
(***************************************************************************)
(* Spending: what a request passes before it may use the language model,   *)
(* the calls it makes and what they are charged. The rate limiter          *)
(* (enterprise/rate_limit.py) counts requests in Redis; the budget guard   *)
(* (observability/budget.py) reads the ceiling and a spend each process    *)
(* caches; the model provider (llm/groq_provider.py) waits out rate limits *)
(* of its own; every answer is metered (observability/usage) and so raises *)
(* the spend the next request is measured against.                         *)
(***************************************************************************)
EXTENDS Spending

vars == <<now, budgets, usage, counters, cached, pc, job, standing, waited,
          calls, answer, faults>>

Window      == now \div RateWindow
Cheapest == CHOOSE c \in Costs : \A d \in Costs : c <= d
Idle == [org |-> None, process |-> None, kind |-> "none"]
Unknown == [org |-> None, moment |-> 0, budget |-> None, spent |-> 0, measured |-> FALSE]

TypeOK ==
    /\ now \in 0..LastMoment /\ faults \in 0..MaxFaults
    /\ budgets \in [Org -> Ceilings \cup {None}]
    /\ \A u \in usage : /\ u.by \in Caller \cup {None} /\ u.n \in 0..MaxCalls /\ u.org \in Org
                        /\ u.cost \in Costs /\ u.at <= u.done /\ u.done <= now
    /\ \A p \in Server, o \in Org :
          cached[p][o] # None => cached[p][o].at <= now /\ cached[p][o].spent \in Nat
    /\ pc \in [Caller -> Steps] /\ answer \in [Caller -> Answers]
    /\ \A r \in Caller : waited[r] \in 0..MaxWait /\ calls[r] \in 0..MaxCalls

\* What the organisation may have spent before anything here is asked.
Init ==
    /\ now = 0 /\ faults = 0
    /\ \E earlier \in SUBSET Org :
          usage = {[by |-> None, n |-> 0, org |-> o, cost |-> Cheapest,
                    at |-> 0, done |-> 0] : o \in earlier}
    /\ budgets \in [Org -> Ceilings \cup {None}]
    /\ counters = [o \in Org |-> [window |-> 0, n |-> 0]]
    /\ cached = [p \in Server |-> [o \in Org |-> None]]
    /\ pc = [r \in Caller |-> "free"] /\ job = [r \in Caller |-> Idle]
    /\ standing = [r \in Caller |-> Unknown]
    /\ waited = [r \in Caller |-> 0] /\ calls = [r \in Caller |-> 0]
    /\ answer = [r \in Caller |-> "none"]

Proceed(r, step, s) == /\ pc' = [pc EXCEPT ![r] = step]
                       /\ standing' = [standing EXCEPT ![r] = s]
                       /\ UNCHANGED <<job, answer>>
Goto(r, step) == Proceed(r, step, standing[r])
\* The standing stays with a request that is refused by it.
End(r, told, s) == /\ pc' = [pc EXCEPT ![r] = "over"]
                   /\ answer' = [answer EXCEPT ![r] = told]
                   /\ standing' = [standing EXCEPT ![r] = s]
                   /\ job' = [job EXCEPT ![r] = Idle]
Reply(r, told) == End(r, told, Unknown)
Fault == faults < MaxFaults /\ faults' = faults + 1

-----------------------------------------------------------------------------
(* Admission.                                                              *)

\* INCR of the window's key: a new window starts at one.
Counted(o) ==
    [window |-> Window,
     n |-> IF counters[o].window = Window THEN counters[o].n + 1 ELSE 1]

\* A request with a valid credential is counted for its principal before
\* anything else: a run, a look at the budget, or an owner who sets it.
Arrive(r, o, p, kind) ==
    /\ pc[r] = "free"
    /\ counters' = [counters EXCEPT ![o] = Counted(o)]
    /\ \/ /\ Counted(o).n <= RateMax
          /\ job' = [job EXCEPT ![r] = [org |-> o, process |-> p, kind |-> kind]]
          /\ pc' = [pc EXCEPT ![r] = IF kind = "set" THEN "set" ELSE "status"]
          /\ UNCHANGED <<standing, answer>>
       \/ Counted(o).n > RateMax /\ Reply(r, "rate_limited")
    /\ UNCHANGED <<now, budgets, usage, cached, waited, calls, faults>>

\* PUT or DELETE /budget: one statement, then this process forgets what it
\* knows of the organisation, then the standing is computed afresh.
SetBudget(r) ==
    /\ pc[r] = "set"
    /\ \E b \in Ceilings \cup {None} : budgets' = [budgets EXCEPT ![job[r].org] = b]
    /\ Goto(r, "invalidate")
    /\ UNCHANGED <<now, usage, counters, cached, waited, calls, faults>>

Invalidate(r) ==
    /\ pc[r] = "invalidate"
    /\ cached' = [cached EXCEPT ![job[r].process][job[r].org] = None]
    /\ Goto(r, "status")
    /\ UNCHANGED <<now, budgets, usage, counters, waited, calls, faults>>

\* The moment the request is judged at, and the ceiling then.
ReadBudget(r) ==
    /\ pc[r] = "status"
    /\ Proceed(r, "spend", [Unknown EXCEPT !.org = job[r].org, !.moment = now,
                                           !.budget = budgets[job[r].org]])
    /\ UNCHANGED <<now, budgets, usage, counters, cached, waited, calls, faults>>

FreshForever(e, moment) == e # None /\ e.period = PeriodOf(moment)   \* Bug: the cache never expires
FreshAcrossPeriods(e, moment) == e # None /\ moment - e.at < Cache   \* Bug: the period is not part of the key
Fresh(e, moment) == e # None /\ e.period = PeriodOf(moment) /\ moment - e.at < Cache

Blocked(s) == s.budget # None /\ s.budget.action = "block" /\ s.spent >= s.budget.limit

\* enforce_budget refuses a run; a look, and the answer to an owner, only tell.
Decide(r, s) ==
    \/ job[r].kind # "run" /\ Reply(r, "answered")
    \/ job[r].kind = "run" /\ Blocked(s) /\ End(r, "budget_exceeded", s)
    \/ job[r].kind = "run" /\ ~ Blocked(s) /\ Proceed(r, "generate", s)

Cached(r) == cached[job[r].process][job[r].org]

\* The cached spend while it is fresh, else the sum of the period's records.
SpendFromCache(r) ==
    /\ pc[r] = "spend" /\ Fresh(Cached(r), standing[r].moment)
    /\ Decide(r, [standing[r] EXCEPT !.spent = Cached(r).spent, !.measured = TRUE])
    /\ UNCHANGED <<now, budgets, usage, counters, cached, waited, calls, faults>>

MeasureSpend(r) ==
    /\ pc[r] = "spend" /\ ~ Fresh(Cached(r), standing[r].moment)
    /\ Proceed(r, "remember",
          [standing[r] EXCEPT !.measured = TRUE,
                              !.spent = Total(UsageReport(job[r].org, standing[r].moment))])
    /\ UNCHANGED <<now, budgets, usage, counters, cached, waited, calls, faults>>

\* A spend that cannot be computed counts as zero and is not remembered.
FailOpen(r) ==
    /\ pc[r] = "spend" /\ ~ Fresh(Cached(r), standing[r].moment) /\ Fault
    /\ Decide(r, standing[r])
    /\ UNCHANGED <<now, budgets, usage, counters, cached, waited, calls>>

\* The one entry kept for the organisation, whatever was measured meanwhile.
Remember(r) ==
    /\ pc[r] = "remember"
    /\ cached' = [cached EXCEPT ![job[r].process][job[r].org] =
          [period |-> PeriodOf(standing[r].moment), at |-> standing[r].moment,
           spent |-> standing[r].spent]]
    /\ Decide(r, standing[r])
    /\ UNCHANGED <<now, budgets, usage, counters, waited, calls, faults>>

\* The store of ceilings fails, at the read or at the write, or the action of
\* an owner cannot be recorded: the request fails.
RequestFails(r) ==
    /\ pc[r] \in {"set", "invalidate", "status"} /\ Fault
    /\ Reply(r, "failed")
    /\ UNCHANGED <<now, budgets, usage, counters, cached, waited, calls>>

-----------------------------------------------------------------------------
(* The model and what it costs.                                            *)

Delay(hint) == LET asked == (IF hint \in {None, 0} THEN DefaultHint ELSE hint) + Margin
               IN  IF asked < MaxSleep THEN asked ELSE MaxSleep

\* The provider answers, with or without an error of its own.
Generate(r) ==
    /\ pc[r] = "generate"
    /\ calls' = [calls EXCEPT ![r] = @ + 1]
    /\ Goto(r, "meter")
    /\ UNCHANGED <<now, budgets, usage, counters, cached, waited, faults>>

GenerateFails(r) ==
    /\ pc[r] = "generate" /\ Fault
    /\ Reply(r, "failed")
    /\ UNCHANGED <<now, budgets, usage, counters, cached, waited, calls>>

WaitsUncounted(r, delay) == waited[r]   \* Bug: the time waited is not added up
Waits(r, delay) == waited[r] + delay

\* A 429 of the provider: wait as long as it asks, within the allowance.
RateLimited(r, hint) ==
    /\ pc[r] = "generate"
    /\ IF waited[r] + Delay(hint) > MaxWait
       THEN Reply(r, "failed") /\ UNCHANGED waited
       ELSE /\ waited' = [waited EXCEPT ![r] = Waits(r, Delay(hint))]
            /\ Goto(r, "sleep")
    /\ UNCHANGED <<now, budgets, usage, counters, cached, calls, faults>>

Wake(r) ==
    /\ pc[r] = "sleep" /\ Goto(r, "generate")
    /\ UNCHANGED <<now, budgets, usage, counters, cached, waited, calls, faults>>

\* After its answer a request is done, or calls the model again.
Onward(r) ==
    /\ waited' = [waited EXCEPT ![r] = 0]
    /\ \/ Reply(r, "answered")
       \/ calls[r] < MaxCalls /\ Goto(r, "generate")

\* The record has its time before it is committed.
Meter(r) ==
    /\ pc[r] = "meter"
    /\ \E cost \in Costs, at \in {now - 1, now} \cap Nat :
          usage' = usage \cup {[by |-> r, n |-> calls[r], org |-> job[r].org,
                                cost |-> cost, at |-> at, done |-> now]}
    /\ Onward(r)
    /\ UNCHANGED <<now, budgets, counters, cached, calls, faults>>

\* A record that cannot be written is dropped; the answer stands.
MeterFails(r) ==
    /\ pc[r] = "meter" /\ Fault
    /\ Onward(r)
    /\ UNCHANGED <<now, budgets, usage, counters, cached, calls>>

-----------------------------------------------------------------------------
\* An instance dies and starts again: its cache and its requests are gone.
Crash(p) ==
    /\ Fault
    /\ cached' = [cached EXCEPT ![p] = [o \in Org |-> None]]
    /\ LET Dies(r) == job[r].process = p
       IN  /\ pc' = [r \in Caller |-> IF Dies(r) THEN "over" ELSE pc[r]]
           /\ answer' = [r \in Caller |-> IF Dies(r) THEN "failed" ELSE answer[r]]
           /\ standing' = [r \in Caller |-> IF Dies(r) THEN Unknown ELSE standing[r]]
           /\ job' = [r \in Caller |-> IF Dies(r) THEN Idle ELSE job[r]]
    /\ UNCHANGED <<now, budgets, usage, counters, waited, calls>>

Tick ==
    /\ now < LastMoment /\ now' = now + 1
    /\ UNCHANGED <<budgets, usage, counters, cached, pc, job, standing, waited,
                   calls, answer, faults>>

Step(r) ==
    \/ \E o \in Org, p \in Server, kind \in {"run", "look", "set"} : Arrive(r, o, p, kind)
    \/ SetBudget(r) \/ Invalidate(r) \/ ReadBudget(r) \/ SpendFromCache(r)
    \/ MeasureSpend(r) \/ FailOpen(r) \/ Remember(r) \/ RequestFails(r)
    \/ Generate(r) \/ GenerateFails(r) \/ (\E hint \in Hints : RateLimited(r, hint))
    \/ Wake(r) \/ Meter(r) \/ MeterFails(r)

Next == Tick \/ (\E r \in Caller : Step(r)) \/ (\E p \in Server : Crash(p))

\* A request that is being served goes on; the provider may rate-limit it
\* every time, and nothing makes requests arrive or things fail.
Serves(r) == pc[r] # "free" /\ Step(r)

Spec == Init /\ [][Next]_vars /\ \A r \in Caller : WF_vars(Serves(r))

-----------------------------------------------------------------------------
\* A model call comes to an end although the provider answers 429 for ever:
\* the waits of one call are bounded together (llm/groq_provider.py:31-37).
ModelCallEnds ==
    \A r \in Caller : pc[r] \in {"generate", "sleep"} ~> pc[r] \notin {"generate", "sleep"}
=============================================================================
