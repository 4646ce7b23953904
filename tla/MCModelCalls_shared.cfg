\* Two requests over two periods whose model calls may be rate-limited again and again.
SPECIFICATION Spec
CONSTANTS
    None = None
    Server = {p1}
    Caller = {r1, r2}
    Org = {o1}
    Ceilings <- MCCeilings
    Costs = {1}
    Cache = 2
    PeriodLength = 3
    RateWindow = 1
    RateMax = 1
    Hints = {None, 9}
    Margin = 1
    DefaultHint = 2
    MaxSleep = 4
    MaxWait = 6
    MaxCalls = 1
    LastMoment = 3
    MaxFaults = 1
INVARIANTS AdmittedWithinWindow RefusedForCause
PROPERTIES ModelCallEnds
\* every request may be over
CHECK_DEADLOCK FALSE
