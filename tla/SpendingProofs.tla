--------------------------- MODULE SpendingProofs ---------------------------
(***************************************************************************)
(* What holds of the spend budget for every number of processes and        *)
(* requests, and without a bound on months, moments, calls or failures:    *)
(* first of BudgetAlerts, its announcements, for all thresholds and        *)
(* ceilings; then of ModelCalls, its guard, for every cache window, length *)
(* of the period and cost of an answer.                                    *)
(***************************************************************************)
EXTENDS BudgetAlerts, Spending, SequenceTheorems, FiniteSetTheorems, WellFoundedInduction, TLAPS

(***************************************************************************)
(* Whoever needs a status has one, and an announcing thread past its claim *)
(* has a key.                                                              *)
(***************************************************************************)
ShapeInv ==
    /\ \A r \in Request :
          /\ step[r] \in {"spend", "decide", "forget"} => snap[r] \in Status
          /\ fresh[r] => snap[r] \in Status
    /\ \A p \in Process :
          /\ say[p] # "idle" => talk[p] \in Status
          /\ say[p] \in {"enqueue", "settle", "release"} => at[p] \in Key

LEMMA TypeInit == Init => TypeOK /\ ShapeInv
<1> SUFFICES ASSUME Init PROVE TypeOK /\ ShapeInv
  OBVIOUS
<1> USE AlertsAssumption
<1>1. 1 \in Period
  BY DEF Period
<1>2. \A p \in Process : backlog[p] \in Seq(Status)
  BY EmptySeq DEF Init
<1>3. backlog \in [Process -> Seq(Status)]
  BY <1>2 DEF Init
<1>4. TypeOK
  BY <1>1, <1>3 DEF Init, TypeOK, Key
<1>5. ShapeInv
  BY DEF Init, ShapeInv
<1> QED
  BY <1>4, <1>5

(***************************************************************************)
(* What a request leaves behind is well typed.                             *)
(***************************************************************************)
LEMMA RequestOverType ==
    ASSUME TypeOK, NEW r \in Request, RequestOver(r)
    PROVE  /\ step' \in [Request -> {"idle", "budget", "spend", "decide", "forget"}]
           /\ role' \in [Request -> {"run", "set", "remove"}]
           /\ snap' \in [Request -> Status \cup {NULL}]
           /\ fresh' \in [Request -> BOOLEAN]
BY DEF TypeOK, RequestOver

LEMMA RequestOverShape ==
    ASSUME TypeOK, ShapeInv, NEW r \in Request, RequestOver(r)
    PROVE  \A q \in Request :
              /\ step'[q] \in {"spend", "decide", "forget"} => snap'[q] \in Status
              /\ fresh'[q] => snap'[q] \in Status
BY DEF TypeOK, ShapeInv, RequestOver

LEMMA RememberType ==
    ASSUME TypeOK, ShapeInv, NEW r \in Request, Remember(r)
    PROVE  cache' \in [Process -> [period : Period, spent : Nat] \cup {NULL}]
<1>1. CASE fresh[r]
  <2>1. snap[r] \in Status
    BY <1>1 DEF ShapeInv
  <2>2. [period |-> snap[r].period, spent |-> snap[r].spent]
          \in [period : Period, spent : Nat]
    BY <2>1 DEF Status
  <2> QED
    BY <1>1, <2>2 DEF Remember, TypeOK
<1>2. CASE ~fresh[r]
  BY <1>2 DEF Remember, TypeOK
<1> QED
  BY <1>1, <1>2

(***************************************************************************)
(* The announcing thread's variables, whenever it goes on.                 *)
(***************************************************************************)
LEMMA OnwardType ==
    ASSUME TypeOK, ShapeInv, NEW p \in Process, NEW left \in SUBSET Threshold,
           say[p] # "idle", Onward(p, left)
    PROVE  /\ say' \in [Process -> {"idle", "claim", "enqueue", "settle", "release"}]
           /\ talk' \in [Process -> Status \cup {NULL}]
           /\ todo' \in [Process -> SUBSET Threshold]
           /\ at' \in [Process -> Key \cup {NULL}]
           /\ \A q \in Process :
                 /\ say'[q] # "idle" => talk'[q] \in Status
                 /\ say'[q] \in {"enqueue", "settle", "release"} => at'[q] \in Key
BY DEF TypeOK, ShapeInv, Onward

LEMMA GrantedType ==
    ASSUME TypeOK, ShapeInv, NEW p \in Process, NEW k \in Key,
           say[p] # "idle", Granted(p, k)
    PROVE  /\ claims' \in SUBSET Key
           /\ adrift' \in SUBSET Key
           /\ say' \in [Process -> {"idle", "claim", "enqueue", "settle", "release"}]
           /\ talk' \in [Process -> Status \cup {NULL}]
           /\ todo' \in [Process -> SUBSET Threshold]
           /\ at' \in [Process -> Key \cup {NULL}]
           /\ \A q \in Process :
                 /\ say'[q] # "idle" => talk'[q] \in Status
                 /\ say'[q] \in {"enqueue", "settle", "release"} => at'[q] \in Key
BY DEF TypeOK, ShapeInv, Granted

(***************************************************************************)
(* Every step keeps the types and the shape.                               *)
(***************************************************************************)
LEMMA TypeStep == TypeOK /\ ShapeInv /\ [Next]_vars => TypeOK' /\ ShapeInv'
<1> SUFFICES ASSUME TypeOK, ShapeInv, [Next]_vars PROVE TypeOK' /\ ShapeInv'
  OBVIOUS
<1> USE AlertsAssumption
<1>0. \A r \in Request : Home(r) \in Process
  BY DEF Request, Home
<1>1. CASE UNCHANGED vars
  BY <1>1 DEF vars, TypeOK, ShapeInv
<1>2. CASE Meter
  <2>1. spent' \in [Period -> Nat]
    BY <1>2 DEF Meter, TypeOK
  <2> QED
    BY <1>2, <2>1 DEF Meter, reqVars, sayVars, history, TypeOK, ShapeInv
<1>3. CASE Rollover
  BY <1>3 DEF Rollover, reqVars, sayVars, history, TypeOK, ShapeInv, Period
<1>4. ASSUME NEW p \in Process, CacheExpires(p) PROVE TypeOK' /\ ShapeInv'
  BY <1>4 DEF CacheExpires, reqVars, sayVars, history, TypeOK, ShapeInv
<1>5. ASSUME NEW p \in Process, Begin(p) PROVE TypeOK' /\ ShapeInv'
  <2> DEFINE status == Head(backlog[p])
  <2>1. backlog[p] \in Seq(Status) /\ backlog[p] # <<>>
    BY <1>5 DEF Begin, TypeOK
  <2>2. status \in Status /\ Tail(backlog[p]) \in Seq(Status)
    BY <2>1, HeadTailProperties
  <2>3. Pending(p, status) \subseteq Threshold
    BY DEF Pending, Crossed
  <2>4. backlog' \in [Process -> Seq(Status)]
    BY <1>5, <2>2 DEF Begin, TypeOK
  <2> HIDE DEF status
  <2>5. /\ say' \in [Process -> {"idle", "claim", "enqueue", "settle", "release"}]
        /\ talk' \in [Process -> Status \cup {NULL}]
        /\ todo' \in [Process -> SUBSET Threshold]
        /\ at' = at
        /\ \A q \in Process :
              /\ say'[q] # "idle" => talk'[q] \in Status
              /\ say'[q] \in {"enqueue", "settle", "release"} => at'[q] \in Key
    <3>1. CASE /\ say' = [say EXCEPT ![p] = "claim"]
               /\ talk' = [talk EXCEPT ![p] = status]
               /\ todo' = [todo EXCEPT ![p] = Pending(p, status)]
               /\ UNCHANGED at
      <4>1. say[p] = "idle"
        BY <1>5 DEF Begin
      <4> QED
        BY <3>1, <4>1, <2>2, <2>3 DEF TypeOK, ShapeInv
    <3>2. CASE UNCHANGED sayVars
      BY <3>2 DEF sayVars, TypeOK, ShapeInv
    <3> QED
      BY <1>5, <3>1, <3>2 DEF Begin, status
  <2> QED
    BY <1>5, <2>4, <2>5 DEF Begin, guardVars, reqVars, history, TypeOK, ShapeInv
<1>6. ASSUME NEW p \in Process, Claim(p) PROVE TypeOK' /\ ShapeInv'
  <2>1. PICK t \in Lowest(todo[p]) :
           \/ Granted(p, <<talk[p].period, t>>)
           \/ Onward(p, todo[p] \ {t}) /\ UNCHANGED <<claims, adrift>>
    BY <1>6 DEF Claim
  <2>2. talk[p] \in Status /\ t \in Threshold /\ todo[p] \in SUBSET Threshold
    BY <1>6 DEF Claim, Lowest, TypeOK, ShapeInv
  <2>3. <<talk[p].period, t>> \in Key
    BY <2>2 DEF Status, Key
  <2>4. say[p] # "idle"
    BY <1>6 DEF Claim
  <2>5. /\ claims' \in SUBSET Key
        /\ adrift' \in SUBSET Key
        /\ say' \in [Process -> {"idle", "claim", "enqueue", "settle", "release"}]
        /\ talk' \in [Process -> Status \cup {NULL}]
        /\ todo' \in [Process -> SUBSET Threshold]
        /\ at' \in [Process -> Key \cup {NULL}]
        /\ \A q \in Process :
              /\ say'[q] # "idle" => talk'[q] \in Status
              /\ say'[q] \in {"enqueue", "settle", "release"} => at'[q] \in Key
    <3>1. CASE Granted(p, <<talk[p].period, t>>)
      BY <3>1, <2>3, <2>4, GrantedType
    <3>2. CASE Onward(p, todo[p] \ {t}) /\ UNCHANGED <<claims, adrift>>
      <4>1. todo[p] \ {t} \in SUBSET Threshold
        BY <2>2
      <4> QED
        BY <3>2, <4>1, <2>4, OnwardType DEF TypeOK
    <3> QED
      BY <2>1, <3>1, <3>2
  <2> QED
    BY <1>6, <2>5 DEF Claim, guardVars, reqVars, TypeOK, ShapeInv
<1>7. ASSUME NEW p \in Process, Enqueue(p) PROVE TypeOK' /\ ShapeInv'
  <2>1. at[p] \in Key /\ talk[p] \in Status
    BY <1>7 DEF Enqueue, ShapeInv
  <2>2. /\ told' \in [Key -> Nat]
        /\ failures' \in Nat
    <3>1. /\ [told EXCEPT ![at[p]] = @ + 1] \in [Key -> Nat]
          /\ failures + 1 \in Nat
      BY <2>1 DEF TypeOK
    <3> QED
      BY <1>7, <3>1 DEF Enqueue, TypeOK
  <2>3. /\ say' \in [Process -> {"idle", "claim", "enqueue", "settle", "release"}]
        /\ \A q \in Process :
              /\ say'[q] # "idle" => talk'[q] \in Status
              /\ say'[q] \in {"enqueue", "settle", "release"} => at'[q] \in Key
    BY <1>7, <2>1 DEF Enqueue, TypeOK, ShapeInv
  <2> QED
    BY <1>7, <2>2, <2>3 DEF Enqueue, guardVars, reqVars, TypeOK, ShapeInv
<1>8. ASSUME NEW p \in Process, Settle(p) PROVE TypeOK' /\ ShapeInv'
  <2>1. at[p] \in Key /\ todo[p] \in SUBSET Threshold /\ say[p] # "idle"
    BY <1>8 DEF Settle, TypeOK, ShapeInv
  <2>2. memo' \in [Process -> SUBSET Key]
    BY <1>8, <2>1 DEF Settle, TypeOK
  <2> QED
    BY <1>8, <2>1, <2>2, OnwardType
       DEF Settle, guardVars, reqVars, history, TypeOK, ShapeInv
<1>9. ASSUME NEW p \in Process, Release(p) PROVE TypeOK' /\ ShapeInv'
  <2>1. todo[p] \in SUBSET Threshold /\ say[p] # "idle"
    BY <1>9 DEF Release, TypeOK, ShapeInv
  <2>2. claims' \in SUBSET Key /\ adrift' \in SUBSET Key
    BY <1>9 DEF Release, TypeOK
  <2> QED
    BY <1>9, <2>1, <2>2, OnwardType DEF Release, guardVars, reqVars, TypeOK, ShapeInv
<1>10. ASSUME NEW p \in Process, Crash(p) PROVE TypeOK' /\ ShapeInv'
  <2>1. backlog' \in [Process -> Seq(Status)]
    BY <1>10, EmptySeq DEF Crash, TypeOK
  <2>2. /\ step' \in [Request -> {"idle", "budget", "spend", "decide", "forget"}]
        /\ role' \in [Request -> {"run", "set", "remove"}]
        /\ snap' \in [Request -> Status \cup {NULL}]
        /\ fresh' \in [Request -> BOOLEAN]
    BY <1>10 DEF Crash, TypeOK
  <2>3. ShapeInv'
    BY <1>10 DEF Crash, TypeOK, ShapeInv
  <2> QED
    BY <1>10, <2>1, <2>2, <2>3 DEF Crash, TypeOK
<1>11. ASSUME NEW r \in Request, AskForRun(r) PROVE TypeOK' /\ ShapeInv'
  <2>1. [period |-> period, limit |-> limit, spent |-> 0, known |-> FALSE] \in Status
    BY DEF Status, TypeOK
  <2> QED
    BY <1>11, <2>1
       DEF AskForRun, ReadBudget, guardVars, sayVars, history, TypeOK, ShapeInv
<1>12. ASSUME NEW r \in Request, Remeasure(r) PROVE TypeOK' /\ ShapeInv'
  <2>1. [period |-> period, limit |-> limit, spent |-> 0, known |-> FALSE] \in Status
    BY DEF Status, TypeOK
  <2>2. cache' \in [Process -> [period : Period, spent : Nat] \cup {NULL}]
    BY <1>0, <1>12 DEF Remeasure, TypeOK
  <2> QED
    BY <1>12, <2>1, <2>2
       DEF Remeasure, ReadBudget, sayVars, history, TypeOK, ShapeInv
<1>13. ASSUME NEW r \in Request, AuditFails(r) PROVE TypeOK' /\ ShapeInv'
  <2>1. cache' \in [Process -> [period : Period, spent : Nat] \cup {NULL}]
    BY <1>0, <1>13 DEF AuditFails, TypeOK
  <2>2. adrift' \in SUBSET Key
    BY <1>13 DEF AuditFails, TypeOK
  <2> QED
    BY <1>13, <2>1, <2>2, RequestOverType, RequestOverShape
       DEF AuditFails, sayVars, TypeOK, ShapeInv
<1>14. ASSUME NEW r \in Request, ReadSpend(r) PROVE TypeOK' /\ ShapeInv'
  <2>1. snap[r] \in Status
    BY <1>14 DEF ReadSpend, ShapeInv
  <2>2. PICK s \in Nat, known \in BOOLEAN :
           snap' = [snap EXCEPT ![r] = [period |-> snap[r].period,
                                        limit |-> snap[r].limit,
                                        spent |-> s, known |-> known]]
    BY <1>0, <1>14, <2>1 DEF ReadSpend, TypeOK, Status
  <2>3. [period |-> snap[r].period, limit |-> snap[r].limit, spent |-> s,
         known |-> known] \in Status
    BY <2>1 DEF Status
  <2>4. fresh' \in [Request -> BOOLEAN] /\ \A q \in Request \ {r} : fresh'[q] = fresh[q]
    BY <1>14 DEF ReadSpend, TypeOK
  <2> QED
    BY <1>14, <2>2, <2>3, <2>4
       DEF ReadSpend, guardVars, sayVars, history, TypeOK, ShapeInv
<1>15. ASSUME NEW r \in Request, Decide(r) PROVE TypeOK' /\ ShapeInv'
  <2>1. snap[r] \in Status
    BY <1>15 DEF Decide, ShapeInv
  <2>2. \A p \in Process : Append(backlog[p], snap[r]) \in Seq(Status)
    BY <2>1, AppendProperties DEF TypeOK
  <2>3. backlog' \in [Process -> Seq(Status)]
    BY <1>0, <1>15, <2>2 DEF Decide, TypeOK
  <2> QED
    BY <1>15, <2>3, RememberType, RequestOverType, RequestOverShape
       DEF Decide, sayVars, history, TypeOK, ShapeInv
<1>16. ASSUME NEW r \in Request, Reconcile(r) PROVE TypeOK' /\ ShapeInv'
  <2>1. cache' \in [Process -> [period : Period, spent : Nat] \cup {NULL}]
    BY <1>16, RememberType DEF Reconcile
  <2>2. claims' \in SUBSET Key /\ adrift' \in SUBSET Key
    BY <1>16 DEF Reconcile, TypeOK
  <2>3. /\ step' \in [Request -> {"idle", "budget", "spend", "decide", "forget"}]
        /\ role' \in [Request -> {"run", "set", "remove"}]
        /\ snap' \in [Request -> Status \cup {NULL}]
        /\ fresh' \in [Request -> BOOLEAN]
        /\ \A q \in Request :
              /\ step'[q] \in {"spend", "decide", "forget"} => snap'[q] \in Status
              /\ fresh'[q] => snap'[q] \in Status
    <3>1. CASE RequestOver(r)
      BY <3>1, RequestOverType, RequestOverShape
    <3>2. CASE step' = [step EXCEPT ![r] = "forget"] /\ UNCHANGED <<role, snap, fresh>>
      <4>1. snap[r] \in Status
        BY <1>16 DEF Reconcile, ShapeInv
      <4> QED
        BY <3>2, <4>1 DEF TypeOK, ShapeInv
    <3> QED
      BY <1>16, <3>1, <3>2 DEF Reconcile
  <2> QED
    BY <1>16, <2>1, <2>2, <2>3 DEF Reconcile, sayVars, TypeOK, ShapeInv
<1>17. ASSUME NEW r \in Request, Forget(r) PROVE TypeOK' /\ ShapeInv'
  <2>1. memo' \in [Process -> SUBSET Key]
    BY <1>0, <1>17 DEF Forget, Stale, TypeOK
  <2> QED
    BY <1>17, <2>1, RequestOverType, RequestOverShape
       DEF Forget, guardVars, sayVars, history, TypeOK, ShapeInv
<1>18. ASSUME NEW r \in Request, NEW ceiling \in Limit \cup {NULL}, EditBudget(r, ceiling)
       PROVE TypeOK' /\ ShapeInv'
  <2>1. role' \in [Request -> {"run", "set", "remove"}]
    BY <1>18 DEF EditBudget, TypeOK
  <2> QED
    BY <1>18, <2>1 DEF EditBudget, sayVars, TypeOK, ShapeInv
<1> QED
  BY <1>1, <1>2, <1>3, <1>4, <1>5, <1>6, <1>7, <1>8, <1>9, <1>10, <1>11, <1>12, <1>13,
     <1>14, <1>15, <1>16, <1>17, <1>18 DEF Next

(***************************************************************************)
(* Every variable keeps its type, whatever the processes do to each other. *)
(***************************************************************************)
THEOREM AlertsTypeCorrect == Spec => []TypeOK
<1>1. Init => TypeOK /\ ShapeInv
  BY TypeInit
<1>2. TypeOK /\ ShapeInv /\ [Next]_vars => (TypeOK /\ ShapeInv)'
  BY TypeStep
<1> QED
  BY <1>1, <1>2, PTL DEF Spec

(***************************************************************************)
(* A spend figure, wherever it is kept, is one the period did come to: the *)
(* spend of a period only grows, so it is never more than the spend now.   *)
(***************************************************************************)
Measured(figure) ==
    figure.period <= period /\ figure.spent <= spent[figure.period]

MeasureInv ==
    /\ \A r \in Request :
          step[r] \in {"spend", "decide", "forget"} \/ fresh[r] => Measured(snap[r])
    /\ \A p \in Process : cache[p] # NULL => Measured(cache[p])
    /\ \A p \in Process : \A i \in 1..Len(backlog[p]) : Measured(backlog[p][i])
    /\ \A p \in Process : say[p] # "idle" =>
          Measured(talk[p]) /\ todo[p] \subseteq Crossed(talk[p].spent, talk[p].limit)
    /\ \A k \in claims : k[1] <= period

LEMMA NothingShrinks ==
    ASSUME TypeOK, [Next]_vars
    PROVE  period <= period' /\ \A m \in Period : spent[m] <= spent'[m]
<1> USE AlertsAssumption
<1>1. CASE Meter
  <2>1. PICK s \in SpendLevel : s > spent[period] /\ spent' = [spent EXCEPT ![period] = s]
    BY <1>1 DEF Meter
  <2>2. /\ period' = period
        /\ period \in Period
        /\ spent \in [Period -> Nat]
        /\ s \in Nat
        /\ Period \subseteq Int
    BY <1>1 DEF Meter, TypeOK, Period
  <2>3. ASSUME NEW m \in Period PROVE spent[m] <= spent'[m]
    BY <2>1, <2>2
  <2> QED
    BY <2>2, <2>3
<1>2. CASE Rollover
  <2>1. period \in Int /\ spent \in [Period -> Nat]
    BY DEF TypeOK, Period
  <2> QED
    BY <1>2, <2>1 DEF Rollover
<1>3. CASE UNCHANGED <<period, spent>>
  BY <1>3 DEF TypeOK, Period
<1> QED
  BY <1>1, <1>2, <1>3
     DEF Next, vars, guardVars, CacheExpires, Begin, Claim, Enqueue, Settle, Release,
         Crash, AskForRun, Remeasure, AuditFails, ReadSpend, Decide, Reconcile, Forget,
         EditBudget

\* A figure that was measured stays so.
LEMMA MeasuredStays ==
    ASSUME TypeOK, TypeOK', [Next]_vars,
           NEW figure, figure.period \in Period, figure.spent \in Nat, Measured(figure)
    PROVE  figure.period <= period' /\ figure.spent <= spent'[figure.period]
BY NothingShrinks DEF Measured, TypeOK, Period

\* What was crossed stays crossed under the same ceiling.
LEMMA CrossedGrows ==
    ASSUME NEW low \in Nat, NEW high \in Nat, low <= high,
           NEW ceiling \in Limit \cup {NULL}
    PROVE  Crossed(low, ceiling) \subseteq Crossed(high, ceiling)
<1> SUFFICES ASSUME NEW t \in Crossed(low, ceiling) PROVE t \in Crossed(high, ceiling)
  OBVIOUS
<1>1. t \in Threshold /\ ceiling # NULL /\ ceiling \in Nat /\ t \in Nat
  BY AlertsAssumption DEF Crossed
<1> DEFINE share == t * ceiling
<1>2. share \in Nat /\ 100 * low >= share
  BY <1>1 DEF Crossed
<1> HIDE DEF share
<1>3. 100 * high >= share
  BY <1>2
<1> QED
  BY <1>1, <1>3 DEF Crossed, share

LEMMA MeasureInit == Init => MeasureInv
<1> SUFFICES ASSUME Init PROVE MeasureInv
  OBVIOUS
<1>1. \A p \in Process : Len(backlog[p]) = 0
  BY EmptySeq DEF Init
<1> QED
  BY <1>1 DEF Init, MeasureInv

(***************************************************************************)
(* What a request leaves behind, or caches, was measured.                  *)
(***************************************************************************)
LEMMA MeasureStep ==
    TypeOK /\ ShapeInv /\ MeasureInv /\ [Next]_vars => MeasureInv'
<1> SUFFICES ASSUME TypeOK, ShapeInv, MeasureInv, [Next]_vars PROVE MeasureInv'
  OBVIOUS
<1> USE AlertsAssumption
<1> DEFINE Aged(figure) == figure.period <= period' /\ figure.spent <= spent'[figure.period]
<1>0. \A r \in Request : Home(r) \in Process
  BY DEF Request, Home
<1>T. TypeOK' /\ ShapeInv'
  BY TypeStep
<1>A. ASSUME NEW figure, figure.period \in Period, figure.spent \in Nat, Measured(figure)
      PROVE  Aged(figure)
  BY <1>T, <1>A, MeasuredStays
<1>S. \A r \in Request :
         step[r] \in {"spend", "decide", "forget"} \/ fresh[r] => Aged(snap[r])
  <2> SUFFICES ASSUME NEW r \in Request,
                      step[r] \in {"spend", "decide", "forget"} \/ fresh[r]
               PROVE  Aged(snap[r])
    OBVIOUS
  <2>1. snap[r] \in Status /\ Measured(snap[r])
    BY DEF ShapeInv, MeasureInv
  <2> QED
    BY <2>1, <1>A DEF Status
<1>C. \A p \in Process : cache[p] # NULL => Aged(cache[p])
  <2> SUFFICES ASSUME NEW p \in Process, cache[p] # NULL PROVE Aged(cache[p])
    OBVIOUS
  <2>1. cache[p] \in [period : Period, spent : Nat] /\ Measured(cache[p])
    BY DEF TypeOK, MeasureInv
  <2> QED
    BY <2>1, <1>A
<1>B. \A p \in Process : \A i \in 1..Len(backlog[p]) : Aged(backlog[p][i])
  <2> SUFFICES ASSUME NEW p \in Process, NEW i \in 1..Len(backlog[p])
               PROVE  Aged(backlog[p][i])
    OBVIOUS
  <2>1. backlog[p] \in Seq(Status)
    BY DEF TypeOK
  <2>2. backlog[p][i] \in Status
    BY <2>1, ElementOfSeq
  <2>3. Measured(backlog[p][i])
    BY DEF MeasureInv
  <2> QED
    BY <2>2, <2>3, <1>A DEF Status
<1>K. \A p \in Process : say[p] # "idle" => Aged(talk[p])
  <2> SUFFICES ASSUME NEW p \in Process, say[p] # "idle" PROVE Aged(talk[p])
    OBVIOUS
  <2>1. talk[p] \in Status /\ Measured(talk[p])
    BY DEF ShapeInv, MeasureInv
  <2> QED
    BY <2>1, <1>A DEF Status
<1>W. \A p \in Process : say[p] # "idle" =>
         todo[p] \subseteq Crossed(talk[p].spent, talk[p].limit)
  BY DEF MeasureInv
<1>P. \A k \in claims : k[1] <= period'
  <2>1. period \in Int /\ period' \in Int /\ period <= period'
    <3>1. period \in Period
      BY DEF TypeOK
    <3>2. period' \in Period
      BY <1>T DEF TypeOK
    <3>3. period <= period'
      BY NothingShrinks
    <3> QED
      BY <3>1, <3>2, <3>3 DEF Period
  <2>2. \A k \in claims : k[1] \in Int /\ k[1] <= period
    BY DEF MeasureInv, TypeOK, Period, Key
  <2> QED
    BY <2>1, <2>2
<1> HIDE DEF Aged
<1> DEFINE SnapOK == \A r \in Request :
                        step'[r] \in {"spend", "decide", "forget"} \/ fresh'[r] => Aged(snap'[r])
           CacheOK == \A p \in Process : cache'[p] # NULL => Aged(cache'[p])
           BacklogOK == \A p \in Process : \A i \in 1..Len(backlog'[p]) : Aged(backlog'[p][i])
           TalkOK == \A p \in Process : say'[p] # "idle" =>
                        /\ Aged(talk'[p])
                        /\ todo'[p] \subseteq Crossed(talk'[p].spent, talk'[p].limit)
           ClaimsOK == \A k \in claims' : k[1] <= period'
<1>Q. SnapOK /\ CacheOK /\ BacklogOK /\ TalkOK /\ ClaimsOK => MeasureInv'
  BY DEF MeasureInv, Measured, Aged
<1>1. SnapOK
  <2>1. CASE UNCHANGED <<step, snap, fresh>>
    BY <2>1, <1>S
  <2>2. ASSUME NEW r \in Request, RequestOver(r) PROVE SnapOK
    BY <2>2, <1>S DEF RequestOver, TypeOK
  <2>3. ASSUME NEW r \in Request, AskForRun(r) \/ Remeasure(r) PROVE SnapOK
    <3> DEFINE new == [period |-> period, limit |-> limit, spent |-> 0, known |-> FALSE]
    <3>1. snap' = [snap EXCEPT ![r] = new] /\ step' = [step EXCEPT ![r] = "spend"]
             /\ fresh' = fresh
      BY <2>3 DEF AskForRun, Remeasure, ReadBudget
    <3>2. new.period \in Period /\ new.spent \in Nat /\ Measured(new)
      <4>1. period \in Period /\ period \in Int /\ spent[period] \in Nat
        BY DEF TypeOK, Period
      <4> QED
        BY <4>1 DEF Measured
    <3>3. Aged(new)
      BY <3>2, <1>A
    <3> HIDE DEF new
    <3> QED
      BY <3>1, <3>3, <1>S DEF TypeOK
  <2>4. ASSUME NEW r \in Request, ReadSpend(r) PROVE SnapOK
    <3>1. snap[r] \in Status /\ Measured(snap[r])
      BY <2>4 DEF ReadSpend, ShapeInv, MeasureInv
    <3>2. PICK s \in Nat, known \in BOOLEAN :
             /\ snap' = [snap EXCEPT ![r] = [period |-> snap[r].period,
                                             limit |-> snap[r].limit,
                                             spent |-> s, known |-> known]]
             /\ s <= spent[snap[r].period]
      <4>1. CASE cache[Home(r)] # NULL /\ cache[Home(r)].period = snap[r].period
        <5>1. /\ cache[Home(r)] \in [period : Period, spent : Nat]
              /\ cache[Home(r)].spent <= spent[snap[r].period]
          BY <4>1, <1>0 DEF TypeOK, MeasureInv, Measured
        <5> QED
          BY <2>4, <4>1, <5>1 DEF ReadSpend
      <4>2. CASE ~(cache[Home(r)] # NULL /\ cache[Home(r)].period = snap[r].period)
        <5>1. spent[snap[r].period] \in Nat
          BY <3>1 DEF Status, TypeOK
        <5>2. \/ snap' = [snap EXCEPT ![r] = [period |-> snap[r].period,
                                               limit |-> snap[r].limit,
                                               spent |-> spent[snap[r].period],
                                               known |-> TRUE]]
              \/ snap' = [snap EXCEPT ![r] = [period |-> snap[r].period,
                                               limit |-> snap[r].limit,
                                               spent |-> 0, known |-> FALSE]]
          BY <2>4, <4>2 DEF ReadSpend
        <5>3. TRUE \in BOOLEAN /\ FALSE \in BOOLEAN /\ 0 \in Nat /\ 0 <= spent[snap[r].period]
                 /\ spent[snap[r].period] <= spent[snap[r].period]
          BY <5>1
        <5> HIDE DEF SnapOK
        <5> QED
          BY <5>1, <5>2, <5>3, ZenonT(20)
      <4> QED
        BY <4>1, <4>2
    <3> DEFINE new == [period |-> snap[r].period, limit |-> snap[r].limit, spent |-> s,
                       known |-> known]
    <3>3. new.period \in Period /\ new.spent \in Nat /\ Measured(new)
      BY <3>1, <3>2 DEF Status, Measured
    <3>4. Aged(new)
      BY <3>3, <1>A
    <3>5. \A q \in Request \ {r} : fresh'[q] = fresh[q] /\ step'[q] = step[q]
      BY <2>4 DEF ReadSpend, TypeOK
    <3> HIDE DEF new
    <3>6. snap' = [snap EXCEPT ![r] = new]
      BY <3>2 DEF new
    <3> QED
      BY <3>4, <3>5, <3>6, <1>S DEF TypeOK
  <2>5. ASSUME NEW r \in Request, Reconcile(r) PROVE SnapOK
    <3>1. CASE step' = [step EXCEPT ![r] = "forget"] /\ UNCHANGED <<role, snap, fresh>>
      <4>1. step[r] = "decide"
        BY <2>5 DEF Reconcile
      <4> QED
        BY <3>1, <4>1, <1>S DEF TypeOK
    <3> QED
      BY <2>5, <3>1, <2>2 DEF Reconcile
  <2>6. ASSUME NEW r \in Request, NEW ceiling \in Limit \cup {NULL}, EditBudget(r, ceiling)
        PROVE SnapOK
    BY <2>6, <1>S DEF EditBudget, TypeOK
  <2>7. ASSUME NEW p \in Process, Crash(p) PROVE SnapOK
    BY <2>7, <1>S DEF Crash, TypeOK
  <2> HIDE DEF SnapOK
  <2> QED
    BY <2>1, <2>2, <2>3, <2>4, <2>5, <2>6, <2>7
       DEF Next, vars, reqVars, Meter, Rollover, CacheExpires, Begin, Claim, Enqueue,
           Settle, Release, AuditFails, Decide, Forget
<1>2. CacheOK
  <2>1. CASE UNCHANGED cache
    BY <2>1, <1>C
  <2>2. ASSUME NEW p \in Process, cache' = [cache EXCEPT ![p] = NULL] PROVE CacheOK
    BY <2>2, <1>C DEF TypeOK
  <2>3. ASSUME NEW r \in Request, Remember(r) PROVE CacheOK
    <3>1. CASE ~fresh[r]
      BY <2>3, <3>1, <1>C DEF Remember
    <3>2. CASE fresh[r]
      <4> DEFINE new == [period |-> snap[r].period, spent |-> snap[r].spent]
      <4>1. Aged(new)
        BY <3>2, <1>S DEF Aged
      <4>2. cache' = [cache EXCEPT ![Home(r)] = new]
        BY <2>3, <3>2 DEF Remember
      <4> HIDE DEF new
      <4> QED
        BY <4>1, <4>2, <1>0, <1>C DEF TypeOK
    <3> QED
      BY <3>1, <3>2
  <2> HIDE DEF CacheOK
  <2> QED
    BY <2>1, <2>2, <2>3, <1>0
       DEF Next, vars, guardVars, Meter, Rollover, CacheExpires, Begin, Claim, Enqueue,
           Settle, Release, Crash, AskForRun, Remeasure, AuditFails, ReadSpend, Decide,
           Reconcile, Forget, EditBudget
<1>3. BacklogOK
  <2>1. CASE UNCHANGED backlog
    BY <2>1, <1>B
  <2>2. ASSUME NEW p \in Process, Begin(p) PROVE BacklogOK
    <3>1. backlog[p] \in Seq(Status) /\ backlog[p] # <<>>
      BY <2>2 DEF Begin, TypeOK
    <3>2. backlog' = [backlog EXCEPT ![p] = Tail(backlog[p])]
      BY <2>2 DEF Begin
    <3>3. \A i \in 1..Len(Tail(backlog[p])) : Aged(Tail(backlog[p])[i])
      <4>1. /\ Len(Tail(backlog[p])) = Len(backlog[p]) - 1
            /\ \A i \in 1..Len(Tail(backlog[p])) : Tail(backlog[p])[i] = backlog[p][i+1]
            /\ Len(backlog[p]) \in Nat
        BY <3>1, HeadTailProperties, LenProperties
      <4> QED
        BY <4>1, <1>B
    <3> QED
      BY <3>2, <3>3, <1>B DEF TypeOK
  <2>3. ASSUME NEW r \in Request, Decide(r) PROVE BacklogOK
    <3>1. snap[r] \in Status /\ Aged(snap[r])
      BY <2>3, <1>S DEF Decide, ShapeInv
    <3>2. \A p \in Process : \A i \in 1..Len(Append(backlog[p], snap[r])) :
             Aged(Append(backlog[p], snap[r])[i])
      <4> SUFFICES ASSUME NEW p \in Process, NEW i \in 1..Len(Append(backlog[p], snap[r]))
                   PROVE  Aged(Append(backlog[p], snap[r])[i])
        OBVIOUS
      <4>1. backlog[p] \in Seq(Status)
        BY DEF TypeOK
      <4>2. /\ Len(Append(backlog[p], snap[r])) = Len(backlog[p]) + 1
            /\ \A j \in 1..Len(backlog[p]) : Append(backlog[p], snap[r])[j] = backlog[p][j]
            /\ Append(backlog[p], snap[r])[Len(backlog[p]) + 1] = snap[r]
            /\ Len(backlog[p]) \in Nat
        BY <3>1, <4>1, AppendProperties, LenProperties
      <4> QED
        BY <4>2, <3>1, <1>B
    <3>3. \/ backlog' = [backlog EXCEPT ![Home(r)] = Append(backlog[Home(r)], snap[r])]
          \/ backlog' = backlog
      BY <2>3 DEF Decide
    <3> QED
      BY <3>2, <3>3, <1>0, <1>B DEF TypeOK
  <2>4. ASSUME NEW p \in Process, Crash(p) PROVE BacklogOK
    <3>1. Len(<<>>) = 0
      BY EmptySeq
    <3> QED
      BY <2>4, <3>1, <1>B DEF Crash, TypeOK
  <2> HIDE DEF BacklogOK
  <2> QED
    BY <2>1, <2>2, <2>3, <2>4
       DEF Next, vars, Meter, Rollover, CacheExpires, Claim, Enqueue, Settle, Release,
           AskForRun, Remeasure, AuditFails, ReadSpend, Reconcile, Forget, EditBudget
<1>4. TalkOK
  <2>1. CASE UNCHANGED <<say, talk, todo>>
    BY <2>1, <1>K, <1>W
  <2>2. ASSUME NEW p \in Process, Begin(p) PROVE TalkOK
    <3> DEFINE status == Head(backlog[p])
    <3>1. backlog[p] \in Seq(Status) /\ backlog[p] # <<>>
      BY <2>2 DEF Begin, TypeOK
    <3>2. status = backlog[p][1] /\ 1 \in 1..Len(backlog[p])
      BY <3>1, LenProperties, EmptySeq
    <3>3. Aged(status)
      BY <3>2, <1>B
    <3>4. Pending(p, status) \subseteq Crossed(status.spent, status.limit)
      BY DEF Pending
    <3>5. CASE UNCHANGED sayVars
      BY <2>1, <3>5 DEF sayVars
    <3>6. CASE /\ say' = [say EXCEPT ![p] = "claim"]
               /\ talk' = [talk EXCEPT ![p] = status]
               /\ todo' = [todo EXCEPT ![p] = Pending(p, status)]
      <4> HIDE DEF status
      <4> QED
        BY <3>3, <3>4, <3>6, <1>K, <1>W DEF TypeOK
    <3> HIDE DEF TalkOK
    <3> QED
      BY <2>2, <3>5, <3>6 DEF Begin
  <2>3. ASSUME NEW p \in Process, NEW left, left \subseteq todo[p], say[p] # "idle",
               Onward(p, left)
        PROVE  TalkOK
    BY <2>3, <1>K, <1>W DEF Onward, TypeOK
  <2>4. ASSUME NEW p \in Process, Claim(p) PROVE TalkOK
    <3>1. PICK t \in Lowest(todo[p]) :
             \/ Granted(p, <<talk[p].period, t>>)
             \/ Onward(p, todo[p] \ {t})
      BY <2>4 DEF Claim
    <3>2. say[p] # "idle"
      BY <2>4 DEF Claim
    <3>3. CASE Granted(p, <<talk[p].period, t>>)
      BY <3>2, <3>3, <1>K, <1>W DEF Granted, TypeOK
    <3> HIDE DEF TalkOK
    <3> QED
      BY <3>1, <3>2, <3>3, <2>3
  <2>5. ASSUME NEW p \in Process, Enqueue(p) PROVE TalkOK
    BY <2>5, <1>K, <1>W DEF Enqueue, TypeOK
  <2>6. ASSUME NEW p \in Process, Crash(p) PROVE TalkOK
    BY <2>6, <1>K, <1>W DEF Crash, TypeOK
  <2> HIDE DEF TalkOK
  <2>7. ASSUME NEW p \in Process, Settle(p) \/ Release(p) PROVE TalkOK
    BY <2>3, <2>7 DEF Settle, Release
  <2> QED
    BY <2>1, <2>2, <2>4, <2>5, <2>6, <2>7
       DEF Next, vars, sayVars, Meter, Rollover, CacheExpires, AskForRun, Remeasure,
           AuditFails, ReadSpend, Decide, Reconcile, Forget, EditBudget
<1>5. ClaimsOK
  <2>1. CASE claims' \subseteq claims
    BY <2>1, <1>P
  <2>2. ASSUME NEW p \in Process, Claim(p) PROVE ClaimsOK
    <3>1. PICK t \in Lowest(todo[p]) :
             \/ claims' = claims \cup {<<talk[p].period, t>>}
             \/ claims' = claims
      BY <2>2 DEF Claim, Granted
    <3>2. talk[p].period <= period'
      BY <2>2, <1>K DEF Claim, Aged
    <3> QED
      BY <3>1, <3>2, <1>P
  <2> HIDE DEF ClaimsOK
  <2> QED
    BY <2>1, <2>2
       DEF Next, vars, Meter, Rollover, CacheExpires, Begin, Enqueue, Settle, Release,
           Crash, AskForRun, Remeasure, AuditFails, ReadSpend, Decide, Reconcile, Forget,
           EditBudget
<1> QED
  BY <1>1, <1>2, <1>3, <1>4, <1>5, <1>Q

(***************************************************************************)
(* Either every claim of this month is accounted for, or a change of the   *)
(* ceiling is on its way that will measure, or has measured, against the   *)
(* ceiling of now and is yet to reconcile.  A change of the ceiling makes  *)
(* the second true; its reconciliation makes the first true again.         *)
(***************************************************************************)
Accounted == \A k \in claims : k[1] = period =>
                k[2] \in Crossed(spent[period], limit) \/ k \in adrift

Watcher(r) ==
    /\ role[r] # "run"
    /\ \/ step[r] = "budget"
       \/ /\ step[r] \in {"spend", "decide"}
          /\ snap[r].limit = limit
          /\ snap[r].period = period

StandInv == Accounted \/ \E r \in Request : Watcher(r)

LEMMA StandStep ==
    TypeOK /\ ShapeInv /\ MeasureInv /\ StandInv /\ [Next]_vars => StandInv'
<1> SUFFICES ASSUME TypeOK, ShapeInv, MeasureInv, StandInv, [Next]_vars PROVE StandInv'
  OBVIOUS
<1> USE AlertsAssumption
<1>0. /\ period \in Int
      /\ spent \in [Period -> Nat]
      /\ spent[period] \in Nat
      /\ limit \in Limit \cup {NULL}
      /\ claims \subseteq Key
  BY DEF TypeOK, Period
\* Nothing that matters here changes, or claims go away.
<1>1. ASSUME Accounted, claims' \subseteq claims,
             \A k \in adrift \cap claims' : k[1] = period => k \in adrift',
             UNCHANGED <<period, limit, spent>>
      PROVE  Accounted'
  BY <1>1 DEF Accounted
<1>2. ASSUME claims' \subseteq adrift' PROVE Accounted'
  BY <1>2 DEF Accounted
<1>3. ASSUME NEW q \in Request, Watcher(q), UNCHANGED <<period, limit>>,
             role'[q] = role[q], step'[q] = step[q], snap'[q] = snap[q]
      PROVE  Watcher(q)'
  BY <1>3 DEF Watcher
<1>4. ASSUME UNCHANGED <<period, limit, reqVars>>, Accounted => Accounted' PROVE StandInv'
  <2>1. \A q \in Request : Watcher(q) => Watcher(q)'
    BY <1>4, <1>3 DEF reqVars
  <2> QED
    BY <1>4, <2>1 DEF StandInv
<1>5. CASE UNCHANGED vars
  BY <1>5, <1>4, <1>1 DEF vars, reqVars
<1>6. CASE Meter
  <2>1. spent[period] <= spent'[period] /\ spent'[period] \in Nat
    BY <1>0, <1>6, NothingShrinks, TypeStep DEF TypeOK
  <2>2. Crossed(spent[period], limit) \subseteq Crossed(spent'[period], limit)
    BY <1>0, <2>1, CrossedGrows
  <2>3. Accounted => Accounted'
    BY <1>6, <2>2 DEF Accounted, Meter, history
  <2> QED
    BY <1>6, <2>3, <1>4 DEF Meter
<1>7. CASE Rollover
  <2>1. \A k \in claims : k[1] \in Int /\ k[1] <= period
    BY <1>0 DEF MeasureInv, Key, Period
  <2>2. claims' = claims /\ period' = period + 1
    BY <1>7 DEF Rollover
  <2> QED
    BY <1>0, <2>1, <2>2 DEF StandInv, Accounted
<1>8. ASSUME NEW p \in Process,
             CacheExpires(p) \/ Begin(p) \/ Enqueue(p) \/ Settle(p) \/ Release(p)
      PROVE  StandInv'
  <2>1. /\ UNCHANGED <<period, limit, spent, reqVars>>
        /\ claims' \subseteq claims
        /\ adrift \cap claims' \subseteq adrift'
    BY <1>8 DEF CacheExpires, Begin, Enqueue, Settle, Release, guardVars, history
  <2> QED
    BY <2>1, <1>1, <1>4
<1>9. ASSUME NEW p \in Process, Claim(p) PROVE StandInv'
  <2>1. PICK t \in Lowest(todo[p]) :
           \/ Granted(p, <<talk[p].period, t>>)
           \/ UNCHANGED <<claims, adrift>>
    BY <1>9 DEF Claim
  <2>2. /\ talk[p] \in Status
        /\ talk[p].spent <= spent[talk[p].period]
        /\ t \in Crossed(talk[p].spent, talk[p].limit)
    BY <1>9 DEF Claim, ShapeInv, MeasureInv, Measured, Lowest
  <2>3. UNCHANGED <<period, limit, spent, reqVars>>
    BY <1>9 DEF Claim, guardVars
  <2>4. CASE Granted(p, <<talk[p].period, t>>)
    <3> DEFINE new == <<talk[p].period, t>>
    <3>1. claims' = claims \cup {new} /\ adrift \subseteq adrift'
      BY <2>4 DEF Granted
    <3>2. new[1] = period => new[2] \in Crossed(spent[period], limit) \/ new \in adrift'
      <4>1. CASE talk[p].limit = limit
        <5>1. CASE talk[p].period = period
          <6>1. talk[p].spent \in Nat /\ talk[p].spent <= spent[period]
            BY <2>2, <5>1 DEF Status
          <6>2. t \in Crossed(spent[period], limit)
            BY <1>0, <2>2, <4>1, <6>1, CrossedGrows
          <6> QED
            BY <6>2
        <5> QED
          BY <5>1
      <4>2. CASE talk[p].limit # limit
        BY <2>4, <4>2 DEF Granted
      <4> QED
        BY <4>1, <4>2
    <3> HIDE DEF new
    <3>3. Accounted => Accounted'
      BY <2>3, <3>1, <3>2 DEF Accounted
    <3> QED
      BY <2>3, <3>3, <1>4
  <2>5. CASE UNCHANGED <<claims, adrift>>
    BY <2>3, <2>5, <1>1, <1>4
  <2> QED
    BY <2>1, <2>4, <2>5
<1>10. ASSUME NEW p \in Process, Crash(p) PROVE StandInv'
  <2>1. CASE \E r \in Request : Home(r) = p /\ role[r] # "run" /\ step[r] # "forget"
    <3>1. claims' \subseteq adrift'
      BY <1>10, <2>1 DEF Crash
    <3> QED
      BY <3>1, <1>2 DEF StandInv
  <2>2. CASE ~ \E r \in Request : Home(r) = p /\ role[r] # "run" /\ step[r] # "forget"
    <3>1. UNCHANGED <<period, limit, spent, claims, adrift>>
      BY <1>10, <2>2 DEF Crash
    <3>2. ASSUME NEW q \in Request, Watcher(q) PROVE Watcher(q)'
      <4>1. Home(q) # p
        BY <2>2, <3>2 DEF Watcher
      <4>2. role'[q] = role[q] /\ step'[q] = step[q] /\ snap'[q] = snap[q]
        BY <1>10, <4>1 DEF Crash, TypeOK
      <4> QED
        BY <3>1, <3>2, <4>2, <1>3
    <3> QED
      BY <3>1, <3>2, <1>1 DEF StandInv
  <2> QED
    BY <2>1, <2>2
\* A request that is not the watcher leaves the watcher alone.
<1>11. ASSUME NEW r \in Request, ~Watcher(r), UNCHANGED <<period, limit, spent>>,
              claims' \subseteq claims,
              \A k \in adrift \cap claims' : k[1] = period => k \in adrift',
              \A q \in Request \ {r} : /\ role'[q] = role[q] /\ step'[q] = step[q]
                                       /\ snap'[q] = snap[q]
       PROVE  StandInv'
  <2>1. \A q \in Request : Watcher(q) => Watcher(q)'
    BY <1>11, <1>3
  <2> QED
    BY <1>11, <2>1, <1>1 DEF StandInv
<1>12. ASSUME NEW r \in Request, RequestOver(r) \/ AskForRun(r)
       PROVE  \A q \in Request \ {r} : /\ role'[q] = role[q] /\ step'[q] = step[q]
                                       /\ snap'[q] = snap[q]
  BY <1>12 DEF RequestOver, AskForRun, ReadBudget, TypeOK
<1>13. ASSUME NEW r \in Request, AskForRun(r) \/ Decide(r) \/ Forget(r) PROVE StandInv'
  <2>1. ~Watcher(r)
    BY <1>13 DEF AskForRun, Decide, Forget, Watcher
  <2>2. UNCHANGED <<period, limit, spent, claims, adrift>>
    BY <1>13 DEF AskForRun, Decide, Forget, guardVars, history
  <2>3. RequestOver(r) \/ AskForRun(r)
    BY <1>13 DEF Decide, Forget
  <2> QED
    BY <2>1, <2>2, <2>3, <1>11, <1>12
<1>14. ASSUME NEW r \in Request, Remeasure(r) PROVE StandInv'
  <2>1. /\ UNCHANGED <<period, limit, spent, claims, adrift>>
        /\ \A q \in Request \ {r} : /\ role'[q] = role[q] /\ step'[q] = step[q]
                                    /\ snap'[q] = snap[q]
    BY <1>14 DEF Remeasure, ReadBudget, history, TypeOK
  <2>2. CASE role[r] # "run"
    <3>1. /\ role'[r] # "run" /\ step'[r] = "spend"
          /\ snap'[r].limit = limit' /\ snap'[r].period = period'
      BY <1>14, <2>1, <2>2 DEF Remeasure, ReadBudget, TypeOK
    <3>2. Watcher(r)'
      BY <3>1 DEF Watcher
    <3> QED
      BY <3>2 DEF StandInv
  <2>3. CASE role[r] = "run"
    BY <2>1, <2>3, <1>11 DEF Watcher
  <2> QED
    BY <2>2, <2>3
<1>15. ASSUME NEW r \in Request, AuditFails(r) PROVE StandInv'
  BY <1>15, <1>2 DEF AuditFails, StandInv
<1>16. ASSUME NEW r \in Request, ReadSpend(r) PROVE StandInv'
  <2>1. UNCHANGED <<period, limit, spent, claims, adrift, role>>
    BY <1>16 DEF ReadSpend, guardVars, history
  <2>2. \A q \in Request \ {r} : step'[q] = step[q] /\ snap'[q] = snap[q]
    BY <1>16 DEF ReadSpend, TypeOK
  <2>3. /\ step[r] = "spend" /\ step'[r] = "decide"
        /\ snap'[r].limit = snap[r].limit /\ snap'[r].period = snap[r].period
    BY <1>16 DEF ReadSpend, TypeOK
  <2>4. \A q \in Request : Watcher(q) => Watcher(q)'
    BY <2>1, <2>2, <2>3 DEF Watcher
  <2> QED
    BY <2>1, <2>4, <1>1 DEF StandInv
<1>17. ASSUME NEW r \in Request, Reconcile(r) PROVE StandInv'
  <2>1. UNCHANGED <<period, limit, spent>>
    BY <1>17 DEF Reconcile
  <2>2. CASE RequestOver(r) /\ adrift' = adrift \cup claims /\ UNCHANGED claims
    BY <2>2, <1>2 DEF StandInv
  <2>3. CASE /\ claims' = claims \ Stale(snap[r], claims)
             /\ adrift' = {k \in adrift \cap claims' : snap[r].limit = limit =>
                                                        k[1] # snap[r].period}
             /\ step' = [step EXCEPT ![r] = "forget"]
             /\ UNCHANGED <<role, snap>>
    <3>1. CASE ~Watcher(r)
      <4>1. snap[r].limit # limit \/ snap[r].period # period
        BY <1>17, <3>1 DEF Reconcile, Watcher
      <4>2. \A k \in adrift \cap claims' : k[1] = period => k \in adrift'
        BY <2>3, <4>1
      <4> QED
        BY <2>1, <2>3, <3>1, <4>2, <1>11 DEF TypeOK
    <3>2. CASE Watcher(r)
      <4>1. /\ snap[r] \in Status
            /\ snap[r].limit = limit
            /\ snap[r].period = period
            /\ snap[r].spent <= spent[period]
        BY <1>17, <3>2 DEF Reconcile, Watcher, ShapeInv, MeasureInv, Measured
      <4>2. Crossed(snap[r].spent, limit) \subseteq Crossed(spent[period], limit)
        BY <1>0, <4>1, CrossedGrows DEF Status
      <4>3. ASSUME NEW k \in claims', k[1] = period
            PROVE  k[2] \in Crossed(snap[r].spent, limit)
        BY <2>3, <4>1, <4>3 DEF Stale, KeysOf
      <4>4. Accounted'
        BY <2>1, <4>2, <4>3 DEF Accounted
      <4> QED
        BY <4>4 DEF StandInv
    <3> QED
      BY <3>1, <3>2
  <2> QED
    BY <1>17, <2>2, <2>3 DEF Reconcile
<1>18. ASSUME NEW r \in Request, NEW ceiling \in Limit \cup {NULL}, EditBudget(r, ceiling)
       PROVE StandInv'
  <2>1. role'[r] # "run" /\ step'[r] = "budget"
    BY <1>18 DEF EditBudget, TypeOK
  <2>2. Watcher(r)'
    BY <2>1 DEF Watcher
  <2> QED
    BY <2>2 DEF StandInv
<1> QED
  BY <1>5, <1>6, <1>7, <1>8, <1>9, <1>10, <1>13, <1>14, <1>15, <1>16, <1>17, <1>18
     DEF Next

AlertsInv == TypeOK /\ ShapeInv /\ MeasureInv /\ StandInv

LEMMA AlertsInvariant == Spec => []AlertsInv
<1>1. Init => AlertsInv
  <2>1. Init => StandInv
    BY DEF Init, StandInv, Accounted
  <2> QED
    BY <2>1, TypeInit, MeasureInit DEF AlertsInv
<1>2. AlertsInv /\ [Next]_vars => AlertsInv'
  BY TypeStep, MeasureStep, StandStep DEF AlertsInv
<1> QED
  BY <1>1, <1>2, PTL DEF Spec

(***************************************************************************)
(* Outside a change of the ceiling, a claim of this month that the spend   *)
(* has not reached stands for one of two causes (taken after the ceiling   *)
(* had changed under it, or a change without its reconciliation), however  *)
(* many processes there are and whichever die; the next change that is     *)
(* reconciled leaves none.                                                 *)
(***************************************************************************)
THEOREM StrayClaimsHaveCause == Spec => []StrayClaimHasCause
<1>1. AlertsInv => StrayClaimHasCause
  BY DEF AlertsInv, StandInv, Accounted, Watcher, StrayClaimHasCause, Editing
<1> QED
  BY <1>1, AlertsInvariant, PTL

(***************************************************************************)
(* Why a crossing is announced again.  Every complete fan-out of a key has *)
(* spent a grant of it; a key is granted again only after its claim was    *)
(* given back, by a thread whose fan-out failed or by the reconciliation   *)
(* of a change, and each of these does it once.  So what was told, the     *)
(* fan-outs granted and the ones who may still give a claim back are       *)
(* together no more than the claim itself, the changes and the failures.   *)
(***************************************************************************)
Fanning(k) == {p \in Process : say[p] = "enqueue" /\ at[p] = k}
Returning(k) == {p \in Process : say[p] = "release" /\ at[p] = k}
Editors == {r \in Request : Editing(r)}
Claimed(k) == IF k \in claims THEN 1 ELSE 0

Paid(k) ==
    told[k] + Cardinality(Fanning(k)) + Cardinality(Returning(k)) + Cardinality(Editors)
        <= Claimed(k) + edits + failures

CountInv ==
    /\ \A r \in Request : step[r] = "idle" => role[r] = "run"
    /\ IsFiniteSet(Editors)
    /\ \A k \in Key : IsFiniteSet(Fanning(k)) /\ IsFiniteSet(Returning(k)) /\ Paid(k)

\* A step that grants nothing and takes no claim away.
LEMMA FewerIsPaid ==
    ASSUME TypeOK, TypeOK', CountInv, NEW k \in Key,
           Fanning(k)' \subseteq Fanning(k), Returning(k)' \subseteq Returning(k),
           Editors' \subseteq Editors, told'[k] = told[k],
           k \in claims => k \in claims', edits' = edits, failures' = failures
    PROVE  IsFiniteSet(Fanning(k)') /\ IsFiniteSet(Returning(k)') /\ Paid(k)'
<1> DEFINE a == Cardinality(Fanning(k))
           b == Cardinality(Returning(k))
           c == Cardinality(Editors)
<1>1. /\ IsFiniteSet(Fanning(k)) /\ IsFiniteSet(Returning(k)) /\ IsFiniteSet(Editors) /\ Paid(k)
  BY DEF CountInv
<1>2. /\ IsFiniteSet(Fanning(k)') /\ Cardinality(Fanning(k)') \in Nat
      /\ Cardinality(Fanning(k)') <= Cardinality(Fanning(k)) /\ Cardinality(Fanning(k)) \in Nat
  BY <1>1, FS_Subset, FS_CardinalityType
<1>3. /\ IsFiniteSet(Returning(k)') /\ Cardinality(Returning(k)') \in Nat
      /\ Cardinality(Returning(k)') <= Cardinality(Returning(k))
      /\ Cardinality(Returning(k)) \in Nat
  BY <1>1, FS_Subset, FS_CardinalityType
<1>4. /\ Cardinality(Editors') \in Nat /\ Cardinality(Editors') <= Cardinality(Editors)
      /\ Cardinality(Editors) \in Nat
  BY <1>1, FS_Subset, FS_CardinalityType
<1>5. Claimed(k) \in Nat /\ Claimed(k)' \in Nat /\ Claimed(k) <= Claimed(k)'
  BY DEF Claimed
<1>6. told[k] \in Nat /\ edits \in Nat /\ failures \in Nat
  BY DEF TypeOK
<1> QED
  BY <1>1, <1>2, <1>3, <1>4, <1>5, <1>6 DEF Paid

LEMMA CountInit == Init => CountInv
<1> SUFFICES ASSUME Init PROVE CountInv
  OBVIOUS
<1>1. Editors = {} /\ \A k \in Key : Fanning(k) = {} /\ Returning(k) = {}
  BY DEF Init, Editors, Editing, Fanning, Returning
<1>2. \A k \in Key : told[k] = 0 /\ Claimed(k) = 0 /\ edits = 0 /\ failures = 0
  BY DEF Init, Claimed
<1>3. \A r \in Request : role[r] = "run"
  BY DEF Init
<1> QED
  BY <1>1, <1>2, <1>3, FS_EmptySet DEF CountInv, Paid

\* A grant, a fan-out and a release are of one thread, and of its key.
LEMMA CountClaim ==
    ASSUME TypeOK, ShapeInv, TypeOK', CountInv, NEW p \in Process, Claim(p)
    PROVE  CountInv'
<1>1. PICK t \in Lowest(todo[p]) :
         \/ <<talk[p].period, t>> \notin claims /\ Granted(p, <<talk[p].period, t>>)
         \/ Onward(p, todo[p] \ {t}) /\ UNCHANGED <<claims, adrift>>
  BY DEF Claim
<1>2. /\ say[p] = "claim" /\ at \in [Process -> Key \cup {NULL}]
      /\ say \in [Process -> {"idle", "claim", "enqueue", "settle", "release"}]
      /\ UNCHANGED <<edits, failures, told>> /\ Editors' = Editors /\ UNCHANGED <<step, role>>
  <2>1. UNCHANGED <<step, role, edits, failures, told>>
    BY DEF Claim, reqVars
  <2> QED
    BY <2>1 DEF Claim, TypeOK, Editors, Editing
<1>3. CASE Onward(p, todo[p] \ {t}) /\ UNCHANGED <<claims, adrift>>
  <2>1. /\ \A q \in Process \ {p} : say'[q] = say[q] /\ at'[q] = at[q]
        /\ say'[p] \in {"idle", "claim"} /\ claims' = claims
    BY <1>2, <1>3 DEF Onward
  <2>2. \A k \in Key : Fanning(k)' \subseteq Fanning(k) /\ Returning(k)' \subseteq Returning(k)
    BY <2>1 DEF Fanning, Returning
  <2> QED
    BY <1>2, <2>1, <2>2, FewerIsPaid DEF CountInv
<1>4. CASE <<talk[p].period, t>> \notin claims /\ Granted(p, <<talk[p].period, t>>)
  <2> DEFINE g == <<talk[p].period, t>>
  <2>1. /\ g \notin claims /\ claims' = claims \cup {g}
        /\ say'[p] = "enqueue" /\ at'[p] = g
        /\ \A q \in Process \ {p} : say'[q] = say[q] /\ at'[q] = at[q]
    BY <1>2, <1>4 DEF Granted
  <2> HIDE DEF g
  <2>2. ASSUME NEW k \in Key, k # g
        PROVE  IsFiniteSet(Fanning(k)') /\ IsFiniteSet(Returning(k)') /\ Paid(k)'
    <3>1. Fanning(k)' \subseteq Fanning(k) /\ Returning(k)' \subseteq Returning(k)
      BY <2>1, <2>2 DEF Fanning, Returning
    <3> QED
      BY <1>2, <2>1, <3>1, FewerIsPaid
  <2>3. ASSUME NEW k \in Key, k = g
        PROVE  IsFiniteSet(Fanning(k)') /\ IsFiniteSet(Returning(k)') /\ Paid(k)'
    <3>1. Fanning(k)' = Fanning(k) \cup {p} /\ p \notin Fanning(k) /\ Returning(k)' = Returning(k)
      BY <1>2, <2>1, <2>3 DEF Fanning, Returning
    <3>2. Claimed(k) = 0 /\ Claimed(k)' = 1
      BY <2>1, <2>3 DEF Claimed
    <3>3. IsFiniteSet(Fanning(k)) /\ IsFiniteSet(Returning(k)) /\ IsFiniteSet(Editors) /\ Paid(k)
      BY DEF CountInv
    <3>4. /\ IsFiniteSet(Fanning(k)') /\ Cardinality(Fanning(k)) \in Nat
          /\ Cardinality(Fanning(k)') = Cardinality(Fanning(k)) + 1
      BY <3>1, <3>3, FS_AddElement, FS_CardinalityType
    <3>5. /\ Cardinality(Returning(k)) \in Nat /\ Cardinality(Editors) \in Nat
          /\ Cardinality(Editors)' = Cardinality(Editors)
          /\ Cardinality(Returning(k))' = Cardinality(Returning(k))
      BY <1>2, <3>1, <3>3, FS_CardinalityType
    <3>6. told[k] \in Nat /\ edits \in Nat /\ failures \in Nat
      BY DEF TypeOK
    <3> QED
      BY <1>2, <3>1, <3>2, <3>3, <3>4, <3>5, <3>6 DEF Paid
  <2> QED
    BY <1>2, <2>2, <2>3 DEF CountInv
<1> QED
  BY <1>1, <1>3, <1>4

LEMMA CountEnqueue ==
    ASSUME TypeOK, ShapeInv, TypeOK', CountInv, NEW p \in Process, Enqueue(p)
    PROVE  CountInv'
<1> DEFINE g == at[p]
<1>1. /\ say[p] = "enqueue" /\ g \in Key /\ at' = at /\ claims' = claims /\ edits' = edits
      /\ say \in [Process -> {"idle", "claim", "enqueue", "settle", "release"}]
      /\ Editors' = Editors /\ UNCHANGED <<step, role>>
  <2>1. UNCHANGED <<step, role, at, claims, edits>>
    BY DEF Enqueue, reqVars
  <2> QED
    BY <2>1 DEF Enqueue, ShapeInv, TypeOK, Editors, Editing
<1>2. /\ say'[p] \in {"settle", "release"} /\ \A q \in Process \ {p} : say'[q] = say[q]
      /\ say'[p] = "settle" => told' = [told EXCEPT ![g] = @ + 1] /\ failures' = failures
      /\ say'[p] = "release" => told' = told /\ failures' = failures + 1
  BY <1>1 DEF Enqueue
<1>3. /\ told \in [Key -> Nat] /\ edits \in Nat /\ failures \in Nat
  BY DEF TypeOK
<1>4. \A k \in Key : /\ IsFiniteSet(Fanning(k)) /\ IsFiniteSet(Returning(k)) /\ Paid(k)
                     /\ Cardinality(Fanning(k)) \in Nat /\ Cardinality(Returning(k)) \in Nat
  BY FS_CardinalityType DEF CountInv
<1>5. IsFiniteSet(Editors) /\ Cardinality(Editors) \in Nat
  BY FS_CardinalityType DEF CountInv
<1> HIDE DEF g
<1>6. ASSUME NEW k \in Key, k # g
      PROVE  IsFiniteSet(Fanning(k)') /\ IsFiniteSet(Returning(k)') /\ Paid(k)'
  <2>1. Fanning(k)' = Fanning(k) /\ Returning(k)' = Returning(k)
    BY <1>1, <1>2, <1>6 DEF Fanning, Returning, g
  <2>2. Claimed(k)' = Claimed(k) /\ Claimed(k) \in Nat /\ told'[k] = told[k]
    BY <1>1, <1>2, <1>3, <1>6 DEF Claimed
  <2>3. failures' \in Nat /\ failures' >= failures
    BY <1>2, <1>3
  <2>4. /\ Cardinality(Fanning(k))' = Cardinality(Fanning(k))
        /\ Cardinality(Returning(k))' = Cardinality(Returning(k))
        /\ Cardinality(Editors)' = Cardinality(Editors)
    BY <1>1, <2>1
  <2> QED
    BY <1>1, <1>3, <1>4, <1>5, <2>1, <2>2, <2>3, <2>4 DEF Paid
<1>7. ASSUME NEW k \in Key, k = g
      PROVE  IsFiniteSet(Fanning(k)') /\ IsFiniteSet(Returning(k)') /\ Paid(k)'
  <2>1. Fanning(k)' = Fanning(k) \ {p} /\ p \in Fanning(k) /\ p \notin Returning(k)
    BY <1>1, <1>2, <1>7 DEF Fanning, Returning, g
  <2>2. /\ IsFiniteSet(Fanning(k)')
        /\ Cardinality(Fanning(k)') = Cardinality(Fanning(k)) - 1
    BY <1>4, <2>1, FS_RemoveElement
  <2>3. Claimed(k)' = Claimed(k) /\ Claimed(k) \in Nat
    BY <1>1 DEF Claimed
  <2>4. Cardinality(Editors)' = Cardinality(Editors)
    BY <1>1
  <2>5. CASE say'[p] = "settle"
    <3>1. Returning(k)' = Returning(k) /\ told'[k] = told[k] + 1 /\ failures' = failures
      BY <1>1, <1>2, <1>3, <1>7, <2>5 DEF Returning, g
    <3>2. Cardinality(Returning(k))' = Cardinality(Returning(k))
      BY <3>1
    <3> QED
      BY <1>1, <1>3, <1>4, <1>5, <2>2, <2>3, <2>4, <3>1, <3>2 DEF Paid
  <2>6. CASE say'[p] = "release"
    <3>1. Returning(k)' = Returning(k) \cup {p} /\ told'[k] = told[k] /\ failures' = failures + 1
      BY <1>1, <1>2, <1>7, <2>6 DEF Returning, g
    <3>2. /\ IsFiniteSet(Returning(k)')
          /\ Cardinality(Returning(k)') = Cardinality(Returning(k)) + 1
      BY <1>4, <2>1, <3>1, FS_AddElement
    <3> QED
      BY <1>1, <1>3, <1>4, <1>5, <2>2, <2>3, <2>4, <3>1, <3>2 DEF Paid
  <2> QED
    BY <1>2, <2>5, <2>6
<1>8. \A r \in Request : step'[r] = "idle" => role'[r] = "run"
  BY <1>1 DEF CountInv
<1> QED
  BY <1>1, <1>5, <1>6, <1>7, <1>8 DEF CountInv

LEMMA CountRelease ==
    ASSUME TypeOK, ShapeInv, TypeOK', CountInv, NEW p \in Process, Release(p)
    PROVE  CountInv'
<1> DEFINE g == at[p]
<1>1. /\ say[p] = "release" /\ g \in Key /\ claims' \in {claims, claims \ {g}}
      /\ say \in [Process -> {"idle", "claim", "enqueue", "settle", "release"}]
      /\ UNCHANGED <<edits, failures, told>> /\ Editors' = Editors /\ UNCHANGED <<step, role>>
  <2>1. UNCHANGED <<step, role, edits, failures, told>>
    BY DEF Release, reqVars
  <2> QED
    BY <2>1 DEF Release, ShapeInv, TypeOK, Editors, Editing
<1>2. /\ say'[p] \in {"idle", "claim"}
      /\ \A q \in Process \ {p} : say'[q] = say[q] /\ at'[q] = at[q]
  BY <1>1 DEF Release, Onward, TypeOK
<1> HIDE DEF g
<1>3. ASSUME NEW k \in Key
      PROVE  IsFiniteSet(Fanning(k)') /\ IsFiniteSet(Returning(k)') /\ Paid(k)'
  <2>1. Fanning(k)' \subseteq Fanning(k) /\ Returning(k)' \subseteq Returning(k)
    BY <1>2 DEF Fanning, Returning
  <2>2. CASE k # g
    <3>1. k \in claims => k \in claims'
      BY <1>1, <2>2
    <3> QED
      BY <1>1, <2>1, <3>1, FewerIsPaid
  <2>3. CASE k = g
    <3>1. Fanning(k)' = Fanning(k) /\ Returning(k)' = Returning(k) \ {p} /\ p \in Returning(k)
      BY <1>1, <1>2, <2>3 DEF Fanning, Returning, g
    <3>2. /\ IsFiniteSet(Fanning(k)) /\ IsFiniteSet(Returning(k)) /\ IsFiniteSet(Editors)
          /\ Paid(k)
      BY DEF CountInv
    <3>3. /\ IsFiniteSet(Returning(k)') /\ Cardinality(Returning(k)) \in Nat
          /\ Cardinality(Returning(k)') = Cardinality(Returning(k)) - 1
      BY <3>1, <3>2, FS_RemoveElement, FS_CardinalityType
    <3>4. /\ Cardinality(Fanning(k)) \in Nat /\ Cardinality(Editors) \in Nat
          /\ Cardinality(Fanning(k))' = Cardinality(Fanning(k))
          /\ Cardinality(Editors)' = Cardinality(Editors)
      BY <1>1, <3>1, <3>2, FS_CardinalityType
    <3>5. /\ Claimed(k) \in {0, 1} /\ Claimed(k)' \in {0, 1}
          /\ told[k] \in Nat /\ edits \in Nat /\ failures \in Nat
      BY DEF Claimed, TypeOK
    <3> QED
      BY <1>1, <3>1, <3>2, <3>3, <3>4, <3>5 DEF Paid
  <2> QED
    BY <2>2, <2>3
<1>4. IsFiniteSet(Editors') /\ \A r \in Request : step'[r] = "idle" => role'[r] = "run"
  BY <1>1 DEF CountInv
<1> QED
  BY <1>3, <1>4 DEF CountInv

LEMMA CountEdit ==
    ASSUME TypeOK, TypeOK', CountInv, NEW r \in Request, NEW ceiling \in Limit \cup {NULL},
           EditBudget(r, ceiling)
    PROVE  CountInv'
<1>1. /\ step[r] = "idle" /\ edits' = edits + 1 /\ UNCHANGED <<say, at, claims, failures, told>>
      /\ step' = [step EXCEPT ![r] = "budget"]
      /\ role'[r] # "run" /\ \A q \in Request \ {r} : role'[q] = role[q]
  BY DEF EditBudget, sayVars, TypeOK
<1>2. step'[r] = "budget" /\ \A q \in Request \ {r} : step'[q] = step[q]
  BY <1>1 DEF TypeOK
<1>3. Editors' = Editors \cup {r} /\ r \notin Editors
  BY <1>1, <1>2 DEF Editors, Editing
<1>4. /\ IsFiniteSet(Editors') /\ Cardinality(Editors) \in Nat
      /\ Cardinality(Editors') = Cardinality(Editors) + 1
  BY <1>3, FS_AddElement, FS_CardinalityType DEF CountInv
<1>5. ASSUME NEW k \in Key
      PROVE  IsFiniteSet(Fanning(k)') /\ IsFiniteSet(Returning(k)') /\ Paid(k)'
  <2>1. Fanning(k)' = Fanning(k) /\ Returning(k)' = Returning(k) /\ Claimed(k)' = Claimed(k)
    BY <1>1 DEF Fanning, Returning, Claimed
  <2>2. IsFiniteSet(Fanning(k)) /\ IsFiniteSet(Returning(k)) /\ Paid(k)
    BY DEF CountInv
  <2>3. /\ Cardinality(Fanning(k)) \in Nat /\ Cardinality(Returning(k)) \in Nat
        /\ Cardinality(Fanning(k))' = Cardinality(Fanning(k))
        /\ Cardinality(Returning(k))' = Cardinality(Returning(k))
    BY <2>1, <2>2, FS_CardinalityType
  <2>4. Claimed(k) \in Nat /\ told[k] \in Nat /\ edits \in Nat /\ failures \in Nat
    BY DEF Claimed, TypeOK
  <2> QED
    BY <1>1, <1>4, <2>1, <2>2, <2>3, <2>4 DEF Paid
<1>6. \A q \in Request : step'[q] = "idle" => role'[q] = "run"
  BY <1>1, <1>2 DEF CountInv
<1> QED
  BY <1>4, <1>5, <1>6 DEF CountInv

LEMMA CountReconcile ==
    ASSUME TypeOK, TypeOK', CountInv, NEW r \in Request, Reconcile(r)
    PROVE  CountInv'
<1>1. /\ step[r] = "decide" /\ role[r] # "run" /\ UNCHANGED <<say, at, edits, failures, told>>
      /\ step'[r] \in {"idle", "forget"} /\ (step'[r] = "idle" => role'[r] = "run")
      /\ \A q \in Request \ {r} : step'[q] = step[q] /\ role'[q] = role[q]
  BY DEF Reconcile, RequestOver, sayVars, TypeOK
<1>2. Editors' = Editors \ {r} /\ r \in Editors
  BY <1>1 DEF Editors, Editing
<1>3. /\ IsFiniteSet(Editors') /\ Cardinality(Editors) \in Nat
      /\ Cardinality(Editors') = Cardinality(Editors) - 1
  BY <1>2, FS_RemoveElement, FS_CardinalityType DEF CountInv
<1>4. ASSUME NEW k \in Key
      PROVE  IsFiniteSet(Fanning(k)') /\ IsFiniteSet(Returning(k)') /\ Paid(k)'
  <2>1. Fanning(k)' = Fanning(k) /\ Returning(k)' = Returning(k)
    BY <1>1 DEF Fanning, Returning
  <2>2. IsFiniteSet(Fanning(k)) /\ IsFiniteSet(Returning(k)) /\ Paid(k)
    BY DEF CountInv
  <2>3. /\ Cardinality(Fanning(k)) \in Nat /\ Cardinality(Returning(k)) \in Nat
        /\ Cardinality(Fanning(k))' = Cardinality(Fanning(k))
        /\ Cardinality(Returning(k))' = Cardinality(Returning(k))
    BY <2>1, <2>2, FS_CardinalityType
  <2>4. /\ Claimed(k) \in {0, 1} /\ Claimed(k)' \in {0, 1}
        /\ told[k] \in Nat /\ edits \in Nat /\ failures \in Nat
    BY DEF Claimed, TypeOK
  <2> QED
    BY <1>1, <1>3, <2>1, <2>2, <2>3, <2>4 DEF Paid
<1>5. \A q \in Request : step'[q] = "idle" => role'[q] = "run"
  BY <1>1 DEF CountInv
<1> QED
  BY <1>3, <1>4, <1>5 DEF CountInv

\* Everything else grants nothing and takes nothing away.
LEMMA CountOthers ==
    ASSUME TypeOK, ShapeInv, TypeOK', CountInv,
           \/ UNCHANGED vars \/ Meter \/ Rollover
           \/ \E p \in Process : CacheExpires(p) \/ Begin(p) \/ Settle(p) \/ Crash(p)
           \/ \E r \in Request : \/ AskForRun(r) \/ Remeasure(r) \/ AuditFails(r)
                                 \/ ReadSpend(r) \/ Decide(r) \/ Forget(r)
    PROVE  CountInv'
<1>1. UNCHANGED <<claims, edits, failures, told>>
  BY DEF vars, history, Meter, Rollover, CacheExpires, Begin, Settle, Crash, AskForRun,
         Remeasure, AuditFails, ReadSpend, Decide, Forget
<1>2. \A q \in Process : \/ say'[q] = say[q] /\ at'[q] = at[q]
                         \/ say'[q] \in {"idle", "claim"}
  <2>1. CASE UNCHANGED <<say, at>>
    BY <2>1
  <2>2. ASSUME NEW p \in Process, Begin(p) \/ Settle(p) \/ Crash(p)
        PROVE  /\ say'[p] \in {"idle", "claim"} \/ UNCHANGED <<say, at>>
               /\ \A q \in Process \ {p} : say'[q] = say[q] /\ at'[q] = at[q]
    <3>1. CASE Begin(p)
      BY <3>1 DEF Begin, sayVars, TypeOK
    <3>2. CASE Settle(p)
      BY <3>2 DEF Settle, Onward, TypeOK
    <3>3. CASE Crash(p)
      BY <3>3 DEF Crash, TypeOK
    <3> QED
      BY <2>2, <3>1, <3>2, <3>3
  <2>3. \/ UNCHANGED <<say, at>>
        \/ \E p \in Process : Begin(p) \/ Settle(p) \/ Crash(p)
    BY DEF vars, sayVars, Meter, Rollover, CacheExpires, AskForRun, Remeasure, AuditFails,
           ReadSpend, Decide, Forget
  <2> QED
    BY <2>1, <2>2, <2>3
<1>3. \A q \in Request :
         /\ step'[q] = "idle" => role'[q] = "run" \/ (step'[q] = step[q] /\ role'[q] = role[q])
         /\ \/ step'[q] = step[q] /\ role'[q] = role[q]
            \/ step'[q] = "idle"
            \/ role'[q] = role[q] /\ step[q] = "idle"
            \/ role'[q] = role[q] /\ step[q] \in {"budget", "spend", "decide"}
  <2>1. CASE UNCHANGED <<step, role>>
    BY <2>1
  <2>2. ASSUME NEW p \in Process, Crash(p)
        PROVE  \A q \in Request : \/ step'[q] = "idle" /\ role'[q] = "run"
                                  \/ step'[q] = step[q] /\ role'[q] = role[q]
    BY <2>2 DEF Crash
  <2>3. ASSUME NEW r \in Request, \/ AskForRun(r) \/ Remeasure(r) \/ AuditFails(r)
                                  \/ ReadSpend(r) \/ Decide(r) \/ Forget(r)
        PROVE  /\ \/ step'[r] = "idle" /\ role'[r] = "run"
                  \/ /\ role'[r] = role[r] /\ step[r] \in {"idle", "budget", "spend", "decide"}
                     /\ step'[r] # "idle"
               /\ \A q \in Request \ {r} : step'[q] = step[q] /\ role'[q] = role[q]
    BY <2>3 DEF AskForRun, Remeasure, AuditFails, ReadSpend, Decide, Forget, RequestOver, TypeOK
  <2>4. \/ UNCHANGED <<step, role>>
        \/ \E p \in Process : Crash(p)
        \/ \E r \in Request : \/ AskForRun(r) \/ Remeasure(r) \/ AuditFails(r)
                              \/ ReadSpend(r) \/ Decide(r) \/ Forget(r)
    BY DEF vars, reqVars, Meter, Rollover, CacheExpires, Begin, Settle
  <2> QED
    BY <2>1, <2>2, <2>3, <2>4
<1>4. \A k \in Key : Fanning(k)' \subseteq Fanning(k) /\ Returning(k)' \subseteq Returning(k)
  BY <1>2 DEF Fanning, Returning
<1>5. Editors' \subseteq Editors
  BY <1>3 DEF Editors, Editing, CountInv
<1>6. IsFiniteSet(Editors') /\ \A r \in Request : step'[r] = "idle" => role'[r] = "run"
  BY <1>3, <1>5, FS_Subset DEF CountInv
<1>7. \A k \in Key : IsFiniteSet(Fanning(k)') /\ IsFiniteSet(Returning(k)') /\ Paid(k)'
  BY <1>1, <1>4, <1>5, FewerIsPaid
<1> QED
  BY <1>6, <1>7 DEF CountInv

LEMMA CountStep ==
    TypeOK /\ ShapeInv /\ TypeOK' /\ CountInv /\ [Next]_vars => CountInv'
<1> SUFFICES ASSUME TypeOK, ShapeInv, TypeOK', CountInv, [Next]_vars PROVE CountInv'
  OBVIOUS
<1>1. ASSUME NEW p \in Process, Claim(p) PROVE CountInv'
  BY <1>1, CountClaim
<1>2. ASSUME NEW p \in Process, Enqueue(p) PROVE CountInv'
  BY <1>2, CountEnqueue
<1>3. ASSUME NEW p \in Process, Release(p) PROVE CountInv'
  BY <1>3, CountRelease
<1>4. ASSUME NEW r \in Request, NEW ceiling \in Limit \cup {NULL}, EditBudget(r, ceiling)
      PROVE  CountInv'
  BY <1>4, CountEdit
<1>5. ASSUME NEW r \in Request, Reconcile(r) PROVE CountInv'
  BY <1>5, CountReconcile
<1> QED
  BY <1>1, <1>2, <1>3, <1>4, <1>5, CountOthers DEF Next

(***************************************************************************)
(* A crossing is announced once, and again only for a changed ceiling or a *)
(* failed fan-out, whatever number of processes observe it at the same     *)
(* time and whichever of them die (budget_alerts.py, announce).            *)
(***************************************************************************)
THEOREM RepeatsOnlyForCause == Spec => []RepeatedOnlyForCause
<1>1. Init => CountInv
  BY CountInit
<1>2. AlertsInv /\ AlertsInv' /\ CountInv /\ [Next]_vars => CountInv'
  BY CountStep DEF AlertsInv
<1>3. AlertsInv /\ CountInv => RepeatedOnlyForCause
  <2> SUFFICES ASSUME AlertsInv, CountInv, NEW k \in Key PROVE told[k] <= 1 + edits + failures
    BY DEF RepeatedOnlyForCause
  <2>1. Paid(k) /\ IsFiniteSet(Fanning(k)) /\ IsFiniteSet(Returning(k)) /\ IsFiniteSet(Editors)
    BY DEF CountInv
  <2>2. /\ Cardinality(Fanning(k)) \in Nat /\ Cardinality(Returning(k)) \in Nat
        /\ Cardinality(Editors) \in Nat
    BY <2>1, FS_CardinalityType
  <2>3. Claimed(k) \in {0, 1} /\ told[k] \in Nat /\ edits \in Nat /\ failures \in Nat
    BY DEF Claimed, AlertsInv, TypeOK
  <2> QED
    BY <2>1, <2>2, <2>3 DEF Paid
<1> QED
  BY <1>1, <1>2, <1>3, AlertsInvariant, PTL DEF Spec

-----------------------------------------------------------------------------
(***************************************************************************)
(* ModelCalls, whose spend the ceiling above is measured against: what the *)
(* guard's cache may make of the records, for every cache window, length   *)
(* of the period, set of costs and ceilings, and number of requests,       *)
(* processes and organisations.                                            *)
(***************************************************************************)
Calls == INSTANCE ModelCalls

-----------------------------------------------------------------------------
(* Sums of records.                                                        *)

Units(records) == UNION {{u} \X (1..u.cost) : u \in records}
OfOrg(records, o) == {u \in records : u.org = o}

\* Every organisation's records add up to a number.
Countable(records) == \A o \in Org : IsFiniteSet(Units(OfOrg(records, o)))

\* The records of an organisation in the period of a moment, and of those the
\* ones that were committed before it.
InLedger(records, o, moment) ==
    {u \in OfOrg(records, o) : Calls!PeriodOf(u.at) = Calls!PeriodOf(moment)}
Committed(records, o, moment) ==
    {u \in InLedger(records, o, moment) : u.at <= moment /\ u.done < moment}

(***************************************************************************)
(* A total counts units, in the sense of the library.                      *)
(***************************************************************************)
LEMMA TotalCountsUnits ==
    ASSUME NEW records
    PROVE  /\ Calls!Total(records) = Cardinality(Units(records))
           /\ Total(records) = Cardinality(Units(records))
<1>1. \A S : Calls!Cardinality(S) = Cardinality(S)
  BY Zenon DEF Calls!Cardinality, Cardinality
<1> QED
  BY <1>1, Zenon DEF Calls!Total, Total, Units

(***************************************************************************)
(* Of two sets of records of one organisation the larger costs no less.    *)
(***************************************************************************)
LEMMA MoreCostsMore ==
    ASSUME NEW records, Countable(records), NEW o \in Org,
           NEW more, more \subseteq OfOrg(records, o),
           NEW fewer, fewer \subseteq more
    PROVE  /\ Calls!Total(fewer) \in Nat
           /\ Calls!Total(more) \in Nat
           /\ Calls!Total(fewer) <= Calls!Total(more)
<1>1. IsFiniteSet(Units(OfOrg(records, o)))
  BY DEF Countable
<1>2. Units(more) \in SUBSET Units(OfOrg(records, o))
  BY DEF Units
<1>3. Units(fewer) \in SUBSET Units(more)
  BY DEF Units
<1>4. IsFiniteSet(Units(more))
  BY <1>1, <1>2, FS_Subset, Zenon
<1>5. IsFiniteSet(Units(fewer)) /\ Cardinality(Units(fewer)) <= Cardinality(Units(more))
  BY <1>3, <1>4, FS_Subset, Zenon
<1>6. Cardinality(Units(fewer)) \in Nat /\ Cardinality(Units(more)) \in Nat
  BY <1>4, <1>5, FS_CardinalityType, Zenon
<1> QED
  BY <1>5, <1>6, TotalCountsUnits

(***************************************************************************)
(* One more record keeps the sums numbers.                                 *)
(***************************************************************************)
LEMMA OneMoreCounts ==
    ASSUME NEW records, Countable(records), NEW v, v.cost \in Nat
    PROVE  Countable(records \cup {v})
<1> SUFFICES ASSUME NEW o \in Org
             PROVE  IsFiniteSet(Units(OfOrg(records \cup {v}, o)))
  BY DEF Countable
<1>1. IsFiniteSet(Units(OfOrg(records, o)))
  BY DEF Countable
<1>2. IsFiniteSet({v} \X (1..v.cost))
  <2>1. IsFiniteSet({v})
    BY FS_Singleton, Zenon
  <2>2. IsFiniteSet(1..v.cost)
    <3>1. 1 \in Int /\ v.cost \in Int
      OBVIOUS
    <3> QED
      BY <3>1, FS_Interval, Zenon
  <2> QED
    BY <2>1, <2>2, FS_Product, Zenon
<1>3. IsFiniteSet(Units(OfOrg(records, o)) \cup ({v} \X (1..v.cost)))
  BY <1>1, <1>2, FS_Union, Zenon
<1>4. Units(OfOrg(records \cup {v}, o))
        \in SUBSET (Units(OfOrg(records, o)) \cup ({v} \X (1..v.cost)))
  BY DEF Units, OfOrg
<1> QED
  BY <1>3, <1>4, FS_Subset, Zenon

(***************************************************************************)
(* The cheapest answer is one of those an answer may cost.                 *)
(***************************************************************************)
LEMMA CheapestIsACost ==
    ASSUME Calls!ModelCallsAssumption
    PROVE  Calls!Cheapest \in Nat
<1>1. Costs \in SUBSET Nat /\ Costs # {}
  BY DEF Calls!ModelCallsAssumption
<1>2. PICK least \in Costs : \A c \in Costs : <<c, least>> \notin OpToRel(<, Nat)
  BY <1>1, NatLessThanWellFounded, WFMin
<1>3. \A c \in Costs : ~ (c < least)
  BY <1>1, <1>2 DEF OpToRel
<1>4. \A c \in Costs : least <= c
  BY <1>1, <1>3
<1> QED
  BY <1>1, <1>4 DEF Calls!Cheapest

-----------------------------------------------------------------------------
(* What a measured spend is worth.                                         *)

(***************************************************************************)
(* A spend measured at a moment covers what was committed before it, and   *)
(* never more than the period comes to, now and later.                     *)
(***************************************************************************)
Measures(records, clock, o, moment, sum) ==
    /\ moment \in Nat /\ moment <= clock /\ sum \in Nat
    /\ Calls!Total(Committed(records, o, moment)) <= sum
    /\ sum <= Calls!Total(InLedger(records, o, moment))

\* The records a standing may not overlook.
Known(records, s) ==
    {u \in InLedger(records, s.org, s.moment) :
        u.at <= s.moment /\ u.done + Cache <= s.moment}

(***************************************************************************)
(* Later records are committed later.                                      *)
(***************************************************************************)
Follows(clock, before, after) ==
    /\ before \subseteq after
    /\ \A u \in after \ before : u.done = clock

LEMMA MeasureLasts ==
    ASSUME NEW clock \in Nat, NEW later \in Nat, clock <= later,
           NEW before, NEW after, Follows(clock, before, after), Countable(after),
           NEW o \in Org, NEW moment, NEW sum,
           Measures(before, clock, o, moment, sum)
    PROVE  Measures(after, later, o, moment, sum)
<1>1. moment \in Nat /\ moment <= clock
  BY DEF Measures
<1>2. Committed(after, o, moment) = Committed(before, o, moment)
  BY <1>1 DEF Committed, InLedger, OfOrg, Follows
<1>3. InLedger(before, o, moment) \subseteq InLedger(after, o, moment)
  BY DEF InLedger, OfOrg, Follows
<1>4. InLedger(after, o, moment) \subseteq OfOrg(after, o)
  BY DEF InLedger
<1>5. /\ Calls!Total(InLedger(before, o, moment)) \in Nat
      /\ Calls!Total(InLedger(after, o, moment)) \in Nat
      /\ Calls!Total(InLedger(before, o, moment)) <= Calls!Total(InLedger(after, o, moment))
  BY <1>3, <1>4, MoreCostsMore
<1> QED
  BY <1>1, <1>2, <1>5 DEF Measures

(***************************************************************************)
(* What a standing knows of stays what it was.                             *)
(***************************************************************************)
LEMMA KnownLasts ==
    ASSUME Calls!ModelCallsAssumption,
           NEW clock \in Nat, NEW before, NEW after, Follows(clock, before, after),
           NEW s, s.moment \in Nat, s.moment <= clock
    PROVE  Known(after, s) = Known(before, s)
<1>1. Cache \in Nat /\ Cache > 0
  BY DEF Calls!ModelCallsAssumption
<1>2. \A u \in after \ before : ~ (u.done + Cache <= s.moment)
  BY <1>1 DEF Follows
<1> QED
  BY <1>2 DEF Known, InLedger, OfOrg, Follows

(***************************************************************************)
(* What was measured at a moment of the same period, less than a window    *)
(* before the standing's, covers what the standing may not overlook: the   *)
(* records have been committed a window before.                            *)
(***************************************************************************)
LEMMA FreshCoversKnown ==
    ASSUME Calls!ModelCallsAssumption,
           NEW records, Countable(records),
           \A u \in records : u.at \in Nat /\ u.done \in Nat /\ u.at <= u.done,
           NEW clock, NEW s, s.org \in Org, s.moment \in Nat,
           NEW moment, NEW sum, Measures(records, clock, s.org, moment, sum),
           Calls!PeriodOf(moment) = Calls!PeriodOf(s.moment),
           s.moment - moment < Cache
    PROVE  /\ Calls!Total(Known(records, s)) <= sum
           /\ sum <= Calls!Total(InLedger(records, s.org, s.moment))
           /\ sum \in Nat
<1>1. Cache \in Nat /\ Cache > 0
  BY DEF Calls!ModelCallsAssumption
<1>2. moment \in Nat /\ sum \in Nat
  BY DEF Measures
<1>3. \A u \in records : u.done + Cache <= s.moment => u.done < moment /\ u.at <= moment
  BY <1>1, <1>2
<1>4. Known(records, s) \subseteq Committed(records, s.org, moment)
  BY <1>3 DEF Known, Committed, InLedger, OfOrg
<1>5. Committed(records, s.org, moment) \subseteq OfOrg(records, s.org)
  BY DEF Committed, InLedger
<1>6. /\ Calls!Total(Known(records, s)) \in Nat
      /\ Calls!Total(Committed(records, s.org, moment)) \in Nat
      /\ Calls!Total(Known(records, s)) <= Calls!Total(Committed(records, s.org, moment))
  BY <1>4, <1>5, MoreCostsMore
<1>7. InLedger(records, s.org, moment) = InLedger(records, s.org, s.moment)
  BY DEF InLedger
<1> QED
  BY <1>2, <1>6, <1>7 DEF Measures

(***************************************************************************)
(* The sum of the period's records is a measure of it.                     *)
(***************************************************************************)
LEMMA SumMeasures ==
    ASSUME NEW records, Countable(records),
           \A u \in records : u.at \in Nat /\ u.done \in Nat /\ u.at <= u.done,
           NEW clock \in Nat, NEW o \in Org, NEW moment \in Nat, moment <= clock
    PROVE  Measures(records, clock, o, moment,
                    Calls!Total({u \in InLedger(records, o, moment) : u.at <= moment}))
<1> DEFINE asked == {u \in InLedger(records, o, moment) : u.at <= moment}
<1>1. Committed(records, o, moment) \subseteq asked
  BY DEF Committed
<1>2. asked \subseteq InLedger(records, o, moment)
  OBVIOUS
<1>3. InLedger(records, o, moment) \subseteq OfOrg(records, o)
  BY DEF InLedger
<1> HIDE DEF asked
<1>4. asked \subseteq OfOrg(records, o)
  BY <1>2, <1>3
<1>5. /\ Calls!Total(Committed(records, o, moment)) <= Calls!Total(asked)
      /\ Calls!Total(asked) \in Nat
  BY <1>1, <1>4, MoreCostsMore
<1>6. Calls!Total(asked) <= Calls!Total(InLedger(records, o, moment))
  BY <1>2, <1>3, MoreCostsMore
<1>7. Measures(records, clock, o, moment, Calls!Total(asked))
  BY <1>5, <1>6 DEF Measures
<1> QED
  BY <1>7 DEF asked

-----------------------------------------------------------------------------
(* The invariant.                                                          *)

Standing == [org : Org \cup {None}, moment : Nat, budget : Ceilings \cup {None},
             spent : Nat, measured : BOOLEAN]

LedgerInv ==
    /\ now \in Nat /\ budgets \in [Org -> Ceilings \cup {None}]
    /\ \A u \in usage : /\ u.org \in Org /\ u.cost \in Nat /\ u.at \in Nat
                        /\ u.done \in Nat /\ u.at <= u.done /\ u.done <= now
    /\ Countable(usage)

\* Whatever process remembers it, and however late it was written back.
Worth(records, clock, o, e) ==
    e # None => /\ e.period = Calls!PeriodOf(e.at)
                /\ Measures(records, clock, o, e.at, e.spent)
CacheInv ==
    /\ cached \in [Server -> [Org -> [period : {Calls!PeriodOf(t) : t \in Nat},
                                      at : Nat, spent : Nat] \cup {None}]]
    /\ \A p \in Server, o \in Org : Worth(usage, now, o, cached[p][o])

\* What a request that has come so far is judged by, and was told.
Upheld(records, clock, place, j, s, heard) ==
    /\ place \in Calls!Steps /\ heard \in Calls!Answers /\ s \in Standing
    /\ place \notin {"free", "over"} => j.org \in Org /\ j.process \in Server
    /\ place \in {"spend", "remember"} => s.org = j.org /\ s.moment <= clock
    /\ place = "spend" => ~ s.measured /\ s.spent = 0
    /\ place = "remember" => s.measured /\ Measures(records, clock, s.org, s.moment, s.spent)
    /\ place \in {"generate", "sleep", "meter"} =>
          /\ s.org \in Org /\ s.moment <= clock /\ ~ Calls!Blocked(s)
          /\ s.measured => Calls!Total(Known(records, s)) <= s.spent
    /\ heard = "budget_exceeded" =>
          /\ place = "over" /\ s.org \in Org /\ s.moment <= clock /\ Calls!Blocked(s)
          /\ s.spent <= Calls!Total(InLedger(records, s.org, s.moment))
RequestInv ==
    /\ DOMAIN pc = Caller /\ DOMAIN job = Caller
    /\ DOMAIN standing = Caller /\ DOMAIN answer = Caller
    /\ \A r \in Caller : Upheld(usage, now, pc[r], job[r], standing[r], answer[r])

CallsInv == LedgerInv /\ CacheInv /\ RequestInv
CallsFacts == Calls!ModelCallsAssumption

(***************************************************************************)
(* At the start nothing is remembered and nobody has been told anything.   *)
(***************************************************************************)
LEMMA CallsInit == ASSUME CallsFacts PROVE Calls!Init => CallsInv
<1> SUFFICES ASSUME Calls!Init PROVE CallsInv
  OBVIOUS
<1>1. LedgerInv
  <2>1. PICK earlier \in SUBSET Org :
          usage = {[by |-> None, n |-> 0, org |-> o, cost |-> Calls!Cheapest,
                    at |-> 0, done |-> 0] : o \in earlier}
    BY DEF Calls!Init
  <2>2. Calls!Cheapest \in Nat
    BY CheapestIsACost DEF CallsFacts
  <2>3. Countable(usage)
    <3> SUFFICES ASSUME NEW o \in Org PROVE IsFiniteSet(Units(OfOrg(usage, o)))
      BY DEF Countable
    <3> DEFINE first == [by |-> None, n |-> 0, org |-> o, cost |-> Calls!Cheapest,
                         at |-> 0, done |-> 0]
    <3>1. Units(OfOrg(usage, o)) \in SUBSET ({first} \X (1..Calls!Cheapest))
      BY <2>1 DEF Units, OfOrg
    <3>2. IsFiniteSet({first} \X (1..Calls!Cheapest))
      <4>1. IsFiniteSet({first})
        BY FS_Singleton, Zenon
      <4>2. IsFiniteSet(1..Calls!Cheapest)
        <5>1. 1 \in Int /\ Calls!Cheapest \in Int
          BY <2>2
        <5> QED
          BY <5>1, FS_Interval, Zenon
      <4> QED
        BY <4>1, <4>2, FS_Product, Zenon
    <3> QED
      BY <3>1, <3>2, FS_Subset, Zenon
  <2> QED
    BY <2>1, <2>2, <2>3 DEF LedgerInv, Calls!Init
<1>2. CacheInv
  BY DEF CacheInv, Worth, Calls!Init
<1>3. RequestInv
  BY DEF RequestInv, Upheld, Standing, Calls!Init, Calls!Unknown, Calls!Steps, Calls!Answers
<1> QED
  BY <1>1, <1>2, <1>3 DEF CallsInv

(***************************************************************************)
(* What later records leave alone: a measure, an entry of a cache and a    *)
(* request that does nothing meanwhile.                                    *)
(***************************************************************************)
LEMMA WorthLasts ==
    ASSUME NEW clock \in Nat, NEW later \in Nat, clock <= later,
           NEW before, NEW after, Follows(clock, before, after), Countable(after),
           NEW o \in Org, NEW e, Worth(before, clock, o, e)
    PROVE  Worth(after, later, o, e)
BY MeasureLasts DEF Worth

LEMMA UpheldLasts ==
    ASSUME Calls!ModelCallsAssumption,
           NEW clock \in Nat, NEW later \in Nat, clock <= later,
           NEW before, NEW after, Follows(clock, before, after), Countable(after),
           NEW place, NEW j, NEW s, NEW heard, Upheld(before, clock, place, j, s, heard)
    PROVE  Upheld(after, later, place, j, s, heard)
<1>1. s \in Standing
  BY DEF Upheld
<1>2. s.moment \in Nat
  BY <1>1 DEF Standing
<1>3. place = "remember" => Measures(after, later, s.org, s.moment, s.spent)
  BY MeasureLasts DEF Upheld
<1>4. s.moment <= clock => Known(after, s) = Known(before, s)
  BY <1>2, KnownLasts
<1>5. s.org \in Org => /\ Calls!Total(InLedger(before, s.org, s.moment)) \in Nat
                       /\ Calls!Total(InLedger(after, s.org, s.moment)) \in Nat
                       /\ Calls!Total(InLedger(before, s.org, s.moment))
                             <= Calls!Total(InLedger(after, s.org, s.moment))
  <2>1. InLedger(before, s.org, s.moment) \subseteq InLedger(after, s.org, s.moment)
    BY DEF InLedger, OfOrg, Follows
  <2>2. InLedger(after, s.org, s.moment) \subseteq OfOrg(after, s.org)
    BY DEF InLedger
  <2> QED
    BY <2>1, <2>2, MoreCostsMore
<1>6. s.spent \in Nat
  BY <1>1 DEF Standing
<1>7. s.moment <= clock => s.moment <= later
  BY <1>2
<1>8. place \in {"generate", "sleep", "meter"} =>
          /\ s.org \in Org /\ s.moment <= later /\ ~ Calls!Blocked(s)
          /\ s.measured => Calls!Total(Known(after, s)) <= s.spent
  BY <1>4, <1>7 DEF Upheld
<1>9. heard = "budget_exceeded" =>
          /\ place = "over" /\ s.org \in Org /\ s.moment <= later /\ Calls!Blocked(s)
          /\ s.spent <= Calls!Total(InLedger(after, s.org, s.moment))
  BY <1>5, <1>6, <1>7 DEF Upheld
<1> QED
  BY <1>1, <1>3, <1>7, <1>8, <1>9 DEF Upheld

(***************************************************************************)
(* How a place of one request is put together: its own new state is in      *)
(* order, and nobody else's has changed.                                   *)
(***************************************************************************)
Moves(r) ==
    /\ DOMAIN pc' = Caller /\ DOMAIN job' = Caller
    /\ DOMAIN standing' = Caller /\ DOMAIN answer' = Caller
    /\ Upheld(usage', now', pc'[r], job'[r], standing'[r], answer'[r])
    /\ \A q \in Caller \ {r} : /\ pc'[q] = pc[q] /\ job'[q] = job[q]
                               /\ standing'[q] = standing[q] /\ answer'[q] = answer[q]

LEMMA ProceedMoves ==
    ASSUME CallsInv, NEW r \in Caller, NEW place, NEW s, Calls!Proceed(r, place, s),
           Upheld(usage', now', place, job[r], s, answer[r])
    PROVE  Moves(r)
BY DEF Calls!Proceed, Moves, CallsInv, RequestInv

LEMMA EndMoves ==
    ASSUME CallsInv, NEW r \in Caller, NEW heard, NEW s, Calls!End(r, heard, s),
           Upheld(usage', now', "over", Calls!Idle, s, heard)
    PROVE  Moves(r)
BY DEF Calls!End, Moves, CallsInv, RequestInv

LEMMA ReplyMoves ==
    ASSUME CallsInv, NEW r \in Caller, NEW heard, Calls!Reply(r, heard),
           heard \in Calls!Answers \ {"budget_exceeded"}
    PROVE  Moves(r)
<1>1. Calls!End(r, heard, Calls!Unknown)
  BY DEF Calls!Reply
<1>2. Upheld(usage', now', "over", Calls!Idle, Calls!Unknown, heard)
  BY DEF Upheld, Calls!Unknown, Standing, Calls!Steps
<1> QED
  BY <1>1, <1>2, EndMoves

\* A request that has not been told that the budget is exceeded is told nothing
\* of it by going on.
LEMMA NotToldYet ==
    ASSUME CallsInv, NEW r \in Caller, pc[r] # "over"
    PROVE  answer[r] \in Calls!Answers \ {"budget_exceeded"}
BY DEF CallsInv, RequestInv, Upheld

LEMMA RequestsMove ==
    ASSUME CallsFacts, CallsInv, NEW r \in Caller, Moves(r),
           now' \in Nat, now <= now', Follows(now, usage, usage'), Countable(usage')
    PROVE  RequestInv'
<1> SUFFICES ASSUME NEW q \in Caller
             PROVE  Upheld(usage', now', pc'[q], job'[q], standing'[q], answer'[q])
  BY DEF RequestInv, Moves
<1>1. CASE q = r
  BY <1>1 DEF Moves
<1>2. CASE q # r
  <2>1. Upheld(usage, now, pc[q], job[q], standing[q], answer[q])
    BY DEF CallsInv, RequestInv
  <2>2. Upheld(usage', now', pc[q], job[q], standing[q], answer[q])
    BY <2>1, UpheldLasts DEF CallsInv, LedgerInv, CallsFacts
  <2> QED
    BY <1>2, <2>2 DEF Moves
<1> QED
  BY <1>1, <1>2

LEMMA CachesLast ==
    ASSUME CallsInv, cached' = cached,
           now' \in Nat, now <= now', Follows(now, usage, usage'), Countable(usage')
    PROVE  CacheInv'
<1> SUFFICES ASSUME NEW p \in Server, NEW o \in Org
             PROVE  Worth(usage', now', o, cached[p][o])
  BY DEF CacheInv, CallsInv
<1>1. Worth(usage, now, o, cached[p][o])
  BY DEF CallsInv, CacheInv
<1> QED
  BY <1>1, WorthLasts DEF CallsInv, LedgerInv

\* A place that leaves the records and the clock alone.
LEMMA StillFollows ==
    ASSUME CallsInv, usage' = usage, now' = now
    PROVE  /\ now' \in Nat /\ now <= now' /\ Follows(now, usage, usage')
           /\ Countable(usage')
BY DEF CallsInv, LedgerInv, Follows

\* And the ceilings and the caches.
LEMMA QuietStep ==
    ASSUME CallsFacts, CallsInv, NEW r \in Caller, Moves(r),
           UNCHANGED <<now, usage, budgets, cached>>
    PROVE  CallsInv'
<1>1. LedgerInv'
  BY DEF CallsInv, LedgerInv
<1> QED
  BY <1>1, StillFollows, RequestsMove, CachesLast DEF CallsInv

(***************************************************************************)
(* enforce_budget: whoever is judged by a sound standing is told so for    *)
(* cause, or goes on for cause.                                            *)
(***************************************************************************)
LEMMA DecideMoves ==
    ASSUME CallsInv, NEW r \in Caller, pc[r] \in {"spend", "remember"},
           usage' = usage, now' = now,
           NEW s, s \in Standing, s.org = job[r].org, s.moment <= now,
           s.measured => Calls!Total(Known(usage, s)) <= s.spent,
           s.spent <= Calls!Total(InLedger(usage, s.org, s.moment)),
           Calls!Decide(r, s)
    PROVE  Moves(r)
<1>1. job[r].org \in Org /\ job[r].process \in Server
  BY DEF CallsInv, RequestInv, Upheld
<1>2. answer[r] \in Calls!Answers \ {"budget_exceeded"}
  BY NotToldYet
<1>3. CASE Calls!Reply(r, "answered")
  BY <1>3, ReplyMoves DEF Calls!Answers
<1>4. CASE Calls!Blocked(s) /\ Calls!End(r, "budget_exceeded", s)
  <2>1. Upheld(usage', now', "over", Calls!Idle, s, "budget_exceeded")
    BY <1>1, <1>4 DEF Upheld, Calls!Steps, Calls!Answers
  <2> QED
    BY <1>4, <2>1, EndMoves
<1>5. CASE ~ Calls!Blocked(s) /\ Calls!Proceed(r, "generate", s)
  <2>1. Upheld(usage', now', "generate", job[r], s, answer[r])
    BY <1>1, <1>2, <1>5 DEF Upheld, Calls!Steps
  <2> QED
    BY <1>5, <2>1, ProceedMoves
<1> QED
  BY <1>3, <1>4, <1>5 DEF Calls!Decide

(***************************************************************************)
(* The steps of a request.                                                 *)
(***************************************************************************)
LEMMA AdmissionKeeps ==
    ASSUME CallsFacts, CallsInv, NEW r \in Caller
    PROVE  /\ \A o \in Org, p \in Server, kind \in {"run", "look", "set"} :
                  Calls!Arrive(r, o, p, kind) => CallsInv'
           /\ Calls!SetBudget(r) => CallsInv'
           /\ Calls!Invalidate(r) => CallsInv'
           /\ Calls!ReadBudget(r) => CallsInv'
           /\ Calls!RequestFails(r) => CallsInv'
<1>0. Upheld(usage, now, pc[r], job[r], standing[r], answer[r])
  BY DEF CallsInv, RequestInv
<1>1. ASSUME NEW o \in Org, NEW p \in Server, NEW kind \in {"run", "look", "set"},
             Calls!Arrive(r, o, p, kind)
      PROVE  CallsInv'
  <2>1. CASE Calls!Reply(r, "rate_limited")
    <3>1. Moves(r)
      BY <2>1, ReplyMoves DEF Calls!Answers
    <3> QED
      BY <1>1, <3>1, QuietStep DEF Calls!Arrive
  <2>2. CASE /\ job' = [job EXCEPT ![r] = [org |-> o, process |-> p, kind |-> kind]]
             /\ pc' = [pc EXCEPT ![r] = IF kind = "set" THEN "set" ELSE "status"]
             /\ UNCHANGED <<standing, answer>>
    <3>1. answer[r] \in Calls!Answers \ {"budget_exceeded"}
      BY <1>1, NotToldYet DEF Calls!Arrive
    <3>2. Upheld(usage, now, IF kind = "set" THEN "set" ELSE "status",
                 [org |-> o, process |-> p, kind |-> kind], standing[r], answer[r])
      BY <1>0, <3>1 DEF Upheld, Calls!Steps
    <3>3. usage' = usage /\ now' = now
      BY <1>1 DEF Calls!Arrive
    <3>4. Moves(r)
      BY <2>2, <3>2, <3>3 DEF Moves, CallsInv, RequestInv
    <3> QED
      BY <1>1, <3>4, QuietStep DEF Calls!Arrive
  <2> QED
    BY <1>1, <2>1, <2>2 DEF Calls!Arrive
<1>2. ASSUME Calls!SetBudget(r) PROVE CallsInv'
  <2>1. answer[r] \in Calls!Answers \ {"budget_exceeded"}
    BY <1>2, NotToldYet DEF Calls!SetBudget
  <2>2. usage' = usage /\ now' = now /\ cached' = cached
    BY <1>2 DEF Calls!SetBudget
  <2>3. Upheld(usage', now', "invalidate", job[r], standing[r], answer[r])
    BY <1>0, <1>2, <2>1, <2>2 DEF Upheld, Calls!Steps, Calls!SetBudget
  <2>4. Moves(r)
    BY <1>2, <2>3, ProceedMoves DEF Calls!SetBudget, Calls!Goto
  <2>5. LedgerInv'
    <3>1. budgets' \in [Org -> Ceilings \cup {None}]
      BY <1>2 DEF Calls!SetBudget, CallsInv, LedgerInv
    <3> QED
      BY <2>2, <3>1 DEF CallsInv, LedgerInv
  <2> QED
    BY <2>2, <2>4, <2>5, StillFollows, RequestsMove, CachesLast DEF CallsInv
<1>3. ASSUME Calls!Invalidate(r) PROVE CallsInv'
  <2>1. answer[r] \in Calls!Answers \ {"budget_exceeded"}
    BY <1>3, NotToldYet DEF Calls!Invalidate
  <2>2. usage' = usage /\ now' = now /\ budgets' = budgets
    BY <1>3 DEF Calls!Invalidate
  <2>3. Upheld(usage', now', "status", job[r], standing[r], answer[r])
    BY <1>0, <1>3, <2>1, <2>2 DEF Upheld, Calls!Steps, Calls!Invalidate
  <2>4. Moves(r)
    BY <1>3, <2>3, ProceedMoves DEF Calls!Invalidate, Calls!Goto
  <2>5. LedgerInv'
    BY <2>2 DEF CallsInv, LedgerInv
  <2>6. CacheInv'
    <3>1. cached' = [cached EXCEPT ![job[r].process][job[r].org] = None]
      BY <1>3 DEF Calls!Invalidate
    <3>2. job[r].org \in Org /\ job[r].process \in Server
      BY <1>0, <1>3 DEF Upheld, Calls!Invalidate
    <3> QED
      BY <2>2, <3>1, <3>2 DEF CallsInv, CacheInv, Worth
  <2> QED
    BY <2>2, <2>4, <2>5, <2>6, StillFollows, RequestsMove DEF CallsInv
<1>4. ASSUME Calls!ReadBudget(r) PROVE CallsInv'
  <2> DEFINE read == [Calls!Unknown EXCEPT !.org = job[r].org, !.moment = now,
                                           !.budget = budgets[job[r].org]]
  <2>1. answer[r] \in Calls!Answers \ {"budget_exceeded"}
    BY <1>4, NotToldYet DEF Calls!ReadBudget
  <2>2. UNCHANGED <<now, usage, budgets, cached>>
    BY <1>4 DEF Calls!ReadBudget
  <2>3. job[r].org \in Org /\ job[r].process \in Server
    BY <1>0, <1>4 DEF Upheld, Calls!ReadBudget
  <2>4. /\ read \in Standing /\ read.org = job[r].org /\ read.moment = now
        /\ ~ read.measured /\ read.spent = 0
    BY <2>3 DEF Calls!Unknown, Standing, CallsInv, LedgerInv
  <2>5. now \in Nat
    BY DEF CallsInv, LedgerInv
  <2> HIDE DEF read
  <2>6. Upheld(usage', now', "spend", job[r], read, answer[r])
    BY <2>1, <2>2, <2>3, <2>4, <2>5 DEF Upheld, Calls!Steps
  <2>7. Calls!Proceed(r, "spend", read)
    BY <1>4 DEF Calls!ReadBudget, read
  <2> QED
    BY <2>2, <2>6, <2>7, ProceedMoves, QuietStep
<1>5. ASSUME Calls!RequestFails(r) PROVE CallsInv'
  <2>1. Moves(r)
    BY <1>5, ReplyMoves DEF Calls!RequestFails, Calls!Answers
  <2> QED
    BY <1>5, <2>1, QuietStep DEF Calls!RequestFails
<1> QED
  BY <1>1, <1>2, <1>3, <1>4, <1>5

(***************************************************************************)
(* The spend: from the cache, measured, not to be had, or remembered.      *)
(***************************************************************************)
LEMMA SpendKeeps ==
    ASSUME CallsFacts, CallsInv, NEW r \in Caller
    PROVE  /\ Calls!SpendFromCache(r) => CallsInv'
           /\ Calls!MeasureSpend(r) => CallsInv'
           /\ Calls!FailOpen(r) => CallsInv'
           /\ Calls!Remember(r) => CallsInv'
<1> DEFINE s == standing[r]
           o == job[r].org
           p == job[r].process
<1>0. Upheld(usage, now, pc[r], job[r], s, answer[r])
  BY DEF CallsInv, RequestInv
<1>1. s \in Standing /\ s.moment \in Nat /\ s.spent \in Nat
  BY <1>0 DEF Upheld, Standing
<1>2. pc[r] \in {"spend", "remember"} =>
        o \in Org /\ p \in Server /\ s.org = o /\ s.moment <= now
  BY <1>0 DEF Upheld
<1>3. /\ now \in Nat /\ Countable(usage)
      /\ \A u \in usage : u.at \in Nat /\ u.done \in Nat /\ u.at <= u.done
  BY DEF CallsInv, LedgerInv
<1>4. Cache \in Nat \ {0}
  BY DEF CallsFacts, Calls!ModelCallsAssumption
<1>5. o \in Org => Calls!Total(InLedger(usage, o, s.moment)) \in Nat
  BY <1>3, MoreCostsMore DEF InLedger
<1>6. ASSUME Calls!SpendFromCache(r) PROVE CallsInv'
  <2> DEFINE e == cached[p][o]
             judged == [s EXCEPT !.spent = e.spent, !.measured = TRUE]
  <2>1. /\ pc[r] = "spend" /\ Calls!Fresh(e, s.moment) /\ Calls!Decide(r, judged)
        /\ UNCHANGED <<now, usage, budgets, cached>>
    BY <1>6 DEF Calls!SpendFromCache, Calls!Cached
  <2>2. e # None /\ e.period = Calls!PeriodOf(s.moment) /\ s.moment - e.at < Cache
    BY <2>1 DEF Calls!Fresh
  <2>3. Worth(usage, now, o, e)
    BY <1>2, <2>1 DEF CallsInv, CacheInv
  <2>4. /\ Measures(usage, now, o, e.at, e.spent)
        /\ Calls!PeriodOf(e.at) = Calls!PeriodOf(s.moment)
    BY <2>2, <2>3 DEF Worth
  <2>5. e.spent \in Nat
    BY <2>4 DEF Measures
  <2>6. /\ judged \in Standing /\ judged.org = s.org /\ judged.moment = s.moment
        /\ judged.spent = e.spent
    BY <1>1, <2>5 DEF Standing
  <2> HIDE DEF e, judged
  <2>7. /\ Calls!Total(Known(usage, judged)) <= judged.spent
        /\ judged.spent <= Calls!Total(InLedger(usage, judged.org, judged.moment))
    BY <1>1, <1>2, <1>3, <2>1, <2>2, <2>4, <2>6, FreshCoversKnown DEF CallsFacts
  <2>8. Moves(r)
    BY <1>2, <2>1, <2>6, <2>7, DecideMoves
  <2> QED
    BY <2>1, <2>8, QuietStep
<1>7. ASSUME Calls!MeasureSpend(r) PROVE CallsInv'
  <2> DEFINE sum == Calls!Total({u \in InLedger(usage, o, s.moment) : u.at <= s.moment})
             judged == [s EXCEPT !.measured = TRUE, !.spent = sum]
  <2>1. {u \in InLedger(usage, o, s.moment) : u.at <= s.moment}
          = Calls!UsageReport(o, s.moment)
    BY DEF InLedger, OfOrg, Calls!UsageReport, Calls!InPeriod
  <2>2. /\ pc[r] = "spend" /\ Calls!Proceed(r, "remember", judged)
        /\ UNCHANGED <<now, usage, budgets, cached>>
    BY <1>7, <2>1 DEF Calls!MeasureSpend
  <2>3. Measures(usage, now, o, s.moment, sum)
    BY <1>1, <1>2, <1>3, <2>2, SumMeasures
  <2>4. sum \in Nat
    BY <2>3 DEF Measures
  <2> HIDE DEF sum
  <2>5. /\ judged \in Standing /\ judged.org = s.org /\ judged.moment = s.moment
        /\ judged.spent = sum /\ judged.measured
    BY <1>1, <2>4 DEF Standing
  <2>6. answer[r] \in Calls!Answers \ {"budget_exceeded"}
    BY <2>2, NotToldYet
  <2> HIDE DEF judged
  <2>7. Upheld(usage', now', "remember", job[r], judged, answer[r])
    BY <1>2, <2>2, <2>3, <2>5, <2>6 DEF Upheld, Calls!Steps
  <2> QED
    BY <2>2, <2>7, ProceedMoves, QuietStep
<1>8. ASSUME Calls!FailOpen(r) PROVE CallsInv'
  <2>1. /\ pc[r] = "spend" /\ Calls!Decide(r, s)
        /\ UNCHANGED <<now, usage, budgets, cached>>
    BY <1>8 DEF Calls!FailOpen
  <2>2. ~ s.measured /\ s.spent = 0
    BY <1>0, <2>1 DEF Upheld
  <2>3. s.spent <= Calls!Total(InLedger(usage, s.org, s.moment))
    BY <1>2, <1>5, <2>1, <2>2
  <2>4. Moves(r)
    BY <1>1, <1>2, <2>1, <2>2, <2>3, DecideMoves
  <2> QED
    BY <2>1, <2>4, QuietStep
<1>9. ASSUME Calls!Remember(r) PROVE CallsInv'
  <2> DEFINE e == [period |-> Calls!PeriodOf(s.moment), at |-> s.moment, spent |-> s.spent]
  <2>1. /\ pc[r] = "remember" /\ Calls!Decide(r, s)
        /\ cached' = [cached EXCEPT ![p][o] = e]
        /\ UNCHANGED <<now, usage, budgets>>
    BY <1>9 DEF Calls!Remember
  <2>2. Measures(usage, now, o, s.moment, s.spent)
    BY <1>0, <1>2, <2>1 DEF Upheld
  <2>3. /\ Calls!Total(Known(usage, s)) <= s.spent
        /\ s.spent <= Calls!Total(InLedger(usage, s.org, s.moment))
    <3>1. s.moment - s.moment < Cache
      BY <1>1, <1>4
    <3> QED
      BY <1>1, <1>2, <1>3, <2>1, <2>2, <3>1, FreshCoversKnown DEF CallsFacts
  <2>4. Moves(r)
    BY <1>1, <1>2, <2>1, <2>3, DecideMoves
  <2>5. Worth(usage, now, o, e)
    BY <2>2 DEF Worth
  <2>6. e \in [period : {Calls!PeriodOf(t) : t \in Nat}, at : Nat, spent : Nat]
    BY <1>1
  <2>7. CacheInv'
    <3> HIDE DEF e
    <3>1. cached' \in [Server -> [Org -> [period : {Calls!PeriodOf(t) : t \in Nat},
                                         at : Nat, spent : Nat] \cup {None}]]
      BY <1>2, <2>1, <2>6 DEF CallsInv, CacheInv
    <3>2. ASSUME NEW a \in Server, NEW b \in Org
          PROVE  Worth(usage', now', b, cached'[a][b])
      <4>1. CASE a = p /\ b = o
        BY <1>2, <2>1, <2>5, <4>1 DEF CallsInv, CacheInv
      <4>2. CASE ~ (a = p /\ b = o)
        <5>1. cached'[a][b] = cached[a][b]
          BY <1>2, <2>1, <4>2 DEF CallsInv, CacheInv
        <5> QED
          BY <2>1, <5>1 DEF CallsInv, CacheInv
      <4> QED
        BY <4>1, <4>2
    <3> QED
      BY <3>1, <3>2 DEF CacheInv
  <2>8. LedgerInv'
    BY <2>1 DEF CallsInv, LedgerInv
  <2> QED
    BY <2>1, <2>4, <2>7, <2>8, StillFollows, RequestsMove DEF CallsInv
<1> QED
  BY <1>6, <1>7, <1>8, <1>9

(***************************************************************************)
(* The model, its rate limits and what it costs.                           *)
(***************************************************************************)
LEMMA ModelKeeps ==
    ASSUME CallsFacts, CallsInv, NEW r \in Caller
    PROVE  /\ Calls!Generate(r) => CallsInv'
           /\ Calls!GenerateFails(r) => CallsInv'
           /\ \A hint \in Hints : Calls!RateLimited(r, hint) => CallsInv'
           /\ Calls!Wake(r) => CallsInv'
<1>0. Upheld(usage, now, pc[r], job[r], standing[r], answer[r])
  BY DEF CallsInv, RequestInv
<1>1. ASSUME pc[r] \in {"generate", "sleep", "meter"},
             NEW place \in {"generate", "sleep", "meter"}, Calls!Goto(r, place),
             UNCHANGED <<now, usage, budgets, cached>>
      PROVE  CallsInv'
  <2>1. answer[r] \in Calls!Answers \ {"budget_exceeded"}
    BY <1>1, NotToldYet
  <2>2. Upheld(usage', now', place, job[r], standing[r], answer[r])
    BY <1>0, <1>1, <2>1 DEF Upheld, Calls!Steps
  <2> QED
    BY <1>1, <2>2, ProceedMoves, QuietStep DEF Calls!Goto
<1>2. ASSUME Calls!Reply(r, "failed"), UNCHANGED <<now, usage, budgets, cached>>
      PROVE  CallsInv'
  BY <1>2, ReplyMoves, QuietStep DEF Calls!Answers
<1>3. Calls!Generate(r) => CallsInv'
  BY <1>1 DEF Calls!Generate
<1>4. Calls!GenerateFails(r) => CallsInv'
  BY <1>2 DEF Calls!GenerateFails
<1>5. ASSUME NEW hint \in Hints, Calls!RateLimited(r, hint) PROVE CallsInv'
  BY <1>1, <1>2, <1>5 DEF Calls!RateLimited
<1>6. Calls!Wake(r) => CallsInv'
  BY <1>1 DEF Calls!Wake
<1> QED
  BY <1>3, <1>4, <1>5, <1>6

LEMMA MeterKeeps ==
    ASSUME CallsFacts, CallsInv, NEW r \in Caller
    PROVE  Calls!Meter(r) \/ Calls!MeterFails(r) => CallsInv'
<1>0. Upheld(usage, now, pc[r], job[r], standing[r], answer[r])
  BY DEF CallsInv, RequestInv
<1>1. ASSUME pc[r] = "meter", Calls!Onward(r), now' = now,
             Follows(now, usage, usage'), Countable(usage')
      PROVE  Moves(r)
  <2>1. CASE Calls!Reply(r, "answered")
    BY <2>1, ReplyMoves DEF Calls!Answers
  <2>2. CASE Calls!Goto(r, "generate")
    <3>1. answer[r] \in Calls!Answers \ {"budget_exceeded"}
      BY <1>1, NotToldYet
    <3>2. Upheld(usage, now, "generate", job[r], standing[r], answer[r])
      BY <1>0, <1>1, <3>1 DEF Upheld, Calls!Steps
    <3>3. now \in Nat /\ now <= now'
      BY <1>1 DEF CallsInv, LedgerInv
    <3>4. Upheld(usage', now', "generate", job[r], standing[r], answer[r])
      BY <1>1, <3>2, <3>3, UpheldLasts DEF CallsFacts
    <3> QED
      BY <2>2, <3>4, ProceedMoves DEF Calls!Goto
  <2> QED
    BY <1>1, <2>1, <2>2 DEF Calls!Onward
<1>2. ASSUME Calls!Meter(r) PROVE CallsInv'
  <2>1. /\ pc[r] = "meter" /\ Calls!Onward(r)
        /\ UNCHANGED <<now, budgets, cached>>
    BY <1>2 DEF Calls!Meter
  <2>2. PICK cost \in Costs, moment \in {now - 1, now} \cap Nat :
          usage' = usage \cup {[by |-> r, n |-> calls[r], org |-> job[r].org,
                                cost |-> cost, at |-> moment, done |-> now]}
    BY <1>2 DEF Calls!Meter
  <2> DEFINE v == [by |-> r, n |-> calls[r], org |-> job[r].org,
                   cost |-> cost, at |-> moment, done |-> now]
  <2>3. now \in Nat /\ Countable(usage)
    BY DEF CallsInv, LedgerInv
  <2>4. job[r].org \in Org
    BY <1>0, <2>1 DEF Upheld
  <2>5. cost \in Nat
    BY DEF CallsFacts, Calls!ModelCallsAssumption
  <2>6. /\ v.org \in Org /\ v.cost \in Nat /\ v.at \in Nat /\ v.done = now
        /\ v.at <= now
    BY <2>3, <2>4, <2>5
  <2>7. usage' = usage \cup {v}
    BY <2>2
  <2> HIDE DEF v
  <2>8. Countable(usage')
    BY <2>3, <2>6, <2>7, OneMoreCounts
  <2>9. Follows(now, usage, usage')
    BY <2>6, <2>7 DEF Follows
  <2>10. Moves(r)
    BY <1>1, <2>1, <2>8, <2>9
  <2>11. LedgerInv'
    BY <2>1, <2>3, <2>6, <2>7, <2>8 DEF CallsInv, LedgerInv
  <2>12. now' \in Nat /\ now <= now'
    BY <2>1, <2>3
  <2> QED
    BY <2>1, <2>8, <2>9, <2>10, <2>11, <2>12, RequestsMove, CachesLast DEF CallsInv
<1>3. ASSUME Calls!MeterFails(r) PROVE CallsInv'
  <2>1. /\ pc[r] = "meter" /\ Calls!Onward(r)
        /\ UNCHANGED <<now, usage, budgets, cached>>
    BY <1>3 DEF Calls!MeterFails
  <2> QED
    BY <1>1, <2>1, StillFollows, QuietStep
<1> QED
  BY <1>2, <1>3

(***************************************************************************)
(* An instance that dies forgets; the clock that ticks changes nothing.    *)
(***************************************************************************)
LEMMA CrashKeeps ==
    ASSUME CallsFacts, CallsInv, NEW p \in Server, Calls!Crash(p)
    PROVE  CallsInv'
<1>1. UNCHANGED <<now, usage, budgets>>
  BY DEF Calls!Crash
<1>2. LedgerInv'
  BY <1>1 DEF CallsInv, LedgerInv
<1>3. CacheInv'
  <2>1. cached' = [cached EXCEPT ![p] = [o \in Org |-> None]]
    BY DEF Calls!Crash
  <2> QED
    BY <1>1, <2>1 DEF CallsInv, CacheInv, Worth
<1>4. RequestInv'
  <2>1. /\ pc' = [r \in Caller |-> IF job[r].process = p THEN "over" ELSE pc[r]]
        /\ answer' = [r \in Caller |-> IF job[r].process = p THEN "failed" ELSE answer[r]]
        /\ standing' = [r \in Caller |-> IF job[r].process = p THEN Calls!Unknown
                                         ELSE standing[r]]
        /\ job' = [r \in Caller |-> IF job[r].process = p THEN Calls!Idle ELSE job[r]]
    BY DEF Calls!Crash
  <2> SUFFICES ASSUME NEW r \in Caller
               PROVE  Upheld(usage', now', pc'[r], job'[r], standing'[r], answer'[r])
    BY <2>1 DEF RequestInv
  <2>2. CASE job[r].process = p
    <3>1. Upheld(usage, now, "over", Calls!Idle, Calls!Unknown, "failed")
      BY DEF Upheld, Standing, Calls!Unknown, Calls!Steps, Calls!Answers
    <3> QED
      BY <1>1, <2>1, <2>2, <3>1
  <2>3. CASE job[r].process # p
    BY <1>1, <2>1, <2>3 DEF CallsInv, RequestInv
  <2> QED
    BY <2>2, <2>3
<1> QED
  BY <1>2, <1>3, <1>4 DEF CallsInv

LEMMA TickKeeps ==
    ASSUME CallsFacts, CallsInv, Calls!Tick
    PROVE  CallsInv'
<1>1. /\ now' = now + 1
      /\ UNCHANGED <<budgets, usage, cached, pc, job, standing, answer>>
  BY DEF Calls!Tick
<1>2. /\ now \in Nat /\ now' \in Nat /\ now <= now'
      /\ Follows(now, usage, usage') /\ Countable(usage')
  BY <1>1 DEF CallsInv, LedgerInv, Follows
<1>3. LedgerInv'
  BY <1>1, <1>2 DEF CallsInv, LedgerInv
<1>4. CacheInv'
  BY <1>1, <1>2, CachesLast
<1>5. RequestInv'
  <2> SUFFICES ASSUME NEW q \in Caller
               PROVE  Upheld(usage', now', pc[q], job[q], standing[q], answer[q])
    BY <1>1 DEF CallsInv, RequestInv
  <2>1. Upheld(usage, now, pc[q], job[q], standing[q], answer[q])
    BY DEF CallsInv, RequestInv
  <2> QED
    BY <1>2, <2>1, UpheldLasts DEF CallsFacts
<1> QED
  BY <1>3, <1>4, <1>5 DEF CallsInv

LEMMA CallsStep == ASSUME CallsFacts PROVE CallsInv /\ [Calls!Next]_(Calls!vars) => CallsInv'
<1> SUFFICES ASSUME CallsInv, [Calls!Next]_(Calls!vars) PROVE CallsInv'
  OBVIOUS
<1>1. CASE Calls!Tick
  BY <1>1, TickKeeps
<1>2. ASSUME NEW r \in Caller, Calls!Step(r) PROVE CallsInv'
  BY <1>2, AdmissionKeeps, SpendKeeps, ModelKeeps, MeterKeeps DEF Calls!Step
<1>3. ASSUME NEW p \in Server, Calls!Crash(p) PROVE CallsInv'
  BY <1>3, CrashKeeps
<1>4. CASE UNCHANGED Calls!vars
  BY <1>4 DEF Calls!vars, CallsInv, LedgerInv, CacheInv, RequestInv
<1> QED
  BY <1>1, <1>2, <1>3, <1>4 DEF Calls!Next

LEMMA CallsInvariant == ASSUME CallsFacts PROVE Calls!Spec => []CallsInv
BY CallsInit, CallsStep, PTL DEF Calls!Spec

(***************************************************************************)
(* The overshoot is bounded by the cache window: what an admitted run      *)
(* overlooks was committed less than a window before it, for every window, *)
(* length of the period and number of processes that each remember a       *)
(* figure of their own.                                                    *)
(***************************************************************************)
THEOREM OvershootIsBounded == Calls!Spec => []AdmittedWithinWindow
<1>1. CallsFacts
  BY ModelCallsAssumption DEF CallsFacts, Calls!ModelCallsAssumption
<1>2. CallsInv => AdmittedWithinWindow
  <2> SUFFICES ASSUME CallsInv, NEW r \in Caller,
                      pc[r] \in {"generate", "sleep", "meter"}, standing[r].measured,
                      standing[r].budget # None, standing[r].budget.action = "block"
               PROVE  Total({u \in UsageReport(standing[r].org, standing[r].moment) :
                               u.done + Cache <= standing[r].moment})
                        < standing[r].budget.limit
    BY DEF AdmittedWithinWindow
  <2> DEFINE s == standing[r]
  <2>1. /\ s \in Standing /\ s.org \in Org /\ ~ Calls!Blocked(s)
        /\ Calls!Total(Known(usage, s)) <= s.spent
    BY DEF CallsInv, RequestInv, Upheld
  <2>2. Known(usage, s) = {u \in UsageReport(s.org, s.moment) : u.done + Cache <= s.moment}
    BY DEF Known, InLedger, OfOrg, UsageReport, InPeriod, Calls!PeriodOf, PeriodOf
  <2>3. Known(usage, s) \subseteq OfOrg(usage, s.org) /\ Countable(usage)
    BY DEF Known, InLedger, CallsInv, LedgerInv
  <2>4. Calls!Total(Known(usage, s)) \in Nat
    BY <2>1, <2>3, MoreCostsMore
  <2>5. s.budget.limit \in Nat /\ s.spent \in Nat
    BY <1>1, <2>1 DEF Standing, CallsFacts, Calls!ModelCallsAssumption
  <2>6. s.spent < s.budget.limit
    BY <2>1, <2>5 DEF Calls!Blocked
  <2> QED
    BY <2>1, <2>2, <2>4, <2>5, <2>6, TotalCountsUnits
<1> QED
  BY <1>1, <1>2, CallsInvariant, PTL

(***************************************************************************)
(* No run is refused that its organisation's spending in that very period  *)
(* does not refuse: neither last period's figure in a cache nor another    *)
(* organisation's can do it.                                               *)
(***************************************************************************)
THEOREM RefusalsHaveCause == Calls!Spec => []RefusedForCause
<1>1. CallsFacts
  BY ModelCallsAssumption DEF CallsFacts, Calls!ModelCallsAssumption
<1>2. CallsInv => RefusedForCause
  <2> SUFFICES ASSUME CallsInv, NEW r \in Caller, answer[r] = "budget_exceeded"
               PROVE  /\ standing[r].budget.action = "block"
                      /\ Total(InPeriod(standing[r].org, standing[r].moment))
                            >= standing[r].budget.limit
    BY DEF RefusedForCause
  <2> DEFINE s == standing[r]
  <2>1. /\ s \in Standing /\ s.org \in Org /\ Calls!Blocked(s)
        /\ s.spent <= Calls!Total(InLedger(usage, s.org, s.moment))
    BY DEF CallsInv, RequestInv, Upheld
  <2>2. InLedger(usage, s.org, s.moment) = InPeriod(s.org, s.moment)
    BY DEF InLedger, OfOrg, InPeriod, Calls!PeriodOf, PeriodOf
  <2>3. InLedger(usage, s.org, s.moment) \subseteq OfOrg(usage, s.org) /\ Countable(usage)
    BY DEF InLedger, CallsInv, LedgerInv
  <2>4. Calls!Total(InLedger(usage, s.org, s.moment)) \in Nat
    BY <2>1, <2>3, MoreCostsMore
  <2>5. s.budget # None /\ s.budget.action = "block" /\ s.spent >= s.budget.limit
    BY <2>1 DEF Calls!Blocked
  <2>6. s.budget.limit \in Nat /\ s.spent \in Nat
    BY <1>1, <2>1, <2>5 DEF Standing, CallsFacts, Calls!ModelCallsAssumption
  <2> QED
    BY <2>1, <2>2, <2>4, <2>5, <2>6, TotalCountsUnits
<1> QED
  BY <1>1, <1>2, CallsInvariant, PTL
=============================================================================
