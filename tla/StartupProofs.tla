--------------------------- MODULE StartupProofs ----------------------------
(***************************************************************************)
(* What holds of Startup for every number of instances and migrations, all *)
(* settings and any number of writes, tokens, failures and crashes.        *)
(***************************************************************************)
EXTENDS Startup, FiniteSetTheorems, TLAPS

-----------------------------------------------------------------------------
(* The schema.                                                             *)

\* Past the migrations of its boot.
Composed == {"app", "agent", "multi_agent", "enterprise", "observability",
             "serving", "stopping"}

(***************************************************************************)
(* What is recorded is a prefix of the migrations, what an instance knows  *)
(* of it is a prefix of that, and who is past them has all of its image's. *)
(* What is recorded was run, what was run has all before it recorded, and  *)
(* who is about to record has run what it records.                         *)
(***************************************************************************)
Ready(i) == pc[i] = "recording" => Pending(i) # {} /\ ran[NextOf(i)] > 0

SchemaInv ==
    /\ version \in [Instance -> Migration]
    /\ pc \in [Instance -> Steps]
    /\ already \in [Instance -> SUBSET Migration]
    /\ ran \in [Migration -> Nat] /\ faults \in Nat
    /\ \E n \in 0..Last : recorded = 1..n
    /\ \A m \in recorded : ran[m] > 0
    /\ \A m \in Migration : ran[m] > 0 => 1..(m - 1) \subseteq recorded
    /\ \A i \in Instance : \E k \in 0..Last : already[i] = 1..k
    /\ \A i \in Instance : already[i] \subseteq recorded
    /\ \A i \in Instance : Ready(i)
    /\ \A i \in Instance : pc[i] \in Composed => 1..version[i] \subseteq already[i]

\* The migration an instance turns to is the one after those it knows.
LEMMA NextOfFollows ==
    ASSUME NEW i \in Instance, SchemaInv, Pending(i) # {}
    PROVE  /\ NextOf(i) \in 1..version[i] /\ NextOf(i) \in Migration
           /\ already[i] = 1..(NextOf(i) - 1)
           /\ 1..(NextOf(i) - 1) \subseteq recorded
<1>1. PICK k \in 0..Last : already[i] = 1..k
  BY DEF SchemaInv
<1>2. version[i] \in 1..Last /\ Last \in Nat
  BY StartupAssumption DEF SchemaInv, Migration
<1>3. k + 1 \in Pending(i) /\ \A m \in Pending(i) : k + 1 <= m
  BY <1>1, <1>2 DEF Pending
<1>4. \A m \in Pending(i) : (\A l \in Pending(i) : m <= l) => m = k + 1
  BY <1>3, <1>2 DEF Pending
<1>5. NextOf(i) = k + 1
  BY <1>3, <1>4 DEF NextOf
<1>6. already[i] \subseteq recorded
  BY DEF SchemaInv
<1> QED
  BY <1>1, <1>2, <1>3, <1>5, <1>6 DEF Pending, Migration

LEMMA NextOfIsSuccessor ==
    ASSUME NEW i \in Instance, SchemaInv, Pending(i) # {}, NextOf(i) \notin recorded
    PROVE  /\ recorded = 1..(NextOf(i) - 1)
           /\ recorded \cup {NextOf(i)} = 1..NextOf(i)
           /\ already[i] \cup {NextOf(i)} = 1..NextOf(i)
<1>1. PICK n \in 0..Last : recorded = 1..n
  BY DEF SchemaInv
<1>2. /\ NextOf(i) \in 1..Last /\ Last \in Nat
      /\ already[i] = 1..(NextOf(i) - 1) /\ 1..(NextOf(i) - 1) \subseteq recorded
  BY NextOfFollows, StartupAssumption DEF Migration
<1>3. n = NextOf(i) - 1
  <2>1. ~ NextOf(i) \in 1..n
    BY <1>1
  <2>2. n < NextOf(i)
    BY <1>2, <2>1
  <2>3. NextOf(i) - 1 = 0 \/ NextOf(i) - 1 \in 1..n
    BY <1>1, <1>2
  <2> QED
    BY <1>2, <2>2, <2>3
<1> QED
  BY <1>1, <1>2, <1>3

\* The next migration of an instance is a matter of its image and what it knows.
LEMMA NextOfStays ==
    ASSUME NEW j, version'[j] = version[j], already'[j] = already[j]
    PROVE  Pending(j)' = Pending(j) /\ NextOf(j)' = NextOf(j)
<1>1. Pending(j)' = Pending(j)
  BY DEF Pending
<1> QED
  BY <1>1 DEF NextOf

\* Runs are not undone.
LEMMA ReadyStays ==
    ASSUME NEW j \in Instance, SchemaInv, pc'[j] = "recording" => pc[j] = "recording",
           pc'[j] = "recording" => version'[j] = version[j] /\ already'[j] = already[j],
           \A m \in Migration : ran'[m] >= ran[m], ran' \in [Migration -> Nat]
    PROVE  Ready(j)'
<1> SUFFICES ASSUME pc'[j] = "recording" PROVE Pending(j)' # {} /\ ran'[NextOf(j)'] > 0
  BY DEF Ready
<1>1. Pending(j)' = Pending(j) /\ NextOf(j)' = NextOf(j)
  BY NextOfStays
<1>2. Pending(j) # {} /\ ran[NextOf(j)] > 0
  BY DEF SchemaInv, Ready
<1>3. NextOf(j) \in Migration /\ ran[NextOf(j)] \in Nat
  BY <1>2, NextOfFollows DEF SchemaInv
<1> QED
  BY <1>1, <1>2, <1>3

LEMMA SchemaInit == Init => SchemaInv
<1> SUFFICES ASSUME Init PROVE SchemaInv
  OBVIOUS
<1>1. 1 \in 1..Last /\ 0 \in 0..Last /\ 1..0 = {}
  BY StartupAssumption
<1>2. version \in [Instance -> Migration] /\ pc \in [Instance -> Steps]
  BY <1>1 DEF Init, Migration, Steps
<1>3. already \in [Instance -> SUBSET Migration]
  BY DEF Init
<1>4. ran \in [Migration -> Nat] /\ faults \in Nat /\ \A m \in Migration : ran[m] = 0
  BY DEF Init
<1>5. \E n \in 0..Last : recorded = 1..n
  BY <1>1 DEF Init
<1>6. \A i \in Instance : already[i] = 1..0 /\ pc[i] = "off"
  BY <1>1 DEF Init
<1>7. recorded = {}
  BY DEF Init
<1> QED
  BY <1>1, <1>2, <1>3, <1>4, <1>5, <1>6, <1>7 DEF SchemaInv, Composed, Ready

LEMMA SchemaStep == SchemaInv /\ [Next]_vars => SchemaInv'
<1> SUFFICES ASSUME SchemaInv, [Next]_vars PROVE SchemaInv'
  OBVIOUS
<1>0. Last \in Nat \ {0} /\ {} = 1..0 /\ 0 \in 0..Last
  BY StartupAssumption
\* An instance moves, and what it knows is kept or forgotten; a script may have
\* run, a record been made.
<1>a. ASSUME NEW i \in Instance, NEW s \in Steps \ {"recording"},
             pc' = [pc EXCEPT ![i] = s], version' = version, faults' \in Nat,
             already' = already \/ already' = [already EXCEPT ![i] = {}],
             s \in Composed => pc[i] \in Composed /\ already' = already,
             recorded \subseteq recorded', \E n \in 0..Last : recorded' = 1..n,
             ran' \in [Migration -> Nat], \A m \in Migration : ran'[m] >= ran[m],
             \A m \in recorded' : ran'[m] > 0,
             \A m \in Migration : ran'[m] > 0 => 1..(m - 1) \subseteq recorded'
      PROVE  SchemaInv'
  <2>1. /\ already' \in [Instance -> SUBSET Migration] /\ pc' \in [Instance -> Steps]
        /\ version' \in [Instance -> Migration]
        /\ \A j \in Instance : already'[j] = already[j] \/ already'[j] = {}
    BY <1>a DEF SchemaInv
  <2>2. \A j \in Instance \ {i} : pc'[j] = pc[j] /\ already'[j] = already[j]
    BY <1>a DEF SchemaInv
  <2>3. pc'[i] = s
    BY <1>a DEF SchemaInv
  <2>4. \A j \in Instance : pc'[j] \in Composed => 1..version'[j] \subseteq already'[j]
    BY <1>a, <2>2, <2>3 DEF SchemaInv
  <2>5. ASSUME NEW j \in Instance PROVE Ready(j)'
    BY <1>a, <2>2, <2>3, ReadyStays
  <2>6. \A j \in Instance : \E k \in 0..Last : already'[j] = 1..k
    BY <1>0, <2>1 DEF SchemaInv
  <2>7. \A j \in Instance : already'[j] \subseteq recorded'
    BY <1>a, <2>1 DEF SchemaInv
  <2> QED
    BY <1>a, <2>1, <2>4, <2>5, <2>6, <2>7 DEF SchemaInv
\* A step that moves an instance and touches nothing of the schema.
<1>1. ASSUME NEW i \in Instance, NEW s \in Steps \ {"recording"}, Goto(i, s),
             UNCHANGED <<version, recorded, ran, already, faults>>,
             s \in Composed => pc[i] \in Composed
      PROVE  SchemaInv'
  <2>1. \A m \in Migration : ran'[m] >= ran[m]
    BY <1>1 DEF SchemaInv
  <2>2. /\ recorded \subseteq recorded' /\ \E n \in 0..Last : recorded' = 1..n
        /\ ran' \in [Migration -> Nat] /\ faults' \in Nat
        /\ \A m \in recorded' : ran'[m] > 0
        /\ \A m \in Migration : ran'[m] > 0 => 1..(m - 1) \subseteq recorded'
    BY <1>1 DEF SchemaInv
  <2> QED
    BY <1>a, <1>1, <2>1, <2>2 DEF Goto
\* An instance that ends forgets what it knew.
<1>2. ASSUME NEW i \in Instance, NEW s \in {"off", "down"}, Exit(i, s), version' = version,
             faults' \in Nat, UNCHANGED database
      PROVE  SchemaInv'
  <2>1. \A m \in Migration : ran'[m] >= ran[m]
    BY <1>2 DEF SchemaInv, database
  <2>2. /\ recorded \subseteq recorded' /\ \E n \in 0..Last : recorded' = 1..n
        /\ ran' \in [Migration -> Nat]
        /\ \A m \in recorded' : ran'[m] > 0
        /\ \A m \in Migration : ran'[m] > 0 => 1..(m - 1) \subseteq recorded'
    BY <1>2 DEF SchemaInv, database
  <2> QED
    BY <1>a, <1>2, <2>1, <2>2 DEF Exit, Goto, Composed, Steps
<1>3. ASSUME NEW i \in Instance, NEW v \in Migration, Deploy(i, v) PROVE SchemaInv'
  <2>1. version' \in [Instance -> Migration] /\ pc' \in [Instance -> Steps]
    BY <1>3 DEF Deploy, Goto, SchemaInv, Steps
  <2>2. \A j \in Instance : pc'[j] \in Composed => pc'[j] = pc[j] /\ version'[j] = version[j]
    BY <1>3 DEF Deploy, Goto, SchemaInv, Composed
  <2>3. ASSUME NEW j \in Instance PROVE Ready(j)'
    <3>1. /\ pc'[j] = "recording" => pc[j] = "recording" /\ version'[j] = version[j]
          /\ UNCHANGED <<ran, already>>
      BY <1>3 DEF Deploy, Goto, SchemaInv, database
    <3>2. \A m \in Migration : ran'[m] >= ran[m]
      BY <3>1 DEF SchemaInv
    <3>3. ran' \in [Migration -> Nat]
      BY <3>1 DEF SchemaInv
    <3> QED
      BY <3>1, <3>2, <3>3, ReadyStays
  <2>4. UNCHANGED <<recorded, ran, already, faults>>
    BY <1>3 DEF Deploy, database
  <2> QED
    BY <2>1, <2>2, <2>3, <2>4 DEF SchemaInv
<1>4. ASSUME NEW i \in Instance, Restart(i) PROVE SchemaInv'
  BY <1>1, <1>4 DEF Restart, database, Steps, Composed
<1>5. ASSUME NEW i \in Instance, NEW at \in Steps, NEW next \in Steps \ {"recording"},
             NEW refused, Boots(i, at, refused, next), next \in Composed => at \in Composed
      PROVE  SchemaInv'
  <2>1. faults' = faults /\ faults \in Nat /\ UNCHANGED <<version, recorded, ran, database>>
    BY <1>5 DEF Boots, database, SchemaInv
  <2>2. CASE Exit(i, "down")
    BY <1>2, <2>1, <2>2
  <2>3. CASE Goto(i, next) /\ UNCHANGED <<already, held, own>>
    BY <1>1, <1>5, <2>1, <2>3 DEF Boots
  <2> QED
    BY <1>5, <2>2, <2>3 DEF Boots
<1>6. ASSUME NEW i \in Instance, LoadSettings(i) PROVE SchemaInv'
  BY <1>5, <1>6 DEF LoadSettings, Steps, Composed
<1>7. ASSUME NEW i \in Instance, ReadApplied(i) PROVE SchemaInv'
  <2>0. version' = version /\ UNCHANGED database /\ faults' = faults /\ faults' \in Nat
    BY <1>7 DEF ReadApplied, SchemaInv
  <2>1. CASE Exit(i, "down")
    BY <1>2, <2>0, <2>1
  <2>2. CASE already' = [already EXCEPT ![i] = recorded] /\ Goto(i, "migrations")
    <3>1. PICK n \in 0..Last : recorded = 1..n
      BY DEF SchemaInv
    <3>2. recorded \subseteq Migration
      BY <1>0, <3>1 DEF Migration
    <3>3. /\ already' \in [Instance -> SUBSET Migration]
          /\ pc' \in [Instance -> Steps] /\ pc'[i] = "migrations"
          /\ \A j \in Instance : already'[j] = already[j] \/ already'[j] = recorded
          /\ \A j \in Instance \ {i} : pc'[j] = pc[j] /\ already'[j] = already[j]
      BY <2>2, <3>2 DEF Goto, SchemaInv, Steps
    <3>4. UNCHANGED <<recorded, ran>>
      BY <2>0 DEF database
    <3>5. (\A m \in Migration : ran'[m] >= ran[m]) /\ ran' \in [Migration -> Nat]
      BY <3>4 DEF SchemaInv
    <3>6. ASSUME NEW j \in Instance PROVE Ready(j)'
      BY <2>0, <3>3, <3>5, ReadyStays
    <3>7. \A j \in Instance : pc'[j] \in Composed => 1..version'[j] \subseteq already'[j]
      BY <2>0, <3>3 DEF SchemaInv, Composed
    <3>8. \A j \in Instance : \E k \in 0..Last : already'[j] = 1..k
      BY <3>1, <3>3 DEF SchemaInv
    <3>9. \A j \in Instance : already'[j] \subseteq recorded'
      BY <3>3, <3>4 DEF SchemaInv
    <3> QED
      BY <2>0, <3>3, <3>4, <3>6, <3>7, <3>8, <3>9 DEF SchemaInv
  <2> QED
    BY <1>7, <2>1, <2>2 DEF ReadApplied
\* A script has run.
<1>8. ASSUME NEW i \in Instance, Pending(i) # {}, ran' = [ran EXCEPT ![NextOf(i)] = @ + 1],
             recorded' = recorded
      PROVE  /\ ran' \in [Migration -> Nat] /\ \A m \in Migration : ran'[m] >= ran[m]
             /\ ran'[NextOf(i)] > 0 /\ \A m \in recorded' : ran'[m] > 0
             /\ \A m \in Migration : ran'[m] > 0 => 1..(m - 1) \subseteq recorded'
  <2> DEFINE new == NextOf(i)
  <2>1. new \in Migration /\ 1..(new - 1) \subseteq recorded
    BY <1>8, NextOfFollows
  <2>2. ran' = [ran EXCEPT ![new] = @ + 1]
    BY <1>8
  <2> HIDE DEF new
  <2>3. /\ ran' \in [Migration -> Nat] /\ ran'[new] = ran[new] + 1
        /\ \A m \in Migration \ {new} : ran'[m] = ran[m]
    BY <2>1, <2>2 DEF SchemaInv
  <2>4. ran[new] \in Nat /\ \A m \in Migration : ran[m] \in Nat
    BY <2>1 DEF SchemaInv
  <2>5. ran'[new] > 0 /\ \A m \in Migration : ran'[m] >= ran[m]
    BY <2>3, <2>4
  <2>6. recorded \subseteq Migration
    BY <1>0 DEF SchemaInv, Migration
  <2>7. \A m \in recorded' : ran'[m] > 0
    BY <1>8, <2>3, <2>5, <2>6 DEF SchemaInv
  <2>8. \A m \in Migration : ran'[m] > 0 => 1..(m - 1) \subseteq recorded'
    BY <1>8, <2>1, <2>3 DEF SchemaInv
  <2> QED
    BY <2>3, <2>5, <2>7, <2>8 DEF new
\* A record has been made of what was run.
<1>9. ASSUME NEW i \in Instance, Ready(i), pc[i] = "recording", NextOf(i) \notin recorded,
             recorded' = recorded \cup {NextOf(i)}, ran' = ran
      PROVE  /\ \E n \in 0..Last : recorded' = 1..n
             /\ already[i] \cup {NextOf(i)} = 1..NextOf(i) /\ NextOf(i) \in 1..Last
             /\ \A m \in recorded' : ran'[m] > 0
             /\ \A m \in Migration : ran'[m] > 0 => 1..(m - 1) \subseteq recorded'
             /\ \A m \in Migration : ran'[m] >= ran[m]
  <2>1. Pending(i) # {} /\ ran[NextOf(i)] > 0
    BY <1>9 DEF Ready
  <2>2. /\ recorded \cup {NextOf(i)} = 1..NextOf(i) /\ NextOf(i) \in 1..Last
        /\ already[i] \cup {NextOf(i)} = 1..NextOf(i)
    BY <1>9, <2>1, NextOfIsSuccessor, NextOfFollows DEF Migration
  <2>3. \E n \in 0..Last : recorded' = 1..n
    BY <1>0, <1>9, <2>2
  <2>4. \A m \in recorded' : ran'[m] > 0
    BY <1>9, <2>1 DEF SchemaInv
  <2>5. \A m \in Migration : ran'[m] > 0 => 1..(m - 1) \subseteq recorded'
    BY <1>9 DEF SchemaInv
  <2>6. \A m \in Migration : ran'[m] >= ran[m]
    BY <1>9 DEF SchemaInv
  <2> QED
    BY <2>2, <2>3, <2>4, <2>5, <2>6
<1>10. ASSUME NEW i \in Instance, RunScript(i) PROVE SchemaInv'
  <2>0. /\ version' = version /\ recorded' = recorded /\ faults' = faults /\ faults' \in Nat
        /\ Pending(i) # {}
    BY <1>10 DEF RunScript, SchemaInv
  <2>1. CASE Exit(i, "down") /\ UNCHANGED ran
    BY <1>2, <2>0, <2>1 DEF database
  <2>2. CASE /\ ran' = [ran EXCEPT ![NextOf(i)] = @ + 1]
             /\ Goto(i, "recording") /\ UNCHANGED <<already, ctx, held, own>>
    <3>1. /\ ran' \in [Migration -> Nat] /\ \A m \in Migration : ran'[m] >= ran[m]
          /\ ran'[NextOf(i)] > 0 /\ \A m \in recorded' : ran'[m] > 0
          /\ \A m \in Migration : ran'[m] > 0 => 1..(m - 1) \subseteq recorded'
      BY <1>8, <2>0, <2>2
    <3>2. /\ pc' \in [Instance -> Steps] /\ pc'[i] = "recording"
          /\ \A j \in Instance \ {i} : pc'[j] = pc[j]
      BY <2>2 DEF Goto, SchemaInv, Steps
    <3>3. ASSUME NEW j \in Instance PROVE Ready(j)'
      <4>1. CASE j = i
        <5>1. Pending(i)' = Pending(i) /\ NextOf(i)' = NextOf(i)
          BY <2>0, <2>2, NextOfStays
        <5> QED
          BY <2>0, <3>1, <4>1, <5>1 DEF Ready
      <4>2. CASE j # i
        BY <2>0, <2>2, <3>1, <3>2, <4>2, ReadyStays
      <4> QED
        BY <4>1, <4>2
    <3>4. \A j \in Instance : pc'[j] \in Composed => 1..version'[j] \subseteq already'[j]
      BY <2>0, <2>2, <3>2 DEF SchemaInv, Composed
    <3> QED
      BY <2>0, <2>2, <3>1, <3>2, <3>3, <3>4 DEF SchemaInv
  <2> QED
    BY <1>10, <2>1, <2>2 DEF RunScript
<1>11. ASSUME NEW i \in Instance, Record(i) PROVE SchemaInv'
  <2>0. /\ version' = version /\ ran' = ran /\ faults' = faults /\ faults' \in Nat
        /\ Ready(i) /\ pc[i] = "recording"
    BY <1>11 DEF Record, SchemaInv
  <2>1. CASE NextOf(i) \in recorded /\ Exit(i, "down") /\ UNCHANGED recorded
    BY <1>2, <2>0, <2>1 DEF database
  <2>2. CASE /\ NextOf(i) \notin recorded
             /\ recorded' = recorded \cup {NextOf(i)}
             /\ already' = [already EXCEPT ![i] = @ \cup {NextOf(i)}]
             /\ Goto(i, "migrations") /\ UNCHANGED <<ctx, held, own>>
    <3>1. /\ \E n \in 0..Last : recorded' = 1..n
          /\ already[i] \cup {NextOf(i)} = 1..NextOf(i) /\ NextOf(i) \in 1..Last
          /\ \A m \in recorded' : ran'[m] > 0
          /\ \A m \in Migration : ran'[m] > 0 => 1..(m - 1) \subseteq recorded'
          /\ \A m \in Migration : ran'[m] >= ran[m]
      BY <1>9, <2>0, <2>2
    <3> DEFINE new == NextOf(i)
    <3>2. /\ already' = [already EXCEPT ![i] = already[i] \cup {new}]
          /\ recorded' = recorded \cup {new}
          /\ already[i] \cup {new} = 1..new
          /\ new \in 1..Last
      BY <2>2, <3>1
    <3> HIDE DEF new
    <3>3. already' \in [Instance -> SUBSET Migration]
      BY <3>2 DEF SchemaInv, Migration
    <3>4. /\ pc' \in [Instance -> Steps] /\ pc'[i] = "migrations"
          /\ \A j \in Instance \ {i} : pc'[j] = pc[j]
      BY <2>2 DEF Goto, SchemaInv, Steps
    <3>5. /\ already'[i] = 1..new
          /\ \A j \in Instance \ {i} : already'[j] = already[j]
      BY <3>2 DEF SchemaInv
    <3>6. \A j \in Instance : already'[j] \subseteq recorded'
      <4> TAKE j \in Instance
      <4>1. CASE j = i
        BY <3>2, <3>5, <4>1 DEF SchemaInv
      <4>2. CASE j # i
        BY <3>2, <3>5, <4>2 DEF SchemaInv
      <4> QED
        BY <4>1, <4>2
    <3>7. \A j \in Instance : \E k \in 0..Last : already'[j] = 1..k
      <4> TAKE j \in Instance
      <4>1. new \in 0..Last
        BY <1>0, <3>2
      <4>2. CASE j = i
        BY <3>5, <4>1, <4>2
      <4>3. CASE j # i
        BY <3>5, <4>3 DEF SchemaInv
      <4> QED
        BY <4>2, <4>3
    <3>8. \A j \in Instance : pc'[j] \in Composed => 1..version'[j] \subseteq already'[j]
      BY <2>0, <3>4, <3>5 DEF SchemaInv, Composed
    <3>9. ran' \in [Migration -> Nat]
      BY <2>0 DEF SchemaInv
    <3>10. ASSUME NEW j \in Instance PROVE Ready(j)'
      BY <2>0, <3>1, <3>4, <3>5, <3>9, ReadyStays
    <3>11. version' \in [Instance -> Migration]
      BY <2>0 DEF SchemaInv
    <3> QED
      BY <2>0, <3>1, <3>3, <3>4, <3>6, <3>7, <3>8, <3>9, <3>10, <3>11 DEF SchemaInv
  <2> QED
    BY <1>11, <2>1, <2>2 DEF Record
<1>12. ASSUME NEW i \in Instance, Migrated(i) PROVE SchemaInv'
  <2>1. 1..version[i] \subseteq already[i]
    BY <1>12 DEF Migrated, Pending
  <2>2. /\ pc' \in [Instance -> Steps] /\ pc'[i] = "app"
        /\ \A j \in Instance \ {i} : pc'[j] = pc[j]
    BY <1>12 DEF Migrated, Goto, SchemaInv, Steps
  <2>3. UNCHANGED <<version, recorded, ran, already, faults>>
    BY <1>12 DEF Migrated, database
  <2>4. (\A m \in Migration : ran'[m] >= ran[m]) /\ ran' \in [Migration -> Nat]
    BY <2>3 DEF SchemaInv
  <2>5. ASSUME NEW j \in Instance PROVE Ready(j)'
    BY <2>2, <2>3, <2>4, ReadyStays
  <2>6. \A j \in Instance : pc'[j] \in Composed => 1..version'[j] \subseteq already'[j]
    BY <2>1, <2>2, <2>3 DEF SchemaInv
  <2> QED
    BY <2>2, <2>3, <2>5, <2>6 DEF SchemaInv
<1>13. ASSUME NEW i \in Instance, MigrationFails(i) PROVE SchemaInv'
  <2>0. /\ version' = version /\ faults' = faults + 1 /\ faults' \in Nat /\ Exit(i, "down")
    BY <1>13 DEF MigrationFails, Fault, SchemaInv
  <2>1. CASE UNCHANGED database
    BY <1>2, <2>0, <2>1
  <2>2. /\ pc' = [pc EXCEPT ![i] = "down"] /\ already' = [already EXCEPT ![i] = {}]
        /\ "down" \in Steps \ {"recording"} /\ "down" \notin Composed
    BY <2>0 DEF Exit, Goto, Steps, Composed
  <2>3. CASE /\ Pending(i) # {} /\ UNCHANGED recorded
             /\ ran' = [ran EXCEPT ![NextOf(i)] = @ + 1]
    <3>1. /\ ran' \in [Migration -> Nat] /\ \A m \in Migration : ran'[m] >= ran[m]
          /\ \A m \in recorded' : ran'[m] > 0
          /\ \A m \in Migration : ran'[m] > 0 => 1..(m - 1) \subseteq recorded'
      BY <1>8, <2>3
    <3>2. recorded \subseteq recorded' /\ \E n \in 0..Last : recorded' = 1..n
      BY <2>3 DEF SchemaInv
    <3> QED
      BY <1>a, <2>0, <2>2, <3>1, <3>2
  <2>4. CASE /\ pc[i] = "recording" /\ NextOf(i) \notin recorded
             /\ recorded' = recorded \cup {NextOf(i)} /\ UNCHANGED ran
    <3>1. /\ \E n \in 0..Last : recorded' = 1..n
          /\ \A m \in recorded' : ran'[m] > 0
          /\ \A m \in Migration : ran'[m] > 0 => 1..(m - 1) \subseteq recorded'
          /\ \A m \in Migration : ran'[m] >= ran[m]
      BY <1>9, <2>4 DEF SchemaInv
    <3>2. recorded \subseteq recorded' /\ ran' \in [Migration -> Nat]
      BY <2>4 DEF SchemaInv
    <3> QED
      BY <1>a, <2>0, <2>2, <3>1, <3>2
  <2> QED
    BY <1>13, <2>1, <2>3, <2>4 DEF MigrationFails
<1>14. ASSUME NEW i \in Instance,
              \/ BuildAppContext(i) \/ BuildAgentContext(i) \/ BuildMultiAgentContext(i)
              \/ BuildEnterpriseContext(i) \/ BuildObservabilityContext(i)
       PROVE  SchemaInv'
  <2>1. CASE BuildAppContext(i)
    BY <1>5, <2>1 DEF BuildAppContext, Steps, Composed
  <2>2. CASE BuildAgentContext(i)
    BY <1>5, <2>2 DEF BuildAgentContext, Steps, Composed
  <2>3. CASE BuildMultiAgentContext(i)
    BY <1>5, <2>3 DEF BuildMultiAgentContext, Steps, Composed
  <2>4. CASE BuildEnterpriseContext(i)
    BY <1>5, <2>4 DEF BuildEnterpriseContext, Steps, Composed
  <2>5. CASE BuildObservabilityContext(i)
    BY <1>5, <2>5 DEF BuildObservabilityContext, Steps, Composed
  <2> QED
    BY <1>14, <2>1, <2>2, <2>3, <2>4, <2>5
<1>15. ASSUME UNCHANGED <<version, database, pc, already, faults>> PROVE SchemaInv'
  BY <1>15 DEF SchemaInv, database, Ready, Pending, NextOf
<1>16. ASSUME NEW i \in Instance, Login(i) \/ \E kind \in Kinds : Write(i, kind)
       PROVE  SchemaInv'
  BY <1>15, <1>16 DEF Login, Write
<1>17. ASSUME NEW i \in Instance, Stop(i) PROVE SchemaInv'
  BY <1>1, <1>17 DEF Stop, database, Steps, Composed
<1>18. ASSUME NEW i \in Instance, Stopped(i) \/ Crash(i) PROVE SchemaInv'
  <2>1. faults' \in Nat
    BY <1>18 DEF Stopped, Crash, Fault, SchemaInv
  <2> QED
    BY <1>2, <1>18, <2>1 DEF Stopped, Crash
<1>19. CASE UNCHANGED vars
  BY <1>15, <1>19 DEF vars, database
<1> QED
  BY <1>3, <1>4, <1>6, <1>7, <1>10, <1>11, <1>12, <1>13, <1>14, <1>16, <1>17, <1>18, <1>19
     DEF Next, Boot

(***************************************************************************)
(* Why a script runs again: before it is recorded, one run for each that   *)
(* is about to record it and each failure; afterwards, those instances may *)
(* still run it that are at their migrations and do not know.              *)
(***************************************************************************)
Recording(m) == {i \in Instance : pc[i] = "recording" /\ NextOf(i) = m}
Unaware(m)   == {i \in Instance : pc[i] = "migrations" /\ m \notin already[i]}

RunInv ==
    \A m \in Migration :
        /\ m \notin recorded => ran[m] <= faults + Cardinality(Recording(m))
        /\ m \in recorded => ran[m] + Cardinality(Unaware(m)) <= Cardinality(Instance) + faults

LEMMA FiniteRivals ==
    ASSUME NEW m
    PROVE  /\ IsFiniteSet(Recording(m)) /\ IsFiniteSet(Unaware(m)) /\ IsFiniteSet(Instance)
           /\ Cardinality(Recording(m)) \in Nat /\ Cardinality(Unaware(m)) \in Nat
           /\ Cardinality(Instance) \in Nat
           /\ Cardinality(Recording(m)) + Cardinality(Unaware(m)) <= Cardinality(Instance)
<1>1. IsFiniteSet(Instance) /\ Recording(m) \subseteq Instance /\ Unaware(m) \subseteq Instance
  BY StartupAssumption DEF Recording, Unaware
<1>2. /\ IsFiniteSet(Recording(m)) /\ IsFiniteSet(Unaware(m))
      /\ IsFiniteSet(Recording(m) \cup Unaware(m))
      /\ Cardinality(Recording(m) \cup Unaware(m)) <= Cardinality(Instance)
  BY <1>1, FS_Subset
<1>3. Recording(m) \cap Unaware(m) = {}
  BY DEF Recording, Unaware
<1>4. /\ Cardinality(Recording(m)) \in Nat /\ Cardinality(Unaware(m)) \in Nat
      /\ Cardinality(Instance) \in Nat
  BY <1>1, <1>2, FS_CardinalityType
<1>5. Cardinality(Recording(m) \cup Unaware(m))
        = Cardinality(Recording(m)) + Cardinality(Unaware(m))
  <2>1. Cardinality(Recording(m) \cup Unaware(m))
          = Cardinality(Recording(m)) + Cardinality(Unaware(m))
              - Cardinality(Recording(m) \cap Unaware(m))
    BY <1>2, FS_Union
  <2>2. Cardinality(Recording(m) \cap Unaware(m)) = 0
    BY <1>3, FS_EmptySet
  <2> QED
    BY <1>4, <2>1, <2>2
<1> QED
  BY <1>1, <1>2, <1>4, <1>5

LEMMA RunInit == Init => RunInv
<1> SUFFICES ASSUME Init, NEW m \in Migration
             PROVE  m \notin recorded /\ ran[m] <= faults + Cardinality(Recording(m))
  BY DEF RunInv
<1>1. recorded = {} /\ ran[m] = 0 /\ faults = 0
  BY DEF Init
<1> QED
  BY <1>1, FiniteRivals

LEMMA RunStep == SchemaInv /\ RunInv /\ [Next]_vars => RunInv'
<1> SUFFICES ASSUME SchemaInv, RunInv, [Next]_vars PROVE RunInv'
  OBVIOUS
<1>0. /\ \A m \in Migration : ran[m] \in Nat
      /\ faults \in Nat
  BY DEF SchemaInv
\* Nobody new is unaware, nobody about to record has left, unless a fault was
\* counted for the one that did.
<1>1. ASSUME NEW m \in Migration, ran'[m] = ran[m], m \in recorded' <=> m \in recorded,
             faults' \in Nat, faults' >= faults,
             m \in recorded => Unaware(m)' \subseteq Unaware(m),
             m \notin recorded => \/ Recording(m) \subseteq Recording(m)'
                                  \/ /\ faults' = faults + 1
                                     /\ \E i : Recording(m) \subseteq Recording(m)' \cup {i}
      PROVE  /\ m \notin recorded' => ran'[m] <= faults' + Cardinality(Recording(m)')
             /\ m \in recorded' =>
                   ran'[m] + Cardinality(Unaware(m)') <= Cardinality(Instance) + faults'
  <2>1. /\ IsFiniteSet(Recording(m)') /\ Cardinality(Recording(m)') \in Nat
        /\ IsFiniteSet(Unaware(m)') /\ Cardinality(Unaware(m)') \in Nat
    <3>1. Recording(m)' \subseteq Instance /\ Unaware(m)' \subseteq Instance
      BY DEF Recording, Unaware
    <3> QED
      BY <3>1, FiniteRivals, FS_Subset, FS_CardinalityType
  <2>2. CASE m \in recorded
    <3>1. Cardinality(Unaware(m)') <= Cardinality(Unaware(m))
      BY <1>1, <2>2, FiniteRivals, FS_Subset
    <3>2. ran[m] + Cardinality(Unaware(m)) <= Cardinality(Instance) + faults
      BY <2>2 DEF RunInv
    <3> QED
      BY <1>0, <1>1, <2>1, <2>2, <3>1, <3>2, FiniteRivals
  <2>3. CASE m \notin recorded /\ Recording(m) \subseteq Recording(m)'
    <3>1. Cardinality(Recording(m)) <= Cardinality(Recording(m)')
      BY <2>1, <2>3, FS_Subset
    <3>2. ran[m] <= faults + Cardinality(Recording(m))
      BY <2>3 DEF RunInv
    <3> QED
      BY <1>0, <1>1, <2>1, <2>3, <3>1, <3>2, FiniteRivals
  <2>4. CASE /\ m \notin recorded /\ faults' = faults + 1
             /\ \E i : Recording(m) \subseteq Recording(m)' \cup {i}
    <3>1. PICK i : Recording(m) \subseteq Recording(m)' \cup {i}
      BY <2>4
    <3>2. /\ IsFiniteSet(Recording(m)' \cup {i})
          /\ Cardinality(Recording(m)' \cup {i}) <= Cardinality(Recording(m)') + 1
      <4>1. /\ IsFiniteSet(Recording(m)' \cup {i})
            /\ Cardinality(Recording(m)' \cup {i})
                 = IF i \in Recording(m)' THEN Cardinality(Recording(m)')
                                          ELSE Cardinality(Recording(m)') + 1
        BY <2>1, FS_AddElement
      <4> QED
        BY <2>1, <4>1
    <3>3. /\ Cardinality(Recording(m)) <= Cardinality(Recording(m)' \cup {i})
          /\ Cardinality(Recording(m)' \cup {i}) \in Nat
      BY <3>1, <3>2, FS_Subset, FS_CardinalityType
    <3>4. ran[m] <= faults + Cardinality(Recording(m))
      BY <2>4 DEF RunInv
    <3> QED
      BY <1>0, <1>1, <2>1, <2>4, <3>2, <3>3, <3>4, FiniteRivals
  <2> QED
    BY <1>1, <2>2, <2>3, <2>4
\* A step of one instance is seen in its place alone.
<1>2. ASSUME NEW i \in Instance, pc' = [pc EXCEPT ![i] = pc'[i]],
             version' = [version EXCEPT ![i] = version'[i]],
             already' = [already EXCEPT ![i] = already'[i]], NEW m
      PROVE  /\ \A j \in Instance \ {i} : j \in Recording(m)' <=> j \in Recording(m)
             /\ \A j \in Instance \ {i} : j \in Unaware(m)' <=> j \in Unaware(m)
             /\ Recording(m) \subseteq Recording(m)' \cup {i}
             /\ Unaware(m)' \subseteq Unaware(m) \cup {i}
             /\ (i \in Recording(m) => i \in Recording(m)') => Recording(m) \subseteq Recording(m)'
             /\ (i \in Unaware(m)' => i \in Unaware(m)) => Unaware(m)' \subseteq Unaware(m)
  <2>1. ASSUME NEW j \in Instance \ {i}
        PROVE  /\ j \in Recording(m)' <=> j \in Recording(m)
               /\ j \in Unaware(m)' <=> j \in Unaware(m)
    <3>1. pc'[j] = pc[j] /\ version'[j] = version[j] /\ already'[j] = already[j]
      BY <1>2, <2>1 DEF SchemaInv
    <3>2. NextOf(j)' = NextOf(j)
      BY <3>1, NextOfStays
    <3> QED
      BY <3>1, <3>2 DEF Recording, Unaware
  <2>2. Recording(m) \subseteq Instance /\ Unaware(m)' \subseteq Instance
    BY DEF Recording, Unaware
  <2> QED
    BY <2>1, <2>2
\* A step that runs and records nothing, of an instance that does not come to
\* its migrations, and leaves no record to be made.
<1>3. ASSUME NEW i \in Instance, pc' = [pc EXCEPT ![i] = pc'[i]],
             version' = [version EXCEPT ![i] = version'[i]],
             already' = [already EXCEPT ![i] = already'[i]],
             UNCHANGED <<recorded, ran>>, faults' \in Nat, faults' >= faults,
             pc'[i] # "migrations",
             \/ faults' = faults + 1
             \/ pc[i] # "recording"
             \/ NextOf(i) \in recorded
      PROVE  RunInv'
  <2> SUFFICES ASSUME NEW m \in Migration
               PROVE  /\ m \notin recorded' => ran'[m] <= faults' + Cardinality(Recording(m)')
                      /\ m \in recorded' =>
                           ran'[m] + Cardinality(Unaware(m)') <= Cardinality(Instance) + faults'
    BY DEF RunInv
  <2>1. i \notin Unaware(m)'
    BY <1>3 DEF Unaware
  <2>2. (NextOf(i) \in recorded \/ pc[i] # "recording") /\ m \notin recorded => i \notin Recording(m)
    BY DEF Recording
  <2>3. Unaware(m)' \subseteq Unaware(m) /\ Recording(m) \subseteq Recording(m)' \cup {i}
    BY <1>2, <1>3, <2>1
  <2>4. i \notin Recording(m) => Recording(m) \subseteq Recording(m)'
    BY <1>2, <1>3
  <2> QED
    BY <1>1, <1>3, <2>2, <2>3, <2>4
<1>4. ASSUME NEW i \in Instance, NEW s \in Steps, Exit(i, s), s # "migrations",
             UNCHANGED <<version, recorded, ran>>, faults' \in Nat, faults' >= faults,
             faults' = faults + 1 \/ pc[i] # "recording" \/ NextOf(i) \in recorded
      PROVE  RunInv'
  <2>1. /\ pc' = [pc EXCEPT ![i] = pc'[i]] /\ pc'[i] = s
        /\ version' = [version EXCEPT ![i] = version'[i]]
        /\ already' = [already EXCEPT ![i] = already'[i]]
    BY <1>4 DEF Exit, Goto, SchemaInv
  <2> QED
    BY <1>3, <1>4, <2>1
<1>5. ASSUME NEW i \in Instance, NEW s \in Steps, Goto(i, s), s # "migrations",
             UNCHANGED <<version, recorded, ran, already, faults>>, pc[i] # "recording"
      PROVE  RunInv'
  <2>1. /\ pc' = [pc EXCEPT ![i] = pc'[i]] /\ pc'[i] = s
        /\ version' = [version EXCEPT ![i] = version'[i]]
        /\ already' = [already EXCEPT ![i] = already'[i]]
    BY <1>5 DEF Goto, SchemaInv
  <2> QED
    BY <1>0, <1>3, <1>5, <2>1
<1>6. ASSUME NEW i \in Instance, NEW v \in Migration, Deploy(i, v) PROVE RunInv'
  <2>1. /\ pc' = [pc EXCEPT ![i] = pc'[i]] /\ pc'[i] = "settings" /\ pc[i] = "off"
        /\ version' = [version EXCEPT ![i] = version'[i]]
        /\ already' = [already EXCEPT ![i] = already'[i]]
        /\ UNCHANGED <<recorded, ran, faults>>
    BY <1>6 DEF Deploy, Goto, SchemaInv, database
  <2> QED
    BY <1>0, <1>3, <2>1
<1>7. ASSUME NEW i \in Instance, NEW at \in Steps \ {"recording"},
             NEW next \in Steps \ {"migrations"}, NEW refused, Boots(i, at, refused, next)
      PROVE  RunInv'
  <2>1. /\ pc[i] # "recording" /\ UNCHANGED <<version, recorded, ran, faults>>
        /\ faults' \in Nat /\ faults' >= faults
    BY <1>0, <1>7 DEF Boots, database
  <2>2. CASE Exit(i, "down")
    BY <1>4, <2>1, <2>2 DEF Steps
  <2>3. CASE Goto(i, next) /\ UNCHANGED <<already, held, own>>
    BY <1>5, <1>7, <2>1, <2>3
  <2> QED
    BY <1>7, <2>2, <2>3 DEF Boots
<1>8. ASSUME NEW i \in Instance,
             \/ LoadSettings(i)
             \/ BuildAppContext(i) \/ BuildAgentContext(i) \/ BuildMultiAgentContext(i)
             \/ BuildEnterpriseContext(i) \/ BuildObservabilityContext(i)
      PROVE  RunInv'
  <2>1. CASE LoadSettings(i)
    BY <1>7, <2>1 DEF LoadSettings, Steps
  <2>2. CASE BuildAppContext(i)
    BY <1>7, <2>2 DEF BuildAppContext, Steps
  <2>3. CASE BuildAgentContext(i)
    BY <1>7, <2>3 DEF BuildAgentContext, Steps
  <2>4. CASE BuildMultiAgentContext(i)
    BY <1>7, <2>4 DEF BuildMultiAgentContext, Steps
  <2>5. CASE BuildEnterpriseContext(i)
    BY <1>7, <2>5 DEF BuildEnterpriseContext, Steps
  <2>6. CASE BuildObservabilityContext(i)
    BY <1>7, <2>6 DEF BuildObservabilityContext, Steps
  <2> QED
    BY <1>8, <2>1, <2>2, <2>3, <2>4, <2>5, <2>6
<1>9. ASSUME NEW i \in Instance, Restart(i) \/ Migrated(i) \/ Stop(i) PROVE RunInv'
  BY <1>5, <1>9 DEF Restart, Migrated, Stop, database, Steps
<1>10. ASSUME NEW i \in Instance, ReadApplied(i) PROVE RunInv'
  <2>0. /\ pc[i] = "tracking" /\ UNCHANGED <<version, recorded, ran, faults>>
        /\ faults' \in Nat /\ faults' >= faults
    BY <1>0, <1>10 DEF ReadApplied, database
  <2>1. CASE Exit(i, "down")
    BY <1>4, <2>0, <2>1 DEF Steps
  <2>2. CASE already' = [already EXCEPT ![i] = recorded] /\ Goto(i, "migrations")
    <3>1. /\ pc' = [pc EXCEPT ![i] = pc'[i]]
          /\ version' = [version EXCEPT ![i] = version'[i]]
          /\ already' = [already EXCEPT ![i] = already'[i]] /\ already'[i] = recorded
      BY <2>0, <2>2 DEF Goto, SchemaInv
    <3> SUFFICES ASSUME NEW m \in Migration
                 PROVE  /\ m \notin recorded' => ran'[m] <= faults' + Cardinality(Recording(m)')
                        /\ m \in recorded' =>
                             ran'[m] + Cardinality(Unaware(m)') <= Cardinality(Instance) + faults'
      BY DEF RunInv
    <3>2. /\ m \in recorded => i \notin Unaware(m)'
          /\ i \notin Recording(m)
      BY <2>0, <3>1 DEF Unaware, Recording
    <3>3. /\ m \in recorded => Unaware(m)' \subseteq Unaware(m)
          /\ Recording(m) \subseteq Recording(m)'
      BY <1>2, <3>1, <3>2
    <3> QED
      BY <1>1, <2>0, <3>3
  <2> QED
    BY <1>10, <2>1, <2>2 DEF ReadApplied
\* One run more, of one that was unaware of the record if there is one.
<1>11. ASSUME NEW i \in Instance, pc[i] = "migrations", Pending(i) # {},
              ran' = [ran EXCEPT ![NextOf(i)] = @ + 1], recorded' = recorded,
              pc' = [pc EXCEPT ![i] = pc'[i]], pc'[i] # "migrations", version' = version,
              already' = [already EXCEPT ![i] = already'[i]],
              \/ pc'[i] = "recording" /\ already' = already /\ faults' = faults
              \/ faults' = faults + 1
       PROVE  RunInv'
  <2> DEFINE new == NextOf(i)
  <2>1. new \in Migration /\ new \in Pending(i) /\ new \notin already[i]
    <3>1. new \in 1..version[i] /\ new \in Migration /\ already[i] = 1..(new - 1)
      BY <1>11, NextOfFollows
    <3>2. new \notin already[i]
      BY <3>1 DEF Migration
    <3> QED
      BY <3>1, <3>2 DEF Pending
  <2>2. ran' = [ran EXCEPT ![new] = @ + 1]
    BY <1>11
  <2>3. i \in Unaware(new) /\ i \notin Recording(new)
    BY <1>11, <2>1 DEF Unaware, Recording
  <2>4. ASSUME pc'[i] = "recording", already' = already, NEW m, m = new
        PROVE  i \in Recording(m)'
    <3>1. already' = already => NextOf(i)' = NextOf(i)
      BY <1>11, NextOfStays
    <3> QED
      BY <2>4, <3>1 DEF Recording
  <2> HIDE DEF new
  <2>5. faults' \in Nat /\ faults' >= faults /\ version' = [version EXCEPT ![i] = version'[i]]
    BY <1>0, <1>11 DEF SchemaInv
  <2>6. ASSUME NEW m \in Migration
        PROVE  /\ i \notin Unaware(m)' /\ Unaware(m)' \subseteq Unaware(m)
               /\ Recording(m) \subseteq Recording(m)'
    <3>1. i \notin Unaware(m)' /\ i \notin Recording(m)
      BY <1>11 DEF Unaware, Recording
    <3> QED
      BY <1>2, <1>11, <2>5, <3>1
  <2> SUFFICES ASSUME NEW m \in Migration
               PROVE  /\ m \notin recorded' => ran'[m] <= faults' + Cardinality(Recording(m)')
                      /\ m \in recorded' =>
                           ran'[m] + Cardinality(Unaware(m)') <= Cardinality(Instance) + faults'
    BY DEF RunInv
  <2>7. CASE m # new
    <3>1. ran'[m] = ran[m]
      BY <2>2, <2>7 DEF SchemaInv
    <3> QED
      BY <1>1, <1>11, <2>5, <2>6, <3>1
  <2>8. CASE m = new
    <3>0. ran'[m] = ran[m] + 1
      BY <2>1, <2>2, <2>8 DEF SchemaInv
    <3>1. /\ IsFiniteSet(Recording(m)') /\ Cardinality(Recording(m)') \in Nat
          /\ IsFiniteSet(Unaware(m)') /\ Cardinality(Unaware(m)') \in Nat
      <4>1. Recording(m)' \subseteq Instance /\ Unaware(m)' \subseteq Instance
        BY DEF Recording, Unaware
      <4> QED
        BY <4>1, FiniteRivals, FS_Subset, FS_CardinalityType
    <3>2. CASE m \in recorded
      <4>1. Unaware(m)' \subseteq Unaware(m) \ {i}
        BY <2>6
      <4>2. /\ Cardinality(Unaware(m) \ {i}) = Cardinality(Unaware(m)) - 1
            /\ IsFiniteSet(Unaware(m) \ {i})
        BY <2>3, <2>8, FiniteRivals, FS_RemoveElement
      <4>3. Cardinality(Unaware(m)') <= Cardinality(Unaware(m)) - 1
        BY <4>1, <4>2, FS_Subset
      <4>4. ran[m] + Cardinality(Unaware(m)) <= Cardinality(Instance) + faults
        BY <3>2 DEF RunInv
      <4> QED
        BY <1>0, <1>11, <2>5, <3>0, <3>1, <3>2, <4>3, <4>4, FiniteRivals
    <3>3. CASE m \notin recorded
      <4>1. ran[m] <= faults + Cardinality(Recording(m))
        BY <3>3 DEF RunInv
      <4>2. Cardinality(Recording(m)) <= Cardinality(Recording(m)')
        BY <2>6, <3>1, FS_Subset
      <4>3. CASE faults' = faults + 1
        BY <1>0, <1>11, <3>0, <3>1, <3>3, <4>1, <4>2, <4>3, FiniteRivals
      <4>4. CASE pc'[i] = "recording" /\ already' = already /\ faults' = faults
        <5>1. Recording(m) \subseteq Recording(m)' \ {i}
          BY <2>3, <2>6, <2>8
        <5>2. /\ Cardinality(Recording(m)' \ {i}) = Cardinality(Recording(m)') - 1
              /\ IsFiniteSet(Recording(m)' \ {i})
          BY <2>4, <2>8, <3>1, <4>4, FS_RemoveElement
        <5>3. Cardinality(Recording(m)) <= Cardinality(Recording(m)') - 1
          BY <5>1, <5>2, FS_Subset
        <5> QED
          BY <1>0, <1>11, <3>0, <3>1, <3>3, <4>1, <4>4, <5>3, FiniteRivals
      <4> QED
        BY <1>11, <4>3, <4>4
    <3> QED
      BY <3>2, <3>3
  <2> QED
    BY <2>7, <2>8
\* One record more: whoever was about to make it is charged with one run, and
\* whoever may still run it is none of those.
<1>12. ASSUME NEW i \in Instance, pc[i] = "recording", NextOf(i) \notin recorded,
              recorded' = recorded \cup {NextOf(i)}, ran' = ran,
              pc' = [pc EXCEPT ![i] = pc'[i]], version' = version,
              already' = [already EXCEPT ![i] = already'[i]],
              faults' \in Nat, faults' >= faults,
              \/ already'[i] = already[i] \cup {NextOf(i)}
              \/ pc'[i] # "migrations"
       PROVE  RunInv'
  <2> DEFINE new == NextOf(i)
  <2>1. Pending(i) # {}
    BY <1>12 DEF SchemaInv, Ready
  <2>2. /\ new \in Migration /\ new \notin recorded /\ recorded' = recorded \cup {new}
        /\ recorded \cup {new} = already[i] \cup {new}
    BY <1>12, <2>1, NextOfFollows, NextOfIsSuccessor
  <2>3. \/ already'[i] = already[i] \cup {new}
        \/ pc'[i] # "migrations"
    BY <1>12
  <2>4. \A m : m # new => i \notin Recording(m)
    BY DEF Recording
  <2> HIDE DEF new
  <2>5. version' = [version EXCEPT ![i] = version'[i]]
    BY <1>12 DEF SchemaInv
  <2> SUFFICES ASSUME NEW m \in Migration
               PROVE  /\ m \notin recorded' => ran'[m] <= faults' + Cardinality(Recording(m)')
                      /\ m \in recorded' =>
                           ran'[m] + Cardinality(Unaware(m)') <= Cardinality(Instance) + faults'
    BY DEF RunInv
  <2>6. m \in recorded' => i \notin Unaware(m)'
    BY <2>2, <2>3 DEF Unaware
  <2>7. m \in recorded' => Unaware(m)' \subseteq Unaware(m)
    BY <1>2, <1>12, <2>5, <2>6
  <2>8. CASE m # new
    <3>1. Recording(m) \subseteq Recording(m)'
      BY <1>2, <1>12, <2>4, <2>5, <2>8
    <3>2. m \in recorded' <=> m \in recorded
      BY <2>2, <2>8
    <3> QED
      BY <1>1, <1>12, <2>7, <3>1, <3>2
  <2>9. CASE m = new
    <3>1. ran[m] <= faults + Cardinality(Recording(m))
      BY <2>2, <2>9 DEF RunInv
    <3>2. m \in recorded'
      BY <2>2, <2>9
    <3>3. Cardinality(Unaware(m)') <= Cardinality(Unaware(m))
      BY <2>7, <3>2, FiniteRivals, FS_Subset
    <3>4. Cardinality(Unaware(m)') \in Nat
      BY <2>7, <3>2, FiniteRivals, FS_Subset, FS_CardinalityType
    <3> QED
      BY <1>0, <1>12, <3>1, <3>2, <3>3, <3>4, FiniteRivals
  <2> QED
    BY <2>8, <2>9
<1>13. ASSUME NEW i \in Instance, RunScript(i) PROVE RunInv'
  <2>1. CASE Exit(i, "down") /\ UNCHANGED ran
    BY <1>0, <1>4, <1>13, <2>1 DEF RunScript, Steps
  <2>2. CASE /\ ran' = [ran EXCEPT ![NextOf(i)] = @ + 1]
             /\ Goto(i, "recording") /\ UNCHANGED <<already, ctx, held, own>>
    <3>1. /\ pc' = [pc EXCEPT ![i] = pc'[i]] /\ pc'[i] = "recording"
          /\ already' = [already EXCEPT ![i] = already'[i]]
      BY <2>2 DEF Goto, SchemaInv
    <3> QED
      BY <1>11, <1>13, <2>2, <3>1 DEF RunScript
  <2> QED
    BY <1>13, <2>1, <2>2 DEF RunScript
<1>14. ASSUME NEW i \in Instance, Record(i) PROVE RunInv'
  <2>1. CASE NextOf(i) \in recorded /\ Exit(i, "down") /\ UNCHANGED recorded
    BY <1>0, <1>4, <1>14, <2>1 DEF Record, Steps
  <2>2. CASE /\ NextOf(i) \notin recorded
             /\ recorded' = recorded \cup {NextOf(i)}
             /\ already' = [already EXCEPT ![i] = @ \cup {NextOf(i)}]
             /\ Goto(i, "migrations")
    <3>1. /\ pc' = [pc EXCEPT ![i] = pc'[i]]
          /\ already' = [already EXCEPT ![i] = already'[i]]
          /\ already'[i] = already[i] \cup {NextOf(i)}
          /\ pc[i] = "recording" /\ version' = version /\ ran' = ran
          /\ faults' \in Nat /\ faults' >= faults
      BY <1>0, <1>14, <2>2 DEF Goto, SchemaInv, Record
    <3> QED
      BY <1>12, <2>2, <3>1
  <2> QED
    BY <1>14, <2>1, <2>2 DEF Record
<1>15. ASSUME NEW i \in Instance, MigrationFails(i) PROVE RunInv'
  <2>0. /\ faults' = faults + 1 /\ faults' \in Nat /\ faults' >= faults /\ version' = version
        /\ Exit(i, "down")
    BY <1>0, <1>15 DEF MigrationFails, Fault
  <2>1. /\ pc' = [pc EXCEPT ![i] = pc'[i]] /\ pc'[i] = "down"
        /\ already' = [already EXCEPT ![i] = already'[i]]
    BY <2>0 DEF Exit, Goto, SchemaInv
  <2>2. CASE UNCHANGED database
    BY <1>4, <2>0, <2>2 DEF database, Steps
  <2>3. CASE /\ pc[i] = "migrations" /\ Pending(i) # {}
             /\ ran' = [ran EXCEPT ![NextOf(i)] = @ + 1] /\ UNCHANGED recorded
    BY <1>11, <2>0, <2>1, <2>3
  <2>4. CASE /\ pc[i] = "recording" /\ NextOf(i) \notin recorded
             /\ recorded' = recorded \cup {NextOf(i)} /\ UNCHANGED ran
    BY <1>12, <2>0, <2>1, <2>4
  <2> QED
    BY <1>15, <2>2, <2>3, <2>4 DEF MigrationFails
<1>16. ASSUME NEW i \in Instance, Stopped(i) \/ Crash(i) PROVE RunInv'
  <2>1. CASE Stopped(i)
    BY <1>0, <1>4, <2>1 DEF Stopped, database, Steps
  <2>2. CASE Crash(i)
    BY <1>0, <1>4, <2>2 DEF Crash, Fault, database, Steps
  <2> QED
    BY <1>16, <2>1, <2>2
<1>17. ASSUME UNCHANGED <<version, database, pc, already, faults>> PROVE RunInv'
  BY <1>17 DEF RunInv, database, Recording, Unaware, Pending, NextOf
<1>18. ASSUME NEW i \in Instance, Login(i) \/ \E kind \in Kinds : Write(i, kind)
       PROVE  RunInv'
  BY <1>17, <1>18 DEF Login, Write
<1>19. CASE UNCHANGED vars
  BY <1>17, <1>19 DEF vars, database
<1> QED
  BY <1>6, <1>8, <1>9, <1>10, <1>13, <1>14, <1>15, <1>16, <1>18, <1>19 DEF Next, Boot

(***************************************************************************)
(* However many instances migrate at once and wherever they fail: what is  *)
(* recorded is a prefix and was run, none is run before all earlier ones   *)
(* are recorded, none more often than there are instances and failures,    *)
(* and no instance serves without all of its own.                          *)
(***************************************************************************)
THEOREM SchemaStaysWhole == Spec => []SchemaIsWhole
<1>1. SchemaInv /\ RunInv => SchemaIsWhole
  <2> SUFFICES ASSUME SchemaInv, RunInv PROVE SchemaIsWhole
    OBVIOUS
  <2>1. PICK n \in 0..Last : recorded = 1..n
    BY DEF SchemaInv
  <2>2. Cardinality(recorded) = n
    BY <2>1, FS_Interval, StartupAssumption
  <2>3. ASSUME NEW m \in Migration PROVE ran[m] <= Cardinality(Instance) + faults
    <3>1. ran[m] \in Nat /\ faults \in Nat
      BY DEF SchemaInv
    <3>2. CASE m \in recorded
      <4>1. ran[m] + Cardinality(Unaware(m)) <= Cardinality(Instance) + faults
        BY <3>2 DEF RunInv
      <4> QED
        BY <3>1, <4>1, FiniteRivals
    <3>3. CASE m \notin recorded
      <4>1. ran[m] <= faults + Cardinality(Recording(m))
        BY <3>3 DEF RunInv
      <4> QED
        BY <3>1, <4>1, FiniteRivals
    <3> QED
      BY <3>2, <3>3
  <2> QED
    BY <2>1, <2>2, <2>3 DEF SchemaInv, SchemaIsWhole, Composed
<1> QED
  BY SchemaInit, SchemaStep, RunInit, RunStep, <1>1, PTL DEF Spec
-----------------------------------------------------------------------------
(* The contexts and their stores.                                          *)

\* The store in which an instance keeps the records of a kind.
StoreOf(i, kind) == Store(i, IF kind = "usage" THEN "app" ELSE "agent")
OneSecret        == <<NULL, 0>>

(***************************************************************************)
(* What each context of an instance was given, once it has been built.     *)
(***************************************************************************)
Built(i) ==
    /\ pc[i] \in Composed \ {"app"} => ctx[i].usage = StoreOf(i, "usage")
    /\ pc[i] \in Composed \ {"app", "agent"} => ctx[i].trace = StoreOf(i, "trace")
    /\ pc[i] \in Composed \ {"app", "agent", "multi_agent"} =>
          ctx[i].roles = StoreOf(i, "trace")
    /\ pc[i] \in {"observability", "serving", "stopping"} /\ settings.production =>
          ctx[i].secret = OneSecret
    /\ pc[i] \in {"serving", "stopping"} =>
          /\ ctx[i].report = StoreOf(i, "usage")
          /\ ctx[i].exported = StoreOf(i, "trace")

(***************************************************************************)
(* A record is where its instance keeps its kind, so that an instance that *)
(* ends takes none of another's with it.                                   *)
(***************************************************************************)
Kept(i) ==
    \A r \in own[i] :
        /\ r[1] \in Kinds
        /\ \E h \in held : h.kind = r[1] /\ h.n = r[2] /\ h.store = StoreOf(i, r[1])

ContextInv ==
    /\ pc \in [Instance -> Steps]
    /\ ctx = [i \in Instance |-> ctx[i]] /\ own = [i \in Instance |-> own[i]]
    /\ \A i \in Instance : Built(i) /\ Kept(i)
    /\ Persistent => \A h \in held : h.store = <<NULL, "tables">>
    /\ settings.production => \A t \in tokens : t = OneSecret

LEMMA ContextInit == Init => ContextInv
  BY DEF Init, ContextInv, Built, Kept, Composed, Steps

\* The predicates look at one instance, and at what is held for it.
LEMMA BuiltStays ==
    ASSUME NEW i \in Instance, Built(i), pc'[i] = pc[i], ctx'[i] = ctx[i], settings' = settings
    PROVE  Built(i)'
  BY DEF Built, StoreOf, Store, Persistent

LEMMA KeptStays ==
    ASSUME NEW i \in Instance, Kept(i), own'[i] = own[i], settings' = settings,
           \A h \in held : h.store[1] \in {i, NULL} => h \in held'
    PROVE  Kept(i)'
<1> SUFFICES ASSUME NEW r \in own[i]
             PROVE  /\ r[1] \in Kinds
                    /\ \E h \in held' : h.kind = r[1] /\ h.n = r[2] /\ h.store = StoreOf(i, r[1])'
  BY DEF Kept
<1>1. StoreOf(i, r[1])' = StoreOf(i, r[1]) /\ StoreOf(i, r[1])[1] \in {i, NULL}
  BY DEF StoreOf, Store, Persistent
<1>2. r[1] \in Kinds
  BY DEF Kept
<1>3. PICK h \in held : h.kind = r[1] /\ h.n = r[2] /\ h.store = StoreOf(i, r[1])
  BY DEF Kept
<1>4. h \in held'
  BY <1>1, <1>3
<1> QED
  BY <1>1, <1>2, <1>3, <1>4

\* An instance that ends.
LEMMA ExitKeepsContexts ==
    ASSUME ContextInv, NEW i \in Instance, NEW s \in {"off", "down"}, Exit(i, s),
           UNCHANGED <<settings, tokens>>
    PROVE  ContextInv'
<1>1. pc' \in [Instance -> Steps] /\ pc'[i] = s /\ \A j \in Instance \ {i} : pc'[j] = pc[j]
  BY DEF Exit, Goto, ContextInv, Steps
<1>2. /\ ctx' = [j \in Instance |-> ctx'[j]] /\ own' = [j \in Instance |-> own'[j]]
      /\ own'[i] = {}
      /\ \A j \in Instance \ {i} : ctx'[j] = ctx[j] /\ own'[j] = own[j]
  BY DEF Exit, ContextInv
<1>3. Built(i)' /\ Kept(i)'
  BY <1>1, <1>2 DEF Built, Kept, Composed
<1>4. ASSUME NEW j \in Instance \ {i} PROVE Built(j)' /\ Kept(j)'
  <2>1. \A h \in held : h.store[1] \in {j, NULL} => h \in held'
    BY StartupAssumption DEF Exit
  <2> QED
    BY <1>1, <1>2, <2>1, BuiltStays, KeptStays DEF ContextInv
<1>5. held' \subseteq held /\ Persistent' = Persistent
  BY DEF Exit, Persistent
<1> QED
  BY <1>1, <1>2, <1>3, <1>4, <1>5 DEF ContextInv

\* An instance that takes a step of its own; the others are not touched.
LEMMA OwnStepKeepsContexts ==
    ASSUME ContextInv, NEW i \in Instance, NEW s \in Steps,
           pc' = [pc EXCEPT ![i] = s],
           ctx' = [j \in Instance |-> ctx'[j]], \A j \in Instance \ {i} : ctx'[j] = ctx[j],
           UNCHANGED <<settings, held, own, tokens>>, Built(i)'
    PROVE  ContextInv'
<1>1. pc' \in [Instance -> Steps] /\ \A j \in Instance \ {i} : pc'[j] = pc[j]
  BY DEF ContextInv
<1>2. \A j \in Instance : Kept(j)'
  BY KeptStays DEF ContextInv
<1>3. \A j \in Instance : Built(j)'
  BY <1>1, BuiltStays DEF ContextInv
<1>4. Persistent' = Persistent
  BY DEF Persistent
<1> QED
  BY <1>1, <1>2, <1>3, <1>4 DEF ContextInv

\* A context is built: what was given before stays, and the new is added.
LEMMA GivenAdds ==
    ASSUME ContextInv, NEW i \in Instance, NEW stores, Given(i, stores), pc'[i] # "down"
    PROVE  /\ ctx' = [j \in Instance |-> ctx'[j]]
           /\ \A j \in Instance \ {i} : ctx'[j] = ctx[j]
           /\ \A f \in Fields : ctx'[i][f] = IF f \in DOMAIN stores THEN stores[f] ELSE ctx[i][f]
  BY DEF Given, ContextInv

LEMMA ContextStep == ContextInv /\ [Next]_vars => ContextInv'
<1> SUFFICES ASSUME ContextInv, [Next]_vars PROVE ContextInv'
  OBVIOUS
\* A step before the first context, or one that builds nothing.
<1>1. ASSUME NEW i \in Instance, NEW s \in Steps, Goto(i, s),
             s \in Composed => (s = "app" \/ (s = "stopping" /\ pc[i] = "serving")),
             UNCHANGED <<settings, ctx, held, own, tokens>>
      PROVE  ContextInv'
  <2>1. pc' = [pc EXCEPT ![i] = s] /\ pc'[i] = s
    BY <1>1 DEF Goto, ContextInv
  <2>2. Built(i)'
    BY <1>1, <2>1 DEF ContextInv, Built, Composed, StoreOf, Store, Persistent
  <2>3. ctx' = [j \in Instance |-> ctx'[j]] /\ \A j \in Instance \ {i} : ctx'[j] = ctx[j]
    BY <1>1 DEF ContextInv
  <2> QED
    BY <1>1, <2>1, <2>2, <2>3, OwnStepKeepsContexts
<1>2. ASSUME NEW i \in Instance,
             \/ \E v \in Migration : Deploy(i, v)
             \/ Restart(i) \/ Migrated(i) \/ Stop(i)
      PROVE  ContextInv'
  BY <1>1, <1>2 DEF Deploy, Restart, Migrated, Stop, data, Steps, Composed
<1>3. ASSUME NEW i \in Instance, LoadSettings(i) PROVE ContextInv'
  <2>1. CASE Exit(i, "down")
    BY <1>3, <2>1, ExitKeepsContexts DEF LoadSettings, Boots
  <2>2. CASE Goto(i, "tracking") /\ UNCHANGED <<already, held, own>>
    <3>1. /\ pc' = [pc EXCEPT ![i] = "tracking"] /\ pc'[i] = "tracking"
          /\ ctx' = [j \in Instance |-> ctx'[j]]
          /\ \A j \in Instance \ {i} : ctx'[j] = ctx[j]
      BY <1>3, <2>2 DEF LoadSettings, Goto, ContextInv
    <3>2. Built(i)' /\ "tracking" \in Steps
      BY <3>1 DEF Built, Composed, Steps
    <3> QED
      BY <1>3, <2>2, <3>1, <3>2, OwnStepKeepsContexts DEF LoadSettings, Boots
  <2> QED
    BY <1>3, <2>1, <2>2 DEF LoadSettings, Boots
<1>4. ASSUME NEW i \in Instance, ReadApplied(i) \/ RunScript(i) \/ Record(i) PROVE ContextInv'
  <2>0. UNCHANGED <<settings, tokens>>
    BY <1>4 DEF ReadApplied, RunScript, Record
  <2>1. CASE Exit(i, "down")
    BY <2>0, <2>1, ExitKeepsContexts
  <2>2. CASE /\ UNCHANGED <<ctx, held, own>>
             /\ Goto(i, "migrations") \/ Goto(i, "recording")
    BY <1>1, <2>0, <2>2 DEF Steps, Composed
  <2> QED
    BY <1>4, <2>1, <2>2 DEF ReadApplied, RunScript, Record
<1>5. ASSUME NEW i \in Instance, MigrationFails(i) \/ Stopped(i) \/ Crash(i) PROVE ContextInv'
  BY <1>5, ExitKeepsContexts DEF MigrationFails, Stopped, Crash
\* A context is built from what is at hand.
<1>6. ASSUME NEW i \in Instance, NEW at \in Steps, NEW next \in Steps \ {"down"}, NEW refused,
             NEW stores, Boots(i, at, refused, next), Given(i, stores),
             Goto(i, next) => Built(i)'
      PROVE  ContextInv'
  <2>1. CASE Exit(i, "down")
    BY <1>6, <2>1, ExitKeepsContexts DEF Boots
  <2>2. CASE Goto(i, next) /\ UNCHANGED <<already, held, own>>
    <3>1. pc' = [pc EXCEPT ![i] = next] /\ pc'[i] = next
      BY <2>2 DEF Goto, ContextInv
    <3>2. /\ ctx' = [j \in Instance |-> ctx'[j]]
          /\ \A j \in Instance \ {i} : ctx'[j] = ctx[j]
      BY <1>6, <3>1, GivenAdds
    <3> QED
      BY <1>6, <2>2, <3>1, <3>2, OwnStepKeepsContexts DEF Boots
  <2> QED
    BY <1>6, <2>1, <2>2 DEF Boots
<1>7. ASSUME NEW i \in Instance, NEW stores, NEW at \in Steps, NEW refused,
             NEW next \in Steps \ {"down"},
             Boots(i, at, refused, next), Given(i, stores), Goto(i, next)
      PROVE  /\ pc[i] = at /\ pc'[i] = next
             /\ \A f \in Fields : ctx'[i][f] = IF f \in DOMAIN stores THEN stores[f] ELSE ctx[i][f]
             /\ settings' = settings /\ Persistent' = Persistent
             /\ \A kind : StoreOf(i, kind)' = StoreOf(i, kind)
  <2>1. pc[i] = at /\ pc'[i] = next
    BY <1>7 DEF Boots, Goto, ContextInv
  <2>2. settings' = settings /\ Persistent' = Persistent
    BY <1>7 DEF Boots, Persistent
  <2> QED
    BY <1>7, <2>1, <2>2, GivenAdds DEF StoreOf, Store
<1>8. ASSUME NEW i \in Instance, BuildAppContext(i) PROVE ContextInv'
  <2>1. ASSUME Goto(i, "agent") PROVE Built(i)'
    BY <1>7, <1>8, <2>1 DEF BuildAppContext, Built, Composed, Steps, Fields, StoreOf
  <2> QED
    BY <1>6, <1>8, <2>1 DEF BuildAppContext, Steps
<1>9. ASSUME NEW i \in Instance, BuildAgentContext(i) PROVE ContextInv'
  <2>1. ASSUME Goto(i, "multi_agent") PROVE Built(i)'
    <3>1. /\ pc[i] = "agent" /\ pc'[i] = "multi_agent"
          /\ ctx'[i].trace = Store(i, "agent") /\ ctx'[i].usage = ctx[i].usage
          /\ \A kind : StoreOf(i, kind)' = StoreOf(i, kind)
      BY <1>7, <1>9, <2>1 DEF BuildAgentContext, Steps, Fields
    <3>2. ctx[i].usage = StoreOf(i, "usage") /\ Store(i, "agent") = StoreOf(i, "trace")
      BY <3>1 DEF ContextInv, Built, Composed, StoreOf
    <3> QED
      BY <3>1, <3>2 DEF Built, Composed
  <2> QED
    BY <1>6, <1>9, <2>1 DEF BuildAgentContext, Steps
<1>10. ASSUME NEW i \in Instance, BuildMultiAgentContext(i) PROVE ContextInv'
  <2>1. ASSUME Goto(i, "enterprise") PROVE Built(i)'
    <3>1. /\ pc[i] = "multi_agent" /\ pc'[i] = "enterprise"
          /\ ctx'[i].roles = ctx[i].trace
          /\ ctx'[i].trace = ctx[i].trace /\ ctx'[i].usage = ctx[i].usage
          /\ \A kind : StoreOf(i, kind)' = StoreOf(i, kind)
      <4> DEFINE given == [roles |-> ctx[i].trace]
      <4>1. /\ Boots(i, "multi_agent", FALSE, "enterprise") /\ Given(i, given)
            /\ "multi_agent" \in Steps /\ "enterprise" \in Steps \ {"down"}
        BY <1>10 DEF BuildMultiAgentContext, Steps
      <4>2. DOMAIN given = {"roles"} /\ given["roles"] = ctx[i].trace
        OBVIOUS
      <4> HIDE DEF given
      <4>3. /\ pc[i] = "multi_agent" /\ pc'[i] = "enterprise"
            /\ \A f \in Fields : ctx'[i][f] = IF f \in DOMAIN given THEN given[f] ELSE ctx[i][f]
            /\ \A kind : StoreOf(i, kind)' = StoreOf(i, kind)
        BY <1>7, <2>1, <4>1
      <4> QED
        BY <4>2, <4>3 DEF Fields
    <3>2. ctx[i].usage = StoreOf(i, "usage") /\ ctx[i].trace = StoreOf(i, "trace")
      BY <3>1 DEF ContextInv, Built, Composed
    <3> QED
      BY <3>1, <3>2 DEF Built, Composed
  <2> QED
    BY <1>6, <1>10, <2>1 DEF BuildMultiAgentContext, Steps
<1>11. ASSUME NEW i \in Instance, BuildEnterpriseContext(i) PROVE ContextInv'
  <2>1. ASSUME Goto(i, "observability") PROVE Built(i)'
    <3>1. ~ NoSecretInProduction
      <4>1. pc'[i] = "observability"
        BY <2>1 DEF Goto, ContextInv
      <4>2. ~ Exit(i, "down")
        BY <4>1 DEF Exit, Goto, ContextInv
      <4> QED
        BY <1>11, <4>2 DEF BuildEnterpriseContext, Boots
    <3> QED
      BY <1>7, <1>11, <2>1, <3>1
         DEF BuildEnterpriseContext, Built, Composed, Steps, Fields, ContextInv,
             NoSecretInProduction, OneSecret
  <2> QED
    BY <1>6, <1>11, <2>1 DEF BuildEnterpriseContext, Steps
<1>12. ASSUME NEW i \in Instance, BuildObservabilityContext(i) PROVE ContextInv'
  <2>1. ASSUME Goto(i, "serving") PROVE Built(i)'
    BY <1>7, <1>12, <2>1
       DEF BuildObservabilityContext, Built, Composed, Steps, Fields, ContextInv, ReportOn
  <2> QED
    BY <1>6, <1>12, <2>1 DEF BuildObservabilityContext, Steps
<1>13. ASSUME NEW i \in Instance, NEW kind \in Kinds, Write(i, kind) PROVE ContextInv'
  <2>1. PICK f \in Writers[kind], n \in 1..MaxWrites :
           /\ held' = held \cup {[store |-> ctx[i][f], kind |-> kind, n |-> n]}
           /\ own' = [own EXCEPT ![i] = @ \cup {<<kind, n>>}]
    BY <1>13 DEF Write
  <2> DEFINE new == [store |-> ctx[i][f], kind |-> kind, n |-> n]
  <2>2. ctx[i][f] = StoreOf(i, kind)
    BY <1>13, <2>1 DEF Write, Kinds, Writers, ContextInv, Built, Composed
  <2>3. Persistent' = Persistent /\ UNCHANGED <<settings, pc, ctx, tokens>>
    BY <1>13 DEF Write, Persistent
  <2>4. new \in held' /\ held \subseteq held'
    BY <2>1
  <2>5. /\ own' = [j \in Instance |-> own'[j]]
        /\ own'[i] = own[i] \cup {<<kind, n>>}
        /\ \A j \in Instance \ {i} : own'[j] = own[j]
    BY <2>1 DEF ContextInv
  <2>6. ASSUME NEW j \in Instance \ {i} PROVE Kept(j)'
    BY <2>3, <2>4, <2>5, <2>6, KeptStays DEF ContextInv
  <2>7. Kept(i)'
    <3> SUFFICES ASSUME NEW r \in own'[i]
                 PROVE  /\ r[1] \in Kinds
                        /\ \E h \in held' : /\ h.kind = r[1] /\ h.n = r[2]
                                            /\ h.store = StoreOf(i, r[1])'
      BY DEF Kept
    <3>1. StoreOf(i, r[1])' = StoreOf(i, r[1])
      BY <2>3 DEF StoreOf, Store
    <3>2. CASE r = <<kind, n>>
      BY <2>2, <2>4, <3>1, <3>2
    <3>3. CASE r \in own[i]
      BY <2>4, <3>1, <3>3 DEF ContextInv, Kept
    <3> QED
      BY <2>5, <3>2, <3>3
  <2>8. \A j \in Instance : Built(j)'
    BY <2>3, BuiltStays DEF ContextInv
  <2>9. Persistent => \A h \in held' : h.store = <<NULL, "tables">>
    BY <2>1, <2>2 DEF ContextInv, StoreOf, Store
  <2> QED
    BY <2>3, <2>5, <2>6, <2>7, <2>8, <2>9 DEF ContextInv
<1>14. ASSUME NEW i \in Instance, Login(i) PROVE ContextInv'
  <2>1. UNCHANGED <<settings, pc, ctx, held, own>>
    BY <1>14 DEF Login
  <2>2. settings.production => \A t \in tokens' : t = OneSecret
    BY <1>14 DEF Login, ContextInv, Built
  <2> QED
    BY <2>1, <2>2 DEF ContextInv, Built, Kept, StoreOf, Store, Persistent
<1>15. CASE UNCHANGED vars
  BY <1>15 DEF vars, data, ContextInv, Built, Kept, StoreOf, Store, Persistent
<1> QED
  BY <1>2, <1>3, <1>4, <1>5, <1>8, <1>9, <1>10, <1>11, <1>12, <1>13, <1>14, <1>15
     DEF Next, Boot

(***************************************************************************)
(* What an instance wrote through one of its contexts is read through the  *)
(* others until it ends, and where stores are persistent every instance    *)
(* reads what any wrote.                                                   *)
(***************************************************************************)
THEOREM WhatIsWrittenIsRead == Spec => []WrittenIsRead
<1>1. ContextInv => WrittenIsRead
  <2> SUFFICES ASSUME ContextInv, NEW i \in Instance, pc[i] = "serving",
                      NEW kind \in Kinds, NEW f \in Readers[kind]
               PROVE  LET seen == {h \in held : h.kind = kind /\ h.store = ctx[i][f]}
                      IN  /\ \A r \in own[i] : r[1] = kind => \E h \in seen : h.n = r[2]
                          /\ Persistent => seen = {h \in held : h.kind = kind}
    BY DEF WrittenIsRead
  <2>1. ctx[i][f] = StoreOf(i, kind)
    BY DEF Kinds, Readers, ContextInv, Built, Composed
  <2>2. Kept(i)
    BY DEF ContextInv
  <2>3. ASSUME NEW r \in own[i], r[1] = kind
        PROVE  \E h \in held : h.kind = kind /\ h.store = ctx[i][f] /\ h.n = r[2]
    BY <2>1, <2>2, <2>3 DEF Kept
  <2>4. Persistent => \A h \in held : h.store = ctx[i][f]
    BY <2>1 DEF ContextInv, StoreOf, Store
  <2> QED
    BY <2>3, <2>4
<1> QED
  BY ContextInit, ContextStep, <1>1, PTL DEF Spec

(***************************************************************************)
(* In production there is one secret: a token issued by any instance, at   *)
(* any time, is good at every instance that serves.                        *)
(***************************************************************************)
THEOREM TokensAlwaysCarryOver == Spec => []TokensCarryOver
<1>1. ContextInv => TokensCarryOver
  BY DEF ContextInv, Built, TokensCarryOver
<1> QED
  BY ContextInit, ContextStep, <1>1, PTL DEF Spec
=============================================================================
