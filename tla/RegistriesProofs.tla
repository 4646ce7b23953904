-------------------------- MODULE RegistriesProofs --------------------------
(***************************************************************************)
(* What holds of Registries for any number of calls, any cap, any size of  *)
(* datasets and pages, any time and any number of failures.                *)
(***************************************************************************)
EXTENDS Registries, FiniteSetTheorems, WellFoundedInduction, TLAPS

-----------------------------------------------------------------------------
(* Where a call is.                                                        *)

Job    == [kind : Kinds \cup {"none"}, target : Request \cup {0}, name : Name \cup {Nothing.name}]
Active == {r \in Request : pc[r] # "free"}

Audited == {"add_webhook", "add_connection", "update_webhook", "delete_webhook",
            "update_connection", "delete_connection"}

\* What a call is at a step for, and what there is of it.
Fits(r) ==
    /\ pc[r] # "free" => job[r].kind \in Kinds /\ job[r].name \in Name
    /\ pc[r] \in {"count", "rollback"} => job[r].kind = "add_webhook"
    /\ pc[r] = "create" => job[r].kind \in {"add_webhook", "add_connection"}
    /\ pc[r] = "update" => job[r].kind \in {"update_webhook", "update_connection"}
    /\ pc[r] = "delete" => job[r].kind \in {"delete_webhook", "delete_connection"}
    /\ pc[r] \in {"event", "record"} => job[r].kind \in Audited
    /\ pc[r] \in {"number", "version"} => job[r].kind = "prompt"
    /\ pc[r] \in {"dataset", "items"} => job[r].kind = "dataset"
    /\ pc[r] \in {"list", "run"} => job[r].kind = "evaluate"
    /\ pc[r] = "page" => job[r].kind = "read_trail"
    /\ pc[r] # "over" => answer[r] = "none"
    /\ r \in trail => pc[r] \in {"rollback", "over"}
    /\ r \in rows => pc[r] \in {"event", "record", "rollback", "over"}

Base ==
    /\ pc \in [Request -> Steps] /\ job \in [Request -> Job] /\ answer \in [Request -> Answers]
    /\ rows \subseteq Request /\ trail \subseteq Request
    /\ now \in 0..LastMoment /\ stamp \in [Request -> 0..LastMoment]
    /\ IsFiniteSet(Active)
    /\ \A r \in Request : Fits(r)

\* One call steps; what there is of the others stays, or is taken away.
Moves(r) ==
    /\ pc' \in [Request -> Steps] /\ job' \in [Request -> Job] /\ answer' \in [Request -> Answers]
    /\ rows' \subseteq rows \cup {r} /\ trail \subseteq trail' /\ trail' \subseteq trail \cup {r}
    /\ now' = now /\ stamp' \in [Request -> 0..LastMoment]
    /\ pc[r] # "over" /\ pc'[r] # "free" /\ (job'[r] = job[r] \/ pc[r] = "free")
    /\ \A j \in Request \ {r} :
          pc'[j] = pc[j] /\ job'[j] = job[j] /\ answer'[j] = answer[j] /\ stamp'[j] = stamp[j]

Acts(r) ==
    \/ \E kind \in Kinds, target \in Request \cup {0}, name \in Name : Call(r, kind, target, name)
    \/ Count(r) \/ CreateWebhook(r) \/ UpdateWebhook(r) \/ DeleteWebhook(r)
    \/ CreateConnection(r) \/ UpdateConnection(r) \/ DeleteConnection(r)
    \/ BuildEvent(r) \/ Record(r) \/ RecordFails(r) \/ Rollback(r)
    \/ NextVersionNumber(r) \/ AddVersion(r)
    \/ AddDataset(r) \/ AddItem(r) \/ ListItems(r) \/ AddRun(r)
    \/ ReadPage(r) \/ Fails(r) \/ Dies(r)

LEMMA GotoMoves ==
    ASSUME Base, NEW r \in Request, NEW s \in Steps, Goto(r, s)
    PROVE  /\ pc' \in [Request -> Steps] /\ pc'[r] = s /\ answer' = answer
           /\ answer' \in [Request -> Answers]
           /\ \A j \in Request \ {r} : pc'[j] = pc[j] /\ answer'[j] = answer[j]
  BY DEF Goto, Base

LEMMA ReplyMoves ==
    ASSUME Base, NEW r \in Request, NEW a \in Answers, Reply(r, a)
    PROVE  /\ pc' \in [Request -> Steps] /\ pc'[r] = "over" /\ answer'[r] = a
           /\ answer' \in [Request -> Answers]
           /\ \A j \in Request \ {r} : pc'[j] = pc[j] /\ answer'[j] = answer[j]
  BY DEF Reply, Base, Steps


\* A statement of a call, which goes on or answers.
LEMMA GotoFits ==
    ASSUME Base, NEW r \in Request, pc[r] \notin {"free", "over"}, UNCHANGED <<job, now>>,
           stamp' \in [Request -> 0..LastMoment], \A j \in Request \ {r} : stamp'[j] = stamp[j],
           rows' \subseteq rows \cup {r}, trail \subseteq trail', trail' \subseteq trail \cup {r},
           NEW s \in Steps \ {"free", "over"}, Goto(r, s),
           r \in trail' => s = "rollback",
           r \in rows' => s \in {"event", "record", "rollback"},
           \/ s = pc[r]
           \/ <<pc[r], s>> \in {<<"count", "create">>, <<"event", "record">>,
                 <<"number", "version">>, <<"dataset", "items">>, <<"list", "run">>}
           \/ s = "event" /\ pc[r] \in {"create", "update", "delete"}
           \/ (s = "rollback" /\ pc[r] = "record" /\ job[r].kind = "add_webhook")
    PROVE  Moves(r) /\ Fits(r)' /\ pc'[r] = s
<1>1. /\ pc' \in [Request -> Steps] /\ pc'[r] = s /\ answer' = answer
      /\ answer' \in [Request -> Answers]
      /\ \A j \in Request \ {r} : pc'[j] = pc[j] /\ answer'[j] = answer[j]
  BY GotoMoves
<1>2. Moves(r)
  BY <1>1 DEF Moves, Base
<1>3. Fits(r)
  BY DEF Base
<1>4. Fits(r)'
  BY <1>1, <1>3 DEF Fits, Audited
<1> QED
  BY <1>1, <1>2, <1>4

LEMMA ReplyFits ==
    ASSUME Base, NEW r \in Request, pc[r] \notin {"free", "over"}, UNCHANGED <<job, now>>,
           stamp' \in [Request -> 0..LastMoment], \A j \in Request \ {r} : stamp'[j] = stamp[j],
           rows' \subseteq rows \cup {r}, trail \subseteq trail', trail' \subseteq trail \cup {r},
           NEW a \in Answers, Reply(r, a)
    PROVE  Moves(r) /\ Fits(r)' /\ pc'[r] = "over" /\ answer'[r] = a
<1>1. /\ pc' \in [Request -> Steps] /\ pc'[r] = "over" /\ answer'[r] = a
      /\ answer' \in [Request -> Answers]
      /\ \A j \in Request \ {r} : pc'[j] = pc[j] /\ answer'[j] = answer[j]
  BY ReplyMoves
<1>2. Moves(r)
  BY <1>1 DEF Moves, Base
<1>3. Fits(r)'
  BY <1>1 DEF Base, Fits
<1> QED
  BY <1>1, <1>2, <1>3

LEMMA ActsMove ==
    ASSUME Base, NEW r \in Request, Acts(r)
    PROVE  Moves(r) /\ Fits(r)'
<1> USE DEF Steps, Answers, tables, auditing, locals
<1>0. /\ Fits(r) /\ stamp \in [Request -> 0..LastMoment] /\ now \in 0..LastMoment
  BY DEF Base
<1>1. ASSUME NEW kind \in Kinds, NEW target \in Request \cup {0}, NEW name \in Name,
             Call(r, kind, target, name)
      PROVE  Moves(r) /\ Fits(r)'
  <2>1. FirstStep[kind] \in Steps /\ pc[r] = "free" /\ Goto(r, FirstStep[kind])
    BY <1>1 DEF Call, FirstStep, Kinds, Targeted
  <2>2. /\ pc' \in [Request -> Steps] /\ pc'[r] = FirstStep[kind] /\ answer' = answer
        /\ answer' \in [Request -> Answers]
        /\ \A j \in Request \ {r} : pc'[j] = pc[j] /\ answer'[j] = answer[j]
    BY <2>1, GotoMoves
  <2>3. [kind |-> kind, target |-> target, name |-> name] \in Job
    BY DEF Job
  <2>4. /\ job' \in [Request -> Job]
        /\ job'[r] = [kind |-> kind, target |-> target, name |-> name]
        /\ \A j \in Request \ {r} : job'[j] = job[j]
    BY <1>1, <2>3 DEF Call, Base
  <2>5. UNCHANGED <<now, rows, trail, stamp>>
    BY <1>1 DEF Call
  <2>6. Moves(r)
    BY <2>1, <2>2, <2>4, <2>5 DEF Moves, Base, FirstStep, Kinds, Targeted
  <2>7. Fits(r)'
    BY <1>0, <2>1, <2>2, <2>4, <2>5 DEF Fits, FirstStep, Kinds, Targeted
  <2> QED
    BY <2>6, <2>7
<1>2. CASE Count(r)
  BY <1>0, <1>2, GotoFits, ReplyFits DEF Count, Fits
<1>3. CASE CreateWebhook(r) \/ CreateConnection(r)
  BY <1>0, <1>3, GotoFits DEF CreateWebhook, CreateConnection, Insert, OfRows, Fits
<1>4. CASE UpdateWebhook(r) \/ UpdateConnection(r)
  <2>1. /\ pc[r] = "update" /\ UNCHANGED <<rows, now, trail, stamp, job>>
        /\ Goto(r, "event") \/ Reply(r, "not_found")
    BY <1>4 DEF UpdateWebhook, UpdateConnection, Update, OfRows
  <2> QED
    BY <1>0, <2>1, GotoFits, ReplyFits DEF Fits
<1>5. CASE DeleteWebhook(r) \/ DeleteConnection(r)
  <2>1. /\ pc[r] = "delete" /\ rows' \subseteq rows /\ UNCHANGED <<now, trail, stamp, job>>
        /\ Goto(r, "event") \/ Reply(r, "not_found")
    BY <1>5 DEF DeleteWebhook, DeleteConnection, Delete, OfRows
  <2> QED
    BY <1>0, <2>1, GotoFits, ReplyFits DEF Fits
<1>6. CASE BuildEvent(r)
  <2>1. /\ pc[r] = "event" /\ Goto(r, "record") /\ UNCHANGED <<now, rows, trail, job>>
        /\ stamp' \in [Request -> 0..LastMoment] /\ \A j \in Request \ {r} : stamp'[j] = stamp[j]
    BY <1>0, <1>6 DEF BuildEvent
  <2> QED
    BY <1>0, <2>1, GotoFits DEF Fits
<1>7. CASE Record(r)
  BY <1>0, <1>7, ReplyFits DEF Record, Fits
<1>8. CASE RecordFails(r)
  <2>1. /\ pc[r] = "record" /\ UNCHANGED <<now, rows, stamp, job>>
        /\ trail' \in {trail, trail \cup {r}}
        /\ \/ Goto(r, "rollback") /\ job[r].kind = "add_webhook"
           \/ Reply(r, "audit_unavailable") \/ Reply(r, "done")
    BY <1>8 DEF RecordFails, Unrecorded
  <2>2. CASE Goto(r, "rollback") /\ job[r].kind = "add_webhook"
    BY <1>0, <2>1, <2>2, GotoFits DEF Fits
  <2>3. CASE Reply(r, "audit_unavailable") \/ Reply(r, "done")
    BY <1>0, <2>1, <2>3, ReplyFits
  <2> QED
    BY <2>1, <2>2, <2>3
<1>9. CASE Rollback(r)
  BY <1>0, <1>9, ReplyFits DEF Rollback
<1>10. CASE NextVersionNumber(r) \/ AddDataset(r) \/ ListItems(r)
  <2>1. /\ UNCHANGED <<now, rows, trail, stamp, job>>
        /\ \/ pc[r] = "number" /\ Goto(r, "version")
           \/ pc[r] = "dataset" /\ (Goto(r, "items") \/ Reply(r, "failed"))
           \/ pc[r] = "list" /\ (Goto(r, "run") \/ Reply(r, "not_found"))
    BY <1>10 DEF NextVersionNumber, AddDataset, ListItems
  <2> QED
    BY <1>0, <2>1, GotoFits, ReplyFits DEF Fits
<1>11. CASE AddVersion(r) \/ AddRun(r)
  <2>1. /\ UNCHANGED <<now, rows, trail, stamp, job>>
        /\ pc[r] \in {"version", "run"} /\ (Reply(r, "done") \/ Reply(r, "failed"))
    BY <1>11 DEF AddVersion, AddRun
  <2> QED
    BY <1>0, <2>1, ReplyFits
<1>12. CASE AddItem(r) \/ ReadPage(r)
  <2>1. /\ UNCHANGED <<now, rows, trail, stamp, job>>
        /\ pc[r] \in {"items", "page"} /\ (Reply(r, "done") \/ Goto(r, pc[r]))
    BY <1>12 DEF AddItem, ReadPage
  <2> QED
    BY <1>0, <2>1, GotoFits, ReplyFits DEF Fits
<1>13. CASE Fails(r) \/ Dies(r)
  <2>1. /\ UNCHANGED <<now, rows, trail, stamp, job>>
        /\ pc[r] \notin {"free", "over"} /\ (Reply(r, "failed") \/ Reply(r, "died"))
    BY <1>13 DEF Fails, Dies
  <2> QED
    BY <1>0, <2>1, ReplyFits
<1> QED
  BY <1>1, <1>2, <1>3, <1>4, <1>5, <1>6, <1>7, <1>8, <1>9, <1>10, <1>11, <1>12, <1>13 DEF Acts

LEMMA BaseMoves == ASSUME Base, NEW r \in Request, Moves(r), Fits(r)' PROVE Base'
<1>1. ASSUME NEW j \in Request \ {r} PROVE Fits(j)'
  <2>1. Fits(j)
    BY DEF Base
  <2>2. (j \in rows' => j \in rows) /\ (j \in trail' => j \in trail)
    BY DEF Moves
  <2> QED
    BY <2>1, <2>2 DEF Moves, Fits
<1>2. IsFiniteSet(Active')
  <2>1. Active' \subseteq Active \cup {r}
    BY DEF Active, Moves
  <2>2. IsFiniteSet(Active \cup {r})
    BY FS_AddElement DEF Base
  <2> QED
    BY <2>1, <2>2, FS_Subset
<1> QED
  BY <1>1, <1>2 DEF Base, Moves

LEMMA BaseInit == Init => Base
<1> SUFFICES ASSUME Init PROVE Base
  OBVIOUS
<1>1. Active = {}
  BY DEF Init, Active
<1>2. IsFiniteSet(Active)
  BY <1>1, FS_EmptySet
<1>3. Nothing \in Job
  BY DEF Nothing, Job
<1>4. job \in [Request -> Job] /\ pc \in [Request -> Steps] /\ answer \in [Request -> Answers]
  BY <1>3 DEF Init, Steps, Answers
<1>5. 0 \in 0..LastMoment
  BY RegistriesAssumption
<1>6. now \in 0..LastMoment /\ stamp \in [Request -> 0..LastMoment]
  BY <1>5 DEF Init
<1> QED
  BY <1>2, <1>4, <1>6 DEF Init, Base, Fits

\* What leaves the calls alone.
Idle == /\ UNCHANGED <<tables, auditing, pc, job, locals, answer, faults, rivals>>
        /\ now' \in 0..LastMoment

LEMMA IdleBase == ASSUME Base, Idle PROVE Base'
  BY DEF Base, Idle, tables, auditing, Fits, Active

LEMMA BaseStep ==
    ASSUME Base, [Next]_vars
    PROVE  Base' /\ (Idle \/ \E r \in Request : Acts(r) /\ Moves(r))
<1>1. CASE Tick
  <2>1. Idle
    BY <1>1, RegistriesAssumption DEF Tick, Idle, Base
  <2> QED
    BY <2>1, IdleBase
<1>2. CASE UNCHANGED vars
  <2>1. Idle
    BY <1>2 DEF vars, Idle, Base
  <2> QED
    BY <2>1, IdleBase
<1>3. ASSUME NEW r \in Request, Acts(r)
      PROVE  Base' /\ (Idle \/ \E q \in Request : Acts(q) /\ Moves(q))
  BY <1>3, ActsMove, BaseMoves
<1> QED
  BY <1>1, <1>2, <1>3 DEF Next, Acts

-----------------------------------------------------------------------------
(* The cap.                                                                *)

\* The webhooks there are and those that a call may still create.
Expected ==
    {w \in Request : job[w].kind = "add_webhook" /\ (w \in rows \/ pc[w] = "create")}

(***************************************************************************)
(* Whoever let the last of the calls in between count and create counted   *)
(* the webhooks there were, and the calls there were then.                 *)
(***************************************************************************)
CapInv ==
    /\ rivals \in Nat
    /\ Expected # {} => Cardinality(Expected) < Cap + rivals

LEMMA ExpectedIsFinite ==
    ASSUME Base PROVE IsFiniteSet(Expected) /\ Cardinality(Expected) \in Nat
<1>1. Expected \subseteq Active
  BY DEF Expected, Active, Base, Fits
<1> QED
  BY <1>1, FS_Subset, FS_CardinalityType DEF Base

LEMMA CapInit == Init => CapInv
<1> SUFFICES ASSUME Init PROVE CapInv
  OBVIOUS
<1>1. Expected = {}
  BY DEF Init, Expected
<1> QED
  BY <1>1 DEF Init, CapInv

LEMMA CapFewer ==
    ASSUME Base, CapInv, Expected' \subseteq Expected, rivals' = rivals
    PROVE  CapInv'
<1>1. Cardinality(Expected') \in Nat /\ Cardinality(Expected') <= Cardinality(Expected)
  BY ExpectedIsFinite, FS_Subset, FS_CardinalityType
<1> QED
  BY <1>1, ExpectedIsFinite, RegistriesAssumption DEF CapInv

LEMMA CapStep == Base /\ CapInv /\ [Next]_vars => CapInv'
<1> SUFFICES ASSUME Base, CapInv, [Next]_vars PROVE CapInv'
  OBVIOUS
<1>1. CASE Idle
  <2>1. Expected' = Expected /\ rivals' = rivals
    BY <1>1 DEF Idle, tables, Expected
  <2> QED
    BY <2>1, CapFewer
<1>2. ASSUME NEW r \in Request, Acts(r), Moves(r) PROVE CapInv'
  <2>1. CASE Count(r) /\ HasRoom /\ Goto(r, "create")
    <3>1. /\ pc[r] = "count" /\ pc'[r] = "create" /\ job' = job /\ rows' = rows
          /\ \A j \in Request \ {r} : pc'[j] = pc[j]
          /\ job[r].kind = "add_webhook"
      BY <1>2, <2>1 DEF Count, tables, Goto, Base, Fits
    <3>2. /\ rivals' = IF Cardinality(MayCreate(r)) > rivals
                       THEN Cardinality(MayCreate(r)) ELSE rivals
      BY <2>1, <3>1 DEF Count, Reply, Base
    <3>3. Expected' = Webhooks \cup MayCreate(r)
      BY <3>1 DEF Expected, Webhooks, MayCreate, Base
    <3>4. /\ IsFiniteSet(Webhooks) /\ IsFiniteSet(MayCreate(r))
      <4>1. Webhooks \subseteq Active /\ MayCreate(r) \subseteq Active
        BY <3>1 DEF Webhooks, MayCreate, Active, Base, Fits
      <4> QED
        BY <4>1, FS_Subset DEF Base
    <3>5. Webhooks \cap MayCreate(r) = {}
      BY <3>1 DEF Webhooks, MayCreate, Base, Fits
    <3>6. Cardinality(Expected') = Cardinality(Webhooks) + Cardinality(MayCreate(r))
      <4>1. Cardinality(Webhooks \cap MayCreate(r)) = 0
        BY <3>5, FS_EmptySet
      <4> QED
        <5>1. Cardinality(Webhooks \cup MayCreate(r)) =
                 Cardinality(Webhooks) + Cardinality(MayCreate(r))
                    - Cardinality(Webhooks \cap MayCreate(r))
          BY <3>4, FS_Union
        <5>2. Cardinality(Webhooks) \in Nat /\ Cardinality(MayCreate(r)) \in Nat
          BY <3>4, FS_CardinalityType
        <5> QED
          BY <3>3, <4>1, <5>1, <5>2
    <3> QED
      BY <2>1, <3>2, <3>4, <3>6, FS_CardinalityType, RegistriesAssumption DEF CapInv, HasRoom
  <2>2. CASE ~ (Count(r) /\ HasRoom /\ Goto(r, "create"))
    <3>1. rivals' = rivals
      BY <1>2, <2>2 DEF Acts, Call, Count, CreateWebhook, CreateConnection, Insert, OfRows,
           UpdateWebhook, UpdateConnection, DeleteWebhook, DeleteConnection, BuildEvent, Record,
           RecordFails, Rollback, NextVersionNumber, AddVersion, AddDataset, AddItem, ListItems,
           AddRun, ReadPage, Fails, Dies
    <3>2. r \in Expected' => r \in Expected
      <4>1. CASE pc'[r] = "create"
        <5> SUFFICES ASSUME job'[r].kind = "add_webhook" PROVE FALSE
          BY <4>1 DEF Expected, Moves, Base, Fits
        <5> QED
          BY <1>2, <2>2, <4>1 DEF Acts, Call, Count, CreateWebhook, CreateConnection, Insert,
             OfRows, UpdateWebhook, UpdateConnection, Update, DeleteWebhook, DeleteConnection,
             Delete, BuildEvent, Record, RecordFails, Unrecorded, Rollback, NextVersionNumber,
             AddVersion, AddDataset, AddItem, ListItems, AddRun, ReadPage, Fails, Dies, Goto,
             Reply, FirstStep, Base
      <4>2. CASE r \in rows'
        BY <1>2, <4>2 DEF Acts, Call, Count, CreateWebhook, CreateConnection, Insert, Expected,
             OfRows, UpdateWebhook, UpdateConnection, Update, DeleteWebhook, DeleteConnection,
             Delete, BuildEvent, Record, RecordFails, Rollback, NextVersionNumber, Base, Fits,
             AddVersion, AddDataset, AddItem, ListItems, AddRun, ReadPage, Fails, Dies, tables
      <4> QED
        BY <4>1, <4>2 DEF Expected
    <3>3. \A j \in Request \ {r} : j \in Expected' => j \in Expected
      BY <1>2 DEF Moves, Expected
    <3>4. Expected' \subseteq Expected
      BY <3>2, <3>3 DEF Expected
    <3> QED
      BY <3>1, <3>4, CapFewer
  <2> QED
    BY <2>1, <2>2
<1> QED
  BY <1>1, <1>2, BaseStep

(***************************************************************************)
(* For any cap and any number of calls at once, an organisation exceeds it *)
(* by fewer than the calls that were between count and create at a moment. *)
(***************************************************************************)
THEOREM CapOverrunOnlyByRivals == Spec => []CapOverrunByRivals
<1>1. Base /\ CapInv => CapOverrunByRivals
  <2> SUFFICES ASSUME Base, CapInv, Cardinality(Webhooks) > 0
               PROVE  Cardinality(Webhooks) < Cap + rivals
    BY DEF CapOverrunByRivals
  <2>1. Webhooks \subseteq Expected
    BY DEF Webhooks, Expected, Base
  <2>2. Webhooks # {}
    BY FS_EmptySet
  <2>3. Cardinality(Webhooks) <= Cardinality(Expected) /\ Cardinality(Webhooks) \in Nat
    BY <2>1, ExpectedIsFinite, FS_Subset, FS_CardinalityType
  <2> QED
    BY <2>1, <2>2, <2>3, ExpectedIsFinite, RegistriesAssumption DEF CapInv
<1>2. Base /\ CapInv /\ [Next]_vars => (Base /\ CapInv)'
  BY BaseStep, CapStep
<1> QED
  BY BaseInit, CapInit, <1>1, <1>2, PTL DEF Spec

-----------------------------------------------------------------------------
(* Creating and recording.                                                 *)

(***************************************************************************)
(* Webhooks on the way to be stranded, or stranded, have paid one fault    *)
(* each; those whose deletion failed have paid a second.                   *)
(***************************************************************************)
Paying == {w \in Webhooks : \/ pc[w] = "rollback"
                            \/ pc[w] = "over" /\ answer[w] # "done"}
Twice  == {w \in Stranded : answer[w] # "died"}

TollInv ==
    /\ faults \in Nat
    /\ Cardinality(Paying) + Cardinality(Twice) <= faults
    /\ AuditRequired => \A w \in Webhooks : answer[w] = "done" => w \in trail

LEMMA TollsAreFinite ==
    ASSUME Base
    PROVE  /\ IsFiniteSet(Paying) /\ Cardinality(Paying) \in Nat
           /\ IsFiniteSet(Twice) /\ Cardinality(Twice) \in Nat
<1>1. Paying \subseteq Active /\ Twice \subseteq Active
  BY DEF Paying, Twice, Stranded, Webhooks, Active, Base
<1> QED
  BY <1>1, FS_Subset, FS_CardinalityType DEF Base

LEMMA TollInit == Init => TollInv
<1> SUFFICES ASSUME Init PROVE TollInv
  OBVIOUS
<1>1. Webhooks = {} /\ Paying = {} /\ Twice = {}
  BY DEF Init, Webhooks, Paying, Twice, Stranded
<1> QED
  BY <1>1, FS_EmptySet DEF Init, TollInv

\* What a step of a call may add to the tolls, and the fault that pays for it.
LEMMA TollOfStep ==
    ASSUME Base, NEW r \in Request, Acts(r), Moves(r)
    PROVE  /\ faults' = faults \/ faults' = faults + 1
           /\ r \in Paying' \ Paying => faults' = faults + 1 /\ r \notin Twice'
           /\ r \in Twice' => faults' = faults + 1 /\ r \in Paying
<1> USE DEF Paying, Twice, Stranded, Webhooks
<1>1. Fits(r) /\ Fits(r)'
  BY ActsMove DEF Base
<1>2. CASE RecordFails(r)
  <2>1. faults' = faults + 1
    BY <1>2 DEF RecordFails, Fault
  <2>2. CASE pc'[r] = "rollback"
    BY <2>1, <2>2
  <2>3. CASE pc'[r] # "rollback"
    <3>1. \/ job[r].kind # "add_webhook"
          \/ answer'[r] = "done"
      BY <1>2, <2>3 DEF RecordFails, Unrecorded, Goto, Reply, Base
    <3>2. job'[r] = job[r]
      BY <1>2 DEF RecordFails
    <3> QED
      BY <2>1, <3>1, <3>2
  <2> QED
    BY <2>2, <2>3
<1>3. CASE Fails(r)
  <2>1. /\ faults' = faults + 1 /\ rows' = rows /\ job' = job
        /\ pc[r] \notin {"free", "event", "record", "over"}
    BY <1>3 DEF Fails, Fault, tables
  <2>2. r \in rows => pc[r] = "rollback"
    BY <1>1, <2>1 DEF Fits
  <2> QED
    BY <2>1, <2>2
<1>4. CASE Dies(r)
  <2>1. faults' = faults + 1 /\ answer'[r] = "died"
    BY <1>4 DEF Dies, Fault, Reply, Base
  <2> QED
    BY <2>1
<1>5. CASE ~ (RecordFails(r) \/ Fails(r) \/ Dies(r))
  <2>1. faults' = faults
    BY <1>2, <1>5 DEF Acts, Call, Count, CreateWebhook, CreateConnection, Insert,
         OfRows, UpdateWebhook, UpdateConnection, DeleteWebhook, DeleteConnection,
         BuildEvent, Record, Rollback, NextVersionNumber,
         AddVersion, AddDataset, AddItem, ListItems, AddRun, ReadPage
  <2>2. ASSUME r \in rows', pc'[r] \in {"rollback", "over"} PROVE answer'[r] = "done"
    <3>1. CASE Record(r)
      BY <3>1 DEF Record, Reply, Base
    <3>2. CASE Rollback(r)
      BY <2>2, <3>2 DEF Rollback
    <3>3. ~ (Record(r) \/ Rollback(r)) => FALSE
      BY <1>1, <1>5, <2>2 DEF Acts, Call, Count, CreateWebhook, CreateConnection, Insert,
           OfRows, UpdateWebhook, UpdateConnection, Update, DeleteWebhook, DeleteConnection,
           Delete, BuildEvent, NextVersionNumber, FirstStep, Kinds, Targeted, tables, Goto,
           AddVersion, AddDataset, AddItem, ListItems, AddRun, ReadPage, Fits, Base, Moves
    <3> QED
      BY <3>1, <3>2, <3>3
  <2>3. r \notin Twice' /\ (r \in Paying' => FALSE)
    BY <1>1, <2>2 DEF Fits
  <2> QED
    BY <2>1, <2>3
<1> QED
  BY <1>2, <1>3, <1>4, <1>5

LEMMA TollStep == Base /\ TollInv /\ [Next]_vars => TollInv'
<1> SUFFICES ASSUME Base, TollInv, [Next]_vars PROVE TollInv'
  OBVIOUS
<1>1. CASE Idle
  BY <1>1 DEF Idle, tables, auditing, TollInv, Paying, Twice, Stranded, Webhooks
<1>2. ASSUME NEW r \in Request, Acts(r), Moves(r) PROVE TollInv'
  <2>1. Base'
    BY <1>2, ActsMove, BaseMoves
  <2>2. Paying' \subseteq Paying \cup {r} /\ Twice' \subseteq Twice \cup {r}
    BY <1>2, <2>1 DEF Moves, Paying, Twice, Stranded, Webhooks, Base
  <2>3. /\ faults \in Nat /\ (faults' = faults \/ faults' = faults + 1)
        /\ r \in Paying' \ Paying => faults' = faults + 1 /\ r \notin Twice'
        /\ r \in Twice' => faults' = faults + 1 /\ r \in Paying
    BY <1>2, TollOfStep DEF TollInv
  <2>4. /\ IsFiniteSet(Paying) /\ Cardinality(Paying) \in Nat
        /\ IsFiniteSet(Twice) /\ Cardinality(Twice) \in Nat
    BY TollsAreFinite
  <2>5. /\ Paying' \subseteq Paying => Cardinality(Paying') <= Cardinality(Paying)
        /\ Twice' \subseteq Twice => Cardinality(Twice') <= Cardinality(Twice)
    BY <2>4, FS_Subset
  <2>6. ASSUME NEW S, IsFiniteSet(S), NEW T, T \subseteq S \cup {r}
        PROVE  Cardinality(T) \in Nat /\ Cardinality(T) <= Cardinality(S) + 1
    <3>1. /\ IsFiniteSet(S \cup {r}) /\ Cardinality(S) \in Nat
          /\ Cardinality(S \cup {r}) = IF r \in S THEN Cardinality(S) ELSE Cardinality(S) + 1
      BY <2>6, FS_AddElement, FS_CardinalityType
    <3>2. IsFiniteSet(T) /\ Cardinality(T) <= Cardinality(S \cup {r})
      BY <2>6, <3>1, FS_Subset
    <3> QED
      BY <3>1, <3>2, FS_CardinalityType
  <2>7. /\ Cardinality(Paying') \in Nat /\ Cardinality(Paying') <= Cardinality(Paying) + 1
        /\ Cardinality(Twice') \in Nat /\ Cardinality(Twice') <= Cardinality(Twice) + 1
    BY <2>2, <2>4, <2>6
  <2>8. Cardinality(Paying') + Cardinality(Twice') <= faults'
    <3>0. Cardinality(Paying) + Cardinality(Twice) <= faults
      BY DEF TollInv
    <3>1. CASE r \in Twice'
      <4>1. Paying' \subseteq Paying /\ faults' = faults + 1
        BY <2>2, <2>3, <3>1
      <4> QED
        BY <2>3, <2>4, <2>5, <2>7, <3>0, <4>1
    <3>2. CASE r \notin Twice'
      <4>1. Twice' \subseteq Twice
        BY <2>2, <3>2
      <4>2. Paying' \subseteq Paying \/ faults' = faults + 1
        BY <2>2, <2>3
      <4> QED
        BY <2>3, <2>4, <2>5, <2>7, <3>0, <4>1, <4>2
    <3> QED
      BY <3>1, <3>2
  <2>9. ASSUME AuditRequired, NEW w \in Webhooks', answer'[w] = "done" PROVE w \in trail'
    <3>1. CASE w # r
      BY <1>2, <2>9, <3>1 DEF Moves, Webhooks, Base, TollInv
    <3>2. CASE w = r
      <4>1. job'[r].kind = "add_webhook" /\ Fits(r) /\ Fits(r)'
        BY <2>1, <2>9, <3>2 DEF Webhooks, Base
      <4>2. pc'[r] = "over" /\ r \in rows'
        BY <2>9, <3>2, <4>1 DEF Fits, Webhooks
      <4>3. CASE Record(r)
        BY <3>2, <4>3 DEF Record
      <4>4. CASE RecordFails(r)
        BY <2>9, <3>2, <4>1, <4>2, <4>4 DEF RecordFails, Unrecorded, Goto, Reply, Base
      <4>5. CASE Rollback(r)
        BY <4>2, <4>5 DEF Rollback
      <4>6. CASE Fails(r) \/ Dies(r)
        BY <2>9, <3>2, <4>6 DEF Fails, Dies, Reply, Base
      <4>7. ~ (Record(r) \/ RecordFails(r) \/ Rollback(r) \/ Fails(r) \/ Dies(r)) => FALSE
        BY <1>2, <4>1, <4>2 DEF Acts, Call, Count, CreateWebhook, CreateConnection, Insert,
             OfRows, UpdateWebhook, UpdateConnection, Update, DeleteWebhook, DeleteConnection,
             Delete, BuildEvent, NextVersionNumber, FirstStep, Kinds, Targeted, tables, Goto,
             AddVersion, AddDataset, AddItem, ListItems, AddRun, ReadPage, Fits, Base
      <4> QED
        BY <4>3, <4>4, <4>5, <4>6, <4>7
    <3> QED
      BY <3>1, <3>2
  <2> QED
    BY <2>3, <2>8, <2>9 DEF TollInv
<1> QED
  BY <1>1, <1>2, BaseStep

(***************************************************************************)
(* However calls interleave: a live endpoint whose secret nobody was       *)
(* handed cost a death, or a refused audit write and a failed deletion,    *)
(* and none was handed over unrecorded where the trail is required.        *)
(***************************************************************************)
THEOREM StrandedAlwaysTookFaults == Spec => []StrandedTookFaults
<1>1. Base /\ TollInv => StrandedTookFaults
  <2> SUFFICES ASSUME Base, TollInv PROVE StrandedTookFaults
    OBVIOUS
  <2>1. Stranded \subseteq Paying
    BY DEF Stranded, Paying
  <2>2. Cardinality(Stranded) <= Cardinality(Paying) /\ Cardinality(Stranded) \in Nat
    BY <2>1, TollsAreFinite, FS_Subset, FS_CardinalityType
  <2> QED
    BY <2>2, TollsAreFinite DEF TollInv, Twice, StrandedTookFaults
<1>2. Base /\ TollInv /\ [Next]_vars => (Base /\ TollInv)'
  BY BaseStep, TollStep
<1> QED
  BY BaseInit, TollInit, <1>1, <1>2, PTL DEF Spec

-----------------------------------------------------------------------------
(* Prompt versions.                                                        *)

(***************************************************************************)
(* Versions have no gap, and a number that was read was at most the next   *)
(* one then, which it still is.                                            *)
(***************************************************************************)
VersionInv ==
    /\ number \in [Request -> Nat]
    /\ \A n \in Name : \E k \in Nat : VersionsOf(n) = 1..k
    /\ \A u, v \in versions : u.name = v.name /\ u.version = v.version => u = v
    /\ \A r \in Request : pc[r] = "version" =>
          number[r] = 1 \/ number[r] - 1 \in VersionsOf(job[r].name)

LEMMA LatestIs ==
    ASSUME NEW n, NEW k \in Nat, VersionsOf(n) = 1..k PROVE Latest(n) = k
<1>1. CASE k = 0
  BY <1>1 DEF Latest
<1>2. CASE k # 0
  <2>1. k \in 1..k /\ \A u \in 1..k : u <= k
    BY <1>2
  <2>2. \A v \in 1..k : (\A u \in 1..k : u <= v) => v = k
    BY <2>1
  <2>3. Latest(n) = CHOOSE v \in 1..k : \A u \in 1..k : u <= v
    BY <2>1 DEF Latest
  <2> QED
    BY <2>1, <2>2, <2>3
<1> QED
  BY <1>1, <1>2

LEMMA VersionInit == Init => VersionInv
<1> SUFFICES ASSUME Init PROVE VersionInv
  OBVIOUS
<1>1. \A n \in Name : VersionsOf(n) = 1..0
  BY DEF Init, VersionsOf
<1> QED
  BY <1>1 DEF Init, VersionInv

LEMMA VersionStep == Base /\ VersionInv /\ [Next]_vars => VersionInv'
<1> SUFFICES ASSUME Base, VersionInv, [Next]_vars PROVE VersionInv'
  OBVIOUS
<1>1. CASE Idle
  BY <1>1 DEF Idle, tables, locals, VersionInv, VersionsOf
<1>2. ASSUME NEW r \in Request, Acts(r), Moves(r) PROVE VersionInv'
  <2>1. CASE NextVersionNumber(r)
    <3>1. /\ pc[r] = "number" /\ versions' = versions /\ job' = job
          /\ number' = [number EXCEPT ![r] = Latest(job[r].name) + 1]
      BY <2>1 DEF NextVersionNumber, tables
    <3>2. PICK k \in Nat : VersionsOf(job[r].name) = 1..k
      BY <3>1 DEF Base, Fits, VersionInv
    <3>3. number'[r] = k + 1
      BY <3>1, <3>2, LatestIs DEF VersionInv
    <3>4. number'[r] = 1 \/ number'[r] - 1 \in VersionsOf(job[r].name)
      BY <3>2, <3>3
    <3>5. number' \in [Request -> Nat] /\ \A j \in Request \ {r} : number'[j] = number[j]
      BY <3>1, <3>2, LatestIs DEF VersionInv
    <3>6. \A n : VersionsOf(n)' = VersionsOf(n)
      BY <3>1 DEF VersionsOf
    <3> QED
      BY <1>2, <3>1, <3>4, <3>5, <3>6 DEF VersionInv, Moves
  <2>2. CASE AddVersion(r) /\ ~ Taken(job[r].name, number[r])
    <3>1. PICK n \in Name : n = job[r].name
      BY <2>2 DEF AddVersion, Base, Fits
    <3> DEFINE new == [name |-> n, version |-> number[r], by |-> r]
    <3>2. /\ versions' = versions \cup {new} /\ number' = number /\ job' = job
          /\ number[r] \notin VersionsOf(n) /\ pc[r] = "version" /\ pc'[r] = "over"
      BY <2>2, <3>1 DEF AddVersion, Taken, Reply, locals, Base
    <3>3. PICK k \in Nat : VersionsOf(n) = 1..k
      BY DEF VersionInv
    <3>4. number[r] \in Nat /\ (number[r] = 1 \/ number[r] - 1 \in 1..k)
      BY <3>1, <3>2, <3>3 DEF VersionInv
    <3>5. number[r] = k + 1
      BY <3>2, <3>3, <3>4
    <3>6. new.name = n /\ new.version = k + 1
      BY <3>5
    <3> HIDE DEF new
    <3>7. /\ VersionsOf(n)' = VersionsOf(n) \cup {k + 1}
          /\ \A l : l # n => VersionsOf(l)' = VersionsOf(l)
      BY <3>2, <3>6 DEF VersionsOf
    <3>8. VersionsOf(n)' = 1..(k + 1) /\ k + 1 \in Nat
      BY <3>3, <3>7
    <3>9. \A l \in Name : \E m \in Nat : VersionsOf(l)' = 1..m
      BY <3>7, <3>8 DEF VersionInv
    <3>10. \A u \in versions : ~ (u.name = n /\ u.version = k + 1)
      BY <3>2, <3>5 DEF VersionsOf
    <3>11. \A u, v \in versions' : u.name = v.name /\ u.version = v.version => u = v
      BY <3>2, <3>6, <3>10 DEF VersionInv
    <3>12. \A l : VersionsOf(l) \subseteq VersionsOf(l)'
      BY <3>7
    <3>13. \A j \in Request : pc'[j] = "version" =>
              number'[j] = 1 \/ number'[j] - 1 \in VersionsOf(job[j].name)'
      BY <1>2, <3>2, <3>12 DEF VersionInv, Moves
    <3> QED
      BY <3>2, <3>9, <3>11, <3>13 DEF VersionInv
  <2>3. CASE ~ NextVersionNumber(r) /\ ~ (AddVersion(r) /\ ~ Taken(job[r].name, number[r]))
    <3>1. versions' = versions /\ number' = number /\ pc'[r] # "version"
      BY <1>2, <2>3 DEF Acts, Call, Count, CreateWebhook, CreateConnection, Insert, tables,
         OfRows, UpdateWebhook, UpdateConnection, Update, DeleteWebhook, DeleteConnection,
         Delete, BuildEvent, Record, RecordFails, Unrecorded, Rollback, locals, Kinds, Targeted,
         AddVersion, AddDataset, AddItem, ListItems, AddRun, ReadPage, Fails, Dies, Goto,
         Reply, FirstStep, Base
    <3>2. \A n : VersionsOf(n)' = VersionsOf(n)
      BY <3>1 DEF VersionsOf
    <3>3. \A j \in Request : pc'[j] = "version" =>
              number'[j] = 1 \/ number'[j] - 1 \in VersionsOf(job[j].name)'
      BY <1>2, <3>1, <3>2 DEF VersionInv, Moves
    <3> QED
      BY <3>1, <3>2, <3>3 DEF VersionInv
  <2> QED
    BY <2>1, <2>2, <2>3
<1> QED
  BY <1>1, <1>2, BaseStep

(***************************************************************************)
(* For any number of calls at once the versions of every template are      *)
(* numbered from 1 without a gap, each number once.                        *)
(***************************************************************************)
THEOREM VersionsAlwaysContiguous == Spec => []VersionsContiguous
<1>1. VersionInv => VersionsContiguous
  <2> SUFFICES ASSUME VersionInv, NEW n \in Name
               PROVE  /\ VersionsOf(n) = 1..Cardinality(VersionsOf(n))
                      /\ \A u, v \in versions :
                            u.name = n /\ v.name = n /\ u.version = v.version => u = v
    BY DEF VersionsContiguous
  <2>1. PICK k \in Nat : VersionsOf(n) = 1..k
    BY DEF VersionInv
  <2>2. Cardinality(1..k) = k
    BY FS_Interval
  <2> QED
    BY <2>1, <2>2 DEF VersionInv
<1>2. Base /\ VersionInv /\ [Next]_vars => (Base /\ VersionInv)'
  BY BaseStep, VersionStep
<1> QED
  BY BaseInit, VersionInit, <1>1, <1>2, PTL DEF Spec

-----------------------------------------------------------------------------
(* Datasets and their evaluation.                                          *)

\* The first k items of a dataset.
FirstItems(d, k) == {<<d, i>> : i \in 1..k}

LEMMA FirstItemsCount ==
    ASSUME NEW d, NEW k \in Nat PROVE Cardinality(FirstItems(d, k)) = k
<1> DEFINE f == [i \in 1..k |-> <<d, i>>]
<1>1. f \in [1..k -> FirstItems(d, k)]
  BY DEF FirstItems
<1>2. \A i, j \in 1..k : f[i] = f[j] => i = j
  OBVIOUS
<1>3. \A p \in FirstItems(d, k) : \E i \in 1..k : f[i] = p
  BY DEF FirstItems
<1>4. f \in Bijection(1..k, FirstItems(d, k))
  BY <1>1, <1>2, <1>3 DEF Bijection, Injection, IsInjective, Surjection
<1>5. ExistsBijection(1..k, FirstItems(d, k))
  BY <1>4 DEF ExistsBijection
<1> QED
  BY <1>5, FS_CountingElements

\* What is stored of a dataset: its first items, all of them once it was answered.
Uploaded(d) ==
    \E k \in 0..Size :
        /\ ItemsOf(d) = FirstItems(d, k)
        /\ pc[d] \notin {"items", "over"} => k = 0
        /\ pc[d] = "items" => k < Size
        /\ job[d].kind = "dataset" /\ answer[d] = "done" => k = Size

(***************************************************************************)
(* An evaluation that found its dataset answered listed all of it.         *)
(***************************************************************************)
EvaluationInv ==
    /\ listed = [r \in Request |-> listed[r]] /\ before = [r \in Request |-> before[r]]
    /\ \A d \in Request : Uploaded(d)
    /\ \A d \in datasets : d.by \in Request /\ job[d.by].kind = "dataset" /\ pc[d.by] # "free"
    /\ \A r \in Request : pc[r] = "run" =>
          (job[r].target \in before[r] => Cardinality(listed[r]) = Size)
    /\ \A e \in runs :
          /\ e.by \in Request /\ pc[e.by] = "over"
          /\ e.dataset \in before[e.by] => Cardinality(e.scored) = Size

LEMMA EvaluationInit == Init => EvaluationInv
<1> SUFFICES ASSUME Init PROVE EvaluationInv
  OBVIOUS
<1>1. \A d \in Request : ItemsOf(d) = FirstItems(d, 0)
  BY DEF Init, ItemsOf, FirstItems
<1>2. 0 \in 0..Size
  BY RegistriesAssumption
<1>3. \A d \in Request : Uploaded(d)
  BY <1>1, <1>2 DEF Uploaded, Init
<1> QED
  BY <1>3 DEF Init, EvaluationInv

LEMMA UploadedStays ==
    ASSUME NEW d \in Request, Uploaded(d), ItemsOf(d)' = ItemsOf(d),
           job'[d] = job[d] \/ pc[d] = "free",
           \/ pc'[d] = pc[d]
           \/ pc'[d] = "over"
           \/ pc[d] \notin {"items", "over"},
           job'[d].kind = "dataset" /\ answer'[d] = "done" =>
              job[d].kind = "dataset" /\ answer[d] = "done"
    PROVE  Uploaded(d)'
<1>1. PICK k \in 0..Size :
        /\ ItemsOf(d) = FirstItems(d, k)
        /\ pc[d] \notin {"items", "over"} => k = 0
        /\ pc[d] = "items" => k < Size
        /\ job[d].kind = "dataset" /\ answer[d] = "done" => k = Size
  BY DEF Uploaded
<1>2. pc'[d] = "items" => k < Size
  BY <1>1, RegistriesAssumption
<1>3. pc'[d] \notin {"items", "over"} => k = 0
  BY <1>1
<1> QED
  BY <1>1, <1>2, <1>3 DEF Uploaded, FirstItems

LEMMA EvaluationStep == Base /\ EvaluationInv /\ [Next]_vars => EvaluationInv'
<1> SUFFICES ASSUME Base, EvaluationInv, [Next]_vars PROVE EvaluationInv'
  OBVIOUS
<1>1. CASE Idle
  BY <1>1 DEF Idle, tables, locals, EvaluationInv, Uploaded, ItemsOf, FirstItems
<1>2. ASSUME NEW r \in Request, Acts(r), Moves(r) PROVE EvaluationInv'
  <2>0. Fits(r) /\ Fits(r)' /\ Uploaded(r)
    BY <1>2, ActsMove DEF Base, EvaluationInv
  \* Nothing of what others did changes.
  <2>1. ASSUME \A d \in Request \ {r} : ItemsOf(d)' = ItemsOf(d)
        PROVE  \A d \in Request \ {r} : Uploaded(d)'
    BY <1>2, <2>1, UploadedStays DEF Moves, EvaluationInv
  <2>2. ASSUME datasets' = datasets
        PROVE  \A d \in datasets' :
                  d.by \in Request /\ job'[d.by].kind = "dataset" /\ pc'[d.by] # "free"
    BY <1>2, <2>2 DEF Moves, EvaluationInv
  <2>3. ASSUME runs' = runs, \A j \in Request \ {r} : before'[j] = before[j]
        PROVE  \A e \in runs' : /\ e.by \in Request /\ pc'[e.by] = "over"
                                /\ e.dataset \in before'[e.by] => Cardinality(e.scored) = Size
    BY <1>2, <2>3 DEF Moves, EvaluationInv
  <2>4. CASE AddItem(r)
    <3>1. /\ pc[r] = "items" /\ job[r].kind = "dataset" /\ job' = job
          /\ UNCHANGED <<datasets, runs, listed, before>>
          /\ items' = items \cup {<<r, Cardinality(ItemsOf(r)) + 1>>}
          /\ IF Last(r) THEN pc'[r] = "over" /\ answer'[r] = "done"
             ELSE pc'[r] = "items" /\ answer'[r] = "none"
      BY <2>0, <2>4 DEF AddItem, Goto, Reply, locals, Base, Fits
    <3>2. PICK k \in 0..Size : ItemsOf(r) = FirstItems(r, k) /\ k < Size
      BY <2>0, <3>1 DEF Uploaded
    <3>3. Cardinality(ItemsOf(r)) = k /\ k \in Nat /\ Size \in Nat
      BY <3>2, FirstItemsCount, RegistriesAssumption
    <3>4. ItemsOf(r)' = FirstItems(r, k + 1)
      <4>1. ItemsOf(r)' = ItemsOf(r) \cup {<<r, k + 1>>}
        BY <3>1, <3>3 DEF ItemsOf
      <4>2. 1..(k + 1) = 1..k \cup {k + 1}
        BY <3>3
      <4>3. FirstItems(r, k + 1) = FirstItems(r, k) \cup {<<r, k + 1>>}
        BY <4>2 DEF FirstItems
      <4> QED
        BY <3>2, <4>1, <4>3
    <3>5. Uploaded(r)'
      <4>1. k + 1 \in 0..Size /\ (pc'[r] = "items" => k + 1 < Size)
            /\ (answer'[r] = "done" => k + 1 = Size) /\ pc'[r] \in {"items", "over"}
        BY <3>1, <3>2, <3>3 DEF Last
      <4> QED
        BY <3>4, <4>1 DEF Uploaded, FirstItems
    <3>6. \A d \in Request \ {r} : ItemsOf(d)' = ItemsOf(d)
      BY <3>1 DEF ItemsOf
    <3>7. \A d \in Request : Uploaded(d)'
      BY <2>1, <3>5, <3>6
    <3> QED
      BY <1>2, <2>2, <2>3, <3>1, <3>7 DEF EvaluationInv, Moves
  <2>5. CASE ListItems(r)
    <3>1. /\ pc[r] = "list" /\ job[r].kind = "evaluate" /\ job' = job
          /\ UNCHANGED <<datasets, runs, items>>
          /\ listed' = [listed EXCEPT ![r] = ItemsOf(job[r].target)]
          /\ before' = [before EXCEPT ![r] =
                {d \in Request : d = job[r].target /\ answer[d] = "done"}]
          /\ pc'[r] \in {"run", "over"}
          /\ pc'[r] = "run" => \E d \in datasets : d.by = job[r].target
      BY <2>0, <2>5 DEF ListItems, tables, Goto, Reply, Base, Fits
    <3>2. \A d : ItemsOf(d)' = ItemsOf(d)
      BY <3>1 DEF ItemsOf
    <3>3. Uploaded(r)'
      BY <1>2, <2>0, <3>1, <3>2, UploadedStays
    <3>4. \A d \in Request : Uploaded(d)'
      BY <2>1, <3>2, <3>3
    <3>5. /\ listed' = [j \in Request |-> listed'[j]] /\ before' = [j \in Request |-> before'[j]]
          /\ \A j \in Request \ {r} : listed'[j] = listed[j] /\ before'[j] = before[j]
          /\ listed'[r] = ItemsOf(job[r].target)
          /\ before'[r] = {d \in Request : d = job[r].target /\ answer[d] = "done"}
      BY <3>1 DEF EvaluationInv
    <3>6. pc'[r] = "run" => (job[r].target \in before'[r] => Cardinality(listed'[r]) = Size)
      <4> SUFFICES ASSUME pc'[r] = "run", job[r].target \in before'[r]
                   PROVE  Cardinality(ItemsOf(job[r].target)) = Size
        BY <3>5
      <4> DEFINE d == job[r].target
      <4>1. d \in Request /\ answer[d] = "done" /\ job[d].kind = "dataset"
        BY <3>1, <3>5 DEF EvaluationInv
      <4>2. ItemsOf(d) = FirstItems(d, Size)
        BY <4>1 DEF EvaluationInv, Uploaded
      <4> QED
        BY <4>2, FirstItemsCount, RegistriesAssumption
    <3>7. \A j \in Request : pc'[j] = "run" =>
             (job'[j].target \in before'[j] => Cardinality(listed'[j]) = Size)
      BY <1>2, <3>1, <3>5, <3>6 DEF EvaluationInv, Moves
    <3> QED
      BY <2>2, <2>3, <3>1, <3>4, <3>5, <3>7 DEF EvaluationInv
  <2>6. CASE AddRun(r)
    <3>1. /\ pc[r] = "run" /\ pc'[r] = "over" /\ job[r].kind = "evaluate" /\ job' = job
          /\ UNCHANGED <<datasets, items, listed, before>>
          /\ runs' = runs \cup {[by |-> r, dataset |-> job[r].target, scored |-> listed[r]]}
      BY <2>0, <2>6 DEF AddRun, Reply, locals, Base, Fits
    <3>2. \A d : ItemsOf(d)' = ItemsOf(d)
      BY <3>1 DEF ItemsOf
    <3>3. Uploaded(r)'
      BY <1>2, <2>0, <3>1, <3>2, UploadedStays
    <3>4. \A d \in Request : Uploaded(d)'
      BY <2>1, <3>2, <3>3
    <3>5. \A e \in runs' : /\ e.by \in Request /\ pc'[e.by] = "over"
                           /\ e.dataset \in before'[e.by] => Cardinality(e.scored) = Size
      BY <1>2, <3>1 DEF EvaluationInv, Moves
    <3> QED
      BY <1>2, <2>2, <3>1, <3>4, <3>5 DEF EvaluationInv, Moves
  <2>7. CASE AddDataset(r)
    <3>1. /\ pc[r] = "dataset" /\ pc'[r] \in {"items", "over"} /\ job[r].kind = "dataset"
          /\ UNCHANGED <<job, items, runs, listed, before>>
          /\ \A d \in datasets' : d \in datasets \/ d.by = r
          /\ answer'[r] # "done"
      BY <2>0, <2>7 DEF AddDataset, Goto, Reply, locals, Base, Fits
    <3>2. \A d : ItemsOf(d)' = ItemsOf(d)
      BY <3>1 DEF ItemsOf
    <3>3. Uploaded(r)'
      BY <1>2, <2>0, <3>1, <3>2, UploadedStays
    <3>4. \A d \in Request : Uploaded(d)'
      BY <2>1, <3>2, <3>3
    <3>5. \A d \in datasets' : d.by \in Request /\ job'[d.by].kind = "dataset" /\ pc'[d.by] # "free"
      BY <1>2, <3>1 DEF EvaluationInv, Moves
    <3> QED
      BY <1>2, <2>3, <3>1, <3>4, <3>5 DEF EvaluationInv, Moves
  <2>8. CASE ~ (AddItem(r) \/ ListItems(r) \/ AddRun(r) \/ AddDataset(r))
    <3>1. /\ UNCHANGED <<datasets, items, runs, listed>> /\ pc'[r] # "run"
      BY <1>2, <2>8 DEF Acts, Call, Count, CreateWebhook, CreateConnection, Insert, tables,
         OfRows, UpdateWebhook, UpdateConnection, Update, DeleteWebhook, DeleteConnection,
         Delete, BuildEvent, Record, RecordFails, Unrecorded, Rollback, locals, Kinds, Targeted,
         AddVersion, NextVersionNumber, ReadPage, Fails, Dies, Goto, Reply, FirstStep, Base
    <3>2. /\ before' = [j \in Request |-> before'[j]]
          /\ \A j \in Request \ {r} : before'[j] = before[j]
      BY <1>2, <2>8 DEF Acts, Call, Count, CreateWebhook, CreateConnection,
         OfRows, UpdateWebhook, UpdateConnection, DeleteWebhook, DeleteConnection,
         BuildEvent, Record, RecordFails, Rollback, locals,
         AddVersion, NextVersionNumber, ReadPage, Fails, Dies, EvaluationInv
    <3>3. job'[r].kind = "dataset" /\ answer'[r] = "done" =>
             job[r].kind = "dataset" /\ answer[r] = "done"
      BY <1>2, <2>0, <2>8 DEF Acts, Call, Count, CreateWebhook, CreateConnection, Insert, Audited,
         OfRows, UpdateWebhook, UpdateConnection, Update, DeleteWebhook, DeleteConnection,
         Delete, BuildEvent, Record, RecordFails, Unrecorded, Rollback, Fits,
         AddVersion, NextVersionNumber, ReadPage, Fails, Dies, Goto, Reply, Base
    <3>4. \/ pc'[r] = "over" \/ pc[r] \notin {"items", "over"}
      BY <1>2, <2>0, <2>8 DEF Acts, Call, Count, CreateWebhook, CreateConnection, Insert,
         OfRows, UpdateWebhook, UpdateConnection, Update, DeleteWebhook, DeleteConnection,
         Delete, BuildEvent, Record, RecordFails, Rollback, Base,
         AddVersion, NextVersionNumber, ReadPage, Fails, Dies, Reply
    <3>5. \A d : ItemsOf(d)' = ItemsOf(d)
      BY <3>1 DEF ItemsOf
    <3>6. Uploaded(r)'
      BY <1>2, <2>0, <3>3, <3>4, <3>5, UploadedStays DEF Moves
    <3>7. \A d \in Request : Uploaded(d)'
      BY <2>1, <3>5, <3>6
    <3> QED
      BY <1>2, <2>2, <2>3, <3>1, <3>2, <3>7 DEF EvaluationInv, Moves
  <2> QED
    BY <2>4, <2>5, <2>6, <2>7, <2>8
<1> QED
  BY <1>1, <1>2, BaseStep

(***************************************************************************)
(* An evaluation never misses an item of a dataset whose upload had been   *)
(* answered when it listed the items, whatever else is uploaded meanwhile. *)
(***************************************************************************)
THEOREM RunsMissOnlyForCause == Spec => []RunMissesForCause
<1>1. EvaluationInv => RunMissesForCause
  BY DEF EvaluationInv, RunMissesForCause
<1>2. Base /\ EvaluationInv /\ [Next]_vars => (Base /\ EvaluationInv)'
  BY BaseStep, EvaluationStep
<1> QED
  BY BaseInit, EvaluationInit, <1>1, <1>2, PTL DEF Spec

-----------------------------------------------------------------------------
(* The trail: the order of events, and what a page is.                     *)

LEMMA LeastOf ==
    ASSUME NEW N \in SUBSET Nat, N # {} PROVE \E n \in N : \A m \in N : n <= m
<1>1. PICK n \in N : \A m \in N : <<m, n>> \notin OpToRel(<, Nat)
  BY NatLessThanWellFounded, WFMin
<1>2. \A m \in N : ~ (m < n)
  BY <1>1 DEF OpToRel
<1> QED
  BY <1>2

\* Events are in one order, by time and then by id.
LEMMA KeysAreOrdered ==
    ASSUME Base
    PROVE  /\ \A e \in Request : Key(e) \in Nat \X Nat
           /\ \A a, b, c \in Nat \X Nat : Precedes(a, b) /\ Precedes(b, c) => Precedes(a, c)
           /\ \A a, b \in Nat \X Nat : ~ (Precedes(a, b) /\ Precedes(b, a))
           /\ \A e, f \in Request : e = f \/ Precedes(Key(e), Key(f)) \/ Precedes(Key(f), Key(e))
<1>1. \A e \in Request : Key(e) \in Nat \X Nat
  BY RegistriesAssumption DEF Key, Base
<1>2. \A a, b, c \in Nat \X Nat : Precedes(a, b) /\ Precedes(b, c) => Precedes(a, c)
  BY DEF Precedes
<1>3. \A a, b \in Nat \X Nat : ~ (Precedes(a, b) /\ Precedes(b, a))
  BY DEF Precedes
<1>4. \A e, f \in Request : e = f \/ Precedes(Key(e), Key(f)) \/ Precedes(Key(f), Key(e))
  <2>1. \A e \in Request : stamp[e] \in Nat /\ e \in Nat
    BY RegistriesAssumption DEF Base
  <2> QED
    BY <2>1 DEF Precedes, Key
<1> QED
  BY <1>1, <1>2, <1>3, <1>4

\* Of finitely many events one is the oldest and one the newest.
LEMMA OldestAndNewest ==
    ASSUME Base, NEW S \in SUBSET Request, IsFiniteSet(S), S # {}
    PROVE  /\ \E e \in S : \A f \in S \ {e} : Precedes(Key(e), Key(f))
           /\ \E e \in S : \A f \in S \ {e} : Precedes(Key(f), Key(e))
<1> DEFINE Under(e) == {f \in S : Precedes(Key(f), Key(e))}
           Over(e)  == {f \in S : Precedes(Key(e), Key(f))}
<1>1. \A e \in S : /\ IsFiniteSet(Under(e)) /\ Cardinality(Under(e)) \in Nat
                   /\ IsFiniteSet(Over(e)) /\ Cardinality(Over(e)) \in Nat
  BY FS_Subset, FS_CardinalityType
<1>2. ASSUME NEW e \in S, NEW f \in Under(e) PROVE Cardinality(Under(f)) < Cardinality(Under(e))
  <2>1. f \in Under(e) /\ f \notin Under(f) /\ Under(f) \subseteq Under(e) /\ f \in S
    BY <1>2, KeysAreOrdered
  <2> HIDE DEF Under
  <2>2. /\ Cardinality(Under(f)) <= Cardinality(Under(e))
        /\ Cardinality(Under(f)) # Cardinality(Under(e))
    BY <1>1, <2>1, FS_Subset
  <2>3. Cardinality(Under(f)) \in Nat /\ Cardinality(Under(e)) \in Nat
    BY <1>1, <2>1
  <2> QED
    BY <2>2, <2>3
<1>3. ASSUME NEW e \in S, NEW f \in Over(e) PROVE Cardinality(Over(f)) < Cardinality(Over(e))
  <2>1. f \in Over(e) /\ f \notin Over(f) /\ Over(f) \subseteq Over(e) /\ f \in S
    BY <1>3, KeysAreOrdered
  <2> HIDE DEF Over
  <2>2. /\ Cardinality(Over(f)) <= Cardinality(Over(e))
        /\ Cardinality(Over(f)) # Cardinality(Over(e))
    BY <1>1, <2>1, FS_Subset
  <2>3. Cardinality(Over(f)) \in Nat /\ Cardinality(Over(e)) \in Nat
    BY <1>1, <2>1
  <2> QED
    BY <2>2, <2>3
<1>4. \E e \in S : \A f \in S \ {e} : Precedes(Key(e), Key(f))
  <2> DEFINE N == {Cardinality(Under(e)) : e \in S}
  <2>1. N \in SUBSET Nat /\ N # {}
    BY <1>1
  <2>2. PICK n \in N : \A m \in N : n <= m
    BY <2>1, LeastOf
  <2>3. PICK e \in S : Cardinality(Under(e)) = n
    BY <2>2
  <2>4. Under(e) = {}
    <3> SUFFICES ASSUME NEW f \in Under(e) PROVE FALSE
      OBVIOUS
    <3>1. f \in S /\ Cardinality(Under(f)) < n
      BY <1>2, <2>3
    <3>2. n <= Cardinality(Under(f))
      BY <2>2, <3>1
    <3>3. n \in Nat /\ Cardinality(Under(f)) \in Nat
      BY <1>1, <2>3, <3>1
    <3> QED
      BY <3>1, <3>2, <3>3
  <2> QED
    BY <2>4, KeysAreOrdered
<1>5. \E e \in S : \A f \in S \ {e} : Precedes(Key(f), Key(e))
  <2> DEFINE N == {Cardinality(Over(e)) : e \in S}
  <2>1. N \in SUBSET Nat /\ N # {}
    BY <1>1
  <2>2. PICK n \in N : \A m \in N : n <= m
    BY <2>1, LeastOf
  <2>3. PICK e \in S : Cardinality(Over(e)) = n
    BY <2>2
  <2>4. Over(e) = {}
    <3> SUFFICES ASSUME NEW f \in Over(e) PROVE FALSE
      OBVIOUS
    <3>1. f \in S /\ Cardinality(Over(f)) < n
      BY <1>3, <2>3
    <3>2. n <= Cardinality(Over(f))
      BY <2>2, <3>1
    <3>3. n \in Nat /\ Cardinality(Over(f)) \in Nat
      BY <1>1, <2>3, <3>1
    <3> QED
      BY <3>1, <3>2, <3>3
  <2> QED
    BY <2>4, KeysAreOrdered
<1> QED
  BY <1>4, <1>5

(***************************************************************************)
(* A page holds the newest events below the cursor: with one also all that *)
(* are newer; all there are, unless it is full; and then it has an oldest. *)
(***************************************************************************)
LEMMA PageIsNewest ==
    ASSUME Base, NEW c
    PROVE  LET matching == {e \in trail : Below(e, c)}
           IN  /\ Page(c) \subseteq matching
               /\ \A e \in Page(c), f \in matching : Precedes(Key(e), Key(f)) => f \in Page(c)
               /\ Cardinality(Page(c)) # PageLimit => Page(c) = matching
               /\ Cardinality(Page(c)) = PageLimit =>
                     \E e \in Page(c) : \A f \in Page(c) \ {e} : Precedes(Key(e), Key(f))
<1> DEFINE M == {e \in trail : Below(e, c)}
           Above(e) == {f \in M : Precedes(Key(e), Key(f))}
           P == Page(c)
<1>1. P = {e \in M : Cardinality(Above(e)) < PageLimit}
  BY DEF Page
<1>2. M \subseteq Request /\ P \subseteq M /\ PageLimit \in Nat \ {0}
  BY <1>1, RegistriesAssumption DEF Base
<1>3. IsFiniteSet(M) /\ IsFiniteSet(P) /\ Cardinality(P) \in Nat
  <2>1. M \subseteq Active
    BY DEF Base, Fits, Active
  <2> QED
    BY <1>2, <2>1, FS_Subset, FS_CardinalityType DEF Base
<1>4. \A e \in M : IsFiniteSet(Above(e)) /\ Cardinality(Above(e)) \in Nat
  BY <1>3, FS_Subset, FS_CardinalityType
<1>5. \A e \in P, f \in M : Precedes(Key(e), Key(f)) => f \in P
  <2> SUFFICES ASSUME NEW e \in P, NEW f \in M, Precedes(Key(e), Key(f)) PROVE f \in P
    OBVIOUS
  <2>1. Above(f) \subseteq Above(e) /\ e \in M
    BY <1>2, KeysAreOrdered
  <2>2. Cardinality(Above(f)) <= Cardinality(Above(e)) /\ Cardinality(Above(e)) < PageLimit
    BY <1>1, <1>4, <2>1, FS_Subset
  <2>3. Cardinality(Above(f)) \in Nat /\ Cardinality(Above(e)) \in Nat
    BY <1>4, <2>1
  <2>4. Cardinality(Above(f)) < PageLimit
    BY <1>2, <2>2, <2>3
  <2> QED
    BY <1>1, <2>4
<1>6. Cardinality(P) <= PageLimit
  <2>1. CASE P = {}
    BY <1>2, <2>1, FS_EmptySet
  <2>2. CASE P # {}
    <3>1. PICK e \in P : \A f \in P \ {e} : Precedes(Key(e), Key(f))
      BY <1>2, <1>3, <2>2, OldestAndNewest
    <3>2. P \ {e} \subseteq Above(e) /\ Cardinality(Above(e)) < PageLimit /\ e \in M
      BY <1>1, <1>2, <3>1
    <3>3. Cardinality(P \ {e}) = Cardinality(P) - 1
      BY <1>3, <3>1, FS_RemoveElement
    <3>4. Cardinality(P \ {e}) <= Cardinality(Above(e))
      BY <1>4, <3>2, FS_Subset
    <3> QED
      BY <1>2, <1>3, <1>4, <3>2, <3>3, <3>4
  <2> QED
    BY <2>1, <2>2
<1>7. Cardinality(P) # PageLimit => P = M
  <2> SUFFICES ASSUME P # M PROVE Cardinality(P) >= PageLimit
    BY <1>2, <1>3, <1>6
  <2>1. IsFiniteSet(M \ P) /\ M \ P # {} /\ M \ P \subseteq Request
    BY <1>2, <1>3, FS_Subset
  <2>2. PICK g \in M \ P : \A f \in (M \ P) \ {g} : Precedes(Key(f), Key(g))
    BY <2>1, OldestAndNewest
  <2>3. Above(g) \subseteq P
    <3> SUFFICES ASSUME NEW f \in M, Precedes(Key(g), Key(f)), f \notin P PROVE FALSE
      OBVIOUS
    <3>1. f # g
      BY <1>2, KeysAreOrdered
    <3>2. Precedes(Key(f), Key(g))
      BY <2>2, <3>1
    <3> QED
      BY <1>2, <3>2, KeysAreOrdered
  <2>4. Cardinality(Above(g)) >= PageLimit
    BY <1>1, <1>2, <1>4, <2>2
  <2>5. Cardinality(Above(g)) <= Cardinality(P)
    BY <1>3, <2>3, FS_Subset
  <2> QED
    BY <1>2, <1>3, <1>4, <2>2, <2>4, <2>5
<1>8. Cardinality(P) = PageLimit => \E e \in P : \A f \in P \ {e} : Precedes(Key(e), Key(f))
  <2> SUFFICES ASSUME Cardinality(P) = PageLimit
               PROVE  \E e \in P : \A f \in P \ {e} : Precedes(Key(e), Key(f))
    OBVIOUS
  <2>1. P # {}
    BY <1>2, FS_EmptySet
  <2> QED
    BY <1>2, <1>3, <2>1, OldestAndNewest
<1> QED
  BY <1>2, <1>5, <1>7, <1>8

-----------------------------------------------------------------------------
(* Readers of the trail.                                                   *)

(***************************************************************************)
(* What a reader has read is not below its cursor, and what was there when *)
(* it began and is not read is below it still.                             *)
(***************************************************************************)
Reader(r) ==
    /\ \A e \in Request : read[r][e] \in {0, 1} /\ (read[r][e] = 1 => e \in trail)
    /\ pc[r] = "free" => cursor[r] = Top /\ \A e \in Request : read[r][e] = 0
    /\ pc[r] = "page" =>
          /\ cursor[r] \in Nat \X Nat
          /\ \A e \in Request : read[r][e] = 1 => ~ Below(e, cursor[r])
          /\ before[r] \subseteq trail
          /\ \A e \in before[r] : read[r][e] = 1 \/ Below(e, cursor[r])
    /\ job[r].kind = "read_trail" /\ answer[r] = "done" => \A e \in before[r] : read[r][e] = 1

ReadInv ==
    /\ read = [r \in Request |-> read[r]] /\ cursor = [r \in Request |-> cursor[r]]
    /\ before = [r \in Request |-> before[r]]
    /\ \A r \in Request : Reader(r)

LEMMA ReadInit == Init => ReadInv
  BY DEF Init, ReadInv, Reader, Nothing

LEMMA ReaderStays ==
    ASSUME Base, NEW j \in Request, Reader(j), job'[j] = job[j],
           pc'[j] # "free", pc'[j] = "page" => pc[j] = "page",
           job[j].kind = "read_trail" /\ answer'[j] = "done" => answer[j] = "done",
           read'[j] = read[j], cursor'[j] = cursor[j], before'[j] = before[j] \/ pc[j] = "list",
           pc[j] = "list" => job[j].kind # "read_trail",
           trail \subseteq trail', \A e \in trail : stamp'[e] = stamp[e]
    PROVE  Reader(j)'
<1>1. \A e \in trail : \A c : Below(e, c)' <=> Below(e, c)
  BY DEF Below, Key
<1>2. pc'[j] = "page" => \A e \in Request : read[j][e] = 1 => ~ Below(e, cursor[j])'
  BY <1>1 DEF Reader
<1>3. pc'[j] = "page" => \A e \in before[j] : read[j][e] = 1 \/ Below(e, cursor[j])'
  BY <1>1 DEF Reader
<1> QED
  BY <1>2, <1>3 DEF Reader

LEMMA StampsStay ==
    ASSUME Base, NEW r \in Request, Acts(r), Moves(r)
    PROVE  \A e \in trail : stamp'[e] = stamp[e]
<1>1. \A e \in trail \ {r} : stamp'[e] = stamp[e]
  BY DEF Moves, Base
<1>2. r \in trail => stamp'[r] = stamp[r]
  BY DEF Acts, Call, Count, CreateWebhook, CreateConnection, auditing, Fits, Base,
       OfRows, UpdateWebhook, UpdateConnection, DeleteWebhook, DeleteConnection,
       BuildEvent, Record, RecordFails, Rollback, AddDataset, AddItem, ListItems, AddRun,
       AddVersion, NextVersionNumber, ReadPage, Fails, Dies
<1> QED
  BY <1>1, <1>2

\* A page is read: full, and the reader goes on below its oldest event; or not.
LEMMA ReadPageReads ==
    ASSUME Base, ReadInv, NEW r \in Request, ReadPage(r)
    PROVE  ReadInv'
<1> DEFINE page == Page(cursor[r])
           M == {e \in trail : Below(e, cursor[r])}
           reading == [e \in Request |-> IF e \in page THEN read[r][e] + 1 ELSE read[r][e]]
<1>1. /\ pc[r] = "page" /\ job[r].kind = "read_trail" /\ UNCHANGED <<trail, stamp, job, before>>
      /\ read' = [read EXCEPT ![r] = reading] /\ Fits(r) /\ Reader(r)
  BY DEF ReadPage, auditing, Base, Fits, ReadInv
<1>2. /\ read' = [j \in Request |-> read'[j]] /\ read'[r] = reading
      /\ \A j \in Request \ {r} : read'[j] = read[j]
  BY <1>1 DEF ReadInv
<1>3. \A e \in page : e \in M /\ e \in trail /\ e \in Request /\ read[r][e] = 0
  BY <1>1, PageIsNewest DEF Reader, Base
<1>4. \A e \in Request : /\ reading[e] \in {0, 1}
                         /\ reading[e] = 1 <=> (read[r][e] = 1 \/ e \in page)
  BY <1>1, <1>3 DEF Reader
<1>5. \A e, c : Below(e, c)' <=> Below(e, c)
  BY <1>1 DEF Below, Key
<1>6. cursor[r] \in Nat \X Nat /\ before[r] \subseteq trail /\ trail \subseteq Request
  BY <1>1 DEF Reader, Base
<1>7. CASE Cardinality(page) = PageLimit
  <2> DEFINE IsOldest(e) == \A f \in page \ {e} : Precedes(Key(e), Key(f))
  <2>1. \E e \in page : IsOldest(e)
    BY <1>7, PageIsNewest
  <2>2. PICK e \in page : IsOldest(e) /\ e = CHOOSE x \in page : IsOldest(x)
    BY <2>1
  <2>3. /\ cursor' = [cursor EXCEPT ![r] = Key(e)] /\ pc' = [pc EXCEPT ![r] = "page"]
        /\ answer' = answer
    <3>1. /\ cursor' = [cursor EXCEPT ![r] =
                Key(CHOOSE x \in page : \A f \in page \ {x} : Precedes(Key(x), Key(f)))]
          /\ Goto(r, "page")
      BY <1>7 DEF ReadPage
    <3> QED
      BY <2>2, <3>1 DEF Goto
  <2>4. /\ cursor' = [j \in Request |-> cursor'[j]] /\ cursor'[r] = Key(e)
        /\ \A j \in Request \ {r} : cursor'[j] = cursor[j]
    BY <2>3 DEF ReadInv
  <2>5. pc' = pc
    BY <1>1, <2>3 DEF Base
  <2>6. Key(e) \in Nat \X Nat /\ Precedes(Key(e), cursor[r]) /\ e \in Request
    BY <1>3, <2>2, KeysAreOrdered DEF Below
  <2>7. \A f \in Request : reading[f] = 1 => ~ Precedes(Key(f), Key(e))
    <3> SUFFICES ASSUME NEW f \in Request, reading[f] = 1, Precedes(Key(f), Key(e)) PROVE FALSE
      OBVIOUS
    <3>1. CASE f \in page
      BY <2>2, <2>6, <3>1, KeysAreOrdered
    <3>2. CASE read[r][f] = 1
      <4>1. Precedes(Key(f), cursor[r])
        BY <1>6, <2>6, KeysAreOrdered
      <4> QED
        BY <1>1, <3>2, <4>1 DEF Reader, Below
    <3> QED
      BY <1>4, <3>1, <3>2
  <2>8. \A f \in before[r] : reading[f] = 1 \/ Precedes(Key(f), Key(e))
    <3> SUFFICES ASSUME NEW f \in before[r], read[r][f] # 1, f \notin page
                 PROVE  Precedes(Key(f), Key(e))
      BY <1>4, <1>6
    <3>1. f \in M /\ f \in Request
      BY <1>1, <1>6 DEF Reader
    <3>2. ~ Precedes(Key(e), Key(f))
      BY <2>2, <3>1, PageIsNewest
    <3> QED
      BY <2>2, <2>6, <3>1, <3>2, KeysAreOrdered
  <2> HIDE DEF reading, page
  <2>9. Reader(r)'
    BY <1>1, <1>2, <1>3, <1>4, <1>5, <1>6, <2>3, <2>4, <2>5, <2>6, <2>7, <2>8
       DEF Reader, Below, Base, Fits
  <2>10. ASSUME NEW j \in Request \ {r} PROVE Reader(j)'
    <3>1. /\ read'[j] = read[j] /\ cursor'[j] = cursor[j] /\ before'[j] = before[j]
          /\ job'[j] = job[j] /\ pc'[j] = pc[j] /\ answer'[j] = answer[j] /\ trail' = trail
          /\ Reader(j)
      BY <1>1, <1>2, <2>3, <2>4, <2>5 DEF ReadInv
    <3>2. pc'[j] = "page" => \A f \in Request : read[j][f] = 1 => ~ Below(f, cursor[j])'
      BY <1>5, <3>1 DEF Reader
    <3>3. pc'[j] = "page" => \A f \in before[j] : read[j][f] = 1 \/ Below(f, cursor[j])'
      BY <1>5, <3>1 DEF Reader
    <3> QED
      BY <3>1, <3>2, <3>3 DEF Reader
  <2> QED
    BY <1>1, <1>2, <2>4, <2>9, <2>10 DEF ReadInv
<1>8. CASE Cardinality(page) # PageLimit
  <2>1. cursor' = cursor /\ pc'[r] = "over" /\ answer'[r] = "done"
        /\ \A j \in Request \ {r} : pc'[j] = pc[j] /\ answer'[j] = answer[j]
    BY <1>8 DEF ReadPage, Reply, Base
  <2>2. page = M
    BY <1>8, PageIsNewest
  <2>3. \A e \in before[r] : reading[e] = 1
    BY <1>1, <1>4, <1>6, <2>2 DEF Reader
  <2> HIDE DEF reading, page
  <2>4. Reader(r)'
    BY <1>1, <1>2, <1>3, <1>4, <2>1, <2>3 DEF Reader
  <2>5. \A j \in Request \ {r} : Reader(j)'
    BY <1>1, <1>2, <1>5, <2>1 DEF Reader, ReadInv
  <2> QED
    BY <1>1, <1>2, <2>1, <2>4, <2>5 DEF ReadInv
<1> QED
  BY <1>7, <1>8

LEMMA ReadStep == Base /\ ReadInv /\ [Next]_vars => ReadInv'
<1> SUFFICES ASSUME Base, ReadInv, [Next]_vars PROVE ReadInv'
  OBVIOUS
<1>1. CASE Idle
  BY <1>1 DEF Idle, locals, auditing, ReadInv, Reader, Below, Key
<1>2. ASSUME NEW r \in Request, Acts(r), Moves(r) PROVE ReadInv'
  <2>0. /\ Fits(r) /\ trail \subseteq trail' /\ \A e \in trail : stamp'[e] = stamp[e]
        /\ Reader(r)
    BY <1>2, StampsStay DEF Base, Moves, ReadInv
  <2>1. ASSUME NEW j \in Request, read'[j] = read[j], cursor'[j] = cursor[j],
               before'[j] = before[j], j # r
        PROVE  Reader(j)'
    <3>1. Reader(j) /\ pc'[j] = pc[j] /\ job'[j] = job[j] /\ answer'[j] = answer[j]
      BY <1>2, <2>1 DEF Moves, ReadInv
    <3>2. CASE pc[j] # "free"
      <4>1. pc[j] = "list" => job[j].kind # "read_trail"
        BY DEF Base, Fits
      <4> QED
        BY <2>0, <2>1, <3>1, <3>2, <4>1, ReaderStays
    <3>3. CASE pc[j] = "free"
      <4>1. answer[j] = "none" /\ \A e \in Request : read[j][e] = 0
        BY <3>1, <3>3 DEF Base, Fits, Reader
      <4> QED
        BY <2>1, <3>1, <3>3, <4>1 DEF Reader, Top
    <3> QED
      BY <3>2, <3>3
  <2>2. CASE ReadPage(r)
    BY <2>2, ReadPageReads
  <2>3. CASE \E kind \in Kinds, target \in Request \cup {0}, name \in Name :
               Call(r, kind, target, name)
    <3>1. PICK kind \in Kinds, target \in Request \cup {0}, name \in Name :
              Call(r, kind, target, name)
      BY <2>3
    <3>2. /\ pc[r] = "free" /\ UNCHANGED <<read, cursor, trail, stamp>>
          /\ before' = [before EXCEPT ![r] = IF kind = "read_trail" THEN trail ELSE {}]
          /\ pc'[r] = FirstStep[kind] /\ answer'[r] = answer[r]
          /\ job' = [job EXCEPT ![r] = [kind |-> kind, target |-> target, name |-> name]]
      BY <3>1 DEF Call, Goto, auditing, Base
    <3>3. /\ before' = [j \in Request |-> before'[j]]
          /\ \A j \in Request \ {r} : before'[j] = before[j]
          /\ before'[r] = IF kind = "read_trail" THEN trail ELSE {}
          /\ job'[r].kind = kind
      BY <3>2 DEF ReadInv, Base
    <3>4. /\ answer'[r] = "none" /\ cursor'[r] = Top /\ \A e \in Request : read'[r][e] = 0
      BY <2>0, <3>2 DEF Fits, Reader
    <3>5. Top \in Nat \X Nat /\ \A e \in trail : Below(e, Top)'
      BY <3>2, RegistriesAssumption DEF Top, Below, Key, Precedes, Base
    <3>6. pc'[r] = "page" => kind = "read_trail"
      BY <3>2 DEF FirstStep, Kinds, Targeted
    <3>7. pc'[r] # "free"
      BY <1>2 DEF Moves
    <3>8. Reader(r)'
      BY <3>2, <3>3, <3>4, <3>5, <3>6, <3>7 DEF Reader
    <3> QED
      BY <2>1, <3>2, <3>3, <3>8 DEF ReadInv
  <2>4. CASE ~ (ReadPage(r) \/ \E kind \in Kinds, target \in Request \cup {0}, name \in Name :
                                  Call(r, kind, target, name))
    <3>1. read' = read /\ cursor' = cursor /\ job' = job /\ pc[r] # "free"
      BY <1>2, <2>4 DEF Acts, Count, CreateWebhook, CreateConnection, locals,
         OfRows, UpdateWebhook, UpdateConnection, Update, DeleteWebhook, DeleteConnection,
         Delete, BuildEvent, Record, RecordFails, Rollback, AddDataset, AddItem, ListItems, AddRun,
         AddVersion, NextVersionNumber, Fails, Dies
    <3>2. /\ before' = [j \in Request |-> before'[j]]
          /\ \A j \in Request \ {r} : before'[j] = before[j]
          /\ before'[r] = before[r] \/ pc[r] = "list"
      BY <1>2, <2>4 DEF Acts, Count, CreateWebhook, CreateConnection, locals, ReadInv,
         OfRows, UpdateWebhook, UpdateConnection, DeleteWebhook, DeleteConnection,
         BuildEvent, Record, RecordFails, Rollback, AddDataset, AddItem, ListItems, AddRun,
         AddVersion, NextVersionNumber, Fails, Dies
    <3>3. pc'[r] # "page"
      BY <1>2, <2>4 DEF Acts, Count, CreateWebhook, CreateConnection, Insert, Goto, Reply, Base,
         OfRows, UpdateWebhook, UpdateConnection, Update, DeleteWebhook, DeleteConnection,
         Delete, BuildEvent, Record, RecordFails, Unrecorded, Rollback, AddDataset, AddItem,
         ListItems, AddRun, AddVersion, NextVersionNumber, Fails, Dies
    <3>4. job[r].kind = "read_trail" /\ answer'[r] = "done" => answer[r] = "done"
      BY <1>2, <2>0, <2>4 DEF Acts, Count, CreateWebhook, CreateConnection, Insert, Goto, Reply,
         OfRows, UpdateWebhook, UpdateConnection, Update, DeleteWebhook, DeleteConnection, Base,
         Delete, BuildEvent, Record, RecordFails, Unrecorded, Rollback, AddDataset, AddItem,
         ListItems, AddRun, AddVersion, NextVersionNumber, Fails, Dies, Fits, Audited
    <3>5. Reader(r)'
      <4>1. pc[r] = "list" => job[r].kind # "read_trail"
        BY <2>0 DEF Fits
      <4>2. pc'[r] # "free"
        BY <1>2 DEF Moves
      <4> QED
        BY <2>0, <3>1, <3>2, <3>3, <3>4, <4>1, <4>2, ReaderStays
    <3> QED
      BY <2>1, <3>1, <3>2, <3>5 DEF ReadInv
  <2> QED
    BY <2>2, <2>3, <2>4
<1> QED
  BY <1>1, <1>2, BaseStep

(***************************************************************************)
(* Whatever the size of the pages, and whatever is recorded meanwhile: who *)
(* follows the cursor to the end gets every event that was there when it   *)
(* began, and none twice.                                                  *)
(***************************************************************************)
THEOREM TrailAlwaysReadComplete == Spec => []TrailReadComplete
<1>1. ReadInv => TrailReadComplete
  BY DEF ReadInv, Reader, TrailReadComplete
<1>2. Base /\ ReadInv /\ [Next]_vars => (Base /\ ReadInv)'
  BY BaseStep, ReadStep
<1> QED
  BY BaseInit, ReadInit, <1>1, <1>2, PTL DEF Spec

=============================================================================
