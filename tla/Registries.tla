----------------------------- MODULE Registries -----------------------------
(***************************************************************************)
(* What one organisation keeps in tables of its own: webhook subscriptions *)
(* (api/routers/webhooks.py), integration connections                      *)
(* (api/routers/integrations.py), prompt versions (prompt_registry),       *)
(* evaluation datasets and runs (observability/evaluation), and the audit  *)
(* trail in which the first two are recorded (enterprise/audit.py) and     *)
(* which is read page by page (api/routers/audit.py).                      *)
(*                                                                         *)
(* Each statement commits by itself; a handler is a sequence of them. Every*)
(* statement filters by the caller's organisation, so one is enough. A     *)
(* Request is one call, and stands for the row and the event it creates.   *)
(***************************************************************************)
EXTENDS Integers, FiniteSets

CONSTANTS
    Request,        \* bound: the calls made; their order is that of their ids
    Offered,        \* the kinds of calls made
    Name,           \* of prompt templates and datasets
    Cap,            \* webhook_max_per_org
    AuditRequired,  \* audit_log_required
    Size,           \* items of an uploaded dataset
    PageLimit,      \* the limit of a page of the trail
    LastMoment,     \* bound: the clock
    MaxFaults       \* bound: statements that fail, and calls whose process dies

Targeted == {"update_webhook", "delete_webhook", "update_connection",
             "delete_connection", "evaluate"}
Kinds == Targeted \cup {"add_webhook", "add_connection", "prompt", "dataset", "read_trail"}

ASSUME RegistriesAssumption ==
    /\ Request \subseteq Nat \ {0} /\ Offered \subseteq Kinds
    /\ Cap \in Nat \ {0} /\ Size \in Nat \ {0} /\ PageLimit \in Nat \ {0}
    /\ AuditRequired \in BOOLEAN /\ LastMoment \in Nat /\ MaxFaults \in Nat

Steps == {"free", "count", "create", "update", "delete", "event", "record",
          "rollback", "number", "version", "dataset", "items", "list", "run",
          "page", "over"}
Answers == {"none", "done", "limit_reached", "not_found", "audit_unavailable",
            "failed", "died"}

VARIABLES
    now,
    rows,      \* webhook_subscriptions and integration_connections, by creator
    versions,  \* prompt_versions: [name, version, by]
    datasets,  \* evaluation_datasets: [name, by]
    items,     \* evaluation_items: <<dataset, item>>
    runs,      \* evaluation_runs with their results: [by, dataset, scored]
    trail,     \* audit_events, by the call they record
    stamp,     \* created_at of the event of each call
    pc, job,   \* what each call is about to do, and to which row
    number,    \* the version number a call has read
    listed,    \* the items an evaluation has listed
    cursor,    \* where a reader of the trail goes on, and what it has read
    read,
    answer,
    faults,
    rivals,    \* most calls at once between their count and their create (history)
    before     \* what was there when a reader or an evaluation began (history)

tables  == <<rows, versions, datasets, items, runs>>
auditing == <<trail, stamp>>
locals  == <<number, listed, cursor, read, before>>
vars    == <<now, tables, auditing, pc, job, locals, answer, faults, rivals>>

Nothing == [kind |-> "none", target |-> 0, name |-> CHOOSE n \in Name : TRUE]
Top     == <<LastMoment + 1, 0>>   \* a cursor before the newest event

TypeOK ==
    /\ now \in 0..LastMoment /\ rows \subseteq Request /\ trail \subseteq Request
    /\ \A v \in versions : v.name \in Name /\ v.version \in Nat /\ v.by \in Request
    /\ \A i \in items : i[2] \in 1..Size /\ \E d \in datasets : d.by = i[1]
    /\ \A e \in runs : e.scored \subseteq items
    /\ stamp \in [Request -> 0..LastMoment] /\ pc \in [Request -> Steps]
    /\ answer \in [Request -> Answers] /\ faults \in 0..MaxFaults

Init ==
    /\ now = 0 /\ rows = {} /\ versions = {} /\ datasets = {} /\ items = {} /\ runs = {}
    /\ trail = {} /\ stamp = [r \in Request |-> 0] /\ faults = 0 /\ rivals = 0
    /\ pc = [r \in Request |-> "free"] /\ job = [r \in Request |-> Nothing]
    /\ number = [r \in Request |-> 0] /\ listed = [r \in Request |-> {}]
    /\ cursor = [r \in Request |-> Top] /\ read = [r \in Request |-> [e \in Request |-> 0]]
    /\ before = [r \in Request |-> {}] /\ answer = [r \in Request |-> "none"]

Goto(r, step) == pc' = [pc EXCEPT ![r] = step] /\ UNCHANGED answer
Reply(r, a)   == pc' = [pc EXCEPT ![r] = "over"] /\ answer' = [answer EXCEPT ![r] = a]
Fault == faults < MaxFaults /\ faults' = faults + 1

FirstStep == [add_webhook |-> "count", add_connection |-> "create",
              update_webhook |-> "update", delete_webhook |-> "delete",
              update_connection |-> "update", delete_connection |-> "delete",
              prompt |-> "number",
              dataset |-> "dataset", evaluate |-> "list", read_trail |-> "page"]

\* A call whose caller may make it and whose input is admitted: of a new
\* webhook, connection, version or dataset, or of a row that may not exist.
Call(r, kind, target, name) ==
    /\ pc[r] = "free" /\ kind \in Offered
    /\ target # 0 <=> kind \in Targeted
    /\ job' = [job EXCEPT ![r] = [kind |-> kind, target |-> target, name |-> name]]
    /\ before' = [before EXCEPT ![r] = IF kind = "read_trail" THEN trail ELSE {}]
    /\ Goto(r, FirstStep[kind])
    /\ UNCHANGED <<now, tables, auditing, number, listed, cursor, read, faults, rivals>>

-----------------------------------------------------------------------------
(* Webhook subscriptions and integration connections.                      *)

Webhooks    == {w \in rows : job[w].kind = "add_webhook"}
Connections == {c \in rows : job[c].kind = "add_connection"}
MayCreate(r) == {w \in Request : job[w].kind = "add_webhook" /\ pc[w] = "create"} \cup {r}

HasRoomForOne == Cardinality(Webhooks) <= Cap   \* Bug: > for >=
HasRoom == Cardinality(Webhooks) < Cap

Count(r) ==
    /\ pc[r] = "count"
    /\ \/ /\ HasRoom /\ Goto(r, "create")
          /\ rivals' = IF Cardinality(MayCreate(r)) > rivals
                       THEN Cardinality(MayCreate(r)) ELSE rivals
       \/ ~ HasRoom /\ Reply(r, "limit_reached") /\ UNCHANGED rivals
    /\ UNCHANGED <<now, tables, auditing, job, locals, faults>>

Insert(r) == rows' = rows \cup {r} /\ Goto(r, "event")
OfRows(r, kind) ==
    /\ job[r].kind = kind
    /\ UNCHANGED <<now, versions, datasets, items, runs, auditing, job, locals, faults, rivals>>

CreateWebhook(r)    == pc[r] = "create" /\ Insert(r) /\ OfRows(r, "add_webhook")
CreateConnection(r) == pc[r] = "create" /\ Insert(r) /\ OfRows(r, "add_connection")

\* One UPDATE ... RETURNING, or one DELETE: no row of the table, no such thing.
Update(r, table) ==
    /\ pc[r] = "update"
    /\ IF job[r].target \in table THEN Goto(r, "event") ELSE Reply(r, "not_found")
    /\ UNCHANGED rows
Delete(r, table) ==
    /\ pc[r] = "delete"
    /\ IF job[r].target \in table THEN Goto(r, "event") ELSE Reply(r, "not_found")
    /\ rows' = rows \ ({job[r].target} \cap table)

UpdateWebhook(r)    == Update(r, Webhooks) /\ OfRows(r, "update_webhook")
DeleteWebhook(r)    == Delete(r, Webhooks) /\ OfRows(r, "delete_webhook")
UpdateConnection(r) == Update(r, Connections) /\ OfRows(r, "update_connection")
DeleteConnection(r) == Delete(r, Connections) /\ OfRows(r, "delete_connection")

\* The event is built, with its time, before it is inserted.
BuildEvent(r) ==
    /\ pc[r] = "event"
    /\ stamp' = [stamp EXCEPT ![r] = now]
    /\ Goto(r, "record")
    /\ UNCHANGED <<now, tables, trail, job, locals, faults, rivals>>

Record(r) ==
    /\ pc[r] = "record"
    /\ trail' = trail \cup {r}
    /\ Reply(r, "done")
    /\ UNCHANGED <<now, tables, stamp, job, locals, faults, rivals>>

UnrecordedLeavesTheRow(r) == Reply(r, "audit_unavailable")   \* Bug: no rollback
\* A webhook whose secret will not be handed over is deleted again.
Unrecorded(r) ==
    \/ job[r].kind = "add_webhook" /\ Goto(r, "rollback")
    \/ job[r].kind # "add_webhook" /\ Reply(r, "audit_unavailable")

\* The insert fails, or is committed and not acknowledged.
RecordFails(r) ==
    /\ pc[r] = "record" /\ Fault
    /\ trail' \in {trail, trail \cup {r}}
    /\ \/ AuditRequired /\ Unrecorded(r)
       \/ ~ AuditRequired /\ Reply(r, "done")
    /\ UNCHANGED <<now, tables, stamp, job, locals, rivals>>

Rollback(r) ==
    /\ pc[r] = "rollback"
    /\ rows' = rows \ {r}
    /\ Reply(r, "audit_unavailable")
    /\ UNCHANGED <<now, versions, datasets, items, runs, auditing, job, locals, faults, rivals>>

-----------------------------------------------------------------------------
(* Prompt versions.                                                        *)

VersionsOf(n) == {v.version : v \in {u \in versions : u.name = n}}
Latest(n)     == IF VersionsOf(n) = {} THEN 0
                 ELSE CHOOSE v \in VersionsOf(n) : \A u \in VersionsOf(n) : u <= v

NextVersionNumber(r) ==
    /\ pc[r] = "number"
    /\ number' = [number EXCEPT ![r] = Latest(job[r].name) + 1]
    /\ Goto(r, "version")
    /\ UNCHANGED <<now, tables, auditing, job, listed, cursor, read, before, faults, rivals>>

NeverTaken(n, v) == FALSE   \* Bug: UNIQUE (template_id, version) is missing
Taken(n, v) == v \in VersionsOf(n)

\* The template, if it is new, and the version in one transaction, which a
\* version of that number makes fail.
AddVersion(r) ==
    /\ pc[r] = "version"
    /\ \/ /\ ~ Taken(job[r].name, number[r])
          /\ versions' = versions \cup
                {[name |-> job[r].name, version |-> number[r], by |-> r]}
          /\ Reply(r, "done")
       \/ /\ Taken(job[r].name, number[r])
          /\ Reply(r, "failed") /\ UNCHANGED versions
    /\ UNCHANGED <<now, rows, datasets, items, runs, auditing, job, locals, faults, rivals>>

-----------------------------------------------------------------------------
(* Evaluation.                                                             *)

ItemsOf(d) == {i \in items : i[1] = d}

\* UNIQUE (org_id, name).
AddDataset(r) ==
    /\ pc[r] = "dataset"
    /\ \/ /\ \A d \in datasets : d.name # job[r].name
          /\ datasets' = datasets \cup {[name |-> job[r].name, by |-> r]}
          /\ Goto(r, "items")
       \/ /\ \E d \in datasets : d.name = job[r].name
          /\ Reply(r, "failed") /\ UNCHANGED datasets
    /\ UNCHANGED <<now, rows, versions, items, runs, auditing, job, locals, faults, rivals>>

LastButOne(r) == Cardinality(ItemsOf(r)) >= Size - 2   \* Bug: stops one item early
Last(r) == Cardinality(ItemsOf(r)) = Size - 1

\* The items one by one, each in a transaction of its own.
AddItem(r) ==
    /\ pc[r] = "items"
    /\ items' = items \cup {<<r, Cardinality(ItemsOf(r)) + 1>>}
    /\ IF Last(r) THEN Reply(r, "done") ELSE Goto(r, "items")
    /\ UNCHANGED <<now, rows, versions, datasets, runs, auditing, job, locals, faults, rivals>>

\* An evaluation runs the pipeline on the items it lists.
ListItems(r) ==
    /\ pc[r] = "list"
    /\ IF \E d \in datasets : d.by = job[r].target
       THEN Goto(r, "run") ELSE Reply(r, "not_found")
    /\ listed' = [listed EXCEPT ![r] = ItemsOf(job[r].target)]
    /\ before' = [before EXCEPT ![r] =
          {d \in Request : d = job[r].target /\ answer[d] = "done"}]
    /\ UNCHANGED <<now, tables, auditing, job, number, cursor, read, faults, rivals>>

\* The run and its results in one transaction.
AddRun(r) ==
    /\ pc[r] = "run"
    /\ runs' = runs \cup {[by |-> r, dataset |-> job[r].target, scored |-> listed[r]]}
    /\ Reply(r, "done")
    /\ UNCHANGED <<now, rows, versions, datasets, items, auditing, job, locals, faults, rivals>>

-----------------------------------------------------------------------------
(* The trail, newest first, in pages that end at a cursor.                 *)

Precedes(a, b) == a[1] < b[1] \/ (a[1] = b[1] /\ a[2] < b[2])
Key(e) == <<stamp[e], e>>

BelowInTime(e, c) == stamp[e] < c[1]   \* Bug: the cursor compares the time alone
Below(e, c) == Precedes(Key(e), c)

Page(c) ==
    LET matching == {e \in trail : Below(e, c)}
    IN  {e \in matching : Cardinality({f \in matching : Precedes(Key(e), Key(f))}) < PageLimit}

\* A page that is not full is the last.
ReadPage(r) ==
    /\ pc[r] = "page"
    /\ LET page == Page(cursor[r])
       IN  /\ read' = [read EXCEPT ![r] =
                 [e \in Request |-> IF e \in page THEN @[e] + 1 ELSE @[e]]]
           /\ IF Cardinality(page) = PageLimit
              THEN /\ cursor' = [cursor EXCEPT ![r] =
                         Key(CHOOSE e \in page : \A f \in page \ {e} : Precedes(Key(e), Key(f)))]
                   /\ Goto(r, "page")
              ELSE Reply(r, "done") /\ UNCHANGED cursor
    /\ UNCHANGED <<now, tables, auditing, job, number, listed, before, faults, rivals>>

-----------------------------------------------------------------------------
\* A statement fails, or the pipeline of an evaluation does: the caller is
\* told so, and what was committed before it stays.
Fails(r) ==
    /\ pc[r] \notin {"free", "event", "record", "over"} /\ Fault
    /\ Reply(r, "failed")
    /\ UNCHANGED <<now, tables, auditing, job, locals, rivals>>

\* The process dies with the call.
Dies(r) ==
    /\ pc[r] \notin {"free", "over"} /\ Fault
    /\ Reply(r, "died")
    /\ UNCHANGED <<now, tables, auditing, job, locals, rivals>>

Tick ==
    /\ now < LastMoment /\ now' = now + 1
    /\ UNCHANGED <<tables, auditing, pc, job, locals, answer, faults, rivals>>

Next ==
    \/ Tick
    \/ \E r \in Request :
          \/ \E kind \in Kinds, target \in Request \cup {0}, name \in Name : Call(r, kind, target, name)
          \/ Count(r) \/ CreateWebhook(r) \/ UpdateWebhook(r) \/ DeleteWebhook(r)
          \/ CreateConnection(r) \/ UpdateConnection(r) \/ DeleteConnection(r)
          \/ BuildEvent(r) \/ Record(r) \/ RecordFails(r) \/ Rollback(r)
          \/ NextVersionNumber(r) \/ AddVersion(r)
          \/ AddDataset(r) \/ AddItem(r) \/ ListItems(r) \/ AddRun(r)
          \/ ReadPage(r) \/ Fails(r) \/ Dies(r)

Spec == Init /\ [][Next]_vars

-----------------------------------------------------------------------------
\* The cap is a count followed by an insert: an organisation exceeds it by no
\* more than the calls that were between the two at one moment, less one,
\* however webhooks come and go (api/routers/webhooks.py:221-242).
CapOverrunByRivals ==
    Cardinality(Webhooks) > 0 => Cardinality(Webhooks) < Cap + rivals

\* Live endpoints whose secret nobody was handed, and that no call will remove.
Stranded == {w \in Webhooks : pc[w] = "over" /\ answer[w] # "done"}

\* One refused audit write strands no webhook: the row that the handler says
\* "cannot be left standing" stands only if the process died with the call, or
\* the deletion failed as well as the audit write, and so for each such row one
\* fault or two of its own.  Where the trail is required, a webhook that was
\* handed over is recorded (api/routers/webhooks.py:209-216, 244-268).
StrandedTookFaults ==
    /\ Cardinality(Stranded) + Cardinality({w \in Stranded : answer[w] # "died"}) <= faults
    /\ AuditRequired => \A w \in Webhooks : answer[w] = "done" => w \in trail

\* The versions of a template are numbered from 1 without a gap, each number
\* once, although the next number is read before the transaction that takes it
\* (prompt_registry/registry.py:44-61, migrations/0009:23).
VersionsContiguous ==
    \A n \in Name :
        /\ VersionsOf(n) = 1..Cardinality(VersionsOf(n))
        /\ \A u, v \in versions : u.name = n /\ v.name = n /\ u.version = v.version => u = v

\* An evaluation that misses an item of its dataset listed the items before the
\* upload was answered, or the upload never was
\* (routers/evaluations.py:87-108, evaluation/framework.py:69-80).
RunMissesForCause ==
    \A e \in runs : e.dataset \in before[e.by] => Cardinality(e.scored) = Size

\* A reader who follows the cursor to the end gets every event that was
\* committed before it began, and no event twice, whatever is recorded
\* meanwhile, also when events share their time (enterprise/audit.py:376-390).
TrailReadComplete ==
    \A r \in Request :
        /\ \A e \in Request : read[r][e] <= 1
        /\ job[r].kind = "read_trail" /\ answer[r] = "done" =>
              \A e \in before[r] : read[r][e] = 1
=============================================================================
