# AgentForge, verified

AgentForge is a multi-tenant platform for retrieval-augmented answers and
agents: a FastAPI service (`src/src/agentforge/`, 25 000 lines of Python) that
ingests documents, runs single agents and teams of agents, meters and limits
what they spend, and tells the outside world what happened by webhook. It runs
as one or several identical processes over one PostgreSQL database, or keyless
over in-memory stores. This directory holds TLA+ models of its core logic, the
TLC runs that check them and TLAPS proofs about them.

Paths below are relative to `src/src/agentforge/`.

## 1. The system

Requests run on FastAPI's event loop; every store call they make is handed to a
thread pool, so two requests interleave between any two store calls, in one
process as much as in two. A store call is one transaction in PostgreSQL; the
stores in memory, for tests and keyless starts, are dictionaries, several of them
without a lock. Four things run beside the requests: the webhook delivery thread of each process, the budget
announcement pool (one thread), background tasks attached to responses, and the
generator of a streamed response, which runs only as far as its consumer reads.

| Component | State | Operations | Interacts with | What is hard |
|---|---|---|---|---|
| Webhook queue and worker (`webhooks/outbox.py`, `worker.py`, `emitter.py`) | `webhook_outbox` rows: status, attempts, next attempt, lease; per worker: the claimed batch | claim, attempt, settle, reschedule, abandon, requeue, prune | dispatcher writes rows; subscriptions decide whether a row is still wanted; the log records attempts | several instances over one table, leases that run out, crashes between request and settle, clocks that differ |
| Webhook dispatcher (`webhooks/dispatcher.py`) | none | look up subscribers, enqueue one row each | called by routers, streams and budget alerts | partial failure, subscriptions changing in between |
| Subscriptions and delivery log (`webhooks/store.py`, `api/routers/webhooks.py`) | `webhook_subscriptions`, `webhook_deliveries` | create, change, pause, delete, redeliver | the queue, by foreign key and by lookup; the audit trail | cascades differ between the stores; the cap is check-then-act; creation is taken back when it cannot be recorded |
| Budget announcements (`observability/budget_alerts.py`) | `budget_notifications` claims; a memo per process; a bounded backlog | pending, dispatch, announce, reconcile | budget guard gives the standing, dispatcher carries the event | once per period over several processes, the ceiling moving meanwhile, crashes between claim and enqueue |
| Spend budget and guard, metering, rate limiter, model calls (`observability/budget.py`, `observability/usage/`, `enterprise/rate_limit.py`, `llm/`) | `spend_budgets`, `usage_records`; a cached spend per process; a counter per window in Redis | admit or refuse a request, call the model and wait out its rate limit, meter the answer, change the ceiling | refuses runs (402) and requests (429) | staleness of the cache, records that commit late, failing open, bounded waits |
| Multi-agent runs (`multiagent/`) | `multi_agent_runs`, messages, decisions, checkpoint | start, delegate, critique, suspend, decide, terminate, stream | conversation store, model provider, webhooks, traces | two approvers at once, revision bounds, a run suspended over a restart, outcome told in several steps |
| Agent loop and its stream (`agent/`, `streaming/sse.py`, `api/routers/agent.py`) | the run's state; conversations and messages; trace entries | decide, act, observe, finish, store the answer, stream | tools, conversations, trace, webhooks | bounds, exactly one terminal frame whatever fails, messages numbered at once, consumers that leave |
| Identity (`enterprise/identity.py`, `auth.py`, `api_keys.py`, `api/routers/orgs.py`) | users, organisations, memberships, teams, keys, tokens | register, sign in, add, change role, remove, issue, revoke | every request's principal; the audit trail | the last owner, rows that vanish between check and use, row locks, roles in tokens |
| Audit log (`enterprise/audit.py`) | `audit_events` | record, list by page | every administrative handler | recorded after the act; pages by time while writers commit |
| Ingestion and retrieval (`ingestion/service.py`, `db/store.py`, `vectorstore/`, `rag/`) | documents, chunks, vectors | upload, delete, query | vector store, relational store | duplicates at once, two stores without a common transaction, rollbacks that fail |
| Prompt registry, evaluations, integration connections | numbered versions; datasets, items, runs; connections | create, change, delete, evaluate | the audit trail | numbers taken in two transactions, datasets half inserted |
| Start-up (`main.py`, `config/`, `db/migrations.py`) | `schema_migrations`; per process the stores of its contexts | load settings, migrate, compose, serve, stop | every other component is built here | two instances starting at once, crashes, which contexts share a store |

The remaining parts are listed in `PROJECT.json` with the reason they are left
out; section 6 sums them up.

### What makes each component correct

- **Webhooks.** One row is one worker's at a time; an acknowledged event is not
  sent again unless the record of it was lost; nothing that was written down is
  lost; no row outlives its schedule; what is abandoned was abandoned for cause;
  what is due is eventually attempted although workers die.
- **Budget announcements.** A threshold is announced at most once per period and
  ceiling but for a failed fan-out; what a previous ceiling claimed or remembered
  does not silence a crossing, for which the code has two remedies, each with a
  gap (section 5).
- **Multi-agent runs.** A run ends once, within its bounds; a suspended run is
  resumed by one decision; what is stored of a run agrees with what was told.
- **Agent loop.** Every run ends within its bounds with an answer or an error, a
  stream in one terminal frame; what was answered was stored; a conversation's
  messages have neither gaps nor doubles.
- **Spending.** What admits a run is at most one cache period old, a refusal is
  of this period's spend, and no model call waits for ever.
- **Identity.** An organisation keeps an owner; a team holds members of its
  organisation only; the trail has what was done, or the caller is told.
- **Ingestion.** What is listed can be found, what has no document is gone or
  was reported, and nobody is answered from another tenant's documents.
- **Registries.** Caps, numbers and datasets hold up to what rivals do in
  between; one fault strands no webhook whose secret nobody got; a reader of the
  trail, page by page, misses nothing.
- **Start-up.** Migrations are run and recorded in order, and run again only
  because of a rival or a failure; contexts agree on their stores; an instance with
  sound settings comes up.

## 2. The modules

| Module | Role |
|---|---|
| `WebhookDelivery` | abstract specification: what the queue promises for one delivery |
| `WebhookOutbox` | dispatcher, queue, leases, workers, log, operator |
| `MCWebhookOutbox` | symmetry sets for TLC; one `.cfg` per question |
| `WebhookOutboxProofs` | types, schedule, cause of abandonment, truth of "delivered"; exclusive claims, no needless duplicate, refinement of `WebhookDelivery` |
| `BudgetAlerts` | claims, memos, backlogs, announcing threads, requests and changes of the ceiling, over several processes |
| `MCBudgetAlerts` | symmetry sets for TLC; one `.cfg` per question |
| `MultiAgentRun` | the roles' collaboration and its bounds, the stored run, checkpoints and decisions, the handlers that start, stream and decide |
| `RunLifecycle` | abstract specification: what the platform promises of one multi-agent run |
| `MCMultiAgentRun` | symmetry sets and pairs of bounds for TLC; one `.cfg` per question |
| `MultiAgentRunProofs` | bounds, outcomes, the stored run, its announcements, termination; refinement of `RunLifecycle` |
| `AgentRun` | the single agent's loop, its conversation, its trace, the blocking and the streaming handler |
| `ConversationStore` | abstract specification: what a conversation store promises, each operation taken whole |
| `AgentRunProofs` | numbering of messages, refinement of `ConversationStore`, the loop and its trace, terminal frames, answers stored |
| `Spending` | what a spend is: ceilings, usage records and their sums, the requests measured by them, and what the budget promises of these |
| `ModelCalls` | how it goes on: rate limiter, budget guard, model calls with their waits, metering |
| `SpendingProofs` | of `BudgetAlerts`: types, why a claim stands that no crossing justifies, how often a crossing is told; of `ModelCalls`: bounded overshoot, refusals for cause |
| `Identity` | organisations, rosters, teams, keys, tokens, row locks, the audit trail of all these |
| `IdentityStore` | abstract specification: what an identity store promises, each operation taken whole |
| `IdentityProofs` | types, the trail, owners, team members, the order of row locks, refinement of `IdentityStore` |
| `Registries` | webhooks and connections with their audit events, prompt versions, datasets and evaluations, pages of the trail |
| `RegistriesProofs` | the cap, stranded webhooks, version numbers, evaluations, readers of the trail |
| `Ingestion` | uploads, deletions and queries over documents and vectors |
| `IngestionProofs` | types, what is listed, what is orphaned, what a query finds and whose |
| `Startup` | settings, migrations, the contexts and their stores, restarts |
| `StartupProofs` | the schema and how often a script runs, contexts over one store, one secret |
| `MCAgentRun`, `MCModelCalls`, `MCIdentity`, `MCRegistries`, `MCIngestion`, `MCStartup` | values and symmetry sets for TLC |

### `WebhookOutbox`

`row` is the table, `log` the delivery log, `subs` the subscriptions. A
`Worker` is a delivery thread: one per process, or two in one process when
`stop()` gave up after five seconds on a thread that `start()` then replaced.
Each has a program counter that stops at every point where `worker.py` or
`emitter.py` calls a store or the network:

| State | The thread is | Actions out of it |
|---|---|---|
| `idle` | between passes | `ClaimDue` (`claim_due`, one statement) |
| `pass` | about to turn to the next claimed row | `LookUp` (subscription read again), `AttemptFails` (lookup refused), `FinishPass` (prune) |
| `post` | about to send | `Post` (payload, one HTTP attempt) |
| `answered` | holding an answer | `RecordDelivery` (delivery log; its failure is ignored) |
| `settle` | about to write the outcome | `MarkDelivered`, `Abandon`, `Reschedule`, `AttemptFails` (settle refused) |
| `down` | dead | `Start` |

`Crash` leads to `down` from anywhere and leaves the leases behind.
`LookUpSubscribers` and `Enqueue` are the dispatcher, which inserts each row by
itself; `SetActive`, `DeleteSubscription` and `Requeue` are the operator.
Settles are updates by id alone, as in the code: a worker whose lease ran out
writes over whatever the row has become. The stores are those in PostgreSQL,
where deleting a subscription deletes its rows and the log is keyed by the row's
id. The outbox in memory is not modelled: its `claim_due` and its settles
(`outbox.py:222-283`) read a row and write a copy of it back without a lock, so
that between two threads of a process it promises none of this.

Time is a counter of true time. Each process reads a clock within `Skew` of it,
and `now[w]` is the moment the pass began, which the code passes down to the
rows of the batch. `Tick` waits for a worker inside an attempt, so an attempt
takes at most `AttemptTicks` and a pass `BatchSize * AttemptTicks`: the model's
form of the request timeout. Left out: payload contents, signatures,
listings, `send_test` (it touches no row of the queue), subscriptions created
after the start (indistinguishable from ones nothing has been announced to).

### `BudgetAlerts`

One organisation, since no operation touches two. `claims` is the table
`budget_notifications`, `limit` the row of `spend_budgets`, `spent` what the
usage records of each month add up to (`Meter` adds to it; nothing removes
any). Each `Process` has what the code keeps in memory: `cache` (the guard's
spend, one month at a time), `memo` (the keys settled; the attempt counts the
code also keeps change nothing, the cooldown being zero), `backlog` and the one
announcing thread. A request, `<<process, slot>>`, is a handler between two
store calls:

| `step` | The request is about to | Actions out of it |
|---|---|---|
| `idle` | begin | `AskForRun` (`enforce_budget`: period and ceiling read), `EditBudget` (the one statement of PUT or DELETE) |
| `budget` | invalidate the cache and read the standing | `Remeasure`, `AuditFails` (PUT with `AUDIT_REQUIRED`) |
| `spend` | read the spend | `ReadSpend` (cached, computed, or the zero that is no figure) |
| `decide` | act on it | `Decide` (dispatch what is pending, or drop it), `Reconcile` (store; or refused) |
| `forget` | purge the memo | `Forget` |

The thread goes `idle` -> `Begin` (pending again, ceiling read again) -> `claim`
-> `Claim` -> `enqueue` -> `Enqueue` -> `settle` or `release`. A failed fan-out
may have reached some subscribers; `told` counts the complete ones. A budget
read that raises in the handler of a change has the outcome of a refused
reconciliation, and in a run's request none at all. Left out: the keyless
stores (one process, no deaths: a special case), the 402 refusal and the
budget's action (they read the same standing and change nothing), `drain`.

A claim of this month that no crossing justifies silences the crossing to come.
`StrayClaimHasCause` does not deny that there are such claims; it says that, while no
change is under way, one stands for two causes only: it was taken after the ceiling it
was measured against had changed, or a change was not reconciled (its process died,
its audit write or the store was refused, the spend was unknown). `adrift`, history,
holds the claims with such a cause, and a reconciliation against the present ceiling
empties it of this month's. That the first cause exists at all is against what
the code's comments say (section 5), and so no property denies it. None is stated of
the memo: what holds of it excludes the case that matters, another process's
reconciliation.

### `MultiAgentRun`

A `Request` is one call of `POST /multi-agent/runs` (`start`), of its `/stream`
or of its `/approval`; each runs in a thread pool, a stream as far as its client
reads. `board` is the `Blackboard_State` of the call, reduced to what routing
looks at: the two counters, the critic's last word, the number of drafts written
(the draft itself is that number), reason, output and pending checkpoint.
`record` is `multi_agent_runs`, `checkpoint` the `Checkpoint_Store` of each
process, `announced` the webhooks sent, `told` the reason a start or a decision
read when it was answered and announces later.

| `pc` | The call is about to | Actions out of it |
|---|---|---|
| `free` | come in | `StartRun`, `OpenStream`, `Submit` (checkpoint loaded, or 409) |
| `acting` | run the role at `phase` | `Contribute`, `Write`, `Review` (and its routing), `Fail` |
| `gate` | pass a checkpoint (streams) | `Proceed` (automatic policy), `Pause` (human policy) |
| `ending` | give the outcome | `FinalizeGraph` (terminal node), `Complete` (last frame of a stream) |
| `storing` | write the stored run | `StoreOutcome`, `Fail` |
| `telling` | announce | `Tell` |
| `deciding`, `recording`, `resolving` | discard the checkpoint, record the decision, end or read back the run | `Discard`, `RecordDecision`, `Resolve`, `Fail` |
| `tripped` | be refused by the graph's recursion limit | none: `BackstopNeverTrips`, a theorem |
| `over` | nothing | `Crash` of a process leads here too, and empties its checkpoints |

`Leave` is the client that stops reading. The graph of a start and the loop of a
stream are two implementations of one collaboration; they share `next_after_review`
and `run_role_step`, so one set of actions stands for both, and `job.kind` says
where they part (the recursion limit, the gates, the end). LangGraph's counting
of nodes against `recursion_limit` is external and modelled as the code relies
on it. An edit replaces a plan or a draft in a copy that its handler drops, so
contents are left out; so are guardrails, the budget's refusal and the trace,
whose writes appear where raising changes the control (`Fail`, `Pause`,
`Discard`). `before_finalize` under the human policy and a rejection at the
revision bound are in the model and not in its reachable states: the only
policies the build offers pause at every checkpoint or at none.

`resumes` in `job` is history: the stream was opened after an approval.

### `AgentRun`

A `Request` is one call of `POST /agent/run` or of its stream. A message is
appended in two steps, as in the code: `ReadPosition` (the last position plus
one, nothing locked) and `InsertMessage` (the unique key refuses the second of
two; the refused call fails). Between the user's message and the assistant's the
run goes through `reason`, `act`, `observe` and one of the two final nodes; `act`
contains every failure of a tool as an observation. `trace` holds the entries of
each run. `frames` is what
a stream sent; `Leave` is its client, `Fail` an exception nothing contains, and
`Complete` / `CompleteFails` the export and webhook after the last frame. A
stream has no input guardrail, so `ApplyInputGuardrail` is a step of the blocking
call alone. Left out: the context variable that tells tools and trace the tenant
(published by `api/deps.py:331` in the request's own task, whose context every thread
gets, and again by `sse.py:171` before each frame of a stream), what is
said, citations, output flags (attached without
blocking), and agent memory, which is composed and called by nothing.

`ConversationStore` takes each operation whole: an appended message gets the number of
those before it. Neither store makes it so; that the one in PostgreSQL, which reads
the position and inserts while other calls do the same, has the effect of it is
the refinement. The mapping reads a conversation as that of the organisation in its
row, and a transaction as having happened when it commits. The store in memory
(`conversation/store.py:190-207`), which takes no lock, is what one caller at a time
sees of the specification and is not modelled further. The two stores differ in one
thing: an append to another organisation's id opens a second conversation of that id
in memory, which the specification therefore allows, and is dropped in PostgreSQL,
where it maps to a stutter.

### `ModelCalls`

A `Caller` is a run, a look at the budget or a change of the ceiling, at one
`Server`; `Spending` declares them, so that its names are not those of
`BudgetAlerts` and one module of proofs can speak of both. A request is
counted by the limiter (`Counted`, atomic in Redis), then the guard reads ceiling
and spend (`ReadBudget`, `SpendFromCache` or `MeasureSpend`, `FailOpen` when the
store refuses), then `Remember` writes the cache back and the run is refused or
goes on to `Generate`. A provider's 429 leads to `RateLimited`, a sleep of the
time asked for plus a margin, and `Wake`. `Meter` writes a record stamped before
it commits, so a sum taken in between misses it; `MeterFails` loses it. The
`standing` of a run is kept to the end as history. Process clocks agree: the
cache compares times of one process only, and a period is a month. No property is
about the rate limiter: its one command in Redis has no hazard of its own, and it
is here because it decides which requests go on.

### `Identity`

A `Request` is one call of the organisation and sign-in routes by a principal
resolved when it arrives: from a token, whose role is the one it was signed
with, or from a key. Its steps are its transactions. `set_role` and
`remove_member` lock the rows of owners and target in the order of user ids, one
`LockRow` each; `add_team_member` shares the membership row. The
store is the one in PostgreSQL. `IdentityStore` has the same tables, each operation
in one step that reads the roster as it is, which is what the keyless store, without
locks, does for one caller at a time. A token
never expires in the model; expiry only takes callers away. `trail` has the
events of each organisation; `RecordFails` is a log that refuses, which under
`AuditRequired` turns a committed change into a 503.

### `Registries`

One organisation, since every statement filters by it. A `Request` is one call of
a kind in `Offered` and stands for the row it creates; `Call` leaves the target of
a change or deletion open among the rows visible. `FirstStep` says where each
handler begins; after that one action per statement. `Record` commits an event
stamped earlier (`BuildEvent`), and a creation whose event is refused deletes its
row again (`Rollback`), which may fail like any statement, or not be reached.
`Stranded` are the webhooks that then stand for good although nobody got their
secret. `ReadPage` reads one page below a cursor, `Below` being the
comparison of time and id in the query. `rivals` is history: the calls between
count and create beside each creation.

### `Ingestion`

A `Request` is an upload, a deletion or a query; an upload's document has its
request's name. Uploads go `find` (duplicates by hash), extraction with its
timeout, embedding, one `Upsert` per chunk, `Persist` of the records, and
`Rollback` of the vectors when either fails. A deletion removes records, then
vectors; a query matches vectors, reads texts, and has the model answer or says
that it found nothing. `VectorStore` chooses Chroma, whose vectors live in the
process (`Restart` empties them), or pgvector, whose rows have foreign keys to
chunks and documents. The queries of both filter by tenant after taking the
nearest, or before, as each store does.

### `Startup`

`pc` walks through `lifespan`: settings, tracking table, migrations one at a time,
then five contexts, then serving. `Boots` is a step that refuses and exits or goes
on; `Restart` is the runtime's. A migration is two steps, `RunScript` and `Record`.
The code means them as one transaction, but sends the script on the driver's own
connection before SQLAlchemy's adapter has sent `BEGIN`, so it commits by itself
(section 5). A script is run again after a crash or by a rival; `RunScript` relies on
every statement in `src/migrations/` creating only what is not there, which makes
that harmless and is read in them, not modelled. Two instances that create the same
at one moment may collide all the same (`Collides`, `TableCollides`), and a record
that another instance has made is refused by its key. `MigrationFails` has both
outcomes of a lost commit. `ctx` holds, per instance, the
store each context was given, named by who built it when in memory, and the one
set of tables when persistent; `Write` uses the writing contexts' stores, and the
property reads through the reading ones. `own` is history. Settings that can stop
the boot are one `broken` context; everything else they choose is left out.

## 3. The runs

| Run | Question | Answer |
|---|---|---|
| `outbox_shared` | two instances over one table, one of which may die at any step, a pass shorter than the lease | claims exclusive, duplicates only after a lost settle, due rows attempted, `WebhookDelivery` implemented |
| `outbox_overrun` | two threads over one table, a pass longer than its lease: both on one row, settling it over each other | schedule and cause of abandonment still hold |
| `alerts_shared` | two mortal instances, one threshold, one change of the ceiling whose audit write may be refused, one failed fan-out, the turn of a month | announced once but for cause; a claim that no crossing justifies has one of two causes |
| `agents_shared` | three calls about one run, two instances, one death, both policies, three pairs of bounds | outcomes as critic and bounds say; `RunLifecycle` implemented: the stored one final and the only one announced; every step of a call brings its end nearer |
| `agents_twice` | four calls: what the handler says of a second decision | violated; see Findings |
| `agentrun_shared` | two calls, blocking or streamed, of two tenants on one conversation | `ConversationStore` implemented, one terminal frame, answers stored, traces explained; runs end |
| `modelcalls_shared` | two requests over two months, one change of the ceiling or two runs, a provider that keeps answering 429 | admission and refusal within the cache's window; model calls end |
| `identity_shared` | two calls of any kind, by any principal, on any of five rosters | an owner stays, `IdentityStore` implemented, trails tell what was done; no circle of locks |
| `registries_shared` | three calls of ten kinds, two failures or deaths | the cap overrun by rivals only, no webhook stranded by one fault, versions, evaluations and pages as they should be |
| `ingestion_chroma` | four calls with the same bytes by two tenants, two failures, a restart | listed is searchable, orphans and empty answers for cause, tenants apart |
| `ingestion_pgvector` | one upload in the production profile, nothing failing | violated; see Findings |
| `startup_shared` | two instances of two images, every deployment, a fault | the schema whole, contexts agree, tokens carry over, sound instances serve |

Bounds. `outbox_*`: `Horizon`, where time stops, fits a whole schedule of attempts
and an expired lease. Two workers suffice: every property relates at most two
claims of one row. `MaxAttempts` is 2: the last attempt, and one before it. Larger
batches, clocks that disagree and other schedules are left to the theorems, which
hold for every `BatchSize` and `Skew`. Workers are interchangeable, hence the
symmetry set of `outbox_overrun`; runs with a liveness property use none.

`alerts_shared`: spend takes the levels 0 and 4 against ceilings 5 and 10, so one
raise un-crosses the 80% threshold. Two processes suffice for two claims to
compete and for a memo to miss a reconciliation. `MaxQueued` is 32 in the code,
here 1, so the backlog is often full. The repeats a key may have are bounded by
the causes counted (`edits`, `failures`), so a bug needs one more repeat than
the causes a run allows.

`agents_*`: one run, since no call touches two and ids are fresh. Three calls are
the fewest for what the properties relate: a start, a stream that pauses beside
it, a decision on that pause. The pairs of bounds are `<<1, 1>>`, where the first
review ends the run, `<<2, 2>>`, where rounds are tighter, and `<<3, 1>>`, where
revisions are.

`agentrun_shared`: two calls make every race on a conversation; a limit of 2 has a
cycle below the bound and one at it; configured limits include ones that are
rejected. `modelcalls_shared`: a cache of two units in a month of three, so an
entry outlives its month; one process, because what another process admits is, to
this one, a record it has not measured yet, as the other request's here.
`identity_shared`: two calls make every pair of transactions; two organisations,
one of them shared, so that calls cross. `registries_shared`: a cap of one, pages
of one, two items, two moments: each boundary is reached by three calls.
`ingestion_chroma`: one content of two chunks and `top_k` of one, so neighbours crowd
each other out; the four calls are an upload, its rival, a deletion and a query.
`startup_shared`: two migrations and images with one or both; one record and one
token are enough to be missed.

Deadlock is checked where the system cannot stop: workers, announcing threads and
instances loop. The other runs end when their calls are over.

Fairness. `WebhookOutbox!FairSpec` asks that time passes and that a thread that is
up and can step does so: `run_once` is called in a loop that contains every
exception (`worker.py:115-127`); nothing is asked of endpoints, operators or a
process that may die. `AgentRun` and `ModelCalls` ask weak fairness of each call's
own steps: it has a thread, which sleeps only for the time it computed. No client,
tool or provider has to do anything: a tool and a model call may always fail, and
both have timeouts. `Startup` asks it of each boot: the process runs, and the
container runtime restarts one that exited (`restart: unless-stopped`).
`MultiAgentRun` states its liveness without fairness: `CallsWindDown` says that each
step of a call lowers a natural number, so a call whose thread is scheduled, and
whose client reads, ends.

## 4. The proofs

Every safety invariant and action property the passing runs check is a theorem, for
every value of the constants that the assumption of its module allows
(`OutboxAssumption`, `AlertsAssumption` and so on: types, and bounds of at least
one where the code ensures them). The
bounds that TLC needs on time, failures and restarts are constants like the
others, so a theorem holds for all of them. Each proof has one inductive
invariant or a few that build on each other, one lemma for each step that
disturbs them, and a frame lemma (`Apart`, `Moves`) for what one call's step
leaves to the others; TLC checked each invariant on the module's run before it
was proved.

**`WebhookOutboxProofs`**, first part: any settings. The inductive invariant is
`TypeOK` with `JobInv` (a worker past the lookup works on a row of its batch)
for `TypeCorrect`, and `ScheduleInv` for the rest: what a worker remembers of a
row it claimed is itself within the schedule, so that whatever it writes over the
row later keeps it there. That is what makes unconditional settles harmless to
the bound on attempts, and it is proved with passes of any length. A worker that
finds its subscription deleted abandons the row early, but `GoneInv` says that the
row went with the subscription, so the update meets nothing: an abandoned row has
used its whole schedule (`NothingGivenUpEarly`).

Its second part adds the hypothesis `LeaseCoversPass`:
`BatchSize * AttemptTicks + 2 * Skew < Lease`. `LeaseInv` says that a pass in
progress began at most `PassTicks` ago (`PassInv`), that every row a worker
still holds is pending with a lease that its process took in this pass
(`HeldInv`), that claims are disjoint (`OneClaim`), that what the dispatcher
has yet to enqueue is unborn (`FanInv`), and that an acknowledged pending row
is either about to be settled by its holder or its settle was lost (`AckInv`).
From it follow `ClaimsAreExclusive`, `NoNeedlessDuplicate` and
`QueueKeepsPromise`: every step of the queue is a step or a stutter of
`WebhookDelivery`.

The hypothesis is not idle. The default settings (batch 20, timeout 4 s, lease
120 s) satisfy it if an attempt takes little more than its timeout; the largest
values the settings accept (batch 200, timeout 15 s) do not, and then a row may
be claimed while another instance still works on it, although the comment on
`LEASE_SECONDS` says "never" (`outbox.py:48-50`): it compares the lease with one
attempt, and the lease is taken for the batch.

**`SpendingProofs`**, first part: `BudgetAlerts`, any number of processes, requests, thresholds, months,
changes and failures, and every ceiling. `ShapeInv` says where each request and
thread may be and what it then carries. `MeasureInv` says that every figure
anyone holds, in a cache, a request, a backlog or a thread, was the true sum at
some earlier time: since spend only grows, a threshold it crossed then is
crossed now, under the same ceiling. `StandInv` is the induction for
`StrayClaimsHaveCause`: a claim of this month is crossed, or has one of the two
causes, or some change is on its way that will look at it. `CountInv` is the bound
behind `RepeatsOnlyForCause`. For each key, the times it was told, the threads
about to fan it out or to give its claim back, and the changes under way,
together, are at most one if it is claimed, plus the changes and failures so
far. A claim moves one unit from the right to a thread, a fan-out from the thread
to the count, and only a counted change or failure makes room for another. The
sets counted are proved finite, so that no bound on the processes is assumed.

Its second part is `ModelCalls`, whose behaviour is an instance and whose properties,
those of `Spending`, are the ones the run checks. What a run is admitted or refused by is a sum over records, taken at one moment and used
at another. `LedgerInv` says that records are well formed, committed no later than
now and with finite sums; `CacheInv` and `RequestInv`, that every figure in a cache
or a standing is between two sums of its own period: at least that of the records
committed before the moment it was measured, since those were there to be read,
and at most that of the period as it is now, since records are only added. With the
test of the cache's age the lower bound is `OvershootIsBounded`, with the test of
its period the upper one is `RefusalsHaveCause`. That a larger set of records costs
no less is not an induction here: `Total` counts the units of all records, pairs of
a record and a number up to its cost, so it is a fact about subsets of finite sets.

**`MultiAgentRunProofs`**: every pipeline of three roles or more, every pair of
bounds of at least one (as `_resolve_bound` ensures), and any number of runs,
calls, instances and deaths. The invariant `IInv` has four parts that no property states.
`LocalInv` ties the counters of a blackboard to the drafts written: before the
writer, as many drafts as rounds and one revision less; before the critic, one
draft ahead and as many revisions as rounds; and the nodes entered are twice the
rounds and the roles before them. From it follow the bounds, the explanation
of the outcome (the draft that is last is number `min(rounds, revisions + 1)`)
and that the recursion limit is never met. `CheckInv` says that a checkpoint is
of a run that was only planned, because under the human policy no stream gets
further: that, and bounds of at least one, is why no rejection ends a run, and so
why `Resolve` never writes one. `RunInv` says that a run has one start, which
finds it running: with it the unconditional `terminate` never meets a terminated
row. `ToldInv` says that what is read for a webhook is still what is stored when
it is sent. `RunsKeepLifecycle` is the refinement: the mapping forgets calls,
boards and checkpoints, and every step is a creation, an end, an announcement or a
stutter. Beyond `IInv` it needs only that a call that announced is over
(`SaidInv`). `CollaborationsEnd` is the termination measure, by one case for each
action.

**`AgentRunProofs`**: any number of calls, tenants and conversations, any limit
of the loop. `Numbered` adds to `PositionsAgree` that a position read and not yet
used was at most the next one; as messages are only added it still is, so the
unique key, which is all that an insert tests, is enough against a double, and
nothing has to be locked against a gap. Hence an insert that is not refused uses
the number of messages there are (`InsertComesNext`), and
`AppendsKeepConversations`: it is a whole append of `ConversationStore`, the row of
a new conversation a whole creation, every other step a stutter. `LoopInv` fixes at each node how many
nodes were entered and how many entries traced, as a function of the
iterations counted: `OutcomeAlwaysMatchesTrace` is read off it.
`FrameInv` ties frames and answers to the program counter
(`AlwaysOneTerminalFrame`), and `StoredInv` says from which step on question and
answer are there, unless the conversation is another tenant's
(`AnswerIsAlwaysStored`).

**`IdentityProofs`**: any users, organisations, teams and keys, any number of
calls. `Trailed` says where a call must be when its events are in the trail and
which are there when it is answered. `PeopleInv` proves the other three
together, since they need each other: `LockInv` says that a locked row is as it
was read, that two calls hold one row only to share it, and that rows are locked
in the order of their ids; so the owners counted under lock are the owners there
are when the row is changed (`RosterInv`), and a member who enters a team cannot
leave the organisation in between (`TeamInv`). `LockersAreNeverStuck` needs the
order alone: among finitely many waiting calls the one that waits for the
highest row waits for one that does not wait. `RowLocksKeepStore` is the
refinement: every commit is the operation of `IdentityStore` decided on the tables
as they are then. What needs the locks is that a decision made on what was read is
the one the present tables call for: for a change of roster
`DecidesOnTheRoster`, from `LockInv`; for a team's new member that the shared row is
still there. `IdentityStore` has no refusals, because they would not refine: one
rests on the rows there were when the lock was asked for, and an owner added since
does not count for it.

**`RegistriesProofs`**: any number of calls, any cap, page and dataset size.
`CapInv` counts the webhooks there are with those a call may still create
(`Expected`): they exceed the cap by fewer than the most calls that were ever
between count and create at once. `TollInv` charges faults to webhooks: one to each
that is in its rollback or was left by a call that is over without handing it over,
a second to each of those whose process did not die, since its deletion failed too.
`VersionInv` is the same argument as
`Numbered`. `EvaluationInv` says that an answered dataset has all its items and
one under way its first few. `ReadInv` is about the reader's cursor: what is
read is not below it, and what was there at the start and is unread is; that
rests on pages taken in the order of time and id, and on events never being
changed.

**`IngestionProofs`**: any tenants, contents and sizes, any number of calls,
faults and restarts, every `top_k` the code accepts, both stores. `StoreInv` says
which vectors an upload has written at each step, and that an upload in `rollback`
without a fault has none left: hence two faults behind every orphan of an
upload. `ToldInv` says that what a query has matched is of its organisation and
is not empty when something was there to find. With pgvector the invariant has
no vectors and no documents at all, which is the finding of `ingestion_pgvector`
for every instance; these four theorems say something about Chroma only.

**`StartupProofs`**: any number of instances and migrations, all settings.
`SchemaInv` says that what is recorded is a prefix of the migrations, what an
instance knows of it a shorter prefix, and that an instance past its migrations
knows all of its image's; so the migration it turns to is the one after those it
knows, recorded by another meanwhile or the next to be. `RunInv` bounds how often a script runs: a migration
not yet recorded has run once for each failure and for each instance about to
record it; once it is recorded, only instances that do not know it yet may run it
again. `ContextInv` names the store each context has been given
once it was built and puts every record where its instance keeps that kind.

Only model-checked: the liveness properties (`DueIsAttempted`, `RunEnds`,
`ModelCallEnds`, `BootsInTheEnd`), which are out of the prover's reach.

## 5. Findings

Shown by a run:

- `ingestion_pgvector`: in the production profile an upload of anything fails.
  Each vector is inserted in a transaction of its own, before the rows its
  foreign keys refer to, so the first insert is refused and the upload rolled
  back, although no store failed (`ingestion/service.py:163-183`,
  `migrations/0002_create_core_tables.sql:22-34`).
- `agents_twice`: two decisions on one pause may both be accepted and recorded;
  the handler's documentation has the second refused with 409.

Read in the code while modelling it, and not turned into runs:

- Webhooks. In PostgreSQL an event delivered on a retry stays "failed" in the
  delivery log, because every attempt is inserted under the same key
  (`docs/WEBHOOKS.md:333` has one entry per attempt); the in-memory log has one
  row per attempt. The delay before a retry counts from the start of the pass,
  not from the failure (`worker.py:215`). The outbox in memory claims and settles without a lock. A
  creation that is taken back because its audit event was refused is answered
  with `applied: True` all the same (`api/errors.py:175-196`).
- Budgets. The ceiling is read again before the claim and not with it
  (`budget_alerts.py:412, 426`): an owner who raises it, and whose reconciliation
  runs, between the two is followed by a warning that cites the old ceiling and by
  a claim of the threshold the raise un-crossed, which silences the genuine crossing
  until the next change or the next month, though nothing failed; the comments at
  316-318 and 413-415 take the second look to prevent both. A reconciliation clears
  the memo of its own process only (495, "The memo mirrors the store"): another
  process that had announced the threshold stays silent about its next crossing,
  which is told by an instance without the key, if there is one. Both are behaviours of
  `BudgetAlerts` with one change of the ceiling and no failure. Nothing gives back a claim whose process died before the fan-out;
  crossings of two ceilings share one idempotency key; `docs/WEBHOOKS.md:223` has
  both thresholds fire at a ceiling of zero, the code only the higher.
  Evaluations call the model without passing `enforce_budget`.
  `Budget_Guard.status` says that it never raises; reading the ceiling may.
- Multi-agent runs. An approved run is not continued: `submit` returns the
  snapshot with the decision applied and its handler drops it; the stream that
  `docs/decisions.md:370,392` has resume the run plans afresh and pauses again, so
  under the human policy no stream ever drafts (`HumanGateHolds`, a theorem). A
  run started by `POST /multi-agent/runs` never pauses, whatever the policy (the
  comment at `api/routers/multi_agent.py:259` says it does); a start that fails
  leaves its run "running" for ever, and no code sets "awaiting_approval"; the
  webhook after a stream tells what an earlier start stored, although the comment
  (`multi_agent.py:326`) takes it for the stream's own; a checkpoint is kept in one
  process and lost with it, the durable `save_checkpoint` being called by nothing
  (`config/container.py:804` says it records every one); a trace entry that raises
  after the snapshot leaves a checkpoint that can be decided behind an error
  frame; a slow decision may discard the checkpoint of a later pause.
- Agent runs. A message to another tenant's conversation is silently not stored,
  and the run answered; a stream whose client leaves after the last frame skips
  export and webhook; a stream has no input guardrail.
- Identity. An organisation founded with an API key has no owner
  (`api/routers/orgs.py:147`), which `enterprise/identity.py:85-87` says cannot be.
- Ingestion. In the local profile with a database, a restart empties Chroma and
  keeps the documents: every upload of the same bytes is answered "duplicate" and
  nothing is found. An extraction that outlives its timeout is waited for all the
  same when its executor shuts down (`ingestion/service.py:193-205`).
- Audit trail. An event stamped before and committed after a reader's page is
  missed by that reader; only events of calls under way at the time are.
- Start-up. A migration's script commits before its record, and may run once more for
  each instance that starts beside it. `db/migrations.py:22-23` and 111-112 say that
  both commit atomically; the script goes to `driver_connection` as the first
  thing in the block, and SQLAlchemy 2.0.36's asyncpg adapter sends `BEGIN` only with
  the first statement of its own. The scripts bear it, being idempotent.
  `AUTH_ENABLED` is read by the guard of `load_settings` and a log line
  only; in production with it off and no secret, settings load and the database is
  migrated before `build_auth_service` refuses, whose comment says `load_settings`
  guards this path. The embedding dimension is substituted into a migration when it
  is applied and never compared afterwards.
- Connectors. A call that timed out goes on in its abandoned thread
  (`integrations/base.py:167`): what was reported as failed may still happen.

## 6. Not modelled, and what is left

Not modelled: agent memory (composed, called by nothing); the connectors' calls,
tools and webhook transport (one external request each, whose outcomes the models
that use them have); guardrails, analytics reports, cost arithmetic, retrieval's
numerics and the scores of evaluations (pure functions, or reads); trace export
(failures swallowed, nothing depends on it); the context variable that carries the
tenant; the stores in memory of the keyless default other than Chroma (tests and
local starts of one process; those of prompts, evaluations, conversations,
identities and the outbox take no lock, so that threads of that process may
interleave within an operation); routers that only read; the browser client.

Left to do: an abstract specification of an announcement made once, over several
processes, of which `RepeatedOnlyForCause` counts the repeats today.
