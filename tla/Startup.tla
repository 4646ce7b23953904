------------------------------ MODULE Startup ------------------------------
(***************************************************************************)
(* How an instance of the application comes up and goes down: main.py's    *)
(* lifespan, the settings (config/settings.py), the migrations             *)
(* (db/migrations.py) and the contexts it composes (config/container.py).  *)
(*                                                                         *)
(* Several instances start by themselves against one database; the         *)
(* container runtime starts a process that exited again. What a request    *)
(* writes through one context is read through others, which works only if  *)
(* they were given the same stores.                                        *)
(***************************************************************************)
EXTENDS Integers, FiniteSets

CONSTANTS
    Instance,   \* instances of one deployment
    Last,       \* migrations of its newest image
    Broken,     \* where the settings may be wrong
    MaxWrites,  \* bound: records written
    MaxTokens,  \* bound: tokens issued
    MaxFaults,  \* bound: failures of the database, and crashes
    NULL

Contexts == {"settings", "app", "agent", "observability"}

ASSUME StartupAssumption ==
    /\ IsFiniteSet(Instance) /\ Last \in Nat \ {0} /\ Broken \subseteq Contexts
    /\ {MaxWrites, MaxTokens, MaxFaults} \subseteq Nat /\ NULL \notin Instance

VARIABLES
    settings,  \* the environment of the deployment, the same for every instance
    version,   \* the migrations each instance's image has
    recorded,  \* schema_migrations
    ran,       \* how often the script of each migration was run to its end
    pc,        \* how far each instance is
    already,   \* what it found recorded
    ctx,       \* the stores its contexts were given, and its token secret
    held,      \* what is in the stores: [store, kind, n]
    own,       \* what each instance wrote since it started (history)
    tokens,    \* the secrets of the tokens issued
    faults

vars == <<settings, version, recorded, ran, pc, already, ctx, held, own, tokens, faults>>
database == <<recorded, ran>>
data     == <<held, own, tokens>>

Migration == 1..Last
Kinds     == {"usage", "trace"}
Fields    == {"usage", "report", "trace", "roles", "exported", "secret"}
Steps     == {"off", "down", "settings", "tracking", "migrations", "recording", "app",
              "agent", "multi_agent", "enterprise", "observability", "serving", "stopping"}
Booting   == Steps \ {"off", "down", "serving", "stopping"}
Unbuilt   == [f \in Fields |-> NULL]

TypeOK ==
    /\ version \in [Instance -> Migration] /\ recorded \subseteq Migration
    /\ ran \in [Migration -> Nat] /\ pc \in [Instance -> Steps]
    /\ already \in [Instance -> SUBSET Migration]
    /\ \A i \in Instance : DOMAIN ctx[i] = Fields /\ \A r \in own[i] : r[1] \in Kinds
    /\ \A h \in held : h.kind \in Kinds /\ h.n \in 1..MaxWrites
    /\ Cardinality(tokens) <= MaxTokens /\ faults \in 0..MaxFaults

Init ==
    /\ settings \in [production : BOOLEAN, use_database : BOOLEAN, auth_enabled : BOOLEAN,
                     jwt_secret : BOOLEAN, broken : Broken \cup {"nothing"}]
    /\ version = [i \in Instance |-> 1]
    /\ recorded = {} /\ ran = [m \in Migration |-> 0]
    /\ pc = [i \in Instance |-> "off"] /\ already = [i \in Instance |-> {}]
    /\ ctx = [i \in Instance |-> Unbuilt]
    /\ held = {} /\ own = [i \in Instance |-> {}] /\ tokens = {} /\ faults = 0

Goto(i, step) == pc' = [pc EXCEPT ![i] = step]
Fault == faults < MaxFaults /\ faults' = faults + 1

\* The process ends, and what it kept in memory with it.
Exit(i, step) ==
    /\ Goto(i, step)
    /\ ctx' = [ctx EXCEPT ![i] = Unbuilt]
    /\ held' = {h \in held : h.store[1] # i}
    /\ own' = [own EXCEPT ![i] = {}] /\ already' = [already EXCEPT ![i] = {}]

-----------------------------------------------------------------------------
(* Starting.                                                               *)

\* An image is deployed, also an older one than before, or a process that
\* exited is started again (restart: unless-stopped).
Deploy(i, v) ==
    /\ pc[i] = "off"
    /\ version' = [version EXCEPT ![i] = v]
    /\ Goto(i, "settings")
    /\ UNCHANGED <<settings, database, already, ctx, data, faults>>

Restart(i) ==
    /\ pc[i] = "down" /\ Goto(i, "settings")
    /\ UNCHANGED <<settings, version, database, already, ctx, data, faults>>

\* A step of the boot: it goes on to the next, or what it is given is refused
\* and the process exits.
Boots(i, at, refused, next) ==
    /\ pc[i] = at
    /\ \/ refused /\ Exit(i, "down")
       \/ ~ refused /\ Goto(i, next) /\ UNCHANGED <<already, held, own>>
    /\ UNCHANGED <<settings, version, database, tokens, faults>>

\* A setting that is missing or out of range, no such preset, or no secret in
\* production.
SettingsRefused ==
    \/ settings.broken = "settings"
    \/ settings.production /\ settings.auth_enabled /\ ~ settings.jwt_secret

LoadSettings(i) ==
    /\ Boots(i, "settings", SettingsRefused, "tracking")
    /\ ctx' = [ctx EXCEPT ![i] = Unbuilt]

\* Bug: what is recorded already is applied again.
ReadNothing(i) ==
    /\ pc[i] = "tracking"
    /\ Goto(i, "migrations")
    /\ UNCHANGED <<settings, version, database, already, ctx, data, faults>>

\* Another instance creates the tracking table at this moment, or just did.
TableCollides(i) ==
    recorded = {} /\ \E j \in Instance \ {i} : pc[j] \in {"migrations", "recording"}

\* The tracking table is created if it is missing and read once.
ReadApplied(i) ==
    /\ pc[i] = "tracking"
    /\ \/ /\ already' = [already EXCEPT ![i] = recorded]
          /\ Goto(i, "migrations") /\ UNCHANGED <<ctx, held, own>>
       \/ TableCollides(i) /\ Exit(i, "down")
    /\ UNCHANGED <<settings, version, database, tokens, faults>>

Pending(i) == 1..version[i] \ already[i]

\* Bug: the files are not sorted.
LastOf(i) == CHOOSE m \in Pending(i) : \A n \in Pending(i) : n <= m
NextOf(i) == CHOOSE m \in Pending(i) : \A n \in Pending(i) : m <= n

\* Another instance creates the same at this moment, or just did: IF NOT EXISTS
\* does not keep two that overlap apart.
Collides(i) ==
    \/ NextOf(i) \in recorded
    \/ \E j \in Instance \ {i} : pc[j] = "recording" /\ NextOf(j) = NextOf(i)

\* The script goes to the driver's own connection, before any statement has had
\* SQLAlchemy open the transaction: it commits by itself. It creates only what
\* is not there, so that it may run again, also over later migrations.
RunScript(i) ==
    /\ pc[i] = "migrations" /\ Pending(i) # {}
    /\ \/ /\ ran' = [ran EXCEPT ![NextOf(i)] = @ + 1]
          /\ Goto(i, "recording") /\ UNCHANGED <<already, ctx, held, own>>
       \/ Collides(i) /\ Exit(i, "down") /\ UNCHANGED ran
    /\ UNCHANGED <<settings, version, recorded, tokens, faults>>

\* Its record, the first statement of the transaction, is refused by the key
\* when another instance has recorded it meanwhile; that ends the boot.
Record(i) ==
    /\ pc[i] = "recording"
    /\ \/ /\ NextOf(i) \notin recorded
          /\ recorded' = recorded \cup {NextOf(i)}
          /\ already' = [already EXCEPT ![i] = @ \cup {NextOf(i)}]
          /\ Goto(i, "migrations") /\ UNCHANGED <<ctx, held, own>>
       \/ NextOf(i) \in recorded /\ Exit(i, "down") /\ UNCHANGED recorded
    /\ UNCHANGED <<settings, version, ran, tokens, faults>>

Migrated(i) ==
    /\ pc[i] = "migrations" /\ Pending(i) = {}
    /\ Goto(i, "app")
    /\ UNCHANGED <<settings, version, database, already, ctx, data, faults>>

\* The database fails while it is asked, or after it has committed.
MigrationFails(i) ==
    /\ pc[i] \in {"tracking", "migrations", "recording"} /\ Fault
    /\ \/ UNCHANGED database
       \/ /\ pc[i] = "migrations" /\ Pending(i) # {}
          /\ ran' = [ran EXCEPT ![NextOf(i)] = @ + 1] /\ UNCHANGED recorded
       \/ /\ pc[i] = "recording" /\ NextOf(i) \notin recorded
          /\ recorded' = recorded \cup {NextOf(i)} /\ UNCHANGED ran
    /\ Exit(i, "down")
    /\ UNCHANGED <<settings, version, tokens>>

-----------------------------------------------------------------------------
(* The contexts.                                                           *)

Persistent == settings.use_database \/ settings.production
\* A store built by a context: tables of the database, or memory of its own.
Store(i, name) == IF Persistent THEN <<NULL, "tables">> ELSE <<i, name>>

Given(i, stores) ==
    ctx' = [ctx EXCEPT ![i] = [f \in Fields |->
              IF pc'[i] = "down" THEN NULL
              ELSE IF f \in DOMAIN stores THEN stores[f] ELSE ctx[i][f]]]

RatesRefused       == settings.broken = "app"     \* a rate that is no number
IntegrationRefused == settings.broken = "agent"   \* one that cannot be constructed
BlocklistRefused   == settings.broken = "observability"   \* not JSON

\* The provider meters into the usage store.
BuildAppContext(i) ==
    /\ Boots(i, "app", RatesRefused, "agent")
    /\ Given(i, [usage |-> Store(i, "app")])

\* The recorder of runs.
BuildAgentContext(i) ==
    /\ Boots(i, "agent", IntegrationRefused, "multi_agent")
    /\ Given(i, [trace |-> Store(i, "agent")])

\* The roles and their gate record with the agent's recorder.
BuildMultiAgentContext(i) ==
    /\ Boots(i, "multi_agent", FALSE, "enterprise")
    /\ Given(i, [roles |-> ctx[i].trace])

\* Without a configured secret each boot makes its own, but not in production.
Generated(i) == <<i, Cardinality({t \in tokens : t[1] = i})>>

NoSecret == FALSE   \* Bug: what load_settings lets pass is trusted
NoSecretInProduction == settings.production /\ ~ settings.jwt_secret

BuildEnterpriseContext(i) ==
    /\ Boots(i, "enterprise", NoSecretInProduction, "observability")
    /\ Given(i, [secret |-> IF settings.jwt_secret THEN <<NULL, 0>> ELSE Generated(i)])

ReportOwn(i) == Store(i, "observability")   \* Bug: a store of its own
ReportOn(i) == ctx[i].usage

\* Analytics and the budget read the store the provider meters into, the
\* exporter the recorder of the agents. Then the worker starts, if it is enabled.
BuildObservabilityContext(i) ==
    /\ Boots(i, "observability", BlocklistRefused, "serving")
    /\ Given(i, [report |-> ReportOn(i), exported |-> ctx[i].trace])

-----------------------------------------------------------------------------
(* Serving, and the end.                                                   *)

Writers == [usage |-> {"usage"}, trace |-> {"trace", "roles"}]
Readers == [usage |-> {"report"}, trace |-> {"trace", "exported"}]

\* A model call is metered, or a step of a run or a role recorded.
Write(i, kind) ==
    /\ pc[i] = "serving" /\ Cardinality(held) < MaxWrites
    /\ \E f \in Writers[kind], n \in 1..MaxWrites :
          /\ \A h \in held : h.n # n
          /\ held' = held \cup {[store |-> ctx[i][f], kind |-> kind, n |-> n]}
          /\ own' = [own EXCEPT ![i] = @ \cup {<<kind, n>>}]
    /\ UNCHANGED <<settings, version, database, pc, already, ctx, tokens, faults>>

Login(i) ==
    /\ pc[i] = "serving" /\ Cardinality(tokens) < MaxTokens
    /\ tokens' = tokens \cup {ctx[i].secret}
    /\ UNCHANGED <<settings, version, database, pc, already, ctx, held, own, faults>>

\* Requests end, the worker is stopped, then the engine and Redis are closed.
Stop(i) ==
    /\ pc[i] = "serving" /\ Goto(i, "stopping")
    /\ UNCHANGED <<settings, version, database, already, ctx, data, faults>>

Stopped(i) ==
    /\ pc[i] = "stopping" /\ Exit(i, "off")
    /\ UNCHANGED <<settings, version, database, tokens, faults>>

Crash(i) ==
    /\ pc[i] \notin {"off", "down"} /\ Fault
    /\ Exit(i, "down")
    /\ UNCHANGED <<settings, version, database, tokens>>

Boot(i) ==
    \/ Restart(i) \/ LoadSettings(i) \/ ReadApplied(i) \/ RunScript(i) \/ Record(i)
    \/ Migrated(i)
    \/ BuildAppContext(i) \/ BuildAgentContext(i) \/ BuildMultiAgentContext(i)
    \/ BuildEnterpriseContext(i) \/ BuildObservabilityContext(i)

Next ==
    \E i \in Instance :
        \/ \E v \in Migration : Deploy(i, v)
        \/ Boot(i) \/ MigrationFails(i) \/ Login(i) \/ (\E kind \in Kinds : Write(i, kind))
        \/ Stop(i) \/ Stopped(i) \/ Crash(i)

\* A process that runs goes on, and one that exited is started again.
Spec == Init /\ [][Next]_vars /\ \A i \in Instance : WF_vars(Boot(i))

-----------------------------------------------------------------------------
\* However many instances migrate at once and wherever they fail: what is
\* recorded is a prefix of the migrations, all of which were run; none is run
\* before all earlier ones are recorded; none is run more often than there are
\* instances and failures; and no instance serves without all of its own
\* (db/migrations.py:86-119, main.py:73-77).
SchemaIsWhole ==
    /\ recorded = 1..Cardinality(recorded)
    /\ \A m \in recorded : ran[m] > 0
    /\ \A m \in Migration : ran[m] > 0 => 1..(m - 1) \subseteq recorded
    /\ \A m \in Migration : ran[m] <= Cardinality(Instance) + faults
    /\ \A i \in Instance : pc[i] = "serving" => 1..version[i] \subseteq recorded

\* What was metered or recorded through one context of an instance is read
\* through the others, until the instance ends; and where stores are persistent,
\* through every instance for good (container.py:1296-1316, settings.py:301-311).
WrittenIsRead ==
    \A i \in Instance : pc[i] = "serving" =>
        \A kind \in Kinds : \A f \in Readers[kind] :
            LET seen == {h \in held : h.kind = kind /\ h.store = ctx[i][f]}
            IN  /\ \A r \in own[i] : r[1] = kind => \E h \in seen : h.n = r[2]
                /\ Persistent => seen = {h \in held : h.kind = kind}

\* In production a token is good at every instance that serves, also after
\* restarts, whatever the settings left out (container.py:893-921).
TokensCarryOver ==
    settings.production =>
        \A i \in Instance : pc[i] = "serving" => \A t \in tokens : t = ctx[i].secret

Sound == settings.broken = "nothing" /\ (settings.production => settings.jwt_secret)

\* An instance with sound settings that was started serves, although others
\* apply the same migrations at the same time and it may lose every race.
BootsInTheEnd ==
    \A i \in Instance : Sound /\ pc[i] \in Booting \cup {"down"} ~> pc[i] = "serving"
=============================================================================
