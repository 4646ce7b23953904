------------------------------ MODULE Identity ------------------------------
(***************************************************************************)
(* Organisations, their rosters and teams, API keys, tokens and the audit  *)
(* trail: the handlers of api/routers/orgs.py and api/routers/auth.py over *)
(* enterprise/identity.py (PostgreSQL store), api_keys.py, auth.py,        *)
(* rbac.py and audit.py, behind the principal that api/deps.py resolves.   *)
(*                                                                         *)
(* A Request is one call; its steps are its transactions, and in the two   *)
(* handlers that lock rows, every row locked.  A principal is resolved     *)
(* when the call arrives and never looked up again.  A User stands for an  *)
(* e-mail address and its row; the numbers give the order of the ids.      *)
(***************************************************************************)
EXTENDS Integers, FiniteSets

CONSTANTS
    User,            \* user ids, in the order PostgreSQL sorts them
    Org, Team, Key,  \* ids the stores hand out
    Role,            \* the roles assigned
    Request,         \* bound: the calls made
    Offered,         \* the operations called
    Rosters,         \* who is in which organisation at the start
    AuditRequired,   \* audit_required: a change that is not recorded is a 503
    NULL             \* None, or no row

Permission == {"manage_members", "manage_api_keys", "read"}

Ops == {"none", "create_org", "register", "token", "add_member", "set_role",
        "remove_member", "create_team", "delete_team", "add_team_member",
        "remove_team_member", "create_key", "revoke_key"}

ASSUME IdentityAssumption ==
    /\ User \subseteq Nat
    /\ "owner" \in Role /\ Role \subseteq {"owner", "admin", "member", "viewer"}
    /\ Offered \subseteq Ops
    /\ AuditRequired \in BOOLEAN
    /\ NULL \notin User /\ NULL \notin Org /\ NULL \notin Team
    /\ NULL \notin Key /\ NULL \notin Role
    /\ \A roster \in Rosters :
          /\ roster \in [Org -> [User -> Role \cup {NULL}]]
          /\ \A o \in Org : \/ \A u \in User : roster[o][u] = NULL
                            \/ \E u \in User : roster[o][u] = "owner"

Claims == [user : User, org : Org, role : Role]

\* A principal, or the claims about to be signed.
Caller == [user : User \cup {NULL}, key : Key \cup {NULL},
           org : Org \cup {NULL}, role : Role \cup {NULL}]
Nobody == [user |-> NULL, key |-> NULL, org |-> NULL, role |-> NULL]

NoRows == [u \in User |-> NULL]

Job == [op : Ops, user : User \cup {NULL}, role : Role \cup {NULL},
        team : Team \cup {NULL}, key : Key \cup {NULL}, org : Org \cup {NULL}]
Idle == [op |-> "none", user |-> NULL, role |-> NULL, team |-> NULL,
         key |-> NULL, org |-> NULL]

VARIABLES
    users,      \* the users table
    orgs,       \* the organizations table
    role,       \* the memberships table: the role of each user in each organisation
    teamOf,     \* the teams table: the organisation of each team
    inTeam,     \* the team_memberships table
    keys,       \* the api_keys table
    tokens,     \* claims of the tokens signed; expiry only keeps callers out
    trail,      \* audit_events: which request is in which organisation's trail
    job, who,   \* what each request is for, and whose it is
    pc,         \* what it is about to do
    wanted,     \* rows of its SELECT ... FOR UPDATE it has yet to lock
    seen,       \* membership rows it has locked, with the role it read
    changed,    \* it has committed the change it was asked for (history)
    answer      \* what its caller was told

tables  == <<users, orgs, role, teamOf, inTeam, keys>>
locks   == <<wanted, seen>>
call    == <<job, who>>
vars    == <<users, orgs, role, teamOf, inTeam, keys, tokens, trail,
             job, who, pc, wanted, seen, changed, answer>>

\* The store as if each of its operations were one step.
Store == INSTANCE IdentityStore

Steps == {"free", "found", "enroll", "own", "issue", "apply", "locking",
          "share", "enter", "audit_new", "audit", "over"}
Answers == {"none", "done", "refused", "unrecorded", "failed"}

KeyRow  == [org : Org, role : Role, revoked : BOOLEAN]

TypeOK ==
    /\ users \subseteq User
    /\ orgs \subseteq Org
    /\ role \in [Org -> [User -> Role \cup {NULL}]]
    /\ teamOf \in [Team -> Org \cup {NULL}]
    /\ inTeam \subseteq Team \X User
    /\ keys \in [Key -> KeyRow \cup {NULL}]
    /\ tokens \subseteq Claims
    /\ trail \subseteq Request \X Org
    /\ job \in [Request -> Job]
    /\ who \in [Request -> Caller]
    /\ pc \in [Request -> Steps]
    /\ wanted \in [Request -> SUBSET User]
    /\ seen \in [Request -> [User -> Role \cup {NULL}]]
    /\ changed \in [Request -> BOOLEAN]
    /\ answer \in [Request -> Answers]

\* A running system: every organisation has an owner, and each member was
\* once signed in.
Init ==
    /\ role \in Rosters
    /\ users = {u \in User : \E o \in Org : role[o][u] # NULL}
    /\ orgs = {o \in Org : \E u \in User : role[o][u] # NULL}
    /\ tokens = {c \in Claims : role[c.org][c.user] = c.role}
    /\ teamOf \in [Team -> orgs \cup {NULL}] /\ inTeam = {}
    /\ keys \in [Key -> [org : orgs, role : {"owner"}, revoked : {FALSE}] \cup {NULL}]
    /\ trail = {}
    /\ job = [q \in Request |-> Idle] /\ who = [q \in Request |-> Nobody]
    /\ pc = [q \in Request |-> "free"]
    /\ wanted = [q \in Request |-> {}] /\ seen = [q \in Request |-> NoRows]
    /\ changed = [q \in Request |-> FALSE]
    /\ answer = [q \in Request |-> "none"]

-----------------------------------------------------------------------------
(* Who calls: a token, or a key that has not been revoked; each role       *)
(* permits what the role below it permits.                                 *)

RolePermissions(r) ==
    {"read"} \cup (IF r \in {"owner", "admin"} THEN {"manage_api_keys"} ELSE {})
             \cup (IF r = "owner" THEN {"manage_members"} ELSE {})

ListActiveKeys == {k \in Key : keys[k] # NULL /\ ~keys[k].revoked}

Presented ==
    {[user |-> c.user, key |-> NULL, org |-> c.org, role |-> c.role] : c \in tokens}
    \cup {[user |-> NULL, key |-> k, org |-> keys[k].org, role |-> keys[k].role] :
             k \in ListActiveKeys}

Needs(op) == CASE op = "create_org" -> "read"
               [] op \in {"create_key", "revoke_key"} -> "manage_api_keys"
               [] OTHER -> "manage_members"

\* Rows are never reused: a team or a key has an id of its own.
FreshTeam == {t \in Team : /\ teamOf[t] = NULL
                           /\ \A q \in Request : job[q].team # t}
FreshKey  == {k \in Key : keys[k] = NULL /\ \A q \in Request : job[q].key # k}
FreshOrg  == {o \in Org \ orgs : \A q \in Request : job[q].org # o}

Works(org, op) ==
    CASE op = "create_org" -> {[Idle EXCEPT !.op = op, !.org = o] : o \in FreshOrg}
      [] op \in {"add_member", "set_role"} ->
            {[Idle EXCEPT !.op = op, !.user = w[1], !.role = w[2]] : w \in User \X Role}
      [] op = "remove_member" -> {[Idle EXCEPT !.op = op, !.user = u] : u \in User}
      [] op = "create_team" -> {[Idle EXCEPT !.op = op, !.team = t] : t \in FreshTeam}
      [] op = "delete_team" -> {[Idle EXCEPT !.op = op, !.team = t] : t \in Team}
      [] op \in {"add_team_member", "remove_team_member"} ->
            {[Idle EXCEPT !.op = op, !.team = w[1], !.user = w[2]] : w \in Team \X User}
      [] op = "create_key" ->
            {[Idle EXCEPT !.op = op, !.key = w[1], !.role = w[2]] : w \in FreshKey \X Role}
      [] op = "revoke_key" -> {[Idle EXCEPT !.op = op, !.key = k] : k \in Key}
      [] OTHER -> {}

\* An authorised call to an organisation's own routes.  A call without the
\* permission, or to another organisation's path, is answered 403 or 404 here
\* and changes nothing.
Call(q) ==
    /\ pc[q] = "free"
    /\ \E p \in Presented, op \in Offered :
          /\ Needs(op) \in RolePermissions(p.role)
          /\ \E j \in Works(p.org, op) : job' = [job EXCEPT ![q] = j]
          /\ who' = [who EXCEPT ![q] = p]
          /\ pc' = [pc EXCEPT ![q] = IF op = "create_org" THEN "found" ELSE "apply"]
    /\ UNCHANGED <<tables, tokens, trail, locks, changed, answer>>

End(q, said) ==
    /\ pc' = [pc EXCEPT ![q] = "over"]
    /\ answer' = [answer EXCEPT ![q] = said]

\* The change is committed; the trail comes next.
Commit(q) ==
    /\ pc' = [pc EXCEPT ![q] = "audit"]
    /\ changed' = [changed EXCEPT ![q] = TRUE]
    /\ UNCHANGED answer

-----------------------------------------------------------------------------
(* Registration, sign-in and new organisations.                            *)

\* The e-mail is looked up before anything is written.
Register(q, u) ==
    /\ pc[q] = "free" /\ "register" \in Offered
    /\ u \notin users
    /\ \E o \in FreshOrg :
          job' = [job EXCEPT ![q] = [Idle EXCEPT !.op = "register", !.user = u,
                                                 !.role = "owner", !.org = o]]
    /\ pc' = [pc EXCEPT ![q] = "found"]
    /\ UNCHANGED <<tables, tokens, trail, who, locks, changed, answer>>

\* A registration goes on to its user, the founding by a user to the
\* membership; the organisation a key founds gets no member.
CreateOrganization(q) ==
    /\ pc[q] = "found"
    /\ orgs' = orgs \cup {job[q].org}
    /\ pc' = [pc EXCEPT ![q] = IF job[q].op = "register" THEN "enroll"
                               ELSE IF who[q].user = NULL THEN "audit_new" ELSE "own"]
    /\ changed' = [changed EXCEPT ![q] = TRUE]
    /\ UNCHANGED <<users, role, teamOf, inTeam, keys, tokens, trail,
                   call, locks, answer>>

\* UNIQUE(email): of two registrations of one address, the second is refused,
\* and the organisation it has created stays.
CreateUser(q) ==
    /\ pc[q] = "enroll"
    /\ IF job[q].user \in users
       THEN End(q, "refused") /\ UNCHANGED users
       ELSE /\ users' = users \cup {job[q].user}
            /\ pc' = [pc EXCEPT ![q] = "own"] /\ UNCHANGED answer
    /\ UNCHANGED <<orgs, role, teamOf, inTeam, keys, tokens, trail,
                   call, locks, changed>>

AddMembership(o, u, r) == role' = [role EXCEPT ![o][u] = r]

\* The founder becomes the owner.  A user whose row was read from a token or
\* written by this registration; the membership is the organisation's first.
Founder(q) == IF job[q].op = "register" THEN job[q].user ELSE who[q].user
AddFounder(q) ==
    /\ pc[q] = "own"
    /\ AddMembership(job[q].org, Founder(q), "owner")
    /\ IF job[q].op = "register"
       THEN /\ who' = [who EXCEPT ![q] = [user |-> job[q].user, key |-> NULL,
                                          org |-> job[q].org, role |-> "owner"]]
            /\ pc' = [pc EXCEPT ![q] = "issue"]
       ELSE /\ UNCHANGED who
            /\ pc' = [pc EXCEPT ![q] = "audit_new"]
    /\ UNCHANGED <<users, orgs, teamOf, inTeam, keys, tokens, trail, job,
                   locks, changed, answer>>

\* Signs in to the oldest membership (which one is left open: the rows' ages
\* are not modelled).  An unknown user or one without a membership gets 401.
Login(q, u) ==
    /\ pc[q] = "free" /\ "token" \in Offered
    /\ u \in users
    /\ \E o \in Org :
          /\ role[o][u] # NULL
          /\ who' = [who EXCEPT ![q] = [user |-> u, key |-> NULL, org |-> o,
                                        role |-> role[o][u]]]
    /\ job' = [job EXCEPT ![q].op = "token"]
    /\ pc' = [pc EXCEPT ![q] = "issue"]
    /\ UNCHANGED <<tables, tokens, trail, locks, changed, answer>>

\* A refresh signs the claims it verified; the membership is not read.
Refresh(q) ==
    /\ pc[q] = "free" /\ "token" \in Offered
    /\ \E c \in tokens :
          who' = [who EXCEPT ![q] = [user |-> c.user, key |-> NULL, org |-> c.org,
                                     role |-> c.role]]
    /\ job' = [job EXCEPT ![q].op = "token"]
    /\ pc' = [pc EXCEPT ![q] = "issue"]
    /\ UNCHANGED <<tables, tokens, trail, locks, changed, answer>>

Issue(q) ==
    /\ pc[q] = "issue"
    /\ tokens' = tokens \cup {[user |-> who[q].user, org |-> who[q].org,
                               role |-> who[q].role]}
    /\ End(q, "done")
    /\ UNCHANGED <<tables, trail, call, locks, changed>>

-----------------------------------------------------------------------------
(* The roster.                                                             *)

Home(q) == who[q].org
Target(q) == job[q].user
Members(o) == {u \in User : role[o][u] # NULL}
Owners(o) == {u \in User : role[o][u] = "owner"}

AddMember(q) ==
    /\ pc[q] = "apply" /\ job[q].op = "add_member"
    /\ IF Target(q) \in users \ Members(Home(q))
       THEN AddMembership(Home(q), Target(q), job[q].role) /\ Commit(q)
       ELSE End(q, "refused") /\ UNCHANGED <<role, changed>>
    /\ UNCHANGED <<users, orgs, teamOf, inTeam, keys, tokens, trail, call, locks>>

\* SELECT ... ORDER BY user_id FOR UPDATE: its snapshot names the rows, then
\* it takes them one by one, waiting for whoever has one.
LockOrgRoles(q) ==
    /\ pc[q] = "apply" /\ job[q].op \in {"set_role", "remove_member"}
    /\ wanted' = [wanted EXCEPT ![q] = Members(Home(q))]
    /\ pc' = [pc EXCEPT ![q] = "locking"]
    /\ UNCHANGED <<tables, tokens, trail, call, seen, changed, answer>>

HeldBy(q) == {u \in User : seen[q][u] # NULL}
NextRowScanned(q) ==   \* Bug: no ORDER BY, each statement in its plan's order
    CHOOSE u \in wanted[q] : \A v \in wanted[q] :
        IF job[q].op = "set_role" THEN u >= v ELSE u <= v
NextRow(q) == CHOOSE u \in wanted[q] : \A v \in wanted[q] : u <= v
Awaits(q, r) ==
    /\ r # q /\ Home(r) = Home(q)
    /\ \/ pc[q] = "locking" /\ wanted[q] # {} /\ NextRow(q) \in HeldBy(r)
       \/ pc[q] = "share" /\ pc[r] = "locking" /\ Target(q) \in HeldBy(r)
Blocked(q) == \E r \in Request : Awaits(q, r)

LockRowUnlocked(q) ==   \* Bug: no FOR UPDATE, the statement reads and goes on
    /\ pc[q] = "locking" /\ wanted[q] # {}
    /\ wanted' = [wanted EXCEPT ![q] = @ \ {NextRow(q)}]
    /\ seen' = [seen EXCEPT ![q][NextRow(q)] = role[Home(q)][NextRow(q)]]
    /\ UNCHANGED <<tables, tokens, trail, call, pc, changed, answer>>
LockRow(q) ==
    /\ pc[q] = "locking" /\ wanted[q] # {} /\ ~Blocked(q)
    /\ wanted' = [wanted EXCEPT ![q] = @ \ {NextRow(q)}]
    /\ seen' = [seen EXCEPT ![q][NextRow(q)] = role[Home(q)][NextRow(q)]]
    /\ UNCHANGED <<tables, tokens, trail, call, pc, changed, answer>>

Locked(q) == pc[q] = "locking" /\ wanted[q] = {}
Release(q) == seen' = [seen EXCEPT ![q] = NoRows]

\* The target left (404), or is the last owner (400).
MayNot(q, r) ==
    \/ Target(q) \notin HeldBy(q)
    \/ Store!OrphansOwner(seen[q], Target(q), r)

UpdateMembershipRole(q) ==
    /\ Locked(q) /\ job[q].op = "set_role"
    /\ IF MayNot(q, job[q].role)
       THEN End(q, "refused") /\ UNCHANGED <<role, changed>>
       ELSE AddMembership(Home(q), Target(q), job[q].role) /\ Commit(q)
    /\ Release(q)
    /\ UNCHANGED <<users, orgs, teamOf, inTeam, keys, tokens, trail, call, wanted>>

\* The user leaves the organisation's teams in the same transaction, and a
\* statement waiting for the row finds it gone.
RemoveMembership(q) ==
    /\ Locked(q) /\ job[q].op = "remove_member"
    /\ IF MayNot(q, NULL)
       THEN End(q, "refused") /\ UNCHANGED <<role, inTeam, wanted, changed>>
       ELSE /\ role' = [role EXCEPT ![Home(q)][Target(q)] = NULL]
            /\ inTeam' = {m \in inTeam : ~(m[2] = Target(q) /\ teamOf[m[1]] = Home(q))}
            /\ wanted' = [r \in Request |-> IF Home(r) = Home(q)
                                            THEN wanted[r] \ {Target(q)} ELSE wanted[r]]
            /\ Commit(q)
    /\ Release(q)
    /\ UNCHANGED <<users, orgs, teamOf, keys, tokens, trail, call>>

-----------------------------------------------------------------------------
(* Teams.                                                                  *)

CreateTeam(q) ==
    /\ pc[q] = "apply" /\ job[q].op = "create_team"
    /\ teamOf' = [teamOf EXCEPT ![job[q].team] = Home(q)]
    /\ Commit(q)
    /\ UNCHANGED <<users, orgs, role, inTeam, keys, tokens, trail, call, locks>>

\* The memberships of the team cascade.
DeleteTeam(q) ==
    /\ pc[q] = "apply" /\ job[q].op = "delete_team"
    /\ IF teamOf[job[q].team] = Home(q)
       THEN /\ teamOf' = [teamOf EXCEPT ![job[q].team] = NULL]
            /\ inTeam' = {m \in inTeam : m[1] # job[q].team}
            /\ Commit(q)
       ELSE End(q, "refused") /\ UNCHANGED <<teamOf, inTeam, changed>>
    /\ UNCHANGED <<users, orgs, role, keys, tokens, trail, call, locks>>

GetTeam(o, t) == teamOf[t] = o

\* The team is looked up in the caller's organisation, before the store looks
\* it up anywhere.
ResolveTeam(q) ==
    /\ pc[q] = "apply" /\ job[q].op = "add_team_member"
    /\ IF GetTeam(Home(q), job[q].team) /\ Target(q) \in users
       THEN pc' = [pc EXCEPT ![q] = "share"] /\ UNCHANGED answer
       ELSE End(q, "refused")
    /\ UNCHANGED <<tables, tokens, trail, call, locks, changed>>

ReadMembership(q) ==   \* Bug: a plain SELECT neither waits nor keeps the row
    /\ pc[q] = "share"
    /\ LET o == teamOf[job[q].team] IN
          IF o # NULL /\ Target(q) \in Members(o)
          THEN pc' = [pc EXCEPT ![q] = "enter"] /\ UNCHANGED answer
          ELSE End(q, "refused")
    /\ UNCHANGED <<tables, tokens, trail, call, locks, changed>>
\* FOR SHARE: waits for a removal that has the row, and finds it gone.
ShareMembership(q) ==
    /\ pc[q] = "share" /\ ~Blocked(q)
    /\ LET o == teamOf[job[q].team] IN
          IF o # NULL /\ Target(q) \in Members(o)
          THEN /\ seen' = [seen EXCEPT ![q][Target(q)] = role[o][Target(q)]]
               /\ pc' = [pc EXCEPT ![q] = "enter"] /\ UNCHANGED answer
          ELSE End(q, "refused") /\ UNCHANGED seen
    /\ UNCHANGED <<tables, tokens, trail, call, wanted, changed>>

\* ON CONFLICT DO NOTHING; the foreign key refuses a team deleted meanwhile.
AddTeamMember(q) ==
    /\ pc[q] = "enter"
    /\ IF teamOf[job[q].team] # NULL
       THEN inTeam' = inTeam \cup {<<job[q].team, Target(q)>>} /\ Commit(q)
       ELSE End(q, "failed") /\ UNCHANGED <<inTeam, changed>>
    /\ Release(q)
    /\ UNCHANGED <<users, orgs, role, teamOf, keys, tokens, trail, call, wanted>>

RemoveTeamMember(q) ==
    /\ pc[q] = "apply" /\ job[q].op = "remove_team_member"
    /\ IF /\ GetTeam(Home(q), job[q].team)
          /\ <<job[q].team, Target(q)>> \in inTeam
       THEN inTeam' = inTeam \ {<<job[q].team, Target(q)>>} /\ Commit(q)
       ELSE End(q, "refused") /\ UNCHANGED <<inTeam, changed>>
    /\ UNCHANGED <<users, orgs, role, teamOf, keys, tokens, trail, call, locks>>

-----------------------------------------------------------------------------
(* API keys.                                                               *)

CreateKey(q) ==
    /\ pc[q] = "apply" /\ job[q].op = "create_key"
    /\ keys' = [keys EXCEPT ![job[q].key] =
                   [org |-> Home(q), role |-> job[q].role, revoked |-> FALSE]]
    /\ Commit(q)
    /\ UNCHANGED <<users, orgs, role, teamOf, inTeam, tokens, trail, call, locks>>

\* Revoking a revoked key succeeds again; the first moment is kept.
RevokeKey(q) ==
    /\ pc[q] = "apply" /\ job[q].op = "revoke_key"
    /\ LET k == job[q].key IN
          IF keys[k] # NULL /\ keys[k].org = Home(q)
          THEN /\ keys' = [keys EXCEPT ![k] = [org |-> Home(q), role |-> keys[k].role,
                                               revoked |-> TRUE]]
               /\ Commit(q)
          ELSE End(q, "refused") /\ UNCHANGED <<keys, changed>>
    /\ UNCHANGED <<users, orgs, role, teamOf, inTeam, tokens, trail, call, locks>>

-----------------------------------------------------------------------------
(* The trail, in a transaction of its own after the change.                *)

TrailOf(q) == IF pc[q] = "audit_new" THEN job[q].org ELSE Home(q)

\* The founding of an organisation goes into its own trail first.
Recorded(q) ==
    IF pc[q] = "audit_new" THEN pc' = [pc EXCEPT ![q] = "audit"] /\ UNCHANGED answer
    ELSE End(q, "done")

Record(q) ==
    /\ pc[q] \in {"audit_new", "audit"}
    /\ trail' = trail \cup {<<q, TrailOf(q)>>}
    /\ Recorded(q)
    /\ UNCHANGED <<tables, tokens, call, locks, changed>>

RecordFailsOnce(q) ==   \* Bug: the founded organisation's trail fails open
    /\ pc[q] \in {"audit_new", "audit"}
    /\ IF AuditRequired /\ pc[q] = "audit" THEN End(q, "unrecorded") ELSE Recorded(q)
    /\ UNCHANGED <<tables, tokens, trail, call, locks, changed>>
\* Fail open: logged, and the call goes on.  Fail closed: 503.
RecordFails(q) ==
    /\ pc[q] \in {"audit_new", "audit"}
    /\ IF AuditRequired THEN End(q, "unrecorded") ELSE Recorded(q)
    /\ UNCHANGED <<tables, tokens, trail, call, locks, changed>>

\* A store refuses a statement or the process dies: what is committed stays,
\* the open transaction and its locks are gone.
Fail(q) ==
    /\ pc[q] \notin {"free", "over"}
    /\ End(q, "failed")
    /\ wanted' = [wanted EXCEPT ![q] = {}]
    /\ Release(q)
    /\ UNCHANGED <<tables, tokens, trail, call, changed>>

Next ==
    \/ \E q \in Request :
          \/ Call(q)
          \/ CreateOrganization(q) \/ CreateUser(q) \/ AddFounder(q)
          \/ Refresh(q) \/ Issue(q)
          \/ AddMember(q) \/ LockOrgRoles(q) \/ LockRow(q)
          \/ UpdateMembershipRole(q) \/ RemoveMembership(q)
          \/ CreateTeam(q) \/ DeleteTeam(q) \/ ResolveTeam(q)
          \/ ShareMembership(q) \/ AddTeamMember(q) \/ RemoveTeamMember(q)
          \/ CreateKey(q) \/ RevokeKey(q)
          \/ Record(q) \/ RecordFails(q) \/ Fail(q)
    \/ \E q \in Request, u \in User : Register(q, u) \/ Login(q, u)

Spec == Init /\ [][Next]_vars

-----------------------------------------------------------------------------
(* Properties.                                                             *)

\* Organisations somebody can act for: with a member, a working key, a live
\* token or a call under way.
Inhabited(o) ==
    \/ Members(o) # {}
    \/ \E k \in ListActiveKeys : keys[k].org = o
    \/ \E c \in tokens : c.org = o
    \/ \E q \in Request : Home(q) = o

\* Whoever removes, demotes or leaves, and however many do so at once, an
\* organisation anybody can act for keeps an owner (identity.py:68-94 over the
\* row locks of identity.py:497-515).
OwnedWhereInhabited == \A o \in Org : Inhabited(o) => Owners(o) # {}

\* Every transaction that changes the tables is an operation of the store in
\* memory, carried out at one moment on the tables as they are then: between the
\* statements of one, no other may take away what it rests on, an owner, a member
\* or a team (identity.py:517-563, 592-651 over 497-515; identity.py:71-77).
KeepsStore == Store!Spec

\* A team's members belong to the team's organisation, also when a member is
\* added to the team and removed from the organisation at once
\* (identity.py:551-555 and 605-612).
TeamMembersBelong ==
    \A m \in inTeam : /\ teamOf[m[1]] # NULL
                      /\ m[2] \in Members(teamOf[m[1]])

\* Transactions that lock rows of one roster never wait for one another in a
\* circle (identity.py:504-506).
LockersNeverStuck ==
    LET lockers == {q \in Request : pc[q] \in {"locking", "share"}} IN
    lockers # {} => \E q \in Request : (q \in lockers \/ HeldBy(q) # {}) /\ ~Blocked(q)

\* Every event names a change that was committed, in the trail of the caller's
\* organisation or of the one it founded; and when the trail is required, a
\* call is acknowledged only with the change in every trail it belongs to
\* (audit.py:192-248, orgs.py:149-163).
TrailMatchesChanges ==
    /\ \A e \in trail : changed[e[1]] /\ e[2] \in {Home(e[1]), job[e[1]].org}
    /\ AuditRequired =>
          \A q \in Request :
              answer[q] = "done" /\ job[q].op \notin {"register", "token"} =>
                  /\ <<q, Home(q)>> \in trail
                  /\ job[q].op = "create_org" => <<q, job[q].org>> \in trail
=============================================================================
