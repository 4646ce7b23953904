---------------------------- MODULE IdentityStore ----------------------------
(***************************************************************************)
(* What an Identity_Store promises of organisations, members and teams,    *)
(* each operation taken whole: what InMemory_Identity_Store                *)
(* (enterprise/identity.py) does for one caller at a time, without a lock. *)
(* Identity is the store in PostgreSQL, where an operation takes several   *)
(* statements and row locks while the others go on.                        *)
(*                                                                         *)
(* Only what succeeds is told here; a refusal changes nothing.             *)
(***************************************************************************)
CONSTANTS User, Org, Team, Role,
          NULL      \* no membership, no such team

VARIABLES
    users,          \* who has an account
    orgs,           \* the organisations
    role,           \* the role of each member of each organisation
    teamOf,         \* the organisation of each team
    inTeam          \* the members of the teams

vars == <<users, orgs, role, teamOf, inTeam>>

IsMember(o, u) == role[o][u] # NULL
OfOrg(t, o)    == teamOf[t] # NULL /\ teamOf[t] = o
Belongs(t, u)  == teamOf[t] # NULL /\ IsMember(teamOf[t], u)

\* The one rule about owners, of the roster as it is before the change: whether
\* that would leave it without the owner it has.
OrphansOwner(roster, u, r) ==
    /\ \E v \in User : roster[v] = "owner"
    /\ \A v \in User \ {u} : roster[v] # "owner"
    /\ r # "owner"

\* Whatever earlier operations have left behind.
Init ==
    /\ users \subseteq User /\ orgs \subseteq Org
    /\ role \in [Org -> [User -> Role \cup {NULL}]]
    /\ teamOf \in [Team -> Org \cup {NULL}]
    /\ inTeam \subseteq Team \X User /\ \A m \in inTeam : Belongs(m[1], m[2])

CreateUser(u) ==
    /\ u \notin users /\ users' = users \cup {u}
    /\ UNCHANGED <<orgs, role, teamOf, inTeam>>

CreateOrganization(o) ==
    /\ o \notin orgs /\ orgs' = orgs \cup {o}
    /\ UNCHANGED <<users, role, teamOf, inTeam>>

AddMembership(u, o, r) ==
    /\ ~ IsMember(o, u)
    /\ role' = [role EXCEPT ![o][u] = r]
    /\ UNCHANGED <<users, orgs, teamOf, inTeam>>

UpdateMembershipRole(u, o, r) ==
    /\ IsMember(o, u) /\ ~ OrphansOwner(role[o], u, r)
    /\ role' = [role EXCEPT ![o][u] = r]
    /\ UNCHANGED <<users, orgs, teamOf, inTeam>>

\* Whoever leaves the organisation leaves its teams.
RemoveMembership(u, o) ==
    /\ IsMember(o, u) /\ ~ OrphansOwner(role[o], u, NULL)
    /\ role' = [role EXCEPT ![o][u] = NULL]
    /\ inTeam' = {m \in inTeam : ~ (m[2] = u /\ OfOrg(m[1], o))}
    /\ UNCHANGED <<users, orgs, teamOf>>

CreateTeam(o, t) ==
    /\ teamOf[t] = NULL
    /\ teamOf' = [teamOf EXCEPT ![t] = o]
    /\ UNCHANGED <<users, orgs, role, inTeam>>

DeleteTeam(o, t) ==
    /\ OfOrg(t, o)
    /\ teamOf' = [teamOf EXCEPT ![t] = NULL]
    /\ inTeam' = {m \in inTeam : m[1] # t}
    /\ UNCHANGED <<users, orgs, role>>

AddTeamMember(t, u) ==
    /\ Belongs(t, u)
    /\ inTeam' = inTeam \cup {<<t, u>>}
    /\ UNCHANGED <<users, orgs, role, teamOf>>

RemoveTeamMember(o, t, u) ==
    /\ OfOrg(t, o)
    /\ inTeam' = inTeam \ {<<t, u>>}
    /\ UNCHANGED <<users, orgs, role, teamOf>>

Next ==
    \/ \E u \in User : CreateUser(u)
    \/ \E o \in Org : CreateOrganization(o)
    \/ \E o \in Org, u \in User :
          \/ \E r \in Role : AddMembership(u, o, r) \/ UpdateMembershipRole(u, o, r)
          \/ RemoveMembership(u, o)
    \/ \E o \in Org, t \in Team :
          \/ CreateTeam(o, t) \/ DeleteTeam(o, t)
          \/ \E u \in User : AddTeamMember(t, u) \/ RemoveTeamMember(o, t, u)

Spec == Init /\ [][Next]_vars
==============================================================================
