--------------------------- MODULE IdentityProofs ---------------------------
(***************************************************************************)
(* What holds of Identity for any users, organisations, teams and keys,    *)
(* any number of calls at once, and any failure.                           *)
(***************************************************************************)
EXTENDS Identity, FiniteSetTheorems, WellFoundedInduction, TLAPS

-----------------------------------------------------------------------------
(* Where a call is.                                                        *)

Active == {q \in Request : pc[q] # "free"}

Founding == {"register", "create_org"}
OfTeams  == {"add_team_member", "remove_team_member"}

\* What a job holds for its operation, and that it has an organisation.
Suits(q) ==
    /\ job[q].op \in {"add_member", "set_role", "remove_member", "register"} \cup OfTeams =>
          job[q].user \in User
    /\ job[q].op \in {"add_member", "set_role", "create_key"} => job[q].role \in Role
    /\ job[q].op \in {"create_team", "delete_team"} \cup OfTeams => job[q].team \in Team
    /\ job[q].op \in {"create_key", "revoke_key"} => job[q].key \in Key
    /\ job[q].op \in Founding => job[q].org \in Org
    /\ job[q].op \notin {"none", "register", "token"} => Home(q) \in Org

\* What a call is at a step for, and what it holds there.
Fits(q) ==
    /\ pc[q] = "free" => job[q] = Idle /\ who[q] = Nobody /\ ~changed[q]
    /\ pc[q] = "found" => job[q].op \in Founding
    /\ pc[q] = "enroll" => job[q].op = "register"
    /\ pc[q] = "own" => job[q].op \in Founding /\ Founder(q) \in User
    /\ pc[q] = "issue" =>
          /\ job[q].op \in {"register", "token"}
          /\ [user |-> who[q].user, org |-> who[q].org, role |-> who[q].role] \in Claims
    /\ pc[q] = "apply" => job[q].op \notin {"none", "register", "token", "create_org"}
    /\ pc[q] = "locking" => job[q].op \in {"set_role", "remove_member"}
    /\ pc[q] \in {"share", "enter"} => job[q].op = "add_team_member"
    /\ pc[q] = "audit_new" => job[q].op = "create_org"
    /\ pc[q] = "audit" => job[q].op \notin {"none", "register", "token"}
    /\ pc[q] \in {"enroll", "own", "audit_new", "audit"} => changed[q]
    /\ pc[q] # "over" => answer[q] = "none"
    /\ pc[q] # "locking" => wanted[q] = {}
    /\ pc[q] \notin {"locking", "enter"} => seen[q] = NoRows

Base ==
    /\ TypeOK
    /\ IsFiniteSet(Active)
    /\ \A q \in Request : Suits(q) /\ Fits(q)

\* One call steps; what there is of the others stays, or its rows are gone.
Moves(q) ==
    /\ job' \in [Request -> Job] /\ who' \in [Request -> Caller]
    /\ pc' \in [Request -> Steps] /\ answer' \in [Request -> Answers]
    /\ wanted' \in [Request -> SUBSET User]
    /\ seen' \in [Request -> [User -> Role \cup {NULL}]]
    /\ changed' \in [Request -> BOOLEAN]
    /\ pc[q] # "over" /\ pc'[q] # "free"
    /\ (job'[q] = job[q] \/ pc[q] = "free")
    /\ (who'[q] = who[q] \/ pc[q] \in {"free", "own"})
    /\ (changed[q] => changed'[q])
    /\ \A r \in Request \ {q} :
          /\ job'[r] = job[r] /\ who'[r] = who[r] /\ pc'[r] = pc[r]
          /\ answer'[r] = answer[r] /\ seen'[r] = seen[r] /\ changed'[r] = changed[r]
          /\ wanted'[r] \subseteq wanted[r]

Acts(q) ==
    \/ Call(q)
    \/ CreateOrganization(q) \/ CreateUser(q) \/ AddFounder(q)
    \/ Refresh(q) \/ Issue(q)
    \/ AddMember(q) \/ LockOrgRoles(q) \/ LockRow(q)
    \/ UpdateMembershipRole(q) \/ RemoveMembership(q)
    \/ CreateTeam(q) \/ DeleteTeam(q) \/ ResolveTeam(q)
    \/ ShareMembership(q) \/ AddTeamMember(q) \/ RemoveTeamMember(q)
    \/ CreateKey(q) \/ RevokeKey(q)
    \/ Record(q) \/ RecordFails(q) \/ Fail(q)
    \/ \E u \in User : Register(q, u) \/ Login(q, u)

LEMMA NullIsNone == /\ NULL \notin User /\ NULL \notin Org /\ NULL \notin Team
                    /\ NULL \notin Key /\ NULL \notin Role /\ "owner" \in Role
  BY IdentityAssumption

LEMMA NoneFit ==
    /\ Idle \in Job /\ Nobody \in Caller /\ NoRows \in [User -> Role \cup {NULL}]
    /\ Idle.op = "none" /\ Nobody.org = NULL
  BY DEF Idle, Job, Nobody, Caller, NoRows, Ops

(***************************************************************************)
(* A nonempty set of ids has a least one: the next row to lock.            *)
(***************************************************************************)
LEMMA LeastOf ==
    ASSUME NEW S \in SUBSET Nat, S # {} PROVE \E least \in S : \A e \in S : least <= e
<1>1. PICK least \in S : \A e \in S : <<e, least>> \notin OpToRel(<, Nat)
  BY NatLessThanWellFounded, WFMin
<1>2. \A e \in S : ~ (e < least)
  BY <1>1 DEF OpToRel
<1> QED
  BY <1>2

LEMMA NextRowIs ==
    ASSUME Base, NEW q \in Request, wanted[q] # {}
    PROVE  NextRow(q) \in wanted[q] /\ NextRow(q) \in User /\ \A v \in wanted[q] : NextRow(q) <= v
<1>1. wanted[q] \subseteq User /\ wanted[q] \in SUBSET Nat
  BY IdentityAssumption DEF Base, TypeOK
<1>2. \E u \in wanted[q] : \A v \in wanted[q] : u <= v
  BY <1>1, LeastOf
<1> QED
  BY <1>1, <1>2 DEF NextRow

-----------------------------------------------------------------------------
(* One step of one call.                                                   *)

\* The fields of a call, of whom one has its own changed.
LEMMA EndIs ==
    ASSUME Base, NEW q \in Request, NEW a \in Answers, End(q, a)
    PROVE  /\ pc' \in [Request -> Steps] /\ pc'[q] = "over"
           /\ answer' \in [Request -> Answers] /\ answer'[q] = a
           /\ \A r \in Request \ {q} : pc'[r] = pc[r] /\ answer'[r] = answer[r]
  BY DEF End, Base, TypeOK, Steps

LEMMA CommitIs ==
    ASSUME Base, NEW q \in Request, Commit(q)
    PROVE  /\ pc' \in [Request -> Steps] /\ pc'[q] = "audit"
           /\ changed' \in [Request -> BOOLEAN] /\ changed'[q] /\ answer' = answer
           /\ \A r \in Request \ {q} : pc'[r] = pc[r] /\ changed'[r] = changed[r]
  BY DEF Commit, Base, TypeOK, Steps

LEMMA ReleaseIs ==
    ASSUME Base, NEW q \in Request, Release(q)
    PROVE  /\ seen' \in [Request -> [User -> Role \cup {NULL}]] /\ seen'[q] = NoRows
           /\ \A r \in Request \ {q} : seen'[r] = seen[r]
  BY NoneFit DEF Release, Base, TypeOK

\* A call ends where it is.
LEMMA EndMoves ==
    ASSUME Base, NEW q \in Request, pc[q] \notin {"free", "over"}, NEW a \in Answers, End(q, a),
           UNCHANGED <<call, changed>>, seen = seen' \/ Release(q),
           pc[q] = "enter" => Release(q),
           pc[q] = "locking" => Release(q) /\ wanted'[q] = {},
           wanted' = wanted \/ wanted' = [wanted EXCEPT ![q] = {}]
    PROVE  Moves(q) /\ Fits(q)' /\ Suits(q)'
<1>1. /\ pc' \in [Request -> Steps] /\ pc'[q] = "over"
      /\ answer' \in [Request -> Answers] /\ answer'[q] = a
      /\ \A r \in Request \ {q} : pc'[r] = pc[r] /\ answer'[r] = answer[r]
  BY EndIs
<1>2. /\ seen' \in [Request -> [User -> Role \cup {NULL}]] /\ seen'[q] = NoRows
      /\ \A r \in Request \ {q} : seen'[r] = seen[r]
  BY ReleaseIs DEF Base, TypeOK, Fits
<1>3. /\ wanted' \in [Request -> SUBSET User] /\ wanted'[q] = {}
      /\ \A r \in Request \ {q} : wanted'[r] = wanted[r]
  BY DEF Base, TypeOK, Fits
<1>4. Moves(q)
  BY <1>1, <1>2, <1>3 DEF Moves, call, Base, TypeOK
<1>5. Fits(q)'
  BY <1>1, <1>2, <1>3 DEF Fits
<1>6. Suits(q)'
  BY DEF Suits, Base, call, Home
<1> QED
  BY <1>4, <1>5, <1>6

\* A call commits its change.
LEMMA CommitMoves ==
    ASSUME Base, NEW q \in Request, pc[q] \in {"apply", "locking", "enter"}, Commit(q),
           UNCHANGED call, seen = seen' \/ Release(q),
           pc[q] # "apply" => Release(q),
           wanted' \in [Request -> SUBSET User], wanted'[q] = {},
           \A r \in Request \ {q} : wanted'[r] \subseteq wanted[r]
    PROVE  Moves(q) /\ Fits(q)' /\ Suits(q)'
<1>1. /\ pc' \in [Request -> Steps] /\ pc'[q] = "audit"
      /\ changed' \in [Request -> BOOLEAN] /\ changed'[q] /\ answer' = answer
      /\ \A r \in Request \ {q} : pc'[r] = pc[r] /\ changed'[r] = changed[r]
  BY CommitIs
<1>2. /\ seen' \in [Request -> [User -> Role \cup {NULL}]] /\ seen'[q] = NoRows
      /\ \A r \in Request \ {q} : seen'[r] = seen[r]
  BY ReleaseIs DEF Base, TypeOK, Fits
<1>4. Moves(q)
  BY <1>1, <1>2 DEF Moves, call, Base, TypeOK
<1>5. Fits(q) /\ answer[q] = "none"
  BY DEF Base, Fits
<1>6. Fits(q)'
  BY <1>1, <1>2, <1>5 DEF Fits, call
<1>7. Suits(q)'
  BY DEF Suits, Base, call, Home
<1> QED
  BY <1>4, <1>6, <1>7

\* A call goes on, with the same job and the same caller.
LEMMA GoesOn ==
    ASSUME Base, NEW q \in Request, NEW s \in Steps, pc' = [pc EXCEPT ![q] = s],
           UNCHANGED <<call, answer, locks>>,
           changed' \in {changed, [changed EXCEPT ![q] = TRUE]},
           \/ /\ pc[q] = "found" /\ changed' = [changed EXCEPT ![q] = TRUE]
              /\ \/ s = "enroll" /\ job[q].op = "register"
                 \/ s = "audit_new" /\ job[q].op # "register"
                 \/ s = "own" /\ Founder(q) \in User
           \/ pc[q] = "enroll" /\ s = "own"
           \/ pc[q] = "own" /\ s = "audit_new" /\ job[q].op # "register"
           \/ pc[q] = "apply" /\ s = "share" /\ job[q].op = "add_team_member"
           \/ pc[q] = "audit_new" /\ s = "audit"
    PROVE  Moves(q) /\ Fits(q)' /\ Suits(q)'
<1>1. /\ pc' \in [Request -> Steps] /\ pc'[q] = s
      /\ \A r \in Request \ {q} : pc'[r] = pc[r]
  BY DEF Base, TypeOK
<1>2. /\ changed' \in [Request -> BOOLEAN] /\ (changed[q] => changed'[q])
      /\ \A r \in Request \ {q} : changed'[r] = changed[r]
  BY DEF Base, TypeOK
<1>3. /\ Fits(q) /\ Suits(q) /\ pc[q] # "over" /\ s # "free" /\ answer[q] = "none"
  BY DEF Base, Fits
<1>4. Moves(q)
  BY <1>1, <1>2, <1>3 DEF Moves, call, locks, Base, TypeOK
<1>5. (changed'[q] /\ Founder(q)' = Founder(q) /\ job'[q] = job[q]) \/ pc[q] = "apply"
  BY <1>2, <1>3 DEF Base, TypeOK, Fits, call, Founder
<1>6. pc[q] = "enroll" => Founder(q) \in User
  BY <1>3 DEF Fits, Suits, Founder
<1>7. Fits(q)'
  BY <1>1, <1>2, <1>3, <1>5, <1>6 DEF Fits, call, locks, Founding
<1>8. Suits(q)'
  BY <1>3 DEF Suits, call, Home
<1> QED
  BY <1>4, <1>7, <1>8

\* A call begins.
LEMMA StartMoves ==
    ASSUME Base, NEW q \in Request, pc[q] = "free", UNCHANGED <<locks, changed, answer>>,
           NEW j \in Job, NEW p \in Caller, NEW s \in {"found", "apply", "issue"},
           job' = [job EXCEPT ![q] = j], who' = [who EXCEPT ![q] = p],
           pc' = [pc EXCEPT ![q] = s],
           s = "found" => j.op \in Founding,
           s = "apply" => j.op \notin {"none", "register", "token", "create_org"},
           s = "issue" => /\ j.op = "token"
                          /\ [user |-> p.user, org |-> p.org, role |-> p.role] \in Claims,
           Suits(q)'
    PROVE  Moves(q) /\ Fits(q)' /\ Suits(q)'
<1>1. /\ pc' \in [Request -> Steps] /\ pc'[q] = s /\ job' \in [Request -> Job] /\ job'[q] = j
      /\ who' \in [Request -> Caller] /\ who'[q] = p
      /\ \A r \in Request \ {q} : pc'[r] = pc[r] /\ job'[r] = job[r] /\ who'[r] = who[r]
  BY DEF Base, TypeOK, Steps
<1>2. /\ Fits(q) /\ answer[q] = "none" /\ wanted[q] = {} /\ seen[q] = NoRows /\ ~ changed[q]
  BY DEF Base, Fits
<1>3. Moves(q)
  BY <1>1, <1>2 DEF Moves, locks, Base, TypeOK
<1>4. Fits(q)'
  BY <1>1, <1>2 DEF Fits, locks
<1> QED
  BY <1>3, <1>4

\* What a job of an operation holds.
LEMMA WorksAre ==
    ASSUME NEW home, NEW op \in Offered, NEW j \in Works(home, op)
    PROVE  /\ j \in Job /\ j.op = op /\ op \notin {"none", "register", "token"}
           /\ op \in {"add_member", "set_role", "remove_member"} \cup OfTeams => j.user \in User
           /\ op \in {"add_member", "set_role", "create_key"} => j.role \in Role
           /\ op = "create_team" => j.team \in FreshTeam
           /\ op \in {"create_team", "delete_team"} \cup OfTeams => j.team \in Team
           /\ op \in {"create_key", "revoke_key"} => j.key \in Key
           /\ op = "create_org" => j.org \in FreshOrg /\ j.org \in Org
           /\ op # "create_org" => j.org = NULL
<1>1. op \in Ops
  BY IdentityAssumption
<1>2. CASE op = "create_org"
  <2>1. j \in {[Idle EXCEPT !.op = op, !.org = o] : o \in FreshOrg}
    BY <1>2 DEF Works
  <2> QED
    BY <1>2, <2>1 DEF FreshOrg, Idle, Job, Ops, OfTeams
<1>3. CASE op \in {"add_member", "set_role"}
  <2>1. j \in {[Idle EXCEPT !.op = op, !.user = w[1], !.role = w[2]] : w \in User \X Role}
    BY <1>3 DEF Works
  <2> QED
    BY <1>3, <2>1 DEF Idle, Job, Ops, OfTeams
<1>4. CASE op = "remove_member"
  <2>1. j \in {[Idle EXCEPT !.op = op, !.user = u] : u \in User}
    BY <1>4 DEF Works
  <2> QED
    BY <1>4, <2>1 DEF Idle, Job, Ops, OfTeams
<1>5. CASE op = "create_team"
  <2>1. j \in {[Idle EXCEPT !.op = op, !.team = t] : t \in FreshTeam}
    BY <1>5 DEF Works
  <2>2. FreshTeam \subseteq Team
    BY DEF FreshTeam
  <2> QED
    BY <1>5, <2>1, <2>2 DEF Idle, Job, Ops, OfTeams
<1>6. CASE op = "delete_team"
  <2>1. j \in {[Idle EXCEPT !.op = op, !.team = t] : t \in Team}
    BY <1>6 DEF Works
  <2> QED
    BY <1>6, <2>1 DEF Idle, Job, Ops, OfTeams
<1>7. CASE op \in OfTeams
  <2>1. j \in {[Idle EXCEPT !.op = op, !.team = w[1], !.user = w[2]] : w \in Team \X User}
    BY <1>7 DEF Works, OfTeams
  <2> QED
    BY <1>7, <2>1 DEF Idle, Job, Ops, OfTeams
<1>8. CASE op = "create_key"
  <2>1. j \in {[Idle EXCEPT !.op = op, !.key = w[1], !.role = w[2]] : w \in FreshKey \X Role}
    BY <1>8 DEF Works
  <2> QED
    BY <1>8, <2>1 DEF FreshKey, Idle, Job, Ops, OfTeams
<1>9. CASE op = "revoke_key"
  <2>1. j \in {[Idle EXCEPT !.op = op, !.key = k] : k \in Key}
    BY <1>9 DEF Works
  <2> QED
    BY <1>9, <2>1 DEF Idle, Job, Ops, OfTeams
<1>10. CASE op \in {"none", "register", "token"}
  <2>1. j \in {}
    BY <1>10 DEF Works
  <2> QED
    BY <2>1
<1> QED
  BY <1>1, <1>2, <1>3, <1>4, <1>5, <1>6, <1>7, <1>8, <1>9, <1>10 DEF Ops, OfTeams

\* A call is made by a principal of an organisation that is inhabited.
LEMMA CallIs ==
    ASSUME Base, NEW q \in Request, Call(q)
    PROVE  \E p \in Presented, op \in Offered : \E j \in Works(p.org, op) :
              /\ p \in Caller /\ p.org \in Org /\ Inhabited(p.org)
              /\ job' = [job EXCEPT ![q] = j] /\ job'[q] = j
              /\ who' = [who EXCEPT ![q] = p] /\ who'[q] = p
              /\ pc' = [pc EXCEPT ![q] = IF op = "create_org" THEN "found" ELSE "apply"]
<1>1. PICK p \in Presented, op \in Offered :
          /\ Needs(op) \in RolePermissions(p.role)
          /\ \E j \in Works(p.org, op) : job' = [job EXCEPT ![q] = j]
          /\ who' = [who EXCEPT ![q] = p]
          /\ pc' = [pc EXCEPT ![q] = IF op = "create_org" THEN "found" ELSE "apply"]
  BY DEF Call
<1>2. PICK j \in Works(p.org, op) : job' = [job EXCEPT ![q] = j]
  BY <1>1
<1>3. p \in Caller /\ p.org \in Org
  BY DEF Presented, Caller, Base, TypeOK, ListActiveKeys, Claims, KeyRow
<1>4. Inhabited(p.org)
  BY DEF Presented, Inhabited
<1> QED
  BY <1>1, <1>2, <1>3, <1>4 DEF Base, TypeOK

LEMMA CallMoves ==
    ASSUME Base, NEW q \in Request, Call(q) PROVE Moves(q) /\ Fits(q)' /\ Suits(q)'
<1>1. PICK p \in Presented, op \in Offered : \E j \in Works(p.org, op) :
              /\ p \in Caller /\ p.org \in Org
              /\ job' = [job EXCEPT ![q] = j] /\ job'[q] = j
              /\ who' = [who EXCEPT ![q] = p] /\ who'[q] = p
              /\ pc' = [pc EXCEPT ![q] = IF op = "create_org" THEN "found" ELSE "apply"]
  BY CallIs
<1>2. PICK j \in Works(p.org, op) : job' = [job EXCEPT ![q] = j] /\ job'[q] = j
  BY <1>1
<1>5. pc[q] = "free" /\ UNCHANGED <<locks, changed, answer>>
  BY DEF Call
<1>6. Suits(q)'
  BY <1>1, <1>2, WorksAre DEF Suits, Home, Founding, OfTeams
<1>7. j \in Job /\ j.op = op /\ op \notin {"none", "register", "token"}
  BY WorksAre
<1>8. CASE op = "create_org"
  <2>1. pc' = [pc EXCEPT ![q] = "found"]
    BY <1>1, <1>8
  <2> QED
    BY <1>1, <1>2, <1>5, <1>6, <1>7, <1>8, <2>1, StartMoves DEF Founding
<1>9. CASE op # "create_org"
  <2>1. pc' = [pc EXCEPT ![q] = "apply"]
    BY <1>1, <1>9
  <2> QED
    BY <1>1, <1>2, <1>5, <1>6, <1>7, <1>9, <2>1, StartMoves DEF Founding
<1> QED
  BY <1>8, <1>9

LEMMA RegisterMoves ==
    ASSUME Base, NEW q \in Request, NEW u \in User, Register(q, u)
    PROVE  Moves(q) /\ Fits(q)' /\ Suits(q)'
<1>1. PICK o \in FreshOrg :
          job' = [job EXCEPT ![q] = [Idle EXCEPT !.op = "register", !.user = u,
                                                 !.role = "owner", !.org = o]]
  BY DEF Register
<1> DEFINE j == [Idle EXCEPT !.op = "register", !.user = u, !.role = "owner", !.org = o]
<1>2. j \in Job /\ j.op = "register" /\ j.user = u /\ j.org \in Org
  BY NullIsNone DEF Idle, Job, Ops, FreshOrg
<1>3. /\ pc[q] = "free" /\ UNCHANGED <<locks, changed, answer>> /\ who' = who
      /\ pc' = [pc EXCEPT ![q] = "found"]
  BY DEF Register
<1>4. who' = [who EXCEPT ![q] = who[q]] /\ who[q] \in Caller /\ job'[q] = j
  BY <1>1, <1>3 DEF Base, TypeOK
<1> HIDE DEF j
<1>5. Suits(q)'
  BY <1>2, <1>4 DEF Suits, Founding, OfTeams
<1> QED
  BY <1>1, <1>2, <1>3, <1>4, <1>5, StartMoves DEF j, Founding

LEMMA SignInMoves ==
    ASSUME Base, NEW q \in Request, NEW u \in User, Login(q, u) \/ Refresh(q)
    PROVE  Moves(q) /\ Fits(q)' /\ Suits(q)'
<1>1. PICK c \in Claims : who' = [who EXCEPT ![q] = [user |-> c.user, key |-> NULL,
                                                     org |-> c.org, role |-> c.role]]
  <2>1. CASE Refresh(q)
    BY <2>1 DEF Refresh, Base, TypeOK
  <2>2. CASE Login(q, u)
    <3>1. PICK o \in Org : /\ role[o][u] # NULL
                           /\ who' = [who EXCEPT ![q] = [user |-> u, key |-> NULL, org |-> o,
                                                         role |-> role[o][u]]]
      BY <2>2 DEF Login
    <3>2. [user |-> u, org |-> o, role |-> role[o][u]] \in Claims
      BY <3>1 DEF Base, TypeOK, Claims
    <3> QED
      BY <3>1, <3>2
  <2> QED
    BY <2>1, <2>2
<1> DEFINE p == [user |-> c.user, key |-> NULL, org |-> c.org, role |-> c.role]
           j == [Idle EXCEPT !.op = "token"]
<1>2. p \in Caller /\ [user |-> p.user, org |-> p.org, role |-> p.role] \in Claims
  BY DEF Caller, Claims
<1>3. /\ pc[q] = "free" /\ UNCHANGED <<locks, changed, answer>>
      /\ pc' = [pc EXCEPT ![q] = "issue"] /\ job' = [job EXCEPT ![q].op = "token"]
  BY DEF Login, Refresh
<1>4. job[q] = Idle
  BY <1>3 DEF Base, Fits
<1>5. j \in Job /\ j.op = "token"
  BY DEF Idle, Job, Ops
<1>6. job' = [job EXCEPT ![q] = j] /\ job'[q] = j
  BY <1>3, <1>4 DEF Base, TypeOK
<1> HIDE DEF p, j
<1>7. Suits(q)'
  BY <1>5, <1>6 DEF Suits, Founding, OfTeams
<1> QED
  BY <1>1, <1>2, <1>3, <1>5, <1>6, <1>7, StartMoves DEF p

LEMMA ActsMove ==
    ASSUME Base, NEW q \in Request, Acts(q)
    PROVE  Moves(q) /\ Fits(q)' /\ Suits(q)'
<1> USE DEF Steps, Answers
<1>0. /\ Fits(q) /\ Suits(q) /\ wanted \in [Request -> SUBSET User]
      /\ pc[q] \in {"apply", "enter"} => wanted[q] = {}
  BY DEF Base, TypeOK, Fits
<1>1. CASE Call(q) \/ Refresh(q) \/ \E u \in User : Register(q, u) \/ Login(q, u)
  <2>1. CASE Refresh(q)
    <3>1. \E u \in User : TRUE
      BY <2>1 DEF Refresh, Base, TypeOK, Claims
    <3> QED
      BY <2>1, <3>1, SignInMoves
  <2> QED
    BY <1>1, <2>1, CallMoves, RegisterMoves, SignInMoves
<1>2. CASE CreateOrganization(q)
  <2>1. \E s \in {"enroll", "audit_new", "own"} :
           /\ pc' = [pc EXCEPT ![q] = s]
           /\ s = "enroll" => job[q].op = "register"
           /\ s = "audit_new" => job[q].op # "register"
           /\ s = "own" => job[q].op # "register" /\ who[q].user # NULL
    BY <1>2 DEF CreateOrganization
  <2>2. PICK s \in {"enroll", "audit_new", "own"} :
           /\ pc' = [pc EXCEPT ![q] = s]
           /\ s = "enroll" => job[q].op = "register"
           /\ s = "audit_new" => job[q].op # "register"
           /\ s = "own" => job[q].op # "register" /\ who[q].user # NULL
    BY <2>1
  <2>3. s = "own" => Founder(q) \in User
    BY <2>2 DEF Founder, Base, TypeOK, Caller
  <2>4. /\ pc[q] = "found" /\ changed' = [changed EXCEPT ![q] = TRUE]
        /\ UNCHANGED <<call, answer, locks>>
    BY <1>2 DEF CreateOrganization
  <2> QED
    BY <2>2, <2>3, <2>4, GoesOn
<1>3. CASE CreateUser(q)
  <2>1. CASE job[q].user \in users
    <3>1. /\ End(q, "refused") /\ pc[q] = "enroll" /\ UNCHANGED <<call, changed, locks>>
      BY <1>3, <2>1 DEF CreateUser
    <3> QED
      BY <3>1, EndMoves DEF locks
  <2>2. CASE job[q].user \notin users
    <3>1. /\ pc' = [pc EXCEPT ![q] = "own"] /\ pc[q] = "enroll"
          /\ UNCHANGED <<call, answer, changed, locks>>
      BY <1>3, <2>2 DEF CreateUser
    <3> QED
      BY <3>1, GoesOn
  <2> QED
    BY <2>1, <2>2
<1>4. CASE AddFounder(q)
  <2>1. CASE job[q].op # "register"
    <3>1. /\ pc' = [pc EXCEPT ![q] = "audit_new"] /\ pc[q] = "own"
          /\ UNCHANGED <<call, answer, changed, locks>>
      BY <1>4, <2>1 DEF AddFounder, call
    <3> QED
      BY <2>1, <3>1, GoesOn
  <2>2. CASE job[q].op = "register"
    <3> DEFINE p == [user |-> job[q].user, key |-> NULL, org |-> job[q].org, role |-> "owner"]
    <3>1. /\ who' = [who EXCEPT ![q] = p] /\ pc' = [pc EXCEPT ![q] = "issue"] /\ pc[q] = "own"
          /\ UNCHANGED <<job, locks, changed, answer>>
      BY <1>4, <2>2 DEF AddFounder
    <3>2. p \in Caller /\ [user |-> p.user, org |-> p.org, role |-> p.role] \in Claims
      BY <1>0, <2>2, NullIsNone DEF Suits, Founding, Caller, Claims
    <3> HIDE DEF p
    <3>3. /\ pc' \in [Request -> Steps] /\ pc'[q] = "issue"
          /\ who' \in [Request -> Caller] /\ who'[q] = p
          /\ \A r \in Request \ {q} : pc'[r] = pc[r] /\ who'[r] = who[r]
      BY <3>1, <3>2 DEF Base, TypeOK
    <3>4. Moves(q)
      BY <3>1, <3>3 DEF Moves, locks, Base, TypeOK
    <3>5. Fits(q)'
      BY <1>0, <2>2, <3>1, <3>2, <3>3 DEF Fits, locks
    <3>6. Suits(q)'
      BY <1>0, <2>2, <3>1 DEF Suits
    <3> QED
      BY <3>4, <3>5, <3>6
  <2> QED
    BY <2>1, <2>2
<1>5. CASE Issue(q)
  BY <1>5, EndMoves DEF Issue, locks, call
<1>6. CASE AddMember(q)
  BY <1>0, <1>6, EndMoves, CommitMoves DEF AddMember, locks, call
<1>7. CASE LockOrgRoles(q)
  <2>1. /\ pc[q] = "apply" /\ job[q].op \in {"set_role", "remove_member"}
        /\ wanted' = [wanted EXCEPT ![q] = Members(Home(q))]
        /\ pc' = [pc EXCEPT ![q] = "locking"]
        /\ UNCHANGED <<call, seen, changed, answer>>
    BY <1>7 DEF LockOrgRoles
  <2>2. Members(Home(q)) \in SUBSET User
    BY DEF Members
  <2>3. /\ pc' \in [Request -> Steps] /\ pc'[q] = "locking" /\ wanted' \in [Request -> SUBSET User]
        /\ \A r \in Request \ {q} : pc'[r] = pc[r] /\ wanted'[r] = wanted[r]
    BY <2>1, <2>2 DEF Base, TypeOK
  <2>4. Moves(q)
    BY <2>1, <2>3 DEF Moves, call, Base, TypeOK
  <2>5. Fits(q)'
    BY <1>0, <2>1, <2>3 DEF Fits, call
  <2>6. Suits(q)'
    BY <1>0, <2>1 DEF Suits, call, Home
  <2> QED
    BY <2>4, <2>5, <2>6
<1>8. CASE LockRow(q)
  <2>1. /\ pc[q] = "locking" /\ wanted[q] # {}
        /\ wanted' = [wanted EXCEPT ![q] = wanted[q] \ {NextRow(q)}]
        /\ seen' = [seen EXCEPT ![q] = [seen[q] EXCEPT ![NextRow(q)] = role[Home(q)][NextRow(q)]]]
        /\ UNCHANGED <<call, pc, changed, answer>>
    BY <1>8 DEF LockRow
  <2>2. Home(q) \in Org /\ NextRow(q) \in User
    BY <1>0, <2>1, NextRowIs DEF Suits, Fits
  <2>3. [seen[q] EXCEPT ![NextRow(q)] = role[Home(q)][NextRow(q)]] \in [User -> Role \cup {NULL}]
    BY <2>2 DEF Base, TypeOK
  <2>4. /\ seen' \in [Request -> [User -> Role \cup {NULL}]]
        /\ wanted' \in [Request -> SUBSET User]
        /\ \A r \in Request \ {q} : seen'[r] = seen[r] /\ wanted'[r] = wanted[r]
    BY <2>1, <2>3 DEF Base, TypeOK
  <2>5. Moves(q)
    BY <2>1, <2>4 DEF Moves, call, Base, TypeOK
  <2>6. Fits(q)'
    BY <1>0, <2>1 DEF Fits, call
  <2>7. Suits(q)'
    BY <1>0, <2>1 DEF Suits, call, Home
  <2> QED
    BY <2>5, <2>6, <2>7
<1>9. CASE UpdateMembershipRole(q)
  <2>1. /\ pc[q] = "locking" /\ wanted[q] = {} /\ Release(q) /\ UNCHANGED <<call, wanted>>
        /\ (End(q, "refused") /\ UNCHANGED changed) \/ Commit(q)
    BY <1>9 DEF UpdateMembershipRole, Locked
  <2> QED
    BY <1>0, <2>1, EndMoves, CommitMoves
<1>10. CASE RemoveMembership(q)
  <2>1. /\ pc[q] = "locking" /\ wanted[q] = {} /\ Release(q) /\ UNCHANGED call
        /\ \/ End(q, "refused") /\ UNCHANGED <<changed, wanted>>
           \/ /\ Commit(q)
              /\ wanted' = [r \in Request |-> IF Home(r) = Home(q)
                                              THEN wanted[r] \ {Target(q)} ELSE wanted[r]]
    BY <1>10 DEF RemoveMembership, Locked
  <2>2. CASE End(q, "refused") /\ UNCHANGED <<changed, wanted>>
    BY <2>1, <2>2, EndMoves
  <2>3. CASE /\ Commit(q)
             /\ wanted' = [r \in Request |-> IF Home(r) = Home(q)
                                             THEN wanted[r] \ {Target(q)} ELSE wanted[r]]
    <3>1. /\ wanted' \in [Request -> SUBSET User] /\ wanted'[q] = {}
          /\ \A r \in Request \ {q} : wanted'[r] \subseteq wanted[r]
      BY <1>0, <2>1, <2>3
    <3> QED
      BY <2>1, <2>3, <3>1, CommitMoves
  <2> QED
    BY <2>1, <2>2, <2>3
<1>11. CASE CreateTeam(q) \/ CreateKey(q)
  BY <1>0, <1>11, CommitMoves DEF CreateTeam, CreateKey, locks
<1>12. CASE DeleteTeam(q) \/ RemoveTeamMember(q) \/ RevokeKey(q)
  <2>1. /\ pc[q] = "apply" /\ UNCHANGED <<call, locks>>
        /\ (End(q, "refused") /\ UNCHANGED changed) \/ Commit(q)
    BY <1>12 DEF DeleteTeam, RemoveTeamMember, RevokeKey
  <2> QED
    BY <1>0, <2>1, EndMoves, CommitMoves DEF locks
<1>13. CASE ResolveTeam(q)
  <2>1. /\ pc[q] = "apply" /\ job[q].op = "add_team_member" /\ UNCHANGED <<call, locks, changed>>
        /\ \/ End(q, "refused")
           \/ pc' = [pc EXCEPT ![q] = "share"] /\ UNCHANGED answer
    BY <1>13 DEF ResolveTeam
  <2> QED
    BY <2>1, EndMoves, GoesOn DEF locks
<1>14. CASE ShareMembership(q)
  <2> DEFINE o == teamOf[job[q].team]
  <2>1. CASE o # NULL /\ Target(q) \in Members(o)
    <3>1. /\ seen' = [seen EXCEPT ![q] = [seen[q] EXCEPT ![Target(q)] = role[o][Target(q)]]]
          /\ pc' = [pc EXCEPT ![q] = "enter"] /\ pc[q] = "share"
          /\ UNCHANGED <<call, wanted, changed, answer>>
      BY <1>14, <2>1 DEF ShareMembership
    <3>2. Target(q) \in User /\ o \in Org
      BY <1>0, <2>1, <3>1 DEF Suits, Fits, OfTeams, Target, Base, TypeOK
    <3>3. [seen[q] EXCEPT ![Target(q)] = role[o][Target(q)]] \in [User -> Role \cup {NULL}]
      BY <3>2 DEF Base, TypeOK
    <3>4. /\ pc' \in [Request -> Steps] /\ pc'[q] = "enter"
          /\ seen' \in [Request -> [User -> Role \cup {NULL}]]
          /\ \A r \in Request \ {q} : pc'[r] = pc[r] /\ seen'[r] = seen[r]
      BY <3>1, <3>3 DEF Base, TypeOK
    <3>5. Moves(q)
      BY <3>1, <3>4 DEF Moves, call, Base, TypeOK
    <3>6. Fits(q)'
      BY <1>0, <3>1, <3>4 DEF Fits, call
    <3>7. Suits(q)'
      BY <1>0, <3>1 DEF Suits, call, Home
    <3> QED
      BY <3>5, <3>6, <3>7
  <2>2. CASE ~ (o # NULL /\ Target(q) \in Members(o))
    <3>1. /\ End(q, "refused") /\ pc[q] = "share" /\ UNCHANGED <<call, wanted, changed, seen>>
      BY <1>14, <2>2 DEF ShareMembership
    <3> QED
      BY <3>1, EndMoves
  <2> QED
    BY <2>1, <2>2
<1>15. CASE AddTeamMember(q)
  <2>1. /\ pc[q] = "enter" /\ Release(q) /\ UNCHANGED <<call, wanted>>
        /\ (End(q, "failed") /\ UNCHANGED changed) \/ Commit(q)
    BY <1>15 DEF AddTeamMember
  <2> QED
    BY <1>0, <2>1, EndMoves, CommitMoves
<1>16. CASE Record(q) \/ RecordFails(q)
  <2>1. /\ pc[q] \in {"audit_new", "audit"} /\ UNCHANGED <<call, locks, changed>>
        /\ \/ End(q, "done") \/ End(q, "unrecorded")
           \/ pc[q] = "audit_new" /\ pc' = [pc EXCEPT ![q] = "audit"] /\ UNCHANGED answer
    BY <1>16 DEF Record, RecordFails, Recorded
  <2> QED
    BY <2>1, EndMoves, GoesOn DEF locks
<1>17. CASE Fail(q)
  <2>1. /\ pc[q] \notin {"free", "over"} /\ End(q, "failed") /\ Release(q)
        /\ wanted' = [wanted EXCEPT ![q] = {}] /\ UNCHANGED <<call, changed>>
    BY <1>17 DEF Fail
  <2>2. wanted'[q] = {}
    BY <1>0, <2>1
  <2> QED
    BY <2>1, <2>2, EndMoves
<1> QED
  BY <1>1, <1>2, <1>3, <1>4, <1>5, <1>6, <1>7, <1>8, <1>9, <1>10, <1>11, <1>12, <1>13, <1>14,
     <1>15, <1>16, <1>17 DEF Acts

\* What the tables hold stays what they may hold.
TablesOK ==
    /\ users \subseteq User /\ orgs \subseteq Org
    /\ role \in [Org -> [User -> Role \cup {NULL}]]
    /\ teamOf \in [Team -> Org \cup {NULL}]
    /\ inTeam \subseteq Team \X User
    /\ keys \in [Key -> KeyRow \cup {NULL}]
    /\ tokens \subseteq Claims /\ trail \subseteq Request \X Org

\* A membership is written: one row of one roster.
LEMMA MembershipIs ==
    ASSUME Base, NEW o \in Org, NEW u \in User, NEW r \in Role \cup {NULL},
           role' = [role EXCEPT ![o][u] = r]
    PROVE  /\ role' \in [Org -> [User -> Role \cup {NULL}]] /\ role'[o][u] = r
           /\ \A v \in User : v # u => role'[o][v] = role[o][v]
           /\ \A p \in Org : p # o => role'[p] = role[p]
<1>1. role' = [role EXCEPT ![o] = [role[o] EXCEPT ![u] = r]]
  OBVIOUS
<1>2. [role[o] EXCEPT ![u] = r] \in [User -> Role \cup {NULL}]
  BY DEF Base, TypeOK
<1>3. role'[o] = [role[o] EXCEPT ![u] = r]
  BY <1>1 DEF Base, TypeOK
<1> QED
  BY <1>1, <1>2, <1>3 DEF Base, TypeOK

LEMMA TablesStay == ASSUME Base, NEW q \in Request, Acts(q) PROVE TablesOK'
<1>0. /\ Fits(q) /\ Suits(q) /\ TablesOK
  BY DEF Base, TypeOK, TablesOK
<1>1. CASE UNCHANGED <<tables, tokens, trail>>
  BY <1>0, <1>1 DEF TablesOK, tables
<1>2. CASE CreateOrganization(q) \/ CreateUser(q)
  BY <1>0, <1>2 DEF CreateOrganization, CreateUser, Fits, Suits, Founding, TablesOK
<1>3. CASE AddFounder(q)
  <2>1. job[q].org \in Org /\ Founder(q) \in User /\ "owner" \in Role
    BY <1>0, <1>3, NullIsNone DEF AddFounder, Fits, Suits, Founding
  <2>2. role' \in [Org -> [User -> Role \cup {NULL}]]
    BY <1>3, <2>1, MembershipIs DEF AddFounder, AddMembership
  <2> QED
    BY <1>0, <1>3, <2>2 DEF AddFounder, TablesOK
<1>4. CASE Issue(q)
  BY <1>0, <1>4 DEF Issue, Fits, TablesOK, tables
<1>5. CASE AddMember(q) \/ UpdateMembershipRole(q)
  <2>1. /\ role' = role \/ AddMembership(Home(q), Target(q), job[q].role)
        /\ job[q].op \in {"add_member", "set_role"}
        /\ UNCHANGED <<users, orgs, teamOf, inTeam, keys, tokens, trail>>
    BY <1>5 DEF AddMember, UpdateMembershipRole
  <2>2. Home(q) \in Org /\ Target(q) \in User /\ job[q].role \in Role
    BY <1>0, <2>1 DEF Suits, Target
  <2>3. role' \in [Org -> [User -> Role \cup {NULL}]]
    BY <1>0, <2>1, <2>2, MembershipIs DEF AddMembership, TablesOK
  <2> QED
    BY <1>0, <2>1, <2>3 DEF TablesOK
<1>6. CASE RemoveMembership(q)
  <2>1. /\ role' = role \/ role' = [role EXCEPT ![Home(q)][Target(q)] = NULL]
        /\ job[q].op = "remove_member" /\ inTeam' \subseteq inTeam
        /\ UNCHANGED <<users, orgs, teamOf, keys, tokens, trail>>
    BY <1>6 DEF RemoveMembership
  <2>2. Home(q) \in Org /\ Target(q) \in User
    BY <1>0, <2>1 DEF Suits, Target
  <2>3. role' \in [Org -> [User -> Role \cup {NULL}]]
    BY <1>0, <2>1, <2>2, MembershipIs DEF TablesOK
  <2> QED
    BY <1>0, <2>1, <2>3 DEF TablesOK
<1>7. CASE CreateTeam(q) \/ DeleteTeam(q)
  <2>1. Home(q) \in Org
    BY <1>0, <1>7 DEF CreateTeam, DeleteTeam, Suits
  <2> QED
    BY <1>0, <1>7, <2>1 DEF CreateTeam, DeleteTeam, TablesOK
<1>8. CASE AddTeamMember(q) \/ RemoveTeamMember(q)
  <2>1. job[q].team \in Team /\ Target(q) \in User
    BY <1>0, <1>8 DEF AddTeamMember, RemoveTeamMember, Fits, Suits, OfTeams, Target
  <2> QED
    BY <1>0, <1>8, <2>1 DEF AddTeamMember, RemoveTeamMember, TablesOK
<1>9. CASE CreateKey(q)
  <2>1. [org |-> Home(q), role |-> job[q].role, revoked |-> FALSE] \in KeyRow
    BY <1>0, <1>9 DEF CreateKey, Suits, KeyRow
  <2> QED
    BY <1>0, <1>9, <2>1 DEF CreateKey, TablesOK
<1>10. CASE RevokeKey(q)
  <2>1. keys' = keys \/ /\ keys[job[q].key] # NULL
                        /\ keys' = [keys EXCEPT ![job[q].key] =
                               [org |-> Home(q), role |-> keys[job[q].key].role, revoked |-> TRUE]]
    BY <1>10 DEF RevokeKey
  <2>2. job[q].key \in Key /\ Home(q) \in Org
    BY <1>0, <1>10 DEF RevokeKey, Suits
  <2> DEFINE k == job[q].key
  <2>3. keys[k] # NULL => [org |-> Home(q), role |-> keys[k].role, revoked |-> TRUE] \in KeyRow
    BY <1>0, <2>2 DEF TablesOK, KeyRow
  <2>4. keys' \in [Key -> KeyRow \cup {NULL}]
    BY <1>0, <2>1, <2>3 DEF TablesOK
  <2> QED
    BY <1>0, <1>10, <2>4 DEF RevokeKey, TablesOK
<1>11. CASE Record(q)
  <2>1. TrailOf(q) \in Org
    BY <1>0, <1>11 DEF Record, TrailOf, Fits, Suits, Founding
  <2> QED
    BY <1>0, <1>11, <2>1 DEF Record, TablesOK, tables
<1> QED
  BY <1>1, <1>2, <1>3, <1>4, <1>5, <1>6, <1>7, <1>8, <1>9, <1>10, <1>11 DEF Acts, Call, Register,
     Login, Refresh, LockOrgRoles, LockRow, ResolveTeam, ShareMembership, RecordFails, Fail

LEMMA BaseMoves ==
    ASSUME Base, NEW q \in Request, Moves(q), Fits(q)', Suits(q)', TablesOK' PROVE Base'
<1>1. ASSUME NEW r \in Request \ {q} PROVE Suits(r)' /\ Fits(r)'
  <2>1. /\ Fits(r) /\ Suits(r) /\ job'[r] = job[r] /\ who'[r] = who[r] /\ pc'[r] = pc[r]
        /\ answer'[r] = answer[r] /\ seen'[r] = seen[r] /\ changed'[r] = changed[r]
        /\ wanted'[r] \subseteq wanted[r]
    BY DEF Base, Moves
  <2> QED
    BY <2>1 DEF Fits, Suits, Home, Founder
<1>2. IsFiniteSet(Active')
  <2>1. Active' \subseteq Active \cup {q}
    BY DEF Active, Moves
  <2>2. IsFiniteSet(Active \cup {q})
    BY FS_AddElement DEF Base
  <2> QED
    BY <2>1, <2>2, FS_Subset
<1>3. TypeOK'
  BY DEF TypeOK, TablesOK, Moves
<1> QED
  BY <1>1, <1>2, <1>3 DEF Base

LEMMA BaseInit == Init => Base
<1> SUFFICES ASSUME Init PROVE Base
  OBVIOUS
<1>1. Active = {} /\ IsFiniteSet(Active)
  BY FS_EmptySet DEF Init, Active
<1>2. role \in [Org -> [User -> Role \cup {NULL}]] /\ orgs \subseteq Org /\ users \subseteq User
  BY IdentityAssumption DEF Init
<1>3. keys \in [Key -> KeyRow \cup {NULL}]
  BY <1>2, NullIsNone DEF Init, KeyRow
<1>4. TypeOK
  BY <1>2, <1>3, NoneFit DEF Init, TypeOK, Steps, Answers
<1>5. \A q \in Request : Fits(q) /\ Suits(q)
  BY NoneFit DEF Init, Fits, Suits, Founding, OfTeams
<1> QED
  BY <1>1, <1>4, <1>5 DEF Base

LEMMA StutterBase == Base /\ UNCHANGED vars => Base'
  BY DEF Base, vars, tables, TypeOK, Fits, Suits, Active, Home, Founder

LEMMA BaseStep ==
    ASSUME Base, [Next]_vars
    PROVE  Base' /\ (UNCHANGED vars \/ \E q \in Request : Acts(q) /\ Moves(q))
<1>1. CASE UNCHANGED vars
  BY <1>1, StutterBase
<1>2. ASSUME NEW q \in Request, Acts(q)
      PROVE  Base' /\ (UNCHANGED vars \/ \E r \in Request : Acts(r) /\ Moves(r))
  BY <1>2, ActsMove, TablesStay, BaseMoves
<1> QED
  BY <1>1, <1>2 DEF Next, Acts

(***************************************************************************)
(* Every variable has its type, whatever is called.                        *)
(***************************************************************************)
THEOREM TypeCorrect == Spec => []TypeOK
<1>1. Base => TypeOK
  BY DEF Base
<1>2. Base /\ [Next]_vars => Base'
  BY BaseStep
<1> QED
  BY BaseInit, <1>1, <1>2, PTL DEF Spec

-----------------------------------------------------------------------------
(* The trail.                                                              *)

(***************************************************************************)
(* A call has an event only once its change is committed, and in a trail   *)
(* of its own; where the trail is required, a founding has its first event *)
(* before it asks for the second.                                          *)
(***************************************************************************)
Trailed(q) ==
    /\ \A o \in Org : <<q, o>> \in trail =>
          changed[q] /\ o \in {Home(q), job[q].org} /\ pc[q] \in {"audit", "over"}
    /\ AuditRequired /\ pc[q] = "audit" /\ job[q].op = "create_org" =>
          <<q, job[q].org>> \in trail
    /\ AuditRequired /\ answer[q] = "done" /\ job[q].op \notin {"register", "token"} =>
          /\ <<q, Home(q)>> \in trail
          /\ job[q].op = "create_org" => <<q, job[q].org>> \in trail

TrailInv == \A q \in Request : Trailed(q)

LEMMA TrailInit == Init => TrailInv
  BY DEF Init, TrailInv, Trailed

\* A call that has not come to the trail, or goes past it unrecorded.
LEMMA NotRecorded ==
    ASSUME Base, NEW q \in Request, Moves(q), Trailed(q), trail' = trail,
           pc[q] = "audit" => pc'[q] = "over",
           pc'[q] = "audit" /\ job'[q].op = "create_org" => ~ AuditRequired,
           answer'[q] = "done" => \/ job'[q].op \in {"register", "token"}
                                  \/ ~ AuditRequired
    PROVE  Trailed(q)'
<1>1. /\ Fits(q)
      /\ \A o \in Org : <<q, o>> \in trail =>
            changed[q] /\ o \in {Home(q), job[q].org} /\ pc[q] = "audit"
  BY DEF Trailed, Base, Moves
<1>2. \A o \in Org : <<q, o>> \in trail' =>
            changed'[q] /\ o \in {Home(q), job[q].org}' /\ pc'[q] \in {"audit", "over"}
  BY <1>1 DEF Moves, Home
<1> QED
  BY <1>2 DEF Trailed

LEMMA TrailGrows ==
    ASSUME NEW q \in Request, Acts(q)
    PROVE  trail' = trail \/ (Record(q) /\ trail' = trail \cup {<<q, TrailOf(q)>>})
  BY DEF Acts, Call, CreateOrganization, CreateUser, AddFounder, Refresh, Issue,
     AddMember, LockOrgRoles, LockRow, UpdateMembershipRole, RemoveMembership, CreateTeam,
     DeleteTeam, ResolveTeam, ShareMembership, AddTeamMember, RemoveTeamMember, CreateKey,
     RevokeKey, Record, RecordFails, Fail, Register, Login

LEMMA TrailStep == Base /\ TrailInv /\ [Next]_vars => TrailInv'
<1> SUFFICES ASSUME Base, TrailInv, [Next]_vars PROVE TrailInv'
  OBVIOUS
<1>1. CASE UNCHANGED vars
  BY <1>1 DEF vars, TrailInv, Trailed, Home
<1>2. ASSUME NEW q \in Request, Acts(q), Moves(q) PROVE TrailInv'
  <2>0. /\ Fits(q) /\ Suits(q) /\ Trailed(q)
    BY DEF Base, TrailInv
  <2>1. ASSUME NEW r \in Request \ {q} PROVE Trailed(r)'
    <3>1. \A o : <<r, o>> \in trail' <=> <<r, o>> \in trail
      BY <1>2, <2>1, TrailGrows
    <3>2. /\ job'[r] = job[r] /\ who'[r] = who[r] /\ pc'[r] = pc[r] /\ answer'[r] = answer[r]
          /\ changed'[r] = changed[r] /\ Trailed(r)
      BY <1>2 DEF Moves, TrailInv
    <3> QED
      BY <3>1, <3>2 DEF Trailed, Home
  <2>2. ASSUME Record(q) PROVE Trailed(q)'
    <3>1. /\ trail' = trail \cup {<<q, TrailOf(q)>>} /\ pc[q] \in {"audit_new", "audit"}
          /\ UNCHANGED <<job, who, changed>> /\ changed[q] /\ answer[q] = "none"
      BY <2>0, <2>2 DEF Record, Fits, call
    <3>2. TrailOf(q) \in {Home(q), job[q].org}
      BY DEF TrailOf
    <3>3. CASE pc[q] = "audit_new"
      <4>1. pc'[q] = "audit" /\ answer'[q] = "none" /\ TrailOf(q) = job[q].org
        BY <2>2, <3>1, <3>3 DEF Record, Recorded, TrailOf, Base, TypeOK
      <4> QED
        BY <2>0, <3>1, <3>2, <4>1 DEF Trailed, Home
    <3>4. CASE pc[q] = "audit"
      <4>1. pc'[q] = "over" /\ answer'[q] = "done" /\ TrailOf(q) = Home(q)
        BY <2>2, <3>4 DEF Record, Recorded, TrailOf, End, Base, TypeOK
      <4> QED
        BY <2>0, <3>1, <3>2, <3>4, <4>1 DEF Trailed, Home
    <3> QED
      BY <3>1, <3>3, <3>4
  <2>3. ASSUME RecordFails(q) PROVE Trailed(q)'
    <3>1. /\ pc[q] \in {"audit_new", "audit"} /\ trail' = trail
          /\ pc[q] = "audit" => pc'[q] = "over"
          /\ AuditRequired => pc'[q] = "over" /\ answer'[q] = "unrecorded"
      BY <2>3 DEF RecordFails, Recorded, End, Base, TypeOK
    <3> QED
      BY <1>2, <2>0, <3>1, NotRecorded
  <2>4. ASSUME Issue(q) PROVE Trailed(q)'
    <3>1. pc[q] = "issue" /\ trail' = trail /\ pc'[q] = "over" /\ job' = job
      BY <2>4 DEF Issue, End, call, Base, TypeOK
    <3> QED
      BY <1>2, <2>0, <3>1, NotRecorded DEF Fits
  <2>5. ASSUME ~ (Record(q) \/ RecordFails(q) \/ Issue(q)) PROVE Trailed(q)'
    <3>1. trail' = trail
      BY <1>2, <2>5, TrailGrows
    <3>2. answer'[q] # "done" /\ (pc[q] = "audit" => pc'[q] = "over")
      BY <1>2, <2>0, <2>5 DEF Acts, Call, CreateOrganization, CreateUser, AddFounder, Refresh,
         AddMember, LockOrgRoles, LockRow, UpdateMembershipRole, RemoveMembership, CreateTeam,
         DeleteTeam, ResolveTeam, ShareMembership, AddTeamMember, RemoveTeamMember, CreateKey,
         RevokeKey, Fail, Register, Login, End, Commit, Locked, Fits, Base, TypeOK
    <3>3. pc'[q] = "audit" => job'[q].op # "create_org"
      BY <1>2, <2>0, <2>5 DEF Acts, Call, CreateOrganization, CreateUser, AddFounder, Refresh,
         AddMember, LockOrgRoles, LockRow, UpdateMembershipRole, RemoveMembership, CreateTeam,
         DeleteTeam, ResolveTeam, ShareMembership, AddTeamMember, RemoveTeamMember, CreateKey,
         RevokeKey, Fail, Register, Login, End, Commit, Locked, Fits, call, Base, TypeOK
    <3> QED
      BY <1>2, <2>0, <3>1, <3>2, <3>3, NotRecorded
  <2> QED
    BY <2>1, <2>2, <2>3, <2>4, <2>5 DEF TrailInv
<1> QED
  BY <1>1, <1>2, BaseStep

(***************************************************************************)
(* Every event names a committed change, in a trail it belongs to; and     *)
(* where the trail is required no change is acknowledged without all of    *)
(* its events, whatever fails between the change and the trail.            *)
(***************************************************************************)
THEOREM TrailAlwaysMatchesChanges == Spec => []TrailMatchesChanges
<1>1. Base /\ TrailInv => TrailMatchesChanges
  <2> SUFFICES ASSUME Base, TrailInv PROVE TrailMatchesChanges
    OBVIOUS
  <2>1. ASSUME NEW e \in trail PROVE changed[e[1]] /\ e[2] \in {Home(e[1]), job[e[1]].org}
    <3>1. e[1] \in Request /\ e[2] \in Org /\ <<e[1], e[2]>> \in trail
      <4>1. e \in Request \X Org
        BY <2>1 DEF Base, TypeOK
      <4>2. e = <<e[1], e[2]>>
        BY <4>1
      <4> QED
        BY <2>1, <4>1, <4>2
    <3> QED
      BY <3>1 DEF TrailInv, Trailed
  <2> QED
    BY <2>1 DEF TrailInv, Trailed, TrailMatchesChanges
<1>2. Base /\ TrailInv /\ [Next]_vars => (Base /\ TrailInv)'
  BY BaseStep, TrailStep
<1> QED
  BY BaseInit, TrailInit, <1>1, <1>2, PTL DEF Spec

-----------------------------------------------------------------------------
(* Rosters and their rows' locks.                                          *)

(***************************************************************************)
(* A row is locked in the order of the ids; by two calls at once only to   *)
(* be shared; and while it is locked it is as it was read.                 *)
(***************************************************************************)
LockInv ==
    /\ \A q \in Request : \A u \in HeldBy(q), v \in wanted[q] : u < v
    /\ \A q, r \in Request : q # r /\ Home(q) = Home(r) /\ HeldBy(q) \cap HeldBy(r) # {} =>
          pc[q] = "enter" /\ pc[r] = "enter"
    /\ \A q \in Request : \A u \in HeldBy(q) : seen[q][u] = role[Home(q)][u]

(***************************************************************************)
(* Nobody can act for an organisation that is not there yet or has not got *)
(* its founder; no two calls found the same one; the others have an owner. *)
(***************************************************************************)
RosterInv ==
    /\ \A o \in Org \ orgs : ~ Inhabited(o)
    /\ \A q \in Request : pc[q] \in {"found", "enroll", "own"} => ~ Inhabited(job[q].org)
    /\ \A q \in Request : pc[q] \in {"enroll", "own"} => job[q].org \in orgs
    /\ \A q, r \in Request : q # r /\ job[q].org = job[r].org => job[q].org = NULL
    /\ OwnedWhereInhabited

(***************************************************************************)
(* Between the look at a team and the entry into it, the team is the       *)
(* caller's or gone, and the row of the member is held; a team's id is     *)
(* handed to one call.                                                     *)
(***************************************************************************)
TeamInv ==
    /\ TeamMembersBelong
    /\ \A q \in Request : pc[q] \in {"share", "enter"} => teamOf[job[q].team] \in {Home(q), NULL}
    /\ \A q \in Request : pc[q] = "enter" => Target(q) \in HeldBy(q)
    /\ \A q \in Request : pc[q] = "apply" /\ job[q].op = "create_team" =>
          /\ teamOf[job[q].team] = NULL
          /\ \A r \in Request \ {q} : pc[r] \in {"share", "enter"} \/ job[r].op = "create_team" =>
                job[r].team # job[q].team

LEMMA NobodyHolds ==
    ASSUME Base, NEW q \in Request, pc[q] \notin {"locking", "enter"} PROVE HeldBy(q) = {}
  BY DEF Base, Fits, HeldBy, NoRows

LEMMA HomeIsInhabited == ASSUME NEW q \in Request PROVE Inhabited(Home(q))
  BY DEF Inhabited

\* What the memberships of an organisation become.
LEMMA RoleChanges ==
    ASSUME Base, NEW q \in Request, Acts(q), NEW o \in Org
    PROVE  \/ role'[o] = role[o]
           \/ /\ AddFounder(q) /\ o = job[q].org /\ Founder(q) \in User
              /\ role'[o][Founder(q)] = "owner"
              /\ \A v \in User : v # Founder(q) => role'[o][v] = role[o][v]
           \/ /\ o = Home(q) /\ Target(q) \in User
              /\ \A v \in User : v # Target(q) => role'[o][v] = role[o][v]
              /\ \/ AddMember(q) /\ role[o][Target(q)] = NULL /\ role'[o][Target(q)] # NULL
                 \/ /\ UpdateMembershipRole(q) /\ ~ MayNot(q, job[q].role)
                    /\ role'[o][Target(q)] = job[q].role /\ job[q].role \in Role
                 \/ RemoveMembership(q) /\ ~ MayNot(q, NULL) /\ role'[o][Target(q)] = NULL
<1>0. Fits(q) /\ Suits(q)
  BY DEF Base
<1>1. CASE AddFounder(q)
  <2>1. /\ job[q].org \in Org /\ Founder(q) \in User /\ "owner" \in Role
        /\ role' = [role EXCEPT ![job[q].org][Founder(q)] = "owner"]
    BY <1>0, <1>1, NullIsNone DEF AddFounder, Fits, Suits, Founding, AddMembership
  <2> QED
    BY <1>1, <2>1, MembershipIs
<1>2. CASE AddMember(q) /\ role' # role
  <2>1. /\ Home(q) \in Org /\ Target(q) \in User /\ job[q].role \in Role /\ job[q].role # NULL
        /\ role' = [role EXCEPT ![Home(q)][Target(q)] = job[q].role]
        /\ role[Home(q)][Target(q)] = NULL
    BY <1>0, <1>2, NullIsNone DEF AddMember, Suits, AddMembership, Target, Members
  <2>2. /\ role'[Home(q)][Target(q)] = job[q].role
        /\ \A v \in User : v # Target(q) => role'[Home(q)][v] = role[Home(q)][v]
        /\ \A p \in Org : p # Home(q) => role'[p] = role[p]
    BY <2>1, MembershipIs
  <2> QED
    BY <1>2, <2>1, <2>2
<1>3. CASE UpdateMembershipRole(q) /\ role' # role
  <2>1. /\ Home(q) \in Org /\ Target(q) \in User /\ job[q].role \in Role
        /\ role' = [role EXCEPT ![Home(q)][Target(q)] = job[q].role]
        /\ ~ MayNot(q, job[q].role)
    BY <1>0, <1>3 DEF UpdateMembershipRole, Suits, AddMembership, Target
  <2>2. /\ role'[Home(q)][Target(q)] = job[q].role
        /\ \A v \in User : v # Target(q) => role'[Home(q)][v] = role[Home(q)][v]
        /\ \A p \in Org : p # Home(q) => role'[p] = role[p]
    BY <2>1, MembershipIs
  <2> QED
    BY <1>3, <2>1, <2>2
<1>4. CASE RemoveMembership(q) /\ role' # role
  <2>1. /\ Home(q) \in Org /\ Target(q) \in User
        /\ role' = [role EXCEPT ![Home(q)][Target(q)] = NULL]
        /\ ~ MayNot(q, NULL)
    BY <1>0, <1>4 DEF RemoveMembership, Suits, Target
  <2> QED
    BY <1>4, <2>1, MembershipIs
<1> QED
  BY <1>1, <1>2, <1>3, <1>4 DEF Acts, Call, CreateOrganization, CreateUser, Refresh, Issue,
     LockOrgRoles, LockRow, CreateTeam, DeleteTeam, ResolveTeam, ShareMembership, AddTeamMember,
     RemoveTeamMember, CreateKey, RevokeKey, Record, RecordFails, Fail, Register, Login, tables

\* Nobody new comes to an organisation but by its founding.
LEMMA InhabitedGrows ==
    ASSUME Base, NEW q \in Request, Acts(q), Moves(q), NEW o \in Org, Inhabited(o)'
    PROVE  Inhabited(o) \/ (AddFounder(q) /\ o = job[q].org)
<1> SUFFICES ASSUME ~ (AddFounder(q) /\ o = job[q].org) PROVE Inhabited(o)
  OBVIOUS
<1>0. Fits(q) /\ Suits(q)
  BY DEF Base
<1>1. CASE Members(o)' # {}
  <2>1. CASE o = Home(q)
    BY <2>1, HomeIsInhabited
  <2>2. CASE o # Home(q)
    <3>1. role'[o] = role[o]
      BY <2>2, RoleChanges
    <3> QED
      BY <1>1, <3>1 DEF Members, Inhabited
  <2> QED
    BY <2>1, <2>2
<1>2. ASSUME NEW k \in ListActiveKeys', keys'[k].org = o PROVE Inhabited(o)
  <2>1. CASE keys' = keys
    BY <1>2, <2>1 DEF ListActiveKeys, Inhabited
  <2>2. CASE CreateKey(q)
    <3>1. k = job[q].key \/ keys'[k] = keys[k]
      BY <1>2, <2>2 DEF CreateKey, Base, TypeOK, ListActiveKeys
    <3>2. CASE keys'[k] = keys[k]
      BY <1>2, <3>2 DEF ListActiveKeys, Inhabited
    <3>3. CASE k = job[q].key
      <4>1. keys'[k].org = Home(q)
        BY <1>2, <2>2, <3>3 DEF CreateKey, Base, TypeOK, ListActiveKeys
      <4> QED
        BY <1>2, <4>1, HomeIsInhabited
    <3> QED
      BY <3>1, <3>2, <3>3
  <2>3. CASE RevokeKey(q) /\ keys' # keys
    <3>1. k # job[q].key /\ keys'[k] = keys[k]
      BY <1>2, <2>3 DEF RevokeKey, Base, TypeOK, ListActiveKeys
    <3> QED
      BY <1>2, <3>1 DEF ListActiveKeys, Inhabited
  <2> QED
    BY <2>1, <2>2, <2>3 DEF Acts, Call, CreateOrganization, CreateUser, Refresh, Issue,
     AddFounder, AddMember, UpdateMembershipRole, RemoveMembership,
     LockOrgRoles, LockRow, CreateTeam, DeleteTeam, ResolveTeam, ShareMembership, AddTeamMember,
     RemoveTeamMember, Record, RecordFails, Fail, Register, Login, tables
<1>3. ASSUME NEW c \in tokens', c.org = o PROVE Inhabited(o)
  <2>1. tokens' = tokens \/ tokens' = tokens \cup {[user |-> who[q].user, org |-> who[q].org,
                                                    role |-> who[q].role]}
    BY DEF Acts, Call, CreateOrganization, CreateUser, Refresh, Issue,
     AddFounder, AddMember, UpdateMembershipRole, RemoveMembership, CreateKey, RevokeKey,
     LockOrgRoles, LockRow, CreateTeam, DeleteTeam, ResolveTeam, ShareMembership, AddTeamMember,
     RemoveTeamMember, Record, RecordFails, Fail, Register, Login
  <2>2. c \in tokens \/ o = Home(q)
    BY <1>3, <2>1 DEF Home
  <2> QED
    BY <1>3, <2>2, HomeIsInhabited DEF Inhabited
<1>4. ASSUME NEW r \in Request, Home(r)' = o PROVE Inhabited(o)
  <2>1. CASE Home(r) = o
    BY <2>1, HomeIsInhabited
  <2>2. CASE Home(r) # o
    <3>1. r = q /\ who'[q] # who[q]
      BY <1>4, <2>2 DEF Moves, Home
    <3>2. CASE Call(q)
      <4>1. PICK p \in Presented : who'[q] = p /\ Inhabited(p.org)
        BY <3>2, CallIs
      <4> QED
        BY <1>4, <3>1, <4>1 DEF Home
    <3>3. CASE Refresh(q)
      BY <1>4, <3>1, <3>3 DEF Refresh, Home, Inhabited, Base, TypeOK
    <3>4. ASSUME NEW u \in User, Login(q, u) PROVE Inhabited(o)
      BY <1>4, <3>1, <3>4 DEF Login, Home, Inhabited, Members, Base, TypeOK
    <3>5. CASE AddFounder(q)
      BY <1>4, <3>1, <3>5 DEF AddFounder, Home, Base, TypeOK
    <3> QED
      BY <3>1, <3>2, <3>3, <3>4, <3>5 DEF Acts, CreateOrganization, CreateUser, Issue,
         AddMember, UpdateMembershipRole, RemoveMembership, CreateKey, RevokeKey,
         LockOrgRoles, LockRow, CreateTeam, DeleteTeam, ResolveTeam, ShareMembership,
         AddTeamMember, RemoveTeamMember, Record, RecordFails, Fail, Register, call
  <2> QED
    BY <2>1, <2>2
<1> QED
  BY <1>1, <1>2, <1>3, <1>4 DEF Inhabited

\* An owner is changed or removed only next to another.
LEMMA OwnersStay ==
    ASSUME Base, LockInv, NEW q \in Request, Acts(q), NEW o \in Org, Owners(o) # {}
    PROVE  Owners(o)' # {}
<1>1. PICK w \in User : role[o][w] = "owner"
  BY DEF Owners
<1>2. \E v \in User : role'[o][v] = "owner"
  <2>1. CASE role'[o] = role[o] \/ AddFounder(q)
    BY <1>1, <2>1, RoleChanges DEF AddMember, UpdateMembershipRole, RemoveMembership, AddFounder,
       Locked
  <2>2. ASSUME o = Home(q), Target(q) \in User, NEW r \in Role \cup {NULL},
               UpdateMembershipRole(q) \/ RemoveMembership(q), ~ MayNot(q, r),
               role'[o][Target(q)] = r,
               \A v \in User : v # Target(q) => role'[o][v] = role[o][v]
        PROVE  \E v \in User : role'[o][v] = "owner"
    <3>1. /\ \A v \in User : seen[q][v] = "owner" => role[o][v] = "owner"
          /\ Target(q) \in HeldBy(q) /\ seen[q][Target(q)] = role[o][Target(q)]
      BY <2>2, NullIsNone DEF LockInv, HeldBy, MayNot
    <3>2. ~ Store!OrphansOwner(seen[q], Target(q), r)
      BY <2>2 DEF MayNot
    <3> QED
      BY <1>1, <2>2, <3>1, <3>2 DEF Store!OrphansOwner
  <2>3. CASE o = Home(q) /\ AddMember(q) /\ role[o][Target(q)] = NULL
             /\ \A v \in User : v # Target(q) => role'[o][v] = role[o][v]
    BY <1>1, <2>3, NullIsNone
  <2> QED
    BY <2>1, <2>2, <2>3, RoleChanges
<1> QED
  BY <1>2 DEF Owners

LEMMA HolderIs ==
    ASSUME Base, NEW r \in Request, HeldBy(r) # {}
    PROVE  Home(r) \in Org /\ pc[r] \in {"locking", "enter"}
<1>1. pc[r] \in {"locking", "enter"} /\ Fits(r) /\ Suits(r)
  BY NobodyHolds DEF Base
<1> QED
  BY <1>1 DEF Fits, Suits

\* The rows a call comes to hold: one more, or none.
LEMMA RowsChange ==
    ASSUME Base, TeamInv, NEW q \in Request, Acts(q), Moves(q)
    PROVE  \/ LockRow(q) \/ ShareMembership(q)
           \/ HeldBy(q)' = {}
<1>0. Fits(q) /\ (pc[q] \notin {"locking", "enter"} => HeldBy(q) = {})
  BY NobodyHolds DEF Base
<1>1. CASE seen'[q] = NoRows
  BY <1>1 DEF HeldBy, NoRows
<1>2. CASE seen' = seen /\ pc[q] \notin {"locking", "enter"}
  BY <1>0, <1>2 DEF HeldBy
<1> QED
  BY <1>1, <1>2, ReleaseIs DEF Acts, Call, CreateOrganization, CreateUser, AddFounder, Refresh,
     Issue, AddMember, LockOrgRoles, UpdateMembershipRole, RemoveMembership, CreateTeam,
     DeleteTeam, ResolveTeam, AddTeamMember, RemoveTeamMember, CreateKey, locks,
     RevokeKey, Record, RecordFails, Fail, Register, Login

LEMMA LockRowTakes ==
    ASSUME Base, NEW q \in Request, LockRow(q)
    PROVE  /\ NextRow(q) \in wanted[q] /\ NextRow(q) \in User /\ Home(q) \in Org
           /\ \A v \in wanted[q] : NextRow(q) <= v
           /\ wanted'[q] = wanted[q] \ {NextRow(q)}
           /\ seen'[q][NextRow(q)] = role[Home(q)][NextRow(q)]
           /\ \A u \in User \ {NextRow(q)} : seen'[q][u] = seen[q][u]
           /\ \A r \in Request \ {q} : Home(r) = Home(q) => NextRow(q) \notin HeldBy(r)
           /\ role' = role /\ pc' = pc /\ who' = who /\ pc[q] = "locking"
<1>1. /\ wanted[q] # {} /\ pc[q] = "locking" /\ ~ Blocked(q)
      /\ wanted' = [wanted EXCEPT ![q] = wanted[q] \ {NextRow(q)}]
      /\ seen' = [seen EXCEPT ![q] = [seen[q] EXCEPT ![NextRow(q)] = role[Home(q)][NextRow(q)]]]
      /\ role' = role /\ pc' = pc /\ who' = who
  BY DEF LockRow, tables, call
<1>2. NextRow(q) \in wanted[q] /\ NextRow(q) \in User /\ \A v \in wanted[q] : NextRow(q) <= v
  BY <1>1, NextRowIs
<1>3. Home(q) \in Org
  BY <1>1 DEF Base, Fits, Suits
<1>4. \A r \in Request \ {q} : Home(r) = Home(q) => NextRow(q) \notin HeldBy(r)
  BY <1>1 DEF Blocked, Awaits
<1>5. seen'[q] = [seen[q] EXCEPT ![NextRow(q)] = role[Home(q)][NextRow(q)]]
  BY <1>1 DEF Base, TypeOK
<1> QED
  BY <1>1, <1>2, <1>3, <1>4, <1>5 DEF Base, TypeOK

LEMMA ShareTakes ==
    ASSUME Base, TeamInv, NEW q \in Request, ShareMembership(q), pc'[q] = "enter"
    PROVE  /\ Target(q) \in User /\ Home(q) \in Org /\ teamOf[job[q].team] = Home(q)
           /\ HeldBy(q)' = {Target(q)}
           /\ seen'[q][Target(q)] = role[Home(q)][Target(q)] /\ pc'[q] = "enter"
           /\ \A r \in Request \ {q} :
                 Home(r) = Home(q) /\ Target(q) \in HeldBy(r) => pc[r] = "enter"
           /\ UNCHANGED <<role, who, job, teamOf, inTeam, wanted>>
<1>0. pc[q] = "share" /\ Fits(q) /\ Suits(q) /\ HeldBy(q) = {} /\ seen[q] = NoRows
  BY NobodyHolds DEF Base, ShareMembership, Fits
<1>1. Target(q) \in User /\ Home(q) \in Org /\ teamOf[job[q].team] \in {Home(q), NULL}
  BY <1>0 DEF Fits, Suits, OfTeams, Target, TeamInv
<1> DEFINE o == teamOf[job[q].team]
<1>2. o # NULL /\ Target(q) \in Members(o)
  <2>1. pc'[q] = "over" => pc'[q] # "enter"
    OBVIOUS
  <2> QED
    BY <2>1, EndIs DEF ShareMembership, Answers
<1>3. o = Home(q)
  BY <1>1, <1>2
<1>4. /\ seen' = [seen EXCEPT ![q] = [seen[q] EXCEPT ![Target(q)] = role[Home(q)][Target(q)]]]
      /\ pc' = [pc EXCEPT ![q] = "enter"] /\ ~ Blocked(q)
      /\ UNCHANGED <<role, who, job, teamOf, inTeam, wanted>>
  BY <1>2, <1>3 DEF ShareMembership, tables, call
<1>5. seen'[q] = [NoRows EXCEPT ![Target(q)] = role[Home(q)][Target(q)]]
  BY <1>0, <1>4 DEF Base, TypeOK
<1>6. HeldBy(q)' = {Target(q)} /\ seen'[q][Target(q)] = role[Home(q)][Target(q)]
  <2>1. role[Home(q)][Target(q)] # NULL
    BY <1>2, <1>3 DEF Members
  <2> QED
    BY <1>1, <1>5, <2>1 DEF HeldBy, NoRows
<1>7. ASSUME NEW r \in Request \ {q}, Home(r) = Home(q), Target(q) \in HeldBy(r)
      PROVE  pc[r] = "enter"
  <2>1. pc[r] # "locking"
    BY <1>0, <1>4, <1>7 DEF Blocked, Awaits
  <2> QED
    BY <1>7, <2>1, HolderIs
<1>8. pc'[q] = "enter"
  BY <1>4 DEF Base, TypeOK
<1> QED
  BY <1>1, <1>3, <1>4, <1>6, <1>7, <1>8

LEMMA OthersHold ==
    ASSUME NEW q \in Request, Moves(q), NEW r \in Request \ {q}
    PROVE  /\ HeldBy(r)' = HeldBy(r) /\ Home(r)' = Home(r) /\ pc'[r] = pc[r]
           /\ Target(r)' = Target(r) /\ job'[r] = job[r] /\ seen'[r] = seen[r]
           /\ wanted'[r] \subseteq wanted[r]
  BY DEF Moves, HeldBy, Home, Target

LEMMA LockStep ==
    ASSUME Base, RosterInv, LockInv, TeamInv, Base', NEW q \in Request, Acts(q), Moves(q)
    PROVE  LockInv'
<1>1. CASE LockRow(q)
  <2> DEFINE n == NextRow(q)
  <2>1. /\ n \in wanted[q] /\ n \in User /\ Home(q) \in Org /\ pc[q] = "locking"
        /\ \A v \in wanted[q] : n <= v
        /\ wanted'[q] = wanted[q] \ {n} /\ seen'[q][n] = role[Home(q)][n]
        /\ \A u \in User \ {n} : seen'[q][u] = seen[q][u]
        /\ \A r \in Request \ {q} : Home(r) = Home(q) => n \notin HeldBy(r)
        /\ role' = role /\ pc' = pc /\ who' = who
    BY <1>1, LockRowTakes
  <2> HIDE DEF n
  <2>2. HeldBy(q)' \subseteq HeldBy(q) \cup {n} /\ Home(q)' = Home(q)
    BY <2>1 DEF HeldBy, Home
  <2>3. \A u \in HeldBy(q)', v \in wanted'[q] : u < v
    <3>1. User \subseteq Nat /\ wanted[q] \subseteq User
      BY IdentityAssumption DEF Base, TypeOK
    <3>2. \A u \in HeldBy(q), v \in wanted[q] : u < v
      BY DEF LockInv
    <3>3. \A v \in wanted'[q] : n < v
      BY <2>1, <3>1
    <3> QED
      BY <2>1, <2>2, <3>2, <3>3
  <2>4. \A r \in Request : \A u \in HeldBy(r)', v \in wanted'[r] : u < v
    BY <2>3, OthersHold DEF LockInv
  <2>5. \A r \in Request \ {q} : Home(r)' = Home(q)' => HeldBy(q)' \cap HeldBy(r)' = {}
    <3> SUFFICES ASSUME NEW r \in Request \ {q}, Home(r)' = Home(q)',
                        NEW u \in HeldBy(q)', u \in HeldBy(r)'
                 PROVE  FALSE
      OBVIOUS
    <3>1. Home(r) = Home(q) /\ u \in HeldBy(r)
      BY <2>2, OthersHold
    <3> QED
      BY <2>1, <2>2, <3>1 DEF LockInv
  <2>6. \A r, s \in Request : r # s /\ Home(r)' = Home(s)' /\ HeldBy(r)' \cap HeldBy(s)' # {} =>
            pc'[r] = "enter" /\ pc'[s] = "enter"
    <3> SUFFICES ASSUME NEW r \in Request, NEW s \in Request, r # s, Home(r)' = Home(s)',
                        HeldBy(r)' \cap HeldBy(s)' # {}
                 PROVE  pc'[r] = "enter" /\ pc'[s] = "enter"
      OBVIOUS
    <3>1. r # q /\ s # q
      BY <2>5
    <3> QED
      BY <3>1, OthersHold DEF LockInv
  <2>7. \A r \in Request : \A u \in HeldBy(r)' : seen'[r][u] = role'[Home(r)'][u]
    <3>1. ASSUME NEW r \in Request \ {q}, NEW u \in HeldBy(r)'
          PROVE  seen'[r][u] = role'[Home(r)'][u]
      BY <2>1, <3>1, OthersHold DEF LockInv
    <3>2. ASSUME NEW u \in HeldBy(q)' PROVE seen'[q][u] = role'[Home(q)'][u]
      <4>1. u \in User
        BY <3>2 DEF HeldBy
      <4>2. CASE u = n
        BY <2>1, <2>2, <4>2
      <4>3. CASE u # n
        BY <2>1, <2>2, <3>2, <4>1, <4>3 DEF LockInv
      <4> QED
        BY <4>2, <4>3
    <3> QED
      BY <3>1, <3>2
  <2> QED
    BY <2>4, <2>6, <2>7 DEF LockInv
<1>2. CASE ~ LockRow(q)
  <2>1. \/ HeldBy(q)' = {}
        \/ /\ Home(q)' = Home(q) /\ Home(q) \in Org /\ HeldBy(q)' = {Target(q)} /\ pc'[q] = "enter"
           /\ seen'[q][Target(q)] = role'[Home(q)][Target(q)] /\ wanted'[q] = {}
           /\ \A r \in Request \ {q} :
                 Home(r) = Home(q) /\ Target(q) \in HeldBy(r) => pc[r] = "enter"
    <3>1. CASE HeldBy(q)' = {}
      BY <3>1
    <3>2. CASE HeldBy(q)' # {}
      <4>1. ShareMembership(q)
        BY <1>2, <3>2, RowsChange
      <4>2. pc'[q] = "enter" => wanted'[q] = {}
        BY DEF Base, Fits
      <4>3. pc'[q] = "enter"
        <5>1. pc'[q] \in {"enter", "over"}
          BY <4>1 DEF ShareMembership, End, Base, TypeOK
        <5>2. pc'[q] \notin {"locking", "enter"} => seen'[q] = NoRows
          BY DEF Base, Fits
        <5>3. seen'[q] = NoRows => HeldBy(q)' = {}
          BY DEF HeldBy, NoRows
        <5> QED
          BY <3>2, <5>1, <5>2, <5>3
      <4> QED
        BY <4>1, <4>2, <4>3, ShareTakes DEF Home
    <3> QED
      BY <3>1, <3>2
  <2>2. \A r \in Request : \A u \in HeldBy(r)', v \in wanted'[r] : u < v
    BY <2>1, OthersHold DEF LockInv
  <2>3. \A r \in Request \ {q} : Home(r)' = Home(q)' /\ HeldBy(q)' \cap HeldBy(r)' # {} =>
            pc'[r] = "enter" /\ pc'[q] = "enter"
    BY <2>1, OthersHold
  <2>4. \A r, s \in Request : r # s /\ Home(r)' = Home(s)' /\ HeldBy(r)' \cap HeldBy(s)' # {} =>
            pc'[r] = "enter" /\ pc'[s] = "enter"
    <3> SUFFICES ASSUME NEW r \in Request, NEW s \in Request, r # s, Home(r)' = Home(s)',
                        HeldBy(r)' \cap HeldBy(s)' # {}
                 PROVE  pc'[r] = "enter" /\ pc'[s] = "enter"
      OBVIOUS
    <3>1. CASE r # q /\ s # q
      BY <3>1, OthersHold DEF LockInv
    <3>2. CASE r = q
      BY <2>3, <3>2
    <3>3. CASE s = q
      <4>1. HeldBy(q)' \cap HeldBy(r)' # {}
        BY <3>3
      <4> QED
        BY <2>3, <3>3, <4>1
    <3> QED
      BY <3>1, <3>2, <3>3
  <2>5. ASSUME NEW r \in Request \ {q}, NEW u \in HeldBy(r)
        PROVE  role'[Home(r)][u] = role[Home(r)][u]
    <3>1. /\ Home(r) \in Org /\ pc[r] \in {"locking", "enter"} /\ u \in User
          /\ seen[r][u] = role[Home(r)][u] /\ role[Home(r)][u] # NULL
      BY <2>5, HolderIs DEF LockInv, HeldBy
    <3>2. CASE AddFounder(q) /\ Home(r) = job[q].org
      BY <3>2, HomeIsInhabited DEF AddFounder, RosterInv
    <3>3. CASE /\ Home(r) = Home(q) /\ Target(q) \in HeldBy(q)
               /\ \A v \in User : v # Target(q) => role'[Home(r)][v] = role[Home(r)][v]
               /\ pc[q] = "locking"
      <4>1. u # Target(q)
        BY <2>5, <3>3 DEF LockInv
      <4> QED
        BY <3>1, <3>3, <4>1
    <3> QED
      BY <3>1, <3>2, <3>3, RoleChanges DEF MayNot, UpdateMembershipRole, RemoveMembership, Locked
  <2>6. \A r \in Request : \A u \in HeldBy(r)' : seen'[r][u] = role'[Home(r)'][u]
    <3>1. ASSUME NEW r \in Request \ {q}, NEW u \in HeldBy(r)'
          PROVE  seen'[r][u] = role'[Home(r)'][u]
      BY <2>5, <3>1, OthersHold DEF LockInv
    <3> QED
      BY <2>1, <3>1
  <2> QED
    BY <2>2, <2>4, <2>6 DEF LockInv
<1> QED
  BY <1>1, <1>2

\* The organisation a job founds is its own, from the start of the call.
LEMMA JobOrgIs ==
    ASSUME Base, NEW q \in Request, Acts(q), Moves(q)
    PROVE  /\ job'[q].org = job[q].org \/ job'[q].org = NULL \/ job'[q].org \in FreshOrg
           /\ pc[q] = "free" /\ pc'[q] = "found" => job'[q].org \in FreshOrg
<1>1. CASE Call(q)
  <2>1. PICK p \in Presented, op \in Offered : \E j \in Works(p.org, op) :
            /\ job'[q] = j
            /\ pc' = [pc EXCEPT ![q] = IF op = "create_org" THEN "found" ELSE "apply"]
    BY <1>1, CallIs
  <2>2. PICK j \in Works(p.org, op) : job'[q] = j
    BY <2>1
  <2>3. /\ op = "create_org" => j.org \in FreshOrg
        /\ op # "create_org" => j.org = NULL
    BY WorksAre
  <2> QED
    BY <2>1, <2>2, <2>3 DEF Base, TypeOK
<1>2. ASSUME NEW u \in User, Register(q, u) PROVE job'[q].org \in FreshOrg
  <2>1. PICK o \in FreshOrg :
          job' = [job EXCEPT ![q] = [Idle EXCEPT !.op = "register", !.user = u,
                                                 !.role = "owner", !.org = o]]
    BY <1>2 DEF Register
  <2> QED
    BY <2>1 DEF Base, TypeOK, Idle
<1>3. ASSUME NEW u \in User, Login(q, u) \/ Refresh(q)
      PROVE  job'[q].org = job[q].org /\ pc'[q] = "issue"
  <2>1. job' = [job EXCEPT ![q].op = "token"] /\ pc' = [pc EXCEPT ![q] = "issue"]
    BY <1>3 DEF Login, Refresh
  <2>2. job[q] = Idle
    BY <1>3 DEF Login, Refresh, Base, Fits
  <2> QED
    BY <2>1, <2>2 DEF Base, TypeOK, Idle
<1>4. CASE pc[q] # "free"
  BY <1>4 DEF Moves
<1>5. CASE Refresh(q)
  <2>1. \E u \in User : TRUE
    BY <1>5 DEF Refresh, Base, TypeOK, Claims
  <2> QED
    BY <1>3, <1>5, <2>1
<1> QED
  BY <1>1, <1>2, <1>3, <1>4, <1>5 DEF Acts, CreateOrganization, CreateUser, AddFounder, Issue,
     AddMember, LockOrgRoles, LockRow, UpdateMembershipRole, RemoveMembership, CreateTeam, Locked,
     DeleteTeam, ResolveTeam, ShareMembership, AddTeamMember, RemoveTeamMember, CreateKey,
     RevokeKey, Record, RecordFails, Fail

LEMMA RosterStep ==
    ASSUME Base, RosterInv, LockInv, Base', NEW q \in Request, Acts(q), Moves(q)
    PROVE  RosterInv'
<1>0. /\ Fits(q) /\ Suits(q) /\ NULL \notin Org
      /\ AddFounder(q) => pc[q] = "own" /\ job[q].op \in Founding /\ job[q].org \in Org
  BY NullIsNone DEF Base, AddFounder, Fits, Suits
<1>1. orgs \subseteq orgs' /\ (CreateOrganization(q) => orgs' = orgs \cup {job[q].org})
  BY DEF Acts, Call, CreateOrganization, CreateUser, AddFounder, Refresh, Issue, tables,
     AddMember, LockOrgRoles, LockRow, UpdateMembershipRole, RemoveMembership, CreateTeam,
     DeleteTeam, ResolveTeam, ShareMembership, AddTeamMember, RemoveTeamMember, CreateKey,
     RevokeKey, Record, RecordFails, Fail, Register, Login
<1>2. \A o \in Org \ orgs' : ~ Inhabited(o)'
  BY <1>0, <1>1, InhabitedGrows DEF RosterInv
<1>3. ASSUME NEW r \in Request, NEW s \in Request, r # s, job'[r].org = job'[s].org
      PROVE  job'[r].org = NULL
  <2>1. CASE r # q /\ s # q
    BY <1>3, <2>1 DEF Moves, RosterInv
  <2>2. ASSUME NEW t \in Request \ {q}, job'[q].org = job'[t].org PROVE job'[q].org = NULL
    <3>1. job'[t].org = job[t].org
      BY <2>2 DEF Moves
    <3>2. job'[q].org = job[q].org => job[q].org = NULL
      BY <2>2, <3>1 DEF RosterInv
    <3>3. job'[q].org \notin FreshOrg
      BY <2>2, <3>1 DEF FreshOrg
    <3> QED
      BY <3>2, <3>3, JobOrgIs
  <2> QED
    BY <1>3, <2>1, <2>2
<1>4. pc'[q] \in {"found", "enroll", "own"} =>
        \/ /\ pc[q] \in {"found", "enroll"} /\ job'[q] = job[q]
           /\ pc'[q] \in {"enroll", "own"} => CreateOrganization(q) \/ pc[q] = "enroll"
        \/ /\ pc[q] = "free" /\ pc'[q] = "found" /\ job'[q].org \in FreshOrg
  <2>1. pc'[q] \in {"found", "enroll", "own"} =>
          \/ CreateOrganization(q) \/ CreateUser(q)
          \/ (pc[q] = "free" /\ pc'[q] = "found")
    BY <1>0 DEF Acts, Call, AddFounder, Refresh, Issue,
     AddMember, LockOrgRoles, LockRow, UpdateMembershipRole, RemoveMembership, CreateTeam,
     DeleteTeam, ResolveTeam, ShareMembership, AddTeamMember, RemoveTeamMember, CreateKey, Locked,
     RevokeKey, Record, RecordFails, Recorded, Fail, Register, Login, End, Commit, Base, TypeOK
  <2> QED
    BY <2>1, JobOrgIs DEF CreateOrganization, CreateUser, call
<1>5. ASSUME NEW r \in Request, pc'[r] \in {"found", "enroll", "own"}
      PROVE  ~ Inhabited(job[r].org)'
  <2>1. job'[r].org \in Org
    BY <1>5 DEF Base, Fits, Suits, Founding
  <2> SUFFICES ASSUME Inhabited(job[r].org)' PROVE FALSE
    OBVIOUS
  <2>2. PICK o \in Org : o = job'[r].org
    BY <2>1
  <2>3. Inhabited(o)'
    BY <2>2
  <2>4. Inhabited(o) \/ (AddFounder(q) /\ o = job[q].org)
    BY <2>3, InhabitedGrows
  <2>5. CASE r # q
    <3>1. job'[r] = job[r] /\ pc'[r] = pc[r] /\ o = job[r].org
      BY <2>2, <2>5 DEF Moves
    <3>2. ~ Inhabited(o)
      BY <1>5, <3>1 DEF RosterInv
    <3>3. AddFounder(q) /\ job[r].org = job[q].org
      BY <2>4, <3>1, <3>2
    <3> QED
      BY <1>0, <2>5, <3>3 DEF RosterInv
  <2>6. CASE r = q
    <3>1. ~ Inhabited(o)
      BY <1>4, <1>5, <2>2, <2>6 DEF FreshOrg, RosterInv
    <3>2. ~ AddFounder(q)
      BY <1>0, <1>4, <1>5, <2>6
    <3> QED
      BY <2>4, <3>1, <3>2
  <2> QED
    BY <2>5, <2>6
<1>6. ASSUME NEW r \in Request, pc'[r] \in {"enroll", "own"} PROVE job'[r].org \in orgs'
  <2>1. CASE r # q
    BY <1>1, <1>6, <2>1 DEF Moves, RosterInv
  <2>2. CASE r = q
    BY <1>1, <1>4, <1>6, <2>2 DEF RosterInv
  <2> QED
    BY <2>1, <2>2
<1>7. ASSUME NEW o \in Org, Inhabited(o)' PROVE Owners(o)' # {}
  <2>1. CASE Inhabited(o)
    <3>1. Owners(o) # {}
      BY <2>1 DEF RosterInv, OwnedWhereInhabited
    <3> QED
      BY <3>1, OwnersStay
  <2>2. CASE AddFounder(q) /\ o = job[q].org
    <3>1. Founder(q) \in User
      BY <1>0, <2>2 DEF Fits
    <3>2. role'[o][Founder(q)] = "owner"
      BY <1>0, <2>2, <3>1, NullIsNone, MembershipIs DEF AddFounder, AddMembership
    <3> QED
      BY <3>1, <3>2 DEF Owners
  <2> QED
    BY <1>7, <2>1, <2>2, InhabitedGrows
<1> QED
  BY <1>2, <1>3, <1>5, <1>6, <1>7 DEF RosterInv, OwnedWhereInhabited

-----------------------------------------------------------------------------
(* Teams.                                                                  *)

LEMMA TeamStep ==
    ASSUME Base, LockInv, TeamInv, Base', NEW q \in Request, Acts(q), Moves(q)
    PROVE  TeamInv'
<1>0. /\ Fits(q) /\ Suits(q) /\ NULL \notin Org /\ NULL \notin Role
      /\ teamOf \in [Team -> Org \cup {NULL}] /\ inTeam \subseteq Team \X User
  BY NullIsNone DEF Base, TypeOK
<1>1. \/ teamOf' = teamOf
      \/ /\ CreateTeam(q) /\ pc[q] = "apply" /\ job[q].op = "create_team" /\ job[q].team \in Team
         /\ teamOf' = [teamOf EXCEPT ![job[q].team] = Home(q)] /\ Home(q) \in Org
         /\ UNCHANGED <<inTeam, role>> /\ pc'[q] = "audit" /\ job' = job
      \/ /\ DeleteTeam(q) /\ job[q].team \in Team /\ pc'[q] = "audit" /\ UNCHANGED <<role, job>>
         /\ teamOf' = [teamOf EXCEPT ![job[q].team] = NULL]
         /\ inTeam' = {m \in inTeam : m[1] # job[q].team}
  BY <1>0, CommitIs DEF Acts, Call, CreateOrganization, CreateUser, AddFounder, Refresh, Issue,
     AddMember, LockOrgRoles, LockRow, UpdateMembershipRole, RemoveMembership, CreateTeam,
     DeleteTeam, ResolveTeam, ShareMembership, AddTeamMember, RemoveTeamMember, CreateKey,
     RevokeKey, Record, RecordFails, Fail, Register, Login, tables, Suits, OfTeams, call
<1>2. \/ inTeam' \subseteq inTeam
      \/ /\ AddTeamMember(q) /\ inTeam' = inTeam \cup {<<job[q].team, Target(q)>>}
         /\ teamOf[job[q].team] # NULL
  BY DEF Acts, Call, CreateOrganization, CreateUser, AddFounder, Refresh, Issue,
     AddMember, LockOrgRoles, LockRow, UpdateMembershipRole, RemoveMembership, CreateTeam,
     DeleteTeam, ResolveTeam, ShareMembership, AddTeamMember, RemoveTeamMember, CreateKey,
     RevokeKey, Record, RecordFails, Fail, Register, Login, tables
<1>3. ASSUME NEW r \in Request, job[r].team \in Team
      PROVE  \/ teamOf'[job[r].team] \in {teamOf[job[r].team], NULL}
             \/ CreateTeam(q) /\ job[r].team = job[q].team
  <2> DEFINE t == job[r].team
  <2>1. t \in Team
    BY <1>3
  <2> HIDE DEF t
  <2>2. teamOf'[t] \in {teamOf[t], NULL} \/ (CreateTeam(q) /\ t = job[q].team)
    BY <1>0, <1>1, <2>1
  <2> QED
    BY <2>2 DEF t
<1>4. TeamMembersBelong'
  <2> SUFFICES ASSUME NEW m \in inTeam'
               PROVE  teamOf'[m[1]] # NULL /\ m[2] \in User /\ role'[teamOf'[m[1]]][m[2]] # NULL
    BY DEF TeamMembersBelong, Members
  <2>1. CASE m \in inTeam
    <3>1. /\ m[1] \in Team /\ m[2] \in User /\ teamOf[m[1]] # NULL
          /\ role[teamOf[m[1]]][m[2]] # NULL /\ teamOf[m[1]] \in Org
      BY <1>0, <2>1 DEF TeamInv, TeamMembersBelong, Members
    <3>2. teamOf'[m[1]] = teamOf[m[1]]
      <4>1. CreateTeam(q) => teamOf[job[q].team] = NULL
        BY DEF CreateTeam, TeamInv
      <4> QED
        BY <1>0, <1>1, <3>1, <4>1
    <3>3. role'[teamOf[m[1]]][m[2]] # NULL
      <4>1. ASSUME RemoveMembership(q), ~ MayNot(q, NULL), teamOf[m[1]] = Home(q)
            PROVE  m[2] # Target(q)
        BY <4>1 DEF RemoveMembership
      <4> QED
        BY <1>0, <3>1, <4>1, NullIsNone, RoleChanges
    <3> QED
      BY <3>1, <3>2, <3>3
  <2>2. CASE m \notin inTeam
    <3>1. /\ m = <<job[q].team, Target(q)>> /\ pc[q] = "enter" /\ teamOf[job[q].team] # NULL
          /\ teamOf' = teamOf /\ role' = role
      BY <1>2, <2>2 DEF AddTeamMember
    <3>2. teamOf[job[q].team] = Home(q) /\ Target(q) \in HeldBy(q)
      BY <3>1 DEF TeamInv
    <3>3. role[Home(q)][Target(q)] # NULL /\ Target(q) \in User
      BY <3>2 DEF LockInv, HeldBy
    <3> QED
      BY <3>1, <3>2, <3>3
  <2> QED
    BY <2>1, <2>2
<1>5. /\ pc'[q] = "share" => ResolveTeam(q)
      /\ pc'[q] = "enter" => ShareMembership(q)
      /\ pc'[q] = "apply" => Call(q)
  <2>1. ASSUME pc'[q] = "share" PROVE ResolveTeam(q)
    BY <1>0, <2>1 DEF Acts, Call, CreateOrganization, CreateUser, AddFounder, Refresh, Issue,
       AddMember, LockOrgRoles, LockRow, UpdateMembershipRole, RemoveMembership, CreateTeam,
       DeleteTeam, ResolveTeam, ShareMembership, AddTeamMember, RemoveTeamMember, CreateKey,
       RevokeKey, Record, RecordFails, Recorded, Fail, Register, Login, End, Commit,
       Locked, Base, TypeOK
  <2>2. ASSUME pc'[q] = "enter" PROVE ShareMembership(q)
    BY <1>0, <2>2 DEF Acts, Call, CreateOrganization, CreateUser, AddFounder, Refresh, Issue,
       AddMember, LockOrgRoles, LockRow, UpdateMembershipRole, RemoveMembership, CreateTeam,
       DeleteTeam, ResolveTeam, ShareMembership, AddTeamMember, RemoveTeamMember, CreateKey,
       RevokeKey, Record, RecordFails, Recorded, Fail, Register, Login, End, Commit,
       Locked, Base, TypeOK
  <2>3. ASSUME pc'[q] = "apply" PROVE Call(q)
    BY <1>0, <2>3 DEF Acts, CreateOrganization, CreateUser, AddFounder, Refresh, Issue,
       AddMember, LockOrgRoles, LockRow, UpdateMembershipRole, RemoveMembership, CreateTeam,
       DeleteTeam, ResolveTeam, ShareMembership, AddTeamMember, RemoveTeamMember, CreateKey,
       RevokeKey, Record, RecordFails, Recorded, Fail, Register, Login, End, Commit,
       Locked, Base, TypeOK
  <2> QED
    BY <2>1, <2>2, <2>3
<1>10. pc'[q] = "share" =>
         /\ teamOf[job[q].team] = Home(q) /\ teamOf' = teamOf
         /\ job'[q] = job[q] /\ who'[q] = who[q] /\ Home(q) \in Org
  <2> SUFFICES ASSUME ResolveTeam(q), pc'[q] = "share"
               PROVE  /\ teamOf[job[q].team] = Home(q) /\ teamOf' = teamOf
                      /\ job'[q] = job[q] /\ who'[q] = who[q] /\ Home(q) \in Org
    BY <1>5
  <2>1. ~ End(q, "refused")
    BY EndIs DEF Answers
  <2>2. teamOf[job[q].team] = Home(q) /\ teamOf' = teamOf /\ job' = job /\ who' = who
    BY <2>1 DEF ResolveTeam, GetTeam, tables, call
  <2>3. Home(q) \in Org
    BY <1>0 DEF ResolveTeam, Suits
  <2> QED
    BY <2>2, <2>3
<1>6. ASSUME NEW r \in Request, pc'[r] \in {"share", "enter"}
      PROVE  teamOf'[job'[r].team] \in {Home(r)', NULL}
  <2>1. CASE r # q
    <3>1. /\ job'[r] = job[r] /\ pc[r] \in {"share", "enter"} /\ Home(r)' = Home(r)
          /\ job[r].team \in Team /\ teamOf[job[r].team] \in {Home(r), NULL}
      BY <1>6, <2>1 DEF Moves, Home, Base, Fits, Suits, OfTeams, TeamInv
    <3>2. CreateTeam(q) => job[r].team # job[q].team
      BY <2>1, <3>1 DEF CreateTeam, TeamInv
    <3> QED
      BY <1>3, <3>1, <3>2
  <2>2. CASE r = q
    BY <1>5, <1>6, <1>10, <2>2, ShareTakes DEF Home
  <2> QED
    BY <2>1, <2>2
<1>7. ASSUME NEW r \in Request, pc'[r] = "enter" PROVE Target(r)' \in HeldBy(r)'
  <2>1. CASE r # q
    BY <1>7, <2>1, OthersHold DEF TeamInv
  <2>2. CASE r = q
    BY <1>5, <1>7, <2>2, ShareTakes DEF Target
  <2> QED
    BY <2>1, <2>2
<1>8. CASE Call(q)
  <2>1. PICK p \in Presented, op \in Offered : \E j \in Works(p.org, op) :
            /\ job'[q] = j
            /\ pc' = [pc EXCEPT ![q] = IF op = "create_org" THEN "found" ELSE "apply"]
    BY <1>8, CallIs
  <2>2. PICK j \in Works(p.org, op) : job'[q] = j
    BY <2>1
  <2>3. j.op = op /\ (op = "create_team" => j.team \in FreshTeam)
    BY WorksAre
  <2>4. teamOf' = teamOf /\ pc'[q] \notin {"share", "enter"}
    BY <1>8, <2>1 DEF Call, tables, Base, TypeOK
  <2>5. job'[q].op = "create_team" => /\ teamOf'[job'[q].team] = NULL
                                      /\ \A r \in Request \ {q} : job'[r].team # job'[q].team
    BY <2>2, <2>3, <2>4 DEF FreshTeam, Moves
  <2>6. ASSUME NEW r \in Request, pc'[r] = "apply", job'[r].op = "create_team"
        PROVE  /\ teamOf'[job'[r].team] = NULL
               /\ \A s \in Request \ {r} :
                     pc'[s] \in {"share", "enter"} \/ job'[s].op = "create_team" =>
                        job'[s].team # job'[r].team
    <3>1. CASE r = q
      BY <2>5, <2>6, <3>1
    <3>2. CASE r # q
      <4>1. /\ job'[r] = job[r] /\ pc[r] = "apply" /\ job[r].op = "create_team"
            /\ teamOf[job[r].team] = NULL
            /\ \A s \in Request \ {r} : pc[s] \in {"share", "enter"} \/ job[s].op = "create_team" =>
                  job[s].team # job[r].team
        BY <2>6, <3>2 DEF Moves, TeamInv
      <4>2. ASSUME NEW s \in Request \ {r, q},
                   pc'[s] \in {"share", "enter"} \/ job'[s].op = "create_team"
            PROVE  job'[s].team # job'[r].team
        BY <4>1, <4>2 DEF Moves
      <4>3. job'[q].op = "create_team" => job'[q].team # job'[r].team
        BY <2>5, <3>2
      <4> QED
        BY <2>4, <4>1, <4>2, <4>3
    <3> QED
      BY <3>1, <3>2
  <2> QED
    BY <1>4, <1>6, <1>7, <2>6 DEF TeamInv
<1>9. CASE ~ Call(q)
  <2>1. ASSUME NEW r \in Request, pc'[r] = "apply", job'[r].op = "create_team"
        PROVE  /\ teamOf'[job'[r].team] = NULL
               /\ \A s \in Request \ {r} :
                     pc'[s] \in {"share", "enter"} \/ job'[s].op = "create_team" =>
                        job'[s].team # job'[r].team
    <3>1. r # q
      BY <1>5, <1>9, <2>1
    <3>2. /\ job'[r] = job[r] /\ pc[r] = "apply" /\ job[r].op = "create_team"
          /\ job[r].team \in Team /\ teamOf[job[r].team] = NULL
          /\ \A s \in Request \ {r} : pc[s] \in {"share", "enter"} \/ job[s].op = "create_team" =>
                job[s].team # job[r].team
      BY <2>1, <3>1 DEF Moves, TeamInv, Base, Suits
    <3>3. CreateTeam(q) => job[r].team # job[q].team
      BY <3>1, <3>2 DEF CreateTeam
    <3>4. ASSUME NEW s \in Request \ {r},
                 pc'[s] \in {"share", "enter"} \/ job'[s].op = "create_team"
          PROVE  job'[s].team # job'[r].team
      <4>1. CASE s # q
        BY <3>2, <3>4, <4>1 DEF Moves
      <4>2. CASE s = q /\ pc'[q] = "share"
        BY <1>0, <1>10, <3>2, <4>2
      <4>3. CASE s = q /\ pc'[q] = "enter"
        BY <1>5, <3>2, <4>3, ShareTakes DEF ShareMembership
      <4>4. CASE s = q /\ job'[q].op = "create_team"
        <5>1. job'[q] = job[q]
          <6>1. CASE pc[q] # "free"
            BY <6>1 DEF Moves
          <6>2. CASE pc[q] = "free"
            <7>1. PICK u \in User : Register(q, u) \/ Login(q, u) \/ Refresh(q)
              <8>1. Refresh(q) => \E u \in User : TRUE
                BY DEF Refresh, Base, TypeOK, Claims
              <8> QED
                BY <1>9, <6>2, <8>1 DEF Acts, CreateOrganization, CreateUser, AddFounder, Issue,
                   AddMember, LockOrgRoles, LockRow, UpdateMembershipRole, Locked, CreateTeam,
                   RemoveMembership, DeleteTeam, ResolveTeam, ShareMembership, AddTeamMember,
                   RemoveTeamMember, CreateKey, RevokeKey, Record, RecordFails, Fail
            <7>2. job[q] = Idle
              BY <1>0, <6>2 DEF Fits
            <7>3. job'[q].op \in {"register", "token"}
              <8>1. CASE Register(q, u)
                <9>1. PICK o \in FreshOrg : job' = [job EXCEPT ![q] =
                          [Idle EXCEPT !.op = "register", !.user = u, !.role = "owner", !.org = o]]
                  BY <8>1 DEF Register
                <9> QED
                  BY <9>1 DEF Idle, Base, TypeOK
              <8>2. CASE Login(q, u) \/ Refresh(q)
                <9>1. job' = [job EXCEPT ![q] = [job[q] EXCEPT !.op = "token"]]
                  BY <8>2 DEF Login, Refresh
                <9> QED
                  BY <7>2, <9>1 DEF Idle, Base, TypeOK
              <8> QED
                BY <7>1, <8>1, <8>2
            <7> QED
              BY <4>4, <7>3
          <6> QED
            BY <6>1, <6>2
        <5> QED
          BY <3>2, <4>4, <5>1
      <4> QED
        BY <3>4, <4>1, <4>2, <4>3, <4>4
    <3> QED
      BY <1>3, <3>2, <3>3, <3>4
  <2> QED
    BY <1>4, <1>6, <1>7, <2>1 DEF TeamInv
<1> QED
  BY <1>8, <1>9

-----------------------------------------------------------------------------
(* The invariants together.                                                *)

PeopleInv == Base /\ RosterInv /\ LockInv /\ TeamInv

LEMMA PeopleInit == Init => PeopleInv
<1> SUFFICES ASSUME Init PROVE PeopleInv
  OBVIOUS
<1>0. Base /\ NULL \notin Org /\ NULL \notin Role
  BY BaseInit, NullIsNone
<1>1. \A o \in Org : Inhabited(o) => \E u \in User : role[o][u] # NULL
  <2> SUFFICES ASSUME NEW o \in Org, Inhabited(o) PROVE \E u \in User : role[o][u] # NULL
    OBVIOUS
  <2>1. o \in orgs <=> \E u \in User : role[o][u] # NULL
    BY DEF Init
  <2>2. CASE Members(o) # {}
    BY <2>2 DEF Members
  <2>3. ASSUME NEW k \in ListActiveKeys, keys[k].org = o PROVE o \in orgs
    BY <2>3 DEF Init, ListActiveKeys
  <2>4. ASSUME NEW c \in tokens, c.org = o PROVE \E u \in User : role[o][u] # NULL
    BY <1>0, <2>4 DEF Init, Claims
  <2>5. \A q \in Request : Home(q) # o
    BY <1>0 DEF Init, Home, Nobody
  <2> QED
    BY <2>1, <2>2, <2>3, <2>4, <2>5 DEF Inhabited
<1>2. OwnedWhereInhabited
  BY <1>1, IdentityAssumption DEF Init, OwnedWhereInhabited, Owners
<1>3. \A o \in Org \ orgs : ~ Inhabited(o)
  BY <1>1 DEF Init
<1>4. RosterInv
  BY <1>2, <1>3 DEF RosterInv, Init, Idle
<1>5. LockInv
  BY DEF LockInv, Init, HeldBy, NoRows
<1>6. TeamInv
  BY DEF TeamInv, TeamMembersBelong, Init
<1> QED
  BY <1>0, <1>4, <1>5, <1>6 DEF PeopleInv

LEMMA PeopleStep == PeopleInv /\ [Next]_vars => PeopleInv'
<1> SUFFICES ASSUME PeopleInv, [Next]_vars PROVE PeopleInv'
  OBVIOUS
<1>1. CASE UNCHANGED vars
  <2>1. Base'
    BY <1>1, StutterBase DEF PeopleInv
  <2>2. RosterInv'
    BY <1>1 DEF PeopleInv, RosterInv, OwnedWhereInhabited, Inhabited, Members, Owners,
       ListActiveKeys, Home, vars
  <2>3. LockInv'
    BY <1>1 DEF PeopleInv, LockInv, HeldBy, Home, vars
  <2>4. TeamInv'
    BY <1>1 DEF PeopleInv, TeamInv, TeamMembersBelong, Members, HeldBy, Home, Target, vars
  <2> QED
    BY <2>1, <2>2, <2>3, <2>4 DEF PeopleInv
<1>2. ASSUME NEW q \in Request, Acts(q), Moves(q) PROVE PeopleInv'
  BY <1>2, BaseStep, RosterStep, LockStep, TeamStep DEF PeopleInv
<1> QED
  BY <1>1, <1>2, BaseStep DEF PeopleInv

(***************************************************************************)
(* However many remove, demote, leave or found at once: an organisation    *)
(* anybody can act for has an owner.                                       *)
(***************************************************************************)
THEOREM AlwaysOwnedWhereInhabited == Spec => []OwnedWhereInhabited
<1>1. PeopleInv => OwnedWhereInhabited
  BY DEF PeopleInv, RosterInv
<1> QED
  BY PeopleInit, PeopleStep, <1>1, PTL DEF Spec

(***************************************************************************)
(* However an entry into a team, a removal from the organisation and a     *)
(* deletion of the team interleave: a team's members are its               *)
(* organisation's.                                                         *)
(***************************************************************************)
THEOREM TeamMembersAlwaysBelong == Spec => []TeamMembersBelong
<1>1. PeopleInv => TeamMembersBelong
  BY DEF PeopleInv, TeamInv
<1> QED
  BY PeopleInit, PeopleStep, <1>1, PTL DEF Spec

-----------------------------------------------------------------------------
(* The store as if each of its operations were one step.                   *)

(***************************************************************************)
(* What a transaction read of the rows it has locked, it can still rely on *)
(* when it decides: the target is a member, and the rule about owners      *)
(* answers for the roster as it is.                                        *)
(***************************************************************************)
LEMMA DecidesOnTheRoster ==
    ASSUME Base, LockInv, NEW q \in Request, Home(q) \in Org, Target(q) \in User,
           NEW r \in Role \cup {NULL}, ~ MayNot(q, r)
    PROVE  /\ role[Home(q)][Target(q)] # NULL
           /\ ~ Store!OrphansOwner(role[Home(q)], Target(q), r)
<1>1. Target(q) \in HeldBy(q) /\ ~ Store!OrphansOwner(seen[q], Target(q), r)
  BY DEF MayNot
<1>2. \A u \in User : seen[q][u] # NULL => seen[q][u] = role[Home(q)][u]
  BY DEF LockInv, HeldBy
<1>3. role[Home(q)][Target(q)] # NULL
  BY <1>1, <1>2 DEF HeldBy
<1>4. ASSUME Store!OrphansOwner(role[Home(q)], Target(q), r) PROVE FALSE
  <2>1. /\ role[Home(q)][Target(q)] = "owner" /\ r # "owner"
        /\ \A v \in User \ {Target(q)} : role[Home(q)][v] # "owner"
    BY <1>4 DEF Store!OrphansOwner
  <2>2. seen[q][Target(q)] = "owner"
    BY <1>1, <1>2, <2>1 DEF HeldBy
  <2>3. \A v \in User \ {Target(q)} : seen[q][v] # "owner"
    BY <1>2, <2>1, NullIsNone
  <2> QED
    BY <1>1, <2>1, <2>2, <2>3 DEF Store!OrphansOwner
<1> QED
  BY <1>3, <1>4

LEMMA PeopleKeepStore ==
    ASSUME PeopleInv, NEW q \in Request,
           AddFounder(q) \/ AddMember(q) \/ UpdateMembershipRole(q) \/ RemoveMembership(q)
    PROVE  [Store!Next]_(Store!vars)
<1>0. /\ Fits(q) /\ Suits(q) /\ Base /\ LockInv /\ RosterInv
      /\ NULL \notin Org /\ NULL \notin Role /\ "owner" \in Role
      /\ teamOf \in [Team -> Org \cup {NULL}] /\ inTeam \subseteq Team \X User
  BY NullIsNone DEF PeopleInv, Base, TypeOK
<1>1. CASE AddFounder(q)
  <2>1. /\ job[q].org \in Org /\ Founder(q) \in User /\ pc[q] = "own"
        /\ role' = [role EXCEPT ![job[q].org][Founder(q)] = "owner"]
        /\ UNCHANGED <<users, orgs, teamOf, inTeam>>
    BY <1>0, <1>1 DEF AddFounder, Fits, Suits, Founding, AddMembership
  <2>2. role[job[q].org][Founder(q)] = NULL
    BY <1>0, <2>1 DEF RosterInv, Inhabited, Members
  <2>3. Store!AddMembership(Founder(q), job[q].org, "owner")
    BY <2>1, <2>2 DEF Store!AddMembership, Store!IsMember
  <2> QED
    BY <1>0, <2>1, <2>3 DEF Store!Next
<1>2. CASE AddMember(q)
  <2>1. CASE Target(q) \in users \ Members(Home(q))
    <3>1. /\ Home(q) \in Org /\ Target(q) \in User /\ job[q].role \in Role
          /\ role' = [role EXCEPT ![Home(q)][Target(q)] = job[q].role]
          /\ role[Home(q)][Target(q)] = NULL
          /\ UNCHANGED <<users, orgs, teamOf, inTeam>>
      BY <1>0, <1>2, <2>1 DEF AddMember, Suits, AddMembership, Target, Members
    <3>2. Store!AddMembership(Target(q), Home(q), job[q].role)
      BY <3>1 DEF Store!AddMembership, Store!IsMember
    <3> QED
      BY <3>1, <3>2 DEF Store!Next
  <2>2. CASE Target(q) \notin users \ Members(Home(q))
    BY <1>2, <2>2 DEF AddMember, Store!vars
  <2> QED
    BY <2>1, <2>2
<1>3. CASE UpdateMembershipRole(q)
  <2>1. CASE ~ MayNot(q, job[q].role)
    <3>1. /\ Home(q) \in Org /\ Target(q) \in User /\ job[q].role \in Role
          /\ role' = [role EXCEPT ![Home(q)][Target(q)] = job[q].role]
          /\ UNCHANGED <<users, orgs, teamOf, inTeam>>
      BY <1>0, <1>3, <2>1 DEF UpdateMembershipRole, Suits, AddMembership, Target
    <3>2. Store!UpdateMembershipRole(Target(q), Home(q), job[q].role)
      BY <1>0, <2>1, <3>1, DecidesOnTheRoster DEF Store!UpdateMembershipRole, Store!IsMember
    <3> QED
      BY <3>1, <3>2 DEF Store!Next
  <2>2. CASE MayNot(q, job[q].role)
    BY <1>3, <2>2 DEF UpdateMembershipRole, Store!vars
  <2> QED
    BY <2>1, <2>2
<1>4. CASE RemoveMembership(q)
  <2>1. CASE ~ MayNot(q, NULL)
    <3>1. /\ Home(q) \in Org /\ Target(q) \in User
          /\ role' = [role EXCEPT ![Home(q)][Target(q)] = NULL]
          /\ inTeam' = {m \in inTeam : ~ (m[2] = Target(q) /\ teamOf[m[1]] = Home(q))}
          /\ UNCHANGED <<users, orgs, teamOf>>
      BY <1>0, <1>4, <2>1 DEF RemoveMembership, Suits, Target
    <3>2. \A m \in inTeam : teamOf[m[1]] = Home(q) <=> Store!OfOrg(m[1], Home(q))
      BY <1>0, <3>1 DEF Store!OfOrg
    <3>3. Store!RemoveMembership(Target(q), Home(q))
      BY <1>0, <2>1, <3>1, <3>2, DecidesOnTheRoster DEF Store!RemoveMembership, Store!IsMember
    <3> QED
      BY <3>1, <3>3 DEF Store!Next
  <2>2. CASE MayNot(q, NULL)
    BY <1>4, <2>2 DEF RemoveMembership, Store!vars
  <2> QED
    BY <2>1, <2>2
<1> QED
  BY <1>1, <1>2, <1>3, <1>4

LEMMA TeamsKeepStore ==
    ASSUME PeopleInv, NEW q \in Request,
           \/ CreateTeam(q) \/ DeleteTeam(q) \/ AddTeamMember(q) \/ RemoveTeamMember(q)
    PROVE  [Store!Next]_(Store!vars)
<1>0. /\ Fits(q) /\ Suits(q) /\ TeamInv /\ LockInv /\ NULL \notin Org
      /\ teamOf \in [Team -> Org \cup {NULL}] /\ inTeam \subseteq Team \X User
  BY NullIsNone DEF PeopleInv, Base, TypeOK
<1> DEFINE t == job[q].team
<1>1. CASE CreateTeam(q)
  <2>1. /\ Home(q) \in Org /\ t \in Team /\ teamOf[t] = NULL
        /\ teamOf' = [teamOf EXCEPT ![t] = Home(q)]
        /\ UNCHANGED <<users, orgs, role, inTeam>>
    BY <1>0, <1>1 DEF CreateTeam, Suits, TeamInv
  <2>2. Store!CreateTeam(Home(q), t)
    BY <2>1 DEF Store!CreateTeam
  <2> QED
    BY <2>1, <2>2 DEF Store!Next
<1>2. CASE DeleteTeam(q)
  <2>1. CASE teamOf[t] = Home(q)
    <3>1. /\ Home(q) \in Org /\ t \in Team
          /\ teamOf' = [teamOf EXCEPT ![t] = NULL]
          /\ inTeam' = {m \in inTeam : m[1] # t}
          /\ UNCHANGED <<users, orgs, role>>
      BY <1>0, <1>2, <2>1 DEF DeleteTeam, Suits
    <3>2. Store!DeleteTeam(Home(q), t)
      BY <1>0, <2>1, <3>1 DEF Store!DeleteTeam, Store!OfOrg
    <3> QED
      BY <3>1, <3>2 DEF Store!Next
  <2>2. CASE teamOf[t] # Home(q)
    BY <1>2, <2>2 DEF DeleteTeam, Store!vars
  <2> QED
    BY <2>1, <2>2
<1>3. CASE AddTeamMember(q)
  <2>1. CASE teamOf[t] # NULL
    <3>1. /\ pc[q] = "enter" /\ inTeam' = inTeam \cup {<<t, Target(q)>>}
          /\ UNCHANGED <<users, orgs, role, teamOf>>
      BY <1>3, <2>1 DEF AddTeamMember
    <3>2. /\ Home(q) \in Org /\ t \in Team /\ Target(q) \in User
          /\ teamOf[t] = Home(q) /\ Target(q) \in HeldBy(q)
      BY <1>0, <2>1, <3>1 DEF Fits, Suits, OfTeams, Target, TeamInv
    <3>3. role[Home(q)][Target(q)] # NULL
      BY <1>0, <3>2 DEF LockInv, HeldBy
    <3>4. Store!AddTeamMember(t, Target(q))
      BY <2>1, <3>1, <3>2, <3>3 DEF Store!AddTeamMember, Store!Belongs, Store!IsMember
    <3> QED
      BY <3>2, <3>4 DEF Store!Next
  <2>2. CASE teamOf[t] = NULL
    BY <1>3, <2>2 DEF AddTeamMember, Store!vars
  <2> QED
    BY <2>1, <2>2
<1>4. CASE RemoveTeamMember(q)
  <2>1. CASE GetTeam(Home(q), t) /\ <<t, Target(q)>> \in inTeam
    <3>1. /\ Home(q) \in Org /\ t \in Team /\ Target(q) \in User
          /\ inTeam' = inTeam \ {<<t, Target(q)>>}
          /\ UNCHANGED <<users, orgs, role, teamOf>>
      BY <1>0, <1>4, <2>1 DEF RemoveTeamMember, Suits, OfTeams, Target
    <3>2. Store!RemoveTeamMember(Home(q), t, Target(q))
      BY <1>0, <2>1, <3>1 DEF Store!RemoveTeamMember, Store!OfOrg, GetTeam
    <3> QED
      BY <3>1, <3>2 DEF Store!Next
  <2>2. CASE ~ (GetTeam(Home(q), t) /\ <<t, Target(q)>> \in inTeam)
    BY <1>4, <2>2 DEF RemoveTeamMember, Store!vars
  <2> QED
    BY <2>1, <2>2
<1> QED
  BY <1>1, <1>2, <1>3, <1>4

LEMMA StoreStep == PeopleInv /\ [Next]_vars => [Store!Next]_(Store!vars)
<1> SUFFICES ASSUME PeopleInv, [Next]_vars PROVE [Store!Next]_(Store!vars)
  OBVIOUS
<1>1. CASE UNCHANGED vars
  BY <1>1 DEF vars, Store!vars
<1>2. ASSUME NEW q \in Request, Acts(q) PROVE [Store!Next]_(Store!vars)
  <2>0. Fits(q) /\ Suits(q)
    BY DEF PeopleInv, Base
  <2>1. CASE AddFounder(q) \/ AddMember(q) \/ UpdateMembershipRole(q) \/ RemoveMembership(q)
    BY <2>1, PeopleKeepStore
  <2>2. CASE CreateTeam(q) \/ DeleteTeam(q) \/ AddTeamMember(q) \/ RemoveTeamMember(q)
    BY <2>2, TeamsKeepStore
  <2>3. CASE CreateOrganization(q)
    <3>1. /\ job[q].org \in Org /\ orgs' = orgs \cup {job[q].org}
          /\ UNCHANGED <<users, role, teamOf, inTeam>>
      BY <2>0, <2>3 DEF CreateOrganization, Fits, Suits
    <3>2. job[q].org \notin orgs => Store!CreateOrganization(job[q].org)
      BY <3>1 DEF Store!CreateOrganization
    <3>3. job[q].org \in orgs => orgs' = orgs
      BY <3>1
    <3> QED
      BY <3>1, <3>2, <3>3 DEF Store!Next, Store!vars
  <2>4. CASE CreateUser(q)
    <3>1. CASE job[q].user \in users
      BY <2>4, <3>1 DEF CreateUser, Store!vars
    <3>2. CASE job[q].user \notin users
      <4>1. job[q].user \in User /\ Store!CreateUser(job[q].user)
        BY <2>0, <2>4, <3>2 DEF CreateUser, Store!CreateUser, Fits, Suits
      <4> QED
        BY <4>1 DEF Store!Next
    <3> QED
      BY <3>1, <3>2
  <2> QED
    BY <1>2, <2>1, <2>2, <2>3, <2>4 DEF Acts, Call, Refresh, Issue, LockOrgRoles, LockRow,
       ResolveTeam, ShareMembership, CreateKey, RevokeKey, Record, RecordFails, Fail, Register,
       Login, tables, Store!vars
<1> QED
  BY <1>1, <1>2 DEF Next, Acts

(***************************************************************************)
(* However many transactions wait for each other's rows, fail or die: each *)
(* that commits did what the store in memory does in one step, on the      *)
(* tables as they were at that moment.                                     *)
(***************************************************************************)
THEOREM RowLocksKeepStore == Spec => KeepsStore
<1>1. Init => Store!Init
  <2> SUFFICES ASSUME Init PROVE Store!Init
    OBVIOUS
  <2>1. TypeOK
    BY BaseInit DEF Base
  <2> QED
    BY <2>1 DEF Init, TypeOK, Store!Init
<1> QED
  BY PeopleInit, PeopleStep, StoreStep, <1>1, PTL DEF Spec, KeepsStore, Store!Spec

-----------------------------------------------------------------------------
(* No circle of lockers.                                                   *)

\* A finite set of ids has a greatest one.
LEMMA GreatestOf ==
    ASSUME NEW S \in SUBSET Nat, IsFiniteSet(S), S # {}
    PROVE  \E greatest \in S : \A e \in S : e <= greatest
<1> DEFINE HasGreatest(T) == \E greatest \in T : \A e \in T : e <= greatest
           Without(n) == \E T \in SUBSET Nat : /\ IsFiniteSet(T) /\ Cardinality(T) = n /\ T # {}
                                               /\ ~ HasGreatest(T)
           N == {n \in Nat : Without(n)}
<1> SUFFICES ASSUME ~ HasGreatest(S) PROVE FALSE
  OBVIOUS
<1>1. Cardinality(S) \in N
  BY FS_CardinalityType
<1>2. PICK n \in N : \A m \in N : n <= m
  BY <1>1, LeastOf
<1>3. PICK T \in SUBSET Nat : IsFiniteSet(T) /\ Cardinality(T) = n /\ T # {} /\ ~ HasGreatest(T)
  BY <1>2
<1>4. PICK x \in T : TRUE
  BY <1>3
<1> DEFINE U == T \ {x}
<1>5. IsFiniteSet(U) /\ Cardinality(U) = n - 1 /\ U \in SUBSET Nat /\ x \in Nat
  BY <1>3, <1>4, FS_RemoveElement
<1>6. CASE U = {}
  <2>1. \A e \in T : e <= x
    BY <1>5, <1>6
  <2> QED
    BY <1>3, <1>4, <2>1
<1>7. CASE U # {}
  <2>1. n - 1 \in Nat /\ n - 1 \notin N
    BY <1>2, <1>5, FS_CardinalityType
  <2>2. HasGreatest(U)
    BY <1>5, <1>7, <2>1
  <2>3. PICK y \in U : \A e \in U : e <= y
    BY <2>2
  <2>4. CASE x <= y
    BY <1>3, <1>5, <2>3, <2>4
  <2>5. CASE y <= x
    BY <1>3, <1>4, <1>5, <2>3, <2>5
  <2> QED
    BY <1>5, <2>3, <2>4, <2>5
<1> QED
  BY <1>6, <1>7

(***************************************************************************)
(* Rows are locked in one order, so of all that wait the one that waits    *)
(* for the highest row waits for a call that does not wait.                *)
(***************************************************************************)
THEOREM LockersAreNeverStuck == Spec => []LockersNeverStuck
<1>1. PeopleInv => LockersNeverStuck
  <2> DEFINE L == {q \in Request : pc[q] = "locking"}
             V == {NextRow(q) : q \in L}
  <2> SUFFICES ASSUME PeopleInv, NEW s \in Request, pc[s] \in {"locking", "share"},
                      \A q \in Request : pc[q] \in {"locking", "share"} \/ HeldBy(q) # {} =>
                          Blocked(q)
               PROVE  FALSE
    BY DEF LockersNeverStuck
  <2>0. Base /\ LockInv
    BY DEF PeopleInv
  <2>1. L # {}
    BY DEF Blocked, Awaits
  <2>2. ASSUME NEW q \in L
        PROVE  NextRow(q) \in Nat /\ \E r \in L : NextRow(q) < NextRow(r)
    <3>1. PICK r \in Request : Awaits(q, r)
      BY <2>2 DEF Blocked
    <3>2. wanted[q] # {} /\ NextRow(q) \in HeldBy(r)
      BY <2>2, <3>1 DEF Awaits
    <3>3. PICK t \in Request : Awaits(r, t)
      BY <3>2 DEF Blocked
    <3>4. pc[r] \in {"locking", "enter"}
      BY <2>0, <3>2, HolderIs
    <3>5. pc[r] = "locking" /\ wanted[r] # {}
      BY <3>3, <3>4 DEF Awaits
    <3>6. NextRow(r) \in wanted[r] /\ NextRow(q) \in User
      BY <2>0, <2>2, <3>2, <3>5, NextRowIs
    <3>7. NextRow(q) < NextRow(r)
      BY <2>0, <3>2, <3>6 DEF LockInv
    <3> QED
      BY <3>5, <3>6, <3>7, IdentityAssumption
  <2>3. IsFiniteSet(V) /\ V # {} /\ V \in SUBSET Nat
    <3>1. L \subseteq Active
      BY DEF Active
    <3>2. IsFiniteSet(L)
      BY <2>0, <3>1, FS_Subset DEF Base
    <3>3. IsFiniteSet(V)
      <4> DEFINE f == [q \in L |-> NextRow(q)]
      <4>1. f \in Surjection(L, V)
        BY DEF Surjection, Range
      <4> QED
        BY <3>2, <4>1, FS_Surjection
    <3> QED
      BY <2>1, <2>2, <3>3
  <2>4. PICK greatest \in V : \A e \in V : e <= greatest
    BY <2>3, GreatestOf
  <2>5. PICK q \in L : greatest = NextRow(q)
    BY <2>4
  <2>6. PICK r \in L : NextRow(q) < NextRow(r)
    BY <2>2
  <2>7. NextRow(r) <= NextRow(q) /\ NextRow(r) \in Nat /\ NextRow(q) \in Nat
    BY <2>2, <2>4, <2>5
  <2> QED
    BY <2>6, <2>7
<1> QED
  BY PeopleInit, PeopleStep, <1>1, PTL DEF Spec

=============================================================================
