------------------------ MODULE MultiAgentRunProofs ------------------------
(***************************************************************************)
(* Theorems about MultiAgentRun, for every number of runs, requests,       *)
(* instances and roles, and every pair of bounds.                          *)
(*                                                                         *)
(* LocalInv says what each call under way has made of its blackboard; it   *)
(* ties the two counters to the number of drafts written, which none of    *)
(* the routing looks at.  CheckInv says that a checkpoint is always of a   *)
(* run that has only been planned: the human policy pauses there, so no    *)
(* stream gets further, and no rejection finds the revisions used up.      *)
(* RunInv says that a run has one start, which finds it running.           *)
(***************************************************************************)
EXTENDS MultiAgentRun, TLAPS

Unfinished(b) == b.reason = NULL /\ b.output = NULL

Untouched(b) ==
    b.rounds = 0 /\ b.revisions = 0 /\ b.draft = 0 /\ b.feedback = "none"

FreeInv(q) ==
    pc[q] = "free" =>
        /\ job[q].kind = "none" /\ job[q].at = NULL
        /\ phase[q] = 1 /\ visits[q] = 0 /\ board[q] = Blank
        /\ answer[q] = "none"

KindInv(q) ==
    /\ pc[q] # "free" => job[q].run \in Run /\ job[q].at \in Instance
    /\ pc[q] \in {"acting", "ending"} => job[q].kind \in {"start", "stream"}
    /\ pc[q] = "gate" => job[q].kind = "stream"
    /\ pc[q] = "storing" => job[q].kind = "start"
    /\ pc[q] \in {"deciding", "recording", "resolving"} => job[q].kind = "approval"

\* About to write: every draft so far was reviewed and sent back.
RoleInv(q) ==
    pc[q] = "acting" /\ phase[q] # Reviewer =>
        /\ Unfinished(board[q])
        /\ board[q].rounds < config.rounds
        /\ board[q].revisions < config.revisions
        /\ board[q].draft = board[q].rounds
        /\ phase[q] < Reviser => board[q].rounds = 0
        /\ IF board[q].rounds = 0
             THEN board[q].revisions = 0 /\ board[q].feedback = "none"
             ELSE /\ board[q].revisions = board[q].rounds - 1
                  /\ board[q].feedback = "revise"
        /\ visits[q] = phase[q] - 1 + 2 * board[q].rounds

\* About to review: one draft is ahead of the rounds.
ReviewInv(q) ==
    pc[q] = "acting" /\ phase[q] = Reviewer =>
        /\ Unfinished(board[q])
        /\ board[q].rounds < config.rounds
        /\ board[q].revisions = board[q].rounds
        /\ board[q].revisions <= config.revisions
        /\ board[q].draft = board[q].rounds + 1
        /\ visits[q] = Reviser + 2 * board[q].rounds

\* Reviewed: as many rounds as drafts, one revision less.
Judged(q) ==
    /\ Unfinished(board[q])
    /\ board[q].rounds >= 1 /\ board[q].rounds <= config.rounds
    /\ board[q].revisions = board[q].rounds - 1
    /\ board[q].revisions <= config.revisions
    /\ board[q].draft = board[q].rounds
    /\ board[q].feedback \in {"approve", "revise"}
    /\ visits[q] = Reviser - 1 + 2 * board[q].rounds

GateInv(q) ==
    pc[q] = "gate" =>
        \/ /\ phase[q] = 2 /\ visits[q] = 1
           /\ Unfinished(board[q]) /\ Untouched(board[q])
        \/ /\ phase[q] = Reviewer
           /\ Judged(q) /\ board[q].feedback = "approve"

EndInv(q) ==
    /\ pc[q] = "ending" =>
          /\ phase[q] = Reviewer
          /\ Judged(q) /\ NextAfterReview(board[q]) # "revise"
    /\ pc[q] = "storing" => board[q].output # NULL
    /\ pc[q] \in {"deciding", "recording", "resolving"} => Unfinished(board[q])
    /\ pc[q] # "tripped"

HumanInv(q) ==
    config.human /\ job[q].kind = "stream" =>
        /\ answer[q] # "completion" /\ board[q].draft = 0
        /\ pc[q] = "acting" => phase[q] = 1
        /\ pc[q] = "gate" => phase[q] = 2
        /\ pc[q] # "ending"

LocalInv(q) ==
    /\ FreeInv(q) /\ KindInv(q) /\ RoleInv(q) /\ ReviewInv(q)
    /\ GateInv(q) /\ EndInv(q) /\ HumanInv(q)

CheckInv ==
    \A i \in Instance, r \in Run : checkpoint[i][r] # NULL =>
        Unfinished(checkpoint[i][r]) /\ checkpoint[i][r].revisions = 0
                                     /\ checkpoint[i][r].rounds = 0

RunInv ==
    /\ \A q \in Request : job[q].kind = "start" =>
          /\ record[job[q].run].status # "absent"
          /\ pc[q] \in {"acting", "ending", "storing"} =>
                record[job[q].run].status = "running"
    /\ \A p, q \in Request :
          job[p].kind = "start" /\ job[q].kind = "start" /\ p # q =>
              job[p].run # job[q].run

\* What a start or a decision is about to tell is what is stored.
ToldInv ==
    \A q \in Request : told[q] # NULL =>
        /\ pc[q] # "free" /\ job[q].run \in Run
        /\ record[job[q].run].status = "terminated"
        /\ record[job[q].run].reason = told[q]

IInv ==
    /\ TypeOK /\ (\A q \in Request : LocalInv(q)) /\ CheckInv /\ RunInv
    /\ OutcomeExplained /\ WholeOutcome /\ AnnouncedIsStored /\ ToldInv

----------------------------------------------------------------------------
(* Types.                                                                  *)

\* The operators on blackboards return blackboards.
LEMMA BoardOps ==
    ASSUME NEW b \in Board, TypeOK
    PROVE  /\ Blank \in Board
           /\ Drafted(b) \in Board
           /\ \A word \in {"approve", "revise"} : Reviewed(b, word) \in Board
           /\ b.draft \in Nat /\ Finalized(b) \in Board
           /\ \A name \in Checkpoints : Suspended(b, name) \in Board
           /\ \A d \in Decisions : Decided(b, d) \in Board
<1>1. Blank \in Board
  BY DEF Blank, Board
<1>2. Drafted(b) \in Board
  BY DEF Drafted, Board
<1>3. \A word \in {"approve", "revise"} : Reviewed(b, word) \in Board
  BY DEF Reviewed, Board
<1>4. Finalized(b) \in Board
  BY DEF Finalized, Board, Reasons
<1>5. \A name \in Checkpoints : Suspended(b, name) \in Board
  BY DEF Suspended, Board
<1>6. \A d \in Decisions : Decided(b, d) \in Board
  BY DEF Decided, Board, Reasons
<1>7. b.draft \in Nat
  BY DEF Board
<1> QED BY <1>1, <1>2, <1>3, <1>4, <1>5, <1>6, <1>7

\* Moving a call on keeps the types of its program counter and visits.
LEMMA VisitTyped ==
    ASSUME TypeOK, NEW q \in Request, NEW step \in Steps, Visit(q, step)
    PROVE  pc' \in [Request -> Steps] /\ visits' \in [Request -> Nat]
<1>1. visits' \in [Request -> Nat]
  BY DEF TypeOK, Visit
<1>2. pc' \in [Request -> Steps]
  BY DEF TypeOK, Visit, Goto, Steps
<1> QED BY <1>1, <1>2

LEMMA GotoTyped ==
    ASSUME TypeOK, NEW q \in Request, NEW step \in Steps, Goto(q, step)
    PROVE  pc' \in [Request -> Steps]
BY DEF TypeOK, Goto

LEMMA InitTyped == ASSUME Init PROVE TypeOK
<1>1. Blank \in Board /\ Blank.rounds = 0 /\ Blank.revisions = 0
  BY DEF Blank, Board
<1>2. config \in [human : BOOLEAN, rounds : Nat \ {0}, revisions : Nat \ {0}]
  <2>1. PICK human \in BOOLEAN, l \in Limits :
           config = [human |-> human, rounds |-> l[1], revisions |-> l[2]]
    BY DEF Init
  <2>2. l \in (Nat \ {0}) \X (Nat \ {0})
    BY RunAssumption
  <2> QED BY <2>1, <2>2
<1>3. /\ record \in [Run -> Record] /\ recorded \in [Run -> Nat]
      /\ checkpoint \in [Instance -> [Run -> Board \cup {NULL}]]
      /\ announced \in [Run -> SUBSET [by : Request, reason : Reasons]]
  BY DEF Init, Record
<1>4. job \in [Request -> Job]
  BY DEF Init, Job
<1>5. /\ pc \in [Request -> Steps] /\ answer \in [Request -> Answers]
      /\ phase \in [Request -> 1..Roles]
      /\ visits \in [Request -> Nat] /\ crashes \in Nat
      /\ told \in [Request -> Reasons \cup {NULL}]
  BY RunAssumption DEF Init, Steps, Answers
<1>6. board \in [Request -> Board]
  BY <1>1 DEF Init
<1>7. \A q \in Request : board[q].rounds <= config.rounds
                         /\ board[q].revisions <= config.revisions
  BY <1>1, <1>2 DEF Init
<1> QED BY <1>2, <1>3, <1>4, <1>5, <1>6, <1>7 DEF TypeOK

\* The bounds of the type invariant, for a step that gives call q another
\* blackboard within them.
LEMMA BoardTyped ==
    ASSUME TypeOK, NEW q \in Request, NEW b \in Board,
           b.rounds <= config.rounds, b.revisions <= config.revisions,
           board' = [board EXCEPT ![q] = b], config' = config
    PROVE  /\ board' \in [Request -> Board]
           /\ \A p \in Request : /\ board'[p].rounds <= config'.rounds
                                 /\ board'[p].revisions <= config'.revisions
<1>1. board' \in [Request -> Board]
  BY DEF TypeOK
<1>2. \A p \in Request : board'[p] = IF p = q THEN b ELSE board[p]
  BY DEF TypeOK
<1> QED BY <1>1, <1>2 DEF TypeOK

\* What a local step leaves alone.
LEMMA SharedTyped ==
    ASSUME TypeOK, UNCHANGED <<config, shared, told, crashes>>
    PROVE  /\ config' \in [human : BOOLEAN, rounds : Nat \ {0}, revisions : Nat \ {0}]
           /\ record' \in [Run -> Record] /\ recorded' \in [Run -> Nat]
           /\ checkpoint' \in [Instance -> [Run -> Board \cup {NULL}]]
           /\ announced' \in [Run -> SUBSET [by : Request, reason : Reasons]]
           /\ told' \in [Request -> Reasons \cup {NULL}] /\ crashes' \in Nat
BY DEF TypeOK, shared

LEMMA RolesTyped ==
    ASSUME IInv, NEW q \in Request, Contribute(q) \/ Write(q) \/ Review(q)
    PROVE  TypeOK'
<1> DEFINE B == board[q]
<1>1. TypeOK /\ RoleInv(q) /\ ReviewInv(q)
  BY DEF IInv, LocalInv
<1>2. /\ UNCHANGED <<config, shared, told, crashes, job, answer>>
      /\ job' \in [Request -> Job] /\ answer' \in [Request -> Answers]
  BY <1>1 DEF TypeOK, Contribute, Write, Review
<1>3. B \in Board /\ B.rounds \in Nat /\ B.revisions \in Nat /\ phase[q] \in 1..Roles
      /\ config.rounds \in Nat /\ config.revisions \in Nat
  BY <1>1 DEF TypeOK, Board
<1>4. CASE Contribute(q)
  <2>1. phase' \in [Request -> 1..Roles]
    BY <1>1, <1>3, <1>4, RunAssumption DEF TypeOK, Contribute, Reviser
  <2>2. PICK step \in Steps : Visit(q, step)
    BY <1>4 DEF Contribute, Steps
  <2>3. UNCHANGED board
    BY <1>4 DEF Contribute
  <2> QED BY <1>1, <1>2, <2>1, <2>2, <2>3, VisitTyped, SharedTyped DEF TypeOK
<1>5. CASE Write(q)
  <2>1. phase' \in [Request -> 1..Roles]
    BY <1>1, <1>5, RunAssumption DEF TypeOK, Write, Reviewer
  <2>2. Visit(q, "acting") /\ "acting" \in Steps
    BY <1>5 DEF Write, Steps
  <2>3. board' = [board EXCEPT ![q] = Drafted(B)]
    BY <1>5 DEF Write
  <2>4. B.rounds < config.rounds /\ B.revisions < config.revisions
    BY <1>1, <1>5, RunAssumption DEF RoleInv, Write, Reviser, Reviewer
  <2>5. /\ Drafted(B).rounds <= config.rounds
        /\ Drafted(B).revisions <= config.revisions
    BY <1>3, <2>4 DEF Drafted
  <2>6. Drafted(B) \in Board
    BY <1>1, <1>3, BoardOps
  <2> HIDE DEF B
  <2> QED BY <1>1, <1>2, <2>1, <2>2, <2>3, <2>5, <2>6, VisitTyped, SharedTyped,
             BoardTyped DEF TypeOK
<1>6. CASE Review(q)
  <2>1. PICK word \in {"approve", "revise"} :
           LET b == Reviewed(B, word)
               route == NextAfterReview(b) IN
           /\ board' = [board EXCEPT ![q] = b]
           /\ phase' = [phase EXCEPT ![q] = IF route = "revise" THEN Reviser ELSE Reviewer]
           /\ Visit(q, IF route = "revise" THEN "acting"
                       ELSE IF route = "approve" /\ job[q].kind = "stream" THEN "gate"
                       ELSE "ending")
    BY <1>6 DEF Review
  <2>2. phase' \in [Request -> 1..Roles]
    BY <1>1, <2>1, RunAssumption DEF TypeOK, Reviser, Reviewer
  <2>3. PICK step \in Steps : Visit(q, step)
    BY <2>1 DEF Steps
  <2>4. B.rounds < config.rounds
    BY <1>1, <1>6 DEF ReviewInv, Review
  <2>5. /\ Reviewed(B, word).rounds <= config.rounds
        /\ Reviewed(B, word).revisions <= config.revisions
    BY <1>1, <1>3, <2>4 DEF Reviewed, TypeOK
  <2>6. Reviewed(B, word) \in Board
    BY <1>1, <1>3, BoardOps
  <2>7. board' = [board EXCEPT ![q] = Reviewed(B, word)]
    BY <2>1
  <2> HIDE DEF B
  <2> QED BY <1>1, <1>2, <2>2, <2>3, <2>5, <2>6, <2>7, VisitTyped, SharedTyped,
             BoardTyped DEF TypeOK
<1> QED BY <1>4, <1>5, <1>6

\* The calls that come in.
LEMMA CallsTyped ==
    ASSUME IInv, NEW q \in Request, StartRun(q) \/ OpenStream(q) \/ Submit(q)
    PROVE  TypeOK'
<1>1. TypeOK /\ CheckInv
  BY DEF IInv
<1>2. CASE StartRun(q)
  <2>1. PICK r \in Run, i \in Instance :
          /\ record' = [record EXCEPT ![r] =
                [status |-> "running", reason |-> NULL, output |-> NULL]]
          /\ job' = [job EXCEPT ![q] = [kind |-> "start", run |-> r, at |-> i,
                        decision |-> "none", resumes |-> FALSE]]
    BY <1>2 DEF StartRun
  <2>2. record' \in [Run -> Record]
    BY <1>1, <2>1 DEF TypeOK, Record
  <2>3. job' \in [Request -> Job]
    BY <1>1, <2>1 DEF TypeOK, Job
  <2>4. pc' \in [Request -> Steps]
    BY <1>1, <1>2, GotoTyped DEF StartRun, Steps
  <2> QED BY <1>1, <1>2, <2>2, <2>3, <2>4 DEF TypeOK, StartRun
<1>3. CASE OpenStream(q)
  <2>1. PICK r \in Run, i \in Instance, past \in BOOLEAN :
          job' = [job EXCEPT ![q] = [kind |-> "stream", run |-> r, at |-> i,
                        decision |-> "none", resumes |-> past]]
    BY <1>3 DEF OpenStream
  <2>2. job' \in [Request -> Job]
    BY <1>1, <2>1 DEF TypeOK, Job
  <2>3. pc' \in [Request -> Steps]
    BY <1>1, <1>3, GotoTyped DEF OpenStream, Steps
  <2>4. answer' \in [Request -> Answers]
    BY <1>1, <1>3 DEF TypeOK, OpenStream, Answers
  <2>5. UNCHANGED <<config, shared, phase, board, visits, told, crashes>>
    BY <1>3 DEF OpenStream
  <2> QED BY <1>1, <2>2, <2>3, <2>4, <2>5, SharedTyped DEF TypeOK
<1>4. CASE Submit(q)
  <2>1. PICK r \in Run, i \in Instance, d \in Decisions :
          /\ job' = [job EXCEPT ![q] = [kind |-> "approval", run |-> r, at |-> i,
                        decision |-> d, resumes |-> FALSE]]
          /\ IF checkpoint[i][r] = NULL
               THEN /\ answer' = [answer EXCEPT ![q] = "refused"]
                    /\ Goto(q, "over")
                    /\ board' = board
               ELSE /\ board' = [board EXCEPT ![q] = Decided(checkpoint[i][r], d)]
                    /\ Goto(q, "deciding")
                    /\ answer' = answer
    BY <1>4 DEF Submit
  <2>2. job' \in [Request -> Job]
    BY <1>1, <2>1 DEF TypeOK, Job
  <2>3. UNCHANGED <<config, shared, phase, visits, told, crashes>>
    BY <1>4 DEF Submit
  <2>4. CASE checkpoint[i][r] = NULL
    <3>1. pc' \in [Request -> Steps]
      BY <1>1, <2>1, <2>4, GotoTyped DEF Steps
    <3>2. answer' \in [Request -> Answers]
      BY <1>1, <2>1, <2>4 DEF TypeOK, Answers
    <3> QED BY <1>1, <2>1, <2>2, <2>3, <2>4, <3>1, <3>2, SharedTyped DEF TypeOK
  <2>5. CASE checkpoint[i][r] # NULL
    <3>1. pc' \in [Request -> Steps]
      BY <1>1, <2>1, <2>5, GotoTyped DEF Steps
    <3> DEFINE b == checkpoint[i][r]
    <3>2. b \in Board /\ b.rounds = 0 /\ b.revisions = 0
      BY <1>1, <2>5 DEF TypeOK, CheckInv
    <3>3. Decided(b, d) \in Board
      BY <1>1, <3>2, BoardOps
    <3>4. Decided(b, d).rounds <= config.rounds /\ Decided(b, d).revisions <= config.revisions
      BY <1>1, <3>2 DEF Decided, TypeOK
    <3>5. board' = [board EXCEPT ![q] = Decided(b, d)] /\ answer' = answer
      BY <2>1, <2>5
    <3> HIDE DEF b
    <3> QED BY <1>1, <2>2, <2>3, <3>1, <3>3, <3>4, <3>5, SharedTyped, BoardTyped DEF TypeOK
  <2> QED BY <2>4, <2>5
<1> QED BY <1>2, <1>3, <1>4

\* The gate and the ends of a collaboration.
LEMMA EndsTyped ==
    ASSUME IInv, NEW q \in Request,
           Proceed(q) \/ Pause(q) \/ FinalizeGraph(q) \/ Complete(q)
    PROVE  TypeOK'
<1> DEFINE B == board[q]
<1>1. TypeOK /\ KindInv(q)
  BY DEF IInv, LocalInv
<1>2. B \in Board /\ B.rounds <= config.rounds /\ B.revisions <= config.revisions
  BY <1>1 DEF TypeOK
<1>3. /\ Finalized(B) \in Board
      /\ Finalized(B).rounds <= config.rounds /\ Finalized(B).revisions <= config.revisions
  BY <1>1, <1>2, BoardOps DEF Finalized
<1>4. CASE Proceed(q)
  <2>1. PICK step \in Steps : Goto(q, step)
    BY <1>4 DEF Proceed, Steps
  <2>2. UNCHANGED <<config, shared, job, phase, board, visits, answer, told, crashes>>
    BY <1>4 DEF Proceed
  <2> QED BY <1>1, <2>1, <2>2, GotoTyped, SharedTyped DEF TypeOK
<1>5. CASE Pause(q)
  <2> DEFINE b == Suspended(B, GateName(q))
  <2>1. b \in Board /\ b.rounds <= config.rounds /\ b.revisions <= config.revisions
    BY <1>1, <1>2, BoardOps DEF GateName, Checkpoints, Suspended
  <2>2. /\ board' = [board EXCEPT ![q] = b] /\ config' = config
        /\ checkpoint' = [checkpoint EXCEPT ![job[q].at] =
                               [@ EXCEPT ![job[q].run] = b]]
        /\ UNCHANGED <<record, recorded, announced, job, phase, visits, told, crashes>>
    BY <1>5 DEF Pause
  <2>3. answer' \in [Request -> Answers]
    BY <1>1, <1>5 DEF TypeOK, Pause, Answers
  <2>4. pc' \in [Request -> Steps]
    BY <1>1, <1>5, GotoTyped DEF Pause, Steps
  <2> HIDE DEF b
  <2>5. checkpoint' \in [Instance -> [Run -> Board \cup {NULL}]]
    BY <1>1, <2>1, <2>2 DEF TypeOK
  <2> HIDE DEF B
  <2> QED BY <1>1, <2>1, <2>2, <2>3, <2>4, <2>5, BoardTyped DEF TypeOK
<1>6. CASE FinalizeGraph(q)
  <2>1. /\ board' = [board EXCEPT ![q] = Finalized(B)] /\ Visit(q, "storing")
        /\ UNCHANGED <<config, shared, job, phase, answer, told, crashes>>
    BY <1>6 DEF FinalizeGraph
  <2>2. "storing" \in Steps
    BY DEF Steps
  <2> HIDE DEF B
  <2> QED BY <1>1, <1>3, <2>1, <2>2, VisitTyped, SharedTyped, BoardTyped DEF TypeOK
<1>7. CASE Complete(q)
  <2>1. /\ board' = [board EXCEPT ![q] = Finalized(B)] /\ Goto(q, "telling")
        /\ UNCHANGED <<config, shared, job, phase, visits, told, crashes>>
    BY <1>7 DEF Complete
  <2>2. "telling" \in Steps
    BY DEF Steps
  <2>3. answer' \in [Request -> Answers]
    BY <1>1, <1>7 DEF TypeOK, Complete, Answers
  <2> HIDE DEF B
  <2> QED BY <1>1, <1>3, <2>1, <2>2, <2>3, GotoTyped, SharedTyped, BoardTyped DEF TypeOK
<1> QED BY <1>4, <1>5, <1>6, <1>7

\* The store, the webhook, and the ways a call may break off.
LEMMA TailsTyped ==
    ASSUME IInv, NEW q \in Request,
           StoreOutcome(q) \/ Tell(q) \/ Fail(q) \/ Leave(q) \/ Discard(q)
             \/ RecordDecision(q) \/ Resolve(q)
    PROVE  TypeOK'
<1>1. TypeOK /\ KindInv(q) /\ EndInv(q)
  BY DEF IInv, LocalInv
<1>2. UNCHANGED <<config, job, phase, board, visits, crashes>>
  BY DEF StoreOutcome, Tell, Fail, Leave, Discard, RecordDecision, Resolve
<1>3. pc' \in [Request -> Steps]
  BY <1>1 DEF StoreOutcome, Tell, Fail, Leave, Discard, RecordDecision, Resolve,
              Goto, TypeOK, Steps
<1>4. answer' \in [Request -> Answers]
  BY <1>1 DEF StoreOutcome, Tell, Fail, Leave, Discard, RecordDecision, Resolve,
              TypeOK, Answers
<1>5. Terminated(board[q]) \in Record
  BY <1>1 DEF Terminated, Record, TypeOK, Board
<1>6. record' \in [Run -> Record]
  BY <1>1, <1>5 DEF StoreOutcome, Tell, Fail, Leave, Discard, RecordDecision, Resolve,
              shared, TypeOK
<1>7. recorded' \in [Run -> Nat]
  <2>1. CASE RecordDecision(q)
    <3>1. PICK kept \in {0, 1} :
             recorded' = [recorded EXCEPT ![job[q].run] = @ + kept]
      BY <2>1 DEF RecordDecision
    <3>2. job[q].run \in Run
      BY <1>1, <2>1 DEF RecordDecision, KindInv
    <3>3. recorded \in [Run -> Nat] /\ kept \in Nat
      BY <1>1 DEF TypeOK
    <3> QED BY <3>1, <3>2, <3>3
  <2>2. CASE ~RecordDecision(q)
    BY <1>1, <2>2 DEF StoreOutcome, Tell, Fail, Leave, Discard, Resolve, shared, TypeOK
  <2> QED BY <2>1, <2>2
<1>8. checkpoint' \in [Instance -> [Run -> Board \cup {NULL}]]
  <2>1. checkpoint \in [Instance -> [Run -> Board \cup {NULL}]]
    BY <1>1 DEF TypeOK
  <2>2. CASE Discard(q)
    <3>1. checkpoint' = [checkpoint EXCEPT ![job[q].at] =
                         [@ EXCEPT ![job[q].run] = NULL]]
      BY <2>2 DEF Discard
    <3> QED BY <2>1, <3>1
  <2>3. CASE ~Discard(q)
    BY <2>1, <2>3 DEF StoreOutcome, Tell, Fail, Leave, RecordDecision, Resolve, shared
  <2> QED BY <2>2, <2>3
<1>9. announced' \in [Run -> SUBSET [by : Request, reason : Reasons]]
  <2>1. CASE Tell(q)
    <3> DEFINE r == job[q].run
               reason == ToTell(q)
    <3>1. CASE reason = NULL
      BY <1>1, <2>1, <3>1 DEF Tell, TypeOK
    <3>2. CASE reason # NULL
      <4>1. r \in Run /\ reason \in Reasons
        BY <1>1, <2>1, <3>2 DEF Tell, ToTell, KindInv, TypeOK, Record
      <4>2. announced' = [announced EXCEPT ![r] =
                   @ \cup {[by |-> q, reason |-> reason]}]
        BY <2>1, <3>2 DEF Tell
      <4> HIDE DEF r, reason
      <4> QED BY <1>1, <4>1, <4>2 DEF TypeOK
    <3> QED BY <3>1, <3>2
  <2>2. CASE ~Tell(q)
    BY <1>1, <2>2 DEF StoreOutcome, Fail, Leave, Discard, RecordDecision, Resolve,
                      shared, TypeOK
  <2> QED BY <2>1, <2>2
<1>10. told' \in [Request -> Reasons \cup {NULL}]
  <2>1. CASE StoreOutcome(q)
    BY <1>1, <2>1 DEF StoreOutcome, TypeOK, Board
  <2>2. CASE Resolve(q)
    <3>1. job[q].run \in Run /\ record' = record
      BY <1>1, <2>2 DEF Resolve, KindInv, EndInv, Unfinished
    <3>2. record[job[q].run].reason \in Reasons \cup {NULL}
      BY <1>1, <3>1 DEF TypeOK, Record
    <3>3. told' = [told EXCEPT ![q] = record[job[q].run].reason]
      BY <2>2, <3>1 DEF Resolve
    <3> QED BY <1>1, <3>2, <3>3 DEF TypeOK
  <2>3. CASE ~StoreOutcome(q) /\ ~Resolve(q)
    BY <1>1, <2>3 DEF Tell, Fail, Leave, Discard, RecordDecision, TypeOK
  <2> QED BY <2>1, <2>2, <2>3
<1> QED BY <1>1, <1>2, <1>3, <1>4, <1>6, <1>7, <1>8, <1>9, <1>10 DEF TypeOK

LEMMA CrashTyped ==
    ASSUME TypeOK, NEW i \in Instance, Crash(i)
    PROVE  TypeOK'
<1>1. checkpoint' \in [Instance -> [Run -> Board \cup {NULL}]]
  BY DEF Crash, TypeOK
<1>2. pc' \in [Request -> Steps]
  BY DEF Crash, TypeOK, Steps
<1> QED BY <1>1, <1>2 DEF Crash, TypeOK

LEMMA TypeStep == ASSUME IInv, Next PROVE TypeOK'
<1>1. TypeOK
  BY DEF IInv
<1> QED BY <1>1, CallsTyped, RolesTyped, EndsTyped, TailsTyped, CrashTyped
        DEF Next, Advance

----------------------------------------------------------------------------
(* Local state.                                                            *)

\* Where a step does not reach, LocalInv stays.
LEMMA LocalFrame ==
    ASSUME NEW p \in Request, LocalInv(p), config' = config,
           job'[p] = job[p], pc'[p] = pc[p], phase'[p] = phase[p],
           board'[p] = board[p], visits'[p] = visits[p], answer'[p] = answer[p]
    PROVE  LocalInv(p)'
<1>1. FreeInv(p)' /\ KindInv(p)' /\ HumanInv(p)'
  BY DEF LocalInv, FreeInv, KindInv, HumanInv
<1>2. RoleInv(p)' /\ ReviewInv(p)'
  BY DEF LocalInv, RoleInv, ReviewInv, Unfinished
<1>3. GateInv(p)' /\ EndInv(p)'
  BY DEF LocalInv, GateInv, EndInv, Judged, Unfinished, Untouched, NextAfterReview
<1> QED BY <1>1, <1>2, <1>3 DEF LocalInv

\* Every step but a crash touches the local state of one call.
LEMMA OneCallSteps ==
    ASSUME TypeOK, NEW q \in Request, NEW p \in Request, p # q,
           StartRun(q) \/ OpenStream(q) \/ Submit(q) \/ Advance(q) \/ Fail(q) \/ Leave(q)
    PROVE  /\ config' = config
           /\ job'[p] = job[p] /\ pc'[p] = pc[p] /\ phase'[p] = phase[p]
           /\ board'[p] = board[p] /\ visits'[p] = visits[p] /\ answer'[p] = answer[p]
<1>1. CASE StartRun(q) \/ OpenStream(q)
  BY <1>1 DEF StartRun, OpenStream, Goto, TypeOK
<1>2. CASE Submit(q)
  BY <1>2 DEF Submit, Goto, TypeOK
<1>3. CASE Contribute(q) \/ Write(q) \/ Review(q)
  BY <1>3 DEF Contribute, Write, Review, Visit, Goto, TypeOK
<1>4. CASE Proceed(q) \/ Pause(q)
  BY <1>4 DEF Proceed, Pause, Goto, TypeOK
<1>5. CASE FinalizeGraph(q) \/ Complete(q)
  BY <1>5 DEF FinalizeGraph, Complete, Visit, Goto, TypeOK
<1>6. CASE StoreOutcome(q) \/ Tell(q) \/ Fail(q) \/ Leave(q)
  BY <1>6 DEF StoreOutcome, Tell, Fail, Leave, Goto, TypeOK
<1>7. CASE Discard(q) \/ RecordDecision(q) \/ Resolve(q)
  BY <1>7 DEF Discard, RecordDecision, Resolve, Goto, TypeOK
<1> QED BY <1>1, <1>2, <1>3, <1>4, <1>5, <1>6, <1>7 DEF Advance

\* The values a step gives to the call it belongs to.
LEMMA AfterVisit ==
    ASSUME TypeOK, NEW q \in Request, NEW step, Visit(q, step),
           job[q].kind = "start" => visits[q] < RecursionLimit
    PROVE  visits'[q] = visits[q] + 1 /\ pc'[q] = step
<1>1. RecursionLimit \in Nat /\ visits[q] \in Nat
  BY RunAssumption DEF RecursionLimit, TypeOK
<1>2. visits[q] < RecursionLimit => ~(visits[q] >= RecursionLimit)
  BY <1>1
<1> QED BY <1>2 DEF TypeOK, Visit, Goto

LEMMA LocalCalls ==
    ASSUME IInv, NEW q \in Request, StartRun(q) \/ OpenStream(q) \/ Submit(q)
    PROVE  LocalInv(q)'
<1>1. TypeOK /\ FreeInv(q) /\ CheckInv
  BY DEF IInv, LocalInv
<1>2. /\ phase[q] = 1 /\ visits[q] = 0 /\ board[q] = Blank
      /\ phase'[q] = 1 /\ visits'[q] = 0 /\ config' = config
      /\ config.rounds \in Nat \ {0} /\ config.revisions \in Nat \ {0}
  BY <1>1 DEF FreeInv, StartRun, OpenStream, Submit, TypeOK
<1>3. CASE StartRun(q) \/ OpenStream(q)
  <2>1. /\ pc'[q] = "acting" /\ board'[q] = Blank
        /\ answer'[q] \in {"none", "opened"}
    BY <1>1, <1>2, <1>3 DEF StartRun, OpenStream, Goto, TypeOK, FreeInv
  <2>2. /\ job'[q].kind \in {"start", "stream"}
        /\ job'[q].run \in Run /\ job'[q].at \in Instance
    BY <1>1, <1>3 DEF StartRun, OpenStream, TypeOK
  <2>3. 1 < Reviser /\ 1 # Reviewer
    BY RunAssumption DEF Reviser, Reviewer
  <2>4. FreeInv(q)' /\ KindInv(q)' /\ GateInv(q)' /\ EndInv(q)'
    BY <2>1, <2>2 DEF FreeInv, KindInv, GateInv, EndInv
  <2>5. RoleInv(q)' /\ ReviewInv(q)'
    BY <1>2, <2>1, <2>3 DEF RoleInv, ReviewInv, Blank, Unfinished
  <2>6. HumanInv(q)'
    BY <1>2, <2>1 DEF HumanInv, Blank
  <2> QED BY <2>4, <2>5, <2>6 DEF LocalInv
<1>4. CASE Submit(q)
  <2>1. PICK r \in Run, i \in Instance, d \in Decisions :
          /\ job' = [job EXCEPT ![q] = [kind |-> "approval", run |-> r, at |-> i,
                        decision |-> d, resumes |-> FALSE]]
          /\ IF checkpoint[i][r] = NULL
               THEN /\ answer' = [answer EXCEPT ![q] = "refused"]
                    /\ Goto(q, "over")
                    /\ board' = board
               ELSE /\ board' = [board EXCEPT ![q] = Decided(checkpoint[i][r], d)]
                    /\ Goto(q, "deciding")
                    /\ answer' = answer
    BY <1>4 DEF Submit
  <2>2. job'[q].kind = "approval" /\ job'[q].run \in Run /\ job'[q].at \in Instance
    BY <1>1, <2>1 DEF TypeOK
  <2>3. pc'[q] \in {"over", "deciding"}
    BY <1>1, <2>1 DEF TypeOK, Goto
  <2>4. pc'[q] = "deciding" => Unfinished(board'[q])
    <3>1. SUFFICES ASSUME pc'[q] = "deciding" PROVE Unfinished(board'[q])
      OBVIOUS
    <3>2. checkpoint[i][r] # NULL
      BY <1>1, <2>1, <3>1 DEF TypeOK, Goto
    <3>3. board'[q] = Decided(checkpoint[i][r], d)
      BY <1>1, <2>1, <3>2 DEF TypeOK
    <3>4. Unfinished(checkpoint[i][r]) /\ checkpoint[i][r].revisions = 0
      BY <1>1, <3>2 DEF CheckInv
    <3> QED BY <1>2, <3>3, <3>4 DEF Decided, Unfinished
  <2>5. FreeInv(q)' /\ KindInv(q)' /\ GateInv(q)' /\ RoleInv(q)' /\ ReviewInv(q)'
    BY <2>2, <2>3 DEF FreeInv, KindInv, GateInv, RoleInv, ReviewInv
  <2>6. EndInv(q)' /\ HumanInv(q)'
    BY <2>2, <2>3, <2>4 DEF EndInv, HumanInv
  <2> QED BY <2>5, <2>6 DEF LocalInv
<1> QED BY <1>3, <1>4

\* The graph never reaches its recursion limit: in each state of a
\* collaboration the nodes entered so far are counted by the rounds.
LEMMA BelowLimit ==
    ASSUME IInv, NEW q \in Request, pc[q] \in {"acting", "ending"}
    PROVE  visits[q] < RecursionLimit
<1>1. /\ RoleInv(q) /\ ReviewInv(q) /\ EndInv(q)
      /\ phase[q] \in 1..Roles /\ visits[q] \in Nat /\ board[q].rounds \in Nat
      /\ config.rounds \in Nat
  BY DEF IInv, LocalInv, TypeOK, Board
<1>2. Roles \in Nat
  BY RunAssumption
<1>3. CASE pc[q] = "acting" /\ phase[q] # Reviewer
  <2>1. /\ visits[q] = phase[q] - 1 + 2 * board[q].rounds
        /\ board[q].rounds < config.rounds
    BY <1>1, <1>3 DEF RoleInv
  <2> QED BY <1>1, <1>2, <2>1 DEF RecursionLimit
<1>4. CASE pc[q] = "acting" /\ phase[q] = Reviewer
  BY <1>1, <1>2, <1>4 DEF ReviewInv, RecursionLimit, Reviser
<1>5. CASE pc[q] = "ending"
  BY <1>1, <1>2, <1>5 DEF EndInv, Judged, RecursionLimit, Reviser
<1> QED BY <1>3, <1>4, <1>5

LEMMA LocalContribute ==
    ASSUME IInv, NEW q \in Request, Contribute(q)
    PROVE  LocalInv(q)'
<1>1. /\ TypeOK /\ KindInv(q) /\ RoleInv(q) /\ HumanInv(q)
      /\ pc[q] = "acting" /\ phase[q] < Reviser
  BY DEF IInv, LocalInv, Contribute
<1>2. /\ phase[q] \in 1..Roles /\ visits[q] \in Nat /\ Roles \in Nat
      /\ Reviser < Reviewer /\ phase[q] # Reviewer /\ 2 # Reviewer
      /\ Reviser \in Nat /\ Reviewer \in Nat
  BY <1>1, RunAssumption DEF TypeOK, Reviser, Reviewer
<1>3. /\ Unfinished(board[q]) /\ Untouched(board[q])
      /\ visits[q] = phase[q] - 1
      /\ 0 < config.rounds /\ 0 < config.revisions
  BY <1>1, <1>2 DEF RoleInv, Untouched, TypeOK
<1>4. /\ phase'[q] = phase[q] + 1 /\ phase'[q] <= Reviser /\ phase'[q] # Reviewer
      /\ job'[q] = job[q] /\ board'[q] = board[q] /\ answer'[q] = answer[q]
      /\ config' = config
  BY <1>1, <1>2 DEF Contribute, TypeOK
<1>5. /\ visits'[q] = visits[q] + 1
      /\ pc'[q] = IF job[q].kind = "stream" /\ phase[q] = 1 THEN "gate" ELSE "acting"
  BY <1>1, BelowLimit, AfterVisit DEF Contribute
<1>6. FreeInv(q)' /\ KindInv(q)' /\ EndInv(q)'
  BY <1>1, <1>4, <1>5 DEF FreeInv, KindInv, EndInv
<1>7. RoleInv(q)' /\ ReviewInv(q)'
  BY <1>2, <1>3, <1>4, <1>5 DEF RoleInv, ReviewInv, Unfinished, Untouched
<1>8. GateInv(q)'
  BY <1>2, <1>3, <1>4, <1>5 DEF GateInv, Unfinished, Untouched
<1>9. HumanInv(q)'
  <2>1. SUFFICES ASSUME config.human, job[q].kind = "stream" PROVE HumanInv(q)'
    BY <1>4 DEF HumanInv
  <2>2. phase[q] = 1
    BY <1>1, <2>1 DEF HumanInv
  <2> QED BY <1>1, <1>4, <1>5, <2>1, <2>2 DEF HumanInv
<1> QED BY <1>6, <1>7, <1>8, <1>9 DEF LocalInv

LEMMA LocalWrite ==
    ASSUME IInv, NEW q \in Request, Write(q)
    PROVE  LocalInv(q)'
<1>1. /\ TypeOK /\ KindInv(q) /\ RoleInv(q) /\ HumanInv(q)
      /\ pc[q] = "acting" /\ phase[q] = Reviser
  BY DEF IInv, LocalInv, Write
<1>2. /\ visits[q] \in Nat /\ Roles \in Nat /\ Roles >= 3
      /\ Reviser # Reviewer /\ Reviser # 1 /\ Reviser \in Nat
      /\ Reviewer = Reviser + 1
      /\ board[q].rounds \in Nat /\ board[q].revisions \in Nat /\ board[q].draft \in Nat
      /\ config.rounds \in Nat /\ config.revisions \in Nat
  <2>1. /\ visits[q] \in Nat
        /\ board[q].rounds \in Nat /\ board[q].revisions \in Nat /\ board[q].draft \in Nat
        /\ config.rounds \in Nat /\ config.revisions \in Nat
    BY <1>1 DEF TypeOK, Board
  <2>2. /\ Roles \in Nat /\ Roles >= 3
        /\ Reviser # Reviewer /\ Reviser # 1 /\ Reviser \in Nat
        /\ Reviewer = Reviser + 1
    BY RunAssumption DEF Reviser, Reviewer
  <2> QED BY <2>1, <2>2
<1>3. /\ phase'[q] = Reviewer /\ board'[q] = Drafted(board[q])
      /\ job'[q] = job[q] /\ answer'[q] = answer[q] /\ config' = config
  BY <1>1, <1>2 DEF Write, TypeOK
<1>4. visits'[q] = visits[q] + 1 /\ pc'[q] = "acting"
  BY <1>1, BelowLimit, AfterVisit DEF Write
<1>5. FreeInv(q)' /\ KindInv(q)' /\ EndInv(q)' /\ GateInv(q)' /\ RoleInv(q)'
  BY <1>1, <1>3, <1>4 DEF FreeInv, KindInv, EndInv, GateInv, RoleInv
<1>6. ReviewInv(q)'
  <2>1. /\ Drafted(board[q]).rounds = board[q].rounds
        /\ Drafted(board[q]).revisions = board[q].rounds
        /\ Drafted(board[q]).draft = board[q].rounds + 1
        /\ Drafted(board[q]).revisions <= config.revisions
        /\ Unfinished(Drafted(board[q]))
    BY <1>1, <1>2 DEF RoleInv, Drafted, Unfinished
  <2>2. board[q].rounds < config.rounds /\ visits[q] = Reviser - 1 + 2 * board[q].rounds
    BY <1>1, <1>2 DEF RoleInv
  <2> QED BY <1>2, <1>3, <1>4, <2>1, <2>2 DEF ReviewInv
<1>7. HumanInv(q)'
  BY <1>1, <1>2, <1>3 DEF HumanInv
<1> QED BY <1>5, <1>6, <1>7 DEF LocalInv

LEMMA LocalReview ==
    ASSUME IInv, NEW q \in Request, Review(q)
    PROVE  LocalInv(q)'
<1>1. /\ TypeOK /\ KindInv(q) /\ ReviewInv(q) /\ HumanInv(q)
      /\ pc[q] = "acting" /\ phase[q] = Reviewer
  BY DEF IInv, LocalInv, Review
<1>2. /\ visits[q] \in Nat /\ Roles \in Nat /\ Roles >= 3
      /\ Reviser # Reviewer /\ Reviewer # 1 /\ Reviser \in Nat
      /\ Reviewer = Reviser + 1
      /\ board[q].rounds \in Nat /\ board[q].revisions \in Nat /\ board[q].draft \in Nat
      /\ config.rounds \in Nat /\ config.revisions \in Nat
  <2>1. /\ visits[q] \in Nat
        /\ board[q].rounds \in Nat /\ board[q].revisions \in Nat /\ board[q].draft \in Nat
        /\ config.rounds \in Nat /\ config.revisions \in Nat
    BY <1>1 DEF TypeOK, Board
  <2>2. /\ Roles \in Nat /\ Roles >= 3
        /\ Reviser # Reviewer /\ Reviewer # 1 /\ Reviser \in Nat
        /\ Reviewer = Reviser + 1
    BY RunAssumption DEF Reviser, Reviewer
  <2> QED BY <2>1, <2>2
<1>3. PICK word \in {"approve", "revise"} :
          LET b == Reviewed(board[q], word)
              route == NextAfterReview(b) IN
          /\ board' = [board EXCEPT ![q] = b]
          /\ phase' = [phase EXCEPT ![q] = IF route = "revise" THEN Reviser ELSE Reviewer]
          /\ Visit(q, IF route = "revise" THEN "acting"
                      ELSE IF route = "approve" /\ job[q].kind = "stream" THEN "gate"
                      ELSE "ending")
  BY DEF Review
<1> DEFINE b == Reviewed(board[q], word)
           route == NextAfterReview(b)
<1>4. /\ board'[q] = b
      /\ phase'[q] = IF route = "revise" THEN Reviser ELSE Reviewer
      /\ job'[q] = job[q] /\ answer'[q] = answer[q] /\ config' = config
  BY <1>1, <1>3 DEF Review, TypeOK
<1>5. /\ visits'[q] = visits[q] + 1
      /\ pc'[q] = IF route = "revise" THEN "acting"
                  ELSE IF route = "approve" /\ job[q].kind = "stream" THEN "gate"
                  ELSE "ending"
  BY <1>1, <1>3, BelowLimit, AfterVisit
<1>6. /\ b.rounds = board[q].rounds + 1 /\ b.revisions = board[q].rounds
      /\ b.draft = board[q].rounds + 1 /\ b.feedback = word
      /\ b.reason = NULL /\ b.output = NULL
      /\ b.rounds <= config.rounds /\ b.revisions <= config.revisions
  BY <1>1, <1>2 DEF ReviewInv, Reviewed, Unfinished
<1>7. visits'[q] = Reviser - 1 + 2 * b.rounds
  <2>1. visits[q] = Reviser + 2 * board[q].rounds
    BY <1>1 DEF ReviewInv
  <2>2. b.rounds = board[q].rounds + 1
    BY <1>6
  <2> HIDE DEF b
  <2> QED BY <1>2, <1>5, <2>1, <2>2
<1>8. /\ route = "revise" => /\ word = "revise"
                             /\ b.rounds < config.rounds /\ b.revisions < config.revisions
      /\ route = "approve" => word = "approve"
  <2>1. b.rounds \in Nat /\ b.revisions \in Nat /\ b.feedback = word
    BY <1>2, <1>6
  <2> HIDE DEF b
  <2> QED BY <1>2, <2>1 DEF NextAfterReview
<1> HIDE DEF b
<1>10. NextAfterReview(board[q])' = route
  BY <1>4 DEF NextAfterReview
<1> HIDE DEF route
<1>11. FreeInv(q)' /\ KindInv(q)'
  BY <1>1, <1>4, <1>5 DEF FreeInv, KindInv
<1>12. RoleInv(q)' /\ ReviewInv(q)'
  BY <1>2, <1>4, <1>5, <1>6, <1>7, <1>8 DEF RoleInv, ReviewInv, Unfinished
<1>13. Judged(q)'
  BY <1>2, <1>4, <1>6, <1>7 DEF Judged, Unfinished
<1>14. GateInv(q)' /\ EndInv(q)'
  BY <1>2, <1>4, <1>5, <1>6, <1>8, <1>10, <1>13 DEF GateInv, EndInv
<1>15. HumanInv(q)'
  BY <1>1, <1>2, <1>4 DEF HumanInv
<1> QED BY <1>11, <1>12, <1>13, <1>14, <1>15 DEF LocalInv

LEMMA LocalGate ==
    ASSUME IInv, NEW q \in Request, Proceed(q) \/ Pause(q)
    PROVE  LocalInv(q)'
<1>1. /\ TypeOK /\ KindInv(q) /\ GateInv(q) /\ HumanInv(q) /\ pc[q] = "gate"
      /\ job[q].kind = "stream" /\ job[q].run \in Run /\ job[q].at \in Instance
  BY DEF IInv, LocalInv, KindInv, Proceed, Pause
<1>2. /\ 2 <= Reviser /\ 2 # Reviewer /\ 1 # Reviewer /\ Reviser # Reviewer
      /\ config.rounds \in Nat \ {0} /\ config.revisions \in Nat \ {0}
  BY <1>1, RunAssumption DEF Reviser, Reviewer, TypeOK
<1>3. CASE Proceed(q)
  <2>1. /\ UNCHANGED <<config, job, phase, board, visits, answer>>
        /\ ~config.human
    BY <1>3 DEF Proceed
  <2>2. pc'[q] = IF phase[q] = Reviewer THEN "ending" ELSE "acting"
    BY <1>1, <1>3 DEF Proceed, GateName, Goto, TypeOK
  <2>3. FreeInv(q)' /\ KindInv(q)' /\ GateInv(q)' /\ HumanInv(q)'
    BY <1>1, <2>1, <2>2 DEF FreeInv, KindInv, GateInv, HumanInv
  <2>4. CASE phase[q] = 2
    <3>1. visits[q] = 1 /\ Unfinished(board[q]) /\ Untouched(board[q])
      BY <1>1, <1>2, <2>4 DEF GateInv
    <3>2. RoleInv(q)' /\ ReviewInv(q)'
      BY <1>2, <2>1, <2>2, <2>4, <3>1 DEF RoleInv, ReviewInv, Unfinished, Untouched
    <3>3. EndInv(q)'
      BY <1>2, <2>1, <2>2, <2>4 DEF EndInv
    <3> QED BY <2>3, <3>2, <3>3 DEF LocalInv
  <2>5. CASE phase[q] = Reviewer
    <3>1. Judged(q) /\ board[q].feedback = "approve"
      BY <1>1, <1>2, <2>5 DEF GateInv
    <3>2. NextAfterReview(board[q]) = "approve"
      BY <3>1 DEF NextAfterReview
    <3>3. RoleInv(q)' /\ ReviewInv(q)'
      BY <1>2, <2>1, <2>2, <2>5 DEF RoleInv, ReviewInv
    <3>4. Judged(q)' /\ NextAfterReview(board[q])' = "approve"
      BY <2>1, <3>1, <3>2 DEF Judged, NextAfterReview, Unfinished
    <3>5. EndInv(q)'
      BY <2>1, <2>2, <2>5, <3>4 DEF EndInv
    <3> QED BY <2>3, <3>3, <3>5 DEF LocalInv
  <2> QED BY <1>1, <2>4, <2>5 DEF GateInv
<1>4. CASE Pause(q)
  <2>1. UNCHANGED <<config, job, phase, visits>> /\ config.human
    BY <1>4 DEF Pause
  <2>2. /\ pc'[q] = "telling" /\ answer'[q] \in {"approval_required", "error"}
        /\ board'[q] = Suspended(board[q], GateName(q))
    BY <1>1, <1>4 DEF Pause, Goto, TypeOK
  <2>3. board'[q].draft = board[q].draft
    BY <2>2 DEF Suspended
  <2>4. FreeInv(q)' /\ KindInv(q)' /\ GateInv(q)' /\ RoleInv(q)' /\ ReviewInv(q)' /\ EndInv(q)'
    BY <1>1, <2>1, <2>2 DEF FreeInv, KindInv, GateInv, RoleInv, ReviewInv, EndInv
  <2>5. HumanInv(q)'
    BY <1>1, <2>1, <2>2, <2>3 DEF HumanInv
  <2> QED BY <2>4, <2>5 DEF LocalInv
<1> QED BY <1>3, <1>4

\* The terminal nodes explain the outcome they give.
LEMMA FinalizedExplains ==
    ASSUME IInv, NEW q \in Request, pc[q] = "ending",
           NEW b, b = Finalized(board[q])
    PROVE  /\ b.output = b.draft /\ b.draft \in 1..Passes /\ b.output # NULL
           /\ b.feedback = "approve" => b.reason = "completed"
           /\ b.feedback # "approve" =>
                 /\ b.draft = Passes
                 /\ b.reason = IF config.rounds <= config.revisions + 1
                                 THEN "max-rounds-reached" ELSE "max-revisions-reached"
<1>1. /\ Judged(q) /\ NextAfterReview(board[q]) # "revise"
      /\ board[q].rounds \in Nat /\ board[q].revisions \in Nat /\ board[q].draft \in Nat
      /\ config.rounds \in Nat /\ config.revisions \in Nat
  BY DEF IInv, LocalInv, EndInv, TypeOK, Board
<1>2. /\ b.output = board[q].draft /\ b.draft = board[q].draft
      /\ b.feedback = board[q].feedback
      /\ b.reason = CASE NextAfterReview(board[q]) = "approve" -> "completed"
                      [] NextAfterReview(board[q]) = "rounds"  -> "max-rounds-reached"
                      [] OTHER -> "max-revisions-reached"
  BY DEF Finalized
<1>3. b.output = b.draft /\ b.draft \in 1..Passes
  BY <1>1, <1>2 DEF Judged, Passes
<1>4. b.output # NULL
  BY <1>1, <1>2, RunAssumption
<1>5. CASE board[q].feedback = "approve"
  BY <1>2, <1>3, <1>4, <1>5 DEF NextAfterReview
<1>6. CASE board[q].feedback # "approve"
  <2>1. board[q].feedback = "revise"
    BY <1>1, <1>6 DEF Judged
  <2>2. CASE board[q].rounds >= config.rounds
    <3>1. NextAfterReview(board[q]) = "rounds"
      BY <2>1, <2>2 DEF NextAfterReview
    <3>2. board[q].draft = Passes /\ config.rounds <= config.revisions + 1
      BY <1>1, <2>2 DEF Judged, Passes
    <3> QED BY <1>2, <1>3, <1>4, <1>6, <3>1, <3>2
  <2>3. CASE ~(board[q].rounds >= config.rounds)
    <3>1. NextAfterReview(board[q]) = "revs" /\ board[q].revisions >= config.revisions
      BY <1>1, <2>1, <2>3 DEF NextAfterReview
    <3>2. board[q].draft = Passes /\ ~(config.rounds <= config.revisions + 1)
      BY <1>1, <2>3, <3>1 DEF Judged, Passes
    <3> QED BY <1>2, <1>3, <1>4, <1>6, <3>1, <3>2
  <2> QED BY <2>2, <2>3
<1> QED BY <1>5, <1>6

LEMMA LocalEnds ==
    ASSUME IInv, NEW q \in Request, FinalizeGraph(q) \/ Complete(q)
    PROVE  LocalInv(q)'
<1>1. /\ TypeOK /\ KindInv(q) /\ EndInv(q) /\ HumanInv(q) /\ pc[q] = "ending"
      /\ job[q].run \in Run /\ job[q].at \in Instance
  BY DEF IInv, LocalInv, KindInv, FinalizeGraph, Complete
<1>2. /\ board'[q] = Finalized(board[q]) /\ board'[q].output # NULL
      /\ UNCHANGED <<config, job, phase>>
  <2>1. Finalized(board[q]).output # NULL
    BY <1>1, FinalizedExplains
  <2> QED BY <1>1, <2>1 DEF FinalizeGraph, Complete, TypeOK
<1>3. CASE FinalizeGraph(q)
  <2>1. pc'[q] = "storing" /\ answer'[q] = answer[q] /\ job[q].kind = "start"
    BY <1>1, <1>3, BelowLimit, AfterVisit DEF FinalizeGraph
  <2>2. FreeInv(q)' /\ KindInv(q)' /\ RoleInv(q)' /\ ReviewInv(q)' /\ GateInv(q)'
    BY <1>1, <1>2, <2>1 DEF FreeInv, KindInv, RoleInv, ReviewInv, GateInv
  <2>3. EndInv(q)' /\ HumanInv(q)'
    BY <1>2, <2>1 DEF EndInv, HumanInv
  <2> QED BY <2>2, <2>3 DEF LocalInv
<1>4. CASE Complete(q)
  <2>1. pc'[q] = "telling" /\ job[q].kind = "stream"
    BY <1>1, <1>4 DEF Complete, Goto, TypeOK
  <2>2. ~config.human
    BY <1>1, <2>1 DEF HumanInv
  <2>3. FreeInv(q)' /\ KindInv(q)' /\ RoleInv(q)' /\ ReviewInv(q)' /\ GateInv(q)'
    BY <1>1, <1>2, <2>1 DEF FreeInv, KindInv, RoleInv, ReviewInv, GateInv
  <2>4. EndInv(q)' /\ HumanInv(q)'
    BY <1>2, <2>1, <2>2 DEF EndInv, HumanInv
  <2> QED BY <2>3, <2>4 DEF LocalInv
<1> QED BY <1>3, <1>4

LEMMA LocalTails ==
    ASSUME IInv, NEW q \in Request,
           StoreOutcome(q) \/ Tell(q) \/ Fail(q) \/ Leave(q) \/ Discard(q)
             \/ RecordDecision(q) \/ Resolve(q)
    PROVE  LocalInv(q)'
<1>1. TypeOK /\ FreeInv(q) /\ KindInv(q) /\ EndInv(q) /\ HumanInv(q)
  BY DEF IInv, LocalInv
<1>2. UNCHANGED <<config, job, phase, board, visits>>
  BY DEF StoreOutcome, Tell, Fail, Leave, Discard, RecordDecision, Resolve
<1>3. /\ pc[q] # "free"
      /\ pc'[q] \in {"telling", "over", "recording", "resolving"}
      /\ pc'[q] \in {"recording", "resolving"} =>
            pc[q] \in {"deciding", "recording"}
  <2>1. CASE StoreOutcome(q) \/ Tell(q) \/ Leave(q)
    BY <1>1, <2>1 DEF StoreOutcome, Tell, Leave, Goto, TypeOK
  <2>2. CASE Fail(q)
    BY <1>1, <2>2 DEF Fail, Goto, TypeOK
  <2>3. CASE Discard(q)
    BY <1>1, <2>3 DEF Discard, Goto, TypeOK
  <2>4. CASE RecordDecision(q) \/ Resolve(q)
    BY <1>1, <2>4 DEF RecordDecision, Resolve, Goto, TypeOK
  <2> QED BY <2>1, <2>2, <2>3, <2>4
<1>4. answer'[q] = "completion" => answer[q] = "completion"
  BY <1>1 DEF StoreOutcome, Tell, Fail, Leave, Discard, RecordDecision, Resolve, TypeOK
<1>5. FreeInv(q)' /\ KindInv(q)' /\ RoleInv(q)' /\ ReviewInv(q)' /\ GateInv(q)'
  BY <1>1, <1>2, <1>3 DEF FreeInv, KindInv, RoleInv, ReviewInv, GateInv
<1>6. EndInv(q)' /\ HumanInv(q)'
  BY <1>1, <1>2, <1>3, <1>4 DEF EndInv, HumanInv, Unfinished
<1> QED BY <1>5, <1>6 DEF LocalInv

LEMMA LocalCrash ==
    ASSUME IInv, NEW p \in Request, NEW i \in Instance, Crash(i)
    PROVE  LocalInv(p)'
<1>1. LocalInv(p) /\ TypeOK
  BY DEF IInv
<1>2. UNCHANGED <<config, job, phase, board, visits, answer>>
  BY DEF Crash
<1>3. CASE job[p].at # i
  <2>1. pc'[p] = pc[p]
    BY <1>3 DEF Crash
  <2> QED BY <1>1, <1>2, <2>1, LocalFrame
<1>4. CASE job[p].at = i
  <2>1. pc'[p] = "over" /\ pc[p] # "free"
    BY <1>1, <1>4, RunAssumption DEF Crash, LocalInv, FreeInv
  <2>2. FreeInv(p)' /\ KindInv(p)' /\ RoleInv(p)' /\ ReviewInv(p)' /\ GateInv(p)'
    BY <1>1, <1>2, <2>1 DEF LocalInv, FreeInv, KindInv, RoleInv, ReviewInv, GateInv
  <2>3. EndInv(p)' /\ HumanInv(p)'
    BY <1>1, <1>2, <2>1 DEF LocalInv, EndInv, HumanInv
  <2> QED BY <2>2, <2>3 DEF LocalInv
<1> QED BY <1>3, <1>4

LEMMA LocalStep ==
    ASSUME IInv, Next
    PROVE  \A p \in Request : LocalInv(p)'
<1>1. TAKE p \in Request
<1>2. TypeOK /\ LocalInv(p)
  BY DEF IInv
<1>3. CASE \E i \in Instance : Crash(i)
  BY <1>3, LocalCrash
<1>4. ASSUME NEW q \in Request,
             StartRun(q) \/ OpenStream(q) \/ Submit(q) \/ Advance(q)
               \/ Fail(q) \/ Leave(q)
      PROVE  LocalInv(p)'
  <2>1. CASE p # q
    BY <1>2, <1>4, <2>1, OneCallSteps, LocalFrame
  <2>2. CASE p = q
    BY <1>4, <2>2, LocalCalls, LocalContribute, LocalWrite, LocalReview, LocalGate,
       LocalEnds, LocalTails DEF Advance
  <2> QED BY <2>1, <2>2
<1> QED BY <1>3, <1>4 DEF Next

----------------------------------------------------------------------------
(* The shared state.                                                       *)

\* A stream pauses under the human policy, and so with nothing but a plan.
LEMMA CheckStep == ASSUME IInv, Next PROVE CheckInv'
<1>1. TypeOK /\ CheckInv
  BY DEF IInv
<1>2. SUFFICES ASSUME NEW i \in Instance, NEW r \in Run, checkpoint'[i][r] # NULL
               PROVE  /\ Unfinished(checkpoint'[i][r])
                      /\ checkpoint'[i][r].revisions = 0
                      /\ checkpoint'[i][r].rounds = 0
  BY DEF CheckInv, Unfinished
<1>3. CASE checkpoint'[i][r] = checkpoint[i][r]
  BY <1>1, <1>2, <1>3 DEF CheckInv
<1>4. ASSUME NEW q \in Request, Pause(q) PROVE CheckInv'
  <2>1. /\ job[q].kind = "stream" /\ job[q].run \in Run /\ job[q].at \in Instance
        /\ phase[q] = 2 /\ GateInv(q) /\ pc[q] = "gate" /\ 2 # Reviewer
    BY <1>4, RunAssumption DEF Pause, IInv, LocalInv, KindInv, HumanInv, Reviewer
  <2>2. Unfinished(board[q]) /\ Untouched(board[q])
    BY <2>1 DEF GateInv
  <2> DEFINE b == Suspended(board[q], GateName(q))
  <2>3. Unfinished(b) /\ b.revisions = 0 /\ b.rounds = 0
    BY <2>2 DEF Suspended, Unfinished, Untouched
  <2>4. checkpoint' = [checkpoint EXCEPT ![job[q].at] =
                           [@ EXCEPT ![job[q].run] = b]]
    BY <1>4 DEF Pause
  <2> HIDE DEF b
  <2>5. \A j \in Instance, s \in Run :
           checkpoint'[j][s] = checkpoint[j][s] \/ checkpoint'[j][s] = b
    BY <1>1, <2>4 DEF TypeOK
  <2> QED BY <1>1, <2>3, <2>5 DEF CheckInv, Unfinished
<1>5. ASSUME NEW q \in Request, Discard(q)
      PROVE  checkpoint'[i][r] = checkpoint[i][r]
  BY <1>1, <1>2, <1>5 DEF Discard, TypeOK
<1>6. ASSUME NEW j \in Instance, Crash(j)
      PROVE  checkpoint'[i][r] = checkpoint[i][r]
  BY <1>1, <1>2, <1>6 DEF Crash, TypeOK
<1>7. ASSUME NEW q \in Request, StartRun(q) \/ OpenStream(q) \/ Submit(q)
               \/ Contribute(q) \/ Write(q) \/ Review(q) \/ Proceed(q)
      PROVE  checkpoint' = checkpoint
  BY <1>7 DEF StartRun, OpenStream, Submit, Contribute, Write, Review, Proceed, shared
<1>8. ASSUME NEW q \in Request, FinalizeGraph(q) \/ Complete(q) \/ StoreOutcome(q)
               \/ Tell(q) \/ RecordDecision(q) \/ Resolve(q) \/ Fail(q) \/ Leave(q)
      PROVE  checkpoint' = checkpoint
  BY <1>8 DEF FinalizeGraph, Complete, StoreOutcome, Tell, RecordDecision, Resolve,
              Fail, Leave, shared
<1> QED BY <1>2, <1>3, <1>4, <1>5, <1>6, <1>7, <1>8 DEF Next, Advance, CheckInv, Unfinished

\* The stored run changes when it starts and when its start has ended it; what
\* a decision resolves to never ends one.
LEMMA RecordSteps ==
    ASSUME IInv, Next
    PROVE  \/ \E q \in Request : StartRun(q) \/ StoreOutcome(q)
           \/ record' = record
<1>1. ASSUME NEW q \in Request, OpenStream(q) \/ Submit(q)
               \/ Contribute(q) \/ Write(q) \/ Review(q) \/ Proceed(q) \/ Pause(q)
      PROVE  record' = record
  BY <1>1 DEF OpenStream, Submit, Contribute, Write, Review, Proceed, Pause, shared
<1>2. ASSUME NEW q \in Request, FinalizeGraph(q) \/ Complete(q)
               \/ Tell(q) \/ Discard(q) \/ RecordDecision(q) \/ Fail(q) \/ Leave(q)
      PROVE  record' = record
  BY <1>2 DEF FinalizeGraph, Complete, Tell, Discard, RecordDecision, Fail, Leave, shared
<1>3. ASSUME NEW q \in Request, Resolve(q) PROVE record' = record
  BY <1>3 DEF Resolve, IInv, LocalInv, EndInv, Unfinished
<1>4. ASSUME NEW i \in Instance, Crash(i) PROVE record' = record
  BY <1>4 DEF Crash
<1> QED BY <1>1, <1>2, <1>3, <1>4 DEF Next, Advance

\* A start finds its run as it left it: nobody else writes it.
LEMMA StoringRuns ==
    ASSUME IInv, NEW q \in Request, StoreOutcome(q)
    PROVE  job[q].run \in Run /\ record[job[q].run].status = "running"
BY DEF IInv, LocalInv, KindInv, RunInv, StoreOutcome

LEMMA RunStep == ASSUME IInv, Next PROVE RunInv'
<1>1. TypeOK /\ RunInv /\ \A q \in Request : FreeInv(q) /\ KindInv(q)
  BY DEF IInv, LocalInv
<1>2. \A q \in Request : job[q].kind = "start" => pc[q] # "free" /\ job[q].run \in Run
  BY <1>1 DEF FreeInv, KindInv
<1> DEFINE Live == {"acting", "ending", "storing"}
<1>3. ASSUME NEW q \in Request, StartRun(q) PROVE RunInv'
  <2>1. PICK r \in Run, i \in Instance :
          /\ record[r].status = "absent"
          /\ record' = [record EXCEPT ![r] =
                [status |-> "running", reason |-> NULL, output |-> NULL]]
          /\ job' = [job EXCEPT ![q] = [kind |-> "start", run |-> r, at |-> i,
                        decision |-> "none", resumes |-> FALSE]]
    BY <1>3 DEF StartRun
  <2>2. job'[q].run = r /\ record'[r].status = "running"
    BY <1>1, <2>1 DEF TypeOK
  <2>3. \A p \in Request : p # q => job'[p] = job[p] /\ pc'[p] = pc[p]
    BY <1>1, <1>3, OneCallSteps
  <2>4. \A p \in Request : p # q /\ job[p].kind = "start" =>
           job[p].run # r /\ record'[job[p].run] = record[job[p].run]
    BY <1>1, <1>2, <2>1 DEF RunInv, TypeOK
  <2>5. \A p \in Request : job'[p].kind = "start" =>
           /\ record'[job'[p].run].status # "absent"
           /\ pc'[p] \in Live => record'[job'[p].run].status = "running"
    BY <1>1, <2>2, <2>3, <2>4 DEF RunInv
  <2>6. \A p, s \in Request : job'[p].kind = "start" /\ job'[s].kind = "start" /\ p # s
           => job'[p].run # job'[s].run
    BY <1>1, <2>2, <2>3, <2>4 DEF RunInv
  <2> QED BY <2>5, <2>6 DEF RunInv
<1>4. ASSUME NEW q \in Request, StoreOutcome(q) PROVE RunInv'
  <2>1. /\ job[q].run \in Run /\ job[q].kind = "start" /\ job' = job
        /\ record' = [record EXCEPT ![job[q].run] = Terminated(board[q])]
        /\ pc'[q] = "telling"
    BY <1>1, <1>4, StoringRuns DEF StoreOutcome, KindInv, Goto, TypeOK
  <2>2. record'[job[q].run].status = "terminated"
    BY <1>1, <2>1 DEF TypeOK, Terminated
  <2>3. \A p \in Request : p # q /\ job[p].kind = "start" =>
           record'[job[p].run] = record[job[p].run] /\ pc'[p] = pc[p]
    BY <1>1, <1>2, <1>4, <2>1, OneCallSteps DEF RunInv, TypeOK, Advance
  <2> QED BY <1>1, <2>1, <2>2, <2>3 DEF RunInv
<1>5. ASSUME record' = record,
             \A p \in Request :
                \/ job'[p].kind # "start"
                \/ job'[p] = job[p] /\ (pc'[p] \in Live => pc[p] \in Live)
      PROVE  RunInv'
  BY <1>1, <1>5 DEF RunInv
<1>6. ASSUME NEW i \in Instance, Crash(i), NEW p \in Request
      PROVE  job'[p] = job[p] /\ (pc'[p] \in Live => pc[p] \in Live)
  BY <1>6 DEF Crash
<1>7. ASSUME NEW q \in Request, OpenStream(q) \/ Submit(q), NEW p \in Request
      PROVE  \/ job'[p].kind # "start"
             \/ job'[p] = job[p] /\ (pc'[p] \in Live => pc[p] \in Live)
  <2>1. CASE p = q
    BY <1>1, <1>7, <2>1 DEF OpenStream, Submit, TypeOK
  <2>2. CASE p # q
    BY <1>1, <1>7, <2>2, OneCallSteps
  <2> QED BY <2>1, <2>2
<1>8. ASSUME NEW q \in Request, Advance(q) \/ Fail(q) \/ Leave(q), ~StoreOutcome(q),
             NEW p \in Request
      PROVE  \/ job'[p].kind # "start"
             \/ job'[p] = job[p] /\ (pc'[p] \in Live => pc[p] \in Live)
  <2>1. CASE p # q
    BY <1>1, <1>8, <2>1, OneCallSteps
  <2>2. CASE p = q
    <3>1. job' = job
      BY <1>8 DEF Advance, Contribute, Write, Review, Proceed, Pause, FinalizeGraph,
         Complete, Tell, Discard, RecordDecision, Resolve, Fail, Leave
    <3>2. pc[q] \in Live \/ job[q].kind # "start" \/ pc'[q] \notin Live
      <4>1. CASE Contribute(q) \/ Write(q) \/ Review(q) \/ FinalizeGraph(q) \/ Complete(q)
        BY <4>1 DEF Contribute, Write, Review, FinalizeGraph, Complete
      <4>2. CASE Proceed(q) \/ Pause(q) \/ Discard(q) \/ RecordDecision(q) \/ Leave(q)
        BY <1>1, <4>2 DEF Proceed, Pause, Discard, RecordDecision, Leave, KindInv
      <4>3. CASE Tell(q) \/ Resolve(q)
        BY <1>1, <4>3 DEF Tell, Resolve, Goto, TypeOK
      <4>4. CASE Fail(q)
        BY <1>1, <4>4 DEF Fail, Goto, TypeOK
      <4> QED BY <1>8, <4>1, <4>2, <4>3, <4>4 DEF Advance
    <3> QED BY <2>2, <3>1, <3>2
  <2> QED BY <2>1, <2>2
<1>9. CASE \E q \in Request : StartRun(q) \/ StoreOutcome(q)
  BY <1>3, <1>4, <1>9
<1>10. CASE ~ \E q \in Request : StartRun(q) \/ StoreOutcome(q)
  <2>1. record' = record
    BY <1>10, RecordSteps
  <2> HIDE DEF Live
  <2> QED BY <1>5, <1>6, <1>7, <1>8, <1>10, <2>1 DEF Next
<1> QED BY <1>9, <1>10

----------------------------------------------------------------------------
(* The outcomes.                                                           *)

\* What OutcomeExplained says of one blackboard.
Explained(b) ==
    b.output # NULL =>
        /\ b.output = b.draft /\ b.draft \in 1..Passes
        /\ b.feedback = "approve" => b.reason = "completed"
        /\ b.feedback # "approve" =>
              /\ b.draft = Passes
              /\ b.reason = IF config.rounds <= config.revisions + 1
                              THEN "max-rounds-reached" ELSE "max-revisions-reached"

LEMMA OutcomeStep == ASSUME IInv, Next PROVE OutcomeExplained'
<1>1. TypeOK /\ CheckInv /\ config' = config /\ Passes' = Passes
  <2>1. ASSUME NEW q \in Request, StartRun(q) \/ OpenStream(q) \/ Submit(q)
                 \/ Advance(q) \/ Fail(q) \/ Leave(q)
        PROVE  config' = config
    BY <2>1 DEF StartRun, OpenStream, Submit, Advance, Contribute, Write, Review,
       Proceed, Pause, FinalizeGraph, Complete, StoreOutcome, Tell, Discard,
       RecordDecision, Resolve, Fail, Leave
  <2>2. config' = config
    BY <2>1 DEF Next, Crash
  <2> QED BY <2>2 DEF IInv, Passes
<1>2. \A q \in Request : Explained(board[q])
  BY DEF IInv, OutcomeExplained, Explained
<1>3. SUFFICES ASSUME NEW p \in Request PROVE board'[p] = board[p] \/ Explained(board'[p])
  <2>1. ASSUME \A p \in Request : board'[p] = board[p] \/ Explained(board'[p])
        PROVE  OutcomeExplained'
    BY <1>1, <1>2, <2>1 DEF OutcomeExplained, Explained
  <2> QED BY <2>1
<1>4. ASSUME NEW q \in Request, Contribute(q) \/ Write(q) \/ Review(q) \/ Pause(q)
      PROVE  board'[q].output = NULL \/ board'[q] = board[q]
  <2>1. CASE Contribute(q)
    BY <2>1 DEF Contribute
  <2>2. CASE Write(q)
    <3>1. phase[q] # Reviewer /\ pc[q] = "acting" /\ RoleInv(q)
      BY <2>2, RunAssumption DEF Write, Reviewer, Reviser, IInv, LocalInv
    <3> QED BY <1>1, <2>2, <3>1 DEF Write, RoleInv, Unfinished, Drafted, TypeOK
  <2>3. CASE Review(q)
    BY <1>1, <2>3 DEF Review, IInv, LocalInv, ReviewInv, Unfinished, Reviewed, TypeOK
  <2>4. CASE Pause(q)
    BY <1>1, <2>4 DEF Pause, IInv, LocalInv, GateInv, Judged, Unfinished, Suspended, TypeOK
  <2> QED BY <1>4, <2>1, <2>2, <2>3, <2>4
<1>5. ASSUME NEW q \in Request, FinalizeGraph(q) \/ Complete(q)
      PROVE  Explained(board'[q])
  <2>1. pc[q] = "ending" /\ board'[q] = Finalized(board[q])
    BY <1>1, <1>5 DEF FinalizeGraph, Complete, TypeOK
  <2> QED BY <2>1, FinalizedExplains DEF Explained
<1>6. ASSUME NEW q \in Request, Submit(q)
      PROVE  board'[q].output = NULL \/ board'[q] = board[q]
  BY <1>1, <1>6 DEF Submit, CheckInv, Unfinished, Decided, TypeOK
<1>7. ASSUME NEW q \in Request, StartRun(q) \/ OpenStream(q) \/ Proceed(q)
               \/ StoreOutcome(q) \/ Tell(q) \/ Discard(q) \/ RecordDecision(q)
               \/ Resolve(q) \/ Fail(q) \/ Leave(q)
      PROVE  board' = board
  BY <1>7 DEF StartRun, OpenStream, Proceed, StoreOutcome, Tell, Discard,
     RecordDecision, Resolve, Fail, Leave
<1>8. ASSUME NEW q \in Request, StartRun(q) \/ OpenStream(q) \/ Submit(q)
               \/ Advance(q) \/ Fail(q) \/ Leave(q)
      PROVE  board'[p] = board[p] \/ Explained(board'[p])
  <2>1. CASE p # q
    BY <1>1, <1>8, <2>1, OneCallSteps
  <2>2. CASE p = q
    BY <1>4, <1>5, <1>6, <1>7, <1>8, <2>2 DEF Advance, Explained
  <2> QED BY <2>1, <2>2
<1> QED BY <1>8 DEF Next, Crash

LEMMA WholeStep == ASSUME IInv, Next PROVE WholeOutcome'
<1>1. TypeOK /\ WholeOutcome /\ Passes' = Passes
  <2>1. ASSUME NEW q \in Request, StartRun(q) \/ OpenStream(q) \/ Submit(q)
                 \/ Advance(q) \/ Fail(q) \/ Leave(q)
        PROVE  config' = config
    BY <2>1 DEF StartRun, OpenStream, Submit, Advance, Contribute, Write, Review,
       Proceed, Pause, FinalizeGraph, Complete, StoreOutcome, Tell, Discard,
       RecordDecision, Resolve, Fail, Leave
  <2>2. config' = config
    BY <2>1 DEF Next, Crash
  <2> QED BY <2>2 DEF IInv, Passes
<1>2. ASSUME NEW q \in Request, StartRun(q) PROVE WholeOutcome'
  <2>1. PICK r \in Run : record' = [record EXCEPT ![r] =
                [status |-> "running", reason |-> NULL, output |-> NULL]]
    BY <1>2 DEF StartRun
  <2> QED BY <1>1, <2>1 DEF WholeOutcome, TypeOK
<1>3. ASSUME NEW q \in Request, StoreOutcome(q) PROVE WholeOutcome'
  <2> DEFINE b == board[q]
  <2>1. record' = [record EXCEPT ![job[q].run] = Terminated(b)]
    BY <1>3 DEF StoreOutcome
  <2>2. b.output # NULL
    BY <1>3 DEF StoreOutcome, IInv, LocalInv, EndInv
  <2>3. /\ b.output \in 1..Passes
        /\ b.reason \in {"completed", "max-rounds-reached", "max-revisions-reached"}
    BY <2>2 DEF IInv, OutcomeExplained
  <2>4. /\ Terminated(b).status = "terminated" /\ Terminated(b).output = b.output
        /\ Terminated(b).reason = b.reason
    BY DEF Terminated
  <2> HIDE DEF b
  <2> QED BY <1>1, <2>1, <2>3, <2>4 DEF WholeOutcome, TypeOK
<1>4. CASE record' = record
  BY <1>1, <1>4 DEF WholeOutcome
<1> QED BY <1>2, <1>3, <1>4, RecordSteps

\* Of a run that has not ended nothing has been told.
LEMMA Unannounced ==
    ASSUME IInv, NEW r \in Run, record[r].status # "terminated"
    PROVE  announced[r] = {}
<1>1. record[r].reason = NULL
  BY DEF IInv, WholeOutcome
<1>2. \A a \in announced[r] : a.reason \in Reasons /\ a.reason = NULL
  BY <1>1 DEF IInv, TypeOK, AnnouncedIsStored
<1> QED BY <1>2, RunAssumption DEF Reasons

LEMMA AnnouncedStep == ASSUME IInv, Next PROVE AnnouncedIsStored'
<1>1. TypeOK /\ AnnouncedIsStored
  BY DEF IInv
<1>2. ASSUME NEW q \in Request, StartRun(q) PROVE AnnouncedIsStored'
  <2>1. PICK r \in Run : record[r].status = "absent" /\ record' = [record EXCEPT ![r] =
                [status |-> "running", reason |-> NULL, output |-> NULL]]
    BY <1>2 DEF StartRun
  <2>2. announced[r] = {} /\ announced' = announced
    BY <1>2, <2>1, Unannounced DEF StartRun
  <2> QED BY <1>1, <2>1, <2>2 DEF AnnouncedIsStored, TypeOK
<1>3. ASSUME NEW q \in Request, StoreOutcome(q) PROVE AnnouncedIsStored'
  <2>1. record' = [record EXCEPT ![job[q].run] = Terminated(board[q])]
    BY <1>3 DEF StoreOutcome
  <2>2. announced[job[q].run] = {} /\ announced' = announced
    BY <1>3, StoringRuns, Unannounced DEF StoreOutcome
  <2> QED BY <1>1, <2>1, <2>2 DEF AnnouncedIsStored, TypeOK
<1>4. ASSUME NEW q \in Request, Tell(q) PROVE AnnouncedIsStored'
  <2>1. record' = record
    BY <1>4 DEF Tell
  <2>2. \A r \in Run : \A a : a \in announced'[r] =>
            a \in announced[r] \/ a.reason = record[r].reason
    <3>1. job[q].run \in Run
      BY <1>4 DEF Tell, IInv, LocalInv, KindInv
    <3>2. ToTell(q) # NULL => ToTell(q) = record[job[q].run].reason
      BY DEF ToTell, IInv, ToldInv
    <3> QED BY <1>1, <1>4, <3>1, <3>2 DEF Tell, TypeOK
  <2> QED BY <1>1, <2>1, <2>2 DEF AnnouncedIsStored
<1>5. ASSUME NEW q \in Request, OpenStream(q) \/ Submit(q)
               \/ Contribute(q) \/ Write(q) \/ Review(q) \/ Proceed(q) \/ Pause(q)
      PROVE  announced' = announced
  BY <1>5 DEF OpenStream, Submit, Contribute, Write, Review, Proceed, Pause, shared
<1>6. ASSUME NEW q \in Request, FinalizeGraph(q) \/ Complete(q)
               \/ Discard(q) \/ RecordDecision(q) \/ Resolve(q) \/ Fail(q) \/ Leave(q)
      PROVE  announced' = announced
  BY <1>6 DEF FinalizeGraph, Complete, Discard, RecordDecision, Resolve, Fail, Leave, shared
<1>7. ASSUME NEW i \in Instance, Crash(i) PROVE announced' = announced
  BY <1>7 DEF Crash
<1>8. CASE announced' = announced /\ record' = record
  BY <1>1, <1>8 DEF AnnouncedIsStored
<1>9. CASE \E q \in Request : StartRun(q) \/ StoreOutcome(q) \/ Tell(q)
  BY <1>2, <1>3, <1>4, <1>9
<1>10. CASE ~ \E q \in Request : StartRun(q) \/ StoreOutcome(q) \/ Tell(q)
  <2>1. record' = record
    BY <1>10, RecordSteps
  <2>2. announced' = announced
    BY <1>5, <1>6, <1>7, <1>10 DEF Next, Advance
  <2> QED BY <1>8, <2>1, <2>2
<1> QED BY <1>9, <1>10

LEMMA ToldStep == ASSUME IInv, Next PROVE ToldInv'
<1>1. TypeOK /\ ToldInv /\ WholeOutcome
  BY DEF IInv
<1>2. ASSUME NEW q \in Request, StartRun(q) PROVE ToldInv'
  <2>1. PICK r \in Run : record[r].status = "absent" /\ record' = [record EXCEPT ![r] =
                [status |-> "running", reason |-> NULL, output |-> NULL]]
    BY <1>2 DEF StartRun
  <2>2. \A p \in Request : told[p] # NULL =>
           p # q /\ job'[p] = job[p] /\ pc'[p] = pc[p] /\ job[p].run # r
    <3>1. \A p \in Request : told[p] # NULL => p # q /\ job[p].run # r
      BY <1>1, <1>2, <2>1 DEF ToldInv, StartRun
    <3>2. \A p \in Request : p # q => job'[p] = job[p] /\ pc'[p] = pc[p]
      BY <1>1, <1>2, OneCallSteps
    <3> QED BY <3>1, <3>2
  <2>3. told' = told
    BY <1>2 DEF StartRun
  <2> QED BY <1>1, <2>1, <2>2, <2>3 DEF ToldInv, TypeOK
<1>3. ASSUME NEW q \in Request, StoreOutcome(q) PROVE ToldInv'
  <2>1. /\ record' = [record EXCEPT ![job[q].run] = Terminated(board[q])]
        /\ told' = [told EXCEPT ![q] = board[q].reason] /\ job' = job
        /\ pc'[q] = "telling" /\ \A p \in Request : p # q => pc'[p] = pc[p]
    BY <1>1, <1>3 DEF StoreOutcome, Goto, TypeOK
  <2>2. job[q].run \in Run /\ record[job[q].run].status = "running"
    BY <1>3, StoringRuns
  <2>3. record'[job[q].run].status = "terminated"
        /\ record'[job[q].run].reason = told'[q]
    BY <1>1, <2>1, <2>2 DEF TypeOK, Terminated
  <2>4. \A p \in Request : p # q /\ told[p] # NULL => job[p].run # job[q].run
    BY <1>1, <2>2 DEF ToldInv
  <2> QED BY <1>1, <2>1, <2>2, <2>3, <2>4 DEF ToldInv, TypeOK
<1>4. ASSUME NEW q \in Request, Resolve(q) PROVE ToldInv'
  <2>1. record' = record /\ job[q].run \in Run
    BY <1>4 DEF Resolve, IInv, LocalInv, EndInv, KindInv, Unfinished
  <2>2. /\ told' = [told EXCEPT ![q] = record[job[q].run].reason] /\ job' = job
        /\ pc'[q] \in {"telling", "over"} /\ \A p \in Request : p # q => pc'[p] = pc[p]
    BY <1>1, <1>4, <2>1 DEF Resolve, Goto, TypeOK
  <2>3. told'[q] # NULL => record[job[q].run].status = "terminated"
    BY <1>1, <2>1, <2>2 DEF WholeOutcome, TypeOK
  <2> QED BY <1>1, <2>1, <2>2, <2>3 DEF ToldInv, TypeOK
<1>5. ASSUME NEW q \in Request,
             ~StartRun(q) /\ ~StoreOutcome(q) /\ ~Resolve(q),
             OpenStream(q) \/ Submit(q) \/ Advance(q) \/ Fail(q) \/ Leave(q)
      PROVE  told' = told
  BY <1>5 DEF OpenStream, Submit, Advance, Contribute, Write, Review, Proceed, Pause,
     FinalizeGraph, Complete, Tell, Discard, RecordDecision, Fail, Leave
<1>6. ASSUME NEW q \in Request, record' = record, told' = told,
             OpenStream(q) \/ Submit(q) \/ Advance(q) \/ Fail(q) \/ Leave(q)
      PROVE  ToldInv'
  <2>1. \A p \in Request : p # q => job'[p] = job[p] /\ pc'[p] = pc[p]
    BY <1>1, <1>6, OneCallSteps
  <2>2. pc[q] # "free" => job' = job /\ pc'[q] # "free"
    <3>1. pc[q] # "free" => ~OpenStream(q) /\ ~Submit(q)
      BY DEF OpenStream, Submit
    <3>2. Advance(q) \/ Fail(q) \/ Leave(q) => job' = job
      BY DEF Advance, Contribute, Write, Review, Proceed, Pause, FinalizeGraph,
         Complete, StoreOutcome, Tell, Discard, RecordDecision, Resolve, Fail, Leave
    <3>3. Contribute(q) \/ Write(q) \/ Review(q) \/ FinalizeGraph(q) => pc'[q] # "free"
      BY <1>1 DEF Contribute, Write, Review, FinalizeGraph, Visit, Goto, TypeOK
    <3>4. Proceed(q) \/ Pause(q) \/ Complete(q) \/ StoreOutcome(q) \/ Tell(q)
            \/ Discard(q) \/ RecordDecision(q) \/ Resolve(q) \/ Fail(q) \/ Leave(q)
          => pc'[q] # "free"
      BY <1>1 DEF Proceed, Pause, Complete, StoreOutcome, Tell, Discard, RecordDecision,
         Resolve, Fail, Leave, Goto, TypeOK
    <3> QED BY <1>6, <3>1, <3>2, <3>3, <3>4 DEF Advance
  <2> QED BY <1>1, <1>6, <2>1, <2>2 DEF ToldInv
<1>7. ASSUME NEW i \in Instance, Crash(i) PROVE ToldInv'
  BY <1>1, <1>7 DEF Crash, ToldInv
<1>8. CASE \E q \in Request : StartRun(q) \/ StoreOutcome(q) \/ Resolve(q)
  BY <1>2, <1>3, <1>4, <1>8
<1>9. CASE ~ \E q \in Request : StartRun(q) \/ StoreOutcome(q) \/ Resolve(q)
  <2>1. record' = record
    BY <1>9, RecordSteps
  <2> QED BY <1>5, <1>6, <1>7, <1>9, <2>1 DEF Next
<1> QED BY <1>8, <1>9

----------------------------------------------------------------------------
(* The invariant.                                                          *)

LEMMA InvInit == ASSUME Init PROVE IInv
<1>1. TypeOK
  BY InitTyped
<1>2. \A q \in Request : LocalInv(q)
  BY DEF Init, LocalInv, FreeInv, KindInv, RoleInv, ReviewInv, GateInv, EndInv,
     HumanInv, Blank
<1>3. CheckInv /\ RunInv
  BY DEF Init, CheckInv, RunInv
<1>4. OutcomeExplained /\ WholeOutcome /\ AnnouncedIsStored /\ ToldInv
  BY DEF Init, OutcomeExplained, WholeOutcome, AnnouncedIsStored, ToldInv, Blank
<1> QED BY <1>1, <1>2, <1>3, <1>4 DEF IInv

LEMMA InvStep == ASSUME IInv, [Next]_vars PROVE IInv'
<1>1. CASE Next
  BY <1>1, TypeStep, LocalStep, CheckStep, RunStep, OutcomeStep, WholeStep,
     AnnouncedStep, ToldStep DEF IInv
<1>2. CASE UNCHANGED vars
  <2>1. UNCHANGED <<config, record, recorded, checkpoint, announced, job, pc, phase,
                    board, visits, answer, told, crashes>>
    BY <1>2 DEF vars
  <2>2. TypeOK'
    BY <2>1 DEF IInv, TypeOK
  <2>3. \A q \in Request : LocalInv(q)'
    BY <2>1, LocalFrame DEF IInv
  <2>4. CheckInv' /\ RunInv'
    BY <2>1 DEF IInv, CheckInv, RunInv, Unfinished
  <2>5. OutcomeExplained' /\ WholeOutcome' /\ AnnouncedIsStored' /\ ToldInv'
    BY <2>1 DEF IInv, OutcomeExplained, WholeOutcome, AnnouncedIsStored, ToldInv, Passes
  <2> QED BY <2>2, <2>3, <2>4, <2>5 DEF IInv
<1> QED BY <1>1, <1>2

\* The inductive invariant holds; every theorem below follows from it.
THEOREM Invariant == Spec => []IInv
BY InvInit, InvStep, PTL DEF Spec

\* Types, and no counter of any blackboard beyond its configured bound.
THEOREM BoundsHold == Spec => []TypeOK
<1>1. IInv => TypeOK
  BY DEF IInv
<1> QED BY Invariant, <1>1, PTL

\* Graph and stream end as the critic's words and the tighter bound say.
THEOREM OutcomesAreExplained == Spec => []OutcomeExplained
<1>1. IInv => OutcomeExplained
  BY DEF IInv
<1> QED BY Invariant, <1>1, PTL

\* The graph's own recursion limit never cuts a run short, for any bounds and
\* any length of the pipeline.
THEOREM BackstopIsNeverMet == Spec => []BackstopNeverTrips
<1>1. IInv => BackstopNeverTrips
  BY DEF IInv, LocalInv, EndInv, BackstopNeverTrips
<1> QED BY Invariant, <1>1, PTL

\* A terminated run has the reason and the output of a whole collaboration.
THEOREM TerminatedRunsAreWhole == Spec => []WholeOutcome
<1>1. IInv => WholeOutcome
  BY DEF IInv
<1> QED BY Invariant, <1>1, PTL

\* The outcome webhooks agree with the store and so with each other.
THEOREM AnnouncementsAgree == Spec => []AnnouncedIsStored
<1>1. IInv => AnnouncedIsStored
  BY DEF IInv
<1> QED BY Invariant, <1>1, PTL

\* The human policy keeps every stream at the plan.
THEOREM HumanGateIsNotPassed == Spec => []HumanGateHolds
<1>1. IInv => HumanGateHolds
  BY DEF IInv, LocalInv, HumanInv, HumanGateHolds
<1> QED BY Invariant, <1>1, PTL

\* A stored outcome is never overwritten.
THEOREM OutcomesStand == Spec => OutcomeStands
<1>1. ASSUME IInv, [Next]_vars
      PROVE  [\A r \in Run : record[r].status = "terminated" => record'[r] = record[r]]_vars
  <2>1. SUFFICES ASSUME Next, NEW r \in Run, record[r].status = "terminated"
                 PROVE  record'[r] = record[r]
    BY <1>1
  <2>2. TypeOK
    BY <1>1 DEF IInv
  <2>3. ASSUME NEW q \in Request, StartRun(q) PROVE record'[r] = record[r]
    BY <2>1, <2>2, <2>3 DEF StartRun, TypeOK
  <2>4. ASSUME NEW q \in Request, StoreOutcome(q) PROVE record'[r] = record[r]
    <3>1. job[q].run # r
      BY <1>1, <2>1, <2>4, StoringRuns
    <3> QED BY <2>2, <2>4, <3>1 DEF StoreOutcome, TypeOK
  <2> QED BY <1>1, <2>1, <2>3, <2>4, RecordSteps
<1> QED BY Invariant, <1>1, PTL DEF Spec, OutcomeStands

----------------------------------------------------------------------------
(* Termination: StepsLeft is a natural number that every step of a call    *)
(* makes smaller.                                                          *)

\* The measure, where a call has steps before it.
LEMMA StepsAhead ==
    ASSUME IInv, NEW q \in Request
    PROVE  /\ RoundsLeft(q) \in Nat /\ RolesLeft(q) \in Nat /\ RolesLeft(q) >= 4
           /\ StepsLeft(q) \in Nat
           /\ pc[q] \notin {"free", "over", "tripped"} => StepsLeft(q) >= 1
<1>1. /\ board[q].rounds \in Nat /\ config.rounds \in Nat
      /\ board[q].rounds <= config.rounds /\ phase[q] \in 1..Roles /\ Roles \in Nat
      /\ pc[q] \in Steps
  BY RunAssumption DEF IInv, TypeOK, Board
<1>2. RoundsLeft(q) \in Nat
  BY <1>1 DEF RoundsLeft
<1>3. RolesLeft(q) \in Nat /\ RolesLeft(q) >= 4
  BY <1>1, <1>2 DEF RolesLeft, Reviewer
<1>4. StepsLeft(q) \in Nat
  BY <1>3 DEF StepsLeft
<1>5. pc[q] \notin {"free", "over", "tripped"} => StepsLeft(q) >= 1
  BY <1>1, <1>3 DEF StepsLeft, Steps
<1> QED BY <1>2, <1>3, <1>4, <1>5

LEMMA RolesWindDown ==
    ASSUME IInv, NEW q \in Request, Contribute(q) \/ Write(q) \/ Review(q)
    PROVE  StepsLeft(q)' < StepsLeft(q)
<1>1. /\ TypeOK /\ pc[q] = "acting" /\ phase[q] \in 1..Roles
      /\ Roles \in Nat /\ Roles >= 3 /\ config' = config
      /\ config.rounds \in Nat /\ board[q].rounds \in Nat
      /\ board[q].rounds <= config.rounds
  BY RunAssumption DEF IInv, TypeOK, Board, Contribute, Write, Review
<1>2. StepsLeft(q) = 4 + 3 * (config.rounds - board[q].rounds) + 2 * (Reviewer - phase[q])
  BY <1>1 DEF StepsLeft, RolesLeft, RoundsLeft
<1>3. CASE Contribute(q)
  <2>1. phase'[q] = phase[q] + 1 /\ board' = board /\ phase'[q] <= Reviser
    BY <1>1, <1>3, RunAssumption DEF Contribute, TypeOK, Reviser
  <2>2. pc'[q] \in {"gate", "acting"}
    BY <1>1, <1>3, BelowLimit, AfterVisit DEF Contribute
  <2>3. phase'[q] # Reviewer
    BY <1>1, <2>1 DEF Reviser, Reviewer
  <2>4. StepsLeft(q)' <= 5 + 3 * (config.rounds - board[q].rounds)
                           + 2 * (Reviewer - phase'[q])
    BY <1>1, <2>1, <2>2, <2>3 DEF StepsLeft, RolesLeft, RoundsLeft, Reviewer
  <2>5. StepsLeft(q)' \in Int
    BY <1>1, <2>1, <2>2, <2>3 DEF StepsLeft, RolesLeft, RoundsLeft, Reviewer
  <2> QED BY <1>1, <1>2, <2>1, <2>4, <2>5 DEF Reviewer
<1>4. CASE Write(q)
  <2>1. phase[q] = Reviser /\ phase'[q] = Reviewer /\ board'[q].rounds = board[q].rounds
    BY <1>1, <1>4 DEF Write, TypeOK, Drafted
  <2>2. pc'[q] = "acting"
    BY <1>1, <1>4, BelowLimit, AfterVisit DEF Write
  <2>3. StepsLeft(q)' = 4 + 3 * (config.rounds - board[q].rounds)
    BY <1>1, <2>1, <2>2 DEF StepsLeft, RolesLeft, RoundsLeft, Reviewer
  <2> QED BY <1>1, <1>2, <2>1, <2>3 DEF Reviewer, Reviser
<1>5. CASE Review(q)
  <2>1. phase[q] = Reviewer /\ board[q].rounds < config.rounds
    BY <1>1, <1>5 DEF Review, IInv, LocalInv, ReviewInv
  <2>2. PICK word \in {"approve", "revise"} :
          LET b == Reviewed(board[q], word)
              route == NextAfterReview(b) IN
          /\ board' = [board EXCEPT ![q] = b]
          /\ phase' = [phase EXCEPT ![q] = IF route = "revise" THEN Reviser ELSE Reviewer]
          /\ Visit(q, IF route = "revise" THEN "acting"
                      ELSE IF route = "approve" /\ job[q].kind = "stream" THEN "gate"
                      ELSE "ending")
    BY <1>5 DEF Review
  <2> DEFINE route == NextAfterReview(Reviewed(board[q], word))
  <2>3. /\ board'[q].rounds = board[q].rounds + 1
        /\ phase'[q] = IF route = "revise" THEN Reviser ELSE Reviewer
    BY <1>1, <2>2 DEF Reviewed, TypeOK
  <2>4. pc'[q] = IF route = "revise" THEN "acting"
                 ELSE IF route = "approve" /\ job[q].kind = "stream" THEN "gate"
                 ELSE "ending"
    BY <1>1, <2>2, BelowLimit, AfterVisit
  <2> HIDE DEF route
  <2>5. CASE route = "revise"
    <3>1. StepsLeft(q)' = 4 + 3 * (config.rounds - (board[q].rounds + 1))
                            + 2 * (Reviewer - Reviser)
      BY <1>1, <2>3, <2>4, <2>5 DEF StepsLeft, RolesLeft, RoundsLeft, Reviewer, Reviser
    <3> QED BY <1>1, <1>2, <2>1, <3>1 DEF Reviewer, Reviser
  <2>6. CASE route # "revise"
    <3>1. StepsLeft(q)' \in {3, 4}
      BY <1>1, <2>3, <2>4, <2>6 DEF StepsLeft, Reviewer
    <3>2. 3 * (config.rounds - board[q].rounds) >= 3
      BY <1>1, <2>1
    <3> QED BY <1>1, <1>2, <2>1, <3>1, <3>2 DEF Reviewer
  <2> QED BY <2>5, <2>6
<1> QED BY <1>3, <1>4, <1>5

LEMMA TailsWindDown ==
    ASSUME IInv, NEW q \in Request,
           Proceed(q) \/ Pause(q) \/ FinalizeGraph(q) \/ Complete(q)
             \/ StoreOutcome(q) \/ Tell(q) \/ Discard(q) \/ RecordDecision(q)
             \/ Resolve(q) \/ Fail(q) \/ Leave(q)
    PROVE  StepsLeft(q)' < StepsLeft(q)
<1>1. /\ TypeOK /\ StepsLeft(q) \in Nat
      /\ RolesLeft(q) \in Nat /\ RolesLeft(q) >= 4
      /\ pc[q] \notin {"free", "over", "tripped"} => StepsLeft(q) >= 1
  BY StepsAhead DEF IInv
<1>2. CASE Proceed(q)
  <2>1. /\ pc[q] = "gate" /\ UNCHANGED <<config, board, phase>>
        /\ pc'[q] = IF phase[q] = Reviewer THEN "ending" ELSE "acting"
    BY <1>1, <1>2 DEF Proceed, GateName, Goto, TypeOK
  <2>2. RolesLeft(q)' = RolesLeft(q)
    BY <2>1 DEF RolesLeft, RoundsLeft
  <2> QED BY <1>1, <2>1, <2>2 DEF StepsLeft
<1>3. CASE Pause(q)
  <2>1. pc[q] = "gate" /\ pc'[q] = "telling"
    BY <1>1, <1>3 DEF Pause, Goto, TypeOK
  <2> QED BY <1>1, <2>1 DEF StepsLeft
<1>4. CASE FinalizeGraph(q) \/ Complete(q)
  <2>1. pc[q] = "ending" /\ pc'[q] \in {"storing", "telling"}
    BY <1>1, <1>4, BelowLimit, AfterVisit DEF FinalizeGraph, Complete, Goto, TypeOK
  <2> QED BY <2>1 DEF StepsLeft
<1>5. CASE StoreOutcome(q) \/ Discard(q) \/ RecordDecision(q)
  <2>1. CASE StoreOutcome(q)
    BY <1>1, <2>1 DEF StoreOutcome, Goto, TypeOK, StepsLeft
  <2>2. CASE Discard(q)
    BY <1>1, <2>2 DEF Discard, Goto, TypeOK, StepsLeft
  <2>3. CASE RecordDecision(q)
    BY <1>1, <2>3 DEF RecordDecision, Goto, TypeOK, StepsLeft
  <2> QED BY <1>5, <2>1, <2>2, <2>3
<1>6. CASE Tell(q) \/ Resolve(q)
  <2>1. CASE Tell(q)
    BY <1>1, <2>1 DEF Tell, Goto, TypeOK, StepsLeft
  <2>2. CASE Resolve(q)
    BY <1>1, <2>2 DEF Resolve, Goto, TypeOK, StepsLeft
  <2> QED BY <1>6, <2>1, <2>2
<1>7. CASE Fail(q)
  <2>1. \/ /\ pc'[q] = "over"
           /\ pc[q] \in {"acting", "storing", "telling", "resolving"}
        \/ pc'[q] = "telling" /\ pc[q] = "acting"
    BY <1>1, <1>7 DEF Fail, Goto, TypeOK
  <2> QED BY <1>1, <2>1 DEF StepsLeft
<1>8. CASE Leave(q)
  <2>1. pc'[q] = "over" /\ pc[q] \in {"acting", "gate", "ending", "telling"}
    BY <1>1, <1>8 DEF Leave, Goto, TypeOK
  <2> QED BY <1>1, <2>1 DEF StepsLeft
<1> QED BY <1>2, <1>3, <1>4, <1>5, <1>6, <1>7, <1>8

\* Every step of a call, and a crash under it, leaves it fewer steps.
THEOREM CollaborationsEnd == Spec => CallsWindDown
<1> DEFINE Moves(q) == /\ pc[q] # "free"
                       /\ <<pc[q], phase[q], board[q]>> # <<pc'[q], phase'[q], board'[q]>>
<1>1. ASSUME IInv, [Next]_vars
      PROVE  [\A q \in Request : Moves(q) => StepsLeft(q)' < StepsLeft(q)]_vars
  <2>1. SUFFICES ASSUME Next, NEW p \in Request, Moves(p)
                 PROVE  StepsLeft(p)' < StepsLeft(p)
    BY <1>1
  <2>2. TypeOK
    BY <1>1 DEF IInv
  <2>3. ASSUME NEW q \in Request,
               StartRun(q) \/ OpenStream(q) \/ Submit(q) \/ Advance(q)
                 \/ Fail(q) \/ Leave(q)
        PROVE  StepsLeft(p)' < StepsLeft(p)
    <3>1. p = q
      BY <2>1, <2>2, <2>3, OneCallSteps
    <3>2. ~StartRun(p) /\ ~OpenStream(p) /\ ~Submit(p)
      BY <2>1 DEF StartRun, OpenStream, Submit
    <3> QED BY <1>1, <2>3, <3>1, <3>2, RolesWindDown, TailsWindDown DEF Advance
  <2>4. ASSUME NEW i \in Instance, Crash(i)
        PROVE  StepsLeft(p)' < StepsLeft(p)
    <3>1. pc'[p] = "over" /\ pc[p] # "over"
      BY <2>1, <2>4 DEF Crash
    <3>2. pc[p] \notin {"free", "over", "tripped"}
      BY <1>1, <2>1, <3>1 DEF IInv, LocalInv, EndInv
    <3>3. StepsLeft(p) \in Nat /\ StepsLeft(p) >= 1
      BY <1>1, <3>2, StepsAhead
    <3>4. StepsLeft(p)' = 0
      BY <3>1 DEF StepsLeft
    <3> QED BY <3>3, <3>4
  <2> HIDE DEF Moves
  <2> QED BY <2>1, <2>3, <2>4 DEF Next
<1> QED BY Invariant, <1>1, PTL DEF Spec, CallsWindDown

----------------------------------------------------------------------------
(* The run, however many calls are made about it, is one RunLifecycle.     *)

\* Whoever has announced a run is done.
SaidInv == \A r \in Run : \A a \in announced[r] : pc[a.by] = "over"

\* A call that is over stays so.
LEMMA OverStays ==
    ASSUME TypeOK, Next, NEW p \in Request, pc[p] = "over"
    PROVE  pc'[p] = "over"
<1>1. ASSUME NEW q \in Request,
             StartRun(q) \/ OpenStream(q) \/ Submit(q) \/ Advance(q)
               \/ Fail(q) \/ Leave(q)
      PROVE  pc'[p] = "over"
  <2>1. pc[q] # "over"
    BY <1>1 DEF StartRun, OpenStream, Submit, Advance, Contribute, Write, Review, Proceed,
                Pause, FinalizeGraph, Complete, StoreOutcome, Tell, Discard, RecordDecision,
                Resolve, Fail, Leave
  <2> QED BY <1>1, <2>1, OneCallSteps
<1>2. ASSUME NEW i \in Instance, Crash(i) PROVE pc'[p] = "over"
  BY <1>2 DEF Crash
<1> QED BY <1>1, <1>2 DEF Next

\* What is announced grows when a call tells it, and by that.
LEMMA AnnouncingSteps ==
    ASSUME Next
    PROVE  (\E q \in Request : Tell(q)) \/ announced' = announced
<1>1. ASSUME NEW q \in Request, StartRun(q) \/ OpenStream(q) \/ Submit(q)
               \/ Contribute(q) \/ Write(q) \/ Review(q) \/ Proceed(q) \/ Pause(q)
      PROVE  announced' = announced
  BY <1>1 DEF StartRun, OpenStream, Submit, Contribute, Write, Review, Proceed, Pause, shared
<1>2. ASSUME NEW q \in Request, FinalizeGraph(q) \/ Complete(q) \/ StoreOutcome(q)
               \/ Discard(q) \/ RecordDecision(q) \/ Resolve(q) \/ Fail(q) \/ Leave(q)
      PROVE  announced' = announced
  BY <1>2 DEF FinalizeGraph, Complete, StoreOutcome, Discard, RecordDecision, Resolve,
              Fail, Leave, shared
<1>3. ASSUME NEW i \in Instance, Crash(i) PROVE announced' = announced
  BY <1>3 DEF Crash
<1> QED BY <1>1, <1>2, <1>3 DEF Next, Advance

\* A call tells the stored end of its run, or nothing; and it has a run.
LEMMA Telling ==
    ASSUME IInv, NEW q \in Request, Tell(q)
    PROVE  /\ job[q].run \in Run /\ pc[q] = "telling" /\ pc'[q] = "over"
           /\ record' = record
           /\ ToTell(q) # NULL => /\ ToTell(q) = record[job[q].run].reason
                                  /\ record[job[q].run].status = "terminated"
<1>1. /\ job[q].run \in Run /\ pc[q] = "telling" /\ pc'[q] = "over" /\ record' = record
  BY DEF Tell, Goto, IInv, TypeOK, LocalInv, KindInv
<1>2. ToTell(q) # NULL => ToTell(q) = record[job[q].run].reason
  BY DEF ToTell, IInv, ToldInv
<1>3. ToTell(q) # NULL => record[job[q].run].status = "terminated"
  BY <1>1, <1>2 DEF IInv, WholeOutcome
<1> QED BY <1>1, <1>2, <1>3

LEMMA SaidStep == ASSUME IInv, SaidInv, [Next]_vars PROVE SaidInv'
<1>1. TypeOK
  BY DEF IInv
<1>2. CASE UNCHANGED vars
  BY <1>2 DEF vars, SaidInv
<1>3. ASSUME Next, NEW r \in Run, NEW a \in announced'[r] PROVE pc'[a.by] = "over"
  <2>1. CASE a \in announced[r]
    BY <1>1, <1>3, <2>1, OverStays DEF SaidInv, TypeOK
  <2>2. CASE a \notin announced[r]
    <3>1. PICK q \in Request : Tell(q)
      BY <1>3, <2>2, AnnouncingSteps
    <3>2. a.by = q
      BY <1>1, <1>3, <2>2, <3>1 DEF Tell, TypeOK
    <3> QED BY <3>1, <3>2, Telling
  <2> QED BY <2>1, <2>2
<1> QED BY <1>2, <1>3 DEF SaidInv

LEMMA LifecycleInit == Init => Lifecycle!Init
BY DEF Init, Lifecycle!Init

\* Every step that changes a stored run or announces one is a step of the
\* lifecycle, and no other is visible in it.
LEMMA LifecycleStep ==
    ASSUME IInv, SaidInv, [Next]_vars
    PROVE  [Lifecycle!Next]_(Lifecycle!vars)
<1> DEFINE stage  == [r \in Run |-> record[r].status]
           result == [r \in Run |-> <<record[r].reason, record[r].output>>]
<1>1. TypeOK /\ WholeOutcome
  BY DEF IInv
<1>2. CASE record' = record /\ announced' = announced
  BY <1>2 DEF Lifecycle!vars
<1>3. ASSUME NEW q \in Request, StartRun(q) PROVE Lifecycle!Next
  <2>1. PICK r \in Run :
           /\ record[r].status = "absent"
           /\ record' = [record EXCEPT ![r] =
                 [status |-> "running", reason |-> NULL, output |-> NULL]]
    BY <1>3 DEF StartRun
  <2>2. record[r].reason = NULL /\ record[r].output = NULL /\ announced' = announced
    BY <1>1, <1>3, <2>1 DEF WholeOutcome, StartRun, shared
  <2>3. /\ stage[r] = "absent" /\ stage' = [stage EXCEPT ![r] = "running"]
        /\ result' = result
    BY <1>1, <2>1, <2>2 DEF TypeOK
  <2>4. Lifecycle!Create(r)
    BY <2>2, <2>3 DEF Lifecycle!Create
  <2> QED BY <2>4 DEF Lifecycle!Next
<1>4. ASSUME NEW q \in Request, StoreOutcome(q), Next PROVE Lifecycle!Next
  <2>1. PICK r \in Run : r = job[q].run
    BY <1>4, StoringRuns
  <2>2. /\ record[r].status = "running" /\ announced' = announced
        /\ record' = [record EXCEPT ![r] = Terminated(board[q])]
    BY <1>4, <2>1, StoringRuns DEF StoreOutcome
  <2>3. /\ stage[r] = "running" /\ stage' = [stage EXCEPT ![r] = "terminated"]
        /\ result' = [result EXCEPT ![r] = result'[r]]
        /\ record'[r].status = "terminated"
    BY <1>1, <2>1, <2>2 DEF TypeOK, Terminated
  <2>4. WholeOutcome' /\ TypeOK'
    BY <1>4, WholeStep, TypeStep
  <2>5. result'[r] \in Lifecycle!Results
    BY <2>3, <2>4 DEF WholeOutcome, TypeOK, Passes, Lifecycle!Results
  <2>6. Lifecycle!End(r)
    BY <2>2, <2>3, <2>5 DEF Lifecycle!End
  <2> QED BY <2>6 DEF Lifecycle!Next
<1>5. ASSUME NEW q \in Request, Tell(q) PROVE [Lifecycle!Next]_(Lifecycle!vars)
  <2> DEFINE r == job[q].run
  <2>1. /\ r \in Run /\ pc[q] = "telling" /\ record' = record
        /\ ToTell(q) # NULL => ToTell(q) = record[r].reason /\ record[r].status = "terminated"
    BY <1>5, Telling
  <2>2. CASE ToTell(q) = NULL
    BY <1>2, <1>5, <2>1, <2>2 DEF Tell
  <2>3. CASE ToTell(q) # NULL
    <3>1. announced' = [announced EXCEPT ![r] = @ \cup {[by |-> q, reason |-> record[r].reason]}]
      BY <1>5, <2>1, <2>3 DEF Tell
    <3>2. \A s \in Run : \A a \in announced[s] : a.by # q
      BY <2>1 DEF SaidInv
    <3> HIDE DEF r
    <3>3. Lifecycle!Announce(r, q)
      BY <2>1, <2>3, <3>1, <3>2 DEF Lifecycle!Announce
    <3> QED BY <2>1, <3>3 DEF Lifecycle!Next
  <2> QED BY <2>2, <2>3
<1>6. CASE UNCHANGED vars
  BY <1>2, <1>6 DEF vars
<1>7. CASE Next
  BY <1>2, <1>3, <1>4, <1>5, <1>7, RecordSteps, AnnouncingSteps, Telling
<1> QED BY <1>6, <1>7

\* Starts, streams and decisions, however they race and whatever dies, make of
\* every run a RunLifecycle: created once, ended once and for good, announced as
\* it ended and at most once by each call.
THEOREM RunsKeepLifecycle == Spec => KeepsLifecycle
<1>1. Init => SaidInv
  BY DEF Init, SaidInv
<1>2. IInv /\ SaidInv /\ [Next]_vars => SaidInv'
  BY SaidStep
<1>3. IInv /\ SaidInv /\ [Next]_vars => [Lifecycle!Next]_(Lifecycle!vars)
  BY LifecycleStep
<1> QED
  BY Invariant, LifecycleInit, <1>1, <1>2, <1>3, PTL DEF Spec, KeepsLifecycle, Lifecycle!Spec
=============================================================================
