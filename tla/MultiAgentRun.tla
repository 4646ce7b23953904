--------------------------- MODULE MultiAgentRun ---------------------------
(***************************************************************************)
(* Multi-agent runs: the team of roles that plans, researches, writes and  *)
(* reviews (multiagent/graph.py, orchestrator.py, streaming.py), the       *)
(* stored run (multiagent/store.py), the human approval gate with its      *)
(* checkpoints (multiagent/approval.py), and the three handlers that drive *)
(* them: start, stream and approval (api/routers/multi_agent.py).          *)
(*                                                                         *)
(* A Request is one call of one of those handlers.  Requests run in the    *)
(* thread pools of one or several instances and interleave between any two *)
(* role steps, store calls and yields.  The same run may be streamed any   *)
(* number of times, at once or after it ended: each stream collaborates    *)
(* afresh.  Checkpoints live in the memory of an instance.                 *)
(***************************************************************************)
EXTENDS Integers, FiniteSets

CONSTANTS
    Run,           \* run ids the store hands out
    Instance,      \* application processes
    Request,       \* bound: the calls made
    Roles,         \* length of the pipeline; DEFAULT_PIPELINE has 4
    Limits,        \* the pairs <<Max_Rounds, Max_Revisions>> to configure
    MaxCrashes,    \* bound: how often a process dies
    NULL           \* None

ASSUME RunAssumption ==
    /\ Roles \in Nat /\ Roles >= 3
    /\ Limits \subseteq (Nat \ {0}) \X (Nat \ {0})
    /\ MaxCrashes \in Nat
    /\ NULL \notin {"completed", "max-rounds-reached", "max-revisions-reached",
                    "rejected", "aborted", "after_plan", "before_finalize"}
    /\ NULL \notin Nat
    /\ NULL \notin Run /\ NULL \notin Instance

\* Positions in the pipeline: the first role is the planner, the last but one
\* the reviser (the writer), the last the reviewer (the critic).
Reviewer == Roles
Reviser  == Roles - 1

Reasons     == {"completed", "max-rounds-reached", "max-revisions-reached",
                "rejected", "aborted"}
Checkpoints == {"after_plan", "before_finalize"}
Decisions   == {"approve", "reject", "edit"}

\* The blackboard of one collaboration.  A draft is the number of times the
\* writer has written; feedback is the critic's last word.
Board == [rounds : Nat, revisions : Nat, draft : Nat,
          feedback : {"none", "approve", "revise"},
          reason : Reasons \cup {NULL}, output : Nat \cup {NULL},
          awaiting : Checkpoints \cup {NULL}]

Record == [status : {"absent", "running", "terminated"},
           reason : Reasons \cup {NULL}, output : Nat \cup {NULL}]

\* What a handler was asked.  resumes: the stream was opened after an approval
\* of its run had been accepted (history, nothing in the code reads it).
Job == [kind : {"none", "start", "stream", "approval"},
        run : Run \cup {NULL}, at : Instance \cup {NULL},
        decision : Decisions \cup {"none"}, resumes : BOOLEAN]

Steps == {"free", "acting", "gate", "ending", "storing", "telling",
          "deciding", "recording", "resolving", "tripped", "over"}

Answers == {"none", "opened", "completion", "error", "approval_required",
            "terminated", "accepted", "refused", "failed"}

VARIABLES
    config,      \* the policy (human or auto) and the two bounds, set at start
    record,      \* multi_agent_runs
    recorded,    \* approval_decisions of each run, in number
    checkpoint,  \* Checkpoint_Store of each instance
    announced,   \* webhooks sent of each run: the requests and reasons
    job, pc,     \* what each request is for and what it is about to do
    phase,       \* the role it is about to run
    board,       \* its blackboard
    visits,      \* graph nodes entered
    answer,      \* the last frame of a stream, or the response
    told,        \* the reason a start or a decision has read for its webhook
    crashes      \* process deaths so far

vars == <<config, record, recorded, checkpoint, announced, job, pc, phase,
          board, visits, answer, told, crashes>>

shared == <<record, recorded, checkpoint, announced>>

----------------------------------------------------------------------------
(* The pure parts.                                                         *)

Blank == [rounds |-> 0, revisions |-> 0, draft |-> 0, feedback |-> "none",
          reason |-> NULL, output |-> NULL, awaiting |-> NULL]

\* next_after_review, the routing out of the reviewer.
NextAfterReview(b) ==
    IF b.feedback # "revise" THEN "approve"
    ELSE IF b.rounds >= config.rounds THEN "rounds"
    ELSE IF b.revisions >= config.revisions THEN "revs"
    ELSE "revise"

\* Bug: every draft counts as a revision, the first one too.
DraftedAlwaysCounted(b) ==
    [rounds |-> b.rounds, revisions |-> b.revisions + 1, draft |-> b.draft + 1,
     feedback |-> b.feedback, reason |-> b.reason, output |-> b.output,
     awaiting |-> b.awaiting]

\* The writer's step: run_role_step counts a revision when the critic asked
\* for one.
Drafted(b) ==
    [rounds |-> b.rounds,
     revisions |-> IF b.feedback = "revise" THEN b.revisions + 1 ELSE b.revisions,
     draft |-> b.draft + 1, feedback |-> b.feedback,
     reason |-> b.reason, output |-> b.output, awaiting |-> b.awaiting]

\* Bug: a round counts once it is approved.
ReviewedIfApproved(b, word) ==
    [rounds |-> IF word = "approve" THEN b.rounds + 1 ELSE b.rounds,
     revisions |-> b.revisions, draft |-> b.draft, feedback |-> word,
     reason |-> b.reason, output |-> b.output, awaiting |-> b.awaiting]

\* The critic's step: run_role_step counts the round.
Reviewed(b, word) ==
    [rounds |-> b.rounds + 1, revisions |-> b.revisions, draft |-> b.draft,
     feedback |-> word,
     reason |-> b.reason, output |-> b.output, awaiting |-> b.awaiting]

\* The terminal nodes, and the stream's three completions.
Finalized(b) ==
    [rounds |-> b.rounds, revisions |-> b.revisions, draft |-> b.draft,
     feedback |-> b.feedback,
     reason |-> CASE NextAfterReview(b) = "approve" -> "completed"
                  [] NextAfterReview(b) = "rounds"  -> "max-rounds-reached"
                  [] OTHER                          -> "max-revisions-reached",
     output |-> b.draft, awaiting |-> b.awaiting]

\* at_checkpoint under the human policy.
Suspended(b, name) ==
    [rounds |-> b.rounds, revisions |-> b.revisions, draft |-> b.draft,
     feedback |-> b.feedback, reason |-> b.reason, output |-> b.output,
     awaiting |-> name]

\* What submit makes of the snapshot.  An edit replaces the plan or the draft
\* of a copy that the handler then drops, so content is left out.
Decided(b, decision) ==
    [rounds |-> b.rounds, revisions |-> b.revisions, draft |-> b.draft,
     feedback |-> IF decision = "reject" THEN "revise" ELSE b.feedback,
     reason |-> IF decision = "reject" /\ b.revisions >= config.revisions
                  THEN "rejected" ELSE b.reason,
     output |-> b.output, awaiting |-> NULL]

\* Multi_Agent_Run_Store.terminate: whatever the row says already.
Terminated(b) == [status |-> "terminated", reason |-> b.reason, output |-> b.output]

\* _NODES_PER_ROUND * max_rounds + len(pipeline) + _RECURSION_BUFFER.
RecursionLimit == 2 * config.rounds + Roles + 25

----------------------------------------------------------------------------
Init ==
    /\ \E human \in BOOLEAN, l \in Limits :
          config = [human |-> human, rounds |-> l[1], revisions |-> l[2]]
    /\ record = [r \in Run |-> [status |-> "absent", reason |-> NULL, output |-> NULL]]
    /\ recorded = [r \in Run |-> 0]
    /\ checkpoint = [i \in Instance |-> [r \in Run |-> NULL]]
    /\ announced = [r \in Run |-> {}]
    /\ job = [q \in Request |-> [kind |-> "none", run |-> NULL, at |-> NULL,
                                 decision |-> "none", resumes |-> FALSE]]
    /\ pc = [q \in Request |-> "free"]
    /\ phase = [q \in Request |-> 1]
    /\ board = [q \in Request |-> Blank]
    /\ visits = [q \in Request |-> 0]
    /\ answer = [q \in Request |-> "none"]
    /\ told = [q \in Request |-> NULL]
    /\ crashes = 0

Goto(q, step) == pc' = [pc EXCEPT ![q] = step]

\* Entering a node of the graph: one more than the recursion limit allows
\* raises.  A stream walks the pipeline itself and has no such limit.
Visit(q, step) ==
    /\ visits' = [visits EXCEPT ![q] = @ + 1]
    /\ Goto(q, IF job[q].kind = "start" /\ visits[q] >= RecursionLimit
                 THEN "tripped" ELSE step)

\* POST /multi-agent/runs: the run is stored, then the graph is entered.
StartRun(q) ==
    /\ pc[q] = "free"
    /\ \E r \in Run, i \in Instance :
          /\ record[r].status = "absent"
          /\ record' = [record EXCEPT ![r] =
                [status |-> "running", reason |-> NULL, output |-> NULL]]
          /\ job' = [job EXCEPT ![q] = [kind |-> "start", run |-> r, at |-> i,
                        decision |-> "none", resumes |-> FALSE]]
    /\ Goto(q, "acting")
    /\ UNCHANGED <<config, recorded, checkpoint, announced, phase, board,
                   visits, answer, told, crashes>>

\* POST /multi-agent/runs/{id}/stream: the run is looked up, the planner's
\* first frame goes out.
OpenStream(q) ==
    /\ pc[q] = "free"
    /\ \E r \in Run, i \in Instance :
          /\ record[r].status # "absent"
          /\ job' = [job EXCEPT ![q] = [kind |-> "stream", run |-> r, at |-> i,
                decision |-> "none",
                resumes |-> \E p \in Request :
                    /\ job[p].run = r /\ job[p].decision = "approve"
                    /\ answer[p] = "accepted"]]
    /\ Goto(q, "acting")
    /\ answer' = [answer EXCEPT ![q] = "opened"]
    /\ UNCHANGED <<config, shared, phase, board, visits, told, crashes>>

\* The planner, and the roles between planner and reviser.  A stream looks at
\* the after_plan checkpoint once the planner is done.
Contribute(q) ==
    /\ pc[q] = "acting" /\ phase[q] < Reviser
    /\ phase' = [phase EXCEPT ![q] = @ + 1]
    /\ Visit(q, IF job[q].kind = "stream" /\ phase[q] = 1 THEN "gate" ELSE "acting")
    /\ UNCHANGED <<config, shared, job, board, answer, told, crashes>>

\* The writer writes or revises.
Write(q) ==
    /\ pc[q] = "acting" /\ phase[q] = Reviser
    /\ board' = [board EXCEPT ![q] = Drafted(board[q])]
    /\ phase' = [phase EXCEPT ![q] = Reviewer]
    /\ Visit(q, "acting")
    /\ UNCHANGED <<config, shared, job, answer, told, crashes>>

\* The critic approves or asks for a revision, and the run is routed on.
Review(q) ==
    /\ pc[q] = "acting" /\ phase[q] = Reviewer
    /\ \E word \in {"approve", "revise"} :
          LET b == Reviewed(board[q], word)
              route == NextAfterReview(b) IN
          /\ board' = [board EXCEPT ![q] = b]
          /\ phase' = [phase EXCEPT ![q] = IF route = "revise" THEN Reviser ELSE Reviewer]
          /\ Visit(q, IF route = "revise" THEN "acting"
                      ELSE IF route = "approve" /\ job[q].kind = "stream" THEN "gate"
                      ELSE "ending")
    /\ UNCHANGED <<config, shared, job, answer, told, crashes>>

\* The checkpoint a stream stands at.
GateName(q) == IF phase[q] = Reviewer THEN "before_finalize" ELSE "after_plan"

\* No gate is wired into the streams under the automatic policy.
Proceed(q) ==
    /\ pc[q] = "gate" /\ ~config.human
    /\ Goto(q, IF GateName(q) = "after_plan" THEN "acting" ELSE "ending")
    /\ UNCHANGED <<config, shared, job, phase, board, visits, answer, told, crashes>>

\* Under the human policy every checkpoint pauses: the snapshot is kept in this
\* process, the stream says so and ends.  The trace entry comes after the
\* snapshot; when it raises the client gets an error and the snapshot stays.
Pause(q) ==
    /\ pc[q] = "gate" /\ config.human
    /\ LET b == Suspended(board[q], GateName(q)) IN
          /\ board' = [board EXCEPT ![q] = b]
          /\ checkpoint' = [checkpoint EXCEPT ![job[q].at] =
                               [@ EXCEPT ![job[q].run] = b]]
    /\ \E frame \in {"approval_required", "error"} :
          answer' = [answer EXCEPT ![q] = frame]
    /\ Goto(q, "telling")
    /\ UNCHANGED <<config, record, recorded, announced, job, phase, visits, told, crashes>>

\* The terminal node of the graph.
FinalizeGraph(q) ==
    /\ pc[q] = "ending" /\ job[q].kind = "start"
    /\ board' = [board EXCEPT ![q] = Finalized(board[q])]
    /\ Visit(q, "storing")
    /\ UNCHANGED <<config, shared, job, phase, answer, told, crashes>>

\* Bug: the stream writes its outcome to the run it was opened on.
CompleteStored(q) ==
    /\ pc[q] = "ending" /\ job[q].kind = "stream"
    /\ board' = [board EXCEPT ![q] = Finalized(board[q])]
    /\ record' = [record EXCEPT ![job[q].run] = Terminated(Finalized(board[q]))]
    /\ answer' = [answer EXCEPT ![q] = "completion"]
    /\ Goto(q, "telling")
    /\ UNCHANGED <<config, recorded, checkpoint, announced, job, phase, visits, told, crashes>>

\* The completion frame of a stream.  The stored run is not written.
Complete(q) ==
    /\ pc[q] = "ending" /\ job[q].kind = "stream"
    /\ board' = [board EXCEPT ![q] = Finalized(board[q])]
    /\ answer' = [answer EXCEPT ![q] = "completion"]
    /\ Goto(q, "telling")
    /\ UNCHANGED <<config, shared, job, phase, visits, told, crashes>>

StoreOutcome(q) ==
    /\ pc[q] = "storing"
    /\ record' = [record EXCEPT ![job[q].run] = Terminated(board[q])]
    /\ told' = [told EXCEPT ![q] = board[q].reason]
    /\ answer' = [answer EXCEPT ![q] = "terminated"]
    /\ Goto(q, "telling")
    /\ UNCHANGED <<config, recorded, checkpoint, announced, job, phase, board,
                   visits, crashes>>

\* Bug: a stream tells its own outcome.
ToTellOwn(q) == IF job[q].kind = "stream" THEN board[q].reason ELSE told[q]

\* The outcome webhook, if there is an outcome.  Of a start and of a decision it
\* tells the reason read when they were answered, of a stream read to its end
\* the one that is stored by now.
ToTell(q) == IF job[q].kind = "stream" THEN record[job[q].run].reason ELSE told[q]

Tell(q) ==
    /\ pc[q] = "telling"
    /\ announced' =
          IF ToTell(q) = NULL THEN announced
          ELSE [announced EXCEPT ![job[q].run] =
                   @ \cup {[by |-> q, reason |-> ToTell(q)]}]
    /\ Goto(q, "over")
    /\ UNCHANGED <<config, record, recorded, checkpoint, job, phase, board,
                   visits, answer, told, crashes>>

\* A role, its trace entry or a store call raises.  A start or a decision is
\* answered 500 and leaves its run as it is; a stream ends in one error frame.
Fail(q) ==
    /\ \/ /\ \/ pc[q] \in {"acting", "storing", "telling"} /\ job[q].kind = "start"
             \/ pc[q] = "resolving"
          /\ Goto(q, "over")
          /\ answer' = [answer EXCEPT ![q] = "failed"]
       \/ /\ pc[q] = "acting" /\ job[q].kind = "stream"
          /\ Goto(q, "telling")
          /\ answer' = [answer EXCEPT ![q] = "error"]
    /\ UNCHANGED <<config, shared, job, phase, board, visits, told, crashes>>

\* The client stops reading: the generator is dropped where it stands.
Leave(q) ==
    /\ job[q].kind = "stream" /\ pc[q] \in {"acting", "gate", "ending", "telling"}
    /\ Goto(q, "over")
    /\ UNCHANGED <<config, shared, job, phase, board, visits, answer, told, crashes>>

\* POST /multi-agent/runs/{id}/approval: the checkpoint is loaded, or there is
\* none and the decision is refused.
Submit(q) ==
    /\ pc[q] = "free"
    /\ \E r \in Run, i \in Instance, d \in Decisions :
          /\ record[r].status # "absent"
          /\ job' = [job EXCEPT ![q] = [kind |-> "approval", run |-> r, at |-> i,
                        decision |-> d, resumes |-> FALSE]]
          /\ IF checkpoint[i][r] = NULL
               THEN /\ answer' = [answer EXCEPT ![q] = "refused"]
                    /\ Goto(q, "over")
                    /\ board' = board
               ELSE /\ board' = [board EXCEPT ![q] = Decided(checkpoint[i][r], d)]
                    /\ Goto(q, "deciding")
                    /\ answer' = answer
    /\ UNCHANGED <<config, shared, phase, visits, told, crashes>>

\* The checkpoint is discarded, whichever it is by now.  A trace entry that
\* raises turns the answer into a 500; the checkpoint is gone all the same.
Discard(q) ==
    /\ pc[q] = "deciding"
    /\ checkpoint' = [checkpoint EXCEPT ![job[q].at] =
                         [@ EXCEPT ![job[q].run] = NULL]]
    /\ \E ok \in BOOLEAN :
          /\ answer' = [answer EXCEPT ![q] = IF ok THEN "accepted" ELSE "failed"]
          /\ Goto(q, IF ok THEN "recording" ELSE "over")
    /\ UNCHANGED <<config, record, recorded, announced, job, phase, board,
                   visits, told, crashes>>

\* record_decision; what it raises is swallowed.
RecordDecision(q) ==
    /\ pc[q] = "recording"
    /\ \E kept \in {0, 1} :
          recorded' = [recorded EXCEPT ![job[q].run] = @ + kept]
    /\ Goto(q, "resolving")
    /\ UNCHANGED <<config, record, checkpoint, announced, job, phase, board,
                   visits, answer, told, crashes>>

\* The run is terminated if the decision ended it.  Otherwise it is read back,
\* and nothing continues it; one that ended before is announced again.
Resolve(q) ==
    /\ pc[q] = "resolving"
    /\ record' = IF board[q].reason = NULL THEN record
                 ELSE [record EXCEPT ![job[q].run] = Terminated(board[q])]
    /\ told' = [told EXCEPT ![q] = record'[job[q].run].reason]
    /\ Goto(q, IF record'[job[q].run].status = "terminated" THEN "telling" ELSE "over")
    /\ UNCHANGED <<config, recorded, checkpoint, announced, job, phase, board,
                   visits, answer, crashes>>

\* A process dies and is started again: its requests and checkpoints are gone.
Crash(i) ==
    /\ crashes < MaxCrashes
    /\ crashes' = crashes + 1
    /\ checkpoint' = [checkpoint EXCEPT ![i] = [r \in Run |-> NULL]]
    /\ pc' = [q \in Request |-> IF job[q].at = i THEN "over" ELSE pc[q]]
    /\ UNCHANGED <<config, record, recorded, announced, job, phase, board,
                   visits, answer, told>>

\* A handler's own steps, as against calls that may come or not.
Advance(q) ==
    \/ Contribute(q) \/ Write(q) \/ Review(q)
    \/ Proceed(q) \/ Pause(q)
    \/ FinalizeGraph(q) \/ Complete(q) \/ StoreOutcome(q) \/ Tell(q)
    \/ Discard(q) \/ RecordDecision(q) \/ Resolve(q)

Next ==
    \/ \E q \in Request :
          \/ StartRun(q) \/ OpenStream(q) \/ Submit(q)
          \/ Advance(q) \/ Fail(q) \/ Leave(q)
    \/ \E i \in Instance : Crash(i)

Spec == Init /\ [][Next]_vars

----------------------------------------------------------------------------
(* Types, with the two bounds the graph enforces: no step of any handler   *)
(* takes a counter past the configured maximum.                            *)

TypeOK ==
    /\ config \in [human : BOOLEAN, rounds : Nat \ {0}, revisions : Nat \ {0}]
    /\ record \in [Run -> Record]
    /\ recorded \in [Run -> Nat]
    /\ checkpoint \in [Instance -> [Run -> Board \cup {NULL}]]
    /\ announced \in [Run -> SUBSET [by : Request, reason : Reasons]]
    /\ job \in [Request -> Job]
    /\ pc \in [Request -> Steps]
    /\ phase \in [Request -> 1..Roles]
    /\ board \in [Request -> Board]
    /\ \A q \in Request : /\ board[q].rounds <= config.rounds
                          /\ board[q].revisions <= config.revisions
    /\ visits \in [Request -> Nat]
    /\ answer \in [Request -> Answers]
    /\ told \in [Request -> Reasons \cup {NULL}]
    /\ crashes \in Nat

\* How many drafts the two bounds allow between them.
Passes == IF config.rounds <= config.revisions + 1
            THEN config.rounds ELSE config.revisions + 1

\* Graph and stream, two implementations of one collaboration, end exactly as
\* the critic's words say: with the first draft approved, or with the last one
\* the tighter of the two bounds allows, named after that bound.  The output is
\* the draft the critic saw last.
OutcomeExplained ==
    \A q \in Request : LET b == board[q] IN b.output # NULL =>
        /\ b.output = b.draft
        /\ b.draft \in 1..Passes
        /\ b.feedback = "approve" => b.reason = "completed"
        /\ b.feedback # "approve" =>
              /\ b.draft = Passes
              /\ b.reason = IF config.rounds <= config.revisions + 1
                              THEN "max-rounds-reached" ELSE "max-revisions-reached"

\* The recursion limit handed to the graph is a backstop: a run meets one of
\* its own bounds before it (orchestrator.py, run).
BackstopNeverTrips == \A q \in Request : pc[q] # "tripped"

\* A terminated run has both its reason and its output, as the handler that
\* reads it back insists (get_multi_agent_run), and both are those of a whole
\* collaboration; an unfinished one has neither.
WholeOutcome ==
    \A r \in Run :
        IF record[r].status = "terminated"
          THEN /\ record[r].reason \in
                      {"completed", "max-rounds-reached", "max-revisions-reached"}
               /\ record[r].output \in 1..Passes
          ELSE record[r].reason = NULL /\ record[r].output = NULL

\* What is stored of a run that ended is never overwritten, although terminate
\* looks at nothing, streams collaborate anew and decisions come late.
OutcomeStands ==
    [][\A r \in Run : record[r].status = "terminated" => record'[r] = record[r]]_vars

\* A run keeps the promise of RunLifecycle: created once, ended once with reason
\* and output, never overwritten although terminate looks at nothing, streams
\* collaborate anew and decisions come late; and every webhook about it, at most
\* one from each call, tells that end.
Lifecycle == INSTANCE RunLifecycle WITH
    Call   <- Request,
    stage  <- [r \in Run |-> record[r].status],
    result <- [r \in Run |-> <<record[r].reason, record[r].output>>]
KeepsLifecycle == Lifecycle!Spec

\* All webhooks about a run name one and the same outcome, the stored one,
\* whatever happened in the streams they follow.
AnnouncedIsStored ==
    \A r \in Run : \A a \in announced[r] : a.reason = record[r].reason

\* Under the human policy no stream shows a completion or drafts anything: it
\* goes no further than the plan somebody has yet to approve.
HumanGateHolds ==
    config.human =>
        \A q \in Request : job[q].kind = "stream" =>
            answer[q] # "completion" /\ board[q].draft = 0

\* How many steps a call has before it at most: the rounds left, each with its
\* two roles, then the roles left, then the tail of its handler.
RoundsLeft(q) == config.rounds - board[q].rounds

RolesLeft(q) == 4 + 3 * RoundsLeft(q) + 2 * (Reviewer - phase[q])

StepsLeft(q) ==
    CASE pc[q] = "acting"    -> RolesLeft(q)
      [] pc[q] = "gate"      -> IF phase[q] = Reviewer THEN 4 ELSE RolesLeft(q) + 1
      [] pc[q] = "deciding"  -> 4
      [] pc[q] \in {"ending", "recording"}  -> 3
      [] pc[q] \in {"storing", "resolving"} -> 2
      [] pc[q] = "telling"   -> 1
      [] OTHER               -> 0

\* No call goes in circles: whatever the critic answers and whatever fails, each
\* of its steps leaves fewer before it, so a collaboration cannot go on for
\* ever, in the graph or in a stream, which has no recursion limit.
CallsWindDown ==
    [][\A q \in Request :
          /\ pc[q] # "free"
          /\ <<pc[q], phase[q], board[q]>> # <<pc'[q], phase'[q], board'[q]>>
          => StepsLeft(q)' < StepsLeft(q)]_vars

----------------------------------------------------------------------------
(* What the repository says of itself and its code does not do.            *)

\* "A decision to a run that is not currently awaiting approval is rejected"
\* (submit_approval): one pause takes one decision.
OneDecisionPerPause ==
    \A r \in Run :
        Cardinality({q \in Request : job[q].run = r /\ job[q].kind = "approval"
                                       /\ answer[q] = "accepted"})
          <= Cardinality({q \in Request : job[q].run = r /\ job[q].kind = "stream"
                                       /\ board[q].awaiting # NULL})
=============================================================================
