------------------------------ MODULE AgentRun ------------------------------
(***************************************************************************)
(* Agent runs: the bounded loop of reasoning, tool calls and observations  *)
(* (agent/graph.py, orchestrator.py, selection.py, state.py), its trace    *)
(* (tracing/recorder.py), the conversation it reads and extends            *)
(* (conversation/store.py), and the two handlers that drive it: a blocking *)
(* call and a stream of server-sent events (api/routers/agent.py,          *)
(* streaming/sse.py).                                                      *)
(*                                                                         *)
(* A Request is one call.  Calls run in worker threads and interleave      *)
(* between any two statements, graph nodes and frames.                     *)
(***************************************************************************)
EXTENDS Integers, Sequences, FiniteSets

CONSTANTS
    Request,       \* bound: the calls made
    Org,           \* tenants
    Conversation,  \* conversation ids, handed out or made up by a client
    Configured,    \* values of the iteration limit setting
    DefaultLimit,  \* DEFAULT_ITERATION_LIMIT, 10
    MaxLimit,      \* MAX_ITERATION_LIMIT, 100
    NULL           \* None

ASSUME AgentAssumption ==
    /\ DefaultLimit \in 1..MaxLimit /\ MaxLimit \in Nat
    /\ Configured \subseteq Int \cup {NULL} /\ NULL \notin Int
    /\ NULL \notin Org /\ NULL \notin Conversation

\* An observation is a tool's result or a contained failure: no such tool,
\* arguments that do not fit, a ToolError.  Only whether it says anything counts.
Outcomes == {"content", "empty"}
Reasons == {"final-answer", "iteration-limit-reached"}
Answers == {"decided", "observed", "request"}

Job == [kind : {"none", "run", "stream"}, org : Org \cup {NULL},
        conv : Conversation \cup {NULL}]

Message == [conv : Conversation, position : Nat, role : {"user", "assistant"},
            by : Request]

Entry == {"reason", "tool_call", "observe"}

LoopSteps == {"reason", "act", "observe", "finalize", "finalize_limit"}
Steps == {"free", "asking", "ask_insert", "guard", "start", "answering",
          "answer_insert", "respond", "after", "over"} \cup LoopSteps

VARIABLES
    limit,       \* the resolved iteration limit
    strategy,    \* keyless: a fixed choice of tool; otherwise the model's
    owner,       \* the conversations table
    messages,    \* the messages table
    job, pc,     \* what each call is for and what it is about to do
    slot,        \* the position it read for its message
    count,       \* iteration_count
    pending,     \* pending_observation
    observed,    \* some observation has content
    reason,      \* termination_reason
    answer,      \* final_answer
    visits,      \* graph nodes entered
    trace,       \* trace_entries of its run, by ordinal
    frames,      \* the events sent to its client, by sequence
    told,        \* the response of a blocking call
    announced    \* the run outcomes sent to webhooks

store == <<owner, messages>>
loop  == <<count, pending, observed, reason, answer, visits>>
said  == <<frames, told, announced>>
vars  == <<limit, strategy, owner, messages, job, pc, slot, count, pending,
           observed, reason, answer, visits, trace, frames, told, announced>>

TypeOK ==
    /\ limit \in 1..MaxLimit
    /\ strategy \in {"llm", "fallback"}
    /\ owner \in [Conversation -> Org \cup {NULL}]
    /\ messages \subseteq Message
    /\ job \in [Request -> Job]
    /\ pc \in [Request -> Steps]
    /\ slot \in [Request -> Nat]
    /\ count \in [Request -> 0..limit]
    /\ pending \in [Request -> Outcomes \cup {NULL}]
    /\ observed \in [Request -> BOOLEAN]
    /\ reason \in [Request -> Reasons \cup {NULL}]
    /\ answer \in [Request -> Answers \cup {NULL}]
    /\ visits \in [Request -> Nat]
    /\ trace \in [Request -> Seq(Entry)]
    /\ frames \in [Request -> Seq({"step", "tool_call", "completion", "error"})]
    /\ told \in [Request -> {"none", "answered", "blocked", "failed"}]
    /\ announced \subseteq Request

\* A bool, a string or a number outside [1, 100] is rejected for the default.
ResolveIterationLimit(configured) ==
    IF configured \in 1..MaxLimit THEN configured ELSE DefaultLimit

Init ==
    /\ \E c \in Configured : limit = ResolveIterationLimit(c)
    /\ strategy \in {"llm", "fallback"}
    /\ owner = [c \in Conversation |-> NULL] /\ messages = {}
    /\ job = [q \in Request |-> [kind |-> "none", org |-> NULL, conv |-> NULL]]
    /\ pc = [q \in Request |-> "free"]
    /\ slot = [q \in Request |-> 0]
    /\ count = [q \in Request |-> 0]
    /\ pending = [q \in Request |-> NULL]
    /\ observed = [q \in Request |-> FALSE]
    /\ reason = [q \in Request |-> NULL] /\ answer = [q \in Request |-> NULL]
    /\ visits = [q \in Request |-> 0]
    /\ trace = [q \in Request |-> <<>>]
    /\ frames = [q \in Request |-> <<>>]
    /\ told = [q \in Request |-> "none"]
    /\ announced = {}

IsStream(q) == job[q].kind = "stream"

\* From the first frame on, a failure is an event of the stream.
Opened(q) == IsStream(q) /\ pc[q] \in LoopSteps \cup
                 {"answering", "answer_insert", "respond"}

Send(q, f) ==
    frames' = IF IsStream(q) THEN [frames EXCEPT ![q] = Append(@, f)] ELSE frames

\* An exception that nothing contains.
Raise(q) ==
    /\ pc' = [pc EXCEPT ![q] = "over"]
    /\ IF Opened(q) THEN Send(q, "error") /\ UNCHANGED told
       ELSE told' = [told EXCEPT ![q] = "failed"] /\ UNCHANGED frames

Fail(q) ==
    /\ pc[q] \notin {"free", "after", "over"}
    /\ Raise(q)
    /\ UNCHANGED <<limit, strategy, store, job, slot, loop, trace, announced>>

-----------------------------------------------------------------------------
(* The conversation.                                                       *)

\* An id the client names is taken as it is; without one a row is created.
Call(q, kind, o) ==
    /\ pc[q] = "free"
    /\ \E c \in Conversation, fresh \in BOOLEAN :
          /\ fresh => owner[c] = NULL /\ \A r \in Request : job[r].conv # c
          /\ owner' = IF fresh THEN [owner EXCEPT ![c] = o] ELSE owner
          /\ job' = [job EXCEPT ![q] = [kind |-> kind, org |-> o, conv |-> c]]
    /\ pc' = [pc EXCEPT ![q] = "asking"]
    /\ UNCHANGED <<limit, strategy, messages, slot, loop, trace, said>>

History(o, c) == {m \in messages : m.conv = c /\ owner[c] = o}
Taken(c, p) == \E m \in messages : m.conv = c /\ m.position = p
NextPosition(o, c) ==
    CHOOSE p \in 0..Cardinality(messages) :
        /\ \A m \in History(o, c) : m.position < p
        /\ p = 0 \/ \E m \in History(o, c) : m.position = p - 1

ReadPositionInTurn(q) ==   \* Bug: the conversation is one call's until it ends
    /\ pc[q] \in {"asking", "answering"}
    /\ \A r \in Request \ {q} : job[r].conv = job[q].conv => pc[r] \in {"after", "over"}
    /\ slot' = [slot EXCEPT ![q] = NextPosition(job[q].org, job[q].conv)]
    /\ pc' = [pc EXCEPT ![q] = IF pc[q] = "asking" THEN "ask_insert" ELSE "answer_insert"]
    /\ UNCHANGED <<limit, strategy, store, job, loop, trace, said>>
\* The first half of append: the row of an unknown id is inserted, unless
\* another transaction is inserting it (it is waited for), and max + 1 read.
ReadPosition(q) ==
    /\ pc[q] \in {"asking", "answering"}
    /\ owner[job[q].conv] = NULL =>
          \A r \in Request : ~(/\ pc[r] \in {"ask_insert", "answer_insert"}
                               /\ job[r].conv = job[q].conv)
    /\ slot' = [slot EXCEPT ![q] = NextPosition(job[q].org, job[q].conv)]
    /\ pc' = [pc EXCEPT ![q] = IF pc[q] = "asking" THEN "ask_insert" ELSE "answer_insert"]
    /\ UNCHANGED <<limit, strategy, store, job, loop, trace, said>>

\* What follows a stored message: the context is read and the guardrail is
\* next, in a stream the run; or the answer is delivered.
AfterAppend(q) ==
    IF pc[q] = "answer_insert" THEN "respond"
    ELSE IF IsStream(q) THEN "start" ELSE "guard"

InsertOverwrites(q) ==   \* Bug: no UNIQUE (conversation_id, position)
    /\ pc[q] \in {"ask_insert", "answer_insert"}
    /\ LET c == job[q].conv
           o == IF owner[c] = NULL THEN job[q].org ELSE owner[c]
       IN /\ owner' = [owner EXCEPT ![c] = o]
          /\ messages' = IF o = job[q].org
                         THEN messages \cup {[conv |-> c, position |-> slot[q], by |-> q,
                               role |-> IF pc[q] = "ask_insert" THEN "user" ELSE "assistant"]}
                         ELSE messages
          /\ pc' = [pc EXCEPT ![q] = AfterAppend(q)]
    /\ UNCHANGED <<limit, strategy, job, slot, loop, trace, said>>
\* The second half.  A position taken meanwhile violates the unique key; in
\* another organisation's conversation nothing is stored.
InsertMessage(q) ==
    /\ pc[q] \in {"ask_insert", "answer_insert"}
    /\ LET c == job[q].conv
           o == IF owner[c] = NULL THEN job[q].org ELSE owner[c]
           m == [conv |-> c, position |-> slot[q], by |-> q,
                 role |-> IF pc[q] = "ask_insert" THEN "user" ELSE "assistant"]
       IN IF o = job[q].org /\ Taken(c, slot[q])
          THEN Raise(q) /\ UNCHANGED store
          ELSE /\ owner' = [owner EXCEPT ![c] = o]
               /\ messages' = IF o = job[q].org THEN messages \cup {m} ELSE messages
               /\ pc' = [pc EXCEPT ![q] = AfterAppend(q)]
               /\ UNCHANGED <<frames, told>>
    /\ UNCHANGED <<limit, strategy, job, slot, loop, trace, announced>>

\* The input guardrail of the blocking call: 400 and no run, or the run.
ApplyInputGuardrail(q) ==
    /\ pc[q] = "guard"
    /\ \/ /\ pc' = [pc EXCEPT ![q] = "over"]
          /\ told' = [told EXCEPT ![q] = "blocked"]
       \/ /\ pc' = [pc EXCEPT ![q] = "reason"]
          /\ UNCHANGED told
    /\ UNCHANGED <<limit, strategy, store, job, slot, loop, trace, frames, announced>>

\* A stream opens with a step before the graph starts.
StartStream(q) ==
    /\ pc[q] = "start"
    /\ pc' = [pc EXCEPT ![q] = "reason"]
    /\ Send(q, "step")
    /\ UNCHANGED <<limit, strategy, store, job, slot, loop, trace, told, announced>>

-----------------------------------------------------------------------------
(* The loop.                                                               *)

\* One run has one writer, so the ordinals of its entries do not race.
Traced(q, step) == trace' = [trace EXCEPT ![q] = Append(@, step)]

Enter(q) == visits' = [visits EXCEPT ![q] = @ + 1]

\* The keyless strategy searches once, then answers; a model's text is read as
\* a tool call or, whatever else it is, as an answer.
ParsedDecisions   == {"tool", "final"}
FixedDecisions(q) == IF count[q] = 0 THEN {"tool"} ELSE {"final"}
Decisions(q) == IF strategy = "llm" THEN ParsedDecisions ELSE FixedDecisions(q)

Reason(q) ==
    /\ pc[q] = "reason"
    /\ Traced(q, "reason") /\ Enter(q) /\ Send(q, "step")
    /\ \E d \in Decisions(q) :
          IF d = "final"
          THEN /\ answer' = [answer EXCEPT ![q] = "decided"]
               /\ reason' = [reason EXCEPT ![q] = "final-answer"]
               /\ pc' = [pc EXCEPT ![q] = "finalize"]
          ELSE pc' = [pc EXCEPT ![q] = "act"] /\ UNCHANGED <<answer, reason>>
    /\ UNCHANGED <<limit, strategy, store, job, slot, count, pending, observed,
                   told, announced>>

\* Dispatch: an unknown tool, arguments that do not fit and a tool's own error
\* are outcomes like its result.  Anything else a tool raises ends the run.
Act(q) ==
    /\ pc[q] = "act"
    /\ \E o \in Outcomes : pending' = [pending EXCEPT ![q] = o]
    /\ Traced(q, "tool_call") /\ Enter(q) /\ Send(q, "tool_call")
    /\ pc' = [pc EXCEPT ![q] = "observe"]
    /\ UNCHANGED <<limit, strategy, store, job, slot, count, observed, reason,
                   answer, told, announced>>

RouteBeyondLimit(n) == IF n > limit THEN "finalize_limit" ELSE "reason"   \* Bug: >
RouteAfterObserve(n) == IF n >= limit THEN "finalize_limit" ELSE "reason"

Observe(q) ==
    /\ pc[q] = "observe"
    /\ count' = [count EXCEPT ![q] = @ + 1]
    /\ observed' = [observed EXCEPT ![q] = @ \/ pending[q] = "content"]
    /\ pending' = [pending EXCEPT ![q] = NULL]
    /\ Traced(q, "observe") /\ Enter(q) /\ Send(q, "step")
    /\ pc' = [pc EXCEPT ![q] = RouteAfterObserve(count[q] + 1)]
    /\ UNCHANGED <<limit, strategy, store, job, slot, reason, answer, told, announced>>

\* What was decided, or else seen last, or else the request itself.
MostRecentAnswer(q) ==
    IF answer[q] # NULL THEN answer[q]
    ELSE IF observed[q] THEN "observed" ELSE "request"

FinalizeAnswers(q) ==   \* Bug: the answer is delivered without being stored
    /\ pc[q] \in {"finalize", "finalize_limit"}
    /\ answer' = [answer EXCEPT ![q] = MostRecentAnswer(q)]
    /\ reason' = IF pc[q] = "finalize" THEN reason
                 ELSE [reason EXCEPT ![q] = "iteration-limit-reached"]
    /\ Enter(q)
    /\ pc' = [pc EXCEPT ![q] = "respond"]
    /\ UNCHANGED <<limit, strategy, store, job, slot, count, pending, observed,
                   trace, said>>
Finalize(q) ==
    /\ pc[q] \in {"finalize", "finalize_limit"}
    /\ IF pc[q] = "finalize_limit"
       THEN reason' = [reason EXCEPT ![q] = "iteration-limit-reached"]
       ELSE UNCHANGED reason
    /\ answer' = [answer EXCEPT ![q] = MostRecentAnswer(q)]
    /\ Enter(q)
    /\ pc' = [pc EXCEPT ![q] = "answering"]
    /\ UNCHANGED <<limit, strategy, store, job, slot, count, pending, observed,
                   trace, said>>

-----------------------------------------------------------------------------
(* The answer.                                                             *)

Respond(q) ==
    /\ pc[q] = "respond"
    /\ Send(q, "completion")
    /\ told' = IF IsStream(q) THEN told ELSE [told EXCEPT ![q] = "answered"]
    /\ pc' = [pc EXCEPT ![q] = "after"]
    /\ UNCHANGED <<limit, strategy, store, job, slot, loop, trace, announced>>

\* Trace export and webhook, once the answer is out: a background task, or the
\* hook of a stream whose client asks for the frame after the last.
Complete(q) ==
    /\ pc[q] = "after"
    /\ announced' = announced \cup {q}
    /\ pc' = [pc EXCEPT ![q] = "over"]
    /\ UNCHANGED <<limit, strategy, store, job, slot, loop, trace, frames, told>>

CompleteFailsLoudly(q) ==   \* Bug: the hook's failure reaches the stream
    /\ pc[q] = "after"
    /\ Send(q, "error")
    /\ pc' = [pc EXCEPT ![q] = "over"]
    /\ UNCHANGED <<limit, strategy, store, job, slot, loop, trace, told, announced>>
\* It fails: logged, nothing more.
CompleteFails(q) ==
    /\ pc[q] = "after"
    /\ pc' = [pc EXCEPT ![q] = "over"]
    /\ UNCHANGED <<limit, strategy, store, job, slot, loop, trace, said>>

\* The client of a stream closes the connection between two frames.
Leave(q) ==
    /\ IsStream(q) /\ frames[q] # <<>>
    /\ pc[q] \in LoopSteps \cup {"after"}
    /\ pc' = [pc EXCEPT ![q] = "over"]
    /\ UNCHANGED <<limit, strategy, store, job, slot, loop, trace, said>>

LoopStep(q) == Reason(q) \/ Act(q) \/ Observe(q) \/ Finalize(q)

Works(q) ==
    \/ ReadPosition(q) \/ InsertMessage(q) \/ ApplyInputGuardrail(q)
    \/ StartStream(q) \/ LoopStep(q) \/ Respond(q)

Next ==
    \E q \in Request :
        \/ \E kind \in {"run", "stream"}, o \in Org : Call(q, kind, o)
        \/ Works(q) \/ Fail(q)
        \/ Complete(q) \/ CompleteFails(q) \/ Leave(q)

\* A thread that has started is scheduled again, and model, tool and store
\* return or raise within their timeouts.
Fairness == \A q \in Request : WF_vars(Works(q))

Spec == Init /\ [][Next]_vars /\ Fairness

-----------------------------------------------------------------------------
(* Properties.                                                             *)

\* However the two halves of appends interleave, what they leave in the tables
\* is what whole appends would have, one after another: each message behind all
\* that were there, none lost, changed or moved, and no conversation another
\* organisation's (conversation/store.py append, whose read of the last position
\* locks nothing; Conversation_Store promises the same of both stores).
Plain == INSTANCE ConversationStore WITH
    known <- {key \in Org \X Conversation : owner[key[2]] = key[1]},
    kept  <- [key \in Org \X Conversation |->
                 {m \in messages : m.conv = key[2] /\ owner[key[2]] = key[1]}]
KeepsConversations == Plain!Spec

\* Messages of a conversation are numbered 0, 1, 2, ... without a gap or a
\* double, whatever calls extend it at once (conversation/store.py append: a
\* read of the last position and an insert with nothing locked between).
PositionsAgree ==
    \A c \in Conversation :
        LET own == {m \in messages : m.conv = c}
        IN {m.position : m \in own} = 0..(Cardinality(own) - 1)

\* A stream ends in at most one terminal event and sends nothing after it, and
\* a call that answered or failed never does both: not when storing the answer
\* fails after the run ended, nor when the hook after the last event does
\* (streaming/sse.py run_stream, iter_sse_frames).
OneTerminalFrame ==
    \A q \in Request :
        /\ \A i \in DOMAIN frames[q] :
              frames[q][i] \in {"completion", "error"} => i = Len(frames[q])
        /\ frames[q] # <<>> => told[q] = "none"

\* Who got an answer finds the question and, later, the answer in the
\* conversation, unless the id it named belongs to another organisation; and
\* only such a run is announced (routers/agent.py, sse.py _persist_final_answer).
Answered(q) == told[q] = "answered" \/ \E i \in DOMAIN frames[q] : frames[q][i] = "completion"
AnswerIsStored ==
    \A q \in Request :
        /\ q \in announced => Answered(q)
        /\ Answered(q) =>
              \/ owner[job[q].conv] \notin {job[q].org, NULL}
              \/ \E asked, replied \in messages :
                    /\ asked.by = q /\ asked.role = "user"
                    /\ replied.by = q /\ replied.role = "assistant"
                    /\ {asked.conv, replied.conv} = {job[q].conv}
                    /\ asked.position < replied.position

\* The trace tells why a run ended: as many calls as observations as counted
\* iterations, never more than the limit; a run cut off by the limit ends on
\* the observation that reached it and any other on a decision.  The nodes
\* entered stay below the recursion limit, which would end the run with an
\* error (orchestrator.py run: three a cycle and ten).
Traces(q, step) == Cardinality({i \in DOMAIN trace[q] : trace[q][i] = step})
OutcomeMatchesTrace ==
    \A q \in Request :
        /\ visits[q] < 3 * limit + 10
        /\ reason[q] # NULL =>
              /\ Traces(q, "tool_call") = count[q] /\ Traces(q, "observe") = count[q]
              /\ trace[q][Len(trace[q])] =
                    IF reason[q] = "final-answer" THEN "reason" ELSE "observe"
              /\ reason[q] = "iteration-limit-reached" => count[q] = limit
              /\ reason[q] = "final-answer" => count[q] < limit

\* A call that was let in ends: the loop is bounded and an append waits for
\* another only as long as that one commits or fails.
RunEnds == \A q \in Request : pc[q] = "asking" ~> pc[q] \in {"after", "over"}
=============================================================================
