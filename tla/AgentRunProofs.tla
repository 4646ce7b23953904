--------------------------- MODULE AgentRunProofs ---------------------------
(***************************************************************************)
(* What holds of AgentRun for any number of calls, tenants, conversations  *)
(* and any limit of the loop.                                              *)
(***************************************************************************)
EXTENDS AgentRun, FiniteSetTheorems, TLAPS

-----------------------------------------------------------------------------
(* The shape of the state, and the numbering of messages.                  *)

Inserting == {"ask_insert", "answer_insert"}
Own(c)    == {m \in messages : m.conv = c}

Frame == {"step", "tool_call", "completion", "error"}

(***************************************************************************)
(* TypeOK without the bound of the count, and: a call that was made is for *)
(* a tenant and a conversation.                                            *)
(***************************************************************************)
Shape ==
    /\ limit \in 1..MaxLimit /\ strategy \in {"llm", "fallback"}
    /\ owner \in [Conversation -> Org \cup {NULL}]
    /\ messages \subseteq Message /\ IsFiniteSet(messages)
    /\ job \in [Request -> Job]
    /\ pc \in [Request -> Steps]
    /\ slot \in [Request -> Nat]
    /\ count \in [Request -> Nat]
    /\ pending \in [Request -> Outcomes \cup {NULL}]
    /\ observed \in [Request -> BOOLEAN]
    /\ reason \in [Request -> Reasons \cup {NULL}]
    /\ answer \in [Request -> Answers \cup {NULL}]
    /\ visits \in [Request -> Nat]
    /\ trace \in [Request -> Seq(Entry)]
    /\ frames \in [Request -> Seq(Frame)]
    /\ told \in [Request -> {"none", "answered", "blocked", "failed"}]
    /\ announced \subseteq Request
    /\ \A q \in Request : pc[q] # "free" =>
          job[q] \in [kind : {"run", "stream"}, org : Org, conv : Conversation]

(***************************************************************************)
(* Messages are numbered without gap or double, and a position that was    *)
(* read was at most the next one then, which it still is, as there are     *)
(* only ever more messages.                                                *)
(***************************************************************************)
Numbered ==
    /\ PositionsAgree
    /\ \A c \in Conversation : owner[c] = NULL => Own(c) = {}
    /\ \A q \in Request : pc[q] \in Inserting => slot[q] \in 0..Cardinality(Own(job[q].conv))

LEMMA OwnIsFinite ==
    ASSUME Shape, NEW c
    PROVE  /\ IsFiniteSet(Own(c)) /\ Cardinality(Own(c)) \in Nat
           /\ Cardinality(messages) \in Nat /\ Cardinality(Own(c)) <= Cardinality(messages)
<1>1. IsFiniteSet(messages) /\ Own(c) \subseteq messages
  BY DEF Shape, Own
<1> QED
  BY <1>1, FS_Subset, FS_CardinalityType

\* Of one's own conversation it is the number of messages, of another's zero.
LEMMA NextPositionCounts ==
    ASSUME Shape, Numbered, NEW o, NEW c \in Conversation
    PROVE  NextPosition(o, c) = IF owner[c] = o THEN Cardinality(Own(c)) ELSE 0
<1> DEFINE n == IF owner[c] = o THEN Cardinality(Own(c)) ELSE 0
           Next1(p) == /\ \A m \in History(o, c) : m.position < p
                       /\ p = 0 \/ \E m \in History(o, c) : m.position = p - 1
<1>1. n \in 0..Cardinality(messages)
  BY OwnIsFinite
<1>2. {m.position : m \in History(o, c)} = 0..(n - 1)
  <2>1. CASE owner[c] = o
    <3>1. History(o, c) = Own(c)
      BY <2>1 DEF History, Own
    <3> QED
      BY <2>1, <3>1 DEF Numbered, PositionsAgree, Own
  <2>2. CASE owner[c] # o
    <3>1. History(o, c) = {} /\ 0..(0 - 1) = {}
      BY <2>2 DEF History
    <3> QED
      BY <2>2, <3>1
  <2> QED
    BY <2>1, <2>2
<1> HIDE DEF n
<1>3. \A m \in History(o, c) : m.position \in 0..(n - 1)
  BY <1>2
<1>4. \A k \in 0..(n - 1) : \E m \in History(o, c) : m.position = k
  BY <1>2
<1>5. n \in Nat
  BY <1>1, OwnIsFinite
<1>6. Next1(n)
  BY <1>3, <1>4, <1>5
<1>7. ASSUME NEW p \in Nat, Next1(p) PROVE p = n
  <2>1. CASE n < p
    BY <1>3, <1>5, <1>7, <2>1
  <2>2. CASE p < n
    <3>1. PICK m \in History(o, c) : m.position = n - 1
      BY <1>4, <1>5, <2>2
    <3> QED
      BY <1>5, <1>7, <2>2, <3>1
  <2> QED
    BY <1>5, <2>1, <2>2
<1>8. \A p \in 0..Cardinality(messages) : Next1(p) <=> p = n
  BY <1>6, <1>7, OwnIsFinite
<1>9. NextPosition(o, c) = CHOOSE p \in 0..Cardinality(messages) : Next1(p)
  BY DEF NextPosition
<1> HIDE DEF Next1
<1>10. NextPosition(o, c) = n
  BY <1>1, <1>8, <1>9
<1> QED
  BY <1>10 DEF n

-----------------------------------------------------------------------------
(* One call steps, the others stay where they are.                         *)

Mine(j) == <<job[j], pc[j], slot[j], count[j], reason[j], visits[j], trace[j], frames[j], told[j]>>

Apart(q) ==
    /\ limit' = limit
    /\ \A j \in Request \ {q} : Mine(j)' = Mine(j) /\ (j \in announced' <=> j \in announced)

\* A call that was made keeps its tenant and conversation.
LEMMA ShapeGoesOn ==
    ASSUME Shape, NEW q \in Request, NEW s \in Steps, pc[q] # "free",
           pc' = [pc EXCEPT ![q] = s], UNCHANGED <<limit, strategy, job>>
    PROVE  /\ limit' \in 1..MaxLimit /\ strategy' \in {"llm", "fallback"}
           /\ job' \in [Request -> Job] /\ pc' \in [Request -> Steps]
           /\ pc'[q] = s /\ \A j \in Request \ {q} : pc'[j] = pc[j]
           /\ \A j \in Request : pc'[j] # "free" =>
                 job'[j] \in [kind : {"run", "stream"}, org : Org, conv : Conversation]
  BY DEF Shape

LEMMA SendKeepsShape ==
    ASSUME Shape, NEW q \in Request, NEW f \in Frame, Send(q, f)
    PROVE  /\ frames' \in [Request -> Seq(Frame)]
           /\ frames'[q] = IF IsStream(q) THEN Append(frames[q], f) ELSE frames[q]
           /\ \A j \in Request \ {q} : frames'[j] = frames[j]
  BY DEF Send, Shape

LEMMA RaiseKeepsShape ==
    ASSUME Shape, NEW q \in Request, pc[q] # "free", Raise(q),
           UNCHANGED <<limit, strategy, store, job, slot, loop, trace, announced>>
    PROVE  Shape' /\ Apart(q)
<1>1. "over" \in Steps /\ "error" \in Frame
  BY DEF Steps, Frame
<1>2. /\ frames' \in [Request -> Seq(Frame)]
      /\ told' \in [Request -> {"none", "answered", "blocked", "failed"}]
      /\ \A j \in Request \ {q} : frames'[j] = frames[j] /\ told'[j] = told[j]
  <2>1. CASE Opened(q)
    BY <1>1, <2>1, SendKeepsShape DEF Raise, Shape
  <2>2. CASE ~ Opened(q)
    BY <2>2 DEF Raise, Shape
  <2> QED
    BY <2>1, <2>2
<1>3. /\ limit' \in 1..MaxLimit /\ strategy' \in {"llm", "fallback"}
      /\ job' \in [Request -> Job] /\ pc' \in [Request -> Steps]
      /\ \A j \in Request \ {q} : pc'[j] = pc[j]
      /\ \A j \in Request : pc'[j] # "free" =>
            job'[j] \in [kind : {"run", "stream"}, org : Org, conv : Conversation]
  BY <1>1, ShapeGoesOn DEF Raise
<1>4. Shape'
  BY <1>2, <1>3 DEF Shape, store, loop
<1>5. Apart(q)
  BY <1>2, <1>3 DEF Apart, Mine, store, loop
<1> QED
  BY <1>4, <1>5

LEMMA ShapeInit == Init => Shape
<1> SUFFICES ASSUME Init PROVE Shape
  OBVIOUS
<1>1. limit \in 1..MaxLimit
  <2>1. PICK c \in Configured : limit = ResolveIterationLimit(c)
    BY DEF Init
  <2> QED
    BY <2>1, AgentAssumption DEF ResolveIterationLimit
<1>2. IsFiniteSet({})
  BY FS_EmptySet
<1>3. job \in [Request -> Job] /\ pc \in [Request -> Steps]
  BY DEF Init, Job, Steps
<1>4. <<>> \in Seq(Entry) /\ <<>> \in Seq(Frame)
  OBVIOUS
<1>5. trace \in [Request -> Seq(Entry)] /\ frames \in [Request -> Seq(Frame)]
  BY <1>4 DEF Init
<1> QED
  BY <1>1, <1>2, <1>3, <1>5 DEF Init, Shape

LEMMA NumberedInit == Init => Numbered
<1> SUFFICES ASSUME Init PROVE Numbered
  OBVIOUS
<1>1. ASSUME NEW c \in Conversation
      PROVE  /\ Own(c) = {} /\ {m.position : m \in Own(c)} = 0..(Cardinality(Own(c)) - 1)
  <2>1. Own(c) = {} /\ Cardinality({}) = 0
    BY FS_EmptySet DEF Init, Own
  <2> QED
    BY <2>1
<1> QED
  BY <1>1 DEF Init, Numbered, PositionsAgree, Own, Inserting

\* Steps of the loop: an entry more in the trace.
LEMMA LoopStepShape ==
    ASSUME Shape, NEW q \in Request, LoopStep(q)
    PROVE  Shape' /\ Apart(q)
<1> USE DEF Frame
<1>0. \A step \in {"reason", "tool_call", "observe"} :
         Traced(q, step) =>
            /\ trace' \in [Request -> Seq(Entry)]
            /\ \A j \in Request \ {q} : trace'[j] = trace[j]
  <2> SUFFICES ASSUME NEW step \in {"reason", "tool_call", "observe"}, Traced(q, step)
               PROVE  /\ trace' \in [Request -> Seq(Entry)]
                      /\ \A j \in Request \ {q} : trace'[j] = trace[j]
    OBVIOUS
  <2>1. step \in Entry
    BY DEF Entry
  <2> QED
    BY <2>1 DEF Traced, Shape
<1>1. Enter(q) => visits' \in [Request -> Nat] /\ \A j \in Request \ {q} : visits'[j] = visits[j]
  <2>1. visits \in [Request -> Nat]
    BY DEF Shape
  <2>2. \A j \in Request : visits[j] + 1 \in Nat
    BY <2>1
  <2> QED
    BY <2>1, <2>2 DEF Enter
<1>2. CASE Reason(q)
  <2>1. PICK s \in Steps : pc' = [pc EXCEPT ![q] = s]
    BY <1>2 DEF Reason, Steps, LoopSteps
  <2>2. /\ answer' \in [Request -> Answers \cup {NULL}]
        /\ reason' \in [Request -> Reasons \cup {NULL}]
        /\ \A j \in Request \ {q} : reason'[j] = reason[j]
    BY <1>2 DEF Reason, Shape, Answers, Reasons
  <2>3. /\ limit' \in 1..MaxLimit /\ strategy' \in {"llm", "fallback"}
        /\ job' \in [Request -> Job] /\ pc' \in [Request -> Steps]
        /\ \A j \in Request \ {q} : pc'[j] = pc[j]
        /\ \A j \in Request : pc'[j] # "free" =>
              job'[j] \in [kind : {"run", "stream"}, org : Org, conv : Conversation]
    BY <1>2, <2>1, ShapeGoesOn DEF Reason
  <2>4. frames' \in [Request -> Seq(Frame)] /\ \A j \in Request \ {q} : frames'[j] = frames[j]
    BY <1>2, SendKeepsShape DEF Reason
  <2>5. Shape'
    BY <1>0, <1>1, <1>2, <2>2, <2>3, <2>4 DEF Reason, Shape, store
  <2>6. Apart(q)
    BY <1>0, <1>1, <1>2, <2>2, <2>3, <2>4 DEF Reason, Apart, Mine, store
  <2> QED
    BY <2>5, <2>6
<1>3. CASE Act(q)
  <2>1. pc' = [pc EXCEPT ![q] = "observe"] /\ "observe" \in Steps
    BY <1>3 DEF Act, Steps, LoopSteps
  <2>2. pending' \in [Request -> Outcomes \cup {NULL}]
    BY <1>3 DEF Act, Shape
  <2>3. /\ limit' \in 1..MaxLimit /\ strategy' \in {"llm", "fallback"}
        /\ job' \in [Request -> Job] /\ pc' \in [Request -> Steps]
        /\ \A j \in Request \ {q} : pc'[j] = pc[j]
        /\ \A j \in Request : pc'[j] # "free" =>
              job'[j] \in [kind : {"run", "stream"}, org : Org, conv : Conversation]
    BY <1>3, <2>1, ShapeGoesOn DEF Act
  <2>4. frames' \in [Request -> Seq(Frame)] /\ \A j \in Request \ {q} : frames'[j] = frames[j]
    BY <1>3, SendKeepsShape DEF Act
  <2>5. Shape'
    BY <1>0, <1>1, <1>3, <2>2, <2>3, <2>4 DEF Act, Shape, store
  <2>6. Apart(q)
    BY <1>0, <1>1, <1>3, <2>2, <2>3, <2>4 DEF Act, Apart, Mine, store
  <2> QED
    BY <2>5, <2>6
<1>4. CASE Observe(q)
  <2>1. PICK s \in Steps : pc' = [pc EXCEPT ![q] = s]
    BY <1>4 DEF Observe, RouteAfterObserve, Steps, LoopSteps
  <2>2. /\ pending' \in [Request -> Outcomes \cup {NULL}]
        /\ count' \in [Request -> Nat] /\ \A j \in Request \ {q} : count'[j] = count[j]
    BY <1>4 DEF Observe, Shape
  <2>3. observed' \in [Request -> BOOLEAN]
    BY <1>4 DEF Observe, Shape
  <2>4. /\ limit' \in 1..MaxLimit /\ strategy' \in {"llm", "fallback"}
        /\ job' \in [Request -> Job] /\ pc' \in [Request -> Steps]
        /\ \A j \in Request \ {q} : pc'[j] = pc[j]
        /\ \A j \in Request : pc'[j] # "free" =>
              job'[j] \in [kind : {"run", "stream"}, org : Org, conv : Conversation]
    BY <1>4, <2>1, ShapeGoesOn DEF Observe
  <2>5. frames' \in [Request -> Seq(Frame)] /\ \A j \in Request \ {q} : frames'[j] = frames[j]
    BY <1>4, SendKeepsShape DEF Observe
  <2>6. Shape'
    BY <1>0, <1>1, <1>4, <2>2, <2>3, <2>4, <2>5 DEF Observe, Shape, store
  <2>7. Apart(q)
    BY <1>0, <1>1, <1>4, <2>2, <2>4, <2>5 DEF Observe, Apart, Mine, store
  <2> QED
    BY <2>6, <2>7
<1>5. CASE Finalize(q)
  <2>1. pc' = [pc EXCEPT ![q] = "answering"] /\ "answering" \in Steps
    BY <1>5 DEF Finalize, Steps
  <2>2. /\ reason' \in [Request -> Reasons \cup {NULL}]
        /\ \A j \in Request \ {q} : reason'[j] = reason[j]
    BY <1>5 DEF Finalize, Shape, Reasons
  <2>3. MostRecentAnswer(q) \in Answers
    BY DEF MostRecentAnswer, Shape, Answers
  <2>4. answer' \in [Request -> Answers \cup {NULL}]
    BY <1>5, <2>3 DEF Finalize, Shape
  <2>5. /\ limit' \in 1..MaxLimit /\ strategy' \in {"llm", "fallback"}
        /\ job' \in [Request -> Job] /\ pc' \in [Request -> Steps]
        /\ \A j \in Request \ {q} : pc'[j] = pc[j]
        /\ \A j \in Request : pc'[j] # "free" =>
              job'[j] \in [kind : {"run", "stream"}, org : Org, conv : Conversation]
    BY <1>5, <2>1, ShapeGoesOn DEF Finalize
  <2>6. Shape'
    BY <1>1, <1>5, <2>2, <2>4, <2>5 DEF Finalize, Shape, store, said
  <2>7. Apart(q)
    BY <1>1, <1>5, <2>2, <2>5 DEF Finalize, Apart, Mine, store, said
  <2> QED
    BY <2>6, <2>7
<1> QED
  BY <1>2, <1>3, <1>4, <1>5 DEF LoopStep

\* The other steps, but for those of the conversation.
LEMMA OtherStepShape ==
    ASSUME Shape, NEW q \in Request,
           \/ ApplyInputGuardrail(q) \/ StartStream(q) \/ Respond(q)
           \/ Complete(q) \/ CompleteFails(q) \/ Leave(q) \/ Fail(q)
    PROVE  Shape' /\ Apart(q)
<1> USE DEF Frame
<1>1. CASE Fail(q)
  BY <1>1, RaiseKeepsShape DEF Fail
<1>2. ASSUME NEW s \in Steps, pc[q] # "free", pc' = [pc EXCEPT ![q] = s],
             UNCHANGED <<limit, strategy, store, job, slot, loop, trace>>,
             frames' \in [Request -> Seq(Frame)], \A j \in Request \ {q} : frames'[j] = frames[j],
             told' \in [Request -> {"none", "answered", "blocked", "failed"}],
             \A j \in Request \ {q} : told'[j] = told[j],
             announced' \in {announced, announced \cup {q}}
      PROVE  Shape' /\ Apart(q)
  <2>1. /\ limit' \in 1..MaxLimit /\ strategy' \in {"llm", "fallback"}
        /\ job' \in [Request -> Job] /\ pc' \in [Request -> Steps]
        /\ \A j \in Request \ {q} : pc'[j] = pc[j]
        /\ \A j \in Request : pc'[j] # "free" =>
              job'[j] \in [kind : {"run", "stream"}, org : Org, conv : Conversation]
    BY <1>2, ShapeGoesOn
  <2>2. Shape'
    BY <1>2, <2>1 DEF Shape, store, loop
  <2>3. Apart(q)
    BY <1>2, <2>1 DEF Apart, Mine, store, loop
  <2> QED
    BY <2>2, <2>3
<1>3. CASE ApplyInputGuardrail(q)
  <2>1. PICK s \in Steps : pc' = [pc EXCEPT ![q] = s]
    BY <1>3 DEF ApplyInputGuardrail, Steps, LoopSteps
  <2>2. /\ told' \in [Request -> {"none", "answered", "blocked", "failed"}]
        /\ \A j \in Request \ {q} : told'[j] = told[j]
    BY <1>3 DEF ApplyInputGuardrail, Shape
  <2> QED
    BY <1>2, <1>3, <2>1, <2>2 DEF ApplyInputGuardrail, Shape
<1>4. CASE StartStream(q)
  <2>1. frames' \in [Request -> Seq(Frame)] /\ \A j \in Request \ {q} : frames'[j] = frames[j]
    BY <1>4, SendKeepsShape DEF StartStream
  <2>2. "reason" \in Steps
    BY DEF Steps, LoopSteps
  <2> QED
    BY <1>2, <1>4, <2>1, <2>2 DEF StartStream, Shape
<1>5. CASE Respond(q)
  <2>1. frames' \in [Request -> Seq(Frame)] /\ \A j \in Request \ {q} : frames'[j] = frames[j]
    BY <1>5, SendKeepsShape DEF Respond
  <2>2. /\ told' \in [Request -> {"none", "answered", "blocked", "failed"}]
        /\ \A j \in Request \ {q} : told'[j] = told[j]
    BY <1>5 DEF Respond, Shape
  <2>3. "after" \in Steps
    BY DEF Steps
  <2> QED
    BY <1>2, <1>5, <2>1, <2>2, <2>3 DEF Respond
<1>6. CASE Complete(q) \/ CompleteFails(q) \/ Leave(q)
  <2>1. frames' = frames /\ told' = told /\ announced' \in {announced, announced \cup {q}}
    BY <1>6 DEF Complete, CompleteFails, Leave, said
  <2>2. pc[q] # "free" /\ pc' = [pc EXCEPT ![q] = "over"] /\ "over" \in Steps
    BY <1>6 DEF Complete, CompleteFails, Leave, LoopSteps, Steps
  <2>3. UNCHANGED <<limit, strategy, store, job, slot, loop, trace>>
    BY <1>6 DEF Complete, CompleteFails, Leave
  <2> QED
    BY <1>2, <2>1, <2>2, <2>3 DEF Shape
<1> QED
  BY <1>1, <1>3, <1>4, <1>5, <1>6

LEMMA CallShape ==
    ASSUME Shape, NEW q \in Request, NEW kind \in {"run", "stream"}, NEW o \in Org,
           Call(q, kind, o)
    PROVE  Shape' /\ Apart(q)
<1>1. PICK c \in Conversation, fresh \in BOOLEAN :
         /\ owner' = IF fresh THEN [owner EXCEPT ![c] = o] ELSE owner
         /\ job' = [job EXCEPT ![q] = [kind |-> kind, org |-> o, conv |-> c]]
  BY DEF Call
<1>2. owner' \in [Conversation -> Org \cup {NULL}]
  BY <1>1 DEF Shape
<1>3. /\ job' \in [Request -> Job]
      /\ job'[q] \in [kind : {"run", "stream"}, org : Org, conv : Conversation]
  BY <1>1 DEF Shape, Job
<1>4. pc' \in [Request -> Steps]
  BY DEF Call, Shape, Steps
<1>5. \A j \in Request \ {q} : job'[j] = job[j] /\ pc'[j] = pc[j]
  BY <1>1 DEF Call, Shape
<1>6. \A j \in Request : pc'[j] # "free" =>
         job'[j] \in [kind : {"run", "stream"}, org : Org, conv : Conversation]
  BY <1>3, <1>5 DEF Shape
<1>7. Shape'
  BY <1>2, <1>3, <1>4, <1>6 DEF Call, Shape, loop, said
<1>8. Apart(q)
  BY <1>5 DEF Call, Apart, Mine, loop, said
<1> QED
  BY <1>7, <1>8

LEMMA ReadPositionShape ==
    ASSUME Shape, Numbered, NEW q \in Request, ReadPosition(q)
    PROVE  Shape' /\ Apart(q)
<1>1. PICK s \in Steps : pc' = [pc EXCEPT ![q] = s]
  BY DEF ReadPosition, Steps
<1>2. NextPosition(job[q].org, job[q].conv) \in Nat
  <2>1. job[q].conv \in Conversation
    BY DEF ReadPosition, Shape
  <2> QED
    BY <2>1, NextPositionCounts, OwnIsFinite
<1>3. slot' \in [Request -> Nat] /\ \A j \in Request \ {q} : slot'[j] = slot[j]
  BY <1>2 DEF ReadPosition, Shape
<1>4. /\ limit' \in 1..MaxLimit /\ strategy' \in {"llm", "fallback"}
      /\ job' \in [Request -> Job] /\ pc' \in [Request -> Steps]
      /\ \A j \in Request \ {q} : pc'[j] = pc[j]
      /\ \A j \in Request : pc'[j] # "free" =>
            job'[j] \in [kind : {"run", "stream"}, org : Org, conv : Conversation]
  BY <1>1, ShapeGoesOn DEF ReadPosition
<1>5. Shape'
  BY <1>3, <1>4 DEF ReadPosition, Shape, store, loop, said
<1>6. Apart(q)
  BY <1>3, <1>4 DEF ReadPosition, Apart, Mine, store, loop, said
<1> QED
  BY <1>5, <1>6

\* What a call writes into its conversation, and for whom that is.
Owner(q) == IF owner[job[q].conv] = NULL THEN job[q].org ELSE owner[job[q].conv]
Written(q) == [conv |-> job[q].conv, position |-> slot[q], by |-> q,
               role |-> IF pc[q] = "ask_insert" THEN "user" ELSE "assistant"]

LEMMA InsertMessageShape ==
    ASSUME Shape, NEW q \in Request, InsertMessage(q)
    PROVE  Shape' /\ Apart(q)
<1> DEFINE c == job[q].conv
<1>1. job[q] \in [kind : {"run", "stream"}, org : Org, conv : Conversation]
  BY DEF InsertMessage, Shape
<1>2. CASE Raise(q) /\ UNCHANGED store
  BY <1>2, RaiseKeepsShape DEF InsertMessage
<1>3. CASE /\ owner' = [owner EXCEPT ![c] = Owner(q)]
           /\ messages' = IF Owner(q) = job[q].org THEN messages \cup {Written(q)} ELSE messages
           /\ pc' = [pc EXCEPT ![q] = AfterAppend(q)]
           /\ UNCHANGED <<frames, told>>
  <2>1. AfterAppend(q) \in Steps /\ pc[q] # "free"
    BY DEF InsertMessage, AfterAppend, Steps
  <2>2. Owner(q) \in Org \cup {NULL}
    BY <1>1 DEF Owner, Shape
  <2>3. owner' \in [Conversation -> Org \cup {NULL}]
    BY <1>3, <2>2 DEF Shape
  <2>4. Written(q) \in Message
    BY <1>1 DEF Written, Message, Shape
  <2>5. messages' \subseteq Message /\ IsFiniteSet(messages')
    BY <1>3, <2>4, FS_AddElement DEF Shape
  <2>6. /\ limit' \in 1..MaxLimit /\ strategy' \in {"llm", "fallback"}
        /\ job' \in [Request -> Job] /\ pc' \in [Request -> Steps]
        /\ \A j \in Request \ {q} : pc'[j] = pc[j]
        /\ \A j \in Request : pc'[j] # "free" =>
              job'[j] \in [kind : {"run", "stream"}, org : Org, conv : Conversation]
    BY <1>3, <2>1, ShapeGoesOn DEF InsertMessage
  <2>7. Shape'
    BY <1>3, <2>3, <2>5, <2>6 DEF InsertMessage, Shape, loop
  <2>8. Apart(q)
    BY <1>3, <2>6 DEF InsertMessage, Apart, Mine, loop
  <2> QED
    BY <2>7, <2>8
<1> QED
  BY <1>2, <1>3 DEF InsertMessage, Owner, Written

-----------------------------------------------------------------------------
(* The numbering holds through every step.                                 *)

Quiet(q) ==
    \/ ApplyInputGuardrail(q) \/ StartStream(q) \/ Respond(q)
    \/ Complete(q) \/ CompleteFails(q) \/ Leave(q) \/ Fail(q)

LEMMA NumberedStays ==
    ASSUME Shape, Numbered, NEW q \in Request, Apart(q), UNCHANGED messages,
           \A c \in Conversation : owner'[c] = NULL => owner[c] = NULL,
           pc'[q] \notin Inserting
    PROVE  Numbered'
<1>1. \A c : Own(c)' = Own(c)
  BY DEF Own
<1>2. PositionsAgree'
  BY DEF PositionsAgree, Numbered
<1>3. \A j \in Request : pc'[j] \in Inserting => slot'[j] \in 0..Cardinality(Own(job[j].conv)')
  BY <1>1 DEF Apart, Mine, Numbered
<1> QED
  BY <1>1, <1>2, <1>3 DEF Numbered

\* A free position that was once the next one still is.
LEMMA InsertComesNext ==
    ASSUME Shape, Numbered, NEW q \in Request, InsertMessage(q),
           NEW c \in Conversation, c = job[q].conv, ~ Taken(c, slot[q])
    PROVE  slot[q] = Cardinality(Own(c))
<1> DEFINE n == Cardinality(Own(c))
<1>1. slot[q] \in 0..n /\ n \in Nat
  BY OwnIsFinite DEF InsertMessage, Numbered, Inserting
<1>2. {l.position : l \in Own(c)} = 0..(n - 1)
  BY DEF Numbered, PositionsAgree, Own
<1>3. slot[q] \notin 0..(n - 1)
  BY <1>2 DEF Taken, Own
<1> QED
  BY <1>1, <1>3

LEMMA InsertKeepsNumbered ==
    ASSUME Shape, Numbered, NEW q \in Request, InsertMessage(q), Shape', Apart(q)
    PROVE  Numbered'
<1>a. job[q] \in [kind : {"run", "stream"}, org : Org, conv : Conversation] /\ pc[q] \in Inserting
  BY DEF InsertMessage, Shape, Inserting
<1>b. PICK c \in Conversation : c = job[q].conv
  BY <1>a
<1> DEFINE n == Cardinality(Own(c))
<1>0. /\ c \in Conversation /\ pc[q] \in Inserting /\ slot[q] \in 0..n /\ n \in Nat
      /\ job[q].org \in Org /\ job[q].org # NULL /\ job' = job
  BY <1>a, <1>b, OwnIsFinite, AgentAssumption DEF InsertMessage, Shape, Numbered
<1>1. CASE Raise(q) /\ UNCHANGED store
  <2>1. pc'[q] \notin Inserting
    BY <1>1 DEF Raise, Inserting, Shape
  <2> QED
    BY <1>1, <2>1, NumberedStays DEF store
<1>2. CASE /\ ~ (Owner(q) = job[q].org /\ Taken(c, slot[q]))
           /\ owner' = [owner EXCEPT ![c] = Owner(q)]
           /\ messages' = IF Owner(q) = job[q].org THEN messages \cup {Written(q)} ELSE messages
           /\ pc' = [pc EXCEPT ![q] = AfterAppend(q)]
  <2>1. pc'[q] \notin Inserting
    BY <1>2 DEF AfterAppend, Inserting, Shape
  <2>2. \A d \in Conversation : owner'[d] = NULL => owner[d] = NULL /\ d # c
    BY <1>0, <1>b, <1>2 DEF Owner, Shape
  <2>3. CASE Owner(q) # job[q].org
    BY <1>2, <2>1, <2>2, <2>3, NumberedStays
  <2>4. CASE Owner(q) = job[q].org
    <3> DEFINE m == Written(q)
    <3>1. /\ m.conv = c /\ m.position = slot[q] /\ messages' = messages \cup {m}
      BY <1>b, <1>2, <2>4 DEF Written
    <3>2. ~ Taken(c, slot[q])
      BY <1>2, <2>4
    <3>3. m \notin messages
      BY <3>1, <3>2 DEF Taken
    <3>4. {l.position : l \in Own(c)} = 0..(n - 1)
      BY <1>0 DEF Numbered, PositionsAgree, Own
    <3>5. slot[q] = n
      BY <1>0, <1>b, <3>2, InsertComesNext
    <3> HIDE DEF m
    <3>6. Own(c)' = Own(c) \cup {m} /\ \A d : d # c => Own(d)' = Own(d)
      BY <3>1 DEF Own
    <3>7. Cardinality(Own(c)') = n + 1
      <4>1. IsFiniteSet(Own(c)) /\ m \notin Own(c)
        BY <3>3, OwnIsFinite DEF Own
      <4> QED
        BY <3>6, <4>1, FS_AddElement
    <3>8. {l.position : l \in Own(c)'} = 0..n
      <4>1. {l.position : l \in Own(c)'} = {l.position : l \in Own(c)} \cup {n}
        BY <3>1, <3>5, <3>6
      <4> QED
        BY <1>0, <3>4, <4>1
    <3>9. \A d \in Conversation :
             {l.position : l \in Own(d)'} = 0..(Cardinality(Own(d)') - 1)
      <4> SUFFICES ASSUME NEW d \in Conversation
                   PROVE  {l.position : l \in Own(d)'} = 0..(Cardinality(Own(d)') - 1)
        OBVIOUS
      <4>1. CASE d = c
        <5>1. (n + 1) - 1 = n
          BY <1>0
        <5> QED
          BY <3>7, <3>8, <4>1, <5>1
      <4>2. CASE d # c
        BY <3>6, <4>2 DEF Numbered, PositionsAgree, Own
      <4> QED
        BY <4>1, <4>2
    <3>10. PositionsAgree'
      BY <3>9 DEF PositionsAgree, Own
    <3>11. \A d \in Conversation : owner'[d] = NULL => Own(d)' = {}
      BY <2>2, <3>6 DEF Numbered
    <3>12. \A j \in Request : pc'[j] \in Inserting =>
              slot'[j] \in 0..Cardinality(Own(job[j].conv)')
      <4> SUFFICES ASSUME NEW j \in Request \ {q}, pc[j] \in Inserting
                   PROVE  slot[j] \in 0..Cardinality(Own(job[j].conv)')
        BY <1>0, <2>1 DEF Apart, Mine
      <4>1. slot[j] \in 0..Cardinality(Own(job[j].conv))
        BY DEF Numbered
      <4>2. CASE job[j].conv = c
        BY <1>0, <3>7, <4>1, <4>2
      <4>3. CASE job[j].conv # c
        <5>1. Own(job[j].conv)' = Own(job[j].conv)
          BY <1>0, <3>6, <4>3
        <5> QED
          BY <4>1, <5>1
      <4> QED
        BY <4>2, <4>3
    <3> QED
      BY <3>10, <3>11, <3>12 DEF Numbered
  <2> QED
    BY <2>3, <2>4
<1> QED
  BY <1>b, <1>1, <1>2 DEF InsertMessage, Owner, Written

LEMMA NumberedStep ==
    ASSUME Shape, Numbered, [Next]_vars
    PROVE  Shape' /\ Numbered' /\ (UNCHANGED vars \/ \E q \in Request : Apart(q))
<1>1. ASSUME NEW q \in Request, LoopStep(q) PROVE Shape' /\ Numbered' /\ Apart(q)
  <2>1. Shape' /\ Apart(q)
    BY <1>1, LoopStepShape
  <2>2. pc'[q] \notin Inserting /\ UNCHANGED store
    BY <1>1 DEF LoopStep, Reason, Act, Observe, RouteAfterObserve, Finalize, Inserting, Shape
  <2> QED
    BY <2>1, <2>2, NumberedStays DEF store
<1>2. ASSUME NEW q \in Request, Quiet(q) PROVE Shape' /\ Numbered' /\ Apart(q)
  <2>1. Shape' /\ Apart(q)
    BY <1>2, OtherStepShape DEF Quiet
  <2>2. pc'[q] \notin Inserting /\ UNCHANGED store
    BY <1>2 DEF Quiet, ApplyInputGuardrail, StartStream, Respond, Complete, CompleteFails,
                Leave, Fail, Raise, Inserting, Shape
  <2> QED
    BY <2>1, <2>2, NumberedStays DEF store
<1>3. ASSUME NEW q \in Request, NEW kind \in {"run", "stream"}, NEW o \in Org, Call(q, kind, o)
      PROVE  Shape' /\ Numbered' /\ Apart(q)
  <2>1. Shape' /\ Apart(q)
    BY <1>3, CallShape
  <2>2. /\ pc'[q] \notin Inserting /\ messages' = messages
        /\ \A c \in Conversation : owner'[c] = NULL => owner[c] = NULL
    BY <1>3, AgentAssumption DEF Call, Inserting, Shape
  <2> QED
    BY <2>1, <2>2, NumberedStays
<1>4. ASSUME NEW q \in Request, ReadPosition(q) PROVE Shape' /\ Numbered' /\ Apart(q)
  <2>1. Shape' /\ Apart(q)
    BY <1>4, ReadPositionShape
  <2>2. job[q].conv \in Conversation
    BY <1>4 DEF ReadPosition, Shape
  <2>3. slot'[q] \in 0..Cardinality(Own(job[q].conv))
    <3>1. slot'[q] = NextPosition(job[q].org, job[q].conv)
      BY <1>4 DEF ReadPosition, Shape
    <3> QED
      BY <2>2, <3>1, NextPositionCounts, OwnIsFinite
  <2>4. /\ \A c : Own(c)' = Own(c)
        /\ UNCHANGED <<owner, messages, job>>
    BY <1>4 DEF ReadPosition, store, Own
  <2>5. \A j \in Request : pc'[j] \in Inserting => slot'[j] \in 0..Cardinality(Own(job[j].conv)')
    BY <2>1, <2>3, <2>4 DEF Apart, Mine, Numbered
  <2> QED
    BY <2>1, <2>4, <2>5 DEF Numbered, PositionsAgree
<1>5. ASSUME NEW q \in Request, InsertMessage(q) PROVE Shape' /\ Numbered' /\ Apart(q)
  BY <1>5, InsertMessageShape, InsertKeepsNumbered
<1>6. CASE UNCHANGED vars
  <2>1. UNCHANGED <<limit, strategy, owner, messages, job, pc, slot, count, pending,
                    observed, reason, answer, visits, trace, frames, told, announced>>
    BY <1>6 DEF vars
  <2> QED
    BY <1>6, <2>1 DEF Shape, Numbered, PositionsAgree, Own
<1> QED
  BY <1>1, <1>2, <1>3, <1>4, <1>5, <1>6 DEF Next, Works, Quiet

(***************************************************************************)
(* Calls that extend a conversation at once, each between a read of its    *)
(* last position and an insert, leave it numbered without gap or double.   *)
(***************************************************************************)
THEOREM PositionsAlwaysAgree == Spec => []PositionsAgree
<1>1. Shape /\ Numbered /\ [Next]_vars => (Shape /\ Numbered)'
  BY NumberedStep
<1>2. Numbered => PositionsAgree
  BY DEF Numbered
<1> QED
  BY ShapeInit, NumberedInit, <1>1, <1>2, PTL DEF Spec

-----------------------------------------------------------------------------
(* The store's promise: each insert that succeeds is a whole append.       *)

Keys == Org \X Conversation
Known == {key \in Keys : owner[key[2]] = key[1]}
Kept == [key \in Keys |-> {m \in messages : m.conv = key[2] /\ owner[key[2]] = key[1]}]

LEMMA KeepsInit == Init => Plain!Init
<1> SUFFICES ASSUME Init PROVE Plain!Init
  OBVIOUS
<1>1. \A key \in Keys : owner[key[2]] # key[1]
  BY AgentAssumption DEF Init, Keys
<1> QED
  BY <1>1 DEF Init, Plain!Init, Keys

\* A conversation that nobody has is empty, and made by the call that names it.
LEMMA CallCreates ==
    ASSUME Shape, Numbered, NEW q \in Request, NEW kind, NEW o \in Org, Call(q, kind, o)
    PROVE  Plain!Next \/ UNCHANGED <<Known, Kept>>
<1>1. PICK c \in Conversation, fresh \in BOOLEAN :
          /\ fresh => owner[c] = NULL
          /\ owner' = IF fresh THEN [owner EXCEPT ![c] = o] ELSE owner
  BY DEF Call
<1>2. messages' = messages
  BY DEF Call
<1>3. CASE fresh
  <2>1. \A d \in Conversation : owner'[d] = IF d = c THEN o ELSE owner[d]
    BY <1>1, <1>3 DEF Shape
  <2>2. owner[c] = NULL /\ Own(c) = {}
    BY <1>1, <1>3 DEF Numbered
  <2>3. \A p \in Org : owner[c] # p
    BY <2>2, AgentAssumption
  <2>4. Known' = Known \cup {<<o, c>>}
    BY <2>1, <2>3 DEF Known, Keys
  <2>5. ASSUME NEW key \in Keys PROVE Kept'[key] = Kept[key]
    <3>1. CASE key[2] = c
      BY <1>2, <2>2, <3>1 DEF Kept, Own
    <3>2. CASE key[2] # c
      BY <1>2, <2>1, <2>5, <3>2 DEF Kept, Keys
    <3> QED
      BY <3>1, <3>2
  <2>6. Kept' = Kept
    BY <2>5 DEF Kept
  <2>7. \A p \in Org : <<p, c>> \notin Known
    BY <2>3 DEF Known
  <2>8. Plain!Create(o, c)
    BY <2>4, <2>6, <2>7 DEF Plain!Create, Known, Kept, Keys
  <2> QED
    BY <2>8 DEF Plain!Next
<1>4. CASE ~ fresh
  BY <1>1, <1>2, <1>4 DEF Known, Kept
<1> QED
  BY <1>3, <1>4

\* The position read is still the number of messages, or the insert is refused.
LEMMA InsertAppends ==
    ASSUME Shape, Numbered, NEW q \in Request, InsertMessage(q)
    PROVE  Plain!Next \/ UNCHANGED <<Known, Kept>>
<1>1. /\ job[q] \in [kind : {"run", "stream"}, org : Org, conv : Conversation]
      /\ pc[q] \in Inserting
  BY DEF InsertMessage, Shape, Inserting
<1>2. PICK c \in Conversation, o \in Org : c = job[q].conv /\ o = job[q].org
  BY <1>1
<1>3. CASE UNCHANGED store
  BY <1>3 DEF store, Known, Kept
<1>4. CASE /\ ~ (Owner(q) = o /\ Taken(c, slot[q]))
           /\ owner' = [owner EXCEPT ![c] = Owner(q)]
           /\ messages' = IF Owner(q) = o THEN messages \cup {Written(q)} ELSE messages
  <2>1. CASE Owner(q) # o
    <3>1. owner' = owner /\ messages' = messages
      BY <1>2, <1>4, <2>1 DEF Owner, Shape
    <3> QED
      BY <3>1 DEF Known, Kept
  <2>2. CASE Owner(q) = o
    <3> DEFINE n == Cardinality(Own(c))
               m == [conv |-> c, position |-> n, by |-> q,
                     role |-> IF pc[q] = "ask_insert" THEN "user" ELSE "assistant"]
    <3>1. slot[q] = n
      BY <1>2, <1>4, <2>2, InsertComesNext
    <3>2. Written(q) = m /\ messages' = messages \cup {m} /\ m.conv = c
      BY <1>2, <1>4, <2>2, <3>1 DEF Written
    <3>3. \A d \in Conversation : owner'[d] = IF d = c THEN o ELSE owner[d]
      BY <1>4, <2>2 DEF Shape
    <3>4. owner[c] = o \/ (owner[c] = NULL /\ Own(c) = {})
      BY <1>2, <2>2 DEF Owner, Numbered
    <3>5. \A p \in Org : owner[c] = p => p = o
      BY <3>4, AgentAssumption
    <3>6. Kept[<<o, c>>] = Own(c)
      BY <3>4 DEF Kept, Keys, Own
    <3> HIDE DEF m
    <3>7. Known' = Known \cup {<<o, c>>}
      BY <3>3, <3>5 DEF Known, Keys
    <3>8. Kept' = [Kept EXCEPT ![<<o, c>>] = Own(c) \cup {m}]
      <4>1. ASSUME NEW key \in Keys
            PROVE  Kept'[key] = IF key = <<o, c>> THEN Own(c) \cup {m} ELSE Kept[key]
        <5>1. Kept'[key] = {l \in messages \cup {m} : l.conv = key[2] /\ owner'[key[2]] = key[1]}
          BY <3>2 DEF Kept
        <5>2. CASE key = <<o, c>>
          BY <3>2, <3>3, <5>1, <5>2 DEF Own
        <5>3. CASE key # <<o, c>> /\ key[2] = c
          <6>1. key[1] # o /\ key[1] \in Org
            BY <4>1, <5>3 DEF Keys
          <6>2. owner'[key[2]] # key[1] /\ owner[key[2]] # key[1]
            BY <3>3, <3>5, <5>3, <6>1
          <6> QED
            BY <5>1, <5>3, <6>2 DEF Kept
        <5>4. CASE key[2] # c
          <6>1. owner'[key[2]] = owner[key[2]]
            BY <3>3, <4>1, <5>4 DEF Keys
          <6> QED
            BY <3>2, <5>1, <5>4, <6>1 DEF Kept
        <5> QED
          BY <5>2, <5>3, <5>4
      <4> QED
        BY <4>1 DEF Kept
    <3>9. Plain!Cardinality(Own(c)) = n
      BY Zenon DEF Plain!Cardinality, Cardinality
    <3>10. \E role \in {"user", "assistant"} : Plain!Append(o, c, role, q)
      <4>1. PICK role \in {"user", "assistant"} :
                role = IF pc[q] = "ask_insert" THEN "user" ELSE "assistant"
        OBVIOUS
      <4>2. m = [conv |-> c, position |-> Plain!Cardinality(Kept[<<o, c>>]), role |-> role,
                 by |-> q]
        BY <3>6, <3>9, <4>1 DEF m
      <4>3. Plain!Append(o, c, role, q)
        BY <3>6, <3>7, <3>8, <4>2 DEF Plain!Append, Known, Kept, Keys
      <4> QED
        BY <4>3
    <3> QED
      BY <3>10 DEF Plain!Next
  <2> QED
    BY <2>1, <2>2
<1> QED
  BY <1>2, <1>3, <1>4 DEF InsertMessage, Owner, Written

LEMMA KeepsStep ==
    ASSUME Shape, Numbered, [Next]_vars
    PROVE  Plain!Next \/ UNCHANGED <<Known, Kept>>
<1>1. ASSUME NEW q \in Request, LoopStep(q) \/ Quiet(q) \/ ReadPosition(q)
      PROVE  UNCHANGED <<Known, Kept>>
  <2>1. UNCHANGED store
    BY <1>1 DEF LoopStep, Reason, Act, Observe, Finalize, Quiet, ApplyInputGuardrail,
                StartStream, Respond, Complete, CompleteFails, Leave, Fail, ReadPosition
  <2> QED
    BY <2>1 DEF store, Known, Kept
<1>2. CASE UNCHANGED vars
  BY <1>2 DEF vars, Known, Kept
<1> QED
  BY <1>1, <1>2, CallCreates, InsertAppends DEF Next, Works, Quiet

(***************************************************************************)
(* However many calls extend conversations at once, what is in the tables  *)
(* is what whole creations and appends, one after another, would have put  *)
(* there: the store in PostgreSQL implements the one in memory.            *)
(***************************************************************************)
THEOREM AppendsKeepConversations == Spec => KeepsConversations
<1>1. Shape /\ Numbered /\ [Next]_vars => (Shape /\ Numbered)'
  BY NumberedStep
<1>2. Shape /\ Numbered /\ [Next]_vars => [Plain!Next]_(Plain!vars)
  BY KeepsStep DEF Plain!vars, Known, Kept, Keys
<1> QED
  BY ShapeInit, NumberedInit, KeepsInit, <1>1, <1>2, PTL DEF Spec, KeepsConversations, Plain!Spec

-----------------------------------------------------------------------------
(* The loop: what a call has entered, counted and traced.                  *)

Early == {"free", "asking", "ask_insert", "guard", "start"}

Balanced(q) == Traces(q, "tool_call") = count[q] /\ Traces(q, "observe") = count[q]
LastStep(q) == trace[q][Len(trace[q])]

Outcome(q) ==
    /\ Balanced(q)
    /\ LastStep(q) = IF reason[q] = "final-answer" THEN "reason" ELSE "observe"
    /\ reason[q] = "iteration-limit-reached" => count[q] = limit
    /\ reason[q] = "final-answer" => count[q] < limit

(***************************************************************************)
(* At each node the nodes entered and the entries traced are those of the  *)
(* iterations counted so far, and of the one that is under way.            *)
(***************************************************************************)
LoopInv(q) ==
    /\ visits[q] <= 3 * limit + 1 /\ count[q] <= limit
    /\ pc[q] \in Early =>
          trace[q] = <<>> /\ visits[q] = 0 /\ count[q] = 0 /\ reason[q] = NULL
    /\ pc[q] \in {"reason", "act"} =>
          /\ Balanced(q) /\ count[q] < limit /\ reason[q] = NULL
          /\ visits[q] = 3 * count[q] + (IF pc[q] = "act" THEN 1 ELSE 0)
    /\ pc[q] = "observe" =>
          /\ Traces(q, "tool_call") = count[q] + 1 /\ Traces(q, "observe") = count[q]
          /\ count[q] < limit /\ reason[q] = NULL /\ visits[q] = 3 * count[q] + 2
    /\ pc[q] = "finalize_limit" =>
          /\ Balanced(q) /\ count[q] = limit /\ reason[q] = NULL
          /\ visits[q] = 3 * limit /\ LastStep(q) = "observe"
    /\ pc[q] = "finalize" =>
          Outcome(q) /\ reason[q] = "final-answer" /\ visits[q] = 3 * count[q] + 1
    /\ reason[q] # NULL => Outcome(q)

LEMMA TracesOfNone ==
    ASSUME NEW q, NEW step, trace[q] = <<>> PROVE Traces(q, step) = 0
<1>1. {i \in DOMAIN trace[q] : trace[q][i] = step} = {}
  OBVIOUS
<1> QED
  BY <1>1, FS_EmptySet DEF Traces

\* An entry more counts for its step.
LEMMA TracesGrow ==
    ASSUME Shape, NEW q \in Request, NEW step, Traced(q, step)
    PROVE  /\ \A other : Traces(q, other) \in Nat
           /\ \A other : Traces(q, other)' = IF other = step THEN Traces(q, other) + 1
                                             ELSE Traces(q, other)
           /\ LastStep(q)' = step
<1>1. trace[q] \in Seq(Entry) /\ trace'[q] = Append(trace[q], step)
  BY DEF Shape, Traced
<1>2. PICK n \in Nat : n = Len(trace[q])
  BY <1>1
<1>3. /\ DOMAIN trace[q] = 1..n /\ DOMAIN trace'[q] = 1..(n + 1)
      /\ \A i \in 1..n : trace'[q][i] = trace[q][i]
      /\ trace'[q][n + 1] = step /\ Len(trace'[q]) = n + 1
  BY <1>1, <1>2
<1>5. ASSUME NEW other
      PROVE  /\ Traces(q, other) \in Nat
             /\ Traces(q, other)' = IF other = step THEN Traces(q, other) + 1
                                    ELSE Traces(q, other)
  <2> DEFINE S == {i \in 1..n : trace[q][i] = other}
             T == {i \in 1..(n + 1) : trace'[q][i] = other}
  <2>1. IsFiniteSet(S) /\ n + 1 \notin S
    <3>1. IsFiniteSet(1..n) /\ S \subseteq 1..n
      BY FS_Interval
    <3> QED
      BY <3>1, FS_Subset
  <2>2. T = IF other = step THEN S \cup {n + 1} ELSE S
    BY <1>3
  <2>3. Traces(q, other) = Cardinality(S) /\ Traces(q, other)' = Cardinality(T)
    BY <1>3 DEF Traces
  <2> HIDE DEF S, T
  <2> QED
    BY <2>1, <2>2, <2>3, FS_AddElement, FS_CardinalityType
<1>6. LastStep(q)' = step
  BY <1>3 DEF LastStep
<1> QED
  BY <1>5, <1>6

LEMMA LoopInit == Init => \A q \in Request : LoopInv(q)
<1> SUFFICES ASSUME Init, NEW q \in Request PROVE LoopInv(q)
  OBVIOUS
<1>1. limit \in 1..MaxLimit /\ MaxLimit \in Nat
  BY ShapeInit, AgentAssumption DEF Shape
<1>2. /\ pc[q] = "free" /\ trace[q] = <<>> /\ visits[q] = 0 /\ count[q] = 0
      /\ reason[q] = NULL
  BY DEF Init
<1> QED
  BY <1>1, <1>2 DEF LoopInv

LEMMA LoopInvStays ==
    ASSUME NEW j \in Request, LoopInv(j), limit' = limit, Mine(j)' = Mine(j)
    PROVE  LoopInv(j)'
  BY DEF Mine, LoopInv, Balanced, LastStep, Outcome, Traces

\* A step of the call that leaves the run alone.
LEMMA LoopInvPasses ==
    ASSUME Shape, NEW q \in Request, LoopInv(q), NEW s, pc'[q] = s, limit' = limit,
           trace'[q] = trace[q], visits'[q] = visits[q], count'[q] = count[q],
           reason'[q] = reason[q],
           job'[q] = job[q] \/ pc[q] = "free",
           \/ s \in Early /\ pc[q] \in Early
           \/ s = "reason" /\ pc[q] \in Early
           \/ s \in {"answering", "answer_insert", "respond", "after", "over"}
    PROVE  LoopInv(q)'
<1>0. limit \in Nat \ {0}
  BY AgentAssumption DEF Shape
<1>1. \A step : Traces(q, step)' = Traces(q, step)
  BY DEF Traces
<1>2. Balanced(q)' = Balanced(q) /\ LastStep(q)' = LastStep(q)
  BY <1>1 DEF Balanced, LastStep
<1>3. reason'[q] # NULL => Outcome(q)'
  BY <1>2 DEF LoopInv, Outcome
<1>5. s = "reason" => /\ Balanced(q)' /\ count'[q] < limit
                      /\ reason'[q] = NULL /\ visits'[q] = 3 * count'[q]
  BY <1>0, <1>2, TracesOfNone DEF LoopInv, Balanced, Early
<1> QED
  BY <1>1, <1>3, <1>5 DEF LoopInv, Early

LEMMA LoopStepKeepsLoopInv ==
    ASSUME Shape, NEW q \in Request, LoopInv(q), LoopStep(q), Shape'
    PROVE  LoopInv(q)'
<1>0. /\ limit \in Nat \ {0} /\ count[q] \in Nat /\ visits[q] \in Nat
      /\ NULL \notin Int
  BY AgentAssumption DEF Shape
<1>1. CASE Reason(q)
  <2>1. /\ pc[q] = "reason" /\ UNCHANGED <<limit, job, count>> /\ Traced(q, "reason")
        /\ visits'[q] = visits[q] + 1
        /\ \/ pc'[q] = "finalize" /\ reason'[q] = "final-answer"
           \/ pc'[q] = "act" /\ reason'[q] = reason[q]
    BY <1>1 DEF Reason, Enter, Shape
  <2>2. Balanced(q)' /\ LastStep(q)' = "reason"
    BY <2>1, TracesGrow DEF LoopInv, Balanced
  <2>4. Outcome(q)' \/ (pc'[q] = "act" /\ reason'[q] = NULL)
    BY <2>1, <2>2 DEF Outcome, LoopInv
  <2> QED
    BY <1>0, <2>1, <2>2, <2>4 DEF LoopInv, Early
<1>2. CASE Act(q)
  <2>1. /\ pc[q] = "act" /\ UNCHANGED <<limit, job, count, reason>> /\ Traced(q, "tool_call")
        /\ visits'[q] = visits[q] + 1 /\ pc'[q] = "observe"
    BY <1>2 DEF Act, Enter, Shape
  <2>2. Traces(q, "tool_call")' = count[q] + 1 /\ Traces(q, "observe")' = count[q]
    BY <2>1, TracesGrow DEF LoopInv, Balanced
  <2> QED
    BY <1>0, <2>1, <2>2 DEF LoopInv, Early
<1>3. CASE Observe(q)
  <2>1. /\ pc[q] = "observe" /\ UNCHANGED <<limit, job, reason>> /\ Traced(q, "observe")
        /\ visits'[q] = visits[q] + 1 /\ count'[q] = count[q] + 1
        /\ pc'[q] = IF count[q] + 1 >= limit THEN "finalize_limit" ELSE "reason"
    BY <1>3 DEF Observe, RouteAfterObserve, Enter, Shape
  <2>2. Balanced(q)' /\ LastStep(q)' = "observe"
    BY <1>0, <2>1, TracesGrow DEF LoopInv, Balanced
  <2> QED
    BY <1>0, <2>1, <2>2 DEF LoopInv, Early
<1>4. CASE Finalize(q)
  <2>1. /\ pc[q] \in {"finalize", "finalize_limit"}
        /\ UNCHANGED <<limit, job, count, trace>>
        /\ visits'[q] = visits[q] + 1 /\ pc'[q] = "answering"
        /\ reason'[q] = IF pc[q] = "finalize_limit" THEN "iteration-limit-reached" ELSE reason[q]
    BY <1>4 DEF Finalize, Enter, Shape
  <2>2. \A step : Traces(q, step)' = Traces(q, step)
    BY <2>1 DEF Traces
  <2>3. LastStep(q)' = LastStep(q) /\ (Balanced(q) => Balanced(q)')
    BY <2>1, <2>2 DEF LastStep, Balanced
  <2>4. Outcome(q)'
    <3>1. CASE pc[q] = "finalize"
      BY <2>1, <2>3, <3>1 DEF LoopInv, Outcome
    <3>2. CASE pc[q] = "finalize_limit"
      BY <2>1, <2>3, <3>2 DEF LoopInv, Outcome
    <3> QED
      BY <2>1, <3>1, <3>2
  <2>5. visits'[q] <= 3 * limit + 1
    <3>1. pc[q] = "finalize" => Outcome(q) /\ reason[q] = "final-answer"
      BY DEF LoopInv
    <3> QED
      BY <1>0, <2>1, <3>1 DEF LoopInv, Outcome
  <2> QED
    BY <2>1, <2>4, <2>5 DEF LoopInv, Early
<1> QED
  BY <1>1, <1>2, <1>3, <1>4 DEF LoopStep

LEMMA QuietKeepsLoopInv ==
    ASSUME Shape, NEW q \in Request, LoopInv(q),
           \/ Quiet(q) \/ ReadPosition(q) \/ InsertMessage(q)
           \/ \E kind \in {"run", "stream"}, o \in Org : Call(q, kind, o)
    PROVE  LoopInv(q)'
<1>1. UNCHANGED <<limit, trace, visits, count, reason>>
  BY DEF Quiet, ReadPosition, InsertMessage, Call, ApplyInputGuardrail, StartStream, Respond,
         Complete, CompleteFails, Leave, Fail, loop
<1>2. UNCHANGED job \/ pc[q] = "free"
  BY DEF Quiet, ReadPosition, InsertMessage, Call, ApplyInputGuardrail, StartStream, Respond,
         Complete, CompleteFails, Leave, Fail
<1>3. \/ pc'[q] \in Early /\ pc[q] \in Early
      \/ pc'[q] = "reason" /\ pc[q] \in Early
      \/ pc'[q] \in {"answering", "answer_insert", "respond", "after", "over"}
  BY DEF Quiet, ReadPosition, InsertMessage, Call, ApplyInputGuardrail, StartStream, Respond,
         Complete, CompleteFails, Leave, Fail, Raise, AfterAppend, Early, Shape
<1> QED
  BY <1>1, <1>2, <1>3, LoopInvPasses

(***************************************************************************)
(* The invariant of a run, for all calls.                                  *)
(***************************************************************************)
RunInv == Shape /\ Numbered /\ \A q \in Request : LoopInv(q)

LEMMA RunStep == RunInv /\ [Next]_vars => RunInv'
<1> SUFFICES ASSUME RunInv, [Next]_vars PROVE RunInv'
  OBVIOUS
<1>0. Shape /\ Numbered /\ \A q \in Request : LoopInv(q)
  BY DEF RunInv
<1>1. Shape' /\ Numbered'
  BY <1>0, NumberedStep
<1>2. ASSUME NEW q \in Request, Apart(q), LoopInv(q)' PROVE \A j \in Request : LoopInv(j)'
  BY <1>0, <1>2, LoopInvStays DEF Apart
<1>3. ASSUME NEW q \in Request, LoopStep(q) PROVE \A j \in Request : LoopInv(j)'
  BY <1>0, <1>1, <1>2, <1>3, LoopStepShape, LoopStepKeepsLoopInv
<1>4. ASSUME NEW q \in Request, Quiet(q) PROVE \A j \in Request : LoopInv(j)'
  BY <1>0, <1>2, <1>4, OtherStepShape, QuietKeepsLoopInv DEF Quiet
<1>5. ASSUME NEW q \in Request, NEW kind \in {"run", "stream"}, NEW o \in Org, Call(q, kind, o)
      PROVE  \A j \in Request : LoopInv(j)'
  BY <1>0, <1>2, <1>5, CallShape, QuietKeepsLoopInv
<1>6. ASSUME NEW q \in Request, ReadPosition(q) PROVE \A j \in Request : LoopInv(j)'
  BY <1>0, <1>2, <1>6, ReadPositionShape, QuietKeepsLoopInv
<1>7. ASSUME NEW q \in Request, InsertMessage(q) PROVE \A j \in Request : LoopInv(j)'
  BY <1>0, <1>2, <1>7, InsertMessageShape, QuietKeepsLoopInv
<1>8. ASSUME UNCHANGED vars PROVE \A j \in Request : LoopInv(j)'
  <2> TAKE j \in Request
  <2>1. LoopInv(j) /\ limit' = limit /\ Mine(j)' = Mine(j)
    BY <1>0, <1>8 DEF vars, Mine
  <2> QED
    BY <2>1, LoopInvStays
<1>9. \A j \in Request : LoopInv(j)'
  BY <1>3, <1>4, <1>5, <1>6, <1>7, <1>8 DEF Next, Works, Quiet
<1> QED
  BY <1>1, <1>9 DEF RunInv

LEMMA RunInit == Init => RunInv
  BY ShapeInit, NumberedInit, LoopInit DEF RunInv

(***************************************************************************)
(* Every variable has its type, the count of iterations within the limit.  *)
(***************************************************************************)
THEOREM TypeCorrect == Spec => []TypeOK
<1>1. RunInv => TypeOK
  <2> SUFFICES ASSUME RunInv PROVE TypeOK
    OBVIOUS
  <2>1. count \in [Request -> 0..limit]
    <3>1. \A q \in Request : count[q] \in 0..limit
      BY AgentAssumption DEF RunInv, Shape, LoopInv
    <3> QED
      BY <3>1 DEF RunInv, Shape
  <2> QED
    BY <2>1 DEF RunInv, Shape, TypeOK, Frame
<1> QED
  BY RunInit, RunStep, <1>1, PTL DEF Spec

(***************************************************************************)
(* Whatever the limit, the trace of a run tells why it ended, and the      *)
(* nodes it entered stay below the recursion limit.                        *)
(***************************************************************************)
THEOREM OutcomeAlwaysMatchesTrace == Spec => []OutcomeMatchesTrace
<1>1. RunInv => OutcomeMatchesTrace
  <2> SUFFICES ASSUME RunInv, NEW q \in Request
               PROVE  /\ visits[q] < 3 * limit + 10
                      /\ reason[q] # NULL => Outcome(q)
    BY DEF OutcomeMatchesTrace, Outcome, Balanced, LastStep
  <2>1. LoopInv(q) /\ visits[q] \in Nat /\ limit \in Nat
    BY AgentAssumption DEF RunInv, Shape
  <2> QED
    BY <2>1 DEF LoopInv
<1> QED
  BY RunInit, RunStep, <1>1, PTL DEF Spec

-----------------------------------------------------------------------------
(* What the client is sent.                                                *)

(***************************************************************************)
(* Nothing is sent before the run, a terminal event ends it, and a call    *)
(* that is told of its end is no open stream.                              *)
(***************************************************************************)
FrameInv(q) ==
    /\ \A i \in DOMAIN frames[q] :
          frames[q][i] \in {"completion", "error"} =>
             i = Len(frames[q]) /\ pc[q] \in {"after", "over"}
    /\ frames[q] # <<>> => IsStream(q) /\ told[q] = "none"
    /\ pc[q] \in Early => frames[q] = <<>>
    /\ told[q] # "none" => pc[q] \in {"after", "over"}
    /\ pc[q] = "after" => Answered(q)

LEMMA FrameInit == Init => \A q \in Request : FrameInv(q)
  BY DEF Init, FrameInv

LEMMA FrameInvStays ==
    ASSUME NEW j \in Request, FrameInv(j), Mine(j)' = Mine(j) PROVE FrameInv(j)'
  BY DEF Mine, FrameInv, IsStream, Answered

\* A step that sends at most one frame, and what it sends if it is the last.
LEMMA SentKeepsFrameInv ==
    ASSUME Shape, NEW q \in Request, FrameInv(q), pc[q] \notin {"after", "over"},
           NEW f \in Frame, Send(q, f), job'[q] = job[q], told'[q] = told[q],
           pc'[q] \notin Early, pc'[q] = "after" => IsStream(q) /\ f = "completion",
           f \in {"completion", "error"} => pc'[q] \in {"after", "over"}
    PROVE  FrameInv(q)' /\ (Answered(q) => Answered(q)')
<1>1. CASE IsStream(q)
  <2>1. frames[q] \in Seq(Frame) /\ frames'[q] = Append(frames[q], f)
    BY <1>1, SendKeepsShape DEF Shape
  <2>2. PICK n \in Nat : n = Len(frames[q])
    BY <2>1
  <2>3. /\ DOMAIN frames[q] = 1..n /\ DOMAIN frames'[q] = 1..(n + 1) /\ Len(frames'[q]) = n + 1
        /\ \A i \in 1..n : frames'[q][i] = frames[q][i]
        /\ frames'[q][n + 1] = f
    BY <2>1, <2>2
  <2>4. \A i \in 1..n : frames[q][i] \notin {"completion", "error"}
    BY <2>3 DEF FrameInv
  <2>5. told[q] = "none" /\ IsStream(q)'
    BY <1>1 DEF FrameInv, IsStream
  <2>6. \A i \in 1..(n + 1) : i \in 1..n \/ i = n + 1
    BY <2>2
  <2>7. \A i \in DOMAIN frames'[q] :
           frames'[q][i] \in {"completion", "error"} => i = n + 1 /\ pc'[q] \in {"after", "over"}
    BY <2>3, <2>4, <2>6
  <2>8. Answered(q) => Answered(q)'
    BY <2>2, <2>3, <2>4, <2>5 DEF Answered
  <2>9. pc'[q] = "after" => Answered(q)'
    <3>1. n + 1 \in DOMAIN frames'[q]
      BY <2>2, <2>3
    <3> QED
      BY <2>3, <3>1 DEF Answered
  <2>10. told'[q] = "none" /\ pc'[q] \notin Early /\ Len(frames'[q]) = n + 1
    BY <2>3, <2>5
  <2> QED
    BY <2>5, <2>7, <2>8, <2>9, <2>10 DEF FrameInv
<1>2. CASE ~ IsStream(q)
  <2>1. frames'[q] = frames[q] /\ frames[q] = <<>>
    BY <1>2 DEF Send, FrameInv
  <2> QED
    BY <1>2, <2>1 DEF FrameInv, Answered, IsStream
<1> QED
  BY <1>1, <1>2

\* A step that sends nothing.
LEMMA SilentKeepsFrameInv ==
    ASSUME NEW q \in Request, FrameInv(q), frames'[q] = frames[q], told'[q] = told[q],
           job'[q] = job[q] \/ frames[q] = <<>>,
           pc'[q] \in {"after", "over"} \/ pc[q] \notin {"after", "over"},
           pc'[q] \in Early => pc[q] \in Early, pc'[q] # "after"
    PROVE  FrameInv(q)' /\ (Answered(q) => Answered(q)')
<1>1. Answered(q)' <=> Answered(q)
  BY DEF Answered
<1>2. frames'[q] # <<>> => IsStream(q)' /\ told'[q] = "none"
  BY DEF FrameInv, IsStream
<1>3. \A i \in DOMAIN frames'[q] :
         frames'[q][i] \in {"completion", "error"} =>
            i = Len(frames'[q]) /\ pc'[q] \in {"after", "over"}
  BY DEF FrameInv
<1> QED
  BY <1>1, <1>2, <1>3 DEF FrameInv

LEMMA RaiseKeepsFrameInv ==
    ASSUME Shape, NEW q \in Request, FrameInv(q), Raise(q), job'[q] = job[q],
           pc[q] \notin {"free", "after", "over"}
    PROVE  FrameInv(q)' /\ (Answered(q) => Answered(q)')
<1>1. pc'[q] = "over" /\ "error" \in Frame
  BY DEF Raise, Shape, Frame
<1>2. CASE Opened(q)
  BY <1>1, <1>2, SentKeepsFrameInv DEF Raise, Early
<1>3. CASE ~ Opened(q)
  <2>1. frames'[q] = frames[q] /\ told'[q] = "failed"
    BY <1>3 DEF Raise, Shape
  <2>2. frames[q] = <<>>
    BY <1>3 DEF Opened, FrameInv, Shape, Steps, Early
  <2>3. ~ Answered(q)
    <3>1. DOMAIN frames[q] = {}
      BY <2>2
    <3> QED
      BY <3>1 DEF Answered, FrameInv
  <2> QED
    BY <1>1, <2>1, <2>2, <2>3 DEF FrameInv, Early
<1> QED
  BY <1>2, <1>3

LEMMA FrameInvStep ==
    ASSUME Shape, NEW q \in Request, FrameInv(q),
           \/ LoopStep(q) \/ Quiet(q) \/ ReadPosition(q) \/ InsertMessage(q)
           \/ \E kind \in {"run", "stream"}, o \in Org : Call(q, kind, o)
    PROVE  FrameInv(q)' /\ (Answered(q) => Answered(q)')
<1> USE DEF Frame
<1>1. CASE Reason(q)
  <2>1. /\ pc[q] = "reason" /\ pc'[q] \in {"finalize", "act"} /\ Send(q, "step")
        /\ told' = told /\ job' = job
    BY <1>1 DEF Reason, Shape
  <2> QED
    BY <2>1, SentKeepsFrameInv DEF Early
<1>2. CASE Act(q)
  <2>1. /\ pc[q] = "act" /\ pc'[q] = "observe" /\ Send(q, "tool_call")
        /\ told' = told /\ job' = job
    BY <1>2 DEF Act, Shape
  <2> QED
    BY <2>1, SentKeepsFrameInv DEF Early
<1>3. CASE Observe(q)
  <2>1. /\ pc[q] = "observe" /\ pc'[q] \in {"finalize_limit", "reason"} /\ Send(q, "step")
        /\ told' = told /\ job' = job
    BY <1>3 DEF Observe, RouteAfterObserve, Shape
  <2> QED
    BY <2>1, SentKeepsFrameInv DEF Early
<1>4. CASE Finalize(q) \/ ReadPosition(q) \/ CompleteFails(q) \/ Complete(q) \/ Leave(q)
  <2>1. /\ frames' = frames /\ told' = told /\ job' = job
        /\ pc'[q] = "over" \/ pc[q] \notin {"after", "over"}
        /\ pc'[q] \in Early => pc[q] \in Early
        /\ pc'[q] # "after"
    BY <1>4 DEF Finalize, ReadPosition, CompleteFails, Complete, Leave, said, Shape, Early
  <2> QED
    BY <2>1, SilentKeepsFrameInv
<1>5. CASE ApplyInputGuardrail(q)
  <2>1. CASE told' = told
    <3>1. /\ frames' = frames /\ job' = job /\ pc[q] = "guard" /\ pc'[q] \in {"over", "reason"}
      BY <1>5 DEF ApplyInputGuardrail, Shape
    <3> QED
      BY <2>1, <3>1, SilentKeepsFrameInv DEF Early
  <2>2. CASE pc' = [pc EXCEPT ![q] = "over"] /\ told' = [told EXCEPT ![q] = "blocked"]
    <3>1. /\ frames'[q] = <<>> /\ frames[q] = <<>> /\ job' = job /\ pc'[q] = "over"
          /\ told[q] = "none"
      BY <1>5, <2>2 DEF ApplyInputGuardrail, Shape, FrameInv, Early
    <3>2. DOMAIN frames[q] = {}
      BY <3>1
    <3>3. ~ Answered(q)
      BY <3>1, <3>2 DEF Answered
    <3> QED
      BY <3>1, <3>2, <3>3 DEF FrameInv, Early
  <2> QED
    BY <1>5, <2>1, <2>2 DEF ApplyInputGuardrail
<1>6. CASE StartStream(q)
  <2>1. /\ pc[q] = "start" /\ pc'[q] = "reason" /\ Send(q, "step")
        /\ told' = told /\ job' = job
    BY <1>6 DEF StartStream, Shape
  <2> QED
    BY <2>1, SentKeepsFrameInv DEF Early
<1>7. CASE Respond(q)
  <2>1. /\ pc[q] = "respond" /\ pc'[q] = "after" /\ Send(q, "completion") /\ job' = job
    BY <1>7 DEF Respond, Shape
  <2>2. CASE IsStream(q)
    <3>1. told' = told
      BY <1>7, <2>2 DEF Respond
    <3> QED
      BY <2>1, <2>2, <3>1, SentKeepsFrameInv DEF Early
  <2>3. CASE ~ IsStream(q)
    <3>1. frames'[q] = frames[q] /\ told'[q] = "answered" /\ frames[q] = <<>>
      BY <1>7, <2>3 DEF Respond, Send, FrameInv, Shape
    <3> QED
      BY <2>1, <3>1 DEF FrameInv, Early, Answered
  <2> QED
    BY <2>2, <2>3
<1>8. CASE Fail(q)
  BY <1>8, RaiseKeepsFrameInv DEF Fail
<1>9. CASE InsertMessage(q)
  <2>1. CASE Raise(q)
    BY <1>9, <2>1, RaiseKeepsFrameInv DEF InsertMessage
  <2>2. CASE UNCHANGED <<frames, told>> /\ pc' = [pc EXCEPT ![q] = AfterAppend(q)]
    <3>1. /\ job' = job /\ pc[q] \in {"ask_insert", "answer_insert"} /\ pc'[q] = AfterAppend(q)
      BY <1>9, <2>2 DEF InsertMessage, Shape
    <3>2. /\ pc'[q] \notin {"after", "over"} /\ pc[q] \notin {"after", "over"}
          /\ pc'[q] \in Early => pc[q] \in Early
      BY <3>1 DEF AfterAppend, Early
    <3> QED
      BY <2>2, <3>1, <3>2, SilentKeepsFrameInv
  <2> QED
    BY <1>9, <2>1, <2>2 DEF InsertMessage
<1>10. CASE \E kind \in {"run", "stream"}, o \in Org : Call(q, kind, o)
  <2>1. /\ frames' = frames /\ told' = told /\ pc[q] = "free" /\ pc'[q] = "asking"
    BY <1>10 DEF Call, said, Shape
  <2>2. frames[q] = <<>>
    BY <2>1 DEF FrameInv, Early
  <2> QED
    BY <2>1, <2>2, SilentKeepsFrameInv DEF Early
<1> QED
  BY <1>1, <1>2, <1>3, <1>4, <1>5, <1>6, <1>7, <1>8, <1>9, <1>10 DEF LoopStep, Quiet

-----------------------------------------------------------------------------
(* What the conversation holds of a call.                                  *)

\* The id it named belongs to another organisation.
Foreign(q) == owner[job[q].conv] \notin {job[q].org, NULL}

Asks(m, q)    == m.by = q /\ m.role = "user" /\ m.conv = job[q].conv
Replies(m, q) == m.by = q /\ m.role = "assistant" /\ m.conv = job[q].conv

(***************************************************************************)
(* From the insert of the question on it is there, from that of the answer *)
(* on both are, the question first; and who was answered is past both.     *)
(***************************************************************************)
StoredInv(q) ==
    /\ pc[q] \in {"guard", "start", "answering"} \cup LoopSteps =>
          Foreign(q) \/ \E m \in messages : Asks(m, q)
    /\ pc[q] = "answer_insert" =>
          Foreign(q) \/ \E m \in messages : Asks(m, q) /\ m.position < slot[q]
    /\ pc[q] \in {"respond", "after"} \/ Answered(q) =>
          \/ Foreign(q)
          \/ \E a, r \in messages : Asks(a, q) /\ Replies(r, q) /\ a.position < r.position
    /\ q \in announced => Answered(q)

AnswerInv == RunInv /\ \A q \in Request : FrameInv(q) /\ StoredInv(q)

LEMMA StoredInit == Init => \A q \in Request : StoredInv(q)
  BY DEF Init, StoredInv, Answered, LoopSteps

\* Messages are added and owners set for good.
StoreGrows ==
    /\ messages \subseteq messages'
    /\ \A c \in Conversation : owner[c] # NULL => owner'[c] = owner[c]

LEMMA StoredInvStays ==
    ASSUME Shape, NEW j \in Request, StoredInv(j), FrameInv(j), StoreGrows, Mine(j)' = Mine(j),
           j \in announced' <=> j \in announced
    PROVE  StoredInv(j)'
<1>1. Answered(j)' <=> Answered(j)
  BY DEF Mine, Answered
<1>2. \A m : (Asks(m, j)' <=> Asks(m, j)) /\ (Replies(m, j)' <=> Replies(m, j))
  BY DEF Mine, Asks, Replies
<1>3. CASE pc[j] = "free"
  <2>1. frames[j] = <<>> /\ told[j] = "none"
    BY <1>3 DEF FrameInv, Early
  <2>2. DOMAIN frames[j] = {}
    BY <2>1
  <2>3. ~ Answered(j)
    BY <2>1, <2>2 DEF Answered
  <2> QED
    BY <1>1, <1>3, <2>3 DEF StoredInv, Mine, LoopSteps
<1>4. CASE pc[j] # "free"
  <2>1. job[j].conv \in Conversation
    BY <1>4 DEF Shape
  <2>2. Foreign(j) => Foreign(j)'
    BY <2>1 DEF Foreign, StoreGrows, Mine
  <2> QED
    BY <1>1, <1>2, <2>2 DEF StoredInv, StoreGrows, Mine
<1> QED
  BY <1>3, <1>4

\* A step that stores nothing: the call goes from where its question, or its
\* answer, is stored to where it still is.
LEMMA StoredInvPasses ==
    ASSUME Shape, NEW q \in Request, StoredInv(q), UNCHANGED store, job'[q] = job[q],
           Answered(q) => Answered(q)',
           Answered(q)' => Answered(q) \/ pc[q] \in {"respond", "after"},
           q \in announced' => q \in announced \/ (pc[q] = "after" /\ Answered(q)),
           \/ pc'[q] = "over"
           \/ /\ pc[q] \in {"guard", "start"} \cup LoopSteps
              /\ pc'[q] \in {"answering"} \cup LoopSteps
           \/ (pc[q] = "respond" /\ pc'[q] = "after")
    PROVE  StoredInv(q)'
<1>1. messages' = messages /\ (Foreign(q)' <=> Foreign(q))
  BY DEF store, Foreign
<1>2. \A m : (Asks(m, q)' <=> Asks(m, q)) /\ (Replies(m, q)' <=> Replies(m, q))
  BY DEF Asks, Replies
<1>3. pc'[q] \in {"guard", "start", "answering"} \cup LoopSteps =>
         Foreign(q)' \/ \E m \in messages' : Asks(m, q)'
  BY <1>1, <1>2 DEF StoredInv, LoopSteps
<1>4. pc'[q] \in {"respond", "after"} \/ Answered(q)' =>
         \/ Foreign(q)'
         \/ \E a, r \in messages' : Asks(a, q)' /\ Replies(r, q)' /\ a.position < r.position
  BY <1>1, <1>2 DEF StoredInv, LoopSteps
<1>5. pc'[q] # "answer_insert"
  BY DEF LoopSteps
<1>6. q \in announced' => Answered(q)'
  BY DEF StoredInv
<1> QED
  BY <1>3, <1>4, <1>5, <1>6 DEF StoredInv

LEMMA ReadKeepsStoredInv ==
    ASSUME Shape, Numbered, NEW q \in Request, StoredInv(q), ReadPosition(q)
    PROVE  StoredInv(q)'
<1>1. /\ job' = job /\ frames' = frames /\ told' = told /\ announced' = announced
      /\ messages' = messages /\ owner' = owner
  BY DEF ReadPosition, store, said
<1>2. Answered(q)' <=> Answered(q)
  BY <1>1 DEF Answered
<1>3. Foreign(q)' <=> Foreign(q)
  BY <1>1 DEF Foreign
<1>4. \A m : (Asks(m, q)' <=> Asks(m, q)) /\ (Replies(m, q)' <=> Replies(m, q))
  BY <1>1 DEF Asks, Replies
<1>5. CASE pc[q] = "asking"
  <2>1. pc'[q] = "ask_insert"
    BY <1>5 DEF ReadPosition, Shape
  <2> QED
    BY <1>1, <1>2, <1>3, <1>4, <2>1 DEF StoredInv, LoopSteps
<1>6. CASE pc[q] = "answering"
  <2>1. pc'[q] = "answer_insert" /\ slot'[q] = NextPosition(job[q].org, job[q].conv)
    BY <1>6 DEF ReadPosition, Shape
  <2>2. ASSUME ~ Foreign(q), NEW m \in messages, Asks(m, q) PROVE m.position < slot'[q]
    <3> DEFINE c == job[q].conv
    <3>1. c \in Conversation /\ m \in Own(c)
      BY <1>6, <2>2 DEF Shape, Asks, Own
    <3>2. owner[c] = job[q].org
      BY <2>2, <3>1 DEF Foreign, Numbered
    <3>3. slot'[q] = Cardinality(Own(c))
      BY <2>1, <3>1, <3>2, NextPositionCounts
    <3>4. m.position \in 0..(Cardinality(Own(c)) - 1)
      BY <3>1 DEF Numbered, PositionsAgree, Own
    <3> QED
      BY <3>3, <3>4, OwnIsFinite
  <2>3. Foreign(q) \/ \E m \in messages : Asks(m, q) /\ m.position < slot'[q]
    BY <1>6, <2>2 DEF StoredInv
  <2> QED
    BY <1>1, <1>2, <1>3, <1>4, <2>1, <2>3 DEF StoredInv, LoopSteps
<1> QED
  BY <1>5, <1>6 DEF ReadPosition

LEMMA InsertGrowsStore ==
    ASSUME Shape, NEW q \in Request, InsertMessage(q)
    PROVE  StoreGrows
<1>1. job[q].conv \in Conversation
  BY DEF InsertMessage, Shape
<1> QED
  BY <1>1 DEF InsertMessage, StoreGrows, Shape, store

LEMMA InsertKeepsStoredInv ==
    ASSUME Shape, Numbered, NEW q \in Request, StoredInv(q), FrameInv(q), InsertMessage(q)
    PROVE  StoredInv(q)'
<1>a. job[q] \in [kind : {"run", "stream"}, org : Org, conv : Conversation]
  BY DEF InsertMessage, Shape
<1>b. PICK c \in Conversation : c = job[q].conv
  BY <1>a
<1>0. job[q].org \in Org /\ job[q].org # NULL /\ UNCHANGED <<job, slot, announced>>
  BY <1>a, AgentAssumption DEF InsertMessage
<1>1. /\ \A m : (Asks(m, q)' <=> Asks(m, q)) /\ (Replies(m, q)' <=> Replies(m, q))
  BY <1>0 DEF Asks, Replies
<1>2. ~ Answered(q) /\ q \notin announced
  <2>1. pc[q] \in {"ask_insert", "answer_insert"}
    BY DEF InsertMessage
  <2>2. ~ Answered(q)
    BY <2>1 DEF FrameInv, Answered
  <2> QED
    BY <2>2 DEF StoredInv
<1>3. CASE Raise(q) /\ UNCHANGED store
  <2>1. pc'[q] = "over"
    BY <1>3 DEF Raise, Shape
  <2>2. ~ Answered(q)'
    <3>1. CASE Opened(q) /\ Send(q, "error")
      <4>1. IsStream(q) /\ frames[q] \in Seq(Frame) /\ frames'[q] = Append(frames[q], "error")
        BY <3>1, SendKeepsShape DEF Opened, Frame, Shape
      <4>2. told'[q] = told[q]
        BY <1>3, <3>1 DEF Raise
      <4>3. \A i \in DOMAIN frames'[q] :
               frames'[q][i] = "error" \/ (i \in DOMAIN frames[q] /\ frames'[q][i] = frames[q][i])
        BY <4>1
      <4> QED
        BY <1>2, <4>2, <4>3 DEF Answered
    <3>2. CASE ~ Opened(q)
      <4>1. frames'[q] = frames[q] /\ told'[q] = "failed"
        BY <1>3, <3>2 DEF Raise, Shape
      <4> QED
        BY <1>2, <4>1 DEF Answered
    <3> QED
      BY <1>3, <3>1, <3>2 DEF Raise
  <2> QED
    BY <1>0, <1>2, <2>1, <2>2 DEF StoredInv, LoopSteps
<1>4. CASE /\ owner' = [owner EXCEPT ![c] = Owner(q)]
           /\ messages' = IF Owner(q) = job[q].org THEN messages \cup {Written(q)} ELSE messages
           /\ pc' = [pc EXCEPT ![q] = AfterAppend(q)]
           /\ UNCHANGED <<frames, told>>
  <2>1. ~ Answered(q)' /\ q \notin announced'
    BY <1>0, <1>2, <1>4 DEF Answered
  <2>2. pc'[q] = AfterAppend(q) /\ owner'[c] = Owner(q)
    BY <1>4 DEF Shape
  <2>3. CASE Owner(q) # job[q].org
    <3>1. Foreign(q)'
      BY <1>0, <1>b, <2>2, <2>3 DEF Foreign, Owner
    <3> QED
      BY <2>1, <3>1 DEF StoredInv
  <2>4. CASE Owner(q) = job[q].org
    <3>1. Written(q) \in messages' /\ messages \subseteq messages'
      BY <1>4, <2>4
    <3>2. CASE pc[q] = "ask_insert"
      <4>1. Asks(Written(q), q) /\ pc'[q] \in {"start", "guard"}
        BY <2>2, <3>2 DEF Asks, Written, AfterAppend
      <4>2. \E m \in messages' : Asks(m, q)'
        BY <1>1, <3>1, <4>1
      <4> QED
        BY <2>1, <4>1, <4>2 DEF StoredInv
    <3>3. CASE pc[q] = "answer_insert"
      <4>1. ~ Foreign(q)
        BY <1>0, <1>b, <2>4 DEF Foreign, Owner
      <4>2. PICK a \in messages : Asks(a, q) /\ a.position < slot[q]
        BY <3>3, <4>1 DEF StoredInv
      <4>3. Replies(Written(q), q) /\ Written(q).position = slot[q] /\ pc'[q] = "respond"
        BY <2>2, <3>3 DEF Replies, Written, AfterAppend
      <4>4. \E x, r \in messages' : Asks(x, q)' /\ Replies(r, q)' /\ x.position < r.position
        BY <1>1, <3>1, <4>2, <4>3
      <4> QED
        BY <2>1, <4>3, <4>4 DEF StoredInv, LoopSteps
    <3> QED
      BY <3>2, <3>3 DEF InsertMessage
  <2> QED
    BY <2>3, <2>4
<1> QED
  BY <1>b, <1>3, <1>4 DEF InsertMessage, Owner, Written

LEMMA QuietKeepsStoredInv ==
    ASSUME Shape, NEW q \in Request, StoredInv(q), FrameInv(q), FrameInv(q)',
           Answered(q) => Answered(q)', Quiet(q) \/ LoopStep(q)
    PROVE  StoredInv(q)'
<1>1. UNCHANGED store /\ job' = job
  BY DEF Quiet, ApplyInputGuardrail, StartStream, Respond, Complete, CompleteFails, Leave, Fail,
         LoopStep, Reason, Act, Observe, Finalize
<1>2. \/ pc'[q] = "over"
      \/ /\ pc[q] \in {"guard", "start"} \cup LoopSteps
         /\ pc'[q] \in {"answering"} \cup LoopSteps
      \/ (pc[q] = "respond" /\ pc'[q] = "after")
  BY DEF Quiet, ApplyInputGuardrail, StartStream, Respond, Complete, CompleteFails, Leave, Fail,
         Raise, LoopStep, Reason, Act, Observe, RouteAfterObserve, Finalize, Shape, LoopSteps
<1>3. q \in announced' => q \in announced \/ (pc[q] = "after" /\ Answered(q))
  BY DEF Quiet, ApplyInputGuardrail, StartStream, Respond, Complete, CompleteFails, Leave, Fail,
         LoopStep, Reason, Act, Observe, Finalize, said, FrameInv
<1>4. Answered(q)' => Answered(q) \/ pc[q] \in {"respond", "after"}
  <2> SUFFICES ASSUME Answered(q)', pc[q] \notin {"respond", "after"} PROVE Answered(q)
    OBVIOUS
  <2>1. pc'[q] = "over"
    BY <1>2 DEF FrameInv, Answered, LoopSteps
  <2>2. CASE Fail(q) /\ Opened(q)
    <3>1. /\ told'[q] = told[q] /\ frames[q] \in Seq(Frame)
          /\ frames'[q] = Append(frames[q], "error")
      BY <2>2, SendKeepsShape DEF Fail, Raise, Opened, Frame, Shape
    <3>2. \A i \in DOMAIN frames'[q] :
             frames'[q][i] = "error" \/ (i \in DOMAIN frames[q] /\ frames'[q][i] = frames[q][i])
      BY <3>1
    <3> QED
      BY <3>1, <3>2 DEF Answered
  <2>3. CASE Fail(q) /\ ~ Opened(q)
    <3>1. frames'[q] = frames[q] /\ told'[q] = "failed"
      BY <2>3 DEF Fail, Raise, Shape
    <3> QED
      BY <3>1 DEF Answered
  <2>4. CASE ApplyInputGuardrail(q)
    <3>1. frames'[q] = frames[q] /\ told'[q] \in {told[q], "blocked"}
      BY <2>4 DEF ApplyInputGuardrail, Shape
    <3> QED
      BY <3>1 DEF Answered
  <2>5. CASE Complete(q) \/ CompleteFails(q) \/ Leave(q)
    BY <2>5 DEF Complete, CompleteFails, Leave, said, Answered
  <2>6. ~ (StartStream(q) \/ Respond(q) \/ LoopStep(q))
    BY <2>1 DEF StartStream, Respond, LoopStep, Reason, Act, Observe, RouteAfterObserve, Finalize,
                Shape
  <2> QED
    BY <2>2, <2>3, <2>4, <2>5, <2>6 DEF Quiet
<1> QED
  BY <1>1, <1>2, <1>3, <1>4, StoredInvPasses

LEMMA CallKeepsStoredInv ==
    ASSUME Shape, NEW q \in Request, StoredInv(q), FrameInv(q)',
           NEW kind \in {"run", "stream"}, NEW o \in Org, Call(q, kind, o), FrameInv(q)
    PROVE  StoredInv(q)' /\ StoreGrows
<1>1. /\ pc'[q] = "asking" /\ messages' = messages /\ announced' = announced /\ pc[q] = "free"
  BY DEF Call, said, Shape
<1>2. ~ Answered(q) /\ ~ Answered(q)'
  BY <1>1 DEF FrameInv, Answered, Early
<1>3. StoreGrows
  BY <1>1, AgentAssumption DEF Call, StoreGrows, Shape
<1> QED
  BY <1>1, <1>2, <1>3 DEF StoredInv, LoopSteps

LEMMA AnswerStep == AnswerInv /\ [Next]_vars => AnswerInv'
<1> SUFFICES ASSUME AnswerInv, [Next]_vars PROVE AnswerInv'
  OBVIOUS
<1>0. RunInv /\ Shape /\ Numbered /\ \A q \in Request : FrameInv(q) /\ StoredInv(q)
  BY DEF AnswerInv, RunInv
<1>1. RunInv'
  BY <1>0, RunStep
<1>2. ASSUME NEW q \in Request, Apart(q), FrameInv(q)', StoredInv(q)', StoreGrows
      PROVE  \A j \in Request : FrameInv(j)' /\ StoredInv(j)'
  BY <1>0, <1>2, FrameInvStays, StoredInvStays DEF Apart
<1>3. UNCHANGED store => StoreGrows
  BY DEF store, StoreGrows
<1>4. ASSUME NEW q \in Request, Quiet(q) \/ LoopStep(q)
      PROVE  \A j \in Request : FrameInv(j)' /\ StoredInv(j)'
  <2>1. Apart(q) /\ UNCHANGED store
    BY <1>0, <1>4, OtherStepShape, LoopStepShape
       DEF Quiet, ApplyInputGuardrail, StartStream, Respond, Complete, CompleteFails, Leave, Fail,
           LoopStep, Reason, Act, Observe, Finalize
  <2>2. FrameInv(q)' /\ (Answered(q) => Answered(q)')
    BY <1>0, <1>4, FrameInvStep
  <2>3. StoredInv(q)'
    BY <1>0, <1>4, <2>2, QuietKeepsStoredInv
  <2> QED
    BY <1>2, <1>3, <2>1, <2>2, <2>3
<1>5. ASSUME NEW q \in Request, NEW kind \in {"run", "stream"}, NEW o \in Org, Call(q, kind, o)
      PROVE  \A j \in Request : FrameInv(j)' /\ StoredInv(j)'
  <2>1. Apart(q) /\ FrameInv(q)'
    BY <1>0, <1>5, CallShape, FrameInvStep
  <2> QED
    BY <1>0, <1>2, <1>5, <2>1, CallKeepsStoredInv
<1>6. ASSUME NEW q \in Request, ReadPosition(q)
      PROVE  \A j \in Request : FrameInv(j)' /\ StoredInv(j)'
  <2>1. Apart(q) /\ FrameInv(q)' /\ UNCHANGED store
    BY <1>0, <1>6, ReadPositionShape, FrameInvStep DEF ReadPosition
  <2> QED
    BY <1>0, <1>2, <1>3, <1>6, <2>1, ReadKeepsStoredInv
<1>7. ASSUME NEW q \in Request, InsertMessage(q)
      PROVE  \A j \in Request : FrameInv(j)' /\ StoredInv(j)'
  <2>1. Apart(q) /\ FrameInv(q)'
    BY <1>0, <1>7, InsertMessageShape, FrameInvStep
  <2> QED
    BY <1>0, <1>2, <1>7, <2>1, InsertGrowsStore, InsertKeepsStoredInv
<1>8. ASSUME UNCHANGED vars PROVE \A j \in Request : FrameInv(j)' /\ StoredInv(j)'
  <2> TAKE j \in Request
  <2>1. Mine(j)' = Mine(j) /\ announced' = announced /\ StoreGrows
    BY <1>8 DEF vars, Mine, StoreGrows
  <2> QED
    BY <1>0, <2>1, FrameInvStays, StoredInvStays
<1>9. \A j \in Request : FrameInv(j)' /\ StoredInv(j)'
  BY <1>4, <1>5, <1>6, <1>7, <1>8 DEF Next, Works, Quiet
<1> QED
  BY <1>1, <1>9 DEF AnswerInv

LEMMA AnswerInit == Init => AnswerInv
  BY RunInit, FrameInit, StoredInit DEF AnswerInv

(***************************************************************************)
(* A stream sends at most one terminal event, its last, and is not told of *)
(* its end in another way besides.                                         *)
(***************************************************************************)
THEOREM AlwaysOneTerminalFrame == Spec => []OneTerminalFrame
<1>1. AnswerInv => OneTerminalFrame
  BY DEF AnswerInv, FrameInv, OneTerminalFrame
<1> QED
  BY AnswerInit, AnswerStep, <1>1, PTL DEF Spec

(***************************************************************************)
(* Whoever got an answer finds question and answer stored, in this order,  *)
(* and only such a run is announced.                                       *)
(***************************************************************************)
THEOREM AnswerIsAlwaysStored == Spec => []AnswerIsStored
<1>1. AnswerInv => AnswerIsStored
  <2> SUFFICES ASSUME AnswerInv, NEW q \in Request
               PROVE  /\ q \in announced => Answered(q)
                      /\ Answered(q) =>
                            \/ Foreign(q)
                            \/ \E asked, replied \in messages :
                                  /\ Asks(asked, q) /\ Replies(replied, q)
                                  /\ asked.position < replied.position
    BY DEF AnswerIsStored, Foreign, Asks, Replies
  <2> QED
    BY DEF AnswerInv, StoredInv
<1> QED
  BY AnswerInit, AnswerStep, <1>1, PTL DEF Spec

=============================================================================
