-------------------------- MODULE IngestionProofs --------------------------
(***************************************************************************)
(* What holds of Ingestion for any tenants, contents and sizes, any number *)
(* of calls at once, any number of faults and restarts, and both stores.   *)
(***************************************************************************)
EXTENDS Ingestion, FiniteSetTheorems, TLAPS

-----------------------------------------------------------------------------
(* Where a call is.                                                        *)

Uploads(q) == job[q].content \in Content /\ job[q].org \in Org /\ job[q].doc = NULL

\* What a call is at a step for, and what it has got there.
Fits(q) ==
    /\ pc[q] = "free" => job[q] = Idle /\ named[q] = NULL /\ next[q] = 1
                         /\ matches[q] = {} /\ cited[q] = {} /\ around[q] = {}
    /\ pc[q] \in {"look", "extract", "embed", "upsert", "persist", "rollback"} => Uploads(q)
    /\ pc[q] \in {"look", "extract", "embed"} => next[q] = 1
    /\ pc[q] = "upsert" => next[q] \in 1..Size[job[q].content]
    /\ pc[q] = "match" => matches[q] = {} /\ cited[q] = {} /\ around[q] = {}
    /\ pc[q] \in {"find", "unlist", "unvector"} => job[q].doc \in Request
    /\ pc[q] = "unvector" => job[q].doc \notin documents
    /\ job[q].doc \in Request => pc[job[q].doc] \in {"rollback", "over"}
    /\ pc[q] # "over" => answer[q] = "none" /\ named[q] = NULL

Base ==
    /\ TypeOK
    /\ matches = [q \in Request |-> matches[q]] /\ cited = [q \in Request |-> cited[q]]
    /\ IsFiniteSet(vectors)
    /\ \A q \in Request : Fits(q)
    /\ \A v \in vectors : /\ v[1] \in Request /\ Uploads(v[1])
                          /\ pc[v[1]] \in {"upsert", "persist", "rollback", "over"}
    /\ \A d \in documents : Uploads(d) /\ pc[d] \in {"rollback", "over"}

(***************************************************************************)
(* The vectors written so far of an upload under way, the vectors of all   *)
(* that is listed, and why there are others; with pgvector there are none. *)
(***************************************************************************)
Written(q) ==
    /\ pc[q] \in {"upsert", "persist"} =>
          \A i \in 1..Size[job[q].content] : i < next[q] => <<q, i>> \in vectors
    /\ pc[q] = "persist" => next[q] > Size[job[q].content]
    /\ pc[q] = "rollback" => faults > 0 \/ \A v \in vectors : v[1] # q

StoreInv ==
    /\ \A d \in documents : WasStored(d)
    /\ VectorStore = "pgvector" =>
          vectors = {} /\ documents = {} /\ \A q \in Request : pc[q] # "persist"
    /\ \A q \in Request : Written(q)
    /\ ListedIsSearchable
    /\ OrphansForCause

(***************************************************************************)
(* What a call has found is its organisation's, and it found something if  *)
(* there was something to find; what it was told of was stored.            *)
(***************************************************************************)
Told(q) ==
    /\ \A m \in matches[q] : m[1] \in Request /\ pc[m[1]] # "free" /\ job[m[1]].org = job[q].org
    /\ around[q] # {} => matches[q] # {}
    /\ \A m \in cited[q] : m[1] \in Request /\ job[m[1]].org = job[q].org /\ WasStored(m[1])
    /\ named[q] # NULL => /\ pc[named[q]] # "free" /\ job[named[q]].org = job[q].org
                          /\ job[named[q]].content = job[q].content

ToldInv == \A q \in Request : Told(q)

-----------------------------------------------------------------------------
(* One step of one call.                                                   *)

Acts(q) ==
    \/ \E o \in Org : \/ \E c \in Content : Ingest(q, o, c)
                      \/ \E d \in Request : Delete(q, o, d)
                      \/ Query(q, o)
    \/ FindByContentHash(q) \/ ExtractionTimesOut(q) \/ Extract(q)
    \/ EmbedBatch(q) \/ Upsert(q) \/ Persist(q) \/ WriteFails(q)
    \/ Rollback(q) \/ RollbackFails(q)
    \/ GetDocument(q) \/ DeleteRecords(q) \/ DeleteVectors(q)
    \/ QueryForOrg(q) \/ ReadTexts(q) \/ Generate(q)
    \/ CallFails(q)

\* What there is of the other calls stays; faults are counted.
Moves(q) ==
    /\ job' \in [Request -> Job] /\ pc' \in [Request -> Steps] /\ answer' \in [Request -> Answers]
    /\ named' \in [Request -> Request \cup {NULL}] /\ next' \in [Request -> Nat]
    /\ late' \in [Request -> BOOLEAN] /\ around' \in [Request -> SUBSET Request]
    /\ matches' = [r \in Request |-> matches'[r]] /\ cited' = [r \in Request |-> cited'[r]]
    /\ faults' \in faults..MaxFaults /\ restarts' = restarts
    /\ lost' \subseteq lost \cup {q} /\ lost \subseteq lost'
    /\ pc[q] # "over" /\ pc'[q] # "free"
    /\ (job'[q] = job[q] \/ pc[q] = "free")
    /\ \A r \in Request \ {q} :
          /\ job'[r] = job[r] /\ pc'[r] = pc[r] /\ answer'[r] = answer[r]
          /\ named'[r] = named[r] /\ next'[r] = next[r]
          /\ matches'[r] = matches[r] /\ cited'[r] = cited[r] /\ around'[r] = around[r]

LEMMA NullIsNone == NULL \notin Org /\ NULL \notin Content /\ NULL \notin Request
  BY IngestionAssumption

LEMMA GotoIs ==
    ASSUME Base, NEW q \in Request, NEW s \in Steps, Goto(q, s)
    PROVE  /\ pc' \in [Request -> Steps] /\ pc'[q] = s
           /\ \A r \in Request \ {q} : pc'[r] = pc[r]
  BY DEF Goto, Base, TypeOK

LEMMA EndIs ==
    ASSUME Base, NEW q \in Request, NEW a \in Answers, End(q, a)
    PROVE  /\ pc' \in [Request -> Steps] /\ pc'[q] = "over"
           /\ answer' \in [Request -> Answers] /\ answer'[q] = a
           /\ \A r \in Request \ {q} : pc'[r] = pc[r] /\ answer'[r] = answer[r]
  BY GotoIs DEF End, Base, TypeOK, Steps

\* A call ends where it is.
LEMMA EndMoves ==
    ASSUME Base, NEW q \in Request, pc[q] \notin {"free", "over"}, NEW a \in Answers, End(q, a),
           UNCHANGED <<job, late, next, matches, around, restarts>>,
           named' = named \/ \E d \in Request : named' = [named EXCEPT ![q] = d],
           cited' = cited \/ \E C : cited' = [cited EXCEPT ![q] = C],
           UNCHANGED faults \/ faults' = faults + 1, faults' <= MaxFaults,
           UNCHANGED lost
    PROVE  Moves(q) /\ Fits(q)'
<1>1. /\ pc' \in [Request -> Steps] /\ pc'[q] = "over"
      /\ answer' \in [Request -> Answers] /\ answer'[q] = a
      /\ \A r \in Request \ {q} : pc'[r] = pc[r] /\ answer'[r] = answer[r]
  BY EndIs
<1>2. /\ named' \in [Request -> Request \cup {NULL}]
      /\ \A r \in Request \ {q} : named'[r] = named[r]
  BY DEF Base, TypeOK
<1>3. /\ cited' = [r \in Request |-> cited'[r]]
      /\ \A r \in Request \ {q} : cited'[r] = cited[r]
  BY DEF Base
<1>4. faults' \in faults..MaxFaults
  BY IngestionAssumption DEF Base, TypeOK
<1>5. Moves(q)
  BY <1>1, <1>2, <1>3, <1>4 DEF Moves, Base, TypeOK
<1>6. Fits(q)'
  <2>1. Fits(q) /\ job'[q] = job[q]
    BY DEF Base
  <2>2. job[q].doc \in Request => pc'[job[q].doc] \in {"rollback", "over"}
    BY <1>1, <2>1 DEF Fits
  <2> QED
    BY <1>1, <2>1, <2>2 DEF Fits
<1> QED
  BY <1>5, <1>6

\* A call goes on to its next step.
LEMMA GotoMoves ==
    ASSUME Base, NEW q \in Request, pc[q] \notin {"free", "over"},
           NEW s \in Steps \ {"free", "match", "over"}, Goto(q, s),
           UNCHANGED <<job, answer, named, restarts>>,
           late' \in [Request -> BOOLEAN],
           UNCHANGED next \/ (pc[q] = "upsert" /\ next' = [next EXCEPT ![q] = next[q] + 1]),
           UNCHANGED matches \/ \E M : matches' = [matches EXCEPT ![q] = M],
           UNCHANGED around \/ \E A \in SUBSET Request : around' = [around EXCEPT ![q] = A],
           UNCHANGED cited \/ \E C : cited' = [cited EXCEPT ![q] = C],
           UNCHANGED faults \/ faults' = faults + 1, faults' <= MaxFaults,
           UNCHANGED lost \/ lost' = lost \cup {q},
           s \in {"look", "extract", "embed", "upsert", "persist", "rollback"} => Uploads(q),
           s \in {"look", "extract", "embed"} => next[q] = 1 /\ UNCHANGED next,
           s = "upsert" => next'[q] \in 1..Size[job[q].content],
           s \in {"find", "unlist", "unvector"} => job[q].doc \in Request,
           s = "unvector" => job[q].doc \notin documents'
    PROVE  Moves(q) /\ Fits(q)'
<1>1. pc' \in [Request -> Steps] /\ pc'[q] = s /\ \A r \in Request \ {q} : pc'[r] = pc[r]
  BY GotoIs
<1>2. /\ matches' = [r \in Request |-> matches'[r]] /\ cited' = [r \in Request |-> cited'[r]]
      /\ around' \in [Request -> SUBSET Request]
      /\ \A r \in Request \ {q} : /\ matches'[r] = matches[r] /\ cited'[r] = cited[r]
                                  /\ around'[r] = around[r]
  BY DEF Base, TypeOK
<1>3. next' \in [Request -> Nat] /\ \A r \in Request \ {q} : next'[r] = next[r]
  BY DEF Base, TypeOK
<1>4. faults' \in faults..MaxFaults
  BY IngestionAssumption DEF Base, TypeOK
<1>5. Moves(q)
  BY <1>1, <1>2, <1>3, <1>4 DEF Moves, Base, TypeOK
<1>6. Fits(q)'
  <2>1. Fits(q) /\ job'[q] = job[q] /\ job[q].doc \in Request \cup {NULL}
    BY DEF Base, TypeOK, Job
  <2>2. job[q].doc \in Request => pc'[job[q].doc] \in {"rollback", "over"}
    BY <1>1, <2>1, NullIsNone DEF Fits, Uploads
  <2>3. answer'[q] = "none" /\ named'[q] = NULL
    BY <2>1 DEF Fits
  <2>4. Uploads(q)' = Uploads(q)
    BY <2>1 DEF Uploads
  <2> QED
    BY <1>1, <2>1, <2>2, <2>3, <2>4 DEF Fits
<1> QED
  BY <1>5, <1>6

\* A call is made; one that deletes a document does so of one it was told of.
LEMMA StartMoves ==
    ASSUME Base, NEW q \in Request, pc[q] = "free",
           NEW s \in {"look", "find", "match"}, Goto(q, s),
           NEW j \in Job, job' = [job EXCEPT ![q] = j],
           UNCHANGED <<stores, late, next, found, said, bounds>>,
           s = "look" => j.content \in Content /\ j.org \in Org /\ j.doc = NULL,
           s = "find" => j.doc \in Request,
           j.doc \in Request => pc[j.doc] \in {"rollback", "over"}
    PROVE  Moves(q) /\ Fits(q)'
<1>1. pc' \in [Request -> Steps] /\ pc'[q] = s /\ \A r \in Request \ {q} : pc'[r] = pc[r]
  BY GotoIs DEF Steps
<1>2. /\ job' \in [Request -> Job] /\ job'[q] = j
      /\ \A r \in Request \ {q} : job'[r] = job[r]
  BY DEF Base, TypeOK
<1>3. faults' \in faults..MaxFaults
  BY IngestionAssumption DEF Base, TypeOK, bounds
<1>4. Moves(q)
  BY <1>1, <1>2, <1>3 DEF Moves, Base, TypeOK, stores, found, said, bounds
<1>5. Fits(q)'
  <2>1. Fits(q)
    BY DEF Base
  <2>2. j.doc \in Request => pc'[j.doc] \in {"rollback", "over"}
    BY <1>1
  <2>3. answer'[q] = "none" /\ named'[q] = NULL /\ next'[q] = 1
        /\ matches'[q] = {} /\ cited'[q] = {} /\ around'[q] = {}
    BY <2>1 DEF Fits, said, found
  <2>4. s = "look" => Uploads(q)'
    BY <1>2 DEF Uploads
  <2> QED
    BY <1>1, <1>2, <2>2, <2>3, <2>4 DEF Fits
<1> QED
  BY <1>4, <1>5

LEMMA ActsMove ==
    ASSUME Base, NEW q \in Request, Acts(q)
    PROVE  Moves(q) /\ Fits(q)'
<1>1. Fits(q) /\ job[q] \in Job
  BY DEF Base, TypeOK
<1>2. ASSUME NEW o \in Org, NEW c \in Content, Ingest(q, o, c) PROVE Moves(q) /\ Fits(q)'
  <2> DEFINE j == [org |-> o, content |-> c, doc |-> NULL]
  <2>1. /\ j \in Job /\ pc[q] = "free" /\ Goto(q, "look") /\ job' = [job EXCEPT ![q] = j]
        /\ UNCHANGED <<stores, late, next, found, said, bounds>>
    BY <1>2 DEF Ingest, Job
  <2>2. j.content \in Content /\ j.org \in Org /\ j.doc = NULL
    OBVIOUS
  <2> HIDE DEF j
  <2> QED
    BY <2>1, <2>2, NullIsNone, StartMoves
<1>3. ASSUME NEW o \in Org, NEW d \in Request, Delete(q, o, d) PROVE Moves(q) /\ Fits(q)'
  <2> DEFINE j == [org |-> o, content |-> NULL, doc |-> d]
  <2>1. /\ j \in Job /\ pc[q] = "free" /\ Goto(q, "find") /\ job' = [job EXCEPT ![q] = j]
        /\ UNCHANGED <<stores, late, next, found, said, bounds>>
    BY <1>3 DEF Delete, Job
  <2>2. j.doc = d
    OBVIOUS
  <2>3. pc[d] \in {"rollback", "over"}
    <3>1. d \in documents \/ named[d] = d
      BY <1>3 DEF Delete
    <3>2. Fits(d)
      BY DEF Base
    <3> QED
      BY <3>1, <3>2, NullIsNone DEF Base, Fits
  <2> HIDE DEF j
  <2> QED
    BY <2>1, <2>2, <2>3, StartMoves
<1>4. ASSUME NEW o \in Org, Query(q, o) PROVE Moves(q) /\ Fits(q)'
  <2> DEFINE j == [org |-> o, content |-> NULL, doc |-> NULL]
  <2>1. /\ j \in Job /\ pc[q] = "free" /\ Goto(q, "match") /\ job' = [job EXCEPT ![q] = j]
        /\ UNCHANGED <<stores, late, next, found, said, bounds>>
    BY <1>4 DEF Query, Job
  <2>2. j.doc = NULL
    OBVIOUS
  <2> HIDE DEF j
  <2> QED
    BY <2>1, <2>2, NullIsNone, StartMoves
<1>5. CASE FindByContentHash(q)
  <2>1. CASE Copies(q) # {}
    BY <1>5, <2>1, EndMoves
       DEF FindByContentHash, Copies, Own, stores, found, bounds, Answers, Base, TypeOK
  <2>2. CASE Copies(q) = {}
    BY <1>1, <1>5, <2>2, GotoMoves
       DEF FindByContentHash, stores, found, said, bounds, Steps, Base, TypeOK, Fits
  <2> QED
    BY <2>1, <2>2
<1>6. CASE ExtractionTimesOut(q)
  <2>1. Moves(q)
    BY <1>6, IngestionAssumption
       DEF ExtractionTimesOut, Moves, Base, TypeOK, stores, found, said, bounds
  <2>2. Fits(q)'
    BY <1>1, <1>6 DEF ExtractionTimesOut, Fits, Uploads, stores, found, said, bounds
  <2> QED
    BY <2>1, <2>2
<1>7. CASE Extract(q)
  BY <1>1, <1>7, EndMoves, GotoMoves
     DEF Extract, stores, found, said, bounds, Steps, Answers, Base, TypeOK, Fits
<1>8. CASE EmbedBatch(q)
  <2>1. CASE Goto(q, "upsert") /\ UNCHANGED answer
    <3>1. Size[job[q].content] \in Nat \ {0} /\ next[q] = 1 /\ Uploads(q) /\ pc[q] = "embed"
      BY <1>1, <1>8, IngestionAssumption DEF EmbedBatch, Fits, Uploads
    <3>2. next'[q] \in 1..Size[job[q].content]
      BY <1>8, <3>1 DEF EmbedBatch
    <3> QED
      BY <1>8, <2>1, <3>1, <3>2, GotoMoves
         DEF EmbedBatch, stores, found, said, bounds, Steps, Base, TypeOK
  <2>2. CASE End(q, "rejected")
    BY <1>8, <2>2, EndMoves DEF EmbedBatch, stores, found, bounds, Answers, Base, TypeOK
  <2> QED
    BY <1>8, <2>1, <2>2 DEF EmbedBatch
<1>9. CASE Upsert(q)
  <2>1. /\ Size[job[q].content] \in Nat /\ next[q] \in 1..Size[job[q].content] /\ Uploads(q)
        /\ pc[q] = "upsert" /\ next \in [Request -> Nat]
    BY <1>1, <1>9, IngestionAssumption DEF Upsert, Fits, Uploads, Base, TypeOK
  <2>2. CASE VectorStore = "pgvector" /\ q \notin documents
    BY <1>9, <2>1, <2>2, GotoMoves
       DEF Upsert, stores, found, said, bounds, Steps, Base, TypeOK
  <2>3. CASE ~(VectorStore = "pgvector" /\ q \notin documents)
    <3> DEFINE s == IF next[q] = Size[job[q].content] THEN "persist" ELSE "upsert"
    <3>1. /\ next' = [next EXCEPT ![q] = next[q] + 1] /\ Goto(q, s)
          /\ UNCHANGED <<documents, job, late, found, said, bounds>>
      BY <1>9, <2>3 DEF Upsert
    <3>2. s \in {"persist", "upsert"} /\ (s = "upsert" => next'[q] \in 1..Size[job[q].content])
      BY <2>1, <3>1
    <3>3. /\ s \in Steps \ {"free", "match", "over"} /\ s \notin {"look", "extract", "embed"}
          /\ s \notin {"find", "unlist", "unvector"}
      BY <3>2 DEF Steps
    <3>4. /\ UNCHANGED <<job, answer, named, restarts, matches, around, cited, faults, lost>>
          /\ late' \in [Request -> BOOLEAN] /\ faults' <= MaxFaults
      BY <3>1 DEF found, said, bounds, Base, TypeOK
    <3> HIDE DEF s
    <3> QED
      BY <2>1, <3>1, <3>2, <3>3, <3>4, GotoMoves
  <2> QED
    BY <2>2, <2>3
<1>10. CASE Persist(q)
  <2>1. /\ pc[q] = "persist" /\ End(q, "created") /\ "created" \in Answers
        /\ named' = [named EXCEPT ![q] = q]
        /\ UNCHANGED <<job, late, next, matches, around, cited, restarts, faults, lost>>
        /\ faults' <= MaxFaults
    BY <1>10 DEF Persist, found, bounds, Answers, Base, TypeOK
  <2> QED
    BY <2>1, EndMoves
<1>11. CASE WriteFails(q)
  <2>1. /\ pc[q] \in {"upsert", "persist"} /\ Goto(q, "rollback") /\ Uploads(q)
        /\ UNCHANGED <<job, answer, named, restarts, next, matches, around, cited>>
        /\ late' \in [Request -> BOOLEAN]
        /\ UNCHANGED lost \/ lost' = lost \cup {q}
    BY <1>1, <1>11 DEF WriteFails, found, said, Base, TypeOK, Fits
  <2>2. faults' = faults + 1 /\ faults' <= MaxFaults
    BY <1>11, IngestionAssumption DEF WriteFails, Base, TypeOK
  <2> QED
    BY <2>1, <2>2, GotoMoves DEF Steps
<1>12. CASE Rollback(q)
  BY <1>12, EndMoves DEF Rollback, found, bounds, Answers, Base, TypeOK
<1>13. CASE RollbackFails(q)
  BY <1>13, EndMoves, IngestionAssumption
     DEF RollbackFails, Fault, found, Answers, Base, TypeOK
<1>14. CASE GetDocument(q)
  <2>1. CASE Own(q, job[q].doc)
    BY <1>1, <1>14, <2>1, GotoMoves
       DEF GetDocument, stores, found, bounds, Steps, Base, TypeOK, Fits
  <2>2. CASE ~Own(q, job[q].doc)
    BY <1>14, <2>2, EndMoves DEF GetDocument, stores, found, bounds, Answers, Base, TypeOK
  <2> QED
    BY <2>1, <2>2
<1>15. CASE DeleteRecords(q)
  BY <1>1, <1>15, GotoMoves
     DEF DeleteRecords, found, said, bounds, Steps, Base, TypeOK, Fits
<1>16. CASE DeleteVectors(q)
  BY <1>16, EndMoves DEF DeleteVectors, found, bounds, Answers, Base, TypeOK
<1>17. CASE QueryForOrg(q)
  <2> DEFINE A == {d \in documents : Own(q, d) /\ ChunksOf(d) \subseteq vectors}
  <2>1. A \in SUBSET Request
    BY DEF Base, TypeOK
  <2>2. around' = [around EXCEPT ![q] = A] /\ \E M : matches' = [matches EXCEPT ![q] = M]
    BY <1>17 DEF QueryForOrg
  <2> HIDE DEF A
  <2>3. /\ pc[q] = "match" /\ Goto(q, "texts") /\ "texts" \in Steps
        /\ UNCHANGED <<job, answer, named, restarts, next, cited, faults, lost>>
        /\ late' \in [Request -> BOOLEAN] /\ faults' <= MaxFaults
    BY <1>17 DEF QueryForOrg, stores, said, bounds, Steps, Base, TypeOK
  <2> QED
    BY <2>1, <2>2, <2>3, GotoMoves
<1>18. CASE ReadTexts(q)
  <2>1. pc[q] = "texts" /\ cited' = [cited EXCEPT ![q] = GetChunkTexts(q)]
    BY <1>18 DEF ReadTexts
  <2>2. \E C : cited' = [cited EXCEPT ![q] = C]
    BY <2>1
  <2>3. /\ UNCHANGED <<job, late, next, matches, around, named, restarts, faults, lost>>
        /\ late' \in [Request -> BOOLEAN] /\ faults' <= MaxFaults
    BY <1>18 DEF ReadTexts, stores, bounds, Base, TypeOK
  <2>4. CASE GetChunkTexts(q) = {}
    <3>1. End(q, "nothing") /\ "nothing" \in Answers
      BY <1>18, <2>4 DEF ReadTexts, Answers
    <3> QED
      BY <2>1, <2>2, <2>3, <3>1, EndMoves
  <2>5. CASE GetChunkTexts(q) # {}
    <3>1. Goto(q, "generate") /\ UNCHANGED answer /\ "generate" \in Steps
      BY <1>18, <2>5 DEF ReadTexts, Steps
    <3> QED
      BY <2>1, <2>2, <2>3, <3>1, GotoMoves
  <2> QED
    BY <2>4, <2>5
<1>19. CASE Generate(q)
  BY <1>19, EndMoves DEF Generate, stores, found, bounds, Answers, Base, TypeOK
<1>20. CASE CallFails(q)
  BY <1>20, EndMoves, IngestionAssumption
     DEF CallFails, Fault, stores, found, Answers, Base, TypeOK
<1> QED
  BY <1>2, <1>3, <1>4, <1>5, <1>6, <1>7, <1>8, <1>9, <1>10, <1>11, <1>12, <1>13, <1>14, <1>15,
     <1>16, <1>17, <1>18, <1>19, <1>20 DEF Acts

\* An upload goes forward, and writes its own document and its own vectors only.
LEMMA ActsOnward ==
    ASSUME Base, NEW q \in Request, Acts(q)
    PROVE  /\ pc[q] \in {"upsert", "persist", "rollback", "over"} =>
                 pc'[q] \in {"upsert", "persist", "rollback", "over"}
           /\ pc[q] = "rollback" => pc'[q] = "over"
           /\ pc'[q] = "persist" => pc[q] = "upsert"
           /\ \A d \in documents' : d \in documents \/ (/\ d = q /\ pc[q] = "persist"
                                                        /\ pc'[q] \in {"rollback", "over"})
           /\ \A v \in vectors' : v \in vectors \/ (/\ v = <<q, next[q]>> /\ pc[q] = "upsert"
                                                    /\ pc'[q] \in {"upsert", "persist"})
<1> USE DEF Acts, Ingest, Delete, Query, FindByContentHash, ExtractionTimesOut, Extract,
            EmbedBatch, Upsert, Persist, WriteFails, Rollback, RollbackFails, GetDocument,
            DeleteRecords, DeleteVectors, QueryForOrg, ReadTexts, Generate, CallFails,
            Goto, End, stores
<1>1. pc \in [Request -> Steps]
  BY DEF Base, TypeOK
<1>2. /\ pc[q] \in {"upsert", "persist", "rollback", "over"} =>
            pc'[q] \in {"upsert", "persist", "rollback", "over"}
      /\ pc[q] = "rollback" => pc'[q] = "over"
      /\ pc'[q] = "persist" => pc[q] = "upsert"
  BY <1>1
<1>3. \A d \in documents' : d \in documents \/ (/\ d = q /\ pc[q] = "persist"
                                                /\ pc'[q] \in {"rollback", "over"})
  BY <1>1
<1>4. \A v \in vectors' : v \in vectors \/ (/\ v = <<q, next[q]>> /\ pc[q] = "upsert"
                                            /\ pc'[q] \in {"upsert", "persist"})
  BY <1>1
<1> QED
  BY <1>2, <1>3, <1>4

\* What is stored of a document whose upload is past its embedding stays its own.
LEMMA KeepsItsChunks ==
    ASSUME Base, NEW q \in Request, Moves(q), NEW d \in Request, pc[d] # "free"
    PROVE  job'[d] = job[d] /\ pc'[d] # "free" /\ ChunksOf(d)' = ChunksOf(d)
           /\ Uploads(d)' = Uploads(d)
<1>1. job'[d] = job[d] /\ pc'[d] # "free"
  BY DEF Moves
<1>2. ChunksOf(d)' = ChunksOf(d)
  BY <1>1 DEF ChunksOf
<1>3. Uploads(d)' = Uploads(d)
  BY <1>1 DEF Uploads
<1> QED
  BY <1>1, <1>2, <1>3

\* No query takes more than K chunks.
LEMMA TakesFew ==
    ASSUME Base, NEW q \in Request, Acts(q), NEW r \in Request
    PROVE  cited'[r] \subseteq matches'[r] /\ Cardinality(matches'[r]) <= K
<1>1. Moves(q)
  BY ActsMove
<1>2. cited[r] \subseteq matches[r] /\ Cardinality(matches[r]) <= K
  BY DEF Base, TypeOK
<1>3. CASE r # q
  BY <1>1, <1>2, <1>3 DEF Moves
<1>4. CASE r = q /\ QueryForOrg(q)
  <2>1. PICK found1 \in SUBSET Searchable(q) :
            /\ Cardinality(found1) = IF K < Cardinality(Searchable(q)) THEN K
                                     ELSE Cardinality(Searchable(q))
            /\ matches' = [matches EXCEPT ![q] = found1]
    BY <1>4 DEF QueryForOrg
  <2>2. matches'[q] = found1 /\ cited' = cited
    BY <1>4, <2>1 DEF QueryForOrg, Base
  <2>3. cited[q] = {}
    BY <1>4 DEF QueryForOrg, Base, Fits
  <2>4. Cardinality(found1) <= K
    <3>1. IsFiniteSet(Searchable(q))
      BY FS_Subset DEF Base, Searchable
    <3>2. Cardinality(Searchable(q)) \in Nat
      BY <3>1, FS_CardinalityType
    <3>3. K \in Nat
      BY IngestionAssumption
    <3> QED
      BY <2>1, <3>2, <3>3
  <2> QED
    BY <1>4, <2>2, <2>3, <2>4
<1>5. CASE r = q /\ ReadTexts(q)
  <2>1. matches' = matches /\ cited'[q] = GetChunkTexts(q)
    BY <1>5 DEF ReadTexts, Base
  <2> QED
    BY <1>2, <1>5, <2>1 DEF GetChunkTexts
<1>6. CASE r = q /\ ~QueryForOrg(q) /\ ~ReadTexts(q)
  <2>1. matches' = matches /\ cited' = cited
    BY <1>6 DEF Acts, Ingest, Delete, Query, FindByContentHash, ExtractionTimesOut, Extract,
            EmbedBatch, Upsert, Persist, WriteFails, Rollback, RollbackFails, GetDocument,
            DeleteRecords, DeleteVectors, Generate, CallFails, found
  <2> QED
    BY <1>2, <2>1
<1> QED
  BY <1>3, <1>4, <1>5, <1>6

\* A call at rest is not disturbed by another.
LEMMA OthersFit ==
    ASSUME Base, NEW q \in Request, Acts(q), NEW r \in Request, r # q
    PROVE  Fits(r)'
<1>1. Moves(q)
  BY ActsMove
<1>2. Fits(r) /\ job[r] \in Job
  BY DEF Base, TypeOK
<1>3. /\ job'[r] = job[r] /\ pc'[r] = pc[r] /\ answer'[r] = answer[r] /\ named'[r] = named[r]
      /\ next'[r] = next[r] /\ matches'[r] = matches[r] /\ cited'[r] = cited[r]
      /\ around'[r] = around[r]
  BY <1>1 DEF Moves
<1>4. ASSUME NEW d \in Request, pc[d] \in {"rollback", "over"}
      PROVE  pc'[d] \in {"rollback", "over"} /\ (d \notin documents => d \notin documents')
  BY <1>1, <1>4, ActsOnward DEF Moves
<1>5. job[r].doc \in Request => pc'[job[r].doc] \in {"rollback", "over"}
  BY <1>2, <1>4 DEF Fits
<1>6. pc[r] = "unvector" => job[r].doc \notin documents'
  BY <1>2, <1>4 DEF Fits
<1>7. Uploads(r)' = Uploads(r)
  BY <1>3 DEF Uploads
<1> QED
  BY <1>2, <1>3, <1>5, <1>6, <1>7 DEF Fits

LEMMA VectorsStayTheirOwners ==
    ASSUME Base, NEW q \in Request, Acts(q)
    PROVE  /\ IsFiniteSet(vectors')
           /\ \A v \in vectors' : /\ v[1] \in Request /\ Uploads(v[1])'
                                  /\ pc'[v[1]] \in {"upsert", "persist", "rollback", "over"}
                                  /\ v \in ChunksOf(v[1])'
<1>1. Moves(q) /\ Fits(q)'
  BY ActsMove
<1>2. IsFiniteSet(vectors')
  <2>1. IsFiniteSet(vectors \cup {<<q, next[q]>>})
    BY FS_AddElement DEF Base
  <2>2. vectors' \subseteq vectors \cup {<<q, next[q]>>}
    BY ActsOnward
  <2> QED
    BY <2>1, <2>2, FS_Subset
<1>3. ASSUME NEW v \in vectors'
      PROVE  /\ v[1] \in Request /\ Uploads(v[1])'
             /\ pc'[v[1]] \in {"upsert", "persist", "rollback", "over"}
             /\ v \in ChunksOf(v[1])'
  <2>1. CASE v \in vectors
    <3>1. /\ v[1] \in Request /\ Uploads(v[1]) /\ v \in ChunksOf(v[1])
          /\ pc[v[1]] \in {"upsert", "persist", "rollback", "over"}
      BY <2>1 DEF Base, TypeOK
    <3>2. pc'[v[1]] \in {"upsert", "persist", "rollback", "over"}
      BY <1>1, <3>1, ActsOnward DEF Moves
    <3>3. Uploads(v[1])' = Uploads(v[1]) /\ ChunksOf(v[1])' = ChunksOf(v[1])
      BY <1>1, <3>1, KeepsItsChunks
    <3> QED
      BY <3>1, <3>2, <3>3
  <2>2. CASE v \notin vectors
    <3>1. v = <<q, next[q]>> /\ pc[q] = "upsert" /\ pc'[q] \in {"upsert", "persist"}
      BY <2>2, ActsOnward
    <3>2. next[q] \in 1..Size[job[q].content] /\ Uploads(q)
      BY <3>1 DEF Base, Fits
    <3>3. v[1] = q /\ v \in ChunksOf(q)
      BY <3>1, <3>2 DEF ChunksOf
    <3>4. Uploads(q)' = Uploads(q) /\ ChunksOf(q)' = ChunksOf(q)
      BY <1>1, <3>1, KeepsItsChunks
    <3> QED
      BY <3>1, <3>2, <3>3, <3>4
  <2> QED
    BY <2>1, <2>2
<1> QED
  BY <1>2, <1>3

LEMMA BaseInit == Init => Base
<1> SUFFICES ASSUME Init PROVE Base
  OBVIOUS
<1>1. IsFiniteSet(vectors) /\ \A q \in Request : matches[q] = {} /\ cited[q] = {}
  BY FS_EmptySet DEF Init
<1>2. 0 <= K /\ 0 \in 0..MaxFaults /\ 0 \in 0..MaxRestarts
  BY IngestionAssumption
<1>3. TypeOK
  BY <1>1, <1>2, FS_EmptySet DEF Init, TypeOK, Job, Idle, Steps, Answers
<1>4. \A q \in Request : Fits(q)
  BY NullIsNone DEF Init, Fits, Idle
<1> QED
  BY <1>1, <1>3, <1>4 DEF Base, Init

LEMMA BaseActs ==
    ASSUME Base, NEW q \in Request, Acts(q)
    PROVE  Base'
<1>1. Moves(q) /\ Fits(q)'
  BY ActsMove
<1>2. \A d \in documents' : d \in Request /\ Uploads(d)' /\ pc'[d] \in {"rollback", "over"}
  <2> SUFFICES ASSUME NEW d \in documents'
               PROVE  d \in Request /\ Uploads(d)' /\ pc'[d] \in {"rollback", "over"}
    OBVIOUS
  <2>1. d \in documents \/ (d = q /\ pc[q] = "persist" /\ pc'[q] \in {"rollback", "over"})
    BY ActsOnward
  <2>2. d \in Request /\ Uploads(d) /\ pc[d] # "free"
    BY <2>1 DEF Base, TypeOK, Fits
  <2>3. pc'[d] \in {"rollback", "over"}
    <3>1. CASE d \in documents
      BY <1>1, <2>2, <3>1, ActsOnward DEF Base, Moves
    <3>2. CASE d \notin documents
      BY <2>1, <3>2
    <3> QED
      BY <3>1, <3>2
  <2> QED
    BY <1>1, <2>2, <2>3, KeepsItsChunks
<1>3. /\ faults' \in 0..MaxFaults /\ restarts' \in 0..MaxRestarts /\ lost' \subseteq Request
  BY <1>1, IngestionAssumption DEF Base, TypeOK, Moves
<1>4. TypeOK'
  BY <1>1, <1>2, <1>3, TakesFew, VectorsStayTheirOwners DEF TypeOK, Moves
<1>5. \A r \in Request : Fits(r)'
  BY <1>1, OthersFit
<1> QED
  BY <1>1, <1>2, <1>4, <1>5, VectorsStayTheirOwners DEF Base, Moves

LEMMA BaseRestart ==
    ASSUME Base, Restart
    PROVE  Base'
<1>1. /\ vectors' \subseteq vectors /\ documents' = documents /\ lost' \subseteq Request
      /\ UNCHANGED <<job, late, next, matches, cited, around, named, faults>>
      /\ restarts' \in 0..MaxRestarts
  BY IngestionAssumption DEF Restart, Base, TypeOK, found
<1>2. /\ pc' \in [Request -> Steps] /\ answer' \in [Request -> Answers]
      /\ \A q \in Request : /\ pc'[q] \in {"free", "over"} /\ (pc'[q] = "free" <=> pc[q] = "free")
                            /\ (pc'[q] = "free" => answer'[q] = answer[q])
  BY DEF Restart, Base, TypeOK, Steps, Answers
<1>3. \A d \in Request : ChunksOf(d)' = ChunksOf(d) /\ Uploads(d)' = Uploads(d)
  BY <1>1 DEF ChunksOf, Uploads
<1>4. TypeOK'
  BY <1>1, <1>2, <1>3 DEF Base, TypeOK
<1>5. \A q \in Request : Fits(q)'
  BY <1>1, <1>2 DEF Base, Fits
<1>6. IsFiniteSet(vectors')
  BY <1>1, FS_Subset DEF Base
<1>7. \A v \in vectors' : /\ v[1] \in Request /\ Uploads(v[1])'
                          /\ pc'[v[1]] \in {"upsert", "persist", "rollback", "over"}
  BY <1>1, <1>2, <1>3 DEF Base
<1>8. \A d \in documents' : Uploads(d)' /\ pc'[d] \in {"rollback", "over"}
  BY <1>1, <1>2, <1>3 DEF Base, TypeOK
<1>9. matches' = [q \in Request |-> matches'[q]] /\ cited' = [q \in Request |-> cited'[q]]
  BY <1>1 DEF Base
<1> QED
  BY <1>4, <1>5, <1>6, <1>7, <1>8, <1>9 DEF Base

LEMMA NextIs == Next => Restart \/ \E q \in Request : Acts(q)
  BY DEF Next, Acts

LEMMA BaseStep == Base /\ [Next]_vars => Base'
<1> SUFFICES ASSUME Base, [Next]_vars PROVE Base'
  OBVIOUS
<1>1. CASE UNCHANGED vars
  BY <1>1 DEF vars, Base, TypeOK, Fits, Uploads, ChunksOf
<1>2. CASE Next
  BY <1>2, NextIs, BaseActs, BaseRestart
<1> QED
  BY <1>1, <1>2

\* Every variable stays in its range: what is stored is of an upload of this
\* process, and no query takes more than K chunks (retriever.py:86-90).
THEOREM TypeCorrect == Spec => []TypeOK
<1>1. Base => TypeOK
  BY DEF Base
<1> QED
  BY <1>1, BaseInit, BaseStep, PTL DEF Spec

-----------------------------------------------------------------------------
(* The two stores.                                                         *)

\* What a call does to the stores follows from where it is.
LEMMA StepsTaken ==
    ASSUME NEW q \in Request, Acts(q)
    PROVE  /\ pc[q] = "embed" => EmbedBatch(q)
           /\ pc[q] = "upsert" => Upsert(q) \/ WriteFails(q)
           /\ pc[q] = "persist" => Persist(q) \/ WriteFails(q)
           /\ pc[q] = "rollback" => Rollback(q) \/ RollbackFails(q)
           /\ pc[q] = "unlist" => DeleteRecords(q) \/ CallFails(q)
           /\ pc[q] = "unvector" => DeleteVectors(q) \/ CallFails(q)
           /\ pc[q] \notin {"upsert", "persist", "rollback", "unlist", "unvector"} =>
                 UNCHANGED stores
  BY DEF Acts, Ingest, Delete, Query, FindByContentHash, ExtractionTimesOut, Extract,
         EmbedBatch, Upsert, Persist, WriteFails, Rollback, RollbackFails, GetDocument,
         DeleteRecords, DeleteVectors, QueryForOrg, ReadTexts, Generate, CallFails

\* Vectors are removed by the rollback of their upload or with their document,
\* and a document by the deletion that goes on to its vectors.
LEMMA WhoRemoves ==
    ASSUME Base, NEW q \in Request, Acts(q)
    PROVE  /\ \A v \in vectors : v \notin vectors' =>
                 \/ v[1] = q /\ pc[q] = "rollback"
                 \/ v[1] = job[q].doc /\ pc[q] = "unvector"
                 \/ v[1] = job[q].doc /\ pc[q] = "unlist" /\ VectorStore = "pgvector"
           /\ \A d \in documents : d \notin documents' =>
                 job'[q].doc = d /\ pc'[q] = "unvector"
<1>1. \A d, v : v \in ChunksOf(d) => v[1] = d
  BY DEF ChunksOf
<1>2. \A v \in vectors : v \notin vectors' =>
         \/ v[1] = q /\ pc[q] = "rollback"
         \/ v[1] = job[q].doc /\ pc[q] = "unvector"
         \/ v[1] = job[q].doc /\ pc[q] = "unlist" /\ VectorStore = "pgvector"
  BY <1>1, StepsTaken DEF Upsert, Persist, WriteFails, Rollback, RollbackFails, DeleteRecords,
                          DeleteVectors, CallFails, stores
<1>3. \A d \in documents : d \notin documents' => job'[q].doc = d /\ pc'[q] = "unvector"
  BY StepsTaken, GotoIs DEF Upsert, Persist, WriteFails, Rollback, RollbackFails, DeleteRecords,
                            DeleteVectors, CallFails, stores, Steps
<1> QED
  BY <1>2, <1>3

LEMMA WhoWrites ==
    ASSUME Base, NEW q \in Request, Acts(q), q \in documents', q \notin documents
    PROVE  (Persist(q) /\ named'[q] = q) \/ q \in lost'
<1>1. pc[q] = "persist"
  BY ActsOnward
<1>2. Persist(q) => named'[q] = q
  BY DEF Persist, Base, TypeOK
<1> QED
  BY <1>1, <1>2, StepsTaken DEF WriteFails

\* Nothing that was stored is forgotten.
LEMMA StoredStaysStored ==
    ASSUME Base, NEW q \in Request, Moves(q), NEW d \in Request, WasStored(d)
    PROVE  WasStored(d)'
<1>1. CASE named[d] = d
  <2>1. pc[d] = "over"
    BY <1>1, NullIsNone DEF Base, Fits
  <2> QED
    BY <1>1, <2>1 DEF Moves, WasStored
<1>2. CASE d \in lost
  BY <1>2 DEF Moves, WasStored
<1> QED
  BY <1>1, <1>2 DEF WasStored

LEMMA StoredActs ==
    ASSUME Base, StoreInv, NEW q \in Request, Acts(q)
    PROVE  \A d \in documents' : WasStored(d)'
<1> SUFFICES ASSUME NEW d \in documents' PROVE WasStored(d)'
  OBVIOUS
<1>1. CASE d \in documents
  BY <1>1, ActsMove, StoredStaysStored DEF Base, TypeOK, StoreInv
<1>2. CASE d \notin documents
  BY <1>2, ActsOnward, WhoWrites DEF WasStored
<1> QED
  BY <1>1, <1>2

\* pgvector refers to chunks that are yet to be written: no upload gets through.
LEMMA PgvectorActs ==
    ASSUME Base, StoreInv, NEW q \in Request, Acts(q), VectorStore = "pgvector"
    PROVE  vectors' = {} /\ documents' = {} /\ \A r \in Request : pc'[r] # "persist"
<1>1. vectors = {} /\ documents = {} /\ \A r \in Request : pc[r] # "persist"
  BY DEF StoreInv
<1>2. pc[q] = "upsert" => pc'[q] = "rollback"
  BY <1>1, StepsTaken, GotoIs DEF Upsert, WriteFails, Steps
<1>3. vectors' = {}
  BY <1>1, <1>2, ActsOnward
<1>4. documents' = {}
  BY <1>1, ActsOnward
<1>5. \A r \in Request : pc'[r] # "persist"
  BY <1>1, <1>2, ActsOnward, ActsMove DEF Moves
<1> QED
  BY <1>3, <1>4, <1>5

LEMMA WrittenActs ==
    ASSUME Base, StoreInv, NEW q \in Request, Acts(q), NEW r \in Request
    PROVE  Written(r)'
<1>1. Moves(q) /\ Written(r) /\ Fits(q) /\ Fits(r) /\ next \in [Request -> Nat]
  BY ActsMove DEF StoreInv, Base, TypeOK
<1>2. CASE r # q
  <2>1. pc'[r] = pc[r] /\ next'[r] = next[r] /\ job'[r] = job[r]
    BY <1>1, <1>2 DEF Moves
  <2>2. ASSUME NEW i, pc[r] \in {"upsert", "persist"}, <<r, i>> \in vectors
        PROVE  <<r, i>> \in vectors'
    BY <1>1, <1>2, <2>2, WhoRemoves DEF Fits
  <2>3. pc[r] = "rollback" => faults' > 0 \/ \A v \in vectors' : v[1] # r
    BY <1>1, <1>2, ActsOnward, IngestionAssumption DEF Written, Moves, Base, TypeOK
  <2> QED
    BY <1>1, <2>1, <2>2, <2>3 DEF Written
<1>3. CASE r = q /\ pc'[q] = "upsert"
  <2>1. CASE Upsert(q)
    <3>1. /\ next[q] \in Nat /\ next[q] # Size[job[q].content]
          /\ vectors' = vectors \cup {<<q, next[q]>>} /\ next'[q] = next[q] + 1
          /\ pc[q] = "upsert" /\ job' = job
      BY <1>1, <1>3, <2>1, GotoIs DEF Upsert, Steps
    <3>2. \A i \in 1..Size[job[q].content] : i < next[q] + 1 => i < next[q] \/ i = next[q]
      BY <3>1
    <3> QED
      BY <1>1, <1>3, <3>1, <3>2 DEF Written
  <2>2. CASE ~Upsert(q)
    <3>1. pc[q] = "embed" /\ Goto(q, "upsert") /\ job' = job /\ next' = next
      BY <1>1, <1>3, <2>2 DEF Acts, Ingest, Delete, Query, FindByContentHash,
            ExtractionTimesOut, Extract, EmbedBatch, Persist, WriteFails, Rollback,
            RollbackFails, GetDocument, DeleteRecords, DeleteVectors, QueryForOrg,
            ReadTexts, Generate, CallFails, Goto, End, Base, TypeOK
    <3>2. next'[q] = 1
      BY <1>1, <3>1 DEF Fits
    <3> QED
      BY <1>3, <3>2 DEF Written
  <2> QED
    BY <2>1, <2>2
<1>4. CASE r = q /\ pc'[q] = "persist"
  <2>1. pc[q] = "upsert" /\ Upsert(q)
    BY <1>4, ActsOnward, StepsTaken, GotoIs DEF WriteFails, Steps
  <2>2. next[q] = Size[job[q].content] /\ vectors' = vectors \cup {<<q, next[q]>>}
        /\ next'[q] = next[q] + 1 /\ job' = job /\ next[q] \in Nat
    BY <1>1, <1>4, <2>1, GotoIs DEF Upsert, Steps
  <2>3. \A i \in 1..Size[job[q].content] : i < next[q] + 1 => i < next[q] \/ i = next[q]
    BY <2>2
  <2> QED
    BY <1>1, <1>4, <2>1, <2>2, <2>3 DEF Written
<1>5. CASE r = q /\ pc'[q] = "rollback"
  <2>1. CASE WriteFails(q)
    BY <1>5, <2>1, IngestionAssumption DEF WriteFails, Written, Base, TypeOK
  <2>2. CASE ~WriteFails(q)
    <3>1. pc[q] = "upsert" /\ Upsert(q)
      BY <1>1, <1>5, <2>2 DEF Acts, Ingest, Delete, Query, FindByContentHash,
            ExtractionTimesOut, Extract, EmbedBatch, Upsert, Persist, Rollback,
            RollbackFails, GetDocument, DeleteRecords, DeleteVectors, QueryForOrg,
            ReadTexts, Generate, CallFails, Goto, End, Base, TypeOK
    <3>2. VectorStore = "pgvector"
      BY <1>5, <3>1, GotoIs DEF Upsert, Steps
    <3> QED
      BY <1>5, <3>2, PgvectorActs DEF Written
  <2> QED
    BY <2>1, <2>2
<1>6. CASE r = q /\ pc'[q] \notin {"upsert", "persist", "rollback"}
  BY <1>6 DEF Written
<1> QED
  BY <1>2, <1>3, <1>4, <1>5, <1>6

LEMMA ListedActs ==
    ASSUME Base, StoreInv, NEW q \in Request, Acts(q)
    PROVE  ListedIsSearchable'
<1>1. Moves(q) /\ Fits(q) /\ Written(q)
  BY ActsMove DEF StoreInv, Base
<1>2. SUFFICES ASSUME NEW d \in documents', d \notin lost' PROVE ChunksOf(d)' \subseteq vectors'
  BY DEF ListedIsSearchable
<1>3. CASE d \in documents
  <2>1. d \in Request /\ pc[d] # "free" /\ d \notin lost
    BY <1>1, <1>2, <1>3 DEF Base, TypeOK, Moves
  <2>2. ChunksOf(d)' = ChunksOf(d) /\ ChunksOf(d) \subseteq vectors
    BY <1>1, <1>3, <2>1, KeepsItsChunks DEF StoreInv, ListedIsSearchable
  <2>3. ASSUME NEW v \in ChunksOf(d), v \notin vectors' PROVE FALSE
    <3>1. v[1] = d /\ v \in vectors
      BY <2>2 DEF ChunksOf
    <3>2. CASE d = q /\ pc[q] = "rollback"
      BY <1>1, <1>3, <2>1, <3>2, NullIsNone DEF StoreInv, WasStored, Fits
    <3>3. CASE d = job[q].doc /\ pc[q] = "unvector"
      BY <1>1, <1>3, <3>3 DEF Fits
    <3>4. CASE VectorStore = "pgvector"
      BY <1>3, <3>4 DEF StoreInv
    <3> QED
      BY <2>3, <3>1, <3>2, <3>3, <3>4, WhoRemoves
  <2> QED
    BY <2>2, <2>3
<1>4. CASE d \notin documents
  <2>1. d = q /\ pc[q] = "persist" /\ Persist(q)
    BY <1>2, <1>4, ActsOnward, WhoWrites
  <2>2. Size[job[q].content] \in Nat /\ next[q] \in Nat /\ next[q] > Size[job[q].content]
    BY <1>1, <2>1, IngestionAssumption DEF Fits, Uploads, Written, Base, TypeOK
  <2>3. \A i \in 1..Size[job[q].content] : <<q, i>> \in vectors
    BY <1>1, <2>1, <2>2 DEF Written
  <2>4. vectors' = vectors /\ ChunksOf(q)' = ChunksOf(q)
    BY <1>1, <2>1, KeepsItsChunks DEF Persist
  <2> QED
    BY <2>1, <2>3, <2>4 DEF ChunksOf
<1> QED
  BY <1>3, <1>4

LEMMA OrphansActs ==
    ASSUME Base, StoreInv, NEW q \in Request, Acts(q)
    PROVE  OrphansForCause'
<1>1. Moves(q) /\ Fits(q)'
  BY ActsMove
<1> DEFINE Cause(d) ==
        \/ pc[d] \in {"upsert", "persist", "rollback"}
        \/ answer[d] = "failed" /\ faults > 1
        \/ \E r \in Request : job[r].doc = d /\ (pc[r] = "unvector" \/ answer[r] = "failed")
<1>2. SUFFICES ASSUME NEW v \in vectors', v[1] \notin documents'
               PROVE  \/ pc'[v[1]] \in {"upsert", "persist", "rollback"}
                      \/ answer'[v[1]] = "failed" /\ faults' > 1
                      \/ \E r \in Request : /\ job'[r].doc = v[1]
                                            /\ (pc'[r] = "unvector" \/ answer'[r] = "failed")
  BY DEF OrphansForCause
<1>3. CASE v \notin vectors
  <2>1. v = <<q, next[q]>> /\ pc'[q] \in {"upsert", "persist"}
    BY <1>3, ActsOnward
  <2> QED
    BY <2>1
<1>4. CASE v \in vectors /\ v[1] \in documents
  BY <1>2, <1>4, WhoRemoves
<1>5. CASE v \in vectors /\ v[1] \notin documents
  <2>1. /\ v[1] \in Request /\ v \in ChunksOf(v[1]) /\ Written(v[1]) /\ Fits(v[1]) /\ Fits(q)
        /\ faults \in Nat /\ faults' \in Nat /\ faults' >= faults
    BY <1>1, <1>5, IngestionAssumption DEF Base, TypeOK, StoreInv, Moves
  <2>2. Cause(v[1])
    BY <1>5 DEF StoreInv, OrphansForCause
  <2>3. CASE v[1] # q /\ pc[v[1]] \in {"upsert", "persist", "rollback"}
    BY <1>1, <2>1, <2>3 DEF Moves
  <2>4. CASE v[1] = q /\ pc[q] \in {"upsert", "persist", "rollback"}
    <3>1. CASE pc[q] = "upsert"
      <4>1. pc'[q] \in {"upsert", "persist", "rollback"}
        BY <3>1, StepsTaken, GotoIs DEF Upsert, WriteFails, Steps
      <4> QED
        BY <2>4, <4>1
    <3>2. CASE pc[q] = "persist"
      <4>1. Persist(q) => q \in documents'
        BY DEF Persist
      <4>2. WriteFails(q) => pc'[q] = "rollback"
        BY GotoIs DEF WriteFails, Steps
      <4> QED
        BY <1>2, <2>4, <3>2, <4>1, <4>2, StepsTaken
    <3>3. CASE pc[q] = "rollback"
      <4>1. RollbackFails(q)
        BY <1>2, <2>1, <2>4, <3>3, StepsTaken DEF Rollback
      <4>2. answer'[q] = "failed" /\ faults' = faults + 1
        BY <4>1, EndIs DEF RollbackFails, Fault, Answers
      <4>3. faults > 0
        BY <1>5, <2>1, <2>4, <3>3 DEF Written
      <4> QED
        BY <2>1, <2>4, <4>2, <4>3
    <3> QED
      BY <2>4, <3>1, <3>2, <3>3
  <2>5. CASE answer[v[1]] = "failed" /\ faults > 1
    <3>1. v[1] # q
      BY <1>1, <2>1, <2>5 DEF Moves, Fits
    <3> QED
      BY <1>1, <2>1, <2>5, <3>1 DEF Moves
  <2>6. ASSUME NEW r \in Request, job[r].doc = v[1], pc[r] = "unvector" \/ answer[r] = "failed"
        PROVE  /\ job'[r].doc = v[1] /\ (pc'[r] = "unvector" \/ answer'[r] = "failed")
    <3>1. CASE r # q
      BY <1>1, <2>6, <3>1 DEF Moves
    <3>2. CASE r = q
      <4>1. pc[q] = "unvector" /\ job'[q] = job[q]
        BY <1>1, <2>1, <2>6, <3>2 DEF Moves, Fits
      <4>2. CallFails(q)
        BY <1>2, <2>1, <2>6, <3>2, <4>1, StepsTaken DEF DeleteVectors
      <4>3. answer'[q] = "failed"
        BY <4>2, EndIs DEF CallFails, Answers
      <4> QED
        BY <2>6, <3>2, <4>1, <4>3
    <3> QED
      BY <3>1, <3>2
  <2> QED
    BY <2>2, <2>3, <2>4, <2>5, <2>6
<1> QED
  BY <1>3, <1>4, <1>5

LEMMA StoreInit == Init => StoreInv
<1> SUFFICES ASSUME Init PROVE StoreInv
  OBVIOUS
<1>1. \A q \in Request : pc[q] = "free"
  BY DEF Init
<1> QED
  BY <1>1 DEF Init, StoreInv, Written, ListedIsSearchable, OrphansForCause

LEMMA StoreRestart ==
    ASSUME Base, StoreInv, Restart
    PROVE  StoreInv'
<1>1. \A q \in Request : pc'[q] \in {"free", "over"}
  BY DEF Restart
<1>2. documents' = documents /\ named' = named /\ lost \subseteq lost'
  BY DEF Restart
<1>3. (VectorStore = "chroma" => documents \subseteq lost') /\ vectors' = {}
  BY IngestionAssumption DEF Restart, StoreInv
<1>4. \A d \in documents' : WasStored(d)'
  BY <1>2 DEF StoreInv, WasStored
<1>5. VectorStore = "pgvector" => documents' = {}
  BY <1>2 DEF StoreInv
<1>6. \A q \in Request : Written(q)'
  BY <1>1 DEF Written
<1>7. ListedIsSearchable'
  BY <1>2, <1>3, <1>5, IngestionAssumption DEF ListedIsSearchable
<1>8. OrphansForCause'
  BY <1>3 DEF OrphansForCause
<1> QED
  BY <1>1, <1>3, <1>4, <1>5, <1>6, <1>7, <1>8 DEF StoreInv

LEMMA StoreStep == Base /\ StoreInv /\ [Next]_vars => StoreInv'
<1> SUFFICES ASSUME Base, StoreInv, [Next]_vars PROVE StoreInv'
  OBVIOUS
<1>1. CASE UNCHANGED vars
  BY <1>1 DEF vars, StoreInv, WasStored, Written, ListedIsSearchable, OrphansForCause, ChunksOf
<1>2. CASE Restart
  BY <1>2, StoreRestart
<1>3. ASSUME NEW q \in Request, Acts(q) PROVE StoreInv'
  BY <1>3, StoredActs, PgvectorActs, WrittenActs, ListedActs, OrphansActs DEF StoreInv
<1> QED
  BY <1>1, <1>2, <1>3, NextIs

\* A listed document has all its vectors, whatever failed or was under way, so
\* that an upload answered "duplicate" loses nothing, unless Chroma's vectors
\* died with the process or the upload was told it had failed
\* (ingestion/service.py:165-180, routers/documents.py:70-73).
THEOREM ListedIsAlwaysSearchable == Spec => []ListedIsSearchable
<1>1. StoreInv => ListedIsSearchable
  BY DEF StoreInv
<1> QED
  BY <1>1, BaseInit, BaseStep, StoreInit, StoreStep, PTL DEF Spec

\* A vector without its document is of a call under way, of a deletion that
\* failed between the stores, or of an upload whose rollback failed too: two
\* faults, never one (ingestion/service.py:178-180).
THEOREM OrphansOnlyForCause == Spec => []OrphansForCause
<1>1. StoreInv => OrphansForCause
  BY DEF StoreInv
<1> QED
  BY <1>1, BaseInit, BaseStep, StoreInit, StoreStep, PTL DEF Spec

-----------------------------------------------------------------------------
(* What callers are told.                                                  *)

\* What a call was told of another stays true of it.
LEMMA ToldStays ==
    ASSUME Base, ToldInv, NEW q \in Request, Moves(q), NEW r \in Request, pc[r] # "free",
           matches'[r] = matches[r], cited'[r] = cited[r],
           around'[r] = around[r], named'[r] = named[r]
    PROVE  Told(r)'
<1>1. Told(r) /\ job'[r] = job[r] /\ cited[r] \subseteq matches[r]
      /\ named[r] \in Request \cup {NULL}
  BY DEF ToldInv, Moves, Base, TypeOK
<1>2. \A d \in Request : pc[d] # "free" => job'[d] = job[d] /\ pc'[d] # "free"
  BY KeepsItsChunks
<1>3. \A d \in Request : WasStored(d) => WasStored(d)'
  BY StoredStaysStored
<1>4. \A m \in matches'[r] : m[1] \in Request /\ pc'[m[1]] # "free" /\ job'[m[1]].org = job'[r].org
  BY <1>1, <1>2 DEF Told
<1>5. \A m \in cited'[r] : m[1] \in Request /\ job'[m[1]].org = job'[r].org /\ WasStored(m[1])'
  BY <1>1, <1>2, <1>3 DEF Told
<1>6. named'[r] # NULL => /\ pc'[named'[r]] # "free" /\ job'[named'[r]].org = job'[r].org
                          /\ job'[named'[r]].content = job'[r].content
  BY <1>1, <1>2 DEF Told
<1>7. around'[r] # {} => matches'[r] # {}
  BY <1>1 DEF Told
<1>8. named'[r] # NULL => /\ pc'[named[r]] # "free" /\ job'[named[r]].org = job'[r].org
                          /\ job'[named[r]].content = job'[r].content
  BY <1>6
<1> QED
  BY <1>4, <1>5, <1>7, <1>8 DEF Told

LEMMA ToldStart ==
    ASSUME Base, NEW q \in Request, Moves(q), pc[q] = "free",
           UNCHANGED <<found, said>>
    PROVE  Told(q)'
  BY DEF Base, Fits, Told, found, said

LEMMA ToldFind ==
    ASSUME Base, ToldInv, NEW q \in Request, FindByContentHash(q), Moves(q)
    PROVE  Told(q)'
<1>1. CASE Copies(q) = {}
  <2>1. pc[q] = "look" /\ UNCHANGED <<found, said>>
    BY <1>1 DEF FindByContentHash
  <2> QED
    BY <2>1, ToldStays DEF found, said
<1>2. CASE Copies(q) # {}
  <2>1. PICK d \in Copies(q) : named' = [named EXCEPT ![q] = d]
    BY <1>2 DEF FindByContentHash
  <2>2. /\ pc[q] = "look" /\ job' = job /\ UNCHANGED <<matches, cited, around>>
        /\ named'[q] = d
    BY <2>1 DEF FindByContentHash, found, Base, TypeOK
  <2>3. /\ d \in Request /\ pc[d] \in {"rollback", "over"} /\ d \in documents
        /\ job[d].org = job[q].org /\ job[d].content = job[q].content
    BY DEF Copies, Own, Base, TypeOK
  <2>4. pc'[d] # "free" /\ job'[d] = job[d]
    BY <2>3, KeepsItsChunks
  <2>5. \A e \in Request : WasStored(e) => WasStored(e)'
    BY StoredStaysStored
  <2>6. Told(q) /\ cited[q] \subseteq matches[q]
    BY DEF ToldInv, Base, TypeOK
  <2>7. \A m \in matches[q] : m[1] \in Request /\ pc'[m[1]] # "free"
    BY <2>6, KeepsItsChunks DEF Told
  <2> QED
    BY <2>2, <2>3, <2>4, <2>5, <2>6, <2>7 DEF Told
<1> QED
  BY <1>1, <1>2

LEMMA ToldPersist ==
    ASSUME Base, ToldInv, NEW q \in Request, Persist(q), Moves(q)
    PROVE  Told(q)'
<1>1. /\ named'[q] = q /\ job' = job /\ pc[q] = "persist" /\ UNCHANGED <<matches, cited, around>>
      /\ pc'[q] # "free"
  BY DEF Persist, found, Base, TypeOK, Moves
<1>2. \A e \in Request : WasStored(e) => WasStored(e)'
  BY StoredStaysStored
<1>3. Told(q) /\ cited[q] \subseteq matches[q]
  BY DEF ToldInv, Base, TypeOK
<1>4. \A m \in matches[q] : m[1] \in Request /\ pc'[m[1]] # "free"
  BY <1>3, KeepsItsChunks DEF Told
<1> QED
  BY <1>1, <1>2, <1>3, <1>4 DEF Told

\* What a query finds is of its organisation; and if a document of that is
\* there with all its vectors, it finds something.
LEMMA ToldQuery ==
    ASSUME Base, NEW q \in Request, QueryForOrg(q), Moves(q)
    PROVE  Told(q)'
<1>1. PICK found1 \in SUBSET Searchable(q) :
          /\ Cardinality(found1) = IF K < Cardinality(Searchable(q)) THEN K
                                   ELSE Cardinality(Searchable(q))
          /\ matches' = [matches EXCEPT ![q] = found1]
  BY DEF QueryForOrg
<1>2. matches'[q] = found1
  BY <1>1 DEF Base
<1>3. /\ around'[q] = {d \in documents : Own(q, d) /\ ChunksOf(d) \subseteq vectors}
      /\ pc[q] = "match" /\ job' = job /\ cited' = cited /\ named' = named
  BY DEF QueryForOrg, said, Base, TypeOK
<1>4. cited[q] = {} /\ named[q] = NULL
  BY <1>3 DEF Base, Fits
<1>5. \A m \in found1 : m[1] \in Request /\ pc'[m[1]] # "free" /\ job[m[1]].org = job[q].org
  BY KeepsItsChunks DEF Searchable, Base
<1>6. ASSUME NEW d \in around'[q] PROVE found1 # {}
  <2>1. d \in documents /\ d \in Request /\ job[d].org = job[q].org /\ ChunksOf(d) \subseteq vectors
    BY <1>3, <1>6 DEF Own, Base, TypeOK
  <2>2. Size[job[d].content] \in Nat \ {0}
    BY <2>1, IngestionAssumption DEF Base, Uploads
  <2>3. <<d, 1>> \in ChunksOf(d)
    BY <2>2 DEF ChunksOf
  <2>4. <<d, 1>> \in Searchable(q)
    BY <2>1, <2>3 DEF Searchable
  <2>5. IsFiniteSet(Searchable(q))
    BY FS_Subset DEF Base, Searchable
  <2>6. Cardinality(Searchable(q)) \in Nat /\ Cardinality(Searchable(q)) # 0
    BY <2>4, <2>5, FS_CardinalityType, FS_EmptySet
  <2>7. K \in 1..10
    BY IngestionAssumption
  <2>8. Cardinality(found1) # 0
    BY <1>1, <2>6, <2>7
  <2> QED
    BY <2>8, FS_EmptySet
<1>7. \A m \in matches'[q] : m[1] \in Request /\ pc'[m[1]] # "free" /\ job'[m[1]].org = job'[q].org
  BY <1>2, <1>3, <1>5
<1>8. around'[q] # {} => matches'[q] # {}
  BY <1>2, <1>6
<1>9. cited'[q] = {} /\ named'[q] = NULL
  BY <1>3, <1>4
<1> QED
  BY <1>7, <1>8, <1>9 DEF Told

\* What it cites has a text, so that it was stored.
LEMMA ToldTexts ==
    ASSUME Base, StoreInv, ToldInv, NEW q \in Request, ReadTexts(q), Moves(q)
    PROVE  Told(q)'
<1>1. /\ cited'[q] = GetChunkTexts(q) /\ pc[q] = "texts" /\ job' = job
      /\ UNCHANGED <<matches, around, named>>
  BY DEF ReadTexts, Base
<1>2. Told(q) /\ named[q] = NULL
  BY <1>1 DEF ToldInv, Base, Fits
<1>3. \A m \in GetChunkTexts(q) :
         m[1] \in Request /\ job[m[1]].org = job[q].org /\ WasStored(m[1])'
  BY StoredStaysStored DEF GetChunkTexts, Own, StoreInv, Base, TypeOK
<1>4. \A m \in matches[q] : m[1] \in Request /\ pc'[m[1]] # "free"
  BY <1>2, KeepsItsChunks DEF Told
<1> QED
  BY <1>1, <1>2, <1>3, <1>4 DEF Told

LEMMA ToldActs ==
    ASSUME Base, StoreInv, ToldInv, NEW q \in Request, Acts(q), NEW r \in Request
    PROVE  Told(r)'
<1>1. Moves(q)
  BY ActsMove
<1>2. CASE r # q /\ pc[r] # "free"
  BY <1>1, <1>2, ToldStays DEF Moves
<1>3. CASE r # q /\ pc[r] = "free"
  <2>1. matches'[r] = {} /\ cited'[r] = {} /\ around'[r] = {} /\ named'[r] = NULL
    BY <1>1, <1>3 DEF Moves, Base, Fits
  <2> QED
    BY <2>1 DEF Told
<1>4. CASE r = q /\ pc[q] = "free"
  <2>1. UNCHANGED <<found, said>>
    BY <1>4 DEF Acts, Ingest, Delete, Query, FindByContentHash, ExtractionTimesOut, Extract,
           EmbedBatch, Upsert, Persist, WriteFails, Rollback, RollbackFails, GetDocument,
           DeleteRecords, DeleteVectors, QueryForOrg, ReadTexts, Generate, CallFails
  <2> QED
    BY <1>1, <1>4, <2>1, ToldStart
<1>5. CASE r = q /\ FindByContentHash(q)
  BY <1>1, <1>5, ToldFind
<1>6. CASE r = q /\ Persist(q)
  BY <1>1, <1>6, ToldPersist
<1>7. CASE r = q /\ QueryForOrg(q)
  BY <1>1, <1>7, ToldQuery
<1>8. CASE r = q /\ ReadTexts(q)
  BY <1>1, <1>8, ToldTexts
<1>9. CASE /\ r = q /\ pc[q] # "free" /\ ~FindByContentHash(q) /\ ~Persist(q)
           /\ ~QueryForOrg(q) /\ ~ReadTexts(q)
  <2>1. UNCHANGED <<matches, cited, around, named>>
    BY <1>9 DEF Acts, Ingest, Delete, Query, ExtractionTimesOut, Extract, EmbedBatch, Upsert,
           WriteFails, Rollback, RollbackFails, GetDocument, DeleteRecords, DeleteVectors,
           Generate, CallFails, found, said
  <2> QED
    BY <1>1, <1>9, <2>1, ToldStays
<1> QED
  BY <1>2, <1>3, <1>4, <1>5, <1>6, <1>7, <1>8, <1>9

LEMMA ToldInit == Init => ToldInv
  BY DEF Init, ToldInv, Told

LEMMA ToldRestart ==
    ASSUME ToldInv, Base, Restart
    PROVE  ToldInv'
<1>1. /\ UNCHANGED <<job, matches, cited, around, named>> /\ lost \subseteq lost'
  BY DEF Restart, found
<1>2. \A d \in Request : pc[d] # "free" => pc'[d] # "free"
  BY DEF Restart
<1>3. \A d \in Request : WasStored(d) => WasStored(d)'
  BY <1>1 DEF WasStored
<1>4. ASSUME NEW q \in Request PROVE Told(q)'
  <2>1. Told(q) /\ named[q] \in Request \cup {NULL}
    BY DEF ToldInv, Base, TypeOK
  <2> QED
    BY <1>1, <1>2, <1>3, <2>1 DEF Told
<1> QED
  BY <1>4 DEF ToldInv

LEMMA ToldStep == Base /\ StoreInv /\ ToldInv /\ [Next]_vars => ToldInv'
<1> SUFFICES ASSUME Base, StoreInv, ToldInv, [Next]_vars PROVE ToldInv'
  OBVIOUS
<1>1. CASE UNCHANGED vars
  BY <1>1 DEF vars, ToldInv, Told, WasStored
<1>2. CASE Restart
  BY <1>2, ToldRestart
<1>3. ASSUME NEW q \in Request, Acts(q) PROVE ToldInv'
  BY <1>3, ToldActs DEF ToldInv
<1> QED
  BY <1>1, <1>2, <1>3, NextIs

\* A query comes back with nothing, though its organisation has a document that
\* can be found, only when vectors of the organisation's own took the K places:
\* another's never do (retriever.py:86-90, chroma_store.py:86-96).
THEOREM NothingFoundOnlyForCause == Spec => []NothingFoundForCause
<1>1. ToldInv => NothingFoundForCause
  BY DEF ToldInv, Told, NothingFoundForCause
<1> QED
  BY <1>1, BaseInit, BaseStep, StoreInit, StoreStep, ToldInit, ToldStep, PTL DEF Spec

\* The chunks a query cites and the document an upload names are of the caller's
\* organisation, were stored, and for a duplicate are the bytes uploaded
\* (ingestion/service.py:136-146, db/store.py, routers/query.py).
THEOREM AnswersAlwaysStayHome == Spec => []AnswersStayHome
<1>1. ToldInv => AnswersStayHome
  BY DEF ToldInv, Told, AnswersStayHome
<1> QED
  BY <1>1, BaseInit, BaseStep, StoreInit, StoreStep, ToldInit, ToldStep, PTL DEF Spec

=============================================================================
