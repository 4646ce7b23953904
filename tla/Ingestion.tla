----------------------------- MODULE Ingestion -----------------------------
(***************************************************************************)
(* The corpus: uploads (ingestion/service.py, api/routers/ingest.py),      *)
(* deletions (api/routers/documents.py) and queries (rag/service.py,       *)
(* retrieval/retriever.py, api/routers/query.py) over two stores that no   *)
(* transaction spans: the documents table with its chunks (db/store.py)    *)
(* and the vectors, in Chroma inside the process or in pgvector.           *)
(*                                                                         *)
(* A Request is one call; an upload gives its document an id of its own,   *)
(* so the request stands for the document too.                             *)
(***************************************************************************)
EXTENDS Integers, FiniteSets

CONSTANTS
    Request,      \* bound: the calls made
    Org,          \* tenants
    Content,      \* uploaded bytes, by their hash
    Size,         \* how many chunks each content is cut into
    K,            \* top_k, clamped into 1..10
    VectorStore,  \* "chroma", or in the production profile "pgvector"
    MaxFaults,    \* bound: store calls that fail
    MaxRestarts,  \* bound: restarts of the process
    NULL          \* None

ASSUME IngestionAssumption ==
    /\ Size \in [Content -> Nat \ {0}]
    /\ K \in 1..10
    /\ VectorStore \in {"chroma", "pgvector"}
    /\ MaxFaults \in Nat /\ MaxRestarts \in Nat
    /\ NULL \notin Org /\ NULL \notin Content /\ NULL \notin Request

Steps == {"free", "look", "extract", "embed", "upsert", "persist", "rollback",
          "find", "unlist", "unvector", "match", "texts", "generate", "over"}
Answers == {"none", "created", "duplicate", "rejected", "failed",
            "deleted", "not_found", "answered", "nothing"}

Job == [org : Org \cup {NULL}, content : Content \cup {NULL},
        doc : Request \cup {NULL}]
Idle == [org |-> NULL, content |-> NULL, doc |-> NULL]

VARIABLES
    documents,  \* the documents table, each row with all its chunks
    vectors,    \* the embeddings: <<document, index of the chunk>>
    job, pc,    \* what each call is for and what it is about to do
    late,       \* its extraction has outlived the timeout
    next,       \* the chunk whose vector it writes next
    matches,    \* the chunks a query found
    cited,      \* those whose text it read
    answer,     \* what its caller was told
    named,      \* the document the answer of an upload names
    faults, restarts,
    lost,       \* documents stored when the process died, or whose upload
                \* failed all the same (history)
    around      \* documents a query could have found (history)

stores == <<documents, vectors>>
found  == <<matches, cited, around>>
said   == <<answer, named>>
bounds == <<faults, restarts, lost>>
vars   == <<documents, vectors, job, pc, late, next, matches, cited, answer,
            named, faults, restarts, lost, around>>

ChunksOf(d) == {<<d, i>> : i \in 1..Size[job[d].content]}

TypeOK ==
    /\ documents \subseteq Request /\ lost \subseteq Request
    /\ \A v \in vectors : v \in ChunksOf(v[1])
    /\ job \in [Request -> Job] /\ pc \in [Request -> Steps]
    /\ late \in [Request -> BOOLEAN] /\ next \in [Request -> Nat]
    /\ \A q \in Request : /\ cited[q] \subseteq matches[q]
                          /\ Cardinality(matches[q]) <= K
    /\ answer \in [Request -> Answers]
    /\ named \in [Request -> Request \cup {NULL}]
    /\ faults \in 0..MaxFaults /\ restarts \in 0..MaxRestarts
    /\ around \in [Request -> SUBSET Request]

Init ==
    /\ documents = {} /\ vectors = {} /\ lost = {}
    /\ job = [q \in Request |-> Idle] /\ pc = [q \in Request |-> "free"]
    /\ late = [q \in Request |-> FALSE] /\ next = [q \in Request |-> 1]
    /\ matches = [q \in Request |-> {}] /\ cited = [q \in Request |-> {}]
    /\ around = [q \in Request |-> {}]
    /\ answer = [q \in Request |-> "none"] /\ named = [q \in Request |-> NULL]
    /\ faults = 0 /\ restarts = 0

Goto(q, step) == pc' = [pc EXCEPT ![q] = step]
End(q, word) == Goto(q, "over") /\ answer' = [answer EXCEPT ![q] = word]
Fault == faults < MaxFaults /\ faults' = faults + 1 /\ UNCHANGED <<restarts, lost>>

\* Rows of the caller's organisation.
Own(q, d) == d \in documents /\ job[d].org = job[q].org

-----------------------------------------------------------------------------
(* Uploads.                                                                *)

\* Within the size, of a known format and not empty; otherwise rejected at once.
Ingest(q, o, c) ==
    /\ pc[q] = "free"
    /\ job' = [job EXCEPT ![q] = [org |-> o, content |-> c, doc |-> NULL]]
    /\ Goto(q, "look")
    /\ UNCHANGED <<stores, late, next, found, said, bounds>>

CopiesAnywhere(q) == {d \in documents : job[d].content = job[q].content}   \* Bug: no org_id
Copies(q) == {d \in documents : Own(q, d) /\ job[d].content = job[q].content}

\* The oldest copy is named; which of two is older is left open.
FindByContentHash(q) ==
    /\ pc[q] = "look"
    /\ IF Copies(q) # {}
       THEN /\ \E d \in Copies(q) : named' = [named EXCEPT ![q] = d]
            /\ End(q, "duplicate")
       ELSE Goto(q, "extract") /\ UNCHANGED said
    /\ UNCHANGED <<stores, job, late, next, found, bounds>>

\* The wait for the extractor is over; leaving the executor waits for it again.
ExtractionTimesOut(q) ==
    /\ pc[q] = "extract" /\ ~late[q]
    /\ late' = [late EXCEPT ![q] = TRUE]
    /\ UNCHANGED <<stores, job, pc, next, found, said, bounds>>

\* The extractor ends: too late, with an error, without text or with some.
Extract(q) ==
    /\ pc[q] = "extract"
    /\ \/ ~late[q] /\ Goto(q, "embed") /\ UNCHANGED answer
       \/ End(q, "rejected")
    /\ UNCHANGED <<stores, job, late, next, found, named, bounds>>

\* Chunks are embedded before anything is written.
EmbedBatch(q) ==
    /\ pc[q] = "embed"
    /\ \/ Goto(q, "upsert") /\ UNCHANGED answer
       \/ End(q, "rejected")
    /\ UNCHANGED <<stores, job, late, next, found, named, bounds>>

\* pgvector: REFERENCES chunks(id), and the chunks are yet to be written.
Upsert(q) ==
    /\ pc[q] = "upsert"
    /\ IF VectorStore = "pgvector" /\ q \notin documents
       THEN Goto(q, "rollback") /\ UNCHANGED <<vectors, next>>
       ELSE /\ vectors' = vectors \cup {<<q, next[q]>>}
            /\ next' = [next EXCEPT ![q] = @ + 1]
            /\ Goto(q, IF next[q] = Size[job[q].content] THEN "persist" ELSE "upsert")
    /\ UNCHANGED <<documents, job, late, found, said, bounds>>

PersistAfterFirst(q) ==   \* Bug: the record is written with the first vector
    /\ pc[q] \in {"upsert", "persist"}
    /\ next[q] > 1
    /\ documents' = documents \cup {q}
    /\ named' = [named EXCEPT ![q] = q]
    /\ End(q, "created")
    /\ UNCHANGED <<vectors, job, late, next, found, bounds>>
\* The document and its chunks, in one transaction.
Persist(q) ==
    /\ pc[q] = "persist"
    /\ documents' = documents \cup {q}
    /\ named' = [named EXCEPT ![q] = q]
    /\ End(q, "created")
    /\ UNCHANGED <<vectors, job, late, next, found, bounds>>

\* A write fails.  So does, for the caller, a commit whose answer is lost.
WriteFails(q) ==
    /\ pc[q] \in {"upsert", "persist"}
    /\ faults < MaxFaults /\ faults' = faults + 1
    /\ \/ UNCHANGED <<documents, lost>>
       \/ /\ pc[q] = "persist"
          /\ documents' = documents \cup {q} /\ lost' = lost \cup {q}
    /\ Goto(q, "rollback")
    /\ UNCHANGED <<vectors, job, late, next, found, said, restarts>>

RollbackLast(q) ==   \* Bug: removes the vector last written only
    /\ pc[q] = "rollback"
    /\ vectors' = vectors \ {<<q, next[q] - 1>>}
    /\ End(q, "failed")
    /\ UNCHANGED <<documents, job, late, next, found, named, bounds>>
Rollback(q) ==
    /\ pc[q] = "rollback"
    /\ vectors' = vectors \ ChunksOf(q)
    /\ End(q, "failed")
    /\ UNCHANGED <<documents, job, late, next, found, named, bounds>>

\* The rollback raises in place of the failure it answers.
RollbackFails(q) ==
    /\ pc[q] = "rollback"
    /\ Fault
    /\ End(q, "failed")
    /\ UNCHANGED <<stores, job, late, next, found, named>>

-----------------------------------------------------------------------------
(* Deletions.                                                              *)

Delete(q, o, d) ==
    /\ pc[q] = "free"
    /\ d \in documents \/ named[d] = d
    /\ job' = [job EXCEPT ![q] = [org |-> o, content |-> NULL, doc |-> d]]
    /\ Goto(q, "find")
    /\ UNCHANGED <<stores, late, next, found, said, bounds>>

\* Another organisation's document is as unknown as none.
GetDocument(q) ==
    /\ pc[q] = "find"
    /\ IF Own(q, job[q].doc) THEN Goto(q, "unlist") /\ UNCHANGED answer
       ELSE End(q, "not_found")
    /\ UNCHANGED <<stores, job, late, next, found, named, bounds>>

\* The rows cascade to the chunks, and in pgvector to the vectors.
DeleteRecords(q) ==
    /\ pc[q] = "unlist"
    /\ documents' = documents \ {job[q].doc}
    /\ vectors' = IF VectorStore = "pgvector" THEN vectors \ ChunksOf(job[q].doc)
                  ELSE vectors
    /\ Goto(q, "unvector")
    /\ UNCHANGED <<job, late, next, found, said, bounds>>

DeleteVectors(q) ==
    /\ pc[q] = "unvector"
    /\ vectors' = vectors \ ChunksOf(job[q].doc)
    /\ End(q, "deleted")
    /\ UNCHANGED <<documents, job, late, next, found, named, bounds>>

-----------------------------------------------------------------------------
(* Queries.                                                                *)

Query(q, o) ==
    /\ pc[q] = "free"
    /\ job' = [job EXCEPT ![q] = [org |-> o, content |-> NULL, doc |-> NULL]]
    /\ Goto(q, "match")
    /\ UNCHANGED <<stores, late, next, found, said, bounds>>

SearchableAnywhere(q) == vectors   \* Bug: the limit comes before the filter
\* Of the caller's organisation: a field of the vector in Chroma, a join with
\* the documents in pgvector.
Searchable(q) ==
    {v \in vectors : /\ job[v[1]].org = job[q].org
                     /\ VectorStore = "pgvector" => v[1] \in documents}

\* The nearest K; how near each is, is left open.
QueryForOrg(q) ==
    /\ pc[q] = "match"
    /\ \E found1 \in SUBSET Searchable(q) :
          /\ Cardinality(found1) = IF K < Cardinality(Searchable(q)) THEN K
                                   ELSE Cardinality(Searchable(q))
          /\ matches' = [matches EXCEPT ![q] = found1]
    /\ around' = [around EXCEPT ![q] = {d \in documents : Own(q, d) /\ ChunksOf(d) \subseteq vectors}]
    /\ Goto(q, "texts")
    /\ UNCHANGED <<stores, job, late, next, cited, said, bounds>>

GetChunkTexts(q) == {m \in matches[q] : Own(q, m[1])}

\* Matches without a text are dropped; with none left nothing is generated
\* (or, when so configured, an answer without citations).
ReadTexts(q) ==
    /\ pc[q] = "texts"
    /\ cited' = [cited EXCEPT ![q] = GetChunkTexts(q)]
    /\ IF GetChunkTexts(q) = {} THEN End(q, "nothing")
       ELSE Goto(q, "generate") /\ UNCHANGED answer
    /\ UNCHANGED <<stores, job, late, next, matches, around, named, bounds>>

Generate(q) ==
    /\ pc[q] = "generate"
    /\ End(q, "answered") \/ End(q, "failed")
    /\ UNCHANGED <<stores, job, late, next, found, named, bounds>>

-----------------------------------------------------------------------------

\* Any other store call may fail; what is written stays.
CallFails(q) ==
    /\ pc[q] \in {"look", "find", "unlist", "unvector", "match", "texts"}
    /\ Fault
    /\ End(q, "failed")
    /\ UNCHANGED <<stores, job, late, next, found, named>>

\* The process dies and starts again.  Chroma's vectors were in its memory.
Restart ==
    /\ restarts < MaxRestarts /\ restarts' = restarts + 1
    /\ vectors' = IF VectorStore = "chroma" THEN {} ELSE vectors
    /\ lost' = IF VectorStore = "chroma" THEN lost \cup documents ELSE lost
    /\ pc' = [q \in Request |-> IF pc[q] = "free" THEN "free" ELSE "over"]
    /\ answer' = [q \in Request |-> IF pc[q] \in {"free", "over"} THEN answer[q] ELSE "failed"]
    /\ UNCHANGED <<documents, job, late, next, found, named, faults>>

Next ==
    \/ Restart
    \/ \E q \in Request :
          \/ \E o \in Org : \/ \E c \in Content : Ingest(q, o, c)
                            \/ \E d \in Request : Delete(q, o, d)
                            \/ Query(q, o)
          \/ FindByContentHash(q) \/ ExtractionTimesOut(q) \/ Extract(q)
          \/ EmbedBatch(q) \/ Upsert(q) \/ Persist(q) \/ WriteFails(q)
          \/ Rollback(q) \/ RollbackFails(q)
          \/ GetDocument(q) \/ DeleteRecords(q) \/ DeleteVectors(q)
          \/ QueryForOrg(q) \/ ReadTexts(q) \/ Generate(q)
          \/ CallFails(q)

Spec == Init /\ [][Next]_vars

-----------------------------------------------------------------------------
(* Properties.                                                             *)

\* Every listed document has a vector for each of its chunks, so it can be
\* found and an upload answered "duplicate" loses nothing, unless the process
\* died since with Chroma's vectors, or the upload was told it had failed
\* (ingestion/service.py:165-180, routers/documents.py:70-73).
ListedIsSearchable ==
    \A d \in documents \ lost : ChunksOf(d) \subseteq vectors

\* No vector outlives its document: one without a document is of an upload or
\* a deletion under way, of a deletion that failed between the two stores, or
\* of an upload whose rollback failed as well (ingestion/service.py:178-180).
OrphansForCause ==
    \A v \in vectors : v[1] \notin documents =>
        \/ pc[v[1]] \in {"upsert", "persist", "rollback"}
        \/ answer[v[1]] = "failed" /\ faults > 1
        \/ \E q \in Request : job[q].doc = v[1] /\ (pc[q] = "unvector" \/ answer[q] = "failed")

\* A query that finds nothing although the organisation has a document that
\* was there all the time was crowded out by vectors of the organisation's
\* own, of uploads and deletions, never by another's
\* (retriever.py:86-90, chroma_store.py:86-96).
NothingFoundForCause ==
    \A q \in Request :
        answer[q] = "nothing" /\ around[q] \cap documents # {} =>
            /\ matches[q] # {}
            /\ \A m \in matches[q] : job[m[1]].org = job[q].org

\* What a caller is told of, a document named or chunks cited, is of its own
\* organisation and was stored; and a duplicate is of the bytes uploaded.
WasStored(d) == named[d] = d \/ d \in lost
AnswersStayHome ==
    \A q \in Request :
        /\ \A m \in cited[q] : job[m[1]].org = job[q].org /\ WasStored(m[1])
        /\ named[q] # NULL => /\ job[named[q]].org = job[q].org
                              /\ job[named[q]].content = job[q].content

\* An upload that reaches the stores fails only when one of them does: "Commit:
\* write vectors then persist records. Roll back vectors on failure"
\* (ingestion/service.py:163-164).
UploadFailsForCause ==
    \A q \in Request : job[q].content # NULL /\ answer[q] = "failed" =>
        faults > 0 \/ restarts > 0
=============================================================================
