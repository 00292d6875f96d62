---------------------------- MODULE RagIngestion ----------------------------
(***************************************************************************)
(* IngestionPipeline.ingest of rag/ingestion.py with SqliteVectorStore:    *)
(* a document is compared by its hash, cut into pieces and embedded, and   *)
(* then written by three transactions - its row with the new hash, the     *)
(* deletion of its old chunks, the new chunks one after the other.         *)
(*                                                                         *)
(* Workers are the processes that ingest (scripts/seed_db.py, an MCP       *)
(* server with a corpus); they share the database file, each over one      *)
(* connection, which its searches use as well.  A worker may fail at any   *)
(* await: the embedder, a locked database, a cancellation, the end of the  *)
(* process.                                                                *)
(***************************************************************************)
EXTENDS Naturals

CONSTANTS
    Workers,
    Tenants,
    Documents,      \* document ids: names of files without their suffix
    Contents,       \* normalised texts; equal texts have equal hashes
    Pieces,         \* Pieces[c]: number of chunks chunk_text makes of text c
    MaxPieces,      \* the largest of them
    Settings,       \* the rest of a version: its metadata and the embedder used
    Uploads,        \* Uploads[w]: what worker w may ingest
    MaxFailures,    \* bound
    Nobody          \* no tenant: a row that does not exist

Versions == [content : Contents, settings : Settings]
Jobs == [tenant : Tenants, doc : Documents, version : Versions]

ASSUME RIAssumption ==
    /\ MaxPieces \in Nat /\ MaxFailures \in Nat
    /\ Pieces \in [Contents -> 0..MaxPieces]
    /\ Uploads \in [Workers -> SUBSET Jobs]
    /\ Contents # {} /\ Settings # {} /\ Tenants # {} /\ Documents # {}
    /\ Nobody \notin Tenants

VARIABLES
    pc,         \* pc[w]: the await at which worker w stands, or "idle"
    job,        \* job[w]: the document w ingests, or the last one it did
    result,     \* result[w]: how that ended
    docOwner,   \* rag_documents: docOwner[d] is the tenant in the row of d,
    docHash,    \* ... docHash[d] the content whose hash is in it
    owner,      \* rag_chunks: owner[id] is the tenant in the row of chunk id,
    body,       \* ... body[id] the version of which it is the piece
    inserted,   \* inserted[w]: chunks w has inserted and not committed
    orphan,     \* a cancelled BEGIN has left a transaction open (WriteTransaction)
    failures    \* failures so far

documentRows == <<docOwner, docHash>>
chunkRows == <<owner, body>>
workVars == <<pc, job, result, documentRows, chunkRows, inserted, orphan>>
ingestVars == <<workVars, failures>>

\* chunk_id is the document's id and the number of the piece.
ChunkIds == Documents \X (1..MaxPieces)

PiecesOf(version) == 1..Pieces[version.content]

\* The value of what has not been set yet; nothing looks at it.
Unset == CHOOSE j \in Jobs : TRUE

IngestInit ==
    /\ pc = [w \in Workers |-> "idle"]
    /\ job = [w \in Workers |-> Unset]
    /\ result = [w \in Workers |-> "none"]
    /\ docOwner = [d \in Documents |-> Nobody]
    /\ docHash = [d \in Documents |-> Unset.version.content]
    /\ owner = [id \in ChunkIds |-> Nobody]
    /\ body = [id \in ChunkIds |-> Unset.version]
    /\ inserted = [w \in Workers |-> 0]
    /\ orphan = FALSE
    /\ failures = 0

-----------------------------------------------------------------------------
GoTo(w, place) == pc' = [pc EXCEPT ![w] = place] /\ UNCHANGED <<result, inserted>>

Return(w, how) ==
    /\ pc' = [pc EXCEPT ![w] = "idle"]
    /\ result' = [result EXCEPT ![w] = how]
    /\ inserted' = [inserted EXCEPT ![w] = 0]

OneMoreFailure ==
    /\ failures < MaxFailures
    /\ failures' = failures + 1

Ingest(w, upload) ==
    /\ pc[w] = "idle"
    /\ job' = [job EXCEPT ![w] = upload]
    /\ GoTo(w, "hash")
    /\ UNCHANGED <<documentRows, chunkRows, orphan, failures>>

\* BEGIN IMMEDIATE waits for the transactions of the other processes.
Writable == ~orphan /\ \A w \in Workers : pc[w] # "writing"

\* Mutant of Unchanged: the hash is not compared.
UnchangedByName(w) == docOwner[job[w].doc] = job[w].tenant

\* _stored_hash: SELECT content_hash ... WHERE document_id = ? AND tenant_id = ?
Unchanged(w) ==
    LET j == job[w] IN
    docOwner[j.doc] = j.tenant /\ docHash[j.doc] = j.version.content

Skip(w) ==
    /\ pc[w] = "hash"
    /\ Unchanged(w)
    /\ Return(w, "skipped")
    /\ UNCHANGED <<job, documentRows, chunkRows, orphan, failures>>

\* The text is empty or gives no pieces: an error in the report, and what was
\* stored of the document before stays.
NothingToStore(w) ==
    /\ pc[w] = "hash"
    /\ ~Unchanged(w)
    /\ PiecesOf(job[w].version) = {}
    /\ Return(w, "empty")
    /\ UNCHANGED <<job, documentRows, chunkRows, orphan, failures>>

\* embed_batch is called; the hash was compared before and is not looked at again.
Embed(w) ==
    /\ pc[w] = "hash"
    /\ ~Unchanged(w)
    /\ PiecesOf(job[w].version) # {}
    /\ GoTo(w, "row")
    /\ UNCHANGED <<job, documentRows, chunkRows, orphan, failures>>

\* INSERT INTO rag_documents ... ON CONFLICT(document_id) DO UPDATE: the tenant
\* of a row that is there stays as it is.
WriteRow(w) ==
    LET j == job[w] IN
    /\ pc[w] = "row" /\ Writable
    /\ docOwner' = [docOwner EXCEPT ![j.doc] = IF @ = Nobody THEN j.tenant ELSE @]
    /\ docHash' = [docHash EXCEPT ![j.doc] = j.version.content]
    /\ GoTo(w, "delete")
    /\ UNCHANGED <<job, chunkRows, orphan, failures>>

\* Mutant of DeleteChunks: merge rather than replace.
DeleteNothing(w) ==
    /\ pc[w] = "delete" /\ Writable
    /\ GoTo(w, "upsert")
    /\ UNCHANGED <<job, documentRows, chunkRows, orphan, failures>>

\* DELETE FROM rag_chunks WHERE tenant_id = ? AND document_id = ?
DeleteChunks(w) ==
    LET j == job[w] IN
    /\ pc[w] = "delete" /\ Writable
    /\ owner' = [id \in ChunkIds |->
                    IF id[1] = j.doc /\ owner[id] = j.tenant THEN Nobody ELSE owner[id]]
    /\ GoTo(w, "upsert")
    /\ UNCHANGED <<job, documentRows, body, orphan, failures>>

\* What w's connection sees when its open transaction has inserted n chunks: ON
\* CONFLICT(chunk_id) DO UPDATE, where too the tenant of an existing row stays.
OwnerAfter(w, n, id) ==
    IF id \in {job[w].doc} \X (1..n) /\ owner[id] = Nobody THEN job[w].tenant ELSE owner[id]

BodyAfter(w, n, id) ==
    IF id \in {job[w].doc} \X (1..n) THEN job[w].version ELSE body[id]

\* INSERT INTO rag_chunks, for one piece after the other in one transaction.
InsertChunk(w) ==
    /\ (pc[w] = "upsert" /\ Writable) \/ pc[w] = "writing"
    /\ inserted[w] + 1 \in PiecesOf(job[w].version)
    /\ inserted' = [inserted EXCEPT ![w] = @ + 1]
    /\ pc' = [pc EXCEPT ![w] = "writing"]
    /\ UNCHANGED <<job, result, documentRows, chunkRows, orphan, failures>>

\* COMMIT; it may take effect although the worker sees an exception.
Commit(w) ==
    LET n == Pieces[job[w].version.content] IN
    /\ pc[w] = "writing" /\ inserted[w] = n
    /\ owner' = [id \in ChunkIds |-> OwnerAfter(w, n, id)]
    /\ body' = [id \in ChunkIds |-> BodyAfter(w, n, id)]
    /\ \/ Return(w, "embedded") /\ UNCHANGED failures
       \/ Return(w, "failed") /\ OneMoreFailure
    /\ UNCHANGED <<job, documentRows, orphan>>

\* An exception at an await: an open transaction is rolled back, nothing of what
\* was committed is undone. A cancelled BEGIN may still be executed.
Fail(w) ==
    /\ pc[w] # "idle"
    /\ OneMoreFailure
    /\ Return(w, "failed")
    /\ \/ UNCHANGED orphan
       \/ pc[w] \in {"row", "delete", "upsert"} /\ Writable /\ orphan' = TRUE
    /\ UNCHANGED <<job, documentRows, chunkRows>>

\* Another connection than the orphan's waits for the file in vain, the orphan's
\* own refuses a second BEGIN.
LockedOut(w) ==
    /\ pc[w] \in {"row", "delete", "upsert"} /\ orphan
    /\ Return(w, "failed")
    /\ UNCHANGED <<job, documentRows, chunkRows, orphan, failures>>

\* The process with the orphan ends: its connection is closed.
OrphanEnds ==
    /\ orphan
    /\ orphan' = FALSE
    /\ UNCHANGED <<pc, job, result, documentRows, chunkRows, inserted, failures>>

-----------------------------------------------------------------------------
IngestStep(w) ==
    \/ Skip(w)
    \/ NothingToStore(w)
    \/ Embed(w)
    \/ WriteRow(w)
    \/ DeleteChunks(w)
    \/ InsertChunk(w)
    \/ Commit(w)
    \/ LockedOut(w)

IngestNext ==
    \/ \E w \in Workers :
          \/ \E upload \in Uploads[w] : Ingest(w, upload)
          \/ IngestStep(w)
          \/ Fail(w)
    \/ OrphanEnds

IngestSpec == IngestInit /\ [][IngestNext]_ingestVars

\* What two workers ingest as document d, or one for two tenants, is the same copy.
\* (A worker by itself may be given one version for a tenant after the other.)
OneCopy(d) ==
    \A w, other \in Workers : \A j \in Uploads[w], k \in Uploads[other] :
        j.doc = d /\ k.doc = d /\ (w # other \/ j.tenant # k.tenant) => j.version = k.version

\* d is ingested for one tenant.
OneTenant(d) ==
    \A w, other \in Workers : \A j \in Uploads[w], k \in Uploads[other] :
        j.doc = d /\ k.doc = d => j.tenant = k.tenant

-----------------------------------------------------------------------------
\* The type invariant: a place for every worker, and every row of the two tables
\* belongs to a tenant or is not there.
IngestTypeOK ==
    /\ pc \in [Workers -> {"idle", "hash", "row", "delete", "upsert", "writing"}]
    /\ job \in [Workers -> Jobs]
    /\ result \in [Workers -> {"none", "skipped", "empty", "embedded", "failed"}]
    /\ docOwner \in [Documents -> Tenants \cup {Nobody}]
    /\ docHash \in [Documents -> Contents]
    /\ owner \in [ChunkIds -> Tenants \cup {Nobody}]
    /\ body \in [ChunkIds -> Versions]
    /\ inserted \in [Workers -> 0..MaxPieces] /\ orphan \in BOOLEAN
    /\ failures \in 0..MaxFailures

\* What a search of tenant t can find of document d.
Holding(t, d) == {id \in {d} \X (1..MaxPieces) : owner[id] = t}

\* ... and what it can find over the connection of w, which is read without the
\* lock, also between two statements of a transaction.
HoldingSeen(w, t, d) ==
    {id \in {d} \X (1..MaxPieces) : OwnerAfter(w, inserted[w], id) = t}

\* Exactly the pieces of this version are found.
Served(t, d, version) ==
    /\ Holding(t, d) = {d} \X PiecesOf(version)
    /\ \A id \in Holding(t, d) : body[id] = version

\* A search never mixes two versions of a document of which there is one copy at a
\* time: whatever ingestion fails at whatever await, and whoever else ingests it for
\* whom, what is there of it is nothing or all the pieces of one version; only the
\* process that is inserting them can find a part of them.
OneVersion ==
    \A t \in Tenants : \A d \in {doc \in Documents : OneCopy(doc)} :
        /\ Holding(t, d) # {} => \E version \in Versions : Served(t, d, version)
        /\ \A w \in Workers :
              LET seen == HoldingSeen(w, t, d) IN
              seen # {} => \E version \in Versions :
                  /\ \A id \in seen : BodyAfter(w, inserted[w], id) = version
                  /\ seen \subseteq {d} \X PiecesOf(version)

\* When nobody ingests and nothing has failed, a document that a worker ingested
\* last, or skipped because it was unchanged, is found if all have the same copy: in
\* that version, or if it was skipped in one of the same text (what else has changed
\* is not compared). It is found by its tenant, unless others ingest it as well: then
\* by one of them.
RestIsServed ==
    failures = 0 /\ (\A w \in Workers : pc[w] = "idle") =>
        \A w \in Workers :
            LET j == job[w] IN
            result[w] \in {"embedded", "skipped"} /\ OneCopy(j.doc) =>
                \E t \in Tenants, v \in Versions :
                    /\ Served(t, j.doc, v)
                    /\ v.content = j.version.content
                    /\ result[w] = "embedded" => v = j.version
                    /\ OneTenant(j.doc) => t = j.tenant

\* "A document that lost a section must not keep serving the removed passage"
\* (ingest): what is found after an ingestion is of the version it was given.
RemovedIsGone ==
    \A w \in Workers :
        pc[w] = "idle" /\ result[w] \in {"skipped", "embedded"} =>
            LET j == job[w] IN
            \A id \in Holding(j.tenant, j.doc) :
                id[2] \in PiecesOf(j.version) /\ body[id] = j.version
=============================================================================
