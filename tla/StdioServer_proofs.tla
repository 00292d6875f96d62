-------------------------- MODULE StdioServer_proofs --------------------------
(***************************************************************************)
(* Proofs about RagIngestion, for any workers, tenants, texts and number   *)
(* of failures, and about StdioServer and the lazily built service of      *)
(* KnowledgeSearch on top of it, for any servers, calls and corpora.       *)
(*                                                                         *)
(* An ingestion is three transactions, and nothing but the order of the    *)
(* statements ties them together.  IngestInv says what the tables hold of  *)
(* a document for every place where its workers may stand: nothing, or the *)
(* pieces of one version, and which version where it matters.              *)
(*                                                                         *)
(* The searches of a server meet at its lock.  LockInv says that whoever   *)
(* builds is the first in line, that nobody searches without a service and *)
(* that the pipeline works only for the one who builds; FailureInv and     *)
(* CorpusInv say what that means for the answers.                          *)
(***************************************************************************)
EXTENDS StdioServer, SequenceTheorems, FiniteSetTheorems, TLAPS

-----------------------------------------------------------------------------
(* Ingestion.                                                              *)

\* What is there of document d: nothing, or version v for tenant t.
Empty(d) == \A id \in ChunkIds : id[1] = d => owner[id] = Nobody

Kept(t, d, v) ==
    \A id \in ChunkIds : id[1] = d =>
        IF id[2] \in PiecesOf(v) THEN owner[id] = t /\ body[id] = v ELSE owner[id] = Nobody

\* ... version v, for whichever tenant.
There(d, v) == \E t \in Tenants : Kept(t, d, v)

Whole(d) == OneCopy(d) => Empty(d) \/ \E v \in Versions : There(d, v)

\* Some version with this text.
TextThere(d, c) == \E v \in Versions : v.content = c /\ There(d, v)

\* A worker handles what it was given.
Given(w) ==
    /\ pc[w] # "idle" \/ result[w] # "none" => job[w] \in Uploads[w]
    /\ inserted[w] # 0 => pc[w] = "writing"
    /\ inserted[w] <= Pieces[job[w].version.content] \/ pc[w] # "writing"

\* A row belongs to a tenant that somebody ingests its document for.
Rightful(d, t) == t # Nobody =>
    \E w \in Workers : \E j \in Uploads[w] : j.doc = d /\ j.tenant = t

\* A chunk is of a version that somebody ingests of its document.
Stored(id) == owner[id] # Nobody =>
    \E w \in Workers : \E j \in Uploads[w] : j.doc = id[1] /\ j.version = body[id]

\* From the write of the row on it is there and says what w ingests.
Rowed(w) == OneCopy(job[w].doc) /\ pc[w] \in {"delete", "upsert", "writing"} =>
    /\ docOwner[job[w].doc] # Nobody
    /\ docHash[job[w].doc] = job[w].version.content

\* Between the deletion and the commit nothing is there, or, if somebody else has
\* committed meanwhile or has it for another tenant, what w is about to commit.
Cleared(w) == OneCopy(job[w].doc) /\ pc[w] \in {"upsert", "writing"} =>
    Empty(job[w].doc) \/ There(job[w].doc, job[w].version)

Refilling(d, places) == \E w \in Workers : pc[w] \in places /\ job[w].doc = d

\* While nothing has failed, a row whose chunks are not there is one that a worker
\* has still to fill,
Filled(d) == OneCopy(d) /\ failures = 0 /\ docOwner[d] # Nobody =>
    \/ TextThere(d, docHash[d])
    \/ Refilling(d, {"delete", "upsert", "writing"})

\* ... and so is a document that was ingested or skipped and is not there.
Reported(w) ==
    LET j == job[w] IN
    OneCopy(j.doc) /\ failures = 0 /\ pc[w] = "idle" =>
        /\ result[w] = "embedded" =>
              There(j.doc, j.version) \/ Refilling(j.doc, {"upsert", "writing"})
        /\ result[w] = "skipped" =>
              \/ TextThere(j.doc, j.version.content)
              \/ Refilling(j.doc, {"delete", "upsert", "writing"})

IngestInv ==
    /\ IngestTypeOK
    /\ \A w \in Workers : Given(w) /\ Rowed(w) /\ Cleared(w) /\ Reported(w)
    /\ \A d \in Documents : Whole(d) /\ Filled(d) /\ Rightful(d, docOwner[d])
    /\ \A id \in ChunkIds : Rightful(id[1], owner[id]) /\ Stored(id)
    /\ orphan => failures # 0

-----------------------------------------------------------------------------
LEMMA UploadsAreJobs ==
    ASSUME NEW w \in Workers, NEW j \in Uploads[w]
    PROVE  /\ j \in Jobs /\ j.tenant \in Tenants /\ j.doc \in Documents /\ j.version \in Versions
           /\ j.version.content \in Contents
           /\ Pieces[j.version.content] \in 0..MaxPieces
BY RIAssumption DEF Jobs, Versions

LEMMA UnsetIsJob ==
    /\ Unset \in Jobs /\ Unset.version \in Versions /\ Unset.version.content \in Contents
<1>1. \E j : j \in Jobs
  <2>1. PICK t \in Tenants, d \in Documents, c \in Contents, s \in Settings : TRUE
    BY RIAssumption
  <2>2. [tenant |-> t, doc |-> d, version |-> [content |-> c, settings |-> s]] \in Jobs
    BY DEF Jobs, Versions
  <2>. QED
    BY <2>2
<1>2. Unset \in Jobs
  BY <1>1, Zenon DEF Unset
<1>. QED
  BY <1>2 DEF Jobs, Versions

LEMMA IngestInitOK == IngestInit => IngestInv
<1>. SUFFICES ASSUME IngestInit PROVE IngestInv
  OBVIOUS
<1>1. IngestTypeOK
  <2>1. 0 \in 0..MaxPieces /\ 0 \in 0..MaxFailures
    BY RIAssumption
  <2>2. job \in [Workers -> Jobs] /\ body \in [ChunkIds -> Versions]
    BY UnsetIsJob DEF IngestInit
  <2>3. docHash \in [Documents -> Contents]
    BY UnsetIsJob DEF IngestInit
  <2>. QED
    BY <2>1, <2>2, <2>3 DEF IngestInit, IngestTypeOK
<1>2. ASSUME NEW w \in Workers PROVE Given(w) /\ Rowed(w) /\ Cleared(w) /\ Reported(w)
  BY DEF IngestInit, Given, Rowed, Cleared, Reported
<1>3. ASSUME NEW d \in Documents PROVE Whole(d) /\ Filled(d) /\ Rightful(d, docOwner[d])
  BY DEF IngestInit, Whole, Empty, Filled, Rightful
<1>4. ASSUME NEW id \in ChunkIds PROVE Rightful(id[1], owner[id]) /\ Stored(id)
  BY DEF IngestInit, Rightful, Stored
<1>. QED
  BY <1>1, <1>2, <1>3, <1>4 DEF IngestInit, IngestInv

LEMMA SameDocument ==
    ASSUME IngestInv, NEW w \in Workers, NEW x \in Workers, x # w,
           pc[w] # "idle" \/ result[w] # "none", pc[x] # "idle" \/ result[x] # "none",
           job[x].doc = job[w].doc, OneCopy(job[w].doc)
    PROVE  job[x].version = job[w].version
BY DEF OneCopy, IngestInv, Given

\* What another tenant has of a document is what w ingests of it.
LEMMA OthersCopy ==
    ASSUME IngestInv, NEW w \in Workers, pc[w] # "idle", OneCopy(job[w].doc),
           NEW id \in ChunkIds, id[1] = job[w].doc, owner[id] \notin {Nobody, job[w].tenant}
    PROVE  body[id] = job[w].version
<1>1. job[w] \in Uploads[w]
  BY DEF IngestInv, Given
<1>2. PICK x \in Workers, r \in Jobs :
          r \in Uploads[x] /\ r.doc = id[1] /\ r.tenant = owner[id]
  BY UploadsAreJobs DEF IngestInv, Rightful
<1>3. PICK y \in Workers, k \in Jobs :
          k \in Uploads[y] /\ k.doc = id[1] /\ k.version = body[id]
  BY UploadsAreJobs DEF IngestInv, Stored
<1>4. r.version = job[w].version
  BY <1>1, <1>2 DEF OneCopy
<1>5. k.version = r.version \/ k.version = job[w].version
  BY <1>1, <1>2, <1>3 DEF OneCopy
<1>. QED
  BY <1>3, <1>4, <1>5

LEMMA IngestTypeStep ==
    ASSUME IngestTypeOK, [IngestNext]_ingestVars
    PROVE  IngestTypeOK'
<1>. USE DEF IngestTypeOK, documentRows, chunkRows, GoTo
<1>1. ASSUME NEW w \in Workers, NEW upload \in Uploads[w], Ingest(w, upload) PROVE IngestTypeOK'
  BY <1>1, UploadsAreJobs DEF Ingest
<1>2. ASSUME NEW w \in Workers, IngestStep(w) PROVE IngestTypeOK'
  <2>. USE RIAssumption DEF Return
  <2>1. CASE Skip(w) \/ NothingToStore(w) \/ Embed(w) \/ LockedOut(w)
    BY <2>1 DEF Skip, NothingToStore, Embed, LockedOut
  <2>2. CASE WriteRow(w)
    BY <2>2 DEF WriteRow, Jobs, Versions
  <2>3. CASE DeleteChunks(w)
    BY <2>3 DEF DeleteChunks
  <2>4. CASE InsertChunk(w)
    <3>1. inserted[w] + 1 \in 0..MaxPieces
      BY <2>4 DEF InsertChunk, PiecesOf, Jobs, Versions
    <3>. QED
      BY <2>4, <3>1 DEF InsertChunk
  <2>5. CASE Commit(w)
    <3>1. job[w].tenant \in Tenants /\ job[w].version \in Versions
      BY DEF Jobs
    <3>2. owner' \in [ChunkIds -> Tenants \cup {Nobody}] /\ body' \in [ChunkIds -> Versions]
      BY <2>5, <3>1 DEF Commit, OwnerAfter, BodyAfter
    <3>. QED
      BY <2>5, <3>2 DEF Commit, OneMoreFailure
  <2>. QED
    BY <1>2, <2>1, <2>2, <2>3, <2>4, <2>5 DEF IngestStep
<1>3. ASSUME NEW w \in Workers, Fail(w) PROVE IngestTypeOK'
  <2>1. failures' \in 0..MaxFailures
    BY <1>3, RIAssumption DEF Fail, OneMoreFailure
  <2>2. /\ pc' = [pc EXCEPT ![w] = "idle"] /\ result' = [result EXCEPT ![w] = "failed"]
        /\ inserted' = [inserted EXCEPT ![w] = 0] /\ orphan' \in BOOLEAN
        /\ UNCHANGED <<job, documentRows, chunkRows>>
    BY <1>3 DEF Fail, Return
  <2>. QED
    BY <2>1, <2>2, RIAssumption
<1>4. CASE OrphanEnds \/ UNCHANGED ingestVars
  BY <1>4 DEF OrphanEnds, ingestVars, workVars
<1>. QED
  BY <1>1, <1>2, <1>3, <1>4 DEF IngestNext

-----------------------------------------------------------------------------
(* What a step leaves as it is.                                            *)

LEMMA RowsStayRightful ==
    ASSUME IngestInv,
           \A d \in Documents : docOwner'[d] = docOwner[d] \/ Rightful(d, docOwner'[d]),
           \A id \in ChunkIds : owner'[id] \in {owner[id], Nobody} \/ Rightful(id[1], owner'[id])
    PROVE  /\ \A d \in Documents : Rightful(d, docOwner'[d])
           /\ \A id \in ChunkIds : Rightful(id[1], owner'[id])
BY DEF IngestInv, Rightful

LEMMA ChunksStayStored ==
    ASSUME IngestInv,
           \A id \in ChunkIds :
               \/ owner'[id] = Nobody
               \/ owner'[id] = owner[id] /\ body'[id] = body[id]
               \/ \E w \in Workers : \E j \in Uploads[w] : j.doc = id[1] /\ j.version = body'[id]
    PROVE  \A id \in ChunkIds : Stored(id)'
BY DEF IngestInv, Stored

\* Only w moves.
Onward(w) == \A x \in Workers :
    x # w => pc'[x] = pc[x] /\ job'[x] = job[x] /\ result'[x] = result[x]
             /\ inserted'[x] = inserted[x]

\* A step that leaves the tables alone, of a worker that has nothing to fill in, or
\* goes on filling it in, or has failed.
LEMMA QuietStep ==
    ASSUME IngestInv, IngestTypeOK', NEW w \in Workers, Onward(w),
           UNCHANGED <<documentRows, chunkRows>>,
           \/ pc[w] \in {"idle", "hash"}
           \/ pc[w] \in {"upsert", "writing"} /\ pc'[w] = "writing" /\ job'[w] = job[w]
           \/ failures' # 0,
           failures' = 0 => failures = 0,
           orphan' => failures' # 0,
           Given(w)', Rowed(w)', Cleared(w)', Reported(w)'
    PROVE  IngestInv'
<1>1. /\ \A d \in Documents : docOwner'[d] = docOwner[d] /\ docHash'[d] = docHash[d]
      /\ \A id \in ChunkIds : owner'[id] = owner[id] /\ body'[id] = body[id]
  BY DEF documentRows, chunkRows
<1>2. \A d \in Documents : Rightful(d, docOwner'[d])
  BY <1>1, RowsStayRightful
<1>3. \A id \in ChunkIds : Rightful(id[1], owner'[id])
  BY <1>1, RowsStayRightful
<1>4. ASSUME NEW x \in Workers PROVE (Given(x) /\ Rowed(x) /\ Cleared(x) /\ Reported(x))'
  <2>1. CASE x = w
    BY <2>1
  <2>2. CASE x # w
    <3>1. Given(x)' /\ Rowed(x)' /\ Cleared(x)'
      BY <2>2 DEF Onward, IngestInv, Given, Rowed, Cleared, Empty, There, Kept, documentRows,
         chunkRows
    <3>2. Reported(x)'
      BY <2>2 DEF Onward, IngestInv, Reported, TextThere, There, Kept, Refilling, documentRows, chunkRows
    <3>. QED
      BY <3>1, <3>2
  <2>. QED
    BY <2>1, <2>2
<1>5. ASSUME NEW d \in Documents PROVE (Whole(d) /\ Filled(d))'
  <2>1. Whole(d)'
    BY DEF IngestInv, Whole, Empty, There, Kept, chunkRows
  <2>2. Filled(d)'
    BY DEF Onward, IngestInv, Filled, TextThere, There, Kept, Refilling, documentRows, chunkRows
  <2>. QED
    BY <2>1, <2>2
<1>6. \A id \in ChunkIds : Stored(id)'
  BY <1>1, ChunksStayStored
<1>. QED
  BY <1>2, <1>3, <1>4, <1>5, <1>6 DEF IngestInv, Rightful

\* Nothing has changed but the count of the failures, or the end of an orphan.
LEMMA IdleStep ==
    ASSUME IngestInv, IngestTypeOK',
           UNCHANGED <<pc, job, result, documentRows, chunkRows, inserted>>,
           failures' = 0 => failures = 0,
           orphan' => failures' # 0
    PROVE  IngestInv'
<1>1. ASSUME NEW x \in Workers PROVE (Given(x) /\ Rowed(x) /\ Cleared(x) /\ Reported(x))'
  BY DEF IngestInv, Given, Rowed, Cleared, Empty, There, Kept, Reported, TextThere, Refilling,
     documentRows, chunkRows
<1>2. ASSUME NEW d \in Documents PROVE (Whole(d) /\ Filled(d))'
  BY DEF IngestInv, Whole, Empty, There, Kept, Filled, TextThere, Refilling, documentRows, chunkRows
<1>3. /\ \A d \in Documents : Rightful(d, docOwner'[d])
      /\ \A id \in ChunkIds : Rightful(id[1], owner'[id])
  BY RowsStayRightful DEF documentRows, chunkRows
<1>4. \A id \in ChunkIds : Stored(id)'
  BY ChunksStayStored DEF chunkRows
<1>. QED
  BY <1>1, <1>2, <1>3, <1>4 DEF IngestInv, Rightful

-----------------------------------------------------------------------------
(* The steps.                                                              *)

LEMMA IngestKeeps ==
    ASSUME IngestInv, IngestTypeOK', NEW w \in Workers, NEW upload \in Uploads[w],
           Ingest(w, upload)
    PROVE  IngestInv'
<1>1. /\ pc[w] = "idle" /\ pc' = [pc EXCEPT ![w] = "hash"] /\ job' = [job EXCEPT ![w] = upload]
      /\ UNCHANGED <<result, inserted, documentRows, chunkRows, orphan, failures>>
  BY DEF Ingest, GoTo
<1>2. pc'[w] = "hash" /\ job'[w] = upload /\ Onward(w)
  BY <1>1 DEF IngestInv, IngestTypeOK, Onward
<1>3. Given(w)' /\ Rowed(w)' /\ Cleared(w)' /\ Reported(w)'
  BY <1>1, <1>2 DEF IngestInv, Given, Rowed, Cleared, Reported
<1>. QED
  BY <1>1, <1>2, <1>3, QuietStep DEF IngestInv

\* The hash is that of what is stored, or of what somebody is about to store.
LEMMA SkipKeeps ==
    ASSUME IngestInv, IngestTypeOK', NEW w \in Workers, Skip(w)
    PROVE  IngestInv'
<1>1. /\ pc[w] = "hash" /\ pc' = [pc EXCEPT ![w] = "idle"]
      /\ result' = [result EXCEPT ![w] = "skipped"] /\ inserted' = [inserted EXCEPT ![w] = 0]
      /\ docOwner[job[w].doc] = job[w].tenant /\ docHash[job[w].doc] = job[w].version.content
      /\ UNCHANGED <<job, documentRows, chunkRows, orphan, failures>>
  BY DEF Skip, Return, Unchanged
<1>2. pc'[w] = "idle" /\ result'[w] = "skipped" /\ inserted'[w] = 0 /\ Onward(w)
  BY <1>1 DEF IngestInv, IngestTypeOK, Onward
<1>3. Given(w)' /\ Rowed(w)' /\ Cleared(w)'
  BY <1>1, <1>2 DEF IngestInv, Given, Rowed, Cleared
<1>4. Reported(w)'
  <2>1. job[w] \in Uploads[w] /\ job[w].doc \in Documents /\ job[w].tenant # Nobody
    BY <1>1, UploadsAreJobs, RIAssumption DEF IngestInv, Given
  <2>2. OneCopy(job[w].doc) /\ failures = 0 =>
            \/ TextThere(job[w].doc, job[w].version.content)
            \/ Refilling(job[w].doc, {"delete", "upsert", "writing"})
    BY <1>1, <2>1 DEF IngestInv, Filled
  <2>3. TextThere(job[w].doc, job[w].version.content) =>
            TextThere(job[w].doc, job[w].version.content)'
    BY <1>1 DEF TextThere, There, Kept, chunkRows
  <2>4. Refilling(job[w].doc, {"delete", "upsert", "writing"}) =>
            Refilling(job[w].doc, {"delete", "upsert", "writing"})'
    BY <1>1, <1>2 DEF Refilling, Onward
  <2>. QED
    BY <1>1, <1>2, <2>2, <2>3, <2>4 DEF Reported
<1>. QED
  BY <1>1, <1>2, <1>3, <1>4, QuietStep DEF IngestInv

LEMMA EmbedKeeps ==
    ASSUME IngestInv, IngestTypeOK', NEW w \in Workers,
           NothingToStore(w) \/ Embed(w) \/ InsertChunk(w)
    PROVE  IngestInv'
<1>1. CASE NothingToStore(w)
  <2>1. /\ pc[w] = "hash" /\ pc' = [pc EXCEPT ![w] = "idle"]
        /\ result' = [result EXCEPT ![w] = "empty"] /\ inserted' = [inserted EXCEPT ![w] = 0]
        /\ UNCHANGED <<job, documentRows, chunkRows, orphan, failures>>
    BY <1>1 DEF NothingToStore, Return
  <2>2. pc'[w] = "idle" /\ result'[w] = "empty" /\ inserted'[w] = 0 /\ Onward(w)
    BY <2>1 DEF IngestInv, IngestTypeOK, Onward
  <2>3. Given(w)' /\ Rowed(w)' /\ Cleared(w)' /\ Reported(w)'
    BY <2>1, <2>2 DEF IngestInv, Given, Rowed, Cleared, Reported
  <2>. QED
    BY <2>1, <2>2, <2>3, QuietStep DEF IngestInv
<1>2. CASE Embed(w)
  <2>1. /\ pc[w] = "hash" /\ pc' = [pc EXCEPT ![w] = "row"]
        /\ UNCHANGED <<result, inserted, job, documentRows, chunkRows, orphan, failures>>
    BY <1>2 DEF Embed, GoTo
  <2>2. pc'[w] = "row" /\ Onward(w)
    BY <2>1 DEF IngestInv, IngestTypeOK, Onward
  <2>3. Given(w)' /\ Rowed(w)' /\ Cleared(w)' /\ Reported(w)'
    BY <2>1, <2>2 DEF IngestInv, Given, Rowed, Cleared, Reported
  <2>. QED
    BY <2>1, <2>2, <2>3, QuietStep DEF IngestInv
<1>3. CASE InsertChunk(w)
  <2>1. /\ pc[w] \in {"upsert", "writing"} /\ pc' = [pc EXCEPT ![w] = "writing"]
        /\ inserted[w] + 1 \in PiecesOf(job[w].version)
        /\ inserted' = [inserted EXCEPT ![w] = inserted[w] + 1]
        /\ UNCHANGED <<result, job, documentRows, chunkRows, orphan, failures>>
    BY <1>3 DEF InsertChunk, IngestInv, IngestTypeOK
  <2>2. pc'[w] = "writing" /\ inserted'[w] = inserted[w] + 1 /\ Onward(w)
    BY <2>1 DEF IngestInv, IngestTypeOK, Onward
  <2>3. Given(w)' /\ Rowed(w)' /\ Cleared(w)' /\ Reported(w)'
    BY <2>1, <2>2 DEF IngestInv, Given, Rowed, Cleared, Empty, There, Kept, Reported, PiecesOf,
       documentRows, chunkRows
  <2>. QED
    BY <2>1, <2>2, <2>3, QuietStep DEF IngestInv
<1>. QED
  BY <1>1, <1>2, <1>3

\* A worker that fails, or is locked out, leaves what is committed.
LEMMA FailKeeps ==
    ASSUME IngestInv, IngestTypeOK', NEW w \in Workers, Fail(w) \/ LockedOut(w)
    PROVE  IngestInv'
<1>1. /\ pc[w] # "idle" /\ pc' = [pc EXCEPT ![w] = "idle"]
      /\ result' = [result EXCEPT ![w] = "failed"] /\ inserted' = [inserted EXCEPT ![w] = 0]
      /\ UNCHANGED <<job, documentRows, chunkRows>>
  BY DEF Fail, LockedOut, Return
<1>2. failures' # 0
  BY DEF IngestInv, IngestTypeOK, Fail, LockedOut, OneMoreFailure
<1>3. pc'[w] = "idle" /\ result'[w] = "failed" /\ inserted'[w] = 0 /\ Onward(w)
  BY <1>1 DEF IngestInv, IngestTypeOK, Onward
<1>4. Given(w)' /\ Rowed(w)' /\ Cleared(w)' /\ Reported(w)'
  BY <1>1, <1>2, <1>3 DEF IngestInv, Given, Rowed, Cleared, Reported
<1>. QED
  BY <1>1, <1>2, <1>3, <1>4, QuietStep DEF IngestInv

\* The row says what w ingests; so do the other workers that are past it.
LEMMA WriteRowKeeps ==
    ASSUME IngestInv, IngestTypeOK', NEW w \in Workers, WriteRow(w)
    PROVE  IngestInv'
<1>. DEFINE d0 == job[w].doc
<1>1. /\ pc[w] = "row" /\ pc' = [pc EXCEPT ![w] = "delete"]
      /\ docHash' = [docHash EXCEPT ![d0] = job[w].version.content]
      /\ docOwner' = [docOwner EXCEPT ![d0] = IF docOwner[d0] = Nobody THEN job[w].tenant
                                              ELSE docOwner[d0]]
      /\ UNCHANGED <<result, inserted, job, chunkRows, orphan, failures>>
  BY UploadsAreJobs DEF WriteRow, GoTo, IngestInv, IngestTypeOK, Given
<1>2. pc'[w] = "delete" /\ Onward(w)
  BY <1>1 DEF IngestInv, IngestTypeOK, Onward
<1>3. d0 \in Documents /\ job[w] \in Uploads[w]
  BY <1>1, UploadsAreJobs DEF IngestInv, Given
<1>4. /\ docOwner'[d0] \in {docOwner[d0], job[w].tenant} \ {Nobody}
      /\ docHash'[d0] = job[w].version.content
      /\ \A d \in Documents : d # d0 => docOwner'[d] = docOwner[d] /\ docHash'[d] = docHash[d]
  BY <1>1, <1>3, UploadsAreJobs, RIAssumption DEF IngestInv, IngestTypeOK
<1>5. /\ \A d \in Documents : Rightful(d, docOwner'[d])
      /\ \A id \in ChunkIds : Rightful(id[1], owner'[id])
  <2>1. docOwner'[d0] = docOwner[d0] \/ Rightful(d0, docOwner'[d0])
    BY <1>3, <1>4 DEF Rightful
  <2>. QED
    BY <1>1, <1>4, <2>1, RowsStayRightful DEF chunkRows
<1>6. ASSUME NEW x \in Workers PROVE (Given(x) /\ Rowed(x) /\ Cleared(x) /\ Reported(x))'
  <2>1. Given(x)' /\ Cleared(x)'
    BY <1>1, <1>2 DEF Onward, IngestInv, Given, Cleared, Empty, There, Kept, chunkRows
  <2>2. Rowed(x)'
    <3>1. CASE x = w
      BY <1>1, <1>4, <3>1 DEF Rowed
    <3>2. CASE x # w /\ job[x].doc = d0
      <4>1. ASSUME pc[x] # "idle", OneCopy(d0) PROVE job[x].version = job[w].version
        BY <1>1, <3>2, <4>1, SameDocument
      <4>. QED
        BY <1>1, <1>2, <1>4, <3>2, <4>1 DEF Rowed, Onward
    <3>3. CASE x # w /\ job[x].doc # d0
      BY <1>1, <1>2, <1>4, <3>3 DEF Rowed, Onward, IngestInv, IngestTypeOK, Jobs
    <3>. QED
      BY <3>1, <3>2, <3>3
  <2>3. Reported(x)'
    BY <1>1, <1>2 DEF Onward, IngestInv, Reported, TextThere, There, Kept, Refilling, chunkRows
  <2>. QED
    BY <2>1, <2>2, <2>3
<1>7. ASSUME NEW d \in Documents PROVE (Whole(d) /\ Filled(d))'
  <2>1. Whole(d)'
    BY <1>1 DEF IngestInv, Whole, Empty, There, Kept, chunkRows
  <2>2. Filled(d)'
    <3>1. CASE d = d0
      BY <1>1, <1>2, <3>1 DEF Filled, Refilling
    <3>2. CASE d # d0
      BY <1>1, <1>2, <1>4, <3>2 DEF Onward, IngestInv, Filled, TextThere, There, Kept, Refilling, chunkRows
    <3>. QED
      BY <3>1, <3>2
  <2>. QED
    BY <2>1, <2>2
<1>8. \A id \in ChunkIds : Stored(id)'
  BY <1>1, ChunksStayStored DEF chunkRows
<1>. QED
  BY <1>1, <1>5, <1>6, <1>7, <1>8 DEF IngestInv, Rightful

\* Nothing of the document is there afterwards, or what another tenant has of it.
LEMMA DeleteKeeps ==
    ASSUME IngestInv, IngestTypeOK', NEW w \in Workers, DeleteChunks(w)
    PROVE  IngestInv'
<1>. DEFINE d0 == job[w].doc
<1>1. /\ pc[w] = "delete" /\ pc' = [pc EXCEPT ![w] = "upsert"]
      /\ owner' = [id \in ChunkIds |->
                      IF id[1] = d0 /\ owner[id] = job[w].tenant THEN Nobody ELSE owner[id]]
      /\ UNCHANGED <<result, inserted, job, documentRows, body, orphan, failures>>
  BY DEF DeleteChunks, GoTo
<1>2. pc'[w] = "upsert" /\ Onward(w)
  BY <1>1 DEF IngestInv, IngestTypeOK, Onward
<1>3. d0 \in Documents
  BY <1>1, UploadsAreJobs DEF IngestInv, Given
<1>4. /\ \A id \in ChunkIds : id[1] # d0 => owner'[id] = owner[id]
      /\ \A id \in ChunkIds : owner'[id] \in {owner[id], Nobody} /\ body'[id] = body[id]
  BY <1>1
<1>5. OneCopy(d0) => (Empty(d0) \/ There(d0, job[w].version))'
  <2>. SUFFICES ASSUME OneCopy(d0) PROVE (Empty(d0) \/ There(d0, job[w].version))'
    OBVIOUS
  <2>1. CASE Empty(d0)
    BY <1>1, <1>4, <2>1 DEF Empty
  <2>2. ASSUME NEW t \in Tenants, NEW v \in Versions, Kept(t, d0, v)
        PROVE  (Empty(d0) \/ There(d0, job[w].version))'
    <3>1. CASE t = job[w].tenant
      BY <1>1, <2>2, <3>1 DEF Empty, Kept
    <3>2. CASE t # job[w].tenant
      <4>1. \A id \in ChunkIds : id[1] = d0 => owner'[id] = owner[id]
        BY <1>1, <2>2, <3>2 DEF Kept
      <4>2. ASSUME NEW id \in ChunkIds, id[1] = d0, id[2] \in PiecesOf(v)
            PROVE  v = job[w].version
        BY <1>1, <2>2, <3>2, <4>2, OthersCopy, RIAssumption DEF Kept
      <4>3. Empty(d0) \/ v = job[w].version
        BY <2>2, <4>2 DEF Empty, Kept
      <4>. QED
        BY <1>1, <1>4, <2>2, <4>1, <4>3 DEF Empty, There, Kept
    <3>. QED
      BY <3>1, <3>2
  <2>. QED
    BY <1>3, <2>1, <2>2 DEF IngestInv, Whole, There
<1>6. /\ \A d \in Documents : Rightful(d, docOwner'[d])
      /\ \A id \in ChunkIds : Rightful(id[1], owner'[id])
  BY <1>1, <1>4, RowsStayRightful DEF documentRows
<1>7. \A id \in ChunkIds : Stored(id)'
  BY <1>4, ChunksStayStored
<1>8. ASSUME NEW x \in Workers PROVE (Given(x) /\ Rowed(x) /\ Cleared(x) /\ Reported(x))'
  <2>1. Given(x)' /\ Rowed(x)'
    BY <1>1, <1>2 DEF Onward, IngestInv, Given, Rowed, documentRows
  <2>2. Cleared(x)'
    <3>1. CASE x = w
      BY <1>1, <1>5, <3>1 DEF Cleared
    <3>2. CASE x # w /\ job[x].doc = d0
      <4>1. ASSUME pc[x] # "idle", OneCopy(d0) PROVE job[x].version = job[w].version
        BY <1>1, <3>2, <4>1, SameDocument
      <4>. QED
        BY <1>1, <1>2, <1>5, <3>2, <4>1 DEF Onward, Cleared
    <3>3. CASE x # w /\ job[x].doc # d0
      BY <1>1, <1>2, <1>4, <3>3 DEF Onward, IngestInv, Cleared, Empty, There, Kept
    <3>. QED
      BY <3>1, <3>2, <3>3
  <2>3. Reported(x)'
    <3>1. CASE job[x].doc = d0
      BY <1>1, <1>2, <3>1 DEF Reported, Refilling
    <3>2. CASE job[x].doc # d0
      BY <1>1, <1>2, <1>4, <3>2 DEF Onward, IngestInv, Reported, TextThere, There, Kept, Refilling
    <3>. QED
      BY <3>1, <3>2
  <2>. QED
    BY <2>1, <2>2, <2>3
<1>9. ASSUME NEW d \in Documents PROVE (Whole(d) /\ Filled(d))'
  <2>1. CASE d = d0
    <3>1. job[w].version \in Versions
      BY <1>1, UploadsAreJobs DEF IngestInv, Given
    <3>2. Whole(d)'
      BY <1>1, <1>5, <2>1, <3>1 DEF Whole
    <3>3. Filled(d)'
      BY <1>1, <1>2, <2>1 DEF Filled, Refilling
    <3>. QED
      BY <3>2, <3>3
  <2>2. CASE d # d0
    <3>1. Whole(d)'
      BY <1>4, <2>2 DEF IngestInv, Whole, Empty, There, Kept
    <3>2. Filled(d)'
      BY <1>1, <1>2, <1>4, <2>2 DEF Onward, IngestInv, Filled, TextThere, There, Kept, Refilling,
         documentRows
    <3>. QED
      BY <3>1, <3>2
  <2>. QED
    BY <2>1, <2>2
<1>. QED
  BY <1>1, <1>6, <1>7, <1>8, <1>9 DEF IngestInv, Rightful

\* All the pieces of what w ingests are there afterwards, for w's tenant or for the one
\* that had them, and nothing else.
LEMMA CommitKeeps ==
    ASSUME IngestInv, IngestTypeOK', NEW w \in Workers, Commit(w)
    PROVE  IngestInv'
<1>. DEFINE j == job[w]
            d0 == j.doc
            n == Pieces[j.version.content]
<1>1. /\ pc[w] = "writing" /\ inserted[w] = n
      /\ owner' = [id \in ChunkIds |-> OwnerAfter(w, n, id)]
      /\ body' = [id \in ChunkIds |-> BodyAfter(w, n, id)]
      /\ pc' = [pc EXCEPT ![w] = "idle"] /\ inserted' = [inserted EXCEPT ![w] = 0]
      /\ \/ result' = [result EXCEPT ![w] = "embedded"] /\ failures' = failures
         \/ result' = [result EXCEPT ![w] = "failed"] /\ failures' = failures + 1
      /\ UNCHANGED <<job, documentRows, orphan>>
  BY DEF Commit, Return, OneMoreFailure
<1>2. /\ pc'[w] = "idle" /\ inserted'[w] = 0 /\ Onward(w)
      /\ failures' = 0 => failures = 0 /\ result'[w] = "embedded"
      /\ failures' # 0 => failures' = failures \/ result'[w] = "failed"
      /\ result'[w] \in {"embedded", "failed"}
      /\ failures # 0 => failures' # 0
  BY <1>1 DEF IngestInv, IngestTypeOK, Onward
<1>3. j \in Uploads[w] /\ d0 \in Documents /\ j.tenant \in Tenants /\ j.version \in Versions
      /\ n \in 0..MaxPieces /\ j.tenant # Nobody
  BY <1>1, UploadsAreJobs, RIAssumption DEF IngestInv, Given
<1>4. \A id \in ChunkIds : id \in {d0} \X (1..n) <=> id[1] = d0 /\ id[2] \in 1..n
  BY <1>3, RIAssumption DEF ChunkIds
<1>5. \A id \in ChunkIds : id[1] # d0 => owner'[id] = owner[id] /\ body'[id] = body[id]
  BY <1>1, <1>4 DEF OwnerAfter, BodyAfter
<1>6. \A id \in ChunkIds : id[1] = d0 =>
          /\ owner'[id] \in {owner[id], j.tenant}
          /\ (owner'[id] = owner[id] /\ body'[id] = body[id]) \/ body'[id] = j.version
  BY <1>1, <1>4 DEF OwnerAfter, BodyAfter
<1>7. ASSUME OneCopy(d0) PROVE There(d0, j.version)'
  <2>1. PICK t \in Tenants : (Empty(d0) /\ t = j.tenant) \/ Kept(t, d0, j.version)
    BY <1>1, <1>3, <1>7 DEF IngestInv, Cleared, There
  <2>2. ASSUME NEW id \in ChunkIds, id[1] = d0
        PROVE  /\ id[2] \in 1..n => owner'[id] = t /\ body'[id] = j.version
               /\ id[2] \notin 1..n => owner'[id] = Nobody
    <3>1. \/ owner[id] = Nobody /\ (t = j.tenant \/ id[2] \notin 1..n)
          \/ owner[id] = t /\ id[2] \in 1..n
      BY <2>1, <2>2 DEF Empty, Kept, PiecesOf
    <3>2. t # Nobody
      BY RIAssumption
    <3>. QED
      BY <1>1, <1>4, <2>2, <3>1, <3>2 DEF OwnerAfter, BodyAfter
  <2>. QED
    BY <1>1, <2>2 DEF There, Kept, PiecesOf
<1>8. /\ \A d \in Documents : Rightful(d, docOwner'[d])
      /\ \A id \in ChunkIds : Rightful(id[1], owner'[id]) /\ Stored(id)'
  <2>1. Rightful(d0, j.tenant)
    BY <1>3 DEF Rightful
  <2>2. \A id \in ChunkIds : owner'[id] \in {owner[id], Nobody} \/ Rightful(id[1], owner'[id])
    BY <1>5, <1>6, <2>1
  <2>3. \A id \in ChunkIds :
            \/ owner'[id] = owner[id] /\ body'[id] = body[id]
            \/ \E x \in Workers : \E k \in Uploads[x] : k.doc = id[1] /\ k.version = body'[id]
    BY <1>3, <1>5, <1>6
  <2>. QED
    BY <1>1, <2>2, <2>3, RowsStayRightful, ChunksStayStored DEF documentRows
<1>9. ASSUME NEW x \in Workers PROVE (Given(x) /\ Rowed(x) /\ Cleared(x) /\ Reported(x))'
  <2>1. CASE x = w
    BY <1>1, <1>2, <1>3, <1>7, <2>1 DEF IngestInv, Given, Rowed, Cleared, Reported
  <2>2. CASE x # w /\ job[x].doc = d0
    <3>1. ASSUME pc[x] # "idle" \/ result[x] # "none", OneCopy(d0)
          PROVE  job[x].version = j.version
      BY <1>1, <2>2, <3>1, SameDocument
    <3>2. Given(x)' /\ Rowed(x)'
      BY <1>1, <1>2, <2>2 DEF Onward, IngestInv, Given, Rowed, documentRows
    <3>3. Cleared(x)'
      BY <1>1, <1>2, <1>7, <2>2, <3>1 DEF Onward, Cleared
    <3>4. Reported(x)'
      BY <1>1, <1>2, <1>3, <1>7, <2>2, <3>1 DEF Onward, Reported, TextThere
    <3>. QED
      BY <3>2, <3>3, <3>4
  <2>3. CASE x # w /\ job[x].doc # d0
    <3>1. Given(x)' /\ Rowed(x)' /\ Cleared(x)'
      BY <1>1, <1>2, <1>5, <2>3 DEF Onward, IngestInv, Given, Rowed, Cleared, Empty, There, Kept, documentRows
    <3>2. Reported(x)'
      BY <1>1, <1>2, <1>5, <2>3 DEF Onward, IngestInv, Reported, TextThere, There, Kept, Refilling
    <3>. QED
      BY <3>1, <3>2
  <2>. QED
    BY <2>1, <2>2, <2>3
<1>10. ASSUME NEW d \in Documents PROVE (Whole(d) /\ Filled(d))'
  <2>1. CASE d = d0
    <3>1. Whole(d)'
      BY <1>1, <1>3, <1>7, <2>1 DEF Whole
    <3>2. Filled(d)'
      <4>1. OneCopy(d0) => docHash'[d0] = j.version.content
        BY <1>1 DEF IngestInv, Rowed, documentRows
      <4>2. OneCopy(d0) => TextThere(d0, docHash[d0])'
        BY <1>1, <1>3, <1>7, <4>1 DEF TextThere
      <4>. QED
        BY <1>1, <2>1, <4>2 DEF Filled
    <3>. QED
      BY <3>1, <3>2
  <2>2. CASE d # d0
    <3>1. Whole(d)'
      BY <1>5, <2>2 DEF IngestInv, Whole, Empty, There, Kept
    <3>2. Filled(d)'
      BY <1>1, <1>2, <1>5, <2>2 DEF Onward, IngestInv, Filled, TextThere, There, Kept, Refilling, documentRows
    <3>. QED
      BY <3>1, <3>2
  <2>. QED
    BY <2>1, <2>2
<1>. QED
  BY <1>1, <1>2, <1>8, <1>9, <1>10 DEF IngestInv, Rightful

LEMMA IngestStepOK ==
    ASSUME IngestInv, [IngestNext]_ingestVars
    PROVE  IngestInv'
<1>0. IngestTypeOK'
  BY IngestTypeStep DEF IngestInv
<1>1. ASSUME NEW w \in Workers, NEW upload \in Uploads[w], Ingest(w, upload) PROVE IngestInv'
  BY <1>0, <1>1, IngestKeeps
<1>2. ASSUME NEW w \in Workers, IngestStep(w) PROVE IngestInv'
  BY <1>0, <1>2, SkipKeeps, EmbedKeeps, WriteRowKeeps, DeleteKeeps, CommitKeeps, FailKeeps DEF IngestStep
<1>3. ASSUME NEW w \in Workers, Fail(w) PROVE IngestInv'
  BY <1>0, <1>3, FailKeeps
<1>4. CASE OrphanEnds
  BY <1>0, <1>4, IdleStep DEF OrphanEnds
<1>5. CASE UNCHANGED ingestVars
  BY <1>0, <1>5, IdleStep DEF ingestVars, workVars, IngestInv
<1>. QED
  BY <1>1, <1>2, <1>3, <1>4, <1>5 DEF IngestNext

THEOREM IngestInvariant == IngestSpec => []IngestInv
<1>1. IngestInv /\ [IngestNext]_ingestVars => IngestInv'
  BY IngestStepOK
<1>. QED
  BY <1>1, IngestInitOK, PTL DEF IngestSpec

\* The type invariant of the tables and of the workers.
THEOREM IngestTypeCorrect == IngestSpec => []IngestTypeOK
<1>1. IngestInit => IngestTypeOK
  BY IngestInitOK DEF IngestInv
<1>2. IngestTypeOK /\ [IngestNext]_ingestVars => IngestTypeOK'
  BY IngestTypeStep
<1>. QED
  BY <1>1, <1>2, PTL DEF IngestSpec

-----------------------------------------------------------------------------
(* What searches find.                                                     *)

LEMMA ChunksOf ==
    ASSUME NEW d \in Documents, NEW n \in 0..MaxPieces, NEW id
    PROVE  id \in {d} \X (1..n) <=> id \in ChunkIds /\ id[1] = d /\ id[2] \in 1..n
BY RIAssumption DEF ChunkIds

LEMMA KeptIsServed ==
    ASSUME NEW t \in Tenants, NEW d \in Documents, NEW v \in Versions, Kept(t, d, v)
    PROVE  Served(t, d, v)
<1>1. MaxPieces \in Nat /\ Pieces[v.content] \in 0..MaxPieces /\ t # Nobody
  BY RIAssumption DEF Versions
<1>2. ASSUME NEW id PROVE id \in Holding(t, d) <=> id \in {d} \X PiecesOf(v)
  <2>1. id \in Holding(t, d) <=> id \in ChunkIds /\ id[1] = d /\ owner[id] = t
    BY ChunksOf, RIAssumption DEF Holding, ChunkIds
  <2>2. id \in {d} \X PiecesOf(v) <=> id \in ChunkIds /\ id[1] = d /\ id[2] \in PiecesOf(v)
    BY <1>1, ChunksOf DEF PiecesOf
  <2>. QED
    BY <1>1, <2>1, <2>2 DEF Kept
<1>3. Holding(t, d) = {d} \X PiecesOf(v)
  <2>. HIDE DEF Holding
  <2>. QED
    BY <1>2
<1>4. ASSUME NEW id \in Holding(t, d) PROVE body[id] = v
  <2>1. id \in ChunkIds /\ id[1] = d /\ owner[id] = t
    BY <1>4, RIAssumption DEF Holding, ChunkIds
  <2>. QED
    BY <1>1, <2>1 DEF Kept
<1>. QED
  BY <1>3, <1>4 DEF Served

\* What another tenant holds of the document is nothing.
LEMMA OthersHoldNothing ==
    ASSUME NEW t \in Tenants, NEW other \in Tenants, NEW d \in Documents, NEW v \in Versions,
           Kept(t, d, v) \/ Empty(d), t # other \/ Empty(d)
    PROVE  Holding(other, d) = {}
<1>1. ASSUME NEW id \in {d} \X (1..MaxPieces), owner[id] = other PROVE FALSE
  <2>1. id \in ChunkIds /\ id[1] = d
    BY DEF ChunkIds
  <2>. QED
    BY <1>1, <2>1, RIAssumption DEF Kept, Empty
<1>. QED
  BY <1>1 DEF Holding

\* What the connection of w sees of a document that w is not inserting.
LEMMA SeenIsHeld ==
    ASSUME NEW w \in Workers, NEW t \in Tenants, NEW d \in Documents,
           inserted[w] \in 0..MaxPieces, job[w].doc # d \/ inserted[w] = 0
    PROVE  /\ HoldingSeen(w, t, d) = Holding(t, d)
           /\ \A id \in Holding(t, d) : BodyAfter(w, inserted[w], id) = body[id]
<1>1. ASSUME NEW id \in {d} \X (1..MaxPieces) PROVE id \notin {job[w].doc} \X (1..inserted[w])
  OBVIOUS
<1>. QED
  BY <1>1 DEF HoldingSeen, Holding, OwnerAfter, BodyAfter

\* What a search finds of a document is nothing or all of one version, also while
\* workers that fail anywhere replace it, for whichever tenants; only the connection
\* that is inserting it sees a part of one version, and no other. This is claimed of
\* the documents of which there is one copy at a time (OneCopy).
THEOREM NeverTwoVersions == IngestSpec => []OneVersion
<1>1. IngestInv => OneVersion
  <2>0. SUFFICES ASSUME IngestInv PROVE OneVersion
    OBVIOUS
  <2>1. ASSUME NEW t \in Tenants, NEW d \in Documents, OneCopy(d), Holding(t, d) # {}
        PROVE  \E v \in Versions : Served(t, d, v)
    <3>1. ~Empty(d)
      <4>1. PICK id \in {d} \X (1..MaxPieces) : owner[id] = t
        BY <2>1 DEF Holding
      <4>2. id \in ChunkIds /\ id[1] = d /\ t # Nobody
        BY RIAssumption DEF ChunkIds
      <4>. QED
        BY <4>1, <4>2 DEF Empty
    <3>2. PICK other \in Tenants, v \in Versions : Kept(other, d, v)
      BY <2>0, <2>1, <3>1 DEF IngestInv, Whole, There
    <3>3. other = t
      BY <2>1, <3>2, OthersHoldNothing
    <3>. QED
      BY <3>2, <3>3, KeptIsServed
  <2>2. ASSUME NEW t \in Tenants, NEW d \in Documents, OneCopy(d), NEW w \in Workers,
               HoldingSeen(w, t, d) # {}
        PROVE  \E v \in Versions :
                  /\ \A id \in HoldingSeen(w, t, d) : BodyAfter(w, inserted[w], id) = v
                  /\ HoldingSeen(w, t, d) \subseteq {d} \X PiecesOf(v)
    <3>0. inserted[w] \in 0..MaxPieces /\ MaxPieces \in Nat
      BY <2>0, RIAssumption DEF IngestInv, IngestTypeOK
    <3>1. CASE job[w].doc # d \/ inserted[w] = 0
      <4>1. /\ HoldingSeen(w, t, d) = Holding(t, d)
            /\ \A id \in Holding(t, d) : BodyAfter(w, inserted[w], id) = body[id]
        BY <3>0, <3>1, SeenIsHeld
      <4>2. PICK v \in Versions : Served(t, d, v)
        BY <2>1, <2>2, <4>1
      <4>. QED
        BY <4>1, <4>2 DEF Served
    <3>2. CASE job[w].doc = d /\ inserted[w] # 0
      <4>1. /\ pc[w] = "writing" /\ job[w] \in Uploads[w]
            /\ inserted[w] <= Pieces[job[w].version.content]
        BY <2>0, <3>2 DEF IngestInv, Given
      <4>2. job[w].version \in Versions /\ Pieces[job[w].version.content] \in 0..MaxPieces
        BY <4>1, UploadsAreJobs
      <4>3. Empty(d) \/ \E other \in Tenants : Kept(other, d, job[w].version)
        BY <2>0, <2>2, <3>2, <4>1 DEF IngestInv, Cleared, There
      <4>4. ASSUME NEW id \in HoldingSeen(w, t, d)
            PROVE  /\ BodyAfter(w, inserted[w], id) = job[w].version
                   /\ id \in {d} \X PiecesOf(job[w].version)
        <5>1. /\ id \in {d} \X (1..MaxPieces) /\ id \in ChunkIds /\ id[1] = d
              /\ OwnerAfter(w, inserted[w], id) = t
          BY <4>4 DEF HoldingSeen, ChunkIds
        <5>2. CASE id \in {d} \X (1..inserted[w])
          BY <3>0, <3>2, <4>1, <4>2, <5>2 DEF BodyAfter, PiecesOf
        <5>3. CASE id \notin {d} \X (1..inserted[w])
          <6>1. owner[id] = t /\ BodyAfter(w, inserted[w], id) = body[id] /\ t # Nobody
            BY <3>2, <5>1, <5>3, RIAssumption DEF OwnerAfter, BodyAfter
          <6>2. id[2] \in PiecesOf(job[w].version) /\ body[id] = job[w].version
            BY <4>3, <5>1, <6>1 DEF Empty, Kept
          <6>. QED
            BY <5>1, <6>1, <6>2
        <5>. QED
          BY <5>2, <5>3
      <4>. QED
        BY <4>2, <4>4
    <3>. QED
      BY <3>1, <3>2
  <2>. QED
    BY <2>1, <2>2 DEF OneVersion
<1>2. IngestSpec => []IngestInv
  BY IngestInvariant
<1>. QED
  BY <1>1, <1>2, PTL

\* As long as nothing fails, what was embedded, or skipped because its text was there,
\* is found whenever nobody ingests, if there is one copy of the document at a time: by
\* its tenant, if it is ingested for no other, and else by one of those it is ingested
\* for.
THEOREM WhatRestsIsServed == IngestSpec => []RestIsServed
<1>1. IngestInv => RestIsServed
  <2>0. SUFFICES ASSUME IngestInv PROVE RestIsServed
    OBVIOUS
  <2>. SUFFICES ASSUME failures = 0, \A w \in Workers : pc[w] = "idle", NEW w \in Workers,
                       result[w] \in {"embedded", "skipped"}, OneCopy(job[w].doc)
                PROVE  LET j == job[w] IN
                       \E t \in Tenants, v \in Versions :
                          /\ Served(t, j.doc, v)
                          /\ v.content = j.version.content
                          /\ result[w] = "embedded" => v = j.version
                          /\ OneTenant(j.doc) => t = j.tenant
    BY DEF RestIsServed
  <2>. DEFINE j == job[w]
  <2>1. /\ j \in Uploads[w]
        /\ j.tenant \in Tenants /\ j.doc \in Documents /\ j.version \in Versions
    BY <2>0, UploadsAreJobs DEF IngestInv, Given
  <2>2. ~Refilling(j.doc, {"upsert", "writing"})
        /\ ~Refilling(j.doc, {"delete", "upsert", "writing"})
    BY DEF Refilling
  <2>3. PICK v \in Versions : /\ There(j.doc, v) /\ v.content = j.version.content
                              /\ result[w] = "embedded" => v = j.version
    BY <2>0, <2>1, <2>2 DEF IngestInv, Reported, TextThere
  <2>4. PICK t \in Tenants : Kept(t, j.doc, v)
    BY <2>3 DEF There
  <2>5. CASE t = j.tenant \/ ~OneTenant(j.doc)
    BY <2>1, <2>3, <2>4, <2>5, KeptIsServed
  <2>6. CASE t # j.tenant /\ OneTenant(j.doc)
    <3>1. ASSUME NEW id \in ChunkIds, id[1] = j.doc, owner[id] = t PROVE FALSE
      <4>1. PICK x \in Workers, r \in Jobs : r \in Uploads[x] /\ r.doc = j.doc /\ r.tenant = t
        BY <2>0, <3>1, UploadsAreJobs, RIAssumption DEF IngestInv, Rightful
      <4>. QED
        BY <2>1, <2>6, <4>1 DEF OneTenant
    <3>2. Kept(j.tenant, j.doc, v)
      BY <2>4, <3>1 DEF Kept
    <3>. QED
      BY <2>1, <2>3, <3>2, KeptIsServed
  <2>. QED
    BY <2>5, <2>6
<1>2. IngestSpec => []IngestInv
  BY IngestInvariant
<1>. QED
  BY <1>1, <1>2, PTL

-----------------------------------------------------------------------------
(* What one step does to the chunks; the modules built on this one use it. *)

\* A step of w touches the chunks of its own document only, and these only by
\* deleting them or by storing what it ingests.
LEMMA StepTouches ==
    ASSUME IngestTypeOK, NEW w \in Workers,
           IngestStep(w) \/ Fail(w) \/ \E upload \in Uploads[w] : Ingest(w, upload)
    PROVE  \A id \in ChunkIds :
               \/ owner'[id] = owner[id] /\ body'[id] = body[id]
               \/ /\ pc[w] \in {"delete", "writing"} /\ id[1] = job[w].doc
                  /\ \/ owner'[id] = Nobody
                     \/ /\ owner'[id] \in {owner[id], job[w].tenant}
                        /\ owner[id] # Nobody => owner'[id] = owner[id]
                        /\ body'[id] = job[w].version
<1>1. CASE DeleteChunks(w)
  BY <1>1 DEF DeleteChunks
<1>2. CASE Commit(w)
  BY <1>2 DEF Commit, OwnerAfter, BodyAfter
<1>3. CASE UNCHANGED chunkRows
  BY <1>3 DEF chunkRows
<1>. QED
  BY <1>1, <1>2, <1>3 DEF IngestStep, Skip, NothingToStore, Embed, WriteRow, InsertChunk,
     LockedOut, Fail, Ingest

\* What a worker reports as it ends.
LEMMA StepReports ==
    ASSUME IngestTypeOK, NEW w \in Workers, IngestStep(w) \/ Fail(w)
    PROVE  /\ pc[w] # "idle" /\ job' = job
           /\ \A x \in Workers : x # w => pc'[x] = pc[x]
           /\ failures' = failures \/ failures' = failures + 1
           /\ orphan => orphan'
           /\ \/ pc'[w] # "idle" /\ failures' = failures /\ orphan' = orphan
              \/ pc'[w] = "idle" /\ result'[w] \in {"embedded", "skipped"} /\ failures' = failures
              \/ /\ pc'[w] = "idle" /\ result'[w] = "empty" /\ failures' = failures
                 /\ PiecesOf(job[w].version) = {}
              \/ /\ pc'[w] = "idle" /\ result'[w] = "failed"
                 /\ orphan \/ failures' = failures + 1
<1>. USE DEF IngestTypeOK
<1>1. CASE Skip(w) \/ NothingToStore(w) \/ LockedOut(w)
  BY <1>1 DEF Skip, NothingToStore, LockedOut, Return
<1>2. CASE Embed(w) \/ WriteRow(w) \/ DeleteChunks(w) \/ InsertChunk(w)
  BY <1>2 DEF Embed, WriteRow, DeleteChunks, InsertChunk, GoTo
<1>3. CASE Commit(w)
  BY <1>3 DEF Commit, Return, OneMoreFailure
<1>4. CASE Fail(w)
  BY <1>4 DEF Fail, Return, OneMoreFailure
<1>. QED
  BY <1>1, <1>2, <1>3, <1>4 DEF IngestStep

-----------------------------------------------------------------------------
(* The searches of a server.                                               *)

\* next as a function; the rest is KnowledgeSearch's type invariant.
SearchTypes == TypeOK /\ next \in [Workers -> Nat]

\* Whoever builds holds the lock, and whoever searches has a service to search.
Locking(s) ==
    /\ place[s] = "building" => First(s) /\ ~service[ServerOf[s]]
    /\ place[s] = "searching" => service[ServerOf[s]]

\* The pipeline works on the file before next, for a search that builds.
Working(w) == pc[w] # "idle" =>
    /\ \E s \in Searches : ServerOf[s] = w /\ place[s] = "building"
    /\ next[w] > 1 /\ job[w] = Files[w][next[w] - 1]

LockInv ==
    /\ SearchTypes
    /\ \A s \in Searches : Locking(s)
    /\ \A w \in Workers : Working(w)

-----------------------------------------------------------------------------
(* Answers.                                                                *)

Unsuccessful == {s \in Searches : place[s] = "failed"}

\* A call gets one answer: at once, or when its search is over. What is in the
\* ledger is answered with a receipt.
Answered(s) == LET frame == answer[s][1] IN
    /\ answer[s] # <<>> =>
          /\ place[s] \in {"idle"} \cup Over
          /\ answer[s] = <<frame>>
          /\ frame.isError => place[s] \in {"idle", "failed"}
          /\ frame.error # 0 => place[s] = "idle" /\ \A k \in DOMAIN ledger : ledger[k] # s
    /\ (\E k \in DOMAIN ledger : ledger[k] = s) => answer[s] # <<>>

FailureInv ==
    /\ DOMAIN answer = Searches /\ ledger \in Seq(Searches)
    /\ \A s \in Searches : Answered(s)
    /\ IsFiniteSet(Unsuccessful)
    /\ Cardinality(Unsuccessful) <= failures \/ orphan

-----------------------------------------------------------------------------
(* What the corpus is found in.                                            *)

Ready(w, i) ==
    LET j == Files[w][i] IN
    PiecesOf(j.version) # {} => Kept(j.tenant, j.doc, j.version)

\* As long as nothing fails, every file before next is there, but for the one that
\* the pipeline works on; and all of them are, once there is a service.
Prepared(w) == failures = 0 =>
    /\ \A i \in DOMAIN Files[w] :
          i < next[w] /\ ~(pc[w] # "idle" /\ i = next[w] - 1) => Ready(w, i)
    /\ service[w] => next[w] > Len(Files[w])

CorpusInv ==
    /\ IngestInv
    /\ \A w \in Workers : Prepared(w)
    /\ AnswersFromCorpus

-----------------------------------------------------------------------------
(* The lock.                                                               *)

SearchNext == \E s \in Searches : Search(s) \/ SearchStep(s) \/ CancelWaiting(s)

LEMMA ServerSearches == [ServerNext]_allVars => [SearchNext]_vars
BY DEF ServerNext, allVars, vars, Reject, Handle, Await, Work, Cancel, Finish, Reads, SearchNext

LEMMA FilesAreUploads ==
    ASSUME NEW w \in Workers, NEW i \in DOMAIN Files[w]
    PROVE  Files[w] \in Seq(Jobs) /\ Files[w][i] \in Uploads[w]
BY KSAssumption DEF ToSet

LEMMA AppendsToLine ==
    ASSUME NEW S, NEW q \in Seq(S), NEW e \in S
    PROVE  /\ Append(q, e) \in Seq(S) /\ Append(q, e) # <<>>
           /\ q # <<>> => Head(Append(q, e)) = Head(q)
<1>1. /\ Append(q, e) \in Seq(S) /\ Len(Append(q, e)) = Len(q) + 1 /\ Len(q) \in Nat
      /\ \A i \in 1..Len(q) : Append(q, e)[i] = q[i]
  OBVIOUS
<1>2. ASSUME q # <<>> PROVE Append(q, e)[1] = q[1] /\ Head(q) = q[1]
  BY <1>1, <1>2
<1>3. Head(Append(q, e)) = Append(q, e)[1] /\ Append(q, e) # <<>>
  BY <1>1
<1>. QED
  BY <1>1, <1>2, <1>3

LEMMA RemovesFromLine ==
    ASSUME NEW S, NEW q \in Seq(S), NEW i \in DOMAIN q
    PROVE  /\ RemoveAt(q, i) \in Seq(S)
           /\ q[i] # Head(q) => RemoveAt(q, i) # <<>> /\ Head(RemoveAt(q, i)) = Head(q)
<1>. DEFINE front == SubSeq(q, 1, i - 1)
            back == SubSeq(q, i + 1, Len(q))
<1>1. Len(q) \in Nat /\ i \in 1..Len(q) /\ q # <<>> /\ Head(q) = q[1]
  OBVIOUS
<1>2. /\ front \in Seq(S) /\ Len(front) = i - 1
      /\ \A k \in 1..(i - 1) : front[k] = q[k]
      /\ back \in Seq(S)
  BY <1>1, SubSeqProperties
<1>3. RemoveAt(q, i) = front \o back
  BY DEF RemoveAt
<1>4. ASSUME q[i] # Head(q) PROVE front # <<>> /\ Head(front) = Head(q)
  BY <1>1, <1>2, <1>4
<1>. HIDE DEF front, back
<1>. QED
  BY <1>2, <1>3, <1>4

\* What a step of a search does to the tables.
LEMMA SearchIngests ==
    ASSUME SearchTypes, [SearchNext]_vars
    PROVE  \/ [IngestNext]_ingestVars
           \/ UNCHANGED workVars /\ OneMoreFailure
<1>1. ASSUME NEW s \in Searches, NextFile(s) PROVE IngestNext
  <2>1. ServerOf[s] \in Workers /\ next[ServerOf[s]] \in DOMAIN Files[ServerOf[s]]
    BY <1>1, KSAssumption DEF NextFile, SearchTypes, TypeOK
  <2>. QED
    BY <1>1, <2>1, FilesAreUploads DEF NextFile, IngestNext
<1>2. ASSUME NEW s \in Searches, Build(s) PROVE IngestNext
  BY <1>2, KSAssumption DEF Build, IngestNext
<1>3. ASSUME NEW s \in Searches, BuildFails(s) \/ Answer(s) \/ CancelWaiting(s)
      PROVE  UNCHANGED ingestVars \/ (UNCHANGED workVars /\ OneMoreFailure)
  BY <1>3 DEF BuildFails, Answer, CancelWaiting, ingestVars
<1>4. ASSUME NEW s \in Searches, Search(s) \/ FindService(s) \/ StartBuild(s) \/ Built(s)
      PROVE  UNCHANGED ingestVars
  BY <1>4 DEF Search, FindService, StartBuild, Built
<1>5. CASE UNCHANGED vars
  BY <1>5 DEF vars
<1>. QED
  BY <1>1, <1>2, <1>3, <1>4, <1>5 DEF SearchNext, SearchStep

LEMMA LineTypes ==
    ASSUME SearchTypes, NEW s \in Searches
    PROVE  /\ ServerOf[s] \in Workers /\ line[ServerOf[s]] \in Seq(Searches)
           /\ LeaveLock(s) => line' \in [Workers -> Seq(Searches)]
           /\ CancelWaiting(s) => line' \in [Workers -> Seq(Searches)]
           /\ Search(s) => line' \in [Workers -> Seq(Searches)]
<1>1. ServerOf[s] \in Workers /\ line[ServerOf[s]] \in Seq(Searches)
      /\ line \in [Workers -> Seq(Searches)]
  BY KSAssumption DEF SearchTypes, TypeOK
<1>2. ASSUME LeaveLock(s) PROVE line' \in [Workers -> Seq(Searches)]
  <2>1. Tail(line[ServerOf[s]]) \in Seq(Searches)
    BY <1>1, <1>2 DEF LeaveLock, First
  <2>. QED
    BY <1>1, <1>2, <2>1 DEF LeaveLock
<1>3. ASSUME CancelWaiting(s) PROVE line' \in [Workers -> Seq(Searches)]
  <2>1. PICK i \in DOMAIN line[ServerOf[s]] :
            line' = [line EXCEPT ![ServerOf[s]] = RemoveAt(line[ServerOf[s]], i)]
    BY <1>1, <1>3 DEF CancelWaiting
  <2>2. RemoveAt(line[ServerOf[s]], i) \in Seq(Searches)
    BY <1>1, RemovesFromLine
  <2>. QED
    BY <1>1, <2>1, <2>2
<1>4. ASSUME Search(s) PROVE line' \in [Workers -> Seq(Searches)]
  <2>1. line' = [line EXCEPT ![ServerOf[s]] = Append(line[ServerOf[s]], s)]
    BY <1>1, <1>4 DEF Search
  <2>2. Append(line[ServerOf[s]], s) \in Seq(Searches)
    BY <1>1, AppendsToLine
  <2>. QED
    BY <1>1, <2>1, <2>2
<1>. QED
  BY <1>1, <1>2, <1>3, <1>4

LEMMA SearchTypeStep ==
    ASSUME SearchTypes, [SearchNext]_vars
    PROVE  SearchTypes'
<1>1. IngestTypeOK'
  <2>1. CASE [IngestNext]_ingestVars
    BY <2>1, IngestTypeStep DEF SearchTypes, TypeOK
  <2>2. CASE UNCHANGED workVars /\ OneMoreFailure
    BY <2>2, RIAssumption DEF SearchTypes, TypeOK, IngestTypeOK, workVars, documentRows, chunkRows,
       OneMoreFailure
  <2>. QED
    BY <2>1, <2>2, SearchIngests
<1>. DEFINE Rest == /\ line \in [Workers -> Seq(Searches)]
                    /\ place \in [Searches -> {"idle", "waiting", "building", "searching"} \cup Over]
                    /\ service \in [Workers -> BOOLEAN]
                    /\ next \in [Workers -> Nat]
                    /\ \A w \in Workers : next[w] \in 1..(Len(Files[w]) + 1)
                    /\ complete \in [Searches -> BOOLEAN]
<1>0. Rest
  BY DEF SearchTypes, TypeOK
<1>2. ASSUME NEW s \in Searches, Search(s) \/ SearchStep(s) \/ CancelWaiting(s) PROVE Rest'
  <2>. USE <1>0, LineTypes DEF Becomes, Over
  <2>1. CASE Search(s)
    BY <2>1 DEF Search
  <2>2. CASE FindService(s)
    BY <2>2 DEF FindService
  <2>3. CASE StartBuild(s)
    <3>1. \A w \in Workers : Files[w] \in Seq(Jobs)
      BY KSAssumption
    <3>2. \A w \in Workers : 1 \in 1..(Len(Files[w]) + 1)
      BY <3>1
    <3>. QED
      BY <2>3, <3>2 DEF StartBuild
  <2>4. CASE NextFile(s)
    <3>. DEFINE w == ServerOf[s]
    <3>1. next' = [next EXCEPT ![w] = next[w] + 1] /\ next[w] <= Len(Files[w])
          /\ Files[w] \in Seq(Jobs)
      BY <2>4, KSAssumption DEF NextFile
    <3>2. next[w] + 1 \in 1..(Len(Files[w]) + 1) /\ next[w] + 1 \in Nat
      <4>1. Len(Files[w]) \in Nat /\ next[w] \in Nat /\ next[w] \in 1..(Len(Files[w]) + 1)
        BY <3>1
      <4>. QED
        BY ONLY <3>1, <4>1
    <3>. QED
      BY <2>4, <3>1, <3>2 DEF NextFile
  <2>5. CASE Build(s)
    BY <2>5 DEF Build
  <2>6. CASE BuildFails(s)
    BY <2>6 DEF BuildFails
  <2>7. CASE Built(s)
    BY <2>7 DEF Built
  <2>8. CASE Answer(s)
    <3>1. Found(ServerOf[s]) \in BOOLEAN
      BY DEF Found
    <3>. QED
      BY <2>8, <3>1 DEF Answer
  <2>9. CASE CancelWaiting(s)
    BY <2>9 DEF CancelWaiting
  <2>. QED
    BY <1>2, <2>1, <2>2, <2>3, <2>4, <2>5, <2>6, <2>7, <2>8, <2>9 DEF SearchStep
<1>3. ASSUME UNCHANGED vars PROVE Rest'
  BY <1>0, <1>3 DEF vars, searchVars, Over
<1>4. Rest'
  BY <1>2, <1>3 DEF SearchNext
<1>. QED
  BY <1>1, <1>4 DEF SearchTypes, TypeOK

LEMMA LockInit == Init => LockInv
<1>. SUFFICES ASSUME Init PROVE LockInv
  OBVIOUS
<1>1. IngestTypeOK
  BY IngestInitOK DEF Init, IngestInv
<1>2. \A w \in Workers : 1 \in 1..(Len(Files[w]) + 1)
  <2>1. ASSUME NEW w \in Workers PROVE Len(Files[w]) \in Nat
    <3>1. Files[w] \in Seq(Jobs)
      BY KSAssumption
    <3>. QED
      BY <3>1
  <2>2. \A n \in Nat : 1 \in 1..(n + 1)
    OBVIOUS
  <2>. QED
    BY <2>1, <2>2, Zenon
<1>3. SearchTypes
  <2>1. line \in [Workers -> Seq(Searches)] /\ next \in [Workers -> Nat]
    BY DEF Init
  <2>2. \A w \in Workers : next[w] \in 1..(Len(Files[w]) + 1)
    BY <1>2 DEF Init
  <2>. QED
    BY <1>1, <2>1, <2>2 DEF Init, SearchTypes, TypeOK, Over
<1>4. (\A s \in Searches : Locking(s)) /\ (\A w \in Workers : Working(w))
  BY DEF Init, IngestInit, Locking, Working
<1>. QED
  BY <1>3, <1>4 DEF LockInv

\* Whoever is first in line and does not leave it stays first.
LEMMA LineSteps ==
    ASSUME LockInv, NEW s \in Searches
    PROVE  /\ LeaveLock(s) => \A o \in Searches : o # s /\ First(o) => First(o)'
           /\ Search(s) => \A o \in Searches : First(o) => First(o)'
           /\ CancelWaiting(s) => \A o \in Searches : o # s /\ First(o) => First(o)'
<1>1. /\ line \in [Workers -> Seq(Searches)] /\ ServerOf \in [Searches -> Workers]
      /\ line[ServerOf[s]] \in Seq(Searches)
  BY KSAssumption DEF LockInv, SearchTypes, TypeOK
<1>2. ASSUME LeaveLock(s), NEW o \in Searches, o # s, First(o) PROVE First(o)'
  BY <1>1, <1>2 DEF LeaveLock, First
<1>3. ASSUME Search(s), NEW o \in Searches, First(o) PROVE First(o)'
  <2>1. line' = [line EXCEPT ![ServerOf[s]] = Append(line[ServerOf[s]], s)]
    BY <1>1, <1>3 DEF Search
  <2>2. /\ Append(line[ServerOf[s]], s) # <<>>
        /\ line[ServerOf[s]] # <<>> =>
              Head(Append(line[ServerOf[s]], s)) = Head(line[ServerOf[s]])
    BY <1>1, AppendsToLine
  <2>. QED
    BY <1>1, <1>3, <2>1, <2>2 DEF First
<1>4. ASSUME CancelWaiting(s), NEW o \in Searches, o # s, First(o) PROVE First(o)'
  <2>1. PICK i \in DOMAIN line[ServerOf[s]] :
            /\ line[ServerOf[s]][i] = s
            /\ line' = [line EXCEPT ![ServerOf[s]] = RemoveAt(line[ServerOf[s]], i)]
    BY <1>1, <1>4 DEF CancelWaiting
  <2>2. CASE ServerOf[o] = ServerOf[s]
    <3>1. /\ RemoveAt(line[ServerOf[s]], i) # <<>>
          /\ Head(RemoveAt(line[ServerOf[s]], i)) = Head(line[ServerOf[s]])
      BY <1>1, <1>4, <2>1, <2>2, RemovesFromLine DEF First
    <3>. QED
      BY <1>1, <1>4, <2>1, <2>2, <3>1 DEF First
  <2>3. CASE ServerOf[o] # ServerOf[s]
    BY <1>1, <1>4, <2>1, <2>3 DEF First
  <2>. QED
    BY <2>2, <2>3
<1>. QED
  BY <1>2, <1>3, <1>4

\* Two searches that build are one, or of two servers.
LEMMA OneBuilder ==
    ASSUME LockInv, NEW s \in Searches, NEW o \in Searches,
           First(s), place[o] = "building", ServerOf[o] = ServerOf[s]
    PROVE  o = s
BY DEF LockInv, Locking, First

LEMMA LockStep ==
    ASSUME LockInv, [SearchNext]_vars
    PROVE  LockInv'
<1>0. SearchTypes /\ SearchTypes'
  BY SearchTypeStep DEF LockInv
<1>. DEFINE Rest == /\ \A s \in Searches : Locking(s)
                    /\ \A w \in Workers : Working(w)
<1>. SUFFICES Rest'
  BY <1>0 DEF LockInv
<1>1. ASSUME UNCHANGED vars PROVE Rest'
  BY <1>1 DEF LockInv, Locking, Working, First, vars, searchVars, ingestVars, workVars
<1>2. ASSUME NEW s \in Searches, Search(s) \/ SearchStep(s) \/ CancelWaiting(s) PROVE Rest'
  <2>. DEFINE v == ServerOf[s]
  <2>0. v \in Workers /\ ServerOf \in [Searches -> Workers]
    BY KSAssumption
  <2>1. CASE Search(s) \/ CancelWaiting(s)
    <3>1. /\ place[s] \in {"idle", "waiting"}
          /\ place' = [place EXCEPT ![s] = place'[s]] /\ place'[s] \in {"waiting", "failed"}
          /\ UNCHANGED <<service, next, pc, job>>
      BY <1>0, <2>1 DEF Search, CancelWaiting, Becomes, ingestVars, workVars, SearchTypes, TypeOK
    <3>2. \A o \in Searches : Locking(o)'
      BY <1>0, <2>1, <3>1, LineSteps DEF LockInv, Locking, SearchTypes, TypeOK
    <3>3. \A w \in Workers : Working(w)'
      BY <1>0, <3>1 DEF LockInv, Working, SearchTypes, TypeOK
    <3>. QED
      BY <3>2, <3>3
  <2>2. CASE FindService(s)
    <3>1. /\ place[s] = "waiting" /\ service[v] /\ LeaveLock(s)
          /\ place' = [place EXCEPT ![s] = "searching"]
          /\ UNCHANGED <<service, next, pc, job>>
      BY <2>2 DEF FindService, Becomes, ingestVars, workVars
    <3>2. \A o \in Searches : Locking(o)'
      BY <1>0, <2>0, <3>1, LineSteps DEF LockInv, Locking, SearchTypes, TypeOK
    <3>3. \A w \in Workers : Working(w)'
      BY <1>0, <3>1 DEF LockInv, Working, SearchTypes, TypeOK
    <3>. QED
      BY <3>2, <3>3
  <2>3. CASE StartBuild(s)
    <3>1. /\ place[s] = "waiting" /\ ~service[v] /\ First(s)
          /\ place' = [place EXCEPT ![s] = "building"] /\ next' = [next EXCEPT ![v] = 1]
          /\ UNCHANGED <<line, service, pc, job>>
      BY <2>3 DEF StartBuild, Becomes, ingestVars, workVars
    <3>2. \A o \in Searches : Locking(o)'
      BY <1>0, <2>0, <3>1 DEF LockInv, Locking, First, SearchTypes, TypeOK
    <3>3. pc[v] = "idle"
      <4>1. ASSUME NEW o \in Searches, place[o] = "building", ServerOf[o] = v PROVE FALSE
        BY <3>1, <4>1, OneBuilder
      <4>. QED
        BY <2>0, <4>1 DEF LockInv, Working
    <3>4. \A w \in Workers : Working(w)'
      BY <1>0, <2>0, <3>1, <3>3 DEF LockInv, Working, SearchTypes, TypeOK
    <3>. QED
      BY <3>2, <3>4
  <2>4. CASE NextFile(s)
    <3>1. /\ place[s] = "building" /\ next' = [next EXCEPT ![v] = next[v] + 1]
          /\ job' = [job EXCEPT ![v] = Files[v][next[v]]]
          /\ pc' = [pc EXCEPT ![v] = "hash"]
          /\ UNCHANGED <<line, place, service>>
      BY <2>4 DEF NextFile, Ingest, GoTo
    <3>2. \A o \in Searches : Locking(o)'
      BY <3>1 DEF LockInv, Locking, First
    <3>3. next[v] \in Nat /\ next[v] >= 1
      BY <1>0, <2>0 DEF SearchTypes, TypeOK
    <3>4. next'[v] = next[v] + 1 /\ job'[v] = Files[v][next[v]]
      BY <1>0, <2>0, <3>1 DEF SearchTypes, TypeOK, IngestTypeOK
    <3>5. next'[v] > 1 /\ next'[v] - 1 = next[v]
      BY ONLY <3>3, <3>4
    <3>6. ASSUME NEW w \in Workers PROVE Working(w)'
      <4>1. CASE w = v
        BY <3>1, <3>4, <3>5, <4>1 DEF Working
      <4>2. CASE w # v
        BY <1>0, <2>0, <3>1, <4>2 DEF LockInv, Working, SearchTypes, TypeOK, IngestTypeOK
      <4>. QED
        BY <4>1, <4>2
    <3>. QED
      BY <3>2, <3>6
  <2>5. CASE Build(s)
    <3>1. /\ place[s] = "building" /\ (IngestStep(v) \/ Fail(v))
          /\ \/ pc'[v] = "idle" /\ LeaveLock(s) /\ place' = [place EXCEPT ![s] = "failed"]
             \/ UNCHANGED <<line, place>>
          /\ UNCHANGED <<service, next>>
      BY <2>5 DEF Build, Becomes
    <3>2. pc[v] # "idle" /\ job' = job /\ \A x \in Workers : x # v => pc'[x] = pc[x]
      BY <1>0, <2>0, <3>1, StepReports DEF SearchTypes, TypeOK
    <3>3. \A o \in Searches : Locking(o)'
      BY <1>0, <2>0, <3>1, LineSteps DEF LockInv, Locking, First, SearchTypes, TypeOK
    <3>4. ASSUME NEW w \in Workers PROVE Working(w)'
      <4>1. SUFFICES ASSUME pc'[w] # "idle" PROVE Working(w)'
        BY DEF Working
      <4>2. pc[w] # "idle"
        BY <3>2, <4>1
      <4>3. PICK o \in Searches : ServerOf[o] = w /\ place[o] = "building"
        BY <4>2 DEF LockInv, Working
      <4>4. place'[o] = "building"
        <5>1. CASE w = v
          BY <3>1, <4>1, <4>3, <5>1
        <5>2. CASE w # v
          BY <1>0, <3>1, <4>3, <5>2 DEF SearchTypes, TypeOK
        <5>. QED
          BY <5>1, <5>2
      <4>. QED
        BY <3>1, <3>2, <4>2, <4>3, <4>4 DEF LockInv, Working
    <3>. QED
      BY <3>3, <3>4
  <2>6. CASE BuildFails(s) \/ Built(s)
    <3>1. /\ place[s] = "building" /\ pc[v] = "idle" /\ LeaveLock(s)
          /\ place' = [place EXCEPT ![s] = place'[s]]
          /\ \/ place'[s] = "failed" /\ UNCHANGED service
             \/ place'[s] = "searching" /\ service' = [service EXCEPT ![v] = TRUE]
          /\ UNCHANGED <<next, pc, job>>
      BY <1>0, <2>6 DEF BuildFails, Built, Becomes, ingestVars, workVars, SearchTypes, TypeOK
    <3>2. \A o \in Searches : place[o] = "building" /\ ServerOf[o] = v => o = s
      BY <3>1, OneBuilder DEF LeaveLock
    <3>3. \A o \in Searches : Locking(o)'
      BY <1>0, <2>0, <3>1, <3>2, LineSteps DEF LockInv, Locking, SearchTypes, TypeOK
    <3>4. \A w \in Workers : Working(w)'
      BY <1>0, <2>0, <3>1 DEF LockInv, Working, SearchTypes, TypeOK
    <3>. QED
      BY <3>3, <3>4
  <2>7. CASE Answer(s)
    <3>1. /\ place[s] = "searching" /\ place'[s] \in Over
          /\ place' = [place EXCEPT ![s] = place'[s]]
          /\ UNCHANGED <<line, service, next, pc, job>>
      BY <1>0, <2>7 DEF Answer, Becomes, workVars, SearchTypes, TypeOK, Over
    <3>2. \A o \in Searches : Locking(o)'
      BY <1>0, <3>1 DEF LockInv, Locking, First, SearchTypes, TypeOK, Over
    <3>3. \A w \in Workers : Working(w)'
      BY <1>0, <3>1 DEF LockInv, Working, SearchTypes, TypeOK
    <3>. QED
      BY <3>2, <3>3
  <2>. QED
    BY <1>2, <2>1, <2>2, <2>3, <2>4, <2>5, <2>6, <2>7 DEF SearchStep
<1>3. Rest'
  <2>. HIDE DEF Rest
  <2>. QED
    BY <1>1, <1>2 DEF SearchNext
<1>. QED
  BY <1>3

\* What the searches of a server keep to, whatever they share.
THEOREM LockInvariant == FairSpec => []LockInv
<1>1. ServerInit => LockInv
  BY LockInit DEF ServerInit
<1>2. LockInv /\ [ServerNext]_allVars => LockInv'
  BY LockStep, ServerSearches
<1>. QED
  BY <1>1, <1>2, PTL DEF FairSpec

\* The type invariant of the searches, the lock and the tables.
THEOREM SearchTypeCorrect == FairSpec => []TypeOK
<1>1. LockInv => TypeOK
  BY DEF LockInv, SearchTypes
<1>. QED
  BY <1>1, LockInvariant, PTL

\* The lock does what it is for: of the searches of a server one builds, and only
\* while there is no service to search.
THEOREM OneBuildAtATime == FairSpec => []BuildsAlone
<1>1. LockInv => BuildsAlone
  BY OneBuilder DEF LockInv, Locking, BuildsAlone
<1>. QED
  BY <1>1, LockInvariant, PTL

-----------------------------------------------------------------------------(* Failures and answers.                                                   *)

LEMMA CountsOne ==
    ASSUME SearchTypes, NEW s \in Searches, place' = [place EXCEPT ![s] = place'[s]]
    PROVE  /\ Unsuccessful' \subseteq Unsuccessful \cup {s}
           /\ place'[s] # "failed" => Unsuccessful' \subseteq Unsuccessful
BY DEF SearchTypes, TypeOK, Unsuccessful

\* Whoever fails is counted, or fails at the lock that a cancelled BEGIN left.
LEMMA FailureCounts ==
    ASSUME SearchTypes, [SearchNext]_vars
    PROVE  /\ orphan => orphan'
           /\ failures' \in {failures, failures + 1}
           /\ \/ Unsuccessful' \subseteq Unsuccessful
              \/ /\ \E s \in Searches : Unsuccessful' \subseteq Unsuccessful \cup {s}
                 /\ orphan \/ failures' = failures + 1
<1>. DEFINE Goal == /\ orphan => orphan'
                    /\ failures' \in {failures, failures + 1}
                    /\ \/ Unsuccessful' \subseteq Unsuccessful
                       \/ /\ \E s \in Searches : Unsuccessful' \subseteq Unsuccessful \cup {s}
                          /\ orphan \/ failures' = failures + 1
<1>1. ASSUME UNCHANGED vars PROVE Goal
  BY <1>1 DEF vars, searchVars, ingestVars, workVars, Unsuccessful
<1>2. ASSUME NEW s \in Searches, NextFile(s) PROVE Goal
  BY <1>2 DEF NextFile, Ingest, Unsuccessful
<1>3. ASSUME NEW s \in Searches, Build(s) PROVE Goal
  <2>1. /\ place[s] = "building" /\ (IngestStep(ServerOf[s]) \/ Fail(ServerOf[s]))
        /\ IF result'[ServerOf[s]] = "failed" /\ pc'[ServerOf[s]] = "idle"
           THEN place' = [place EXCEPT ![s] = "failed"]
           ELSE place' = place
    BY <1>3 DEF Build, Becomes
  <2>2. ServerOf[s] \in Workers /\ place'[s] \in {"building", "failed"}
        /\ place' = [place EXCEPT ![s] = place'[s]]
    <3>1. place \in [Searches -> {"idle", "waiting", "building", "searching"} \cup Over]
          /\ ServerOf[s] \in Workers
      BY KSAssumption DEF SearchTypes, TypeOK
    <3>. QED
      BY ONLY <2>1, <3>1, s \in Searches
  <2>3. /\ failures' \in {failures, failures + 1}
        /\ orphan => orphan'
        /\ place'[s] = "failed" => orphan \/ failures' = failures + 1
    <3>1. /\ failures' \in {failures, failures + 1}
          /\ orphan => orphan'
          /\ result'[ServerOf[s]] = "failed" /\ pc'[ServerOf[s]] = "idle" =>
                orphan \/ failures' = failures + 1
      BY <2>1, <2>2, StepReports DEF SearchTypes, TypeOK
    <3>. QED
      BY <2>1, <3>1
  <2>. QED
    BY <2>2, <2>3, CountsOne
<1>4. ASSUME NEW s \in Searches, BuildFails(s) \/ Answer(s) \/ CancelWaiting(s) PROVE Goal
  <2>1. /\ place' = [place EXCEPT ![s] = place'[s]]
        /\ failures' \in {failures, failures + 1} /\ orphan' = orphan
        /\ place'[s] # "failed" \/ failures' = failures + 1
    BY <1>4 DEF BuildFails, Answer, CancelWaiting, Becomes, OneMoreFailure, workVars, SearchTypes, TypeOK
  <2>. QED
    BY <2>1, CountsOne
<1>5. ASSUME NEW s \in Searches, Search(s) \/ FindService(s) \/ StartBuild(s) \/ Built(s) PROVE Goal
  <2>1. /\ place' = [place EXCEPT ![s] = place'[s]] /\ place'[s] # "failed"
        /\ failures' = failures /\ orphan' = orphan
    BY <1>5 DEF Search, FindService, StartBuild, Built, Becomes, ingestVars, workVars,
       SearchTypes, TypeOK
  <2>. QED
    BY <2>1, CountsOne
<1>. HIDE DEF Goal
<1>6. Goal
  BY <1>1, <1>2, <1>3, <1>4, <1>5 DEF SearchNext, SearchStep
<1>. QED
  BY <1>6 DEF Goal

LEMMA CountStep ==
    ASSUME SearchTypes, [SearchNext]_vars, IsFiniteSet(Unsuccessful),
           Cardinality(Unsuccessful) <= failures \/ orphan
    PROVE  /\ IsFiniteSet(Unsuccessful)'
           /\ Cardinality(Unsuccessful') <= failures' \/ orphan'
<1>1. /\ failures \in Nat /\ failures' \in Nat /\ failures <= failures'
      /\ Cardinality(Unsuccessful) \in Nat
  <2>1. failures \in Nat
    BY RIAssumption DEF SearchTypes, TypeOK, IngestTypeOK
  <2>2. failures' \in {failures, failures + 1}
    BY FailureCounts
  <2>3. Cardinality(Unsuccessful) \in Nat
    BY FS_CardinalityType
  <2>. QED
    BY ONLY <2>1, <2>2, <2>3
<1>2. CASE Unsuccessful' \subseteq Unsuccessful
  <2>1. IsFiniteSet(Unsuccessful') /\ Cardinality(Unsuccessful') <= Cardinality(Unsuccessful)
        /\ Cardinality(Unsuccessful') \in Nat
    BY <1>2, FS_Subset, FS_CardinalityType
  <2>. HIDE DEF Unsuccessful
  <2>. QED
    BY <1>1, <2>1, FailureCounts
<1>3. ASSUME NEW s \in Searches, Unsuccessful' \subseteq Unsuccessful \cup {s},
             orphan \/ failures' = failures + 1
      PROVE  /\ IsFiniteSet(Unsuccessful')
             /\ Cardinality(Unsuccessful') <= failures' \/ orphan'
  <2>. DEFINE More == Unsuccessful \cup {s}
  <2>1. /\ IsFiniteSet(More) /\ Cardinality(More) \in Nat
        /\ Cardinality(More) <= Cardinality(Unsuccessful) + 1
    <3>1. /\ IsFiniteSet(More)
          /\ Cardinality(More) \in {Cardinality(Unsuccessful), Cardinality(Unsuccessful) + 1}
      BY FS_AddElement, Zenon
    <3>. HIDE DEF More, Unsuccessful
    <3>. QED
      BY ONLY <1>1, <3>1
  <2>2. /\ IsFiniteSet(Unsuccessful') /\ Cardinality(Unsuccessful') \in Nat
        /\ Cardinality(Unsuccessful') <= Cardinality(More)
    BY <1>3, <2>1, FS_Subset, FS_CardinalityType
  <2>3. CASE orphan
    BY <2>2, <2>3, FailureCounts
  <2>4. CASE failures' = failures + 1 /\ Cardinality(Unsuccessful) <= failures
    <3>. HIDE DEF Unsuccessful, More
    <3>1. Cardinality(Unsuccessful') <= failures'
      BY ONLY <1>1, <2>1, <2>2, <2>4
    <3>. QED
      BY <2>2, <3>1
  <2>. QED
    BY <1>3, <2>3, <2>4
<1>. QED
  BY <1>2, <1>3, FailureCounts

\* A reply is the only one.
LEMMA OneReply ==
    ASSUME DOMAIN answer = Searches, NEW s \in Searches, answer[s] = <<>>, NEW frame,
           Reply(s, frame)
    PROVE  /\ answer'[s] = <<frame>> /\ answer'[s][1] = frame /\ answer'[s] # <<>>
           /\ \A o \in Searches : o # s => answer'[o] = answer[o]
           /\ DOMAIN answer' = Searches
BY DEF Reply

\* A search on its way is that of one call, and has not come to its end before.
LEMMA SearchMoves ==
    ASSUME SearchTypes, NEW s \in Searches, Search(s) \/ SearchStep(s) \/ CancelWaiting(s)
    PROVE  /\ place[s] \notin Over
           /\ \A o \in Searches : o # s => place'[o] = place[o]
           /\ Search(s) \/ place[s] # "idle"
<1>. USE DEF SearchTypes, TypeOK, Becomes, Over
<1>1. CASE Search(s) \/ CancelWaiting(s)
  BY <1>1 DEF Search, CancelWaiting
<1>2. CASE FindService(s) \/ StartBuild(s) \/ Built(s) \/ BuildFails(s) \/ Answer(s)
  BY <1>2 DEF FindService, StartBuild, Built, BuildFails, Answer
<1>3. CASE NextFile(s) \/ Build(s)
  BY <1>3 DEF NextFile, Build
<1>. QED
  BY <1>1, <1>2, <1>3 DEF SearchStep

\* Whoever waits for its search has no answer yet.
LEMMA NoAnswerYet ==
    ASSUME FailureInv, NEW s \in Searches, place[s] \notin {"idle"} \cup Over
    PROVE  answer[s] = <<>>
BY DEF FailureInv, Answered

LEMMA AnsweredStep ==
    ASSUME LockInv, FailureInv, [ServerNext]_allVars
    PROVE  /\ DOMAIN answer' = Searches /\ ledger' \in Seq(Searches)
           /\ \A s \in Searches : Answered(s)'
<1>. DEFINE Goal == /\ DOMAIN answer' = Searches /\ ledger' \in Seq(Searches)
                    /\ \A s \in Searches : Answered(s)'
<1>0. /\ SearchTypes /\ DOMAIN answer = Searches /\ ledger \in Seq(Searches)
      /\ \A s \in Searches : Answered(s)
  BY DEF LockInv, FailureInv
<1>1. ASSUME UNCHANGED allVars PROVE Goal
  BY <1>0, <1>1 DEF allVars, serverVars, vars, searchVars, Answered
<1>2. ASSUME NEW s \in Searches, Search(s) \/ SearchStep(s) \/ CancelWaiting(s),
             Search(s) => answer[s] = <<>>, UNCHANGED serverVars
      PROVE  Goal
  <2>1. answer[s] = <<>> /\ answer' = answer /\ ledger' = ledger
    BY <1>0, <1>2, SearchMoves, NoAnswerYet DEF serverVars
  <2>2. Answered(s)'
    BY <1>0, <2>1 DEF Answered
  <2>3. ASSUME NEW o \in Searches, o # s PROVE Answered(o)'
    BY <1>0, <1>2, <2>1, <2>3, SearchMoves DEF Answered
  <2>. QED
    BY <1>0, <2>1, <2>2, <2>3
<1>3. ASSUME NEW s \in Searches, answer[s] = <<>>, NEW frame, Reply(s, frame), UNCHANGED vars,
             place[s] \in {"idle"} \cup Over,
             frame.isError => place[s] \in {"idle", "failed"},
             \/ ledger' = ledger /\ (frame.error # 0 => place[s] = "idle")
             \/ ledger' = Append(ledger, s) /\ frame.error = 0
      PROVE  Goal
  <2>1. place' = place /\ \A k \in DOMAIN ledger : ledger[k] # s
    BY <1>0, <1>3 DEF vars, searchVars, Answered
  <2>2. /\ ledger' \in Seq(Searches)
        /\ \A o \in Searches : (\E k \in DOMAIN ledger' : ledger'[k] = o) =>
               o = s \/ \E k \in DOMAIN ledger : ledger[k] = o
        /\ \A k \in DOMAIN ledger' : ledger'[k] = s => ledger' # ledger
    <3>1. CASE ledger' = ledger
      BY <1>0, <2>1, <3>1
    <3>2. CASE ledger' = Append(ledger, s)
      BY <1>0, <3>2
    <3>. QED
      BY <1>3, <3>1, <3>2
  <2>3. Answered(s)'
    BY <1>0, <1>3, <2>1, <2>2, OneReply DEF Answered
  <2>4. ASSUME NEW o \in Searches, o # s PROVE Answered(o)'
    BY <1>0, <1>3, <2>1, <2>2, <2>4, OneReply DEF Answered
  <2>. QED
    BY <1>0, <1>3, <2>2, <2>3, <2>4, OneReply
<1>4. ASSUME NEW s \in Searches, NEW r \in Asks, Reject(s, r) PROVE Goal
  <2>1. PICK code : Reply(s, McpError(code))
    BY <1>4 DEF Reject
  <2>. QED
    BY <1>3, <1>4, <2>1 DEF Reject, Arrives, McpError
<1>5. ASSUME NEW s \in Searches, NEW r \in Asks, Handle(s, r) PROVE Goal
  BY <1>3, <1>5 DEF Handle, Arrives, CallToolResult
<1>6. ASSUME NEW s \in Searches, Finish(s) PROVE Goal
  BY <1>3, <1>6 DEF Finish, CallToolResult, Over
<1>7. ASSUME NEW s \in Searches, Work(s) \/ Cancel(s) PROVE Goal
  <2>1. (SearchStep(s) \/ CancelWaiting(s)) /\ UNCHANGED serverVars
    BY <1>7 DEF Work, Cancel
  <2>2. ~Search(s)
    BY <1>0, <2>1 DEF Search, SearchStep, CancelWaiting, FindService, StartBuild, NextFile, Build,
       BuildFails, Built, Answer
  <2>. QED
    BY <1>2, <2>1, <2>2
<1>8. ASSUME NEW s \in Searches, NEW r \in Asks, Await(s, r) PROVE Goal
  BY <1>2, <1>8 DEF Await, Arrives
<1>. HIDE DEF Goal
<1>9. Goal
  BY <1>1, <1>4, <1>5, <1>6, <1>7, <1>8 DEF ServerNext, Reads
<1>. QED
  BY <1>9 DEF Goal

\* One answer to a call, a protocol error only where no handler was reached, and
\* no failed call that none of the failures accounts for.
THEOREM OneFailureOneCall == FairSpec => []FailuresAreIsolated
<1>1. ServerInit => FailureInv
  <2>. SUFFICES ASSUME ServerInit PROVE FailureInv
    OBVIOUS
  <2>1. Unsuccessful = {}
    BY DEF ServerInit, Init, Unsuccessful
  <2>2. IsFiniteSet(Unsuccessful) /\ Cardinality(Unsuccessful) = 0
    BY <2>1, FS_EmptySet
  <2>. QED
    BY <2>2 DEF ServerInit, Init, IngestInit, FailureInv, Answered
<1>2. LockInv /\ FailureInv /\ [ServerNext]_allVars => FailureInv'
  <2>. SUFFICES ASSUME LockInv, FailureInv, [ServerNext]_allVars PROVE FailureInv'
    OBVIOUS
  <2>1. IsFiniteSet(Unsuccessful)' /\ (Cardinality(Unsuccessful') <= failures' \/ orphan')
    BY CountStep, ServerSearches DEF LockInv, FailureInv
  <2>. QED
    BY <2>1, AnsweredStep DEF FailureInv
<1>3. FailureInv => FailuresAreIsolated
  <2>. SUFFICES ASSUME FailureInv PROVE FailuresAreIsolated
    OBVIOUS
  <2>1. Cardinality({s \in Searches : place[s] = "failed"}) <= failures \/ orphan
    BY DEF FailureInv, Unsuccessful
  <2>2. ASSUME NEW s \in Searches, NEW i \in DOMAIN answer[s]
        PROVE  /\ answer[s][i].isError => place[s] \in {"idle", "failed"}
               /\ answer[s][i].error # 0 => place[s] = "idle" /\ \A k \in DOMAIN ledger : ledger[k] # s
    <3>1. answer[s] # <<>> /\ answer[s] = <<answer[s][1]>>
      BY DEF FailureInv, Answered
    <3>2. i = 1
      BY <3>1
    <3>. QED
      BY <3>1, <3>2 DEF FailureInv, Answered
  <2>. QED
    BY <2>1, <2>2 DEF FailuresAreIsolated
<1>. QED
  BY <1>1, <1>2, <1>3, LockInvariant, PTL DEF FairSpec

-----------------------------------------------------------------------------
(* The corpus.                                                             *)

LEMMA OwnDocuments ==
    ASSUME OwnCorpus, NEW w \in Workers, NEW x \in Workers,
           NEW j \in Uploads[w], NEW k \in Uploads[x], j.doc = k.doc
    PROVE  w = x /\ j = k
<1>1. (\E i \in DOMAIN Files[w] : Files[w][i] = j) /\ (\E i \in DOMAIN Files[x] : Files[x][i] = k)
  BY KSAssumption DEF ToSet
<1>. QED
  BY <1>1 DEF OwnCorpus

LEMMA OwnCopies ==
    ASSUME OwnCorpus, NEW d
    PROVE  OneCopy(d) /\ OneTenant(d)
BY OwnDocuments DEF OneCopy, OneTenant

\* A step leaves alone what it is not working on.
LEMMA ReadyStays ==
    ASSUME OwnCorpus, IngestInv, NEW x \in Workers,
           IngestStep(x) \/ Fail(x) \/ \E upload \in Uploads[x] : Ingest(x, upload),
           NEW w \in Workers, NEW i \in DOMAIN Files[w], Ready(w, i),
           x = w => pc[w] = "idle" \/ job[w] # Files[w][i]
    PROVE  Ready(w, i)'
<1>. DEFINE j == Files[w][i]
<1>1. j \in Uploads[w]
  BY FilesAreUploads
<1>2. pc[x] # "idle" => job[x].doc # j.doc
  BY <1>1, OwnDocuments DEF IngestInv, Given
<1>3. \A id \in ChunkIds : id[1] = j.doc => owner'[id] = owner[id] /\ body'[id] = body[id]
  BY <1>2, StepTouches DEF IngestInv
<1>. QED
  BY <1>3 DEF Ready, Kept

\* An ingestion that has ended without a failure has brought its document in.
LEMMA FinishedIsReady ==
    ASSUME OwnCorpus, IngestInv, IngestInv', failures' = 0,
           NEW w \in Workers, IngestStep(w) \/ Fail(w), pc'[w] = "idle",
           NEW i \in DOMAIN Files[w], job[w] = Files[w][i]
    PROVE  Ready(w, i)'
<1>. DEFINE j == Files[w][i]
<1>1. /\ j \in Uploads[w] /\ j.tenant \in Tenants /\ j.doc \in Documents
      /\ j.version \in Versions /\ MaxPieces \in Nat
      /\ Pieces[j.version.content] \in 0..MaxPieces
  BY FilesAreUploads, UploadsAreJobs, RIAssumption
<1>2. job'[w] = j /\ ~orphan
  BY StepReports, RIAssumption DEF IngestInv, IngestTypeOK
<1>3. result'[w] \in {"embedded", "skipped"} \/ PiecesOf(j.version) = {}
  <2>1. failures \in Nat /\ (failures' = failures \/ failures' = failures + 1)
    BY StepReports, RIAssumption DEF IngestInv, IngestTypeOK
  <2>2. failures' # failures + 1
    BY <2>1
  <2>. QED
    BY <1>2, <2>2, StepReports DEF IngestInv
<1>4. ~Refilling(j.doc, {"delete", "upsert", "writing"})' /\ ~Refilling(j.doc, {"upsert", "writing"})'
  <2>. SUFFICES ASSUME NEW x \in Workers, pc'[x] # "idle", job'[x].doc = j.doc PROVE FALSE
    BY DEF Refilling
  <2>1. job'[x] \in Uploads[x]
    BY DEF IngestInv, Given
  <2>. QED
    BY <1>1, <2>1, OwnDocuments
<1>5. ASSUME NEW v \in Versions, There(j.doc, v)'
      PROVE  Kept(j.tenant, j.doc, v)'
  <2>1. PICK t \in Tenants : Kept(t, j.doc, v)'
    BY <1>5 DEF There
  <2>2. ASSUME NEW id \in ChunkIds, id[1] = j.doc, owner'[id] = t PROVE t = j.tenant
    <3>1. PICK x \in Workers, r \in Jobs : r \in Uploads[x] /\ r.doc = j.doc /\ r.tenant = t
      BY <2>2, UploadsAreJobs, RIAssumption DEF IngestInv, Rightful
    <3>. QED
      BY <1>1, <3>1, OwnDocuments
  <2>. QED
    BY <2>1, <2>2 DEF Kept
<1>6. CASE result'[w] = "embedded"
  BY <1>1, <1>2, <1>4, <1>5, <1>6, OwnCopies DEF IngestInv, Reported, Ready
<1>7. CASE result'[w] = "skipped" /\ PiecesOf(j.version) # {}
  <2>1. TextThere(j.doc, j.version.content)'
    BY <1>2, <1>4, <1>7, OwnCopies DEF IngestInv, Reported
  <2>2. PICK v \in Versions : v.content = j.version.content /\ Kept(j.tenant, j.doc, v)'
    BY <1>5, <2>1 DEF TextThere
  <2>3. <<j.doc, 1>> \in ChunkIds /\ 1 \in PiecesOf(v)
    BY <1>1, <1>7, <2>2 DEF ChunkIds, PiecesOf
  <2>4. owner'[<<j.doc, 1>>] = j.tenant /\ body'[<<j.doc, 1>>] = v
    BY <2>2, <2>3 DEF Kept
  <2>5. PICK x \in Workers, k \in Jobs : k \in Uploads[x] /\ k.doc = j.doc /\ k.version = v
    BY <1>1, <2>3, <2>4, UploadsAreJobs, RIAssumption DEF IngestInv, Stored
  <2>6. v = j.version
    BY <1>1, <2>5, OwnDocuments
  <2>. QED
    BY <2>2, <2>6 DEF Ready
<1>. QED
  BY <1>3, <1>6, <1>7 DEF Ready

\* The files before next, but for the one in the pipeline.
Done(w, i) == i < next[w] /\ ~(pc[w] # "idle" /\ i = next[w] - 1)

LEMMA DoneIsReady ==
    ASSUME CorpusInv, failures = 0, NEW w \in Workers, NEW i \in DOMAIN Files[w], Done(w, i)
    PROVE  Ready(w, i)
BY DEF CorpusInv, Prepared, Done

LEMMA PreparedStep ==
    ASSUME OwnCorpus, LockInv, CorpusInv, IngestInv', failures' = 0, failures = 0,
           NEW s \in Searches, Search(s) \/ SearchStep(s) \/ CancelWaiting(s), NEW w \in Workers
    PROVE  Prepared(w)'
<1>. DEFINE v == ServerOf[s]
<1>0. /\ v \in Workers /\ SearchTypes /\ IngestInv /\ Prepared(w)
      /\ next \in [Workers -> Nat] /\ next[w] \in Nat
      /\ \A i \in DOMAIN Files[w] : i \in Nat
  <2>1. Files[w] \in Seq(Jobs)
    BY KSAssumption
  <2>2. \A i \in DOMAIN Files[w] : i \in Nat
    BY <2>1
  <2>. QED
    BY <2>2, KSAssumption DEF LockInv, SearchTypes, CorpusInv
<1>1. CASE Search(s) \/ FindService(s) \/ Answer(s)
  <2>1. UNCHANGED <<next, pc, service, owner, body>>
    BY <1>1 DEF Search, FindService, Answer, ingestVars, workVars, chunkRows
  <2>. QED
    BY <1>0, <2>1 DEF Prepared, Ready, Kept
<1>2. CASE StartBuild(s)
  <2>1. /\ next' = [next EXCEPT ![v] = 1] /\ ~service[v]
        /\ UNCHANGED <<pc, service, owner, body>>
    BY <1>2 DEF StartBuild, ingestVars, workVars, chunkRows
  <2>2. CASE w = v
    <3>1. next'[w] = 1 /\ ~service'[w]
      BY <1>0, <2>1, <2>2
    <3>2. \A i \in DOMAIN Files[w] : ~(i < 1)
      <4>1. Files[w] \in Seq(Jobs)
        BY KSAssumption
      <4>. QED
        BY <4>1
    <3>. QED
      BY <3>1, <3>2 DEF Prepared
  <2>3. CASE w # v
    <3>1. next'[w] = next[w]
      BY <1>0, <2>1, <2>3
    <3>. QED
      BY <1>0, <2>1, <3>1 DEF Prepared, Ready, Kept
  <2>. QED
    BY <2>2, <2>3
<1>3. CASE NextFile(s)
  <2>1. /\ place[s] = "building" /\ pc[v] = "idle"
        /\ next' = [next EXCEPT ![v] = next[v] + 1] /\ pc' = [pc EXCEPT ![v] = "hash"]
        /\ UNCHANGED <<service, owner, body>>
    BY <1>3 DEF NextFile, Ingest, GoTo, chunkRows
  <2>2. CASE w = v
    <3>1. next'[w] = next[w] + 1 /\ pc'[w] = "hash" /\ ~service'[w]
      BY <1>0, <2>1, <2>2 DEF LockInv, Locking, SearchTypes, TypeOK, IngestTypeOK
    <3>2. ASSUME NEW i \in DOMAIN Files[w], i < next'[w], ~(i = next'[w] - 1) PROVE Ready(w, i)'
      <4>1. i < next[w]
        BY ONLY <1>0, <3>1, <3>2
      <4>2. Ready(w, i)
        BY <2>1, <2>2, <4>1, DoneIsReady DEF Done
      <4>. QED
        BY <2>1, <4>2 DEF Ready, Kept
    <3>. QED
      BY <3>1, <3>2 DEF Prepared
  <2>3. CASE w # v
    <3>1. next'[w] = next[w] /\ pc'[w] = pc[w]
      BY <1>0, <2>1, <2>3 DEF IngestInv, IngestTypeOK
    <3>. QED
      BY <1>0, <2>1, <3>1 DEF Prepared, Ready, Kept
  <2>. QED
    BY <2>2, <2>3
<1>4. CASE Build(s)
  <2>1. /\ place[s] = "building" /\ (IngestStep(v) \/ Fail(v)) /\ UNCHANGED <<service, next>>
    BY <1>4 DEF Build
  <2>2. /\ pc[v] # "idle" /\ \A x \in Workers : x # v => pc'[x] = pc[x]
    BY <1>0, <2>1, StepReports DEF IngestInv
  <2>3. job[v] = Files[v][next[v] - 1]
    BY <1>0, <2>2 DEF LockInv, Working
  <2>4. ASSUME NEW i \in DOMAIN Files[w], i < next[w], ~(pc'[w] # "idle" /\ i = next[w] - 1)
        PROVE  Ready(w, i)'
    <3>1. CASE w = v /\ i = next[w] - 1
      BY <1>0, <2>1, <2>3, <2>4, <3>1, FinishedIsReady
    <3>2. CASE ~(w = v /\ i = next[w] - 1)
      <4>1. Done(w, i)
        BY <2>2, <2>4, <3>2 DEF Done
      <4>2. Ready(w, i)
        BY <4>1, DoneIsReady
      <4>3. v = w => job[w] # Files[w][i]
        <5>1. ASSUME v = w, job[w] = Files[w][i] PROVE FALSE
          <6>1. pc[w] # "idle" /\ job[w] = Files[w][next[w] - 1] /\ next[w] > 1
            BY <1>0, <2>2, <5>1 DEF LockInv, Working
          <6>2. next[w] - 1 \in DOMAIN Files[w]
            <7>1. /\ Files[w] \in Seq(Jobs) /\ Len(Files[w]) \in Nat
                  /\ next[w] \in 1..(Len(Files[w]) + 1)
              BY <1>0, KSAssumption DEF SearchTypes, TypeOK
            <7>2. next[w] - 1 \in 1..Len(Files[w])
              BY ONLY <1>0, <6>1, <7>1
            <7>. QED
              BY <7>1, <7>2
          <6>3. i = next[w] - 1
            <7>1. PICK k \in DOMAIN Files[w] : k = next[w] - 1
              BY <6>2
            <7>2. Files[w][i] = Files[w][k]
              BY <5>1, <6>1, <7>1
            <7>3. i = k
              BY <7>2, Zenon DEF OwnCorpus
            <7>. QED
              BY <7>1, <7>3
          <6>. QED
            BY <3>2, <5>1, <6>3
        <5>. QED
          BY <5>1
      <4>. QED
        BY <1>0, <2>1, <4>2, <4>3, ReadyStays
    <3>. QED
      BY <3>1, <3>2
  <2>5. service'[w] => next'[w] > Len(Files[w])
    BY <1>0, <2>1 DEF Prepared
  <2>. QED
    BY <2>1, <2>4, <2>5 DEF Prepared
<1>5. CASE Built(s)
  <2>1. /\ next[v] > Len(Files[v]) /\ service' = [service EXCEPT ![v] = TRUE]
        /\ UNCHANGED <<next, pc, owner, body>>
    BY <1>5 DEF Built, ingestVars, workVars, chunkRows
  <2>2. service'[w] => next[w] > Len(Files[w])
    BY <1>0, <2>1 DEF Prepared, SearchTypes, TypeOK
  <2>. QED
    BY <1>0, <2>1, <2>2 DEF Prepared, Ready, Kept
<1>6. CASE BuildFails(s) \/ CancelWaiting(s)
  BY <1>0, <1>6 DEF BuildFails, CancelWaiting, OneMoreFailure
<1>. QED
  BY <1>1, <1>2, <1>3, <1>4, <1>5, <1>6 DEF SearchStep

\* Whoever searches has a service, and so all the files and no build beside it.
LEMMA FoundWhenServed ==
    ASSUME LockInv, CorpusInv, failures = 0, NEW w \in Workers, service[w]
    PROVE  Found(w)
<1>1. pc[w] = "idle"
  BY DEF LockInv, Working, Locking
<1>2. inserted[w] = 0 /\ IngestInv
  BY <1>1 DEF CorpusInv, IngestInv, IngestTypeOK, Given
<1>. SUFFICES ASSUME NEW i \in 1..Len(Files[w]), PiecesOf(Files[w][i].version) # {}
              PROVE  LET j == Files[w][i]
                         seen == HoldingSeen(w, j.tenant, j.doc)
                     IN  /\ seen = {j.doc} \X PiecesOf(j.version)
                         /\ \A id \in seen : BodyAfter(w, inserted[w], id) = j.version
  BY DEF Found
<1>. DEFINE j == Files[w][i]
<1>3. i \in DOMAIN Files[w] /\ i \in Nat /\ Len(Files[w]) \in Nat /\ next[w] \in Nat
  <2>1. Files[w] \in Seq(Jobs)
    BY KSAssumption
  <2>. QED
    BY <2>1 DEF LockInv, SearchTypes
<1>4. Done(w, i)
  <2>1. next[w] > Len(Files[w])
    BY DEF CorpusInv, Prepared
  <2>2. i < next[w]
    BY ONLY <1>3, <2>1, i \in 1..Len(Files[w])
  <2>. QED
    BY <1>1, <2>2 DEF Done
<1>5. Kept(j.tenant, j.doc, j.version)
  BY <1>3, <1>4, DoneIsReady DEF Ready
<1>6. j.tenant \in Tenants /\ j.doc \in Documents /\ j.version \in Versions
  BY <1>3, FilesAreUploads, UploadsAreJobs
<1>7. Served(j.tenant, j.doc, j.version)
  BY <1>5, <1>6, KeptIsServed
<1>8. /\ HoldingSeen(w, j.tenant, j.doc) = Holding(j.tenant, j.doc)
      /\ \A id \in Holding(j.tenant, j.doc) : BodyAfter(w, inserted[w], id) = body[id]
  BY <1>2, <1>6, SeenIsHeld, RIAssumption DEF IngestInv, IngestTypeOK
<1>. QED
  BY <1>7, <1>8 DEF Served

LEMMA CorpusStep ==
    ASSUME OwnCorpus, LockInv, CorpusInv, [SearchNext]_vars
    PROVE  CorpusInv'
<1>0. IngestInv /\ SearchTypes
  BY DEF CorpusInv, LockInv
<1>1. failures \in Nat /\ failures' \in {failures, failures + 1}
  BY <1>0, FailureCounts, RIAssumption DEF IngestInv, IngestTypeOK
<1>2. IngestInv'
  <2>1. CASE [IngestNext]_ingestVars
    BY <1>0, <2>1, IngestStepOK
  <2>2. CASE UNCHANGED workVars /\ OneMoreFailure
    <3>1. failures' # 0
      BY ONLY <1>1, <2>2 DEF OneMoreFailure
    <3>2. UNCHANGED <<pc, job, result, documentRows, chunkRows, inserted, orphan>>
      BY <2>2 DEF workVars
    <3>3. IngestTypeOK'
      BY <1>0, SearchTypeStep DEF SearchTypes, TypeOK
    <3>. QED
      BY <1>0, <3>1, <3>2, <3>3, IdleStep
  <2>. QED
    BY <1>0, <2>1, <2>2, SearchIngests
<1>. SUFFICES ASSUME failures' = 0 PROVE (\A w \in Workers : Prepared(w)') /\ AnswersFromCorpus'
  BY <1>2 DEF CorpusInv, Prepared, AnswersFromCorpus
<1>3. failures = 0
  BY ONLY <1>1, failures' = 0
<1>4. CASE UNCHANGED vars
  BY <1>4 DEF CorpusInv, Prepared, AnswersFromCorpus, Ready, Kept, vars, searchVars, ingestVars,
     workVars, chunkRows
<1>5. ASSUME NEW s \in Searches, Search(s) \/ SearchStep(s) \/ CancelWaiting(s)
      PROVE  (\A w \in Workers : Prepared(w)') /\ AnswersFromCorpus'
  <2>1. \A w \in Workers : Prepared(w)'
    BY <1>2, <1>3, <1>5, PreparedStep
  <2>2. ASSUME NEW o \in Searches, place'[o] = "answered" PROVE complete'[o]
    <3>1. CASE Answer(s) /\ o = s
      <4>1. service[ServerOf[s]] /\ ServerOf[s] \in Workers
        BY <3>1, KSAssumption DEF LockInv, Locking, Answer
      <4>2. Found(ServerOf[s])
        BY <1>3, <4>1, FoundWhenServed
      <4>3. complete' = [complete EXCEPT ![s] = Found(ServerOf[s])]
        BY <2>2, <3>1, <1>0 DEF Answer, Becomes, SearchTypes, TypeOK
      <4>. QED
        BY <1>0, <3>1, <4>2, <4>3 DEF SearchTypes, TypeOK
    <3>2. CASE ~(Answer(s) /\ o = s)
      <4>1. place[o] = "answered" /\ complete'[o] = complete[o]
        <5>1. CASE Answer(s)
          BY <1>0, <2>2, <3>2, <5>1 DEF Answer, Becomes, SearchTypes, TypeOK
        <5>2. CASE ~Answer(s)
          <6>1. complete' = complete
            BY <1>5, <5>2 DEF SearchStep, Search, CancelWaiting, FindService, StartBuild, NextFile,
               Build, BuildFails, Built
          <6>2. o # s => place'[o] = place[o]
            BY <1>0, <1>5, SearchMoves
          <6>3. o # s
            BY <1>0, <1>5, <2>2, <5>2 DEF SearchStep, Search, CancelWaiting, FindService, StartBuild,
               NextFile, Build, BuildFails, Built, Becomes, SearchTypes, TypeOK
          <6>. QED
            BY <2>2, <6>1, <6>2, <6>3
        <5>. QED
          BY <5>1, <5>2
      <4>. QED
        BY <1>3, <4>1 DEF CorpusInv, AnswersFromCorpus
    <3>. QED
      BY <3>1, <3>2
  <2>. QED
    BY <2>1, <2>2 DEF AnswersFromCorpus
<1>. QED
  BY <1>4, <1>5 DEF SearchNext

\* While nothing fails, whoever gets an answer could find every document of the
\* corpus, whole. Two servers with a document in common are left out: the search of
\* one may come between the other's deletion of the document and its commit.
THEOREM SearchesFindTheCorpus == ASSUME OwnCorpus PROVE FairSpec => []AnswersFromCorpus
<1>1. ServerInit => CorpusInv
  <2>. SUFFICES ASSUME ServerInit PROVE CorpusInv
    OBVIOUS
  <2>1. IngestInv
    BY IngestInitOK DEF ServerInit, Init
  <2>2. \A w \in Workers : \A i \in DOMAIN Files[w] : i \in Nat /\ ~(i < 1)
    <3>1. ASSUME NEW w \in Workers, NEW i \in DOMAIN Files[w] PROVE i \in Nat /\ ~(i < 1)
      <4>1. Files[w] \in Seq(Jobs)
        BY KSAssumption
      <4>. QED
        BY <4>1
    <3>. QED
      BY <3>1
  <2>. QED
    BY <2>1, <2>2 DEF ServerInit, Init, IngestInit, CorpusInv, Prepared, AnswersFromCorpus
<1>2. LockInv /\ CorpusInv /\ [ServerNext]_allVars => CorpusInv'
  BY CorpusStep, ServerSearches
<1>3. CorpusInv => AnswersFromCorpus
  BY DEF CorpusInv
<1>. QED
  BY <1>1, <1>2, <1>3, LockInvariant, PTL DEF FairSpec
=============================================================================
