--------------------------- MODULE KnowledgeSearch ---------------------------
(***************************************************************************)
(* build_mcp_knowledge_search of rag/service.py: the handler behind the    *)
(* tool search_knowledge_base.  A search of an MCP server first makes sure *)
(* that the server's RagService exists; the first one builds it, within an *)
(* asyncio.Lock, by ingesting the corpus directory.  A build that fails is *)
(* left to the next search.                                                *)
(*                                                                         *)
(* Every MCP server is a worker of RagIngestion, for one tenant.           *)
(***************************************************************************)
EXTENDS RagIngestion, Sequences, SequencesExt

CONSTANTS
    Searches,   \* calls of the tool
    ServerOf,   \* ServerOf[s]: the MCP server that handles search s
    Files       \* Files[w]: the documents of w's corpus directory, sorted

ASSUME KSAssumption ==
    /\ ServerOf \in [Searches -> Workers]
    /\ Files \in [Workers -> Seq(Jobs)]
    /\ \A w \in Workers : Uploads[w] = ToSet(Files[w])

VARIABLES
    line,       \* line[w]: searches at the lock; the first one is inside
    place,      \* place[s]: where search s stands
    service,    \* service[w]: state["service"] is set
    next,       \* next[w]: the file that ingest_directory comes to next
    complete    \* complete[s]: search s could find every document of the corpus

searchVars == <<line, place, service, next, complete>>
vars == <<searchVars, ingestVars>>

Init ==
    /\ IngestInit
    /\ line = [w \in Workers |-> <<>>]
    /\ place = [s \in Searches |-> "idle"]
    /\ service = [w \in Workers |-> FALSE]
    /\ next = [w \in Workers |-> 1]
    /\ complete = [s \in Searches |-> FALSE]

-----------------------------------------------------------------------------
Becomes(s, where) == place' = [place EXCEPT ![s] = where]

First(s) ==
    /\ line[ServerOf[s]] # <<>>
    /\ s = Head(line[ServerOf[s]])

\* s is inside ensure_service and leaves it.
LeaveLock(s) ==
    /\ First(s)
    /\ line' = [line EXCEPT ![ServerOf[s]] = Tail(@)]

Search(s) ==
    /\ place[s] = "idle"
    /\ Becomes(s, "waiting")
    /\ line' = [line EXCEPT ![ServerOf[s]] = Append(@, s)]
    /\ UNCHANGED <<service, next, complete, ingestVars>>

FindService(s) ==
    /\ place[s] = "waiting"
    /\ service[ServerOf[s]]
    /\ LeaveLock(s)
    /\ Becomes(s, "searching")
    /\ UNCHANGED <<service, next, complete, ingestVars>>

\* Mutant of StartBuild: nobody waits for the lock.
StartBuildUnlocked(s) ==
    /\ place[s] = "waiting"
    /\ ~service[ServerOf[s]]
    /\ Becomes(s, "building")
    /\ next' = [next EXCEPT ![ServerOf[s]] = 1]
    /\ UNCHANGED <<line, service, complete, ingestVars>>

\* A database is opened and ingest_directory starts with its first file.
StartBuild(s) ==
    /\ place[s] = "waiting"
    /\ First(s)
    /\ ~service[ServerOf[s]]
    /\ Becomes(s, "building")
    /\ next' = [next EXCEPT ![ServerOf[s]] = 1]
    /\ UNCHANGED <<line, service, complete, ingestVars>>

NextFile(s) ==
    LET w == ServerOf[s] IN
    /\ place[s] = "building"
    /\ next[w] <= Len(Files[w])
    /\ Ingest(w, Files[w][next[w]])
    /\ next' = [next EXCEPT ![w] = @ + 1]
    /\ UNCHANGED <<line, place, service, complete>>

\* Mutant of Build: a build that fails keeps the lock.
BuildHolding(s) ==
    LET w == ServerOf[s] IN
    /\ place[s] = "building"
    /\ IngestStep(w) \/ Fail(w)
    /\ IF result'[w] = "failed" /\ pc'[w] = "idle"
       THEN Becomes(s, "failed") /\ UNCHANGED line
       ELSE UNCHANGED <<line, place>>
    /\ UNCHANGED <<service, next, complete>>

\* The pipeline works on a file; an exception that leaves it leaves
\* ensure_service too.
Build(s) ==
    LET w == ServerOf[s] IN
    /\ place[s] = "building"
    /\ IngestStep(w) \/ Fail(w)
    /\ IF result'[w] = "failed" /\ pc'[w] = "idle"
       THEN LeaveLock(s) /\ Becomes(s, "failed")
       ELSE UNCHANGED <<line, place>>
    /\ UNCHANGED <<service, next, complete>>

\* Mutant of BuildFails: whoever waits for the build fails with it.
BuildFailsForAll(s) ==
    LET w == ServerOf[s] IN
    /\ place[s] = "building"
    /\ pc[w] = "idle"
    /\ OneMoreFailure
    /\ place' = [o \in Searches |->
                    IF \E i \in DOMAIN line[w] : line[w][i] = o THEN "failed" ELSE place[o]]
    /\ line' = [line EXCEPT ![w] = <<>>]
    /\ UNCHANGED <<service, next, complete, workVars>>

\* An exception outside the pipeline: the database cannot be opened, a file
\* cannot be read, the search is cancelled between two files.
BuildFails(s) ==
    /\ place[s] = "building"
    /\ pc[ServerOf[s]] = "idle"
    /\ OneMoreFailure
    /\ LeaveLock(s)
    /\ Becomes(s, "failed")
    /\ UNCHANGED <<service, next, complete, workVars>>

\* Mutant of Built: the last file is missed.
BuiltEarly(s) ==
    LET w == ServerOf[s] IN
    /\ place[s] = "building"
    /\ pc[w] = "idle" /\ next[w] >= Len(Files[w])
    /\ service' = [service EXCEPT ![w] = TRUE]
    /\ LeaveLock(s)
    /\ Becomes(s, "searching")
    /\ UNCHANGED <<next, complete, ingestVars>>

\* All files are ingested: the service is there for everybody.
Built(s) ==
    LET w == ServerOf[s] IN
    /\ place[s] = "building"
    /\ pc[w] = "idle" /\ next[w] > Len(Files[w])
    /\ service' = [service EXCEPT ![w] = TRUE]
    /\ LeaveLock(s)
    /\ Becomes(s, "searching")
    /\ UNCHANGED <<next, complete, ingestVars>>

\* The vector store is read for the server's tenant, over the server's connection:
\* is every document found, whole?
Found(w) ==
    \A i \in 1..Len(Files[w]) :
        LET j == Files[w][i]
            seen == HoldingSeen(w, j.tenant, j.doc)
        IN
        PiecesOf(j.version) # {} =>
            /\ seen = {j.doc} \X PiecesOf(j.version)
            /\ \A id \in seen : BodyAfter(w, inserted[w], id) = j.version

\* The search gets its hits, or fails.
Answer(s) ==
    /\ place[s] = "searching"
    /\ \/ /\ Becomes(s, "answered")
          /\ complete' = [complete EXCEPT ![s] = Found(ServerOf[s])]
          /\ UNCHANGED failures
       \/ Becomes(s, "failed") /\ OneMoreFailure /\ UNCHANGED complete
    /\ UNCHANGED <<line, service, next, workVars>>

\* The client cancels a search that waits for the lock.
CancelWaiting(s) ==
    LET w == ServerOf[s] IN
    /\ place[s] = "waiting"
    /\ OneMoreFailure
    /\ Becomes(s, "failed")
    /\ \E i \in DOMAIN line[w] :
          /\ line[w][i] = s
          /\ line' = [line EXCEPT ![w] = RemoveAt(@, i)]
    /\ UNCHANGED <<service, next, complete, workVars>>

-----------------------------------------------------------------------------
SearchStep(s) ==
    \/ FindService(s)
    \/ StartBuild(s)
    \/ NextFile(s)
    \/ Build(s)
    \/ BuildFails(s)
    \/ Built(s)
    \/ Answer(s)

Over == {"answered", "failed"}

\* A condition on the corpora, under which the proof about AnswersFromCorpus holds:
\* every server has documents of its own, each once.
OwnCorpus ==
    \A w, other \in Workers : \A i \in DOMAIN Files[w], k \in DOMAIN Files[other] :
        Files[w][i].doc = Files[other][k].doc => w = other /\ i = k

-----------------------------------------------------------------------------
\* The type invariant; next points at most one file behind the corpus.
TypeOK ==
    /\ IngestTypeOK
    /\ line \in [Workers -> Seq(Searches)]
    /\ place \in [Searches -> {"idle", "waiting", "building", "searching"} \cup Over]
    /\ service \in [Workers -> BOOLEAN]
    /\ \A w \in Workers : next[w] \in 1..(Len(Files[w]) + 1)
    /\ complete \in [Searches -> BOOLEAN]

\* One build at a time, and none once there is a service: a search never races
\* with an ingestion of its own server.
BuildsAlone ==
    \A s, other \in Searches :
        place[s] = "building" =>
            /\ ~service[ServerOf[s]]
            /\ place[other] = "building" /\ ServerOf[other] = ServerOf[s] => other = s
            /\ place[other] = "searching" => ServerOf[other] # ServerOf[s]

\* Whoever gets an answer could find every document of the corpus, whole: the
\* service is not handed out before all of it is ingested.
AnswersFromCorpus ==
    failures = 0 => \A s \in Searches : place[s] = "answered" => complete[s]
=============================================================================
