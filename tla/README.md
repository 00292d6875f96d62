# A TLA+ model of fde_assessment

This directory is a verification development for the program under `src/`: an
LLM gateway with a persistent token budget per API key, a model router with
failover, a streaming guardrail and a retrieval stage, and an MCP gateway with a
tool server behind it. The modules are translated from the Python source. TLC
checks them on small instances; TLAPS proves the main results for every value
of the constants. `PROJECT.json` lists the components, the runs, the lines
every definition stands for, the findings, the hazards and the theorems. Paths
below are relative to `src/src/fde_assessment/` unless they begin with `docs/`.

Run a check with `tlc -config <name>.cfg <module>.tla`, a proof with
`tlapm <module>_proofs.tla`. `Loops` holds lemmas that more than one proof cites.

## 1. Inventory

| Component | State | Operations | Talks to |
|---|---|---|---|
| `persistence/sqlite.py` Database | one aiosqlite connection with a worker thread, an `asyncio.Lock`, the file | `connect`, `initialize`, `write_transaction`, `fetch_all`, `fetch_one`, `close` | SQLite; used by the limiter and by RAG |
| `llm_gateway/rate_limit/limiter.py` TokenRateLimiter | table `rate_limit_events` | `check_and_consume`, `reconcile`, `used_tokens`, `event_count` | Database |
| `llm_gateway/routing/router.py` ModelRouter | one async generator per completion, its RouteOutcome | `_open`, `stream` | two providers |
| `llm_gateway/providers/` | an HTTP stream (Ollama) or none (mock) | `stream` | the network |
| `llm_gateway/guardrails/` | the text a redactor holds back | `process`, `flush`, `guard_stream` | the router's stream |
| `llm_gateway/app.py` | nothing between requests; the generators of a stream | `chat_completions`, `_sse_body`, `_collect`, `_reconcile` | all of the above, RAG, the client |
| `rag/ingestion.py`, `rag/vector_store.py` | tables `rag_documents`, `rag_chunks` | `ingest`, `ingest_directory`, `upsert`, `delete_document`, `search` | Database, embedder |
| `rag/retriever.py`, `rag/service.py`, `rag/pipeline.py` | a service built by the first search | `search`, `augment`, `ensure_service` | vector store |
| `rag/chunking.py` | none | `chunk_text` | |
| `mcp_gateway/` | an HTTP client | `rpc`: bound, authenticate, parse, authorize, forward, audit | the tool server |
| `mcp_server/` | the refund ledger; the catalogue of tools | `call`, `trigger_refund`, `get_customer_record`, `search_knowledge_base`, over HTTP and over stdio | MCP client or gateway, the knowledge search |
| `observability/metrics.py` | two dictionaries under a lock | `increment`, `observe`, `quantile` | everything |
| `common/` | none | error tables, JSON-RPC parsing, settings | everything |

How they interact: everything runs in one asyncio event loop per process, so
the steps that interleave are the stretches between two `await`s, the worker
thread of the database connection, the other processes that share the database
file, and the interpreter, which closes abandoned async generators. Hard parts,
and what makes each component correct:

* **Database.** Tasks are cancelled at awaits while the thread goes on
  executing what it was given. Correct: a transaction takes effect wholly or
  not at all, answers are true, tasks never write into each other's
  transactions, the lock is always released, no transaction is left open.
* **Limiter.** The clock is read before the lock is waited for; rows of every
  key are evicted by each check; charges are corrected later by rows of either
  sign. Correct: it decides as if nothing were ever evicted, admissions in a
  window stay within the limit, `Retry-After` is exact.
* **Router.** The provider, the consumer and a deadline race. Correct: one
  upstream at a time, failover only before the first event and only for
  retryable failures, an outcome that is true, every upstream released.
* **chat_completions.** The client may go away at any await; there are a charge,
  a correction and four nested generators to unwind, and every one of the many
  ends of a request has its own error, status and counters. Correct: one
  provider's text in order, "complete" only when it is, no work that is not
  charged, every stream's charge corrected, errors that say truly whether
  anything was asked and charged, no request counted twice.
* **RAG.** Three transactions for one document, an embedding step between the
  comparison of hashes and the writes, identifiers without a tenant, a service
  that is built lazily. Correct: what is served is the document as it was last
  ingested, of one version, of its owner; what a search reads over the connection
  that is just being written to is of one version too.
* **MCP.** Retries after timeouts, denials that must never reach the tool
  server, an audit trail. Correct: every call that reached the tool server was
  allowed, what the audit trail says of it is true, and a refund is recorded once. Over stdio the SDK runs
  calls in tasks of their own: a call that fails takes no other with it.

## 2. Modules

| Module | Models |
|---|---|
| `WriteTransaction` | `Database.write_transaction`, the lock, the worker thread, SQLite's write lock, cancellation, refused statements, crashes |
| `AtomicStore` | what `write_transaction` promises: a transaction is one step or none |
| `WriteTransaction_proofs` | its theorems |
| `RateLimiter` | `check_and_consume`, `_retry_after`, `reconcile` |
| `SlidingWindow` | what the limiter promises: the same decisions without eviction, queue and transaction |
| `RateLimiter_proofs` | its theorems |
| `ModelRouter` | `_open`, `stream`, the providers and any consumer |
| `Errors` | the table of errors, their types, statuses and codes |
| `ChatCompletion` | `chat_completions` from the body to the last counter: authentication, validation, retrieval, charge, `guard_stream`, `_sse_body`, `_collect`, `_reconcile` around the router |
| `OneAnswer` | what the client is promised: a prefix of one provider's answer |
| `ChatCompletion_proofs` | its theorems, and those of `ModelRouter` |
| `StreamingRedactor` | the patterns, `scan`, `partial_match_start`, `process`, `flush`: a text that arrives in chunks |
| `StreamingRedactor_proofs` | its theorems |
| `RagIngestion` | `IngestionPipeline.ingest` with the vector store: hash, embedding, three transactions, chunk by chunk, failing anywhere; what a reader without the lock sees |
| `KnowledgeSearch` | the lazily built service behind `search_knowledge_base`, on top of `RagIngestion` |
| `Chunking` | `chunk_text`, as functions on sequences |
| `Retrieval` | `Retriever.search`, `SqliteVectorStore.search`, the context block and its citations, on top of `Chunking` |
| `Retrieval_proofs` | its theorems, and those of `Chunking` |
| `Loops` | lemmas about loops: induction, recursion, extreme numbers, sequences of sequences |
| `ToolDispatcher` | `ToolDispatcher.call` with the handlers: what becomes of a tool call |
| `ToolServer` | the tool server over HTTP: `rpc`, the refund ledger, the connection to it |
| `StdioServer` | the tool server over stdio: overlapping calls, on top of `KnowledgeSearch` and `ToolDispatcher` |
| `StdioServer_proofs` | its theorems, and those of `RagIngestion` |
| `McpGateway` | `rpc` of the MCP gateway with `authorize` and `forward`, on top of `ToolServer` |
| `RefundDesk` | what a client may rely on when it asks for a refund |
| `McpGateway_proofs` | its theorems |
| `MC...` | values for the constants |

The layers build on each other: `WriteTransaction` implements `AtomicStore`, so
`RateLimiter` takes a transaction as one step (and, as `AtomicStore` allows, one
that takes effect although its caller sees an error); `ChatCompletion` extends
`ModelRouter`, uses its actions as they are and so is one of its consumers; of the
limiter it knows what `RateLimiter` shows: a
request is admitted and charged, refused, or charged without being told.
`RagIngestion` knows of `WriteTransaction` that a transaction takes effect wholly
or not at all and that a cancelled BEGIN may leave one open (`orphan`);
`StdioServer` runs the searches of `KnowledgeSearch`, which run the steps of
`RagIngestion`.

A module also holds a few definitions whose comments begin with *Mutant of*.
They are the bugs a property is there to catch, one for each property of each
passing run: put in the place of the definition they name, they make TLC find
the property violated. No specification uses them.

### WriteTransaction

A task is a coroutine in `write_transaction`; `pc[t]` names what it awaits. Every
`await conn.execute(...)` is two steps: `Submit` puts the statement into the
worker thread's queue, and one of the thread's actions executes it and leaves
the answer. A cancellation (`Cancel...`) removes the task from its await, not
the statement from the queue. `BEGIN` stands before the `try`, so
`CancelOutside` only releases the lock, while `CancelBody` submits ROLLBACK.
`RefuseCommit` leaves the transaction open or not, as SQLite does for different
errors. `Crash` empties the process and keeps the disk. A statement's data is
abstracted to the pair <<task, n>>. `BusyTimeout` is enabled whenever another
process is in a transaction: how long 5 s are is left open.

### RateLimiter

A call reads the clock and queues its row for the process's lock
(`CheckAndConsume`, `Reconcile`). `Admit`, `Reject`, `Correct` are the
transaction at the head of the queue: DELETE, SUM, comparison, INSERT. Each may
take effect unseen by its caller, and `GiveUp` stands for a transaction without
effect. Time is in ticks so that a window and `Retry-After` can be told apart
at less than a second, as with the float in the code.

### ModelRouter

`state` says where the router's generator stands, `gen[p]` where the
generator of provider p does. The provider decides what an awaited event is;
`RouterNext` lets the consumer ask, be cancelled while it waits (`Cancelled`), or
forget the router between two events (`Forgotten`); `Release` is the event
loop's finalisation of abandoned async generators. `_safe_close`, which follows
every failure of `_open`, is a part of `FailOver` and `OpenRaises`. An
exception that is no GatewayError is called "unnormalised".

### ChatCompletion

`stage` follows one request from its body through the stream to the correction.
What a request is (`AllRequests`) is what the handler looks at before it asks a
provider: its size, its credentials, whether the body parses, `stream`, `rag`;
`Unauthenticated`, `Invalid`, `Accept` are the code between two awaits, in its
order. `Augmented` and `AugmentFails` are the two ends of `augment`, which is
`Retrieval`. `status` is that of the response's head, `ending` the last frames,
the document or the error's code, and `metrics` counts what the request adds to
`requests_total` ("total"), `requests_failed_total` ("failed") and the latency
histogram ("observed"). The redactor may hold back any suffix of the text it has
(`GuardText`), which covers what `StreamingRedactor` does for any text and
window; what it *replaces* is in `StreamingRedactor`. A disconnect cancels the chain while
the provider is awaited (`DisconnectPulling`), and abandons it while a frame is
sent (`DisconnectSending`), whereupon the interpreter closes `_sse_body`
first (`CloseBody`) and what it referred to after it (`CloseRest`). A JSON answer
is not cancelled by a disconnect. If nothing is to be corrected the limiter is not
called, so `SettleFails` needs a `Difference`; it contains the case that the
correction itself is cancelled, and the correction may have been committed all the same,
as `AtomicStore` allows. Errors are named by their code, those of the
models without their common prefix, as in `ModelRouter`.

### StreamingRedactor

A character of the stream is its position in `text`, so that a run can tell which
characters were sent, which are held and which were replaced. The regular
expressions are sets: `EmailEnds(t, i)` and its like are the ends of the matches
that begin at `i`, of which a greedy search takes the last, and `Matches` goes
from left to right as `finditer` does, place by place. `scan` is its loop over the
matches, with what it has put together (`prefix`) and its `cursor`. `process` is the method, statement by
statement; it may be given any chunk of up to `MaxChunk` characters. The numbers
in the patterns are constants (3-2-4 digits of a social security number, 13 to 19
of a card, 2 letters after the last dot), so that small ones can be checked. `%`
and `+`, which only occur in the part before the `@`, stand for `_`. The alphabet has no
character that is in no pattern at all, such as a comma, and no newline, before which the
`$` of the partial patterns matches too: more is held back then.

### Chunking and Retrieval

A text is a sequence of paragraphs, each the lengths of its sentences; a
character is its place, so that `KeepsText` can find every character, and every span
in one piece, in the chunks. White space is `Blank`, wherever it stands. The loops of
the code are functions over its turns: `chunk_text` over the spans, `Paragraph` over
the sentences, `Selection` over the hits, each by one step (`Accumulate`, `Join`,
`Take`).
`Retrieval` takes one question through the store, the retriever and the
pipeline. A score is any integer, a chunk is its document, index and length;
`Growth` is what `neutralize` adds to a passage (`Neutralised`) and `NamedIn` is any
relation of chunks of which one's id occurs in what the prompt says of the other - in
its text, its title or its own id -, because `citations` looks for the id of a
chunk anywhere in the prompt. The citations are a set: each hit is cited once, as it
is found once. `Fail` is a question that is empty, an embedder or a database that
raises.

### RagIngestion and KnowledgeSearch

A worker is a process that ingests. `pc[w]` names the await at which it stands;
`WriteRow`, `DeleteChunks` and the upsert are the three transactions. The first two
have one statement and are one step, by `AtomicStore`; the third inserts a chunk at
a time (`InsertChunk`) and is committed by `Commit`, because the searches of the same
process read over the same connection without the lock: `HoldingSeen` is what they
see, `Holding` what is on disk. `Fail` is an exception at any of the awaits: the
embedder's, a locked database, a cancellation; one of a BEGIN may leave `orphan`, an
open transaction that locks everybody out (`LockedOut`) until its process ends.
Texts are abstracted to a content
(equal contents have equal hashes) that is cut into `Pieces[content]` chunks; the
rest of a version (`settings`: metadata and embedder) is what the hash does not
cover. ON CONFLICT leaves the tenant of an existing row alone, in both tables, and the
deletion is of the tenant's chunks only: a document that is ingested for two tenants
stays the first one's. An empty text and one without pieces are the same (`NothingToStore`).

`KnowledgeSearch` puts `ensure_service` around it: `line[w]` is the queue of the
`asyncio.Lock`, `Build` is a step of the pipeline for the search inside the lock,
`BuildFails` an exception outside the pipeline, `CancelWaiting` a cancellation in
the queue. What a search finds is the set of chunks of its tenant; scores and
ranking are left out. The module has steps and no specification of its own:
`StdioServer` puts them behind `on_call_tool`.

### StdioServer and ToolDispatcher

`Dispatch` says what becomes of a tool call; only a search awaits something.
`Reject` and `Handle` are calls that are over at once, `Await`, `Work`, `Finish` one that
searches. The SDK answers for the handler: a `MethodNotFoundError` or
`InvalidParamsError` is a JSON-RPC error (so is what `float` raises of an amount that
is too large, schemas.py:113), whatever a handler raises is the result of a tool with
`isError`. Whether the search is in the catalogue is settled when the
process starts (`build_default_deps`).

### McpGateway and ToolServer

A call is one HTTP request; what it asks for is chosen at the start. The handler
awaits twice, so its stages are `reading` the body, `pooled` (waiting for one of
the client's connections), `sent`, `done`; what lies between two awaits is one
step (`Unauthenticated`, `Malformed`, `Deny`, `Forward`: the order of the code's
checks is in their guards). `quiet[c]` is the time without progress that httpx
limits; `Drip` resets it. The tool server handles what is in its `inbox` at any
time, also after its caller has given up, and `Spoil` stands for whatever answers
in its place: with a 5xx or a body that cannot be used (`Broken`), or with a status below
500 and a JSON object ("stray": the 404 or 429 of a proxy), which `forward` hands on as
the server's reply. `answer[c].id` says whether the answer carries the request's id.
A tool's name is one of the registered ones, another administrative one, an
unknown one or "unreadable"; arguments are valid or not.

## 3. Runs

| Run | Instance | Shows |
|---|---|---|
| `write_transaction` | 2 processes, 3 tasks, 2 statements each; 2 cancellations at any await, 1 refused statement, 1 crash | `AllOrNothing`, `TransactionsDoNotMix`, `AnswersAreTrue`, `EveryTransactionEnds`; `WriteTransaction` implements `AtomicStore` |
| `write_orphan` | one process and a cancellation at BEGIN | violated: `NoOrphanTransaction` |
| `limiter_requests` | 3 requests of 2 keys, a window of 2 ticks, 5 moments, corrections -2 and 1 | `EvictionSafe`, `WindowCeiling`, `RetryAfterTight`; `RateLimiter` implements `SlidingWindow` |
| `router_any_consumer` | up to 3 events per provider of 1 or 2 tokens, a retryable and a non-retryable code | `AtMostOneUpstream`, `FailoverJustified`, `CountKept`, `OutcomeTruthful`, `FirstTokenDeadline`, `UpstreamReleased` |
| `chat_request` | one request, streamed or not, good or bad in every way the handler checks, up to 3 text events per provider | `RequestCounted`, `ErrorsAreHonest`, `NoUnpaidWork`, `CompleteIsPaid`, `ImplementsOneAnswer`, `RequestEnds`, `StreamSettled` |
| `rag_ingestion` | 2 workers, 2 failures; a document with three texts (2, 1, 0 pieces) and two titles, and one shared by both workers, of which one has it for two tenants; cancelled BEGINs | `OneVersion`, `RestIsServed` |
| `rag_failed` | 1 worker, 1 failure, a document that is shortened | violated: `RemovedIsGone` |
| `search_one_server` | 3 calls of 6 kinds, a corpus of 2 files, 3 failures | `BuildsAlone`, `AnswersFromCorpus`, `FailuresAreIsolated`, `EverySearchEnds` |
| `redactor` | 1110 texts of up to three pieces of addresses and numbers, in every chunking of up to 3 characters; window 12, numbers of 1-1-1, cards of 5 or 6 digits | the carry's bound (`TypeOK`), `NothingLost`, `SecretsHidden` |
| `redactor_whole` | the same; window 9, cards of 4 or 5 digits | violated: `SameAsWhole` |
| `retrieval` | 2801 documents of up to 4 paragraphs; 4320 questions to corpora of 3 documents and one of another tenant, ranked by document or by chunk, with ids that are parts of others and passages that mention others, `top_k` 0 to 5; chunks whose id is a part of another's, and a passage that mentions three others | `ChunksKeepText`, `Breadth`, `SourcesAreShown` |
| `mcp_calls` | 2 calls of 15 kinds over a pool of 1 connection | `OnlyPermittedReach`, `AuditIsTrue`, `ForwardedCallEnds`; gateway and tool server implement `RefundDesk` |

**Bounds and why they are enough.** Three tasks are what it takes for one to
hold the lock, one to wait and one to run in another process. Two statements
give a transaction a beginning and an end to be cut between. Two
cancellations let the second task meet what the first left behind. A window of
two ticks has a row inside, one exactly at its edge and one outside. Three
events let the redactor hold back, release and hold back again, and two weights
tell a lost event from a token counted twice. Two pieces make a document that
can be served in part; two failures let a repetition of what failed fail as
well, and with three every one of the three calls may fail for a reason of its own,
which `FailuresAreIsolated` counts. The requests of `chat_request` are all of
`AllRequests`, except that one accepted for its bearer token brings no other
X-API-Key than an unknown one. Two calls over one connection are one that holds it and one that waits;
the 15 requests differ in what a check of the pipeline or of the dispatcher looks
at. The pieces of the redactor's texts make every kind of match, each kind
beside each other and in each other, matches that grow, that are cut and that are longer
than the window; a chunk of up to 3 characters falls inside and across them. As in the code,
a social security number has fewer digits than a card, and the window holds two numbers
(`SRAssumption`). Sizes of 6
with an overlap of 2 make chunks of one span, of several, and of a piece of one,
with and without room for the overlap. `MaxPieces`, `MaxChunk`, `MaxClock`, `MaxEvents`,
`MaxFailures` and `Budget` are the only bounds that the code does not have.

**Deadlock** is checked in every run: `Quiescent`, `Finished`, `RouterStops`,
`Stops`, `Quiet` and `Reads` stutter exactly where the system may stop.

**Fairness.** `WriteTransaction`: the event loop resumes a task whose future is
done, and a thread executes its queue; a task is not assumed to start, a crash
or a cancellation never to happen. `ModelRouter`: only the deadline of
`asyncio.timeout` and the finalisation of unreachable generators; a provider may
be silent for ever, which is why nothing is claimed of a stream after its first
event. `ChatCompletion`: in addition the provider answers in the end; past the
first token that is not the router's doing but that of the HTTP client's time
limits in `providers/ollama.py`, and the mock provider does not wait at all. A client
may take for ever to send its body, which nothing limits: the steps that end the
reading are not fair.
`RateLimiter` has no liveness property: that a check is answered is
`EveryTransactionEnds`. `StdioServer`: the event loop runs the handlers, and
the embedder and the database answer or raise; a client need not call. `McpGateway`: only that time goes
on and that httpx raises at its limit; nothing is assumed of the tool server,
except that it does not draw its reply out (`drips`), which the code does not
limit.

`OneVersion` and `RestIsServed` speak of the documents of which there is one copy at a
time (`OneCopy`): what two workers ingest as the same document, or one worker for two
tenants, is the same version; one worker may edit it for one tenant. Of the others
pieces of two texts may stay side by side. `RestIsServed` says *by whom* a document is
found only if it is ingested for one tenant (`OneTenant`): of two tenants only the first
one finds it (section 4). `search_one_server` has one server, since an MCP
server serves one client (docs/architecture/COMPONENTS.md); a second one of the
same tenant that starts while the first one ingests would skip by hash what has
no chunks yet.

## 4. Findings

1. `write_orphan` - `BEGIN IMMEDIATE` is awaited outside the `try`. A task
   cancelled there releases the lock; the thread executes BEGIN afterwards and
   nobody rolls back. Every later transaction of the process fails. The
   correction at the end of an interrupted stream is such a task: `_sse_body`
   awaits it in a `finally` clause, within a cancelled scope. So is an ingestion
   whose search is cancelled: `RagIngestion` shows what follows, every later write
   over the file fails (`LockedOut`) until that process ends, and with it every
   later build of `StdioServer` (the `orphan` of `FailuresAreIsolated`).
2. `rag_failed` - the row with the new hash is committed first, in a transaction
   of its own. An ingestion that fails after it is skipped as unchanged ever
   after, and the removed passage is still served.
3. `redactor_whole` - `process` replaces a match as soon as it ends before the end
   of the buffer, although it may still be the beginning of another one. The
   number 4111 1111 1111 1111 followed by " 1" is replaced when it arrives in
   pieces and sent as it is in one (17 digits whose checksum is wrong);
   `john@example.co.uk`, one character at a time, becomes `[REDACTED].uk`. The
   tests' docstring says: "exactly as if it had arrived in one piece". What does
   hold is `SecretsHidden`, with the exceptions named below.

Also met while modelling. The models have the steps, and the properties say what holds in
spite of them; no run claims the contrary:

* `guard_stream` adds the total in the router's final event (router.py:246) to the sum it
  has kept (streaming.py:162), so that the "real usage" of `_reconcile` (app.py:449) is
  twice the tokens of a complete answer: `CompleteIsPaid` says twice, exactly.
* docs/operations/RUNBOOK.md:205 advises to ingest a corpus that is under the wrong tenant
  again, with the right one, and scripts/seed_db.py:5 shows the command. The document is
  embedded anew and reported so, but `ON CONFLICT` does not update `tenant_id`: its rows
  keep the first tenant and the second finds nothing. `RestIsServed` says that *one* of
  the tenants finds it.
* Two processes that ingest different texts of a document at once may both delete before
  both insert. The pieces that only the longer text has are then served beside those of
  the shorter one, and the hash is that of the row written last: ingestion replaces rather
  than merges (ingestion.py:155) only if nobody else ingests another text (`OneCopy`).
* The audit event of an allowed call is written after `forward` has returned
  (mcp_gateway/app.py:231). A call whose forward fails has none, although the tool server
  may have executed it; "one structured audit event per gateway decision" says the docstring
  of `_audit`, and docs/security/LOGGING-POLICY.md:89 with it. `AuditIsTrue` claims
  an event for what the tool server answered.
* `citations` looks for an id anywhere in the prompt (pipeline.py:107): a hit that the
  budget has dropped is cited if a passage that is shown mentions its id in its text or
  title, or has an id that contains it. "A hit that was dropped by the character budget
  is not cited" says its docstring; `SourcesAreShown` names the exception (`NamedIn`).
* A stream that fails or is left before its end is refunded everything but the
  prompt (app.py:362): `generated` is only set at the end.
* A refund is stamped with the time of the correction (limiter.py:215). It
  outlives the admission it corrects, so the sum of a window may be negative and
  a request larger than the limit is admitted, which
  docs/testing/TEST-MATRIX.md:180 excludes.
* With two processes over one database file the check with the later clock
  evicts rows that still count for an earlier one (`EvictionSafe` fails with
  `Procs = {p1, p2}`): limiter.py:124 says that a concurrent writer can never
  observe a half-evicted window. Hence the hypothesis of the limiter's theorems.
* After the first event the router handles GatewayErrors only (router.py:233);
  the docstring says that both providers' failures are normalised.
* `OllamaProvider.stream` yields its final event when the response body ends
  (ollama.py:124), whether a line said `done` or not, and passes over a line that
  holds an error and no message. `ImplementsOneAnswer` says that "complete" is all
  that the provider yielded; what the daemon behind it meant to send is not in the
  model.
* Ingesting an unchanged text again with another embedder, title or
  classification changes nothing; docs/operations/RUNBOOK.md:206 advises to do so.
* A rejected card candidate swallows what is inside it: "order 1234 123-45-6789"
  is one candidate of 13 digits whose checksum is wrong, and the social security
  number is sent. A card whose first 13 digits are a valid one and are followed by
  a separator is replaced that far only, which is why `Secret` ends there.
* A match that has another one in it is sent in part if it is cut inside: of
  `a123-45-6789@x.cc` in one piece all is replaced, but once `a123-45-6789@` has arrived
  the number in it is a match that ends before the end, and what is sent is
  `a[REDACTED]@x.cc`; likewise `a@123-45-6789.cc`, and the card `1 123-45-6789 1231`. And a
  match that grows out of what is before it may be hidden with it or not. `Plain` and
  `Alone` leave these out of `SecretsHidden`.
* The hard cap of `process` (streaming.py:122) never bites: `partial_match_start`
  looks back no further than the window. What bites is the look-back itself.
* A document that is emptied keeps its old passages.
* The docstring of app.py (lines 19 to 28) puts the rate limit before the
  retrieval; the code retrieves (238) before it charges (250), so a request that
  is refused has made the embedder and the database work. `ErrorsAreHonest` relies on
  the code's order: a failed retrieval costs nothing.
* A stream that breaks off with an exception that is no GatewayError (app.py:356)
  is counted neither in `requests_total` nor in `requests_failed_total`, and so is
  one whose client leaves before `[DONE]`. A stream whose body is never started
  observes no latency. `RequestCounted` names these as its exceptions.
* A JSON answer that fails is not corrected: it costs the prompt and the whole
  output (app.py:307), where a stream that fails costs the prompt.
* 429 is both the gateway's own limit and the models'; only the type tells them
  apart, and only the first has Retry-After.
* A role in `MCP_GATEWAY_TOKENS` is validated when the first request is
  authenticated (config.py:212), although config.py:236 says that a configuration
  error is fatal.
* A build of the knowledge service that fails drops its Database without closing
  it (service.py:192), and the MCP server never closes the one it keeps.
* After `Database.close` a late correction opens the database again, through
  `connect`; nobody closes it then.
* `Database.connect` tests `_conn` before an await and sets it after: two first
  callers would open two connections. The applications call `initialize` before
  they serve, so that there is one first caller.
* What answers in the tool server's place with a status below 500 and a JSON object (a
  404 or 429 of a proxy) is handed to the client with HTTP 200, and audited as
  forwarded with `downstream_called` (proxy.py:85 to 102). `AuditIsTrue` names the case.
* A key or a token that is not ASCII makes `compare_digest` raise a TypeError
  (llm_gateway/auth.py:56, mcp_gateway/auth.py:69): the caller is told of an internal
  error, not that it is unauthenticated. `ReadFails` and `BodyFails` have it.
* `httpx.Timeout` limits the time without progress. A tool server that draws its
  reply out holds a call for ever, which proxy.py calls a hard timeout.

## 5. Proofs

The theorems hold for every value of the constants that satisfies the `ASSUME`s of
the modules: the types of the constants, that distinguished values are distinct, that
a model's error is one of those `providers/` raises (`CCAssumption`), that what a
server ingests is what its files hold (`KSAssumption`). The limiter's theorems have a
hypothesis of their own, that there is one process, which is how the gateway is deployed,
and so has `SearchesFindTheCorpus` (`OwnCorpus`), which TLC evaluates for the instance
that it checks (`MCCorpora`); both are named below.
Every safety property of a passing run is a theorem.

**WriteTransaction_proofs.** `AllOrNothing` and the others are not inductive: that
COMMIT writes all of a transaction depends on what stands in the worker thread's
queue, and that on who holds the lock. `IInv` adds: `LockInv` (a task is inside
the block iff it holds the lock), `QueueInv` (where a statement can stand in the
queue - a ROLLBACK at most behind one write of its own task, a BEGIN behind
anything left by others - and what the connection looks like when it does),
`AwaitInv` (an awaited statement is the last of the queue), `TxnInv` (an open
transaction holds writes of the task that opened it, none on disk) and
`EffectInv` (what of a task's writes is on disk at each pc). There is one lemma
per action; actions of a task and of the thread share frame lemmas. From IInv:
`AllOrNothingAlways`, `TransactionsNeverMix`, `AnswersAlwaysTrue`, and
`Refinement`, which maps every step to a step of `AtomicStore` or a stutter.

**RateLimiter_proofs.** In one process clock readings queue in order:
`QueueInv` says so, and that the readings in the queue are not older than any
row that was evicted is what makes `EvictionSafe` inductive. `SameWindow` then
says that the table and the whole log have the same rows in any window a
waiting check can ask for; with it each transaction is the step of `SlidingWindow`
(`Refinement`), and `Retry-After` computed from the table is that of the log
(`RetryAfterAlwaysTight`, by properties of minima and division). The hypothesis
`Procs = {p}` is needed: with two processes TLC finds a counterexample.

`CeilingAlwaysHolds` is about sums over sets of rows. `Charge` is a fold, a function
that is defined by recursion over sets, and what holds of every sum takes an
induction. It is written without the library's induction theorems, whose parameter is
an operator: `Smallest` says that among finitely many sets, those for which the claim
is wrong, one has no wrong subset, and `ChargeUnfolds` takes one row away from it. From
this, `ChargeAdds` and `ChargeSplits`. The ceiling itself then depends on the order of
commits (`InCommitOrder`: a row that is committed later is not older), because a row that
was not there when a check was decided may not be in its window afterwards.

**ChatCompletion_proofs, the router.** `RouterInv` says for the provider that is read what is
true of the other one: on the primary, the secondary is untouched; on the
secondary, the primary is over and has produced nothing. With the count
(`Counted`, `Kept`) and the list of failures (`Listed`) it is inductive and
implies the five properties.

**ChatCompletion_proofs, the request.** First every step of the handler is one of the router or
leaves it alone (`RouterIsUsed`, a lemma: it is so by the form of the actions), so that `RouterInv` holds in a request as it does for
any consumer. `ChatInv` then ties the two together: `Places` and `Serves` (where either
may stand while the other stands somewhere), `Offered` and `InOrder` (the event under way
is the last piece made, and all others are with the client or in the redactor, in order),
`Tallied` and `Finished` (what `guard_stream` has counted, and when it may say so), `Owed`
(the charge at each stage), `Blamed` and `Metered` (which error can be told at which
stage, after what cost, and what has been counted). There is a lemma per action; those
that let go of generators (`Cancelled`, `CloseRest`, the disconnects) share `LetGo`. From
`ChatInv` follow all four safety properties, and `ChatImplementsOneAnswer`: the text the
client has is a beginning of what one provider has made, grows with `SendText` and is
called complete by `Finish` only when nothing of it is missing.

**StdioServer_proofs, the ingestion.** A document on disk is nothing or all the pieces of one
version (`Whole`). What keeps it so is what a worker may rely on at each of its awaits:
`Rowed` (from its first transaction on, the row says what it ingests), `Cleared` (from its
deletion to its commit nothing is there, unless somebody else has committed the very same
meanwhile, or has it for another tenant), and, while nothing has failed, `Filled` and
`Reported` (a row whose pieces are missing, or a document that was reported and is missing, is
one that somebody has still to fill). Each of these is claimed of the documents of which
there is one copy at a time (`OneCopy`), and so is what follows, `NeverTwoVersions` and
`WhatRestsIsServed`; of the others it is false (section 4). Other documents may be
ingested beside them in any way, and one document for any number of tenants. That is where
`Rightful` and `Stored` are needed (whom a row belongs to and of whose version a chunk is): a
deletion leaves the chunks of another tenant alone, and these are then of the version that is
about to be inserted (`OthersCopy`), so that the commit completes what they began.

**StdioServer_proofs, the server.** Three invariants, one on top of the other. `LockInv` is the
queue of `asyncio.Lock`: who builds is first in line, the pipeline works for it and on the file
before `next`, and there is no service yet (`OneBuildAtATime`). `FailureInv` counts the searches
that have failed, step by step, against the failures (`OneFailureOneCall`, with the
cardinalities of the library), and says that a call has at most one answer. `CorpusInv` says that each file
that the build has left behind is served, and, through the steps of `RagIngestion` that a step
of the server is (`StepTouches`, `StepReports`), that it stays so (`SearchesFindTheCorpus`).
That last theorem assumes `OwnCorpus`: every document is one file of one server. It is needed,
since a second server with the same corpus deletes the chunks of a document before it inserts
them anew, and two files of the same stem are one document, of which the second replaces the
first. A server is the only one of its corpus by docs/architecture/COMPONENTS.md; that the stems in a
corpus differ is a property of the directory, which the code does not check.

**McpGateway_proofs.** `GatewayInv` says for each stage of a call what has been decided, who
holds a connection and where its message can be: a call that is `sent` or in the `inbox` was
permitted, one that is answered "denied" was never sent, and an audit event "called" is
written from a reply, which only a call in `invocations` has. `OnlyPermittedCallsReach` and
`AuditTellsTheTruth` follow; `GatewayImplementsDesk` maps `Handle` of a refund to the desk's
recording and each answer to what the client is told.

**StreamingRedactor_proofs.** `RedactorInv` says that there is a place `at` in what has
arrived up to which the pieces sent cover the text (`Covers`: each begins behind the one before,
the first at 1, the last ends at `at`), and that the buffer is the run of characters behind it.
That every step keeps it is a statement about the loops of `scan` and `finditer`, which are
recursive functions over the places of a text. It takes an induction, by the lemmas of `Loops`: what
`Matches` returns are stretches of the text one behind the other (`MatchesApart`), and after
every turn of its loop `scan` has covered what is before its cursor (`ScanCovers`); `RedactCovers`
and the cutting of runs (`RunParts`, `RunsJoin`) give the step of `process`
(`ProcessSplits`). Of the patterns
nothing is used but that a match is a stretch of the text: the result holds for any patterns.
`CarryBounded` and `NothingIsLost` follow; the bound of the carry is the last cut of `process`,
which the proof uses where the runs show that the look-back never leaves it anything to do.

`SecretsAreHidden` needs the patterns. `SecretInv` adds for each match `m` that counts
(`Guarded`: it is replaced in the whole text, fits the window, is `Alone` and `Plain`) that
no secret character of it was sent and that what is held begins before `m` or behind all its
secret characters (`Withheld`). The scanner never sees the text, only a part of it (`Part`)
that begins anywhere before `m` and ends where the last chunk does. What it finds there is
compared with what it would find in the whole:

* No match of the part begins before `m` and reaches it (`NoneBefore`), since what could
  do so would be a partial match up to the first character of `m`, and `m` is `Alone`.
* If the part holds `m` and more, the same kind of match begins there, which holds all
  its secret characters (`WholeInside`, `SecretInside`), and is replaced. For cards this takes
  counting: the digits between two places (`CountMore`, `CountInPart`), that between two digits
  there is at most one separator, so that a card is less than twice as long as its number
  of digits (`CountLength`), and that a social security number has too few for a card
  (`SsnFew`). `SRAssumption` says so of the sizes, and that the window has room for the longest number.
* If the part ends in `m`, or in a match that begins with it, nothing behind its first
  character is replaced (`NoneInside`, because `m` is `Plain`), and what has come of it is a
  partial match (`MayGrow`, by `EmailPartial` and `GroupedPartial`).

`GuardedScan` puts these together for the set of all matches of the part. Which of them
`finditer` returns is an induction over the places (`MatchesPicked`), and what `scan` makes of
them one over its turns (`ScanHides`, on top of `ScanUnrolls`). In the second case
`partial_match_start` cuts before `m` (`PartialStartHolds`) and `process` keeps it
(`ProcessHides`); `flush` has no second case (`FlushHides`).

**Retrieval_proofs.** Two loops of pure code and three that follow each other in a request.

`ChunksHoldText` is an induction over the spans (`SpansKept`). Its invariant `Cut` says what
`chunk_text` has done after some of them: the chunks and what is being put together fit the size
and are not empty, every span so far is *housed* in one of them in one piece, the spans' first
homes are in the order of the spans, and what is being put together holds the last span. The step
(`AccumulateKeeps`) has three cases - the span is joined to what there is, it begins a chunk with
the overlap, it begins one without - and the overlap is the hard one: the tail of a chunk
is stripped of white space on its left, and the span must still stand at its end
(`RestartedHolds`). That the first homes are in order needs that a span is found in no earlier
chunk than the one before it; that is so since its first character is in none but where the
loop has put it or a later one (`NewFirst`), which needs that no character is in two spans
(`SpansHold`: paragraph by paragraph, sentence by sentence, piece by piece). Last, every
character of every sentence is in a span (`SpansHave`), which is the division with remainder of
`HardSplit`.

`Inv` is the invariant of a question. `Found` says what the store returns (`SearchHolds`: rows in
scope, each once; `Best` exists because finitely many integers have a greatest one). `Chosen` is
the invariant of the retriever's turns (`TakeKeeps`): the hits taken are among those seen, each
once, they repeat a document only while fewer than half are taken, there are at most
`effective_k`, and each that was passed over was noise, or its document is there, or there are
enough, or it did not fit *then*; since the budget only shrinks (`SizeAppend`) it does not fit at
the end either. `SelectionIsBroad` follows (`ChosenBroad`). `BlockHolds` says of the prompt that
it is a beginning of the hits within the budget, and `CitedIsShown` follows from it and from
the fact that a chunk names itself; `NamedIn` may be any relation.

`Retrieval` assumes of its constants (`RVAssumption`) that the documents are finitely many,
that they are texts, and that scores, `Growth` and `top_k` are integers; `Growth` may be negative, as
a marker may be longer than what replaces it. `Chunking` assumes what `chunk_text` raises a
ValueError for (`CKAssumption`).

**Loops.** What all these inductions share: `Least` (a set of natural numbers has a least
member), `UpTo` (induction over an interval, from a least wrong place), `Recursion` (a function
that makes each value from the one before it exists and stays among the good ones), `Largest`
and `Lowest` for `Max` and `Min`, and what `FlattenSeq` of the community modules holds, and in
which order.

**What the proofs changed in the model.** A proof of the stdio server's types did not go
through because two arms of the CASE in `Dispatch` overlapped, and TLA+ leaves open which of
them is taken where TLC takes the first. It is now a chain of conditions in the order of the
code's checks. `KSAssumption` and `CCAssumption` state what the
models took for granted of `Uploads` and of the codes that a provider may raise. `Matches` and
`scan` went from end to end of the matches with operators of the community modules; they are now
the loops that the code has, and equal to what they were on all texts of the run. So are those of
`Chunking` and `Retrieval`. `KeepsText` used to ask for the spans only, which would hold of a
`chunk_text` that makes no spans of a paragraph; it now asks for every character of every sentence as
well. `SourcesAreShown` now has the budget of the neutralised text in it, which is what
`build_context_block` is for, and assumes nothing of what passages mention. `SecretsHidden` was stated with a smaller exception, and
passed since no text of the instance had a match to show it. The attempt to prove it
for any sizes failed where an address or a card has a number in it; the addresses and the card
of section 4 are the counterexamples that the failed steps gave. The property now names the
exceptions (`Alone`, `Plain`), the instance has room for them and keeps the proportions of
the code's patterns, and `SRAssumption` says which these are.

**Only model-checked.** Liveness (`EveryTransactionEnds`, `FirstTokenDeadline`,
`UpstreamReleased`, `RequestEnds`, `StreamSettled`, `EverySearchEnds`,
`ForwardedCallEnds`): fairness and ENABLED are out of the prover's reach.
The proofs of refinements and of `ChatInv` use no fairness, and say nothing of it.

## 6. Not modelled, and the plan

Of the plan there is left: the histogram's quantile, and the parsing of Ollama's lines as a
provider that implements what `ModelRouter` expects of one.

Not modelled, for good: `embeddings.py` (floating point; a score is any number, a
vector that cannot be had is a failure), schemas, logging, `__main__` modules, the two
probes and the rendering of frames and metrics (data and wording), configuration
(its ranges are assumptions on the constants), the readers `used_tokens` and
`event_count`, which change nothing, and the start of the gateway (`lifespan`), which
is over before the first request. `scripts/` are drivers of what is modelled.
