# Kitabim AI: TLA+ models and proofs

Kitabim AI turns scanned Uyghur books into searchable text. A book goes through
OCR, an optional spell check, chunking and embedding, page by page, driven by
cron scanners and queued jobs of a worker; a FastAPI backend serves readers and
editors; a desktop client recognises books on its own and pushes them. What is
hard in this code is not any one handler. It is that many short transactions, a
bucket, two redis protocols, two graph stores and a queue that loses and repeats
messages must together get every page through every step, and keep what people
wrote.

TLC checks the modules here on small instances. TLAPS proves all of the safety
properties but one for every instance.

Paths are relative to the repository; `worker/` is `services/worker/`, `core/` is
`packages/backend-core/app/`, `api/` is `services/backend/api/endpoints/` and
`ocr/` is `clients/kitabim-ocr/`. Inside tables the extension `.py` is left out.

## Inventory of the system

| Component | State | Operations | Hard because | Modelled |
|---|---|---|---|---|
| Milestones (`core/core/pipeline`, `core/services/book_milestone_service`) | per page and per book, one value for each step | roll-up of pages into the book | denormalised: a forgotten or late roll-up hides work | `Milestones` |
| Scanners (`worker/scanners/{ocr,chunking,embedding,spell_check}_scanner`) | none of their own | claim idle pages, roll up, commit, queue a job | race with each other and the dispatcher; crash between commit and queue | `PagePipeline` |
| Outbox and dispatcher (`worker/scanners/event_dispatcher`) | `pipeline_events.processed` | claim from events, queue two jobs | crash after commit; events older than the page | `PagePipeline` |
| Page jobs (`worker/jobs/{ocr,chunking,embedding,spell_check}_job`) | rows read at the start | lock, load, work, roll up, release | stale rows, failing pages, repeated delivery | `PagePipeline`, `PageContent` |
| Page locks (`core/utils/redis_lock`) | redis keys with token and expiry | acquire, release | expire under a running job; outlive a dead one | `PagePipeline`, `PageOwnership` |
| Pipeline driver (`worker/scanners/pipeline_driver`) | `retry_count`, `books.status` | initialise, reset failed steps, settle books | stops looking at settled books | `PagePipeline`, `DerivedJobs` |
| Watchdog (`worker/scanners/stale_watchdog_scanner`) | `claimed_at`, worker heartbeats | reset stale pages | takes slow jobs for dead ones | `PagePipeline`, `GeminiBatches`, `LlmSpellCheck`, `DerivedJobs` |
| Worker and ARQ (`worker/worker`, `core/queue`) | job slots, ids, results | deliver, deliver again, give up | crash, cancellation, refused duplicates | partly, in the same modules |
| Text, chunks, vectors (`pages.text`, `chunks`) | rows written by jobs, corrections, editors | store, upsert, embed, correct | each works from a copy it read earlier | partly: `PageContent` |
| Auto-correction, spell issues (`core/services/auto_correct_service`, `spell_check_service`) | issues by offset, rules | claim, apply, revert | offsets and texts go stale | `SpellIssues`, `PagePipeline` |
| Administration of books (`api/books_router`) | the same rows | reprocess, reset, retry, edit | takes no locks, races with everything above | partly: `BookAdmin` |
| Gemini batches (`core/services/batch_{ocr,embedding}_service`) | batch rows, remote batches | submit, poll, time out, ingest | remote state before its row; late results; overlapping polls | `GeminiBatches` |
| LLM spell check (`core/services/*llm_spell_check_service`) | status, `last_updated` | request, batch, apply | answers a day later | `LlmSpellCheck` |
| Circuit breaker (`core/utils/circuit_breaker`, `core/llm/models`) | a redis hash per class of call | admit, report, reset, force open | answers come late, or never | `CircuitBreaker` |
| Summaries, graph jobs (`worker/jobs/{summary,knowledge_graph}_job`, `worker/scanners/summary_scanner`) | fixed job ids, Neo4j | queue, extract, sweep | a refused duplicate; a global sweep | `DerivedJobs` |
| Entity resolution and graph (`worker/jobs/graph_resolution_job`, `core/db/repositories/graph_repository`) | queue rows, edges, log, reviews | claim, merge, split, unmerge | no transaction spans the stores | partly: `GraphResolution`, `EntityGraph` |
| History (`core/services/history_extraction_service`, `dictionary_staging_service`) | candidates, entries | merge, approve, resolve | a model is asked between read and write | `HistoryStaging` |
| Upload, deletion, discovery (`api/books_router`, `worker/scanners/gcs_discovery_scanner`) | bucket and rows | move, insert, delete | file and row cannot be written together | `BookStorage`; upload partly |
| Pages of a DOCX (`core/services/docx_service`) | none | breaks, footnotes, blocks | page in the middle of a paragraph | `DocxPages` |
| Chunking (`core/services/chunking_service`) | none | parse, pack, split, overlap | lengths at their limits | `Chunking` |
| Lists (`core/services/cache_service`) | versioned keys | read, store, bump | a list read before and stored after a change | `ListCache` |
| Cached rows (`services/backend/auth/dependencies`, `core/utils/lru_cache`) | two levels of cache | read, invalidate, announce | one copy renews the other | `CachedReads` |
| Chat turns (`api/chat_router`, `core/services/chat_limit_service`) | two counters, messages | check, answer, save, count | no transaction over redis and rows | partly: `ChatTurn` |
| Retrieval (`core/services/rag/retrieval`, `rag/agent/tools`) | shared cache of results | search, clamp, widen | ids come from a language model | partly: `RetrievalScope` |
| Desktop OCR (`ocr/engine/queue`, `ocr/preview/{app_server,server}`) | sessions on disk and in memory | run, review, redo, restart | copies of a session that save all of it | partly: `DesktopOcr`, `OcrThreads` |
| Push of the client (`ocr/preview/server`, `ocr/kitabim_client/api`) | `book_id`, `uploaded` | send page by page, mark | lost requests and answers | `ClientPush` |
| Rate limiter, refresh tokens, maintenance, web frontend | | | | not modelled, see below |

### How the components interact

```
 desktop client --push--> upload --> bucket, books, pages <---- discovery of dropped files
                                      ^   |   ^
 administrators, corrections, edits --+   |   +-- roll-ups, driver, watchdog
                                          v
        claims (idle -> in_progress): scanners, dispatcher --queue--> ARQ --> jobs
                                          ^                                    |
                                          +---- pipeline_events <--------------+
                                                  redis locks, LLM calls through the breaker,
                                                  Gemini batches that pollers ingest
 ready books --> summaries, knowledge graph, history --> reviews by administrators
 readers     --> chat limit, retrieval, cached lists and rows
```

What makes each correct:

- claims: a page belongs to one job at a time, and every claim ends;
- jobs: no page is worked twice at once, no job touches the lock of another;
- driver: failed pages are retried as often as allowed, every book is settled,
  and what it says of a book is true;
- index: a page marked as embedded is embedded from its present text, through
  corrections, edits and requests; no text is lost from file to chunk;
- roll-up: the book never hides a page that needs work from the OCR scanner;
- batches: a page is in one batch, is paid for a bounded number of times, and is
  marked done only with its result;
- breaker: budget and capacity are respected under late answers, and an outage ends;
- graph and history: what is called complete is whole, merges lose neither facts nor
  questions, committed facts are not lost, the published entry has no conflict;
- people: what they wrote, dropped or corrected is not undone by a machine; they are
  refused, answered and shown only what the rules say;
- bucket: a book has its file, a file is not deleted under its book.

## Modules

| Module | Models | Proofs in |
|---|---|---|
| `Milestones` | milestone values, the roll-up | `Milestones_proofs` |
| `PagePipeline` (extends `Milestones`) | scanners, dispatcher, jobs, locks, driver, watchdog, auto-correction, ARQ | `PagePipeline_proofs`, `PipelineClaims_proofs` |
| `PageOwnership` | abstract: who holds an item of work, and its outcome | |
| `PipelineOwnership` (extends `PagePipeline`) | the refinement mapping to `PageOwnership` | `PipelineOwnership_proofs` |
| `PageContent` (extends `PagePipeline`) | versions of text, chunks and vectors: each of its steps is a step of the pipeline with what that step does to the content | `PageContent_proofs` |
| `BookAdmin` (extends `PageContent`) | requests of administrators and editors; roll-ups in two steps | `PageContent_proofs` |
| `GeminiBatches` (extends `Milestones`) | batch OCR and batch embeddings | `GeminiBatches_proofs` |
| `CircuitBreaker`, `DerivedJobs` | the breaker; summaries and graph jobs | `Services_proofs` |
| `GraphResolution` | the queue of entities, their merges | `Services_proofs` |
| `EntityGraph` | edges, log and reviews under merges, splits, unmerges | `Editors_proofs` |
| `SpellIssues` | issues, rules, corrections of the dictionary check | `Services_proofs` |
| `LlmSpellCheck`, `ChatTurn`, `RetrievalScope` | as in the inventory | `Services_proofs` |
| `HistoryStaging`, `BookStorage`, `ClientPush` | as in the inventory | `Editors_proofs` |
| `ListCache`, `CachedReads`, `Caches` | the two caches; what they promise together | `Editors_proofs` |
| `DesktopOcr`, `OcrThreads`, `Client` | sessions and queue of the desktop client; its threads; what they promise together | `Editors_proofs` |
| `Chunking`, `DocxPages` | pages of a DOCX, chunks of a page | |
| `MCPagePipeline`, `MCPageContent`, `MCGeminiBatches`, `MCCircuitBreaker` | instances for TLC | |
| `MCServices`, `MCBookAdmin` | instances for TLC of several parts without shared state: the initial state chooses the part, and the others stand still | |

`Services_proofs` and `Editors_proofs` hold the proofs of the parts `MCServices` and
`MCBookAdmin` explore, but for the requests of administrators, whose proofs are in
`PageContent_proofs`. `PROJECT.json` gives for every definition the lines of the source
it stands for. Operators commented with "Fault:" are deliberate mistakes, each
a version of the operator that follows it; no specification uses them, they show
that a property notices them.

Variables are commented where they are declared, in each module. Those called
history record what no code stores; they only serve the properties, mostly to name
the window a property leaves out. The tables below say how the rest corresponds to
the code.

### PagePipeline: state

| Variable | Code |
|---|---|
| `ms[p][s]` | `Page.<s>_milestone` |
| `retry[p]` | `Page.retry_count`, saturated at `MaxRetries`, the only value it is compared with |
| `fresh` | pages with `pipeline_step IS NULL`: the driver zeroes their `retry_count` when it first meets them idle at OCR |
| `bms[b][s]` | `Book.<s>_milestone` |
| `status[b]` | `Book.status`; `"pending"` stands for every value except `ready` and `error` |
| `events` | unprocessed rows of `pipeline_events`, only the types the dispatcher acts on |
| `checked` | pages with spell issues, which auto-correction may change |
| `job[j]` | a job of ARQ: `queued` (in redis, or taking locks), `locked`, `working`, `releasing`, `dead` (its worker was killed) or a free slot; `args` the pages it was given, `taken` those it locked, `todo` what is left, `seen` the retry counts it read |
| `lock[s][p]` | redis key `lock:<s>:<p>`; the token is the job |
| `faults`, `rewrites` | bounds, see below |

### PagePipeline: actions

| Action | Code |
|---|---|
| `OcrScan`, `ChunkingScan`, `EmbeddingScan`, `SpellCheckScan` | the scanners: pages chosen, flipped and rolled up in one transaction (`Claim`), then queued; or lost by a crash before `enqueue_job` |
| `EventDispatcher` | a batch of events: conditional claims for chunking and embedding, events marked processed, then the two jobs in order |
| `JobTryLock`, `JobLockError` | `MultiPageLock.__aenter__`, one key at a time; a job that got none returns |
| `JobLoad` | worker id, settings, rows |
| `PageSucceeds`, `PageFails`, `OcrPageFails`, `SpellCheckRewrites` | one page in a transaction of its own |
| `PdfFails` | the OCR job without its PDF |
| `JobFinish`, `JobRelease` | roll-up, then the locks |
| `JobRaises`, `JobCancelled`, `WorkerCrash`, `LockExpires`, `Redeliver`, `GiveUp` | exceptions and timeouts, shutdown, killed processes, redis expiry, ARQ redelivery and its end |
| `StaleWatchdog` | reset and roll-up of pages taken for stale |
| `PipelineDriver` | initialise, reset, settle: one transaction |
| `AutoCorrectPage`, `AutoCorrectEnds` | a corrected page, and the roll-up at the end of the job |

A claim takes any non-empty set of the pages that qualify: this stands for the
limits of the queries, for their order and for rows skipped because another
transaction holds them. Which worker runs a job, and the clock, are abstracted:
a page whose job is gone becomes stale in time, and one whose job is only slow,
or still queued, may become stale as well (a fault).

### PageContent and BookAdmin

`text[p]` counts the texts a page has had; `chunks[p]` and `vectors[p]` are the text
they come from, 0 when there is none; `copy[j][p]` is what a job has read and not yet
used. `LoadsPages`, `StoresText`, `UpsertsChunks` (the upsert clears the vectors),
`SelectsChunks`, `StoresVectors` and `Corrects` are what the actions of the pipeline
do to them. `rushed` is history: pages corrected while they were being indexed. A
page stands for one chunk.

`BookAdmin` adds the requests: reprocessing from a step, the bulk reset, the retry of
failed OCR pages, the reset of a page, the edit of its text (`edit`: text and chunks
are committed, the vectors follow), the table of contents, publication, PUT of
pages. A request is one step, except where it commits in between. The roll-up at the
end of a job is split into its counts and its writes (`tally`), so that requests fall
in between. History: `caught`, `reread`, `raced`.

### The other modules

| Module | State and actions |
|---|---|
| `PageOwnership` | `held`, `outcome`; `Take`, `Settle`, `Drop`, `Reopen` |
| `GeminiBatches` | rows, remote batches and answers, what submitters (`sub`) and pollers (`seen`) hold; claim, slice, `CreateRemote`, row, poll, output, ingestion, roll-up (`roll`, in two steps), watchdog. History: `sent`, `silent`, `late` |
| `CircuitBreaker` | fields of the hash, `elapsed` and `cooling` for the clock, `call[c]`; each Lua script an action part; calls end by success, failure, first chunk of a stream, or unreported. History: `probe` |
| `DerivedJobs` | jobs with an id per book (`sjob`, `kjob`) that redis refuses while they are queued, running or their result is kept; what the extraction found (`mined`), what of it is in Neo4j (`present`) and whether its edges are (`linked`). History: `spoilt`, `swept` |
| `GraphResolution` | entities, queue rows, the job of the scope, merges in progress, each step of `merge_entities` in its store. History: `stranded`, `crossed` |
| `EntityGraph` | nodes and edges with `chunk_refs`, the log of merges, reviews; merges, unmerges and splits step by step (each request to Neo4j is its own transaction) and broken off between any two, deletions. History: `spent`, `adrift`, `entangled` |
| `SpellIssues` | a page is `Slots` words; issues point by offset and carry the edition that gives their id; the job with its row lock, requests of editors, spell checks, the scanner |
| `LlmSpellCheck` | status and text of pages, rows of batches with the texts they sent, `newer` for the comparison of `last_updated` with `submitted_at`. History: `exposed` |
| `HistoryStaging` | one term: the entry, candidates with facts, ingestion, approval and a request about one fact (`resolving`) with what they have read. History: `staged`, `settled`, `crossed` |
| `BookStorage` | paths of the bucket and rows of books; uploads, the scan and deletions, step by step, each cut off anywhere. History: `wanted`, `misled`, `torn` |
| `ClientPush` | texts on disk and on the server, `book_id`, `uploaded`, the push. History: `sent`, `taken` |
| `ChatTurn` | what a request does, messages, evaluation, the count in Postgres and in redis. History: `countedTwice` |
| `RetrievalScope` | question, evidence, the shared cache of results; calls of the tools. `Production` is the setting that leaves out the match of words |
| `ListCache`, `CachedReads` | the version, lists stored under versions; copies in redis and in processes with the ticks they have left. History: `lapsed`, `since` |
| `DesktopOcr`, `OcrThreads` | sessions on disk, instances in memory, the queue, the run, requests that load or change a session, what is left of a job that broke off; executors, calls and their attempts. History: `said`, `doubled`, `misread` |
| `Chunking`, `DocxPages` | `split_text` and `extract_docx_pages` as functions of a page or a document that grows block by block, run by run |

## Runs

| Run | Properties | Instance | Time |
|---|---|---|---|
| `pipeline_crash` | `TypeOK` `MutualExclusion` `IdleOcrPageIsVisible` `OwnershipSpec` | 1 page, 4 steps, 2 jobs, 1 fault, 1 text change; chunking and spell check may fail | 200 s |
| `pipeline_batch` | `ClaimedByOneJob` `SettledBookIsTruthful` `RetryNeverDrops` | a book of 2 pages, 2 jobs, every step may fail, no fault | 90 s |
| `pipeline_live` | `OnlyOwnLocks` `ClaimEnds` `BookSettles` `FailedStepIsRetried` | 1 page, 2 jobs, 1 fault, jobs may outlive locks; chunking may fail | 145 s |
| `content` | `EmbeddedPageIsCurrent` `ChunksNeverGoBack` `CorrectionIsIndexed` | 1 page, 2 jobs, 1 correction; chunking and embedding may fail | 45 s |
| `batches` | `BatchOwnsItsPages` `SpendIsBounded` `DoneIsWhole` `CompleteIsTrue` `ClaimIsReleased` | 1 page, 2 rows, 1 submitter, 2 pollers, 1 fault | 110 s |
| `services` | `BreakerIsSound` `ResolutionIsSound` `GraphIsWhole` `HalfOpenResolves` `QueueMoves` `SummaryArrives` `RuleIsApplied` | six parts: breaker (3 callers, threshold 2, 2 probes, cooling), desktop queue (2 sessions of 2 pages, 1 restart), resolution (2 alike entities, 1 administrator), summary and graph (2 books, 1 fault), issues (2 words, 1 job, 1 change of rules) | 50 s |
| `editors` | `AdminIndexIsCurrent` `ResetPageIsSeen` `EditSurvives` `ClientIsSound` `JobKeepsCorrections` `RefusalIsDeserved` `EvidenceIsInScope` `CachesAreFresh` `EntryHasNoConflict` `StagedFactIsKept` `ContentIsKept` `PushedTextIsThere` `TextIsWhole` `MergesAreSound` | fifteen parts, see `Editors.cfg` | 180 s |
| `ocr_retry` | `FailedStepIsRetried` **violated** | 1 page, 1 job | |
| `index_corrected` | `IndexIsCurrent` **violated** | 1 page, 2 jobs, a correction, no fault | |
| `index_redelivered` | `IndexIsCurrent` **violated** | 1 page, 2 jobs, 1 fault, no correction | |
| `breaker_leak` | `HalfOpenRecovers` **violated** | 2 callers, 1 probe | |
| `retry_skipped` | `RetriedPageIsIndexed` **violated** | the admin part, OCR may fail | |

Each property is stated in words above its definition. Deadlock is not checked: a
settled pipeline has nothing to do, finished parts stop, and a breaker whose probes
have leaked refuses everybody.

### What the violations show

1. `ocr_retry`. The driver resets failed pages but does not roll the book up. If
   all pages of a book failed OCR, `books.ocr_milestone` is `failed`, which the
   OCR scanner does not select: the pages are idle for ever. The design document
   says the owning scanner retries them.
2. `index_corrected`. A correction sends its page back to chunking. A chunking job
   that has already read the old text splits it and marks the page as chunked
   without looking: the correction is overwritten in the milestones, and the
   index keeps the old text for good. `EmbeddedPageIsCurrent` and
   `CorrectionIsIndexed` say that a correction that finds the page at rest is
   safe: `rushed` is exactly what they leave out.
3. `index_redelivered`. A chunking job that is cancelled at shutdown runs again.
   The upsert clears the vectors of pages that were embedded meanwhile and leaves
   `embedding_milestone` at succeeded, so nothing embeds them again.
4. `breaker_leak`. A half-open probe that ends in an ignored error (429, 503, 504)
   or is cancelled never comes off `in_flight`; once the capacity is used up the
   breaker refuses every call until someone resets it.
5. `retry_skipped`. A page whose OCR was given up has an empty text that the later
   steps "succeeded" on. An administrator who retries it resets its OCR only: the
   text it gets at last is never chunked and is in no index.

### Bounds

- `MaxRetries` 2: the smallest value with a failure that is retried, one that
  exhausts the budget, and an OCR page that is skipped.
- `JobId`: 2 slots, the fewest for two jobs to meet at a page. With 2 slots the
  dispatcher can still queue both its jobs. The admin part has 1 and meets it with
  up to 2 requests.
- `MaxFaults` 1: one crash, lost message, redis error, cancellation or spurious
  reset at any moment. `WorkerCrash` kills any set of running jobs as one fault.
- `MaxRewrites` 1: one text change at any moment: enough for one text to be
  outdated while it is split, embedded or stored.
- Pages: 2 where pages influence each other (roll-up, settling, batches of a job), 1
  where all that matters is the interleaving on a page.
- `FailableStep` leaves OCR out in the runs with faults. With it
  `IdleOcrPageIsVisible` and `FailedStepIsRetried` fail (finding 1); `ocr_retry`
  and `pipeline_batch` have it.
- Breaker: `failures` is saturated at the threshold; 3 callers and 2 probes let one
  caller wait from an earlier phase while the capacity is used up.
- Batches: two rows and two pollers let a page be claimed again while an output of
  its first batch is ingested twice.
- The desktop client has one uploaded session of two pages in `editors`, with five names
  for its copies and room for two requests or leftovers of jobs, and two sessions in
  `services`, where they queue. What needs three the run does not reach;
  `ClientStaysSound` covers any number. The desktop part of `editors` stops at a session
  in `doubled` and the graph part when it is `entangled`: nothing is said of what follows.
- `EntityGraph`: two administrators and one resolver, three operations (202,674 states).
- Parts of `editors` and `services`: two actors of each kind that can meet at the one
  page, book, term, entity or row the part is about, one fault, and the lengths at
  which `Chunking` and `DocxPages` branch (below, at and above every limit).

Symmetry is used only in runs without liveness: jobs in `pipeline_crash`, jobs and pages
in `pipeline_batch`. Larger instances of most parts were run by hand to the end without
a violation: the pipeline with spell check and a rewrite on two pages (7.3 million
states) or with a fault (2.4), batches with two pages and two submitters (20),
`ListCache` with two editions, `CachedReads` with two processes, `BookStorage` with
three ids or two drops, `HistoryStaging` with two administrators (0.7), `Chunking` with
five blocks, `EntityGraph` with four operations of one administrator (1.7), `OcrThreads`
with four calls.

### Fairness

- Pipeline: weak fairness for each scanner, the dispatcher, the driver: ARQ starts
  them every minute (`worker/worker.py:84-109`) and `safe_cron_job` keeps an
  exception in one from stopping them. Nothing is assumed about which pages a
  scanner takes. Weak fairness for the steps of each job: a coroutine that can run
  does run, and each call it makes has a timeout. Weak fairness for redelivery, for
  the expiry of keys, and for the watchdog (every half hour) on pages that no live
  job attends. `PageContent` has the same, without that of faults it does not have.
- Batches: submitters, pollers and roll-ups go on (cron), rows age, the watchdog looks
  at each page.
- Services: every call of the breaker ends (it has a timeout), time passes, and there
  is always a caller that tries again; the OCR job of the client goes on; the scanner
  of issues, its jobs and the age of claims; the steps of the summary job and its
  scanner, per book. As only one part of the run moves, a condition that joins steps
  of two parts is that of each.
- `editors`: none, all its properties are safety.
- Never for faults, failures of a page, text changes, requests or spurious resets.

## Proofs

`tlapm` checks every theorem with no assumption other than those the modules name
(`ASSUME`): bounds are natural numbers, sets that are counted are finite, model
values that mean "nothing" are none of the others, a capacity is at least 1, the model
has more names for copies of a session than there are holders of one, and the first edges
of the graph are between known entities, one for a key (`connect_entities_bulk` merges
them so). TLC evaluates each assumption in a run. Everything else, the number of books, pages,
jobs, faults, requests, batches, readers, is arbitrary.

| Module | Theorems | State the property |
|---|---|---|
| `Milestones_proofs` | `CompleteMeansAllSucceeded`, `FailedMeansAllFailed` | what two milestones of a book say about its pages |
| `PagePipeline_proofs` | `TypeCorrect`, `NoPageIsWorkedTwice`, `JobsKeepOthersLocks`, `PipelineInvariant`, `IdleOcrPagesAreSeen` | `TypeOK`, `MutualExclusion`, `OnlyOwnLocks`, `IdleOcrPageIsVisible` |
| `PipelineClaims_proofs` | `ClaimsAreExclusive`, `SettledBooksTellTheTruth`, `RetriesAreKept` | `ClaimedByOneJob`, `SettledBookIsTruthful`, `RetryNeverDrops` |
| `PipelineOwnership_proofs` | `JobsOwnTheirPages` | `OwnershipSpec` |
| `PageContent_proofs` | `ContentRefinesPipeline`, `ContentInvariant`, `ChunksAreOrdered`, `IndexingIsInOrder`, `EmbeddedPagesAreCurrent`, `ResetPagesAreSeen`, `AdminIndexesAreCurrent` | `Spec`, `ChunksNeverGoBack`, `EmbeddedPageIsCurrent`, `ResetPageIsSeen`, `AdminIndexIsCurrent` |
| `GeminiBatches_proofs` | `BatchTypesHold`, `BatchesOwnTheirPages`, `SpendingIsBounded`, `DonePagesAreWhole`, `CompleteBooksAreComplete` | `BatchOwnsItsPages`, `SpendIsBounded`, `DoneIsWhole`, `CompleteIsTrue` |
| `Services_proofs` | `BreakerIsAlwaysSound` and its two halves, `CompleteGraphsAreWhole`, `ResolutionStaysSound`, `CorrectionsAreKept`, `EditsSurvive`, `AnswersStayInScope`, `RefusalsAreDeserved` | `BreakerIsSound`, `GraphIsWhole`, `ResolutionIsSound`, `JobKeepsCorrections`, `EditSurvives`, `EvidenceIsInScope`, `RefusalIsDeserved` |
| `Editors_proofs` | `EntryNeverContradicts`, `StagedFactsAreKept`, `SentTextsArrive`, `ContentsAreKept`, `SessionsStaySound`, `PagesAlwaysGetTheirChance`, `ClientStaysSound`, `CachesAreAlwaysFresh`, `MergesStaySound` | `EntryHasNoConflict`, `StagedFactIsKept`, `PushedTextIsThere`, `ContentIsKept`, `ClientIsSound`, `CachesAreFresh`, `MergesAreSound` |

### Page pipeline

`MutualExclusion` is not inductive: it speaks of two jobs and says nothing about
why a third could not join. The strengthening is `TakenIsLocked`: every page a job
has taken carries the lock of that job, and a dead job has taken nothing (its
pages are free for others, its locks are not). Two jobs that hold a page would
hold one key. `LockExpires` disturbs this unless the owner is dead, which is where
`~JobsMayOutliveLocks` is used. `JobsKeepOthersLocks` needs types only.
`JobsOwnTheirPages` uses the same invariant: each action of the pipeline is a
`Take`, `Settle`, `Drop` or `Reopen` of `PageOwnership` or leaves it alone.

`IdleOcrPageIsVisible` rests on `OcrMilestoneIsEarned`: no OCR milestone of a book
says `complete` unless all its pages succeeded, and none says `failed`. Nothing in
the pipeline takes a succeeded OCR page back, so a stale roll-up can only be too
low. The premise `"ocr" \notin FailableStep` cannot be dropped: finding 1.

`QuietInv` (in `PagePipeline`) is what holds until something crashes or a text
changes. `WorkIsClaimed`: whatever a job has been given or an event will hand on is
in progress, and with one owner only; so a claim, which takes idle pages, finds no
owner. `OcrGoesFirst`: no later step has begun on a page whose OCR is not done, so a
settled book stays settled. `SeenIsCurrent`: the retry count an OCR job has read is
no smaller than the stored one, because nobody else writes it while the job owns the
page.

### Content and administration

`ChunksNeverGoBack` speaks of one upsert, but why it holds is a chain: the job has
read the text under the lock of the page (`CopiesAreOrdered`), so its copy is at
least as new as the chunks; when another job upserts, that job holds the lock, so
by `TakenIsLocked` nobody else has the page left to do; and a new text only raises
the upper bound. `TypeOK` and `TakenIsLocked` come from `PipelineInvariant` through
`ContentRefinesPipeline`.

`IndexingInv` says of a page that was not rushed (`InOrder`): at most one owner for
each indexing step; the steps succeed in order; a chunking job at work holds the
present text, and an embedding job the present chunks or nothing.

`AdminIndexInv` carries this over to requests, for pages that were neither upset
(`rushed`, `caught`) nor sent back to OCR alone (`reread`). `BehindOcr`: the steps
behind a page in OCR have no owner. A request may send back or edit a quiet page
because it has no owner and no event (`Obeys`: a job works on nothing but its
arguments). `EditFits`: an edit that waits for its vectors has stored the chunks of
the text it wrote, and a change of the text meanwhile is what `caught` records.

`ResetPageIsSeen` is about the split roll-up: a job counts pages, a request sends a
page back, the job writes what it counted. `HonestBooks` says that the OCR milestone
of a book that was not raced never says complete or failed over a waiting page, and
that a counted value is one the book would have earned when it was counted. As in
`IdleOcrPageIsVisible`, `"ocr" \notin FailableStep` is a premise; the proof attempt
showed that the property needs it.

### Batches and services

`BatchInv == BatchTypeOK /\ (late \/ (OwnInv /\ SpendInv /\ CompleteInv))`: until a
poll outlives its minute, or a claim its half hour, pages of open rows are in progress
and in no other open row or hand (`OwnInv`), every remote batch a page was part of is
paid for by a retry or a fault (`SpendInv`), and counted roll-ups are no higher than the
truth (`CompleteInv`). `DoneInv` needs no such excuse: a page is marked done only in
the step that writes its result, or when its retries are used up.

`BreakerIsAlwaysSound`: a closed breaker's `failures` are below the threshold, and
`in_flight` counts at least the probes that wait and at most the capacity; the cases
are the parts of `AllowCall` and the outcomes of a call. `GraphInv`: what a graph job
has passed in its own order is in the stores, but for what is `swept`, unless the book is
`spoilt`; related entities that are still there have their edges; and a complete book has
no job that could still take something back.

`RowInv`: a claimed row is handed on, on the list of the job, or `stranded`, and a job
that does not run has nothing left to do. `AbsorbInv` carries the harder half of
`ResolutionIsSound`, that what was merged lives on: while no entity was in hand twice
(`crossed`), merges hold disjoint pairs, and the one that is kept is alive when the other
is deleted. Where an entity ended up is the end of a chain; `SurvivorLives` says the same
without recursion: no set of removed entities contains all that its members were merged
into, and on a finite set that means that every chain ends at a living entity. The proof
applies the old fact to such a set without the entity just removed.

### Editors and readers

- `StagingInv`, `KeepingInv`: at most one candidate waits; it has all facts of the entry
  it may replace; what a worker, an approval or a request about one fact has read is
  what is stored, or `crossed`; a merge forgets no text. Found on the way: a person can
  take over the entry while a merge is being computed.
- `StorageInv`: fresh ids name nothing, dead ids are never used again, a move copies
  before it deletes, and while a deletion removes a content that somebody still wants,
  there is another copy. The attempt found the third of the races `misled` excepts:
  the scanner deletes by path a file that has replaced the one it copied
  (`worker/scanners/gcs_discovery_scanner.py:97`).
- `SpellInv`: who is about to write a page has its last edit, or the page is
  `exposed`. Setting `last_updated` back, which a bulk update does, is harmless
  because every batch submitted since the request listed its pages has the same texts.
- `ListInv`: one version; lists and stores under the present version are no older than
  what was acknowledged, those under a request's version no older than its floor.
- `ReadInv`: an old shared entry has at most `Ttl - since` ticks left, an old local one at
  most `2 * Ttl - 1 - since`; old reads exist only in the tick of the change.
- `PushInv`: what a push has passed is on the server in that text or a later one.
- `ScopeInv`: a cached result is allowed for every question that has its key; what is
  matched by words is never cached.
- `ChatInv`: every unit of either count is paid for by a stored turn.
- `CorrectionInv`: a job of the dictionary check that has a page in hand has its row locked
  and a copy of its present text, so what it saves contains what is there.
- `ThreadsInv`: a call that waits has exactly one wanted task, on an executor that has as
  many threads as its batch is wide; the semaphore lets no more calls wait. So there is
  always a thread for a call, unless one is left over from an earlier attempt.
- `DesktopInv`: but for sessions in `doubled`, the copies of a session that somebody holds
  are one copy, and it has each review the file has to keep; what waits in the queue or runs
  is on disk; a page a reader has saved is none that the job, or a task it has left behind,
  is still to take.
- `GraphInv`, unless `entangled`: a merge, an unmerge or a split under way has its entities
  and the other ends of their edges to itself, and each fact of the entity that is to go was
  written down, then is on an edge of the one that stays, in what was between the two, in
  the hands of the unmerge that tore the edge, or `spent`; edges are between entities that
  are there and differ in their keys.

Two of these attempts found a hole in a property as it was first stated:

- `ReviewStays` did not hold with three sessions. `delete_session` empties the view and
  leaves the mark of the review by hand (`ocr/preview/app_server.py:3128-3148`). Later the
  running session can come into view without the mark being cleared (`2896-2918`); its next
  job takes that view for a review of another book and leaves it alone (`2936-2943`), so
  its own copy is a second one. `doubled` now includes that way.
- `MergesAreSound` did not hold with a merge that broke between its two writes to Neo4j
  (`core/db/repositories/graph_repository.py:622-673`): it leaves an edge and its
  redirected copy under one id, and a later request for that id, a deletion or the unmerge
  of another merge, takes both (`611-616`, `820-825`, `870-872`, `923-940`). `entangled` now
  includes requests for such an id.

### What is only model-checked

- Liveness: `ClaimEnds`, `BookSettles`, `FailedStepIsRetried`, `CorrectionIsIndexed`,
  `HalfOpenResolves`, `QueueMoves`, `SummaryArrives`, `RuleIsApplied`,
  `ClaimIsReleased`: the provers do not reason about fairness and `ENABLED`.
- `TextIsWhole`: `split_text` and `extract_docx_pages` are folds over the
  page; what they return for every input needs induction over data, which the provers
  cannot do.

Every other property of a passing run is stated by a theorem.

## Where the models stop

Abstractions:

- In `PagePipeline` a roll-up (count, then write) and the driver (select, then update)
  are one step each; `BookAdmin` and `GeminiBatches` split the roll-ups. Under READ
  COMMITTED a second transaction can commit between the driver's two.
- `OcrScan` reads the book's milestone and claims in one step; the code reads the
  books in an earlier transaction.
- An error of redis while locks are released, or a cancellation while they are
  taken, is covered only as the crash of the job (`WorkerCrash`).
- Known gaps the design documents describe are taken as they are: a failed
  step of a ready book is not retried (`GivenUp`), the loser of a page lock leaves
  the page to the watchdog, and the correction layers do not see each other's text.
- A DOCX starts with OCR complete; books uploaded with finished OCR look the same.
- `BookAdmin`: the identity map of the ORM, which can hold rows read before, is left out.
- `Chunking`: a block is one long word, so separators below the paragraph are not
  followed; headings and blanks inside a paragraph neither. A page of nothing
  but footnotes is outside `TextIsWhole`: there is no paragraph they could join.
- `DocxPages`: hyperlinks and tables, which the code does not read, and a second `w:t` in
  a run, of which it reads the first only.
- `EntityGraph`: `connect_entities_bulk` and `resolve_reviews_for_merge` are one step each,
  and so are the reading of the edges of a split and the making of its new entity.
- `RetrievalScope`: verses of the Quran, which a search may add for every reader, are of no
  book and are left out.
- Prompts, scores, layout, HTML, covers and catalogue data are in no module.

Not modelled: the LLM rate limiter (a fixed window; nothing depends on its state but a
refusal), refresh tokens (a refresh reads one row and does not rotate it), maintenance
(a nightly deletion by age of rows nobody reads), the web frontend (no state of its own).

### Windows the properties leave out

What a history variable excepts is a window of the code. They and what else was met
while modelling:

- Pages of running jobs: late results land on pages an administrator has reset
  (`caught`), on corrected pages (`rushed`); a stale roll-up can hide a reset page
  (`raced`). The bulk reset compares the milestones of books with `succeeded`, though they
  say `complete`, and so resets every book. An edit to an empty text leaves the old
  chunks. `last_updated` of the LLM spell check is the start of the transaction.
- Issues: offsets of remaining issues go stale after a correction (`spell_check_service`
  488) and such issues are claimed and reverted for ever; the page view and the
  endpoint of corrections write a text they read without the lock; switching
  auto-correction off leaves claimed issues processing.
- Batches: an overlapping poll (`late`) can undo what the first one ingested; a page an output
  does not mention is marked with nothing (`silent`).
- Entity resolution: a refused `enqueue_job` strands the claimed rows (`stranded`); two
  merges in opposite directions delete the survivor (`crossed`).
- Entity graph: merging an entity into itself deletes it with all its facts (`keep_id ==
  remove_id` is not checked); an unmerge restores the `chunk_refs` of its log, so facts
  the edge has absorbed since are lost (`spent`), cannot recreate an edge whose other
  end is gone, and when it breaks between the deletion of an edge and its creation
  (`graph_repository.py:870-898`) loses its facts (`spent`), while a retry meets the
  unique id of the entity it has restored; a split deletes by id; duplicates of a review
  make `scalar_one_or_none` raise after Neo4j was changed; a deletion leaves the reviews
  of its entities (`adrift`); a merge that breaks between its writes leaves two edges
  with one id (`entangled`).
- Graph jobs: the sweep of orphans is global: the job of one book deletes entities of
  another that have no edge, those it is about to connect and, at any later time, those the
  extraction related to nothing, although that book is complete (`swept`). A job that is
  delivered again after it had ended takes back what it wrote (`spoilt`). Failed extraction
  batches are only logged. `graph_scanner` exists and is not scheduled.
- Files: the scanner may take a file whose upload is not committed, delete one that
  replaced the file it copied, and a deletion may take a file dropped under the same name
  (`misled`). Two books of one `file_name` make the scan raise at every tick; a dropped
  file of a known name is skipped for ever; rejected uploads leave files; a file whose
  deletion fails stays while the row of its book goes, and one that was dropped is then
  found again.
- Push: the answer `existing` takes no page and the client shows the session as uploaded
  (`taken`).
- History: no lock between read, model and write, nor between read and write of a request
  about one fact (`crossed`); unreadable output is marked
  succeeded; an ingestion repeated after a crash brings rejected facts back.
- Caches: the details of a book are stored under `book:{id}:{scope}` and deleted as
  `book:{id}`: old for up to 900 s. An account lives up to twice `cache_ttl_user_profile`
  in a process, though `dependencies.py:24` promises once. A failed read of the version
  falls back to `"1"` (`lapsed`).
- Chat: concurrent turns overshoot the limit; a count read and cached while it is
  written counts twice (`countedTwice`); a deleted conversation still receives a running turn.
- Retrieval: a quoted title overwrites the scope of the reader, a short work is looked up in
  every table of contents; facts of the graph are not scoped. Outside production, which is
  the default, a search whose vectors find nothing matches words in the books it was given,
  whatever the categories of the persona (`retrieval.py:371-466`).
- Desktop: a second copy of a session is loaded (`doubled`) when the running book is
  started again, when a book in view is run after a deletion, when a request loads a session
  from a thread while its job does, and when a session is loaded while a request is at work
  on it. An error outside the inner `try` of `process_one` (`app_server.py:2679-2696`) ends
  the job while the tasks of other pages go on with a copy the queue has forgotten; the next
  start loads another (`doubled`); a redo overwrites a review made meanwhile; an edit of a
  failed page is wiped by the next run. A page that ran out of time leaves its thread at
  work, and another width replaces the executor: more threads than allowed, and later
  attempts refused (`misread`).

## Plan

Done: the modules above, their runs, the proofs above. Left, in this order:

1. The count-and-write roll-up of `PagePipeline` itself as two steps.
2. The refinement of a life of books (pending, ready, error) by `PagePipeline`.

## Running

```
tlc -config PipelineCrash.cfg MCPagePipeline      # PipelineBatch, PipelineLive, OcrRetry
tlc -config Content.cfg MCPageContent             # IndexCorrected, IndexRedelivered
tlc -config Batches.cfg MCGeminiBatches
tlc -config Services.cfg MCServices
tlc -config Editors.cfg MCBookAdmin               # RetrySkipped
tlc -config BreakerLeak.cfg MCCircuitBreaker
tlapm PageContent_proofs.tla                      # and the other seven *_proofs modules
```
