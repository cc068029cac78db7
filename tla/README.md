# A verification project for rag-wiki

rag-wiki turns uploaded documents into a knowledge graph and into wiki pages,
and answers queries from both. An upload stores a file and enqueues a job;
worker processes claim jobs from a Postgres table, run the ingest pipeline or
synthesize a page with an LLM, and commit; a query is classified, the graph is
walked, and a context is assembled under a token budget. This directory holds
TLA+ modules of the parts of that program in which order, concurrency, failure
or a limit decides whether the result is right, TLC runs that check them on
small instances, and proofs for every instance.

All paths below are relative to the repository; `rag_wiki/` is the Python
package, and most of them leave it out.

## 1. The system

| Component | State | Operations | Talks to |
|---|---|---|---|
| Job queue `jobs/__init__.py` | rows of `jobs` (status, attempts), row locks | `enqueue`, `claim_next`, `complete_job`, `release_claim_to_pending`, `fail_job` | producers, workers |
| Worker loop `worker.py` | one job, one session, the stop event | claim, dispatch, commit, the two except branches, SIGTERM, restart | queue, all handlers |
| Coalescing `wiki/synthesis.py:71-162` | other pending rows about the same entity or source | merge (entity jobs), cancel (summary jobs) | queue |
| Page synthesis `wiki/synthesis.py:165-363` | `wiki_pages`, advisory lock per entity | lock with three tries, read, LLM, write, unlock | queue, LLM |
| Summary synthesis `wiki/synthesis.py:366-` | `wiki_pages` | find the source, read its chunks, LLM, write | queue, LLM |
| Ingest planner and parsers `planner/ingest.py`, `ingest/parser.py`, `ingest/parsers/` | none | choose a parser, find sections, tables, images, OCR | ingest pipeline |
| Chunking `ingest/chunking.py` | none | pack, break, slice, overlap | parsers |
| Ingest pipeline `ingest/pipeline.py` | `sources`, `chunks` | parse, per-chunk loop, enqueue synthesis | storage, LLM, resolution |
| Entity resolution `graph/resolution.py`, `graph/merge.py` | `entities`, `chunk_entities`, `relations`, advisory lock per name | search, decide, create or merge, link | LLM |
| Upload and deletion `api/routes/source.py`, `cli.py`, `db/session.py` | file, `sources` row, chunks, job | `create_source`, `delete_source`, CLI ingest | storage, queue |
| File storage `storage/` | objects | upload, download, delete, text files | file system or S3 |
| OKF export `wiki/export.py` | page files, manifest, `log.md` | one export run | storage |
| Query route and planner `api/routes/query.py`, `planner/query.py` | `query_plans`, a cache of classifications | classify, plan row, retrieve, answer | LLM, retrieval |
| Retrieval `retrieval/` | embeddings of chunks that lack one | seeds, traversal, scoring, context budget, merge of a comparison | database, embeddings |
| Provider wrapper `providers/__init__.py` | none | `RetryingProvider.complete` | LLM |
| Extraction, SDK adapters, prompts, read-only routes, MCP server, settings, migrations, deployment | none, or none of their own | | |

What is hard about it:

* **Concurrency.** Several workers share the table. A claim is an uncommitted
  UPDATE: to a plain SELECT the row is still pending. Two kinds of advisory
  locks, both of the *session*, are taken and released inside transactions that
  commit later. Queries are not read-only: they embed chunks and update them.
* **Failure.** The worker's except branch rolls back, refreshes the row and
  writes a verdict in a second transaction. A failed *statement* leaves an
  aborted transaction, in which an unlock fails as well; a failed *flush*
  makes SQLAlchemy roll back and expire its objects, so that the next attribute
  access (the log call of the except branch) raises and ends the process.
* **Two stores.** A source is a file and rows; nothing makes them change at once.
* **Commit after the answer.** FastAPI resumes `get_db` after the response.
* **Limits.** Chunk sizes, hops, neighbours and tokens are each counted in a way
  of their own, and the sums have to come out right at the boundaries.

What makes each component correct is stated in the properties of its module
(section 3); `PROJECT.json` lists the hazards, each at its line, with the
properties that would catch it.

## 2. The modules

| Module | Models | Used by |
|---|---|---|
| `JobQueue` | queue, worker loop, coalescing | `MCJobQueue`, `JobQueueProofs` |
| `DurableQueue` | what the queue promises its producers (ADR-0005) | implemented by `JobQueue` |
| `PageSynthesis` | `synthesize_entity_page` after its merge | `MCPageSynthesis`, `PageSynthesisProofs` |
| `IngestPipeline` | ingest runs, resolution, the graph they commit | `MCIngestPipeline`, `IngestPipelineProofs` |
| `SourceLifecycle` | one source: upload, DELETE, ingest run, summary page | `SourceLifecycle.cfg`, `SourceLifecycleProofs` |
| `WikiExport` | runs of `export_bundle` and the bundle they keep | `MCWikiExport`, `WikiExportProofs` |
| `Chunking` | `split_by_sections` and `_apply_overlap` | `DocumentParsing`, `DocumentParsingProofs` |
| `DocumentParsing` | ingest plan, parsers, and the chunking of what they find | `MCDocumentParsing` |
| `GraphTraversal` | the walk over the graph, and what it should return | `Retrieval` |
| `Retrieval` | one call of `retrieve` | `MCRetrieval`, `RetrievalProofs` |
| `QueryRequests` | concurrent queries: classification, writes, commit | `MCQueryRequests`, `QueryRequestsProofs` |
| the modules named `...Proofs` | theorems | |

The modules meet at their borders. `JobQueue` treats the inside of a handler as
phases; `PageSynthesis` details the phase between lock and commit and reduces
claim and merge to one step; `IngestPipeline` details the ingest handler and
reduces the queue to a claim that excludes other workers, which is
`JobQueue`'s theorem `IngestRunsOnce`; `SourceLifecycle` reduces a run to the
points at which a DELETE can meet it. `DocumentParsing` composes the parsers
with `Chunking`, whose steps it takes into its own next-state relation; the
chunks it makes are the constants `ChunksOf` of `IngestPipeline`. `Retrieval` is
built on `GraphTraversal` and runs against a database that stands still;
`QueryRequests` reduces a retrieval to the sets of chunks that its parts read
and lets several requests run at once.

### JobQueue

`status`, `attempts` are the committed columns, `rowLock[j]` the worker whose
open transaction has updated row `j`. `pc[w]` is where `worker_loop` is:

| phase | code |
|---|---|
| `idle` | top of the loop, `worker.py:60` |
| `claimed` | after `claim_next`, in the handler, nothing committed |
| `merging` | duplicates read (`synthesis.py:144`), flush under way |
| `locking`, `writing` | after `synthesis.py:210`; before and after the advisory lock |
| `erring`, `recording` | except branch, before and after `db.refresh(job)` |
| `down` | the process has ended |

A flush updates rows in primary key order (`PkRank`) and waits for each one
(`FlushDuplicate`), which is how two merges deadlock (`InWaitCycle`). The ORM
writes only columns that differ from what `db.refresh` loaded (`WriteBack`).
The status is written after the wait, to whatever the row has become.
`settled`, `aborted` and `done` are history variables: which sources a finished
synthesis covered, of which entities a run ended after its merge was committed,
and how many runs of an ingest job were completed.

Left out: `claimed_at`, `worker_id`, `completed_at`, `error_message` (never read
back) and `scheduled_at` (no caller sets it). `created_at` is the constant
`Rank`; `max_retries` is one constant for all rows, as the column default is.

### PageSynthesis

`holder` and `depth` are the re-entrant session lock, `rowOwner` the row lock of
the page. `base` is the page as read inside the lock, `draft` the one written.
A page is the set of the sources it has something from, and its form: `stub`, `fits`
or `long`, the last longer than the 3200 characters of it that the prompt shows
(`wiki/context.py:77-79`). The answer replaces the page as a whole (`Answers`):
it has all that the prompt showed of the old page, any of the job's sources and any
length, or it is empty and a stub is written (`synthesis.py:282-289`). That the LLM
keeps what it is shown is the model's assumption; what is lost nevertheless is
lost by the code. `synthesized_from_sources` is left out. The claim and the merge are one step here, because what several workers do to each
other in between is `JobQueue`'s subject. Errors come in the kinds that the
code treats differently: `SkipOnLLMError` (job completed, no page),
`OtherError` (transaction intact, unlock works), `StatementFails` (aborted
transaction, the connection keeps the lock), a failed flush
(`InsertCollision`, `Crash`: the process ends).

### IngestPipeline

One run per ingest job. `own[w]` are the rows the run has written and not
committed; a query sees them and the committed ones (`Visible`). Candidates are
resolved one by one under a lock on their name (`LockedBy`). An entity's text is its
name and description, and `Distance` relates the embeddings of two texts: the vector
search returns what is within `Threshold`, the nearest `TopK` of it, ties in any order
(`Nearest`). The variable `faithful`, chosen once in `Init`, says whether the LLM
merges a candidate into a found entity of its very name. `tx` tells an aborted transaction from one lost to a failed flush. A chunk that fails
keeps what it has written so far in the transaction, as the except clause of the
loop does. A failed run is put back in one step (`RunFails`), so that a completed
run is not carried out again here; that is `JobQueue`'s `CompletedOncePerFailure`.

### SourceLifecycle

The upload, DELETE requests, ingest run and summary of one source. `file` is in
storage, `row` and `chunks` are committed. Two variables are chosen in `Init` and
never change: `via`, the API or the CLI, and `silent`, which tells S3, whose
delete is silent about a missing key, from local storage, whose delete raises. A
source has a UUID of its own, so one source is enough. The ingest run that
commits enqueues the summary job (`note`); `scribe` is where the synthesis of the
summary is: it finds the source, reads its chunks in a second query and writes
the page, and locks nothing. `draft` and `page` tell a summary of the chunks from
one of no chunks.

### WikiExport

`published` and `version` are the page rows; `file`, `manifest`, `index` and
`log` the bundle; `old`, `names`, `snap`, `todo` and `entries` the memory of a
run, lost with it. A file, and its hash, is the *rendering* of a page: its
version, which grows with every synthesis (`synthesized_at` is rendered), and
which of its links show a display name, because that depends on other pages and
may change back. The slug map and the pages are read by two queries
(`ReadNames`, `ReadPages`). `local`, chosen in `Init`, tells local storage, which
truncates a file before it writes it (`TearPage`, `TearManifest`, `LoseEntries`),
from S3, which replaces an object. `LoadFails`, `DeleteFails` and `LogReadFails`
are the three places that take any `StorageError` for a missing file. The three
index files are one variable: nothing reads them back. The log is kept per page,
since no line of it depends on another page's. `dirty` and `intact` are history
variables. Two exports at the same time are left out; nothing in the code
excludes them.

### Chunking and DocumentParsing

A document is a sequence of lines (of elements, for unstructured): kind, length,
page, and whether the line is in the text layer or only OCR reads it. What
pdfplumber, tesseract and unstructured make of a file is this input; what the
code does with it is modelled: which lines a parser keeps (`Kept`), between which
of them it cuts sections (`Cuts`), when it uses OCR (`UsesOcr`), and which tables
and images become chunks of their own (`Taken`). Kept lines have places in one
running text, so that a section, a paragraph, a slice and a chunk are intervals,
and a lost character is a position that no interval covers.

`Chunking` has one action for each branch and each turn of the loops of
`split_by_sections`: `OpenLarge`, `TakeParagraph`, `TakeSlice`, `CloseLarge` for a
section that is too large, `Pack` and `Replace` for one that is not, `Finish`,
`ApplyOverlap`. A packed chunk keeps its length apart from its interval, because
the separators count and the lines' own breaks do not. `ChunkSpec` is the
chunking of arbitrary sections, about which `ChunksStayBounded` speaks;
`DocumentParsing` starts it with the sections that a parser found, and page by
page under the override `ocr`.

### GraphTraversal and Retrieval

`GraphTraversal` has no variables: the rows of the recursive query as a recursive
function (`Rows`), the least hop per entity (`AllHops`), the limit per hop and the
ceiling (`LimitedPerHop`, `UnderCeiling`), each the set of results that the
database's row order may lead to, and the relations collected. Below it stands
the reference, the distance by simple paths (`AtDistance`).

`Retrieval` is one call of `retrieve`. `Init` chooses the relations, the links of
the chunks and the request; `pc` says where the orchestrator is. A part is:
seeds, traversal, then the five slots of the context (anchor, subgraph, page,
seed chunks, hop chunks) one after the other, each filled by `TakeItem` and closed
at the first item that does not fit. Texts are lengths, similarities the constant
`Score`, near-duplicates the constant `Near`. A plain query is one part; a comparison is one
part per entity, each with its share of the budget, and `Merged` is what
`merge_retrieval_results` makes of them. Chunks without an embedding get one
(`bare`).

### QueryRequests

Several POST /api/query requests. `pc[r]` goes from `start` over `asking` (the LLM
through `RetryingProvider`, counted by `tries`) and `rules` to `planned` (the plan
row is flushed), then for every part `part` and `scoring`, then `answering` and
`committing`; `ended` is reached by the commit after the response or by any
failure. Chunks without an embedding become `dirty` and are flushed at the
next query of the session or at the commit, row by row in key order, waiting for
rows that another request has updated (`rowLock`, `WaitCycle`, `DeadlockVictim`).
`DeleteChunk` is the DELETE of a source, after which an update finds no row
(`RowIsGone`, `FlushMissesRow`). The planner, and with it its cache, is made for
the request, so `Ask` always finds the cache empty; `classified` and `again` are
history variables that tell what a cache of the process would have known.

## 3. What is checked

Runs that pass (every property has a mutant of the code that breaks it):

| Run | Instance | States | Shows |
|---|---|---|---|
| `QueuePool` | 2 workers, 1 ingest and 2 entity jobs of one entity, 1 retry, 3 failures per job, 1 crash | 520,148 | `TypeOK`; an ingest job has one executor at a time (`IngestExclusive`), and a completed one is carried out again at most once per failure (`CompletedOncePerFailure`); no job is given up too early (`NoEarlyGiveUp`); without a crash a `processing` job has a worker (`ProcessingHasWorker`); merging loses no source id until a run breaks off after its commit (`MergeLosesNothing`) |
| `QueueOneWorker` | 1 worker, failures, 2 crashes, jobs of all kinds, fair | 102,555 | `JobQueue` implements `DurableQueue` (`ImplementsDurableQueue`); every job ends unless a crash orphaned it (`JobSettlesOrIsOrphaned`) |
| `PageTwoWorkers` | 2 workers, 3 jobs of one entity, 2 tries for the lock, 1 error, 1 crash, fair | 488,564 | `TypeOK`; mutual exclusion of the section between lock and unlock (`OneSynthesizer`); a page changes only with the completion of its job (`PublishedWithCompletion`); content is lost only by a stale read, an empty answer or a page longer than the prompt shows (`LossExplained`); a job ends unless it was orphaned or its lock leaked (`JobEndsOrIsStuck`) |
| `IngestTwoWorkers` | 2 workers, 2 runs, 3 chunks, 2 names with 2 descriptions each, `top_k` 1, 2 faults, 1 crash, fair | 399,287 | `TypeOK`; whatever is in the graph comes from a completed run, and nothing dangles (`CommittedGraphIsWhole`); a processed chunk has all its relations (`ProcessedChunksHaveRelations`); synthesis is enqueued for every linked entity (`SynthesisCoversLinks`); with an LLM that merges namesakes, one run creates an entity twice only if the first was not offered to it (`DuplicateExplained`); every run ends (`EveryRunEnds`) |
| `SourceLifecycle` | API or CLI, local or S3, 2 DELETEs, 1 retry, 2 faults, fair | 8,466 | `TypeOK`; chunks exist exactly for processed sources (`ChunksGoWithSource`); a deleted source stays deleted, and only its summary may be made of nothing (`DeletedStaysDeleted`); without faults file and row go together (`FileGoesWithRow`); ingest and summary jobs end (`IngestEnds`) |
| `ExportRuns` | 2 pages, one linking to the other, 2 versions, 1 removal, 3 runs, 2 faults, local or S3 | 934,986 | `TypeOK`; a run repairs what broken runs left, with one exception (`PagesRepaired`); without failures the bundle is the snapshot (`MirrorsDatabase`); the log is a well-formed life of every page and agrees with the manifest (`LogTellsLives`) |
| `RetrievalPass` | every graph of 5 relations, 3 linkings of 4 chunks, 7 requests, 2 hops, 2 per hop, 2 in all | 33,626 | `TypeOK`; distances, cuts and the relations returned against simple paths (`WalkIsExact`); what parts, slots and merged parts may cost (`WithinBudget`); no chunk twice (`NoChunkRepeated`); why a chunk about an entity found may be missing (`MissingChunkExplained`) |
| `QueryRequests` | 3 requests, 2 chunks they share in opposite orders, 2 tries, 1 fault, fair | 88,882 | `TypeOK`; a deadlock needs a comparison (`DeadlockNeedsComparison`); only answered requests leave a plan row or an embedding (`TracesOfAnsweredOnly`); every request is answered (`EveryRequestAnswered`) |
| `DocumentParsing` | all texts of 4 lines, PDFs of 2 pages, lists of 3 elements from a few lines; chunks of 6 characters, overlap 2 | 16,660 | no text is lost or out of order (`TextKept`); a chunk that names a page is of that page (`PagesHonest`); sizes (`ChunksBounded`) |

Runs that end in a violation, each of a sentence in the repository:

| Run | Property | What happens |
|---|---|---|
| `QueueTwoExecutors` | `OneExecutor` | a worker fails before the commit of its merge and rolls back; another one claims the job and commits its merge; the first writes `pending` over that (`fail_job`), and the job is claimed again while it runs |
| `QueueLoopSurvives` | `LoopSurvives` | a merge deadlock ends a worker process |
| `QueryAsksAgain` | `CacheAvoidsCalls` | the LLM is asked about a query it has classified before |

Where the code falls short of a document elsewhere, a passing property says what
is left of the promise and names the exception; `PROJECT.json` lists these under
"findings", each with the property. `IngestExclusive` is what `OneExecutor`
becomes for jobs whose claim is not committed early, and `CompletedOncePerFailure`
what is left for them of the same promise one after the other; `MergeLosesNothing` excepts
entities of which a run broke off after its merge; `JobSettlesOrIsOrphaned` names
the one way in which a job does not end, a crash after its claim was committed
(`synthesis.py:210`), which contradicts "durable and restart-safe"
(`README.md:22`); `LossExplained` says which commits lose content: those of a
run that read a stale page (unlock before commit), of an empty answer, and of a
page of which the prompt showed only the head; `DuplicateExplained` leaves out two
runs that create the same entity (again unlock before commit), and within a run
the namesakes that the vector search cannot offer, because of their descriptions
or of `top_k`; `FileGoesWithRow` holds without
faults, since a commit that fails after the response leaves the file;
`TextKept` leaves out OCR text on pages that have a line of their own;
`MissingChunkExplained` compares scores within the seed chunks and within the hop
chunks only, because `context.py:382` puts the former before the latter, whatever
they score, where `deduplicate_chunks` expects descending scores (`scoring.py:126`):
a seed chunk removes a hop chunk near it that scores better. Two passing
properties say what the code does *instead* of three sentences of the PRD
`docs/prd/wiki-synthesis.md`. By `:122` the job is completed in a transaction of its
own, in the code in that of the page (`PublishedWithCompletion`). By `:106` the
entities of successful chunks are given to synthesis, in the code those of failed
ones too, and by `:102` an enqueue that fails is logged and skipped, where in the
code it fails the run (both `SynthesisCoversLinks`).

### Further disagreements without a run of their own

Met while reading the code for the models; each is one step of a module or lies
outside them.

* `fail_job` (`jobs/__init__.py:178`) compares with `<=` where its docstring says
  `<`: a job fails `max_retries + 1` times before it is given up. `NoEarlyGiveUp`
  states what the code does; the docstring's comparison is its mutant.
* A release (`jobs/__init__.py:149`) looks at no counter. When another worker has
  just recorded the last failure of the same synthesis job, the row ends up
  `pending` with `attempts > max_retries`, which no claim selects.
* `docs/prd/wiki-synthesis.md:37` says that summary jobs are never coalesced; a
  summary completes the other pending ones of its source (`synthesis.py:404`), which
  `JobQueue` models as a merge (`ReadDuplicates`).
* `claim_next` orders by `scheduled_at` but never compares it with `now()`.
* After a failed statement `pg_advisory_unlock` fails too (`synthesis.py:363`,
  `resolution.py:346`), and the session's lock returns to the pool with its
  connection. `StatementFails` of `PageSynthesis` and `IngestPipeline` do this.
* An update of a page overwrites `synthesized_from_sources` (`synthesis.py:297`),
  which `docs/prd/wiki-synthesis.md:42` calls the audit trail of all contributing
  sources (the column is not in the model).
* Entities flushed before a chunk fails are committed without a link
  (`resolution.py:349`).
* A source whose run failed for good reads `pending`: the status `failed` is set
  in the transaction that the worker rolls back (`pipeline.py:254`, `worker.py:115`).
* The API answers before it commits (`db/session.py:53`), contrary to the order in
  `docs/prd/fastapi-api-surface.md:63`.
* A DELETE that removed a local file and then lost its commit cannot be repeated:
  the missing file raises (`storage/local.py:123`).
* A source summary outlives its source: nothing removes the page, and one may
  even be written after the DELETE (`synthesis.py:407`).
* The override `mineru` is accepted by the ingest planner and refused by the
  parser; an override that the planner does not know raises only after the file
  has been stored (`api/routes/source.py:174`). Both are `Plan`'s errors.
* The markdown branch of the simple parser looks at the extension
  of the path, and a stored file is parsed from a temporary copy without one;
  `fallback_parser` of the plan is never used.
* The plan's `retrieval_depth`, `seed_count` and `termination_condition` are stored
  and never read by the retrieval (`seeds.py:150` takes the setting).
* `docs/prd/hybrid-retrieval.md:69` lets unknown sections of a page default to
  `entity_prose`, the first in the order; `_heading_to_tag` (`context.py:78`)
  returns `other`, the last.
* Explicit seeds lose the order of the request (`RowsOf`), so whose wiki
  page is shown depends on the order of the database's rows.
* The export saves its manifest once, at the end, and then the log, where
  `docs/adr/0019-okf-export-format.md:150` promises agreement of file, log and
  manifest after every page. The exception of `PagesRepaired` follows from that: a
  file overwritten by a broken run stays when its page returns to what the old
  manifest says. `intact` in `LogTellsLives` stands for the other consequences.
* Any storage error of a read counts as a missing file (`export.py:307`, `:413`):
  one failed read erases the "append-only" log.

### Bounds

Failures, crashes, errors and restarts are counted and capped by constants
(`MaxFails`, `MaxRestarts`, `MaxErrors`, `MaxCrashes`, `MaxFaults`; `MaxRuns`,
`MaxVersion` and `MaxRemovals` in `WikiExport`). The caps are chosen so that
retries run out: with `MaxRetries = 1` a job is given up at its second failure.
The exception is `PageTwoWorkers`, whose one error leaves a job `pending`; that
retries run out is checked in `QueuePool` and `QueueOneWorker`.

* Two workers are enough for every interleaving between a worker and another
  one; two jobs about one entity are enough for coalescing, and the ingest job
  beside them for an uncommitted claim of another kind. Each of the two names occurs
  with both descriptions; those of one name are near each other, those of the other
  are not, and different names with the same description are near. With `TopK = 1` a
  namesake is therefore found, too far or crowded out, which are the cases of
  `DuplicateExplained`. `_ADVISORY_LOCK_DELAYS` has three entries, `LockTries` is two
  in the run: one try that fails and goes on and one that gives up. Two DELETEs cover the race of a request with its like.
* Three export runs are one that sets up the manifest, one that breaks off and
  one that repairs; two pages, of which one links to the other, let a rendering
  return to an earlier one.
* Three queries are a plain one, one that has to be classified, whose text is
  that of the first, and a comparison; two chunks that the comparison reads in
  opposite orders from another request are the least that can deadlock. One fault
  is enough, because every fault ends a request.
* The five relations of `RetrievalPass` contain a triangle, a square and an edge
  against the walk, and all 32 graphs over them are taken; with at most two per
  hop and two in all both limits bite, and the budgets (7 to 25 tokens) are above, at
  and below what the fixed slots need. One entity of the requests has no row; one
  chunk has no text, two pairs are near-duplicates with one chunk in common, and two
  chunks have the same score.
* Lines of 1, 2, 3, 4, 8 and 9 characters against chunks of 6 with an overlap of 2
  give sections that pack, that just do not, and that need up to three slices.
  The proof of `ChunksBounded` needs no such bound, and it alone covers an overlap
  of 0, with which `_apply_overlap` would put the whole predecessor in front of a
  chunk (`TailOf`).
* The relations of `RetrievalPass` do not contain an entity that is kept at distance
  two while its way is cut; that case of `ConnectedUnlessCut` is covered by the proof
  alone (`WalkAgainstPaths`).

### Fairness

`WF` of a worker's steps: the event loop runs, Postgres and the providers answer
or raise (they have timeouts), and `restart: unless-stopped`
(`deploy/docker-compose.prod.yml`) brings a dead container back. `SF` of the
steps in which an UPDATE waits for a row: Postgres queues the waiter, so it gets
a row that is free again and again. `SourceLifecycle` has `WF` of the ingest
run's and of the summary's steps, `QueryRequests` of the steps a request takes by
itself (with Postgres ending deadlocks) and of the LLM's call ending in a
classification or a failure, since its client has a timeout. Faults, uploads,
DELETEs and odd answers are never fair.

## 4. What is proved

| Theorem | Module | Statement |
|---|---|---|
| `QueueTypes` | `JobQueueProofs` | `Spec => []TypeOK` |
| `IngestRunsOnce` | `JobQueueProofs` | `Spec => []IngestExclusive` |
| `IngestNotRepeated` | `JobQueueProofs` | `Spec => []CompletedOncePerFailure` |
| `RetriesNotOverspent` | `JobQueueProofs` | `Spec => [](FailuresCounted /\ NoEarlyGiveUp)` |
| `JobsInProgressAreHeld` | `JobQueueProofs` | `Spec => []ProcessingHasWorker` |
| `CoalescingLosesNothing` | `JobQueueProofs` | `Spec => []MergeLosesNothing` |
| `OneWorkerImplements` | `JobQueueProofs` | one worker: `Spec => ImplementsDurableQueue` |
| `SynthesisTypes` | `PageSynthesisProofs` | `Spec => []TypeOK` |
| `SynthesisExcludes` | `PageSynthesisProofs` | `Spec => [](TypeOK /\ OneSynthesizer)` |
| `PagesComeWithCompletion` | `PageSynthesisProofs` | `Spec => PublishedWithCompletion` |
| `LossesAreExplained` | `PageSynthesisProofs` | `Spec => LossExplained` |
| `IngestTypes` | `IngestPipelineProofs` | `Spec => []TypeOK` |
| `GraphIsWhole` | `IngestPipelineProofs` | `Spec => []CommittedGraphIsWhole` |
| `RelationsComeWithChunks` | `IngestPipelineProofs` | `Spec => []ProcessedChunksHaveRelations` |
| `SynthesisIsAskedFor` | `IngestPipelineProofs` | `Spec => []SynthesisCoversLinks` |
| `DuplicatesAreExplained` | `IngestPipelineProofs` | `Spec => []DuplicateExplained` |
| `LifecycleTypes` | `SourceLifecycleProofs` | `Spec => []TypeOK` |
| `SourceStaysConsistent` | `SourceLifecycleProofs` | `Spec => []ChunksGoWithSource` |
| `SourceStaysDeleted` | `SourceLifecycleProofs` | `Spec => []DeletedStaysDeleted` |
| `FileFollowsRow` | `SourceLifecycleProofs` | `Spec => []FileGoesWithRow` |
| `ExportTypes` | `WikiExportProofs` | `Spec => []TypeOK` |
| `ExportRepairs` | `WikiExportProofs` | `Spec => [](TypeOK /\ PagesRepaired)` |
| `ExportMirrors` | `WikiExportProofs` | `Spec => []MirrorsDatabase` |
| `LogStaysTrue` | `WikiExportProofs` | `Spec => []LogTellsLives` |
| `ChunksStayBounded` | `DocumentParsingProofs` | `ChunkSpec => []ChunksBounded` |
| `DocumentChunksBounded` | `DocumentParsingProofs` | `Spec => []ChunksBounded` |
| `TextIsKept` | `DocumentParsingProofs` | `Spec => []TextKept` |
| `PagesAreHonest` | `DocumentParsingProofs` | `Spec => []PagesHonest` |
| `RetrievalTypes` | `RetrievalProofs` | `Spec => []TypeOK` |
| `WalkAgainstPaths` | `RetrievalProofs` | `Spec => []WalkIsExact` |
| `BudgetIsKept` | `RetrievalProofs` | `Spec => []WithinBudget` |
| `ChunksAreDistinct` | `RetrievalProofs` | `Spec => []NoChunkRepeated` |
| `NoChunkIsLost` | `RetrievalProofs` | `Spec => []MissingChunkExplained` |
| `RequestTypes` | `QueryRequestsProofs` | `Spec => []TypeOK` |
| `CirclesNeedComparison` | `QueryRequestsProofs` | `Spec => []DeadlockNeedsComparison` |
| `OnlyAnswersLeaveTraces` | `QueryRequestsProofs` | `Spec => [](TypeOK /\ TracesOfAnsweredOnly)` |

They hold for all constants that satisfy the modules' assumptions
(`ConstantsAssumption`, `SynthesisAssumption`, `PipelineAssumption`,
`LifecycleAssumption`, `ExportAssumption`, `ChunkingAssumption`,
`BatchesAssumption`, `FilesAssumption`,
`TraversalAssumption`, `RetrievalAssumption`, `QueryAssumption`), for any number
of workers, jobs, sources, entities, pages, relations, requests and chunks. The
assumptions are types, and facts about ids that the database sees to: a chunk
belongs to one run, a relation's ends have rows, the distance of two embeddings is
the same both ways; the lines of a document come page by page. One theorem has a
hypothesis besides: `OneWorker` is what makes `ImplementsDurableQueue` true.

* `QueueTypes`: types are inductive together with `LockDiscipline`, the lemma that a
  row is locked exactly by the open transaction that updated it. The types need it
  because a release or a failure writes to `cur[w]`, which must be a job.
* `IngestRunsOnce` follows: an executing ingest job is uncommitted, its worker
  therefore has the row lock, and a row lock has one owner.
* `IngestNotRepeated`: the runs completed, plus the failures whose verdict is still
  to be written, are at most the failures that happened, and one more while the row
  reads `completed`. A completion moves one run to the left and sets the row, which
  did not read `completed` before, because a claim takes pending rows; a verdict
  takes one from the left when it unsets the row. `IngestInv` adds that the row of an
  uncommitted claim still reads `pending`, and that no merge or release is of an
  ingest job.
* `RetriesNotOverspent`: two workers may fail the same job. The counter in the
  row, plus the failures not recorded yet, is at most the number of failures
  that happened, and so is the snapshot that each of them is about to write
  back. This count, over the set of unrecorded failures, is the invariant
  (`FailuresCounted`) that makes it inductive: a snapshot may be stale, but only
  downwards.
* `JobsInProgressAreHeld`: a worker that holds a job may have its row completed,
  released or failed by another one. `Held` says that a row reads `processing`
  only while some worker will still settle it (`WillSettle`), whatever that
  worker's stale snapshot says.
* `CoalescingLosesNothing`: `Collected` adds that a worker past its SELECT has in
  memory the source ids of its job and, until its merge is committed, those of the
  duplicates. A row that gets completed as somebody's duplicate is then covered by
  that worker's synthesis, also when another worker has claimed the row.
* `OneWorkerImplements`: each step is mapped to a step of `DurableQueue` or to a
  stutter. The invariant `Alone` holds only for one worker: its job has the status
  its phase says, the duplicates it has read are still duplicates, and its
  snapshot of the row is fresh. With two workers the implication is false
  (`OneExecutor`).
* `SynthesisExcludes`: `OneSynthesizer` alone is not inductive. `LockInv` adds
  that a worker inside the section is the lock's holder, with a depth of at
  least one, and that a worker past `idle` holds a job. A leaked lock keeps a
  holder outside the section, which does no harm.
* `PagesComeWithCompletion` and `LossesAreExplained`: `JobInv` says that the job of
  a working process reads `processing` and is nobody else's, `DraftInv` that a
  draft is a stub or covers what the excerpt of the page it was made from showed.
  What a commit loses was then missing in what its run had read, or behind the
  excerpt, or the answer was empty.
* `IngestTypes`: `PlaceInv` says where a run stands, that its job is still pending
  and that no other worker has it. Both are needed to know that a run's chunk
  and candidate exist.
* `GraphIsWhole`, `RelationsComeWithChunks`, `SynthesisIsAskedFor`: `GraphInv` says of
  every open transaction what they say of the committed graph: its rows come
  from its own chunks, refer only to rows it can see and have their synthesis
  enqueued, also when it is aborted or lost, or a chunk has failed halfway. A
  committed row is never removed, so a commit of another run leaves this true.
* `DuplicatesAreExplained`: `NamesInv` adds that a search made under the lock has met
  every entity of that name the run has itself written: it has found it, or it is too
  far, or `TopK` others are no further. With a faithful LLM an entity is created only
  if no namesake was found, so each one before it is of the other two kinds. The
  entities that cut one off are visible then and committed with it, and no other run
  can add one of this run's chunks in between.
* `SourceStaysConsistent`, `SourceStaysDeleted`: `LifeInv` adds what is true between
  the steps: a run that has locked the row keeps it there, an upload that has not
  committed has no row and no job, and a summary that has found its source but
  sees no chunks can only have been overtaken by a DELETE.
* `FileFollowsRow`: `FileInv` says that, without failures, a row without its file is
  about to be deleted, and by the very request that has removed the file.
* `ExportRepairs`: `PagesRepaired` speaks of the end of a run only; `RepairInv`
  carries it across runs. Its core, `ManifestDescribes`, says that a readable
  manifest describes every file that no broken run has changed and no queued
  entry stands for, so that skipping a page whose hash is unchanged is right.
* `ExportMirrors`: without faults the manifest describes the files between two runs;
  within a run `Mirrored` follows each page from the one before to the snapshot.
* `LogStaysTrue`: `LogInv` says that a queued entry tells the difference between the
  manifest that was loaded and the snapshot, and after the save the one between the
  log and the manifest, so that appending it goes on with the page's life.
* `ChunksStayBounded`: for any sections, sizes and overlap, an overlap of 0 included,
  which makes the tail as long as a chunk (`MaxTail`). `ChunkInv` adds where
  the loops stand: the paragraph and the slice under way, with an offset inside
  the paragraph.
* `TextIsKept`, `PagesAreHonest`: `TextInv` is about any set of characters, each with
  its page, and says what the loops have done with it so far. What has been passed is
  in a chunk or in the buffer (`CoverInv`), pieces start one behind the other and
  before the place where the next one starts (`PieceInv`), and no character is
  between the buffer and that place (`GapInv`), so that packing swallows none of
  another page. `ParsingInv` puts the document's own characters there: sections and
  paragraphs are consecutive groups of kept lines (`GroupsCut`), whose places are sums
  that grow from line to line (`StartsApart`), and the text of an OCR page that is
  still to be read is behind everything returned (`LinesInv`).
* `WalkAgainstPaths`: `Retrieval` walks breadth first over rows, its property speaks of
  simple paths. A shortest path to a relation is simple and stays a path when its
  last relation is dropped; conversely the rows reached at a distance have a path of
  that length. That the recursive functions of the model (`Rows`, the folds) satisfy
  their equations is proved from their `CHOOSE` by a least counterexample.
* `BudgetIsKept`: `FillInv` says that the cost so far is within the room of the slot and
  the text longer than that by at most one token per line, `FullInv` the same of the slots
  of a whole part. `ShareInv` says that parts done, under way and to do are at
  most as many as the budget was divided by.
* `ChunksAreDistinct`, `NoChunkIsLost`: deduplication keeps a chunk unless a kept one
  ranked before it is near it, where every seed chunk ranks before every hop chunk. That such a set exists for every ranking is shown by a least
  counterexample; `ScoringInv` says which chunks it leaves, whatever is done with
  equal scores, and `LoopInv` carries this through the steps that fill the slots.

All invariants and action properties that the runs check are proved, and so is the
refinement. Only model-checked: all liveness (`JobSettlesOrIsOrphaned`,
`JobEndsOrIsStuck`, `EveryRunEnds`, `IngestEnds`, `EveryRequestAnswered`), which is
out of the prover's reach, as is ENABLED; and the three violations, whose
counterexamples TLC finds.

## 5. What is not modelled

* **Entity extraction**: one LLM call whose answer is validated; its result or
  failure is an input of `IngestPipeline`.
* **Wording**: prompts, front matter, index layout, and the ranking of the context
  chunks of an entity page (`wiki/context.py`) change what the LLM is told or what a
  page looks like. The rows of `wiki_page_entities` are left out of `PageSynthesis`.
* **Embeddings written by a synthesis**: the same ranking calls `score_chunks`, which
  embeds chunks that have no embedding yet in the worker's session
  (`retrieval/scoring.py:97-99`); they are committed with the job. A worker is thus a
  third writer of the chunk rows of `QueryRequests`, beside queries and DELETEs, and
  one more way into a circular wait. So is a DELETE of a source with several chunks:
  `DeleteChunk` removes one row, in a transaction of its own, and `CirclesNeedComparison`
  speaks of circles between requests only.
* **Read-only routes, MCP server, settings**: single SELECTs rendered as JSON, a
  stateless wrapper around them, and constants.
* **The adapters of the other LLM vendors**: their outcome is a choice.
* **Eviction of the classification cache** (`planner/query.py:225`): a planner lives
  for one request, so the cache never holds more than one entry.
* **`merge_entity` on an entity that already has links**: it has no caller.
* **Two exports at the same time**: nothing in the code excludes them.
* **Migrations, deployment and scripts** run around the program; `healthcheck.py` is
  a lint script for its developers.

## 6. What is left

1. Two concurrent runs of `WikiExport`, whose manifests overwrite each other.
2. `merge_entity` on linked entities, once it has a caller: re-pointing and
   deduplication of four tables against a reference definition.
