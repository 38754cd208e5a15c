# Camillo in TLA+

Camillo is a memory service for agents: an HTTP API and an MCP server store,
recall, replace and forget *memories* in one PostgreSQL table, and a one-shot
worker consolidates conversation episodes into durable facts ("dreaming").
This directory models it in TLA+, checks the models with TLC and proves
theorems about them with TLAPS. Paths below are relative to the repository.

## The system

| Component | State it keeps | Operations | What makes it correct |
|---|---|---|---|
| Memory store (`stores/memory_store.py`) | the `memories` table: type, status, content, `superseded_by`, `access_count` | insert, vector and full-text search, fetch by id, `mark_accessed`, `reinforce_memory`, `update_memory_status`, dream seed selection, consolidation, statistics | a retired memory stays retired; counters neither lose nor double; links lead somewhere |
| Reconciliation (`cognitive/reconciliation_service.py`) | none of its own: decisions taken on loaded rows | `remember_memory`, `replace_memory`, `forget_memory` | exact duplicates are not stored twice; a replacement is all or nothing; what is answered is true |
| Ingestion (`cognitive/ingestion_service.py`) | none | `ingest_interaction` | a turn becomes an episode once the answer is sent |
| Recall (`cognitive/recall_service.py`, `recall_utils.py`, `cognitive_math.py`) | candidate lists of one search | two queries, rank fusion, rerank, activation, cut, bookkeeping | nothing retired is returned; the ranking weights are what the README says |
| Dreaming (`cognitive/dreaming_service.py`, `stores/dream_store.py`, `worker.py`) | the `dream_runs` table, the batch of one run | seed selection, batch, synthesis, promotion, consolidation, audit | sources are consolidated only after promotion; every change is in a committed audit row |
| Sessions (`db/session.py`, `db/models.py`) | one transaction and one identity map per request, row locks, the pool | begin, flush, commit, roll back | an uncommitted change is invisible and dies with its session |
| Provider client (`ai/llm_service.py`) | one shared HTTP session | embed, rerank, synthesise | failures of rerank and synthesis are absorbed, of embed are not |
| Connection pool (`db/session.py`, SQLAlchemy's) | idle and drawn connections | draw at the first statement, return at the end of the session, pre-ping | none leaks, none that is dead is handed out, waiting for one ends |
| Routes and MCP tools (`api/`, `mcp_server/`) | none | one session per call, commit, then answer | the answer is sent after the commit; a call made again does no more, as far as the code can tell |
| Statistics (`memory_stats`) | none | three counting queries | totals and breakdowns are off by no more than what changed meanwhile |
| Migrations (`migrate/`) | the schema, `alembic_version` | upgrade and downgrade chain 0001 .. 0006 | the schema is the one its version stands for, whatever fails or races; memories survive |
| Redaction, settings, startup, logging, tracing, health | configuration | pure functions | (see *Not modelled*) |

The components call each other inside one request; different requests meet only
in the database and in the pool. Every `await` (provider, each SQL statement) lets other
requests run. That is where the hard behaviour is: decisions on rows that were
read some awaits ago, two snapshots in one search, row locks taken one after
the other, failures and crashes between two flushes.

## Modules

| Module | Role |
|---|---|
| `CorpusLifecycle` | what the corpus promises, abstractly: memories are stored, replaced, forgotten and consolidated in single atomic steps |
| `MemoryRequests` | the core: requests, sessions, identity maps, row locks, commits, failures and crashes; the properties; the refinement mapping to `CorpusLifecycle` |
| `MemoryRequestsInvariant` | the inductive invariants of the proofs: `IInv`, and `AccessInv` of the access counts |
| `Dreaming` | dreaming runs: `MemoryRequests` extended with sessions that select, synthesise, promote through the steps of `remember_memory`, consolidate and write the audit row |
| `DreamingInvariant` | the inductive invariant of the proofs about `Dreaming` |
| `Ranking` | the arithmetic of one search: rank fusion, rerank, final score, cut, semantic duplicates |
| `RankingInvariant` | the inductive invariant of the proofs about `Ranking` |
| `Serving` | the process: connection pool, outages, a failing provider, calls made again, statistics; on top of `CorpusLifecycle` |
| `ServingInvariant` | the inductive invariant of the proofs about `Serving` |
| `Migrations` | the schema, its revisions operation by operation, and attempts to apply them |
| `MigrationsInvariant` | the inductive invariants of the proofs about `Migrations`: `MigrationsInv`, and `SchemaInv` of the schemas too |
| `MCMemoryRequests`, `MCDreaming`, `MCRanking`, `MCServing`, `MCMigrations` | symmetry sets, key order, who calls what, sample rows and the two state bounds for TLC |
| `CorpusLifecycleProofs`, `MemoryRequestsProofs`, `AccessProofs`, `DreamingProofs`, `RankingProofs`, `ServingProofs`, `MigrationsProofs` | the theorems |
| `MigrationsSchemaProofs` | what each script of `Migrations` makes of a schema: the lemmas under `MigrationsProofs` |

`MemoryRequests` and `Dreaming` both implement `CorpusLifecycle` under the same
refinement mapping (`Life`, `Heir`). `Serving` is composed the other way round: it
uses the actions of `CorpusLifecycle` as its database, so what it shows rests on the
refinement (proved for requests and for runs) and need not repeat sessions and row
versions. `Ranking` stands alone: `MemoryRequests` leaves
open which candidates win, so whatever `Ranking` computes is one of its choices.

### How MemoryRequests corresponds to the code

A request is a process with a program counter `pc[r]`; each action is the code
between two awaits, in the code's order:

| Action | Code |
|---|---|
| `Arrive` | the handler starts; `remember_memory` tests the redacted content before any I/O (the test of `ingest_interaction` never fires, see *Seen on the way*) |
| `SelectTarget` | `get_memories_by_ids([memory_id])`, the early returns *not_found*, *inactive* and *rejected* |
| `Embedded`, `EmbeddingFails` | `get_embedding` answers, or raises and the session rolls back |
| `VectorSearch`, `LexicalSearch` | the two queries of `RecallService.search` |
| `RankRecall`, `RankRemember` | rerank (never fails outwardly), sort, cut; the duplicate tests of `remember_memory` |
| `Insert` | `insert_memory`: add and flush |
| `Reinforce`, `MarkAccessed`, `Retire` | `reinforce_memory`, one row of the UPDATE of `mark_accessed`, `update_memory_status` |
| `Commit` | `db.commit()`, then the answer |
| `DeadlockVictim`, `Crash` | PostgreSQL aborts one transaction of a lock cycle; the process dies |

State: `corpus` is the committed table; `loaded[r]` the identity map of r's
session, never refreshed by a later SELECT; `dirty[r]` the rows r has flushed and
locked; `want[r]` the row r waits for; `picked[r]` candidates; `report[r]` the
answer; `goneBefore[r]` a history value the recall property needs.

Modelling decisions:

- READ COMMITTED: each SELECT sees the rows committed at that moment; an UPDATE
  waits for the row lock and then applies to the newest committed version.
- A session keeps the copies its caller still refers to (`Load`): all results of a
  search until it is ranked, then the rest of the request; of a run the seeds and the
  batch, while rows that were only looked at are let go of and loaded afresh. In a
  request a copy is never dropped early, the staler of the two readings.
- A query returns any active rows up to its LIMIT (`AtMost`): the HNSW index is
  filtered by status after its scan and may return fewer, and the trigram query drops
  what has no similarity.
- A flush sends only the attributes that changed: `Reinforced` sets the access
  count from the stale copy and leaves the status of the row alone.
- Ids are UUIDs in the code. Here they are numbered in the order they are drawn,
  which no action but `Insert` looks at, so "later" can be said in a property.
- Contents are compared as `_normalize` leaves them; `Blank` stands for a content
  that redaction empties. Which candidates a search returns, how they score and
  which the reranker prefers is left open within the limits the code sets.
- The ELSE branches of `Reinforce` and `Retire` (the loaded copy is not active) are
  in the code and in the model, and never taken: a session only loads active
  rows (see *Seen on the way* below).
- Left out: embeddings, timestamps, importance, evidence, workspace and the
  response layout. `Dreamers`, a second set of sessions, is empty in the runs of
  this module: `Dreaming` attaches its own steps to it.

### How Dreaming corresponds to the code

A run is one session of `Dreamers`, from `DreamingService.run_once` to the commit of
the worker or of the `/dream` route. `dream[d]` is what the run holds in Python
variables, `audit[d]` the `dream_runs` row it has flushed.

| Action | Code |
|---|---|
| `SelectSeeds` | `select_dream_seeds` and `create_run`; no seeds, no batch |
| `QualifyBatch` | one turn of the loop of `_qualifying_batch`: the neighbours of one seed |
| `Propose`, `NothingProposed`, `MalformedProposal` | `synthesize_dream` and the tests on its answer; a dry run stops here; `float(confidence)` may raise |
| `Promote` | the steps of `remember_memory` from `MemoryRequests`, in the run's own transaction |
| `SelectSources`, `Consolidate` | `mark_memories_consolidated_after_dream`: the SELECT, then one UPDATE per source, in primary key order |
| `CompleteRun` | `complete_run` |
| `CommitRun`, `VictimRun`, `CrashRun` | the commit; an abort by the deadlock detector; the worker dies, alone |

The batch is made of rows from several snapshots: a seed comes from the first
query and is put into its batch whether the second still returned it or not. The
order of the sources' UPDATEs is the order of their UUIDs, `KeyRank`, unrelated to
the order of insertion.

### How Ranking corresponds to the code

| Action or operator | Code |
|---|---|
| `Fuse` (`Share`, `Fused`; `Found`, `Place` and `SortedBy` for its stable sort) | `reciprocal_rank_fusion`, then `normalize_scores` of the fused scores |
| `Rerank`, `RerankFails`, `RerankSkipped` | `rerank_results` answers (documents it leaves out score 0), falls back, or is not called |
| `Normalized` | `normalize_scores` |
| `Weigh` (`Score`) | the final score, the stable sort, `candidates[:top_k]` |
| `SemanticMatches` | `retrieval_score >= 0.95` in `remember_memory` |

Scores are integers on a scale that every division of the instance fits, so orders
and ties are those of exact arithmetic; rounding of floats is left out. Both
rankings, the reranker's scores, activations and workspaces are inputs.

### How Serving corresponds to the code

A client makes one call and may make it again after an error. `stage[c]` is where its
request stands, `held[c]` the connection of its session, `locked[c]` the row it has
flushed an UPDATE of, `aim[c]` the memory it decided upon.

| Action | Code |
|---|---|
| `Arrive`, `Retry` | a route or tool starts; the caller makes the same call again |
| `Checkout` | the first statement of a session draws a connection; `pool_pre_ping=True` replaces a dead one |
| `PoolTimeout`, `Refused`, `ConnectionLost` | the pool's 30 s are over; the database is down; a statement on a connection that died: an exception, and `Ends` |
| `Embedded`, `EmbeddingFails`, `Reranked` | the awaits on the provider, with the connection held or not: `replace_memory` embeds after its SELECT, `remember_memory` before its first |
| `Select`, `Search`, `Write` | `get_memories_by_ids`, the duplicate search, the flush and its row lock |
| `CountTotal`, `CountTypes`, `CountStatuses` | the three queries of `memory_stats` |
| `Commit` (`Effect`, `Ends`) | `db.commit()`, the corpus changes in one step, the connection goes back |
| `GoesDown`, `ComesBack` | the database: connections die, locks are freed, a commit under way may have taken effect without its answer |

The pool is SQLAlchemy's default for an async engine: it keeps `PoolSize` connections,
opens up to `MaxOverflow` more, and lets sessions wait. A recall uses its connection
as `remember_memory` does and stores nothing, so it is left out.

`Search` is where a repeated `remember_memory` finds what its first call stored. It
compares with the first ten candidates only (`DedupTopK`). The trigram query ranks an
equal memory first, so with no more than ten active memories it is a candidate; with
more, activation and workspace decide, and the model lets the search miss it.
`RetriesStoreOnce` is therefore stated of `remember_memory` while there are at most
`DedupTopK + 1` memories, its own among them, and of `replace_memory` without a limit. `ingest`
has no duplicate check at all. What holds of every call is `StoredPerOutage`: a route
or tool commits last, so a failure after the commit can only be an answer lost with the
database, and each outage costs at most one memory too many.

A client whose own
patience ends while its call still runs makes a second *concurrent* call, and that
is not `Retry`: the runs `double_replace` and `double_remember` show what happens
then, although `server.py` marks `replace_memory` with `idempotentHint=True`.

### How Migrations corresponds to the code

The schema is a set of objects: tables, columns, NOT NULL marks, defaults, indexes,
foreign keys, checks, unique constraints, extensions. Each revision is the sequence
of its operations (`Upgrade0001` .. `Downgrade0006`), and an operation succeeds or
raises by what is there (`Creatable`, `Droppable`). Revision 0003 does not exist.

| Action | Code |
|---|---|
| `Plan` | `run_migrations_online` connects, alembic reads `alembic_version` |
| `Execute`, `OperationFails` | the next `op` of the revision; an exception rolls everything back |
| `Stamp`, `StampFails` | alembic updates the version it expects; no such row, an exception |
| `Commit` | the end of `context.begin_transaction()`: all revisions passed are one transaction |
| `DeadlockVictim`, `Dies` | PostgreSQL aborts one of a cycle of lock waits; the command is killed |
| `Remember` | the API inserts a `Memory` at the head |

Rows keep the columns a revision computes from (`type`, `namespace`, `workspace`,
`scope`) and the link; `LegacyRows` are memories from before 0006, of old and of
unknown types, in and out of a `repo:` namespace. `OrmColumns` are the columns of the
classes in `models.py`; `Ladder` is the schema each upgrade leaves on the one before.
`Degraded` is what the downgrade of 0006 leaves instead of that of 0005.

## Runs

| Run | Question | Bounds |
|---|---|---|
| `write_races` | do racing requests keep lineage, answers and retirement, leave only what was answered, and refine `CorpusLifecycle`? do the inductive invariants `IInv` and `AccessInv` hold? | 3 requests (recall, remember, replace, forget) over 1 memory, so that one target, its replacement and a third request meet, and two recalls can lock two rows in opposite orders |
| `dream_races` | is every change answered or audited, every source of a productive run retired, nothing retired dreamt of, every answer kept, each run one atomic step? is a duplicate ever named that was gone before, a row lock ever held while a provider is awaited? does the inductive invariant `DreamInv` hold? | 2 runs and 1 request of any kind, ingest included, over 2 memories; any two of the three sessions meet, the third joins if the request forgets (`Meeting`); the two memories have one content, so that a second content is new to the corpus (`AlikeAtFirst`) |
| `all_finish` | does every request and every run end? is nothing stale recalled, no access counted twice and none lost while nothing reinforces? | 2 recalls and 1 run over 2 memories, of which each query returns one at most and a search up to both: lock cycles in both orders; what the run consolidates is what a recall must not return; no symmetry |
| `ranking` | does fusion keep what both rankings agree on, does relevance lead, is the fallback harmless, what does the best candidate score? does the inductive invariant `RankInv` hold? | every pair of partial rankings of 4 memories, 3 kept, 2 answered, reranker scores 0 .. 2, activation 0 or 1 |
| `serving` | is a connection ever leaked, does an outage hurt later requests, how wrong can statistics be, what does a repeated call store, does every request end? does the inductive invariant `ServingIInv` hold? | 3 clients (statistics or a remember; a replacement; an ingest or a forget), 2 connections of which the pool keeps 1, 1 outage, 1 repeated call, a search that compares with 2 memories where there may be up to 5; no symmetry |
| `migrations` | is the schema that of its version, does the head fit the ORM, do memories survive, who wins a race, when does an attempt fail? does the inductive invariant `SchemaInv` hold? | 3 attempts from 0004 or an empty database to any revision but 0001, one after the other or at once; one old memory of each type, in namespaces of each form, and a new one |
| `double_replace`, `double_remember`, `lost_access`, `dream_of_itself`, `weak_duplicate`, `downgrade_stuck` | statements of the docs that the code does not keep | the smallest instances that can show it |

`MaxRows` is always at least `InitRows` plus the number of sessions that can insert
and meet, and a request inserts at most one row, so the guard `nextId <= MaxRows` of `Insert` never
blocks; it is there to keep ids finite. A conflict needs two sessions and one
row; three sessions add a transaction that commits between the steps of two
others; two rows suffice for lock cycles. `access_count` is bounded by the number
of sessions. A dreaming run inserts at most one row too. In `serving` the guard
`n \in Ids` of `Effect` never blocks either: one memory at the start, one stored by
each of three clients, one by a commit that is unanswered and made again. With
`DedupTopK` = 2 both sides of the limit are reached: a repeated `remember_memory` that finds its memory
among all there are, and one that comes when there are more and stores a second. The
pool of `serving` is smaller than the number of clients, so connections are waited
for, and has an overflow, so one is closed on its return. Three attempts in
`migrations` let one fail behind a second while a third waits for its locks, and the
version go and come back behind the back of the third; the goals 4 and 5 reach what
the downgrade of 0006 leaves, the goals 2 and 3 the index that one of 0004 may leave. Deadlock checking is on in every run: a state in which nothing is
possible before everything has ended would be reported (`Served`, `AllEnded` and
`Done` let the finished system stutter).

The type invariant of a module is the first part of its inductive invariant and is
checked there (`TypeOK` in `IInv`, `DreamTypeOK` in `DreamInv`, and so on).

Every property of a passing run has a seeded defect (marked so in the modules,
listed under `mutants` in `PROJECT.json`) that breaks it: a query that forgets
`status = 'active'`, a commit that is skipped, a session that is not rolled back, a
link that is not handed on, an access counted from a stale copy, a batch of which
only the seeds are consolidated, scores normalised without their minimum, a
connection that is not returned, one that is not pinged, migration statements
outside a transaction, a version set blindly, and so on.

### Fairness

`FairSpec` asks weak fairness of each request's own steps: the event loop resumes
a coroutine whose await is over, the provider answers or times out (120 s in
`llm_service.py`), PostgreSQL executes statements, hands a free lock on and aborts
one transaction of a deadlock. Arrivals and crashes are not assumed. Weak
fairness suffices because only finitely many requests can overtake a waiter.
`DreamFairSpec` asks the same of the requests and of the runs that were started.

`ServingFairSpec` asks strong fairness of a request's steps, because waiters for a
connection (the pool's queue) and for a row lock (PostgreSQL's) are served in turn,
and weak fairness of the database's restart. The pool's timeout is not assumed, so
`RequestsEnd` says that waiting ends without it: nobody who waits for a connection
holds one, nobody who holds a row lock waits. It does not say within 30 s; with a
provider that takes up to 120 s and more clients than connections the timeout fires.

## What the code does otherwise than it says

| Run | Statement | What happens |
|---|---|---|
| `double_replace` | "Replace exactly one active target, preserving explicit lineage." | two concurrent calls are both answered *replaced*; the second link overwrites the first, whose replacement stays active without lineage |
| `double_remember` | "detects exact and semantic duplicates, and reinforces existing rows" | nothing stands between the search and the insert: both calls create the memory |
| `lost_access` | "access_count: Number of times the memory has been recalled." | `reinforce_memory` writes back a count read some awaits earlier |
| `dream_of_itself` | sources are "Episodic memories", created are "Semantic memories created or reinforced" | a synthesis equal to one of its episodes reinforces that episode, which is then consolidated: no active memory has the fact |
| `weak_duplicate` | "detects exact and semantic duplicates" | scores are normalised per search, so the best candidate is 1.0 and passes the 0.95 test however weak it is |
| `downgrade_stuck` | "Apply schema changes with `alembic upgrade head`."; "Restore legacy columns and tables where data can be reconstructed." | the downgrade of 0006 does not rebuild the indexes and the constraint that its upgrade and the downgrade of 0005 drop: after it the database goes neither up nor down |

Seen on the way, and not among the runs:

- `run_once` never calls `fail_run`, and the row of `create_run` is rolled back with
  the session, so a run that fails leaves no `dream_runs` row.
- The answer *inactive* of `remember_memory` ("Duplicate target is inactive.") cannot
  be given: the test reads the session's own copy, loaded as active. A memory that is
  forgotten between the search and the flush is answered *reinforced*.
  `DuplicateFreshness` is what holds instead.
- `ingest_interaction` means to refuse an empty turn, but it compares a stripped text
  with `"User:\n\nAssistant:"`, and an empty turn still has a blank line more between
  its headings: it is stored. So `ingest` has no *rejected* outcome in the model.
- `ingest` has no duplicate check, so a call repeated after a lost answer stores the
  turn twice; so does a `remember_memory` whose own memory is not among the first ten
  candidates (`StoredPerOutage`).
- Two runs may select the same seeds and each promote a fact from them, and a seed that
  is forgotten after the run began is put back into the batch. Neither code nor docs
  exclude either; `DreamFreshness` and `SourcesRetired` are what holds.
- A document that a reranker's answer leaves out scores 0 and falls behind all others.
- A downgrade of 0004 can leave `ix_memories_type_status` behind: its `DROP INDEX IF
  EXISTS` finds nothing and locks nothing if another downgrade was faster, and if the
  version has been upgraded again before the next statement it goes on. So
  `SchemaOfVersion` admits that index at 0001 and 0002; the next upgrade passes over
  it (`CREATE INDEX IF NOT EXISTS`), so it harms nothing (`FailsForAReason`).
- The README's "an incorrect or missing workspace never hides a memory" is true up
  to the cut: the bonus of 0.10 is added before `candidates[:top_k]`.
  `RelevanceLeads` bounds what it can do.

## Proofs

Every theorem holds for every value of the constants that the named ASSUMEs admit;
nothing else is assumed. TLC checks each inductive invariant on a run too.

| Module | Theorems | Assumptions |
|---|---|---|
| `CorpusLifecycleProofs` | `HeirsSound` of the abstract corpus | - |
| `MemoryRequestsProofs` | `TypeOK`, `IInv`, `LineageSound`, `AcknowledgedWritesHold`, `OnlyAcknowledgedWrites`, `RecallFreshness`, `DuplicateFreshness`, `NoLockAcrossProvider`, `RetiredStaysRetired`; `MemoryRequests` implements `CorpusLifecycle` | `RequestsBounds`, `RequestsInputs` |
| `AccessProofs` | `AccessInv`, `AccessNeverOvercounted`, `RecallsCounted` | the same |
| `DreamingProofs` | `DreamInv`, `DreamTypeOK`, `ChangesAccounted`, `SourcesRetired`, `DreamFreshness`, and the properties of requests again, beside runs, with `AccessInv`, `AccessNeverOvercounted`, `RecallsCounted`, `RecallFreshness`; `Dreaming` implements `CorpusLifecycle` | the same, `DreamingBounds`, `DreamingKeys`, `DreamingSessions` |
| `RankingProofs` | `RankInv`, `RankingTypeOK`, `FusionAgrees`, `RelevanceLeads`, `FallbackKeepsOrder`, `BestIsWhole` | `RankingBounds`, `RankingExact` |
| `ServingProofs` | `ServingIInv`, `ServingTypeOK`, `ConnectionsAccounted`, `OutageOverForLater`, `RetriesStoreOnce`, `StoredPerOutage`, `StatsBracketed` | `ServingBounds` |
| `MigrationsProofs` | `MigrationsInv`, `SchemaInv`, `MigrationsTypeOK`, `SchemaOfVersion`, `HeadFitsModels`, `NoStaleMove`, `UpgradeKeepsMemories`, `FailsForAReason` | `MigrationsBounds` |

### Requests

None of the properties is inductive alone: that a commit retires exactly one memory
depends on what the session flushed, and when. The invariant `IInv`
(`MemoryRequestsInvariant`) says why it works:

- `Exclusive`: a row flushed by one session is flushed by no other; `Fresh`: an id
  not yet drawn is nowhere. Both come from the row lock and the fresh id.
- `Pending`: so the committed version of a flushed row cannot move, and at the
  commit the flushed row is still that version with one change, of a kind the
  session's coming answer names. This is what makes stale copies harmless to
  status, lineage and content.
- `Staged`, `Complete`: where a session stands tells what it has flushed; at the
  commit nothing of what it will answer is missing.
- `Picks`, `Names`, `Waits`: searches pick active rows only; the memory an answer
  will name was picked by this session; only a session at an UPDATE waits.

What the invariant says of the table (`TableInv`) and what it says of one session
(`SessionInv`) are separate, so that one lemma per action shows the acting session
keeps its own part and a frame argument (`OthersPending`, `OthersStaged`,
`QuietStep`, `FlushStep`) shows it disturbs nobody else's. `CommitCreated`,
`CommitReplaced`, `CommitForgotten` and `CommitOther` say what a commit does to the
corpus, and the theorems follow from them; every other step leaves corpus and
answers alone (`CommitOrQuiet`). The lemmas are stated for any session, and
`DreamingProofs` uses them for runs.

### Access counts

A count in memory is stale, and still no access is counted twice. `AccessInv` says
why: a count that a recall flushes is the committed one plus one, because
`mark_accessed` adds in SQL under the row lock; a count that a reinforcement
flushes was read earlier and may be too small, but is never more than one above
the requests that have completed with an access to the memory (`Touches`). So each completed
request raises the count by at most one (`AccessNeverOvercounted`), and where
nothing reinforces each recall raises it by exactly one (`RecallsCounted`). The steps
from one state to the next count a set of sessions that gains the committing one;
the library's cardinality facts do the rest.

### Runs

Up to the answer of `remember_memory` a run is a session as any other, so
`SessionInv` holds of it and the lemmas on requests apply unchanged: this is what
calling `remember_memory` inside the run's own transaction buys. From then on it is
`Closing`, and `Closes` says what it has flushed: the memory it promoted and, under
their locks, batch episodes whose status alone it changes. That no source survives
the commit as an active memory is `Settled`: those that were active are locked, the
others are retired and stay so. `Gathers` and `Remembers` tie the batch to what was
active and the answer to the audit row. The commit of a run maps to the step `Dream`
of `CorpusLifecycle`, or to a stutter if it promoted nothing.

### Ranking

`SortedBy` is chosen with CHOOSE, so that a sorted sequence exists has to be shown:
each element is put at the position that the number of its predecessors names.
`SortedByIs` says what the sort returns, and `KeptOfSorted` that what is cut off scores
no more than what is kept. `NormalizedIs` bounds `normalize_scores`, keeps the order
and gives the best candidate the whole scale unless all scores are zero. `RankInv`
carries from step to step what each list and score says about the lists the search
started from, and `RankingExact` (the scale fits the divisions) is what makes equal
ranks equal shares.

### Serving

- `Routed`: each operation has its own route, and past its first statement a request
  has a connection until it ends. So a connection drawn late is always the first.
- `Pooled`: what waits in the pool fits it, and no clock runs ahead of the outages.
- `Unstored`: while the connection lives, a request that is going to replace has
  stored nothing before, and one that is going to remember has nothing active, if its
  search compared with all there are. An outage that leaves the fate of a commit open
  also takes the connection, which is why the part survives it.
- The limit in `RetriesStoreOnce` is on the memories known at the end, not those the
  search saw: memories never become unknown, so there were no more of them then.
- `StoredPerOutage` is inductive as it stands: only `Commit`, that ends in *done*, and
  `GoesDown`, that is an outage, store anything (`PerOutageStep`).
- `Settled`: once a client's replacement is stored, its target is retired for good,
  so a repeated call is turned away by the active-only lookup.
- `Counted`: memories never become unknown and gone ones stay gone (`CorpusGrows`),
  so later counts are no smaller.

One lemma per part and step: `OthersStand` frames what other clients' steps leave
alone, `OneCommits` and `StoresOne` say what a commit changes.

### Migrations

Alembic reads the version, runs operations that lock what they touch, and writes the
version last. That this is safe rests on three facts in `MigrationsInv`:

- `Planned`: an attempt that has moved holds the row of `alembic_version`, which still
  says where the attempt came from. With `Exclusive` (no two attempts lock one
  table) nobody else moves meanwhile, so `NoStaleMove`.
- `Apart`: no operation of any revision touches alembic's own table, so an attempt
  cannot come to hold it by another way.
- `Raised`, `Lowered`: by how far an attempt is, what each memory it sees has become
  of the one committed. An operation that changes kept columns locks `memories`
  first, so the committed rows beneath it stand still. At the commit this is
  `UpgradeKeepsMemories`.

One lemma per action, and `Undisturbed` for the attempts that do not act. The
revisions are finite sequences of known operations and are enumerated one by one.

That the schema is the one of its version needs more, because an attempt may have
looked at a table before another one changed it. `SchemaInv` compares schemas table
by table, since an operation changes no table but those it locks:

- `Follows`: `Course(a)` is what the scripts of `a` have made by now of the schema `a`
  planned from. In a table that `a` has locked it sees that course, *if* it found the
  table as it is at the version it planned from; the course of a table not yet locked
  still is what it was. An attempt that found a table changed by somebody else meets
  another version row, and cannot commit.
- `Schematic`: the committed schema is the one of the ladder, or at 0005 what the
  downgrade of 0006 leaves (`Degraded`). `Barred`: from there no attempt moves on,
  because the first operation either way needs the index that is not there.
- `Loose`, `Indexed`: `DROP INDEX IF EXISTS` takes no lock on what it does not find, so
  on the few indexes it names nothing can be said table by table; `Indexed` says of
  the one that matters when it must be there.
- `Emptied`, `Refilled`: the tables and columns that a script drops or marks NOT NULL
  are in the state the next operation needs.

`MigrationsSchemaProofs` has the closed form: an object that any revision creates is
determined by its name (`ObjectOf`), so a schema is a set of names. `Leads` says what
an operation does to such a set and that it succeeds on it; one lemma per script
(`Upgrade0001Leads` .. `Downgrade0006Leads`) follows it operation by operation, and
`LadderNames` says what each revision's schema is. At the commit of an attempt that
has moved, the version row says that it planned from the version that still is there,
so it found every table as planned, and what it commits is the next rung
(`MoveSchematic`). The same argument gives `FailsForAReason`: while the version is the
one planned from, the next operation is one of a script on its own rung, which
`Leads` says succeeds (`OperationSucceeds`).

An attempt to prove the schema equal to that of its version, with no exception but
`Degraded`, failed at the lenient drop of 0004, and TLC, asked for that case, found
the index that is left behind; that is where the second part of `SchemaOfVersion`
comes from.

### Only model-checked

- `RequestsFinish`, `RunsFinish` and `RequestsEnd`: liveness is out of the prover's
  reach.

Every other property of a passing run is a theorem.

## Not modelled

What is not modelled, and why:

- Redaction: regular expressions over text; the requests only tell an empty result
  from another. Settings, startup checks, logging, tracing, health and the
  allow-list of MCP hosts: read once, no state that interacts.
- The shutdown order of `main.py`: the lifespan closes the provider's session after
  the server has drained its requests, which the server does, not this code.
- Of the migrations, column types and lengths, and the generation of SQL offline.
- Of the ranking, the exponential and logarithm of the activation, and the rounding
  of floats.
- `interfaces.py` (protocols without a body) and code without a caller
  (`get_previous_memory_in_session`, `apply_diversity_filter` and its helpers,
  `fail_run`).
