# Formal models of semantic-plagiarism-detector

TLA+ modules that model the stateful, concurrent core of this repository and the
algorithms that decide what a report says, the TLC configurations that check
them on small instances, and theorems about them that TLAPS proves for every
value of the constants. Paths are relative to the repository root's parent, as in
`src/src/db/task_db.py`.

1. [The system](#the-system)
2. [Hard behaviours](#hard-behaviours)
3. [Modules](#modules)
4. [Runs](#runs)
5. [Proofs](#proofs)
6. [Findings](#findings)
7. [Further behaviours](#further-behaviours)
8. [Not modelled](#not-modelled)
9. [Plan](#plan)

## The system

The program ingests documents, splits them into chunks, embeds the chunks,
stores text and vectors in SQLite (`corpus.db`), keeps a FAISS index file that
is derived from that table, compares documents with each other and records
suspicious pairs as incidents. A Streamlit app (`app/`), a FastAPI server
(`src/src/api`), a command line (`src/src/cli.py`), an optional scan worker
process (`src/src/workers`) and background schedulers share the databases and
the index file, each in its own process with several threads.

| Component | State it keeps | Operations | Talks to | What makes it correct |
|---|---|---|---|---|
| **Task queue** `db/task_db.py`, `workers/task_queue.py`, `workers/scan_worker.py`, `api/endpoints/tasks.py` | `task_jobs` rows; per process an in-memory wake-up queue; per worker the job in hand and a stop event | submit, retry a dead job, claim, complete, fail, re-queue stale jobs at start, stop | API threads insert, workers claim and report, processes crash and restart; only the table is shared | a job is in one pair of hands; retries are counted right; every job ends; ended jobs stay ended |
| **Text chunking** `core/text_chunking.py` | none that outlives a call; inside one, the window and the pieces so far | cut a section into windows that end at sentences or paragraphs, merge the tail, limit | feeds the corpus store and the comparison | windows overlap, go forward, keep to the cap; no word is lost; positions are usable |
| **Corpus store** `db/corpus_db.py`, `db/corpus_repository.py`, `core/corpus_ingestion.py` | `documents`, `chunks`, `deleted_chunks` | ingest, delete, soft delete, restore, empty trash, batch forms, clear, renumber vectors | UI, API and CLI threads; index rebuilds read it | no chunk is lost or attributed to another document; the order of rows is kept |
| **Vector index file** `core/faiss_index.py`, `core/synchronization.py` | the index file, `_INDEX_LOCK` of each process | rebuild and save after ingest/delete, load or rebuild, `sync-index`, remove on clear | derived from `chunks`, read by the rescan and the search page | row *i* of an index that is used belongs to row *i* of the registry |
| **Index write lock** `core/concurrency.py` | the lock file and its modification time | acquire, clear when stale, release | index writers of all processes | at most one holder; a crash does not block for ever |
| **Rescan, scheduler and incidents** `core/processing.py`, `core/scheduler.py`, `db/incidents.py` | incidents with review status, scheduler runs; per process a scheduler thread | rescan, sync flagged, review, delete with a document | reads corpus and index under the write lock, hands alerts to a pool | a human decision stands; each new incident is announced, and announced once; no pair slips through the window |
| **Webhooks** `core/webhook.py` | tasks of a thread pool, attempts left | post with retries | incidents | an alert arrives unless the receiver or the process fails for good |
| **Match consolidation** `core/match_consolidation.py`, `core/similarity.py` | none that outlives a call | offsets of chunks, grouping of matches, coverage | the chunks of two documents; reports | a passage reports nothing that no match supports; coverage counts each character once |
| **Accounts and tokens** `db/auth.py`, `security/jwt_utils.py` | `revoked_tokens`, `password_changed_at`, a cache with a time to live per process | issue, revoke, change password, check, clean up | every API request | a revoked token is refused everywhere within a known time, and nobody else is |
| **Accounts, lockout, SSO** `db/auth.py`, `utils/sso.py` | users, failed attempts, SSO states | log in, lock, unlock, redeem | sessions | an SSO state is used once |
| **Embedding migration** `core/embedding_migration.py` | checkpoint, backup, the vectors | plan, re-embed in batches, resume, roll back | corpus store, index | no mixture of models is searched |
| **Rate limiters** `security/rate_limiter.py`, `api_gateway/rate_limiter.py` | counters per client and window | check, count, expire | every request | never more than the limit per window |
| **Versions, backups, caches, history** `db/version_repo.py`, `db/database_backup.py`, `utils/redis_cache.py`, `db/translation_cache.py`, `db/batch_history_db.py` ... | rows and files of their own | create, restore, prune, expire | the databases above | lineage stays a chain; a restore gives a consistent database |
| **Analysis** `core/ai_detector.py`, `core/document_parser.py`, `reports/`, `visualization/`, `app/` | none that outlives a call | pure computation, parsing, rendering | all of the above | numeric and textual quality, not a question for a model checker |

## Hard behaviours

* The task table is shared by threads and processes that update rows by id with
  no version or owner check; what a thread read in one statement is used in a
  later one.
* A process may die between any two statements; what it had in memory (the
  wake-up queue, the job in hand, the rows it read for an index rebuild, alerts
  that wait in its pool) is gone.
* The index file is derived data: the database commits first, the file is
  written later, by several processes whose only common lock has a timeout.
* Validity of the index is judged by counting its rows.
* Soft-deleted chunks keep the vector ids they had, while the ids of the others
  are renumbered; a batch renumbers by a list of ids it read in an earlier
  transaction.
* A rescan decides which incidents are new from a read before its upsert, and
  announces them after its commit and outside the write lock. Sessions sync the
  same table without that lock, documents go together with their incidents.
* A rescan looks at recent documents only, so how long a pass waits, fails and
  takes decides whether a document is ever looked at; and its searches return a
  limited number of hits, so what else is similar decides whether it is found.
* Revocations are committed to a table, but answered from a cache that each
  process keeps for itself, that a slow lookup may write what it read long ago,
  and that a clean-up empties by a clock of its own.
* The chunking loop moves the ends of a window forward and back in search of a
  boundary, with a cap, a guard and a minimal size that interact.
* Matches arrive in any order and overlap; the consolidation looks back at the
  last group only.

`PROJECT.json` lists each hazard at the line where it bites with the properties
that cover it.

## Modules

A commit, a SELECT outside a transaction, a system call on a file, an access to
a cache shared by threads is one step. What a thread carries from one of them to
the next (a claimed job, a count it read, a list of ids, a matrix of embeddings,
a verdict) is a variable. A transaction is atomic, as SQLite makes it, and an
exception inside one leaves the tables as they were. Texts, vectors and
timestamps are reduced to what the operations compare: an embedding is the row it
belongs to, a creation time a position in an order, a character the kind it has
for the chunker. Operators that are not part of any behaviour are named after a
slip (`MarkFailedOnceMore`, `EnterUnlocked`) and stand directly above the
definition they are a mutated form of; the properties are tested against them.

| Module | Models |
|---|---|
| `JobLifecycle` | abstract: what the queue promises about one job |
| `TaskQueue` | `task_jobs`, the processes and the worker threads; implements `JobLifecycle` when there is one worker process |
| `CorpusStore` | `documents`, `chunks`, `deleted_chunks` and the operations on them |
| `CorpusIndex` | extends `CorpusStore` by the index file and everyone who writes or trusts it |
| `WriteLock` | abstract: the lock as its callers see it, with what a file that was left behind may do to it |
| `FaissLock` | the lock file, call by call; implements `WriteLock` while with-bodies end in time |
| `Rescan` | schedulers, rescans, incidents, reviews and the alerts that follow |
| `TokenRevocation` | revoked tokens, password changes and the caches in front of them |
| `TextChunking` | the chunking loop |
| `MatchConsolidation` | from matching chunks to passages and coverage |
| `PassageDetection` | extends the two by the comparison between them |
| `...Proofs` | theorems on `TaskQueue`, `CorpusStore`, `CorpusIndex` (which uses those on `CorpusStore`), `FaissLock`, `Rescan`, `TokenRevocation`, `PassageDetection` |
| `MC...` | the small instances, one `.cfg` for each run |

### TaskQueue

`status`, `retry` and `created` are columns of `task_jobs`; `proc`, `stale`,
`pjob`, `pseen` are where a starting process is in `requeue_stale_processing`;
`inq` is its in-memory queue of wake-ups and shutdown sentinels; `pc`, `job`,
`seen`, `stopping` belong to a `ScanWorker` thread. `attempts`, `failures`,
`orphaned` and `origin` are history. `mark_failed` is two steps (`FailRead`,
`FailWrite`; `RequeueRead`, `RequeueWrite` at the start of a process), since its
SELECT and its UPDATE are. `Crash` takes a process with its threads and its
queue, `ClaimError`, `CompleteError`, `FailError` and `RequeueError` are writes
that raise, with what `_run` and `main` do about each.

### CorpusStore

`content[n]` is the `file_hash` of the document named `n`, `trashed` the names
with `is_deleted = 1`; `chunks` and `trash` (`deleted_chunks`) map a
`vector_id` to a row. Every operation includes the `_compact_vector_ids` at its
end, in the same transaction where the code has it there. A *clerk* is a caller
of an operation that has several transactions: `BatchSoftDelete` or
`BatchDelete`, then `SelectIds`, then `Renumber`; or `SelectStaleTrash`, then a
`PurgeOne` or `PurgeFails` for each name. It may die in between (`Crash`).
`Renumber` keeps the old ids if two rows would get the same one, because
`vector_id` is a primary key and the transaction is rolled back. An upload of
several files is several `Persist` steps: the code commits them together, so
the model has a few more states, in which only the first files are there, all
of them reachable by uploading those files.

### CorpusIndex

`index` is the file: a sequence of rows, the i-th vector being that row's
embedding. A *site* is a thread that runs one operation; `at` says where it is,
`matrix` and `registry` are what it has read, `mutex[p]` is `_INDEX_LOCK` of a
process; `lockFile` and `holders` are the `WriteLock`, in its weakest form
(`orphaned <- TRUE`): since nothing bounds a rebuild, any holder's file may be
taken for stale, and a `release` may fail; that counts as a fault (`Spent`), as a death and a
failing read or write do. Which operation takes which lock follows the code: an
upload holds `_INDEX_LOCK` throughout and never takes the lock file, the delete
button takes `_INDEX_LOCK` for the save alone, a rescan takes the lock file and
then `_INDEX_LOCK`, `rebuild_index_from_db` the other way round, `sync-index`
the lock file around its rebuild only. `RebuildRead` goes on with an empty matrix
when its SELECT raises an `OperationalError`, as the code does. `Save` is `save_index`, whose
`os.replace` is atomic.

### WriteLock, FaissLock

`WriteLock` says what `faiss_write_lock` is to its callers: a caller gets in when
there is no lock file (`Enter`), removes whatever file is there when it leaves
(`Leave`), or leaves the file behind because it dies or `release` cannot remove
it (`Abandon`). Once that has happened (`orphaned`), a waiter may remove the file
at any time (`Clear`), also a file that another waiter has made since, and then
two are inside. `CorpusIndex` and `Rescan` are built on its actions. In
`FaissLock` the same lock is made of system calls.
`creator` and `age` describe the file; the file itself does not say who made
it, which is why `Clear` and `Release` remove whatever is there. `Check`
(`_is_stale`) and `Clear` (`_clear_stale_lock`) are separate steps. `ClearFails`
is the same call when `os.remove` raises: the error is logged and `acquire` goes
round, without a look at the timeout. It may happen at any time and any number of
times; only the files that `Abandon` leaves behind are counted (`MaxOrphans`).
`Tick` lets time pass; `MaxHold` is how long a with-body may last.

### Rescan

A *scanner* is the scheduler thread of a process. `pc` goes through the
statements of `rescan_recent_documents` that touch shared state: `Select`
(`get_documents_since`), `Fetch` (`get_chunks_for_documents`), `Enter` (the
write lock), `Load` (index and matches), `Known` (`get_existing_incident_pairs`),
`Sync` (`sync_flagged_incidents`), `Dispatch` (the lock is released, a task for
each new incident goes to the pool, the run is recorded). `recent`, `flags` and
`new` are the locals that are carried along. What `Load` finds is a choice
(`Search`): of the similar pairs in reach (`InReach`: one document recent, the
other in the corpus) any set that has those the search is sure to find
(`Certain`). `Finds(d, e)` says when a search with the chunk of `d` that is
nearest to `e` cannot miss `e`: `find_plagiarised_chunks` takes the first `top_k`
hits that are not of `d` among `3 * top_k`, so chunks of other similar documents
must not fill the one, nor together with those of `d` the other; the index must
be exact, and no deletion may have left the vectors of another moment in the
file. An IVF index (from 5000 vectors on) or a HNSW index promises nothing
(`IvfThreshold`). `unsure` is history: the pairs in reach of a pass that were not
certain. `row[p]` is the status of the
incident of a pair; `SessionSync`, `Review` and `DeleteDocument` are what others
do to the table meanwhile. `Fail` is an exception anywhere in a pass: the lock is
released, `_run_loop` logs and waits. The lock is a `WriteLock` held from `Load` to
`Dispatch`; `orphaned` remembers that a scanner has left its file behind: by dying
with it, or because `release` failed (`ReleaseFails`, at the end of a pass or
after an exception). `Die` takes the pool along. `Deliver`, `TryAgain` and
`Refused` are one attempt of `_post_webhook` each. `age` and `timer` count ticks; no tick passes while a
scanner's wait is over or a pass has used up `PassTime`. `alerts`, `heard`,
`born` and `found` are history.

### TokenRevocation

A lookup is `is_token_revoked` in a request thread, cut at each access to shared
state: the test `token in cache` (`Ask`), the access `cache[token]` (`Hit`, which
raises when the entry has expired in between), the row of the user
(`ReadUser`), the clean-up (`SweepFirst`), the table (`ReadTable`) and the write
to the cache (`Store`); `ReadUserFails` and `ReadTableFails` are the two
`except` branches. The first goes on to the table, the second answers `False`, as
for a valid token, and caches nothing. `Revoke` and `ChangePassword` are the commits, `todo` is what
the same call still does afterwards (`Remember`, `SweepAfterRevoke`,
`ClearCache`): a process does one of these calls at a time. The tokens are those of one user. `said` is what a lookup answers
in the step that ends it; `revokedAt`, `outdatedAt` and `condemned` are history.
The stamp of a password change is taken up to `MaxCommit` ticks before its
commit; cached answers lapse after `TTL`.

### TextChunking, MatchConsolidation, PassageDetection

Characters are words (letters), stops, spaces and headings; positions are
Python's. `OpenSection` takes the next section, strips it and decides whether
the loop or the character fallback cuts it; `CutWindow` is one round of the loop
in `chunk_text`; `CloseSection` merges a short tail, drops pieces with too few
words and goes to the next section. The searches are relations between a text, a
position and what the search yields, so that each is stated by what it finds
rather than how it walks: `IsSentenceForward`, `IsSentenceBackward`,
`ParagraphsForward`, `ParagraphsBackward`, and on top of them `IsWindowEnd` (cap
and retreat) and `IsNextStart` (overlap, padding and guard). A piece carries the
range the code reports (`start`, `end`) and the range its text really has
(`from`, `to`), which differ where white space was stripped. `Compare` lets any
chunk pairs be above the threshold; `Consolidate` is one round of the loop over
sorted matches.

## Runs

Bounds: every counter that could grow for ever has one, named as a constant:
process deaths, failed writes, stop calls, outages and deletions (`MaxCrashes`,
`MaxDbErrors`, `MaxStops`, `MaxFaults`, `MaxOutages`, `MaxDeaths`, `MaxDeletes`),
lock files left behind (`MaxOrphans`),
the largest `vector_id` (`MaxId`), the time a system is watched (`MaxClock`).
Two threads, two processes or two jobs are enough for every race between a pair
of accesses; the limits of the code (1000 re-queued rows, 30 s of timeout, 24
hours of grace) become 1 to 4, so that they are reached. Where a bound is meant
to be passed it is: `queue_ends` has fewer retries than a job may meet failures,
`detection` has texts longer than twice the smaller chunk size and documents with
more pieces than `MaxChunks`, `tokens` lasts long enough for a token to expire.

| Run | Instance | Shows |
|---|---|---|
| `queue_one_process` | 1 process, 2 threads that share sentinels, 2 jobs, 2 retries, a crash, a failed write, a stop | a job is in one pair of hands, ended jobs and re-submitted dead jobs stay as they are, `JobLifecycle` is implemented, a thread told to stop stops |
| `queue_two_processes` | 2 processes, 1 thread each, 2 jobs, only one row re-queued at a start | retry counts and dead-lettering survive the races; a PROCESSING row is never abandoned without a fault |
| `queue_ends` | 2 processes, 1 job, 3 retries, two crashes | a submitted job ends |
| `store_keeps_chunks` | 2 files of 2 and 1 chunks with one name, 1 clerk, ids up to 4 | no chunk is lost, no step reorders `chunks` |
| `store_soft_delete_refused` | the same instance | that a live document can always be moved to the trash is violated, see [Findings](#findings) |
| `index_append_only` | 2 files of 2 and 1 chunks, 2 threads of one process and 1 of another, 1 fault, no deletions | the file is always a prefix of the table, so judging it by its length is right; it catches up with the table |
| `index_in_range` | everything, 2 files, 2 processes, 1 fault | an index that is handed out fits its registry in length |
| `lock` | 3 callers, timeout 1, stale after 2, with-bodies of at most 2, 1 lock file left behind, any number of removals of stale files that fail | until a file is left behind, exclusion holds; what callers see is a `WriteLock`; unless removals of stale files go on failing, the lock is not lost for good and `acquire` ends |
| `rescan_two` | 2 scanners (symmetric), 1 pair of documents of 1 chunk each (symmetric), `top_k` 1, 1 fault, death and deletion each | until a lock file is left behind, no alert is sent twice for an incident; none is forgotten, decisions stand |
| `rescan_live` | 1 scanner, 2 documents of 3 and 1 chunks, `top_k` 1, interval 1, passes of up to 1, window 4, 1 fault, death and outage each | no similar pair leaves the window unrecorded without a death, unless a pass was unsure to find it; a failed pass does not end the loop; alerts arrive |
| `tokens` | 2 threads of a process and another process that revokes, cleans up and changes the password, 1 token with a life of 4 ticks, `TTL` 2, 4 ticks | a password change takes effect everywhere within `TTL` and one lookup; so does a revocation, but for a lookup whose own SELECT fails; nobody else is refused |
| `detection` | texts of up to 6 characters of all kinds and up to 9 without headings, chunk sizes 2 and 5, overlap 1, 3 chunks of the other document, up to 3 matches | the windows overlap, advance and keep to the cap; no word is lost; positions are usable; passages and coverage are exact |

`tokens` uses a view that ignores the cache of the second process, since no
thread of that process asks; with one token and two threads every access of a
lookup still meets every access of another. In `rescan_two` passes take no time,
so that the races are in the order of the statements alone, and the view leaves
out `unsure` and `heard`, which no step and none of its properties looks at. In `rescan_live` passes take
time, and the window is exactly as wide as `WindowAssumption` asks:
`(MaxFaults + 1) * (Interval + PassTime)`. There a search with a chunk of the
longer document fetches three vectors, which may all be its own: a pass that has
only that document as recent is unsure of the pair, one that has the shorter one
is sure of it. Nothing is deleted in `rescan_live`, since a deletion makes every
later search unsure.

`CHECK_DEADLOCK FALSE` stands in the configurations of the queue and of
`detection` only: when all jobs have been submitted and ended and every thread
has stopped, that system is at rest, and a report is finished once its matches
are consolidated. In the other modules something can always be started, and TLC
checks that the system as a whole never gets stuck; that no single operation does
is what the liveness properties say.

Order is kept (`OrderKept`) with one clerk, whose list of ids already goes stale
while others upload and delete. Two clerks can break it: one selects
its ids, the other renumbers, deletes and lets an upload reuse an id from the
first one's list, and then the first one moves that row to the old place. No
documentation promises anything about this, so it is not a finding; readers
that pair two SELECTs by position are exposed to it.

**Fairness.** In the queue: threads are scheduled, and a worker process that is
down is started again (by its operator or supervisor: no compose file of the
repository runs `scan_worker`, so this is an assumption about the deployment);
producers, crashes, failed writes and stops are not fair. In the index: an
operation that has been started goes on, somebody loads the index over and over
(strong fairness: other operations may hold `_INDEX_LOCK` in between, but each
for a while), and a stale lock file is cleared once nobody is inside, which
presumes that removing it succeeds in the end. Loading is
repeated because every page of a session and every periodic rescan does it. In the
lock: time passes, with-bodies end, the loop of `acquire` goes round, and callers
come back, as the scheduler does; that a removal succeeds is not assumed, and what
follows when it never does is part of `NeverLockedUp` and `AcquireEnds`. In the rescan: time passes,
a pass goes on, a thread of the pool runs, a server that is down is started again
(the compose files restart it), and a lock file that was left behind is cleared by
the next caller once nobody holds the lock (removing it succeeds in the end), each
weakly fair; uploads, deletions, reviews, faults and deaths are not fair. `AlertArrives` says nothing of a system that loses a process or in
which a request is refused.

## Proofs

All theorems are checked by TLAPS without any step taken on trust; they hold
for every value of the constants that satisfies the `ASSUME` of the module.

`TaskQueueProofs`

* `TypeCorrect`: `TypeOK` is inductive as it stands.
* `ClaimableWithinRetries`, `DeadLetterIsEarned`: any number of processes. The
  inductive invariant `CountInv` says that `retry` and every copy of it that a
  thread has read is at most the number of committed failures, and that a
  pending or running job has a retry left. It is needed because `mark_failed`
  writes back a count that another process may have changed meanwhile: the count
  can be too low, never too high.
* `OrphansAreExplained`: `NoSilentOrphan` with the type invariant.
* `OneProcessExclusive`, `OneProcessEndedIsFinal`, `OneProcessRetriedStaysDead`,
  `OneProcessKeepsLifecycle`: under `OneProcess`, the deployment the docstring
  of `scan_worker` describes. `OneInv` adds to exclusion that a count in hand is
  still the one in the row, that what a starting process goes through is still
  PROCESSING, and that `attempts` is `retry`, plus one while the job runs; from
  that every step maps to a step of `JobLifecycle` or to a stutter.

`CorpusStoreProofs`: any files, names, sizes, and any number of clerks unless
said otherwise.

* First, lemmas on tables indexed by `vector_id`: `Join`, `Without` and
  `Renumbered` change the set of rows as expected; the ranks in a finite set are
  the numbers below its size (`RankOnto`), so compacting a whole table always
  succeeds, keeps its rows (`CompactLemma`) and leaves no gap (`CompactIsDense`).
* `StoreTypeCorrect`, `ChunksAreKept` (`NothingLost`): `TablesInv` is inductive.
  It adds that a name made from a digest belongs to the file with that digest,
  without which an upload might take the name of another document. It says
  nothing of what clerks hold: their lists may be as stale as they like.
* `OneClerkKeepsOrder` (`OrderKept`, one clerk): `ListInv` says that when a batch
  comes to renumber, either rows were only appended since it read its list, or a
  compaction has left no gaps; in the first case the map of ids is increasing,
  in the second a renumbering that does not collide changes nothing
  (`StaleListKeepsOrder`).

`CorpusIndexProofs`: any number of threads and processes, and no assumption on the
write lock beyond `WriteLock` at its weakest, which `FaissLock` always implements:
what the index promises does not depend on how long a rebuild takes or whose lock
file is removed.

* `IndexTypeCorrect`, `ServedFits` (`ServedIsInRange`): with deletions. `IndexInv`
  adds who holds `_INDEX_LOCK`, where those are that hold the write lock, and that
  a matrix and registry that are to be used together have one length.
* `FileIsPrefix`, `ServedAligned`, `VerifiedAligned`: of a corpus that only grows
  (`AppendSpec`). `GrowInv` says that the table has no gaps and that the file and
  every matrix in hand is what the table was at some time (`IsPast`); two such of
  one length are equal, which is why comparing counts is enough.

`FaissLockProofs`: any number of callers and any timeouts.

* `TypeCorrect`: under every schedule.
* `BriefHoldersExclude`: if no with-body outlasts the threshold
  (`MaxHold <= Stale`), at most one caller is inside until one leaves its file
  behind, by dying or by a removal that fails.
  `LockInv` says that the file exists exactly while its creator is inside and is as
  old as the stay; hence it is never stale and nobody gets to clear it. The
  assumption is needed: a holder that stays longer is taken for dead while it
  writes.
* `BriefLockImplements`: under the same assumption `FaissLock` implements
  `WriteLock`, step by step: creating the file enters, `release` leaves, a death in
  the with-body or a failed `release` orphans the file, a waiter that clears does so
  after that only or finds no file, and everything else, removals of a stale file
  that fail included, is a stutter.
* `AnyLockImplements`: however long callers stay, whoever dies and whatever cannot be
  removed, each step is one
  of `WriteLock` at its weakest (`orphaned <- TRUE`), on which `CorpusIndex` is built.
* `WriteLockExcludes`: from `WriteLock` alone, until a holder leaves it behind the file is
  there exactly while its one holder is.

`RescanProofs`: any number of scanners, pairs and faults, documents of any size and
any `top_k`.

* `RescanTypeCorrect`; `AlertsOnlyNew` (until a lock file is left behind),
  `AlertsComplete`: `RescanInv` counts, for each pair, alerts sent, alerts a pass
  still owes and rows inserted, and says that a row which has appeared since a pass
  looked, for a pair it holds as new, is one more than the pair has alerts. It
  needs that one scanner at a time is inside, which `LockInv` gets from the steps
  of `WriteLock` until a holder leaves its file behind.
* `OnlyReviewersDecide`: `DecisionsStand`.
* `NothingIsMissed`: `NoMatchMissed`, for every window, interval, length of a
  pass and number of failing passes that `WindowAssumption` allows. `TimeInv`
  says of each scanner that as long as a pair is missing, and no pass was unsure to
  find it, its younger document is young enough for the passes that may still fail
  and one more.

`TokenRevocationProofs`: any number of processes, threads and tokens.

* `TokenTypeCorrect`, `RevocationsSettle`, `PasswordChangesSettle`,
  `RefusalsAreEarned`: from `TokenInv`, which bounds the age of every FALSE: one
  in a cache was read at most `MaxLookup` before it was written, so before the
  commit, or the commit is younger than that; and says that every TRUE, in a
  cache or in hand, is of a condemned token. A SELECT that fails is the one step of a
  lookup that answers "valid" without a FALSE (`LateAnswer`), and since it writes no
  cache, `TokenInv` survives it.

`PassageDetectionProofs`: any texts, chunk sizes and limits.

* `DetectionTypeCorrect`, `WindowsOverlap`, `WindowsAreNew`, `WindowsAreCapped`,
  `PositionsAreUsable`: from what a search may yield (`EndLemma`, `NextLemma`);
  `ChunkInv` adds where the next window starts with respect to the last piece and
  that the pieces lie within the section.
* `PassagesAreSolid`: `MatchInv` says that the ranges of a group have no hole on
  either side, which a match that touches one of the group keeps, and that the
  groups partition the matches placed so far.
* `CoverageIsCounted` (`CoverageCounts`): `_union_length` is a fold over sorted
  ranges, and what a fold yields for every set needs an induction.
  `UnionLengthLemma` gets it from the well-foundedness of strict inclusion among
  the subsets of a finite set: of the sets of ranges for which the loop does not
  end with their number of positions and their greatest end (`Found`) take one
  that contains no other such set; the loop's last step (`FoundStep`) takes a
  range off it and so refutes it. The theorem assumes that the other document has finitely
  many chunks (`DetectionAssumption`).

`WordsKeptProofs`: any texts and limits.

* `NoWordIsLost` (`WordsKept`): `WordsInv` says that nothing is stripped from the
  front of a section, since each but the first begins with a heading; that behind
  the stripped text there are only spaces up to the section's end; and that
  without a cut by `max_chunks` the last piece reaches the end of the stripped
  text. Windows of which each starts before the end of the last then leave no
  hole: of the pieces that start at or before a position, the greatest holds it
  (`CoverLemma`). Merging the tail and leaving pieces out keeps that
  (`MergeCovers`, `CloseFiles`).

Only model-checked: everything about liveness and fairness
(`SubmittedJobEnds`, `StopTakesEffect`, `Settles`, `NeverLockedUp`,
`AcquireEnds`, `KeepsScanning`, `AlertArrives`), and what holds for two processes
of the queue beyond the theorems above.

## Findings

| Run | The code | What is said of it |
|---|---|---|
| `store_soft_delete_refused` | the second soft deletion can fail with IntegrityError: its ids are in `deleted_chunks` | docstring of `soft_delete_document` |

## Further behaviours

The models have further behaviours that differ from what a reader of the code or
its documentation may expect. No run is devoted to them; they explain why
the properties are stated as they are.

Queue:

* With two worker processes a late report reopens an ended job:
  `EndedIsFinal`, `ExclusiveProcessing` and `KeepsLifecycle` are therefore claimed
  of one process. Its first half is `RequeueWrite`: a starting process re-queues
  what other live processes are working on, while `TaskQueue`'s docstring speaks
  of jobs "whose worker died".
* `RetryDeadLetterJob` inserts a new row and leaves the dead one; its docstring
  says "Resets retry_count to 0 and status to PENDING".
* `MarkFailed`: a job is attempted `max_retries` times (`Budget`), not
  `1 + max_retries`.
* `StaleList`: of more than 1000 stale rows the older ones wait for the next
  start. `queue_ends` has fewer.

Corpus and index:

* `DeleteDocument`, `EmptyTrash`: the rows of a trashed document stay in
  `deleted_chunks`; if a file is uploaded under its name, trashed and restored,
  `Restore` brings back both.
* `PurgeOne`: a document that was restored while the purge goes through its
  list is deleted although it is live.
* `Accept`: with deletions, `sync-index` calls an index with the right number of
  wrong vectors synchronized (`docs/CLI_GUIDE.md:53`); the same index is also
  loaded, and its hits are reported under other documents. `VerifiedIsAligned`
  and `ServedIsAligned` are therefore claimed of a corpus that only grows.
* An index that the application has cached in Redis
  (`app/streamlit_app.py:1996`) is paired with the registry of the moment, and
  their sizes are not compared.

Lock:

* After a death inside, or a `release` whose `os.remove` fails, two waiters that
  find the stale file both get in: the first clears and creates, the second clears
  the new file (`concurrency.py:18` says "multi-process safe").
  `ExclusiveUntilOrphaned` is stated accordingly.
* `ClearFails`: while a stale file cannot be removed (`concurrency.py:57` logs the
  error, `81` goes round), `acquire` neither gets the lock nor looks at the
  timeout, and does not sleep: it spins for ever, and `ConcurrencyTimeoutError`,
  "Raised when the FAISS lock cannot be acquired within the timeout threshold"
  (`concurrency.py:11`), is not raised. `AcquireEnds` and `NeverLockedUp` name this exception.
* A holder that stays longer than `max(2 * timeout, 5)` seconds is taken for
  dead, and its `Release` then removes the next holder's file. The index does not
  depend on it (`CorpusIndexProofs`).

Rescan:

* After a death with the lock, or a `release` that fails, two scanners may be
  inside: both read that a pair is not on record, one inserts it, and both alert.
  `AlertsAreNew` therefore ends with the first file that is left behind.
* `Finds`: a search fetches 30 vectors and returns 10 hits (`top_k`). A document of
  30 chunks that are alike, or ten nearer chunks of other documents, hide a similar
  chunk in every pass, unless the search from the other document's side finds it
  while that one is recent; and an IVF or HNSW index may pass over it. Such a pair
  leaves the window unrecorded. `NoMatchMissed` excepts the pairs for which some
  pass could not be sure.
* The records of scheduler runs are written and never read: a restarted process
  scans at once. An exception or a death between the commit of the incidents and
  the dispatch loses their alerts for good, since the next pass finds the pairs on
  record; `NoAlertForgotten` excludes both.
* A document that is deleted and uploaded again, together with a session that
  syncs it, between `Known` and `Sync` brings an incident back that nobody
  announces.
* `upload_date` is naive local time, the cutoff is UTC: east of Greenwich the
  window is wider by the offset, west of it narrower (it counts in `Window`). A
  restored document keeps its old `upload_date`.
* `docker-compose.yml:25` sets `RESCAN_INTERVAL_MINUTES`; the code reads
  `CORPUS_RESCAN_INTERVAL_MINUTES` (`app_config.py:554`).

Tokens:

* "Immediately", the word of `api/routers/auth.py:276` for a revocation, holds in the process that
  served it, and there until a slower lookup overwrites the cached TRUE with the
  FALSE it read before; elsewhere it takes a time to live.
* `jwt_utils.py` accepts a token until `int(exp)` plus 10 s of clock skew, while
  the clean-up deletes its row at `int(exp)`: a revoked token is good for those
  seconds. `RevocationSettles` ends at the expiry.
* `ReadTableFails`: when the SELECT from `revoked_tokens` fails, the lookup answers
  `False` (`auth.py:1870`), so a revoked token is let in for that request, however
  long ago it was revoked; the docstring says "Return True if the token or its
  SHA-256 signature exists in revoked_tokens" (`auth.py:1792`). The answer is not
  cached. `RevocationSettles` names it as its only exception.
* `Hit` can raise `KeyError`, when the entry expires between the test and the
  access; the request then fails.
* A user's row that cannot be read is passed over, and the answer without it
  is cached for a time to live. `PasswordChangeSettles` excludes it.
* The stamp of a password change is taken before its UPDATE: one that waits
  overwrites a younger one, and a token issued between stamp and commit is not
  outdated.

Chunking and consolidation:

* A chunk size below `max_search` (100) lets the cap pull a window's end back
  behind the next start: `chunk_document(text, 60, 20)` can lose characters,
  contrary to `docs/CHUNKING_STRATEGIES.md:39`. `OverlapKept` and `WordsKept` ask
  for `LoopSize >= Forward`.
* White space in front of a section shifts its recorded offsets, and a merged
  tail loses as many characters (`text_chunking.py:693`: "Source offsets remain
  relative to the document").
* `consolidate` compares with the last group only: matches (s0, t0), (s0, t8),
  (s1, t0) give three passages although the first and the third overlap. Matches
  may also cross inside a group.
* `max_chunks` counts the pieces of a section before those with too few words
  are left out.
* The interface lets the overlap reach the chunk size, for which `chunk_text`
  raises `ValueError`; `ChunkAssumption` excludes it.

## Not modelled

`PROJECT.json` gives a reason for each part. In short:

* Analysis, parsing, reports and the user interface compute and render, with no
  state that interleaves. Connections and `with_sqlite_retry` are below the level
  of the models (a repeated transaction is one that happens later).
* The embedding migration has no caller and cannot run: `corpus_db.py:1711`
  takes columns by name from rows that are tuples. The rate limiter of the
  gateway and `EventDispatcher.dispatch` have no callers either. The token buckets
  of `security/rate_limiter.py` are read and updated under one lock.
* Account records, lockout, two-factor codes and SSO states; versions (appended
  in one `BEGIN IMMEDIATE` transaction), backups and history; the other caches.
* Of the modelled parts: `mark_dead_letter` of the task table, the low-level
  inserts of the corpus that only tests and importers use, edits of an index
  object in memory; purge, archive and bulk update of incidents, which nothing
  calls; in the chunker the other strategies (by sentences, by tokens, dynamic),
  `min_words` inside `chunk_text`, `sentence_padding=False`, byte counts,
  headings of DOCX files, surrogate pairs, masked initials and terminators of
  other scripts; similarity scores of passages.

## Plan

1. *Done*: `TaskQueue` with `JobLifecycle`, `CorpusStore`, `CorpusIndex`,
   `WriteLock`, `FaissLock`, `Rescan`, `TokenRevocation`, `TextChunking`,
   `MatchConsolidation` and `PassageDetection`; the safety properties of all of
   them as theorems, but for those listed above as only model-checked.
2. The account records of `db/auth.py` (roles, profiles, sign-in states) under
   requests from several processes.
3. An abstract `Catalogue` (a document is absent, live or in the trash, and is
   searched with its own chunks) that `CorpusStore` implements as long as names
   are not used again; the index cached in Redis.
4. The liveness arguments in prose beside their runs.
