# BitsysCerts: a verification project

BitsysCerts ingests public certificate transparency (CT) logs into PostgreSQL
and serves what it found. This directory holds TLA+ models of its ingestion,
of its maintenance and of what its API serves, the TLC runs that check them, and
TLAPS proofs of what matters most about them. Every definition is translated from the Python code; `PROJECT.json` names
the file and the lines each one stands for. Paths below are relative to
`src/ctpool/ctpool/` in the repository unless they start with `docs/`.

## 1. Inventory

| Component (code) | State it keeps | Operations | What is hard | What makes it correct |
|---|---|---|---|---|
| Per-log backfill dispatcher (`backfill_per_log.py`) | a worker's copy of the claimed row, the batch in hand, cooldowns | initialise windows, reap, claim, fetch, persist, save progress, handle failure, extend, complete, refresh, `--limit` | many processes on one table; every await is a place where another worker, the reaper or a restart comes in; the row is used long after it was read | no index below the checkpoint without an outcome; complete means covered; retries bounded; claims come back; logs finish |
| Claim store (`worker_claim.py`, `models/log_backfill_state.py`) | one row of `ct_log_backfill_state` per log | 15 SQL statements, some guarded by `claimed_by`, some not | which statement may undo what another worker has written | as above |
| Window initialisation (`backfill_state_init.py`, `backfill_pivot.py`) | window bounds of the row | create, realign on restart | reads the row without a lock, writes back the checkpoint it read | as above |
| Tail ingestion (`tail_worker.py`, `dispatcher_tail.py`) | lease and cursor rows, backoff per log in memory | lease, probe, cursor creation, fetch, persist, advance, heartbeat, release, reset | the lease times out under a slow batch; the cursor is written without looking at the lease | no entry between the first position and the cursor without an outcome; the cursor catches up |
| Legacy range backfill (`backfill_worker.py`, `dispatcher_backfill.py`, `backfill_seeder.py`) | rows of `ct_log_backfill_ranges` | seed, claim, heartbeat, batch, complete, fail, back to pending, reap | marks that do not look at the claim; one batch completes a range; a timeout under a slow batch | one worker per range; every range is completed; a complete range has been processed |
| Audit and repair (`audit_*.py`) | `ct_audit_findings` | query, read known keys, insert; repair, resolve, ignore | checks of two commands interleave; a query returns 500 rows, known or not; a repair inserts a range that may exist already; retention deletes what findings refer to | duplicates only from checks side by side; failures and gaps are found again whatever was closed |
| Entry persistence (`entry_persistence.py`, `writer.py`, `cert_writer.py`, `outcome_writer.py`, `hostname_latest_cert.py`, `retry.py`, `_cli_rebuild_impl.py`) | certificates, hostnames, join rows, observations, outcomes | one transaction per entry, with deadlock retries; rebuild of the summaries | row locks taken one by one; a certificate pruned under its entry; entries in any order | stored means stored whole; latest certificate is the right one in any order; no deadlock |
| Pruning (`_cli_prune_impl.py`, `prune_*.py`) | the same tables | select candidates, delete | candidates become current again between the two | only what was superseded is deleted |
| Storage profiles and settings (`instance_settings.py`, `storage_settings_history.py`, `_cli_prune_storage_profile_impl.py`, `certsapi/settings`) | settings rows, history, an advisory lock, run records | update, bootstrap, prune by profile | two writers of the history; a lock that lives on a pooled connection; a record written apart from the work | history agrees with the settings in force; one pruner; a record that is true, but for the certificates, which keep their failure to themselves |
| Contention control (`db_contention_*.py`) | one row: moving average, sleep, cap, streak | directive, merge, decay, recovery | workers with different requests share a cap; stale and unreadable rows | bounds; pressure never loosens; pressure ends |
| Rate limits (`rate_limiter.py`, `retry_after.py`) | backoff counters | hit, success | caps, resets | bounded, monotone backoff |
| Worker registry (`worker_registry.py`, `worker_reaper.py`, `worker_pool.py`) | `ct_worker_runtime` | register, heartbeat, stop, reap | a heartbeat crosses the reaper; a successor has the same identity | the dead are reaped and stay so; the living are listed |
| Maintenance (`maintenance_*.py`) | run records, its row in the registry | open, run, close | a crash leaves a record open | a finished record tells the truth |
| Log discovery (`log_discovery.py`, `log_prober.py`) | `ct_log_sources` | sync, probe | partial lists | eligibility follows the list |
| Certificate decoding (`leaf_decoder.py`, `parser.py`, `normalizer.py`) | none | pure decoding | formats | not modelled |
| Statistics, doctor (`stats_*.py`, `metrics.py`, `doctor_*.py`) | `ct_stats_snapshots`, `ingestion_metrics` | take, prune, assemble, project; count and write | counters reset before the commit; figures computed twice, in two ways, from settings read in two ways | counted once; both projections agree where they read the same; done means done |
| HTTP API (`certsapi`) | none of its own | serve statistics, search hostnames, read and change settings | age and payload read apart; pages while rows change | what is served is as fresh as it says; every row once |
| Command line, migrations, web application, release scripts | | | | not modelled |

The components meet in the database: workers share the rows of
`ct_log_backfill_state`, the tail leases and cursors, and the tables of entries.
There are no messages between workers; a worker learns of another one only by
reading a row it has changed. What a worker asks of a CT log (`get-sth`,
`get-entries`) may fail, be refused with a rate limit, or be answered in part.

## 2. Plan

Done is marked with *.

| Module | Models | Composes | Runs | Theorems |
|---|---|---|---|---|
| LogClaim * | the row and its SQL statements | | | lemmas on the row operators |
| PerLogBackfill * | the dispatcher | LogClaim | `backfill_claims`, `backfill_windows`, `progress`, 3 violations | types, coverage, completion, retry budget |
| BackfillPromise * | what a reader of the tables may rely on | implemented by PerLogBackfill | property of `backfill_claims` | refinement |
| TailIngest * | leases, cursor, reset | | `tail_coverage`, `progress` | types, coverage of the cursor, exclusion by the lease, direction of the cursor |
| LegacyRanges *, Audit * | ranges and their workers; findings, repairs, retention | Audit extends LegacyRanges | `legacy_audit`, 3 violations | types, exclusion, where duplicates come from, what a complete range has, chunks |
| MCProgress * | the fair behaviours of both | PerLogBackfill, TailIngest | `progress` | |
| MCAudit * | the settings in which the audit is checked | Audit | `legacy_audit` | |
| EntryStore * | entries, pruner and rebuild on the tables of certificates | | `services` | types, stored whole, no deadlock, latest is best, pruned is superseded |
| ProfilePrune * | lock, runs and record of the retention | | `services` | one prune at a time; the record is true |
| WorkerRegistry * | rows of the workers, reapers | | `services` | the dead stay stopped |
| StorageSettings * | settings, history, overlapping changes | | `services` | history agrees with the settings |
| ContentionControl * | the shared pacing | | `services` | bounds; pressure tightens |
| HostnamePaging * | keyset pages under changes | | `services` | every row once |
| StatsSnapshots * | snapshots and the endpoint that serves them | | `services` | what is served is fresh |
| StorageProjection * | the two projections | | `services` | they agree and are honest |
| IngestionMetrics * | counters and their rows | | `services` | counted once |
| MCServices * | the nine modules before it, one at a time | all nine | `services` | implements each of them; their safety together |

The order is that of importance: ingestion first, in the default
(per-log) mode; then the tail; then the legacy mode that is still selectable,
with the audit that depends on it; then what stores, deletes, paces and serves.
What could still be added: a refinement of `Audit` to an abstract ledger of
gaps, one of `TailIngest` to an abstract reader of the log, and log discovery.

## 3. The per-log backfill

### Correspondence with the code

`LogClaim` is the row of `ct_log_backfill_state` and one operator per SQL
statement of `worker_claim.py`, from the row it finds to the row it leaves. The
operators that look at `claimed_by` in their WHERE clause use `IfOwned`; those
that do not (`CompleteRow`, `ExtendRow`, `ReleaseRow`, `ReapRow`, `SetWindow`)
apply to whoever holds the log, as in the code.

`PerLogBackfill` is `run_backfill_per_log` and what it calls. `rows` is the
table, `outcomes` the indices with a row in `ct_entry_outcomes`, `worker` the
memory of each worker: where it is (`pc`), its copy of the row (`cur`, the ORM
object `current`), the batch (`pos`, `got`, `upto`), the oldest dates seen, the
failure in hand and the logs in cooldown. One action is one database
transaction or one network call; between two of them anything may happen.

| `pc` | The worker is at | Actions |
|---|---|---|
| down | not running | Start |
| init, window | `_initialize_states`, inside `initialize_log_window` | SkipWindow, CreateWindow, ReadWindow, WriteWindow, EnterLoop |
| loop, reap | top of the loop, inside `reap_stale_log_claims` | ReapSelect, ReapUpdate |
| claim | `claim_any_eligible_log` | Claim, NothingToClaim |
| drive | head of `_drive_one_log` | Fetch, BatchFails |
| persist | entries of the batch | PersistEntry, SaveProgress, BatchFails |
| failed | `_handle_batch_failure` | HandleFailure |
| release | after a rate limit | ReleaseClaim |
| observe | `update_observed_oldest` | ObserveOldest |
| decide | the window-complete test | ExtendWindow, MarkComplete, Refresh, LimitReached |
| refresh | the re-read of the row | Refresh, LimitReached |

The environment crashes a worker (`Crash`: any exit that leaves the claim
behind), lets a heartbeat or a retry deadline pass, and ends a cooldown. A
worker that starts again has the identity it had before: identities are
`hostname:pid:wN`, and in a container the process id repeats, so this is both
possible and the worst case.

`disturbed` is a history variable: the events that break the ownership of a
log. `overtaken`: a worker claims a log that another one still drives, because
its heartbeat went stale. `realigned`: a restarting worker moved the window
below what the checkpoint counts, or moved its end while somebody drives the
log or after it was complete. `short`: a log answered a batch with fewer entries
than were asked for and the checkpoint moved over the rest. The coverage
properties hold for every log without such an event and are stated so; the runs
`two_drivers` and `short_answers` show that the events do happen.

### Abstractions

Timestamps are only compared with the present, so a heartbeat is fresh or
stale and a deadline pending or past. Dates of certificates are only compared
with the coverage target, so they are `recent` or `old`. Error texts, counters
nobody reads and reporting are left out. Disk checks delay or end a pass
(`Crash`). Contention control and `--limit` choose the size of a batch, which is
any member of `BatchSizes`; a computed pivot is any member of `Pivots`.
`BatchFails` covers a failure of the fetch, of an outcome that cannot be
written and of the progress update.

### Properties

- `TypeOK`: the type invariant; its mutant breaks the floor of a window at 0.
- `CheckpointCovered`: every index of the window below the checkpoint has an
  outcome, so that resuming loses nothing.
- `CompletionCovered`: a complete log has an outcome for its whole window.
- `RetryBudgetHeld`: the retry counter stays below the attempts granted.
- `DispatchInv`: the inductive invariant of the proofs.
- `KeepsPromise`: the dispatcher implements `BackfillPromise`, an abstract
  ledger that records, moves windows and closes logs, and never forgets,
  reopens or closes early.
- `OrphanReclaimed`: a claim nobody works on does not stay.
- `CalmCompletes`: once nothing fails or restarts any more, every log with a
  window is completed, whatever the past has left in the tables.

## 4. The tail

`TailIngest` is `run_tail`, `_tail_one_log` and `_process_log_batch` for one
log, with the statements of `dispatcher_tail.py`. Logs share nothing but the
time of their workers, so one log is enough. `lease` is the row of
`ct_log_tail_leases` (an absent row is a free lease, `claim_tail_log` is an
upsert), `cursor` is `next_index` of `ct_log_tail_cursors` or `NoCursor`.

| `pc` | The worker is at | Actions |
|---|---|---|
| down, start | not running, `register_worker` | Start, Register |
| idle | between two batches, perhaps backing off | ClaimLease, BackoffExpires |
| probe | `fetch_sth` | Probe, RemoteFails |
| cursor | `ensure_tail_cursor` and the test for new entries | EnsureCursor |
| fetch | `fetch_entries` | Fetch, RemoteFails |
| persist | entries of the batch, then `advance_tail_cursor` | PersistEntry, Advance |
| beat, empty | `heartbeat_tail_lease` after a batch, or after an answer without entries | Heartbeat |
| release | the `finally` block | Release |

`Die` is any other exception or a cancellation inside the `try` (the lease is
released on the way out), `Crash` a kill or a regular exit between batches. The
log may serve a tree head behind its latest, answer a batch in part or not at
all. `ResetProbe` and `ResetWrite` are the operator's `reset-tail-cursors`, which
takes no lease. A refused claim changes nothing and is not an action.
`reap_stale_tail_leases` and `try_claim_tail_log` are called by tests only.

Three history variables serve the properties: `base` is where the cursor was
created, `skipped` the indices a reset has jumped over, and `disturbed` whether a
batch has outlived its lease (`slow`) or a reset has crossed a batch or gone back
(`reset`).

- `TailCovered`: from `base` to the cursor, every index has an outcome or was
  skipped by an operator. It needs no exception for leases that expire: the
  cursor is written without looking at the lease, but to an index up to which
  the writer itself has recorded everything.
- `OneAtWork`: as long as no batch outlives its lease, one worker at a time
  (the docstring of `_tail_one_log` says so without the condition).
- `CursorForward`: under the same condition and without a reset crossing a batch
  or going back, the cursor only moves forward. With such an event it may move
  back, and entries are fetched twice; a reset may be undone by the batch it
  crosses.
- `LeaseReturns`, `TailCatchesUp`: liveness, below.

## 5. Legacy ranges and their audit

`LegacyRanges` is the other backfill mode: `run_backfill_legacy`, `_run_one_range`
and the statements of `dispatcher_backfill.py`. A row of `ranges` is a chunk;
`next_index` is never written after the insert and `claimed_by` never read, so
neither is in the row. Instead of times, a claim is `claimed` or, past the claim
timeout, `stale`. `id` tells a row from the one that was deleted before it with
the same bounds, because the marks of a worker address the row by its id.

| `pc` | The worker is at | Actions |
|---|---|---|
| down, seed, seeding | start, `fetch_sth`, `create_backfill_ranges` | Start, ProbeTree, Seed |
| idle, claim | `reap_stale_backfill_claims`, `claim_backfill_range` | Reap, Claim, LimitPasses |
| start, fetch, persist | `_run_one_range` | Heartbeat, Fetch, PersistEntry, Complete, BatchFails, RateLimited |
| fail, requeue | the exception handlers | MarkFailed, MarkPending |

`Audit` adds the four checks that have a query, each repair, the resolution of
orphaned repairs, `--ignore`, and the retention that deletes complete ranges and
outcomes.

A check is three statements under READ COMMITTED, and so three actions: `QueryRows`
reads what it is about, `ReadKeys` the keys that are known, `InsertFindings` adds the
rest, and fails if a row it refers to is gone. There is no unique constraint, so the
checks of two commands (the maintenance loop runs `run_check_audit_gaps`, and so does
an operator) may both find a key unknown. `Checker` is the set of checks that may be
under way at once; a finding remembers which one inserted it (`by`, a history field).
The checks of one command run one after the other and commit together; in the model
each commits by itself, which lets others see it earlier. A query returns at most
`QueryLimit` rows, 500 in the code, before the known ones are taken out: `Answers` has
the sets it may return, ordered by what is missing or by index where the statement
orders so, and any of them where it orders by a time. A repair runs in a savepoint of
its own and is one action, since what changes between the loading of a finding and its
repair might as well change before the one or after the other. A finding in a terminal
state is never read again; its identity is used anew.

- `ChunksPartition`: the chunks cover the interval without overlap, over
  small intervals and chunk sizes, whenever a worker is about to seed a log.
- `CompletedHasBatch`: nobody completes a range that was not processed, for a
  batch at least; neither a failure, nor a lost claim, nor a repair.
- `OneWorkerPerRange`: two workers run a range only after a claim outlived its
  timeout under its worker, or a late repair took it away.
- `DuplicatesFromOverlap`: no checker reports what it has reported already, so two
  findings about one thing come from checks that ran side by side.
  `NoDuplicateFindings`, that there is one for each key, is what the code says of
  itself and does not do (finding 6).
- `FailedRequeued`, `GapReported`, `RangesComplete`: liveness; failures are put
  back, gaps are reported again whatever was closed, and every range is
  completed by a worker that stays up. The first two hold as long as no more rows
  qualify than the query returns. Without that premise `GapReported` does not hold:
  findings that stay open, or `repair_attempted`, keep their ranges at the head of
  the query, and a gap beyond them is never seen.
- `RangeAccounted`, `RepairRequeues`: what the code says of itself and does not
  do; findings 4 and 5.

## 6. The services around the ingestion

These components share no rows with each other in a way that matters, so
`MCServices` checks them in one run: `part` names the one component that moves in
a behaviour. Each module is a specification of its own.

**EntryStore**: the transaction of an entry statement by statement
(`persist_entry_with_retry`, `write_normalized_entry`). READ COMMITTED: what a
writer has changed is in its record until `StoreCommit`, its rows are locked, and
who needs a locked row waits, or is ended by the database and retried
(`StoreRetry`). Beside it the pruner of expired certificates in two steps
(`PruneSelect`, `PruneDelete`), the pruning of observations, and the rebuild of
the summaries (`RebuildRank`, `RebuildUpdate`).
`StoredIsWhole`: an entry reported as stored left nothing half.
`LatestIsBest`: the summary of a hostname is never behind a certificate joined to
it, whatever the order, unless a worker has joined a certificate to a hostname
between its ranking by the rebuild and the writing of it (`overtaken`: the two
are apart, and the rebuild writes what it ranked). `NoWaitCycle`: sorted hostnames
exclude deadlocks, among any number of workers.
`PrunesOnlySuperseded`: the pruner deletes a latest certificate only if it became
the latest after the selection.

**ProfilePrune**: the retention run. The advisory lock belongs to a connection;
`TryLock` has the three outcomes of `_try_acquire_lock` (taken, refused, an error,
which counts as taken), `ConnectionLost` is the pool replacing the connection.
`ProcessCategory` goes through a category to the end of its deletions; the first of
them, the certificates, is a command of its own (`run_prune_expired_certs`), which
opens a row in `ct_prune_runs` (`OpenCertPrune`) and closes it (`CloseCertPrune`) as
complete or as failed, and raises nothing in either case, so that the run goes on.
An error before the row or while it is closed does end the run (`CategoriesEnd`).
`OneProfilePrune`; `EnforcedMeansPruned`: a finished run that is reported as enforcing
the retention has gone through every category it had planned, except perhaps the
certificates, and then `ct_prune_runs` has the failure. The doctor reads that table;
`is_lite_enforced`, from which the dashboard says so, does not.

**WorkerRegistry**: the rows of the workers; `ReapSelect` and `ReapUpdate` are the
two statements of the reaper, in the snapshot loop after its own heartbeat in the
same transaction, or in the operator's command; a live request to the statistics
endpoint runs the same reaper as the operator. `GoneStaysStopped`,
`GoneIsReaped`, `AliveIsListed`.

**StorageSettings**: a change is a row of settings and, in the same transaction,
the update that clears `is_current` (`ClearBegins` with the rows it sees,
`ClearEnds` when it has their locks) and the upsert of the history.
`SettledIsCurrent`: overlapping changes may leave two current rows, or a current
row that is not in force; any change that meets no other one repairs that.

**ContentionControl**: `_next_state` on integers: ratios are in the unit of the
column, which rounds the average, and stale rows fall back to the baseline.
`PacingBounded`, `PressureNeverLoosens`, `PressureEnds`.

**HostnamePaging**: a client walks the pages while dates change. A page is the set
of the rows found that have fewer than `limit` others before them, and `got` counts
how often each was returned, so the order inside a page is left to `Before`.
`PagedOnce`: every hostname with a date that did not change on the way is returned
exactly once; a walk ends early only in ascending order, after a page of nothing
but hostnames without a date.

**StatsSnapshots**: `take_snapshot_once` beside the requests, which read the age
twice and the payload once, in three statements. `ServedFresh`.

**StorageProjection**: the two computations of progress and size, from the same
tables. The legacy ranges that are planned may be none, so that both fall back on the
sizes of the logs. Of the settings there may be several rows, since every change
inserts one: the live builder reads the latest, the snapshot whichever comes first
(`read`), and each has its own estimate (`LiveEstimate`, `SnapshotEstimate`).
`ProjectionsHonest`: from one plan the builders report the same progress, and the
same sizes if the settings they read are estimated alike; with no range planned
they plan the same; and whatever the settings, a
response finds nothing left only when nothing is left. A range of one entry counts nothing
in the snapshot, whose query takes the inclusive end as exclusive.

**IngestionMetrics**: counters in memory, rows in transactions of their own.
`CountedOnce`: no certificate is counted twice; none is lost without a lost
process or transaction.

`ServicesTypeOK` is the conjunction of the types.

## 7. Runs

| Run | What it shows | Bounds |
|---|---|---|
| `backfill_claims` | two workers, one log, claims, reaps, rate limits with a hint, crashes, restarts: coverage, completion, retry budget, the inductive invariant and the refinement | window of one index with one extension, batches of one entry, two attempts; symmetric workers |
| `backfill_windows` | realigned and extended windows, short answers: coverage and completion | windows 0..1 and 1..1, one extension, index 1 reaches the target date, `--limit` |
| `progress` | liveness under fairness, of the backfill or of the tail, which share nothing (`part` in `MCProgress`) | backfill: one index, no extension, one attempt, `--limit`, failures of class transient; tail: a log of one entry |
| `two_drivers` (violation) | a batch slower than the heartbeat timeout gives a log two drivers | as `backfill_claims`, without failures |
| `tail_coverage` | two tail workers with everything that can happen to them: types, coverage, exclusion, direction of the cursor, the inductive invariant | a log of up to two entries, batches of one or two, first cursor one entry before the edge; symmetric workers |
| `short_answers` (violation) | a short answer leaves indices behind the checkpoint | short answers |
| `degraded_release` (violation) | a log degraded by rate limiting is claimable at once | rate limits |
| `legacy_audit` | workers, seeding, failures, crashes, stale claims, every check statement by statement, every repair, retention: exclusion, where duplicates come from, what a complete range has, and liveness | four settings, below; chunks of one entry, queries that return one row, two findings per key, one key under a finding at a time, one deleted range, one deleted outcome or ignored finding |
| `ranges_completed_early` (violation) | one batch completes a range of two | a chunk of two entries, batches of one, one worker |
| `repair_requeued` (violation) | the repair of a gap puts nothing back | one chunk, one worker |
| `duplicate_findings` (violation) | two checks report the same range | one chunk, one worker, two checkers |
| `services` | the nine components of section 6, one per behaviour: their safety, what a step may never do, and the liveness of the registry and the pacing | two actors of each kind; the constants are in the cfg |

Why these bounds are enough: no transaction of a worker touches two logs except
the update of the reaper, which treats each row on its own, so one log shows
every interaction between workers. Two workers show every race, because all
races are between one that holds a stale copy and one that acts on the row; the
proofs remove the bound. Batches of one entry in a window of one or two indices
with one extension reach the first batch, the last batch, the empty batch after
the end, an extension to 0 and the refusal of a further one. Two attempts
distinguish the retry from the exhausted budget.

For the tail, a log of two entries distinguishes a full batch, a batch cut by
the tree, a batch answered in part, and a cursor that a slow worker or a reset
moves back; the tree grows between any two steps. For progress one entry is
enough to be behind, to catch up, and to be thrown back by what other workers
have left.

For the legacy ranges, the races are between workers, checks, findings and retention
on one row, so one chunk shows them; that a batch may be shorter than its chunk is
the business of `ranges_completed_early`. `MCAudit` takes them in four settings, so
that liveness is in reach: two workers (only there may a claim outlive its timeout
under its worker, or a repair take a live claim for a stale one); one worker beside retention and operators who wave findings aside; one worker and two
checkers side by side; and two chunks with a query that returns one row, where the
limit hides a range (claims do not time out there). `Restricted` is what a setting
leaves out. Two findings of the same key are
enough for a duplicate. A retention or an operator who acts once is enough to take
away what a finding or a worker still refers to. The proofs are about `Audit`, where
everything happens at once.

For the services: two writers with three certificates (two that differ in nothing
but the fingerprint, and a renewal) and two hostnames reach waiting, retries, a
tie, a superseded and a re-pinned certificate; `MaxClock` bounds the transactions
and not their order. Two pruners and two runs reach a refusal, a crash, and a record
that another one overtakes; every plan of the run has the certificates and one
category after them, and one of the invocations, the maintenance loop, deletes while
the other is an operator's dry run (`PlansRead`; any plans and modes in the proof). Two workers with two rows reach a successor under the
same identity. Two clients and three changes reach two overlapping changes and one
after them. In the pacing, requests of 6 and 1 on both sides of the minimum 2, a
step that does not divide the maximal sleep, and ratios below, between and above
the thresholds of the average reach every branch. Three hostnames, two dates and pages
of one and two reach ties, rows without a date and a page that ends on each. Three
seconds reach a snapshot that is recent, stale, too old, and pruned. The figures of
the projection are all combinations for two ranges, each planned or not, the logs
behind or past their size, and up to two rows of settings of which the snapshot
reads either.

`CHECK_DEADLOCK` is off only in `services`, where a component comes to rest at its
bounds (a bounded clock, or a projection, which is a function of its figures).

### Fairness

`FairSpec` assumes weak fairness of the steps of each process that is up
(asyncio schedules every task, and each awaited call returns or raises), of the
heartbeat of an orphaned claim growing stale (time passes and nobody renews it),
and of deadlines and cooldowns passing. It does not assume that a worker
starts, that a particular batch succeeds, or that the heartbeat of a live worker
grows stale. `CalmCompletes` needs the system to be calm eventually, and says
what that means: no restarts, no reaping of live workers, no failed batch except
the one that asks for an empty range. `CalmCompletes` includes the case of a
crash between the last batch and `mark_log_complete`: the next owner asks the
log for an empty range, fails, handles the failure and completes the log.

For the tail, fairness is the same: processes that are up keep running, an
orphaned lease grows stale, a backoff passes. `TailCatchesUp` asks for calm in
the sense of `TailIngest!Calm`: the log answers with entries and its latest
head, nobody restarts, fails or resets. `LeaseReturns` asks for nothing but one
worker that stays up.

For the legacy ranges, workers that are up keep running, a claim nobody works on
grows stale, and the audit and its repairs are run again and again, as the
commands are meant to be; they come to an end and may not fail for ever. An action
that disables itself is weakly fair just when it is disabled again and again, and
`Audit!Fairness` is written so (`[]<>` of a state) except for the workers' steps. `RangesComplete` asks for
calm as well: one worker stays up, and from some time on no batch fails.

For the registry, a loop that is alive goes on, the operator's command ends, and
time passes for every row (`RegistryFairness`); nobody has to start, and
`GoneIsReaped` asks for a snapshot loop that gets to its work again and again.
For the pacing, workers go on and do not fail to submit for ever, which is the
only strong fairness (`ContentionFairness`): a submission may fail, and be made
again with the next batch. The run states the fairness of the registry without
condition, since it asks nothing of a registry that rests, and that of the pacing
for behaviours of its part.

## 8. Proofs

`PerLogBackfillProofs` holds for any set of
workers and logs and any value of the constants, from two assumptions:
`NoWorkerAssumption` (no worker is named NULL) and `ConstantsAssumption` (the
constants have their types and a probe never computes a first index behind the
last one).

- `TypeCorrect`: types. The lemmas `RowOperatorsType`, `WindowRowsType`,
  `SnapshotType`, `ProcessOperatorsType` and `FailedRowType` type the operators
  once; `TypeStep` has one step per action.
- `CoverageInvariant`, from which `CheckpointSound` and `CompletionSound`
  follow. The two properties are not inductive: the checkpoint a worker saves
  comes from its copy of the row. `SnapshotCovered` says what that copy is worth
  at each point of the batch, and to keep it, one needs that a log without an
  event has at most one driver (`OneDriver`), that only drivers and initialisers
  hold a log (`LogsInHand`) and that a held log has a row (`HeldLogsExist`).
  `CoverageFromParts` and `QuietStep` reduce each action to the one log and the
  one worker it touches.
- `RetryBudgetSound` and `DispatchInvariant`: the counter is incremented in the
  table and compared in memory; `OwnerCountsRight` says that the two agree as
  long as the worker owns the log.
- `PromiseKept`: the refinement. Every step is a step of the ledger or a
  stutter: a persisted entry records, a created, realigned or extended window
  moves, a completion closes, an event excuses. `LedgerInv` adds to the
  invariant that a complete log never loses its row.

`TailIngestProofs`, for any workers, batch sizes and log size, from
`TailAssumption`:

- `TailTypeCorrect`: types.
- `TailInvariant`, from which `TailNeverSkips` and `LeaseSeparates` follow.
  `BatchCovered` says what a worker's indices are worth (everything from `base` to
  the start of its batch, and from there to the entry in hand), which is
  independent of who holds the lease. `WorkerHoldsLease` says that the worker at
  work is the one with a fresh lease as long as none was outlived, and
  `BatchAtCursor` that the cursor then stands where its batch began.
  `LeaseStep`, `CursorStep` and `CoverStep` preserve one part each.
- `CursorMovesForward`: the action property, from the same invariant.

`AuditProofs`, for any log, workers, chunks and bounds, from `LegacyAssumption`
and `AuditAssumption`:

- `AuditTypeCorrect`: types, one step per action of the workers, the checks, the
  repairs and the retention.
- `RangesHaveOneWorker`, from `ClaimsHeld` and `ClaimsApart`: as long as nothing was
  disturbed, the row of a worker's job is the one it claimed, still claimed, and no
  other worker has it.
- `CompletedIsProcessed`, from `Answered`: whatever becomes of its claim, a worker
  in the middle of a batch has outcomes for all it has gone through, and unless the
  log answered with less, has asked for the smallest batch at least.
- `DuplicatesNeedOverlap`. `HandIsNew` is the strengthening: what a checker holds and
  has found unknown, it has not reported itself. Nobody else inserts in its name; a
  finding could come to such a key only by a repair that makes the row anew, and
  that row has an id that no checker has in hand (`IdsOfPast`, `HandOfPast`,
  `RecreatedIsNew`), since retention counts the ids up. `KeysOfRows` says that a
  finding that refers to a range refers to the row that is there.
- `ChunksPartitionInterval`, about the operator `Chunks`: for every interval and
  every length of a chunk the chunks are a partition. It rests on facts about
  multiples and remainders (`MultipleMod`, `MultiplesApart`, `MultipleBelow`).
  `SeededChunksPartition` is the case the run checks.

`EntryStoreProofs`, from `StoreAssumption` (finitely many entries and workers; the
fingerprint determines the certificate):

- `StoreTypeCorrect`: types of the rows, of a transaction and of a batch.
- `StoredEntriesAreWhole`, from `Sound`: where a transaction stands, what it has
  joined and still has to (`InProgress`), that the certificate it refers to is
  there (`Rooted`), that an entry stored is whole (`Whole`), that one writer at a
  time inserts a certificate (`InsertsAlone`) and that a join keeps its certificate
  from being deleted (`JoinsHold`); and from `Summarised`.
- `WorkersNeverDeadlock`: a worker holds only hostnames before the one it waits
  for, so of any group the one that waits for the greatest name waits for nobody in
  it. A worker that waits for a certificate holds nothing yet.
- `SummaryIsLatest`, from `LocksExclude` (no two writers have changed the same
  hostname), `TouchedIsAhead`, `RankIsAhead` and `LatestIsAhead`: what a writer, the
  rebuild and the table hold of a hostname is never behind what is joined to it.
  This proof did not go through with an earlier definition of `overtaken`, which
  looked at whether a summary had changed: a certificate that is joined without
  changing the summary is overtaken as well, which only a larger clock than that
  of the run would have shown. The history variable now records the join.
- `PrunedIsSuperseded`: the action property, from `StillSuperseded`.

`ReportingProofs`, about what is reported:

- `ServedIsFresh`. The property speaks of a payload that is read last;
  `AgesWarranted` says that as long as a request waits, a row is there that is as
  young as the age it has read, which pruning keeps because it only takes rows that
  are older than the newest, and `NothingAhead` that no row is younger than now.
- `CertificatesCountedOnce`, from `NothingKept`: a worker that is idle, or has
  written its counters, holds no count. The sum over the workers changes by what
  one of them changes (`HeldChange`).
- `ProjectionsAgree`: not an invariant of steps but of data: any ranges planned, any
  rows of settings. `SameProjection` compares the two builders on one plan, the
  progress always and the sizes where `SnapshotEstimate` equals `LiveEstimate`
  (`EstimatesAre` types both). A projection is done
  when two sums over the ranges are equal, and sums of which one is termwise the
  smaller are equal only if the terms are (`SumMonotone`).
- `SearchesArePagedOnce`. `PageIsPrefix`: a page is a first part of what is found,
  everything if there is no next page, and has a last row otherwise.
  `SearchReturnsOnce`: what is past the new cursor is what was found and not
  returned (`PastIsAfter`). The inductive invariant `WalkOn` says, of a walk that
  goes on and of every hostname that did not change, that it has been returned once
  if it lies behind the cursor and not at all if it lies ahead.

`OperationsProofs`, about what keeps the system running:

- `ProfileTypeCorrect`; `PrunesApart`, from `HoldsLock` (who works holds the lock);
  `EnforcedIsTrue`, from `RunsApart` (each run has one owner), `RunsOpen` (a run at
  work is still recorded as running, and what it missed it will report, or is the
  certificates and is in `ct_prune_runs`) and `CompleteIsWhole`. It does not say
  that certificates were pruned, which the code does not ensure.
- `RegistryInvariant`, types and where a reaping loop stands; `GoneStays`, the
  action property.
- `PacingInBounds`, whose cap is `Justified` by the minimum or by some worker's
  request; `PressureTightens`, the action property.
- `SettingsTypeCorrect`; `SettledAgrees`, from `TimesPast` (times grow),
  `AloneIsLast` (a change that meets no other one sees all that was committed and
  clears it), `SomeCurrent` and `InForce`.

`ServicesProofs`, about the composition: `ServicesImplement` shows that a behaviour
of `MCServices` is one of every component in it, since a step is one of the
component that moves and a stutter of the others; `ServicesTypeCorrect` and
`ServicesSafe` then carry what is proved of each to the specification the run
checks, but for `ProjectionsHonest`, which is about initial states, and
`PressureNeverLoosens`, whose theorem is about the component with its fairness.
They do not use the values the run gives to the constants.

`FiniteData` has the lemmas about data the others need. The prover cannot
instantiate an induction theorem, which takes the formula as a parameter, so
induction is done on sets instead: what holds of a subset as soon as it holds of
all smaller ones holds of the whole set (`SubsetInduction`, from the well-founded
order of finite subsets), where "holds" is membership in a set. From it follow
`LeastNatural`, `GreatestElement` (of a finite set in a total order), and that the
fold behind `SumFunctionOnSet` is a sum: `SumRemove`, `SumExcept`, `SumMonotone`.

Only checked by TLC: the liveness properties (`OrphanReclaimed`, `CalmCompletes`,
`LeaseReturns`, `TailCatchesUp`, `FailedRequeued`, `GapReported`, `RangesComplete`,
`GoneIsReaped`, `AliveIsListed`, `PressureEnds`), since fairness is outside the
prover's reach. Every invariant and every action property of the passing runs has a
theorem. The inductive invariants of the dispatcher and of the tail are checked by
runs too; those of the entry store and of the search were checked by TLC on small
instances before they were proved.

A note for whoever extends the proofs: an EXCEPT that names the same worker
twice (`![w].a = .., ![w].b = ..`) is mistranslated by version 1.4.5 of the
prover, in a way that makes obligations trivially provable. The modules use one
EXCEPT of the worker's record instead, and never `@` inside it.

## 9. Findings

1. `two_drivers`: `docs/ARCHITECTURE.md` promises one worker per log at any
   time. The heartbeat is renewed when a batch ends, so a slow batch is reaped
   and another worker drives the log beside the first one.
2. `short_answers`: `entry_persistence.py` says that progress follows durable
   accounting. The per-log dispatcher advances by what it asked for, not by what
   it got; the tail worker advances by what it got.
3. `degraded_release`: a log whose budget is exhausted by rate limits becomes
   degraded with a deadline, and the next transaction releases it to pending,
   where the deadline does not count.
4. `ranges_completed_early`: `models/entry_outcome.py` says that a range advances
   when every index has a row. A legacy worker fetches one batch of a range, at
   most the batch size, and marks the whole range complete.
5. `repair_requeued`: `outcome_constants.py` says that the repair of a missing
   outcome re-queues the range. The repair range has the bounds of the range it
   repairs, and is not inserted as long as that one has its row.
6. `duplicate_findings`: `audit_checker.py` says that there is one open finding for
   each key. Its three statements interleave with those of another command, and no
   constraint of the table stops the second insert. `DuplicatesFromOverlap` says
   what remains true.

Other places where the code and its words differ, met while reading, without a run
of their own:

- `_cli_repair_audit_impl.py`: the orphaned repairs are resolved and committed in a
  dry run too, which the docstring excludes. A finding that is ignored while a
  repair run holds it is revived by that run. `audit_queries.py`: the
  docstring on failed ranges names an exclusion that the statement does not have.
- `audit_queries.py`: the 500 rows of a query (lines 46, 70, 111, 141) are counted
  before known findings are taken out. As long as 500 known gaps persist (findings
  that nobody repairs, or whose repair re-queues nothing, finding 5) a further gap is
  never reported, and so with failed ranges and stale claims. `FailedRequeued` and
  `GapReported` exclude such times; `QueryLimit` is 1 in the run.
- `_cli_prune_storage_profile_impl.py`: every invocation is said to write a run
  record; one that is refused the lock writes none. A dry run that is
  still running counts as enforcing the retention. An error of the lock's
  statement counts as success.
- `_cli_prune_impl.py`, lines 141-144: a failure to delete expired certificates is
  caught and kept in `ct_prune_runs`. The retention run goes on, is closed as
  complete, and `is_lite_enforced` reports it as enforcing a retention that was not
  applied to the certificates. `EnforcedMeansPruned` says so of the certificates and
  promises the rest.
- Once retention has deleted all complete ranges of a log, a legacy worker that
  starts finds none and seeds the log again.
- `worker_registry.py`: "insert or refresh"; a start always inserts.
- `_cli_rebuild_impl.py`: "every hostname"; the rebuild stops at the first batch in
  which no hostname has a certificate. It ranks without the date of observation,
  which `should_update_latest_cert` uses.
- `certsapi/settings`: an update is not checked against the profiles the way
  `instance_settings.update_settings`, which has no caller, does. The hash of the
  history leaves out `metrics_retention_days`.
- `certsapi/stats/service.py`: a request falls back to live queries, which
  `docs/PRD.md` (API-10) excludes; if the age cannot be read, a payload up to the
  refresh interval old is served without a mark. The time of a row is that of its
  insert, after the figures were read. The threshold of the command line (90 s)
  is said to mirror that of the API, which is 360 s.
- The two projections differ in their plans: inclusive sizes against exclusive
  ones, and ranges in progress counted only live. They also differ in the settings
  they estimate by: `query_active_instance_settings` ("Return the active
  CtInstanceSettings row", `stats_queries.py:352`) takes one row without an order,
  and there is one for every change made so far; the live response takes the latest.
- `certsapi/hostnames`: an ascending search ends after a page whose last row has
  no date; rows without a date never appear on later descending pages.
- A contention row in which every figure is zero is taken for one that was never
  written, so that the next ratio replaces the average instead of joining it.

## 10. Not modelled

- Decoding of certificates: pure functions over an X.509 library.
- Log discovery: one upsert per log and a probe; the dispatchers' logs are the
  eligible ones, and that a log becomes ineligible is left out.
- The command line, migrations, the web application and release scripts: no
  behaviour over time of their own.
- Of modelled components: the doctor and the assembly of the statistics, which
  read and print; the endpoints of the API that return one row or a list; the
  batch cap of the contention control switched off; the interval of the
  maintenance loop; the dry runs, which change nothing but the record of a
  profile prune.
- `settings_cache.py`, `rate_limiter.py`, `record_profile_on_startup` and
  `maybe_prune_metrics` have no caller in the program.
