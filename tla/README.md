# A verification of Journeys

Journeys is a .NET back end for loyalty programmes. It ingests files of events,
evaluates campaigns and their journeys on every event, and keeps accounts with
points. This directory holds TLA+ modules of its core logic, the configurations
that check them with TLC, and theorems about them whose proofs TLAPS checks.
Unless a path starts with `src/`, it is relative to `src/Journeys/`.

To check a run: `tlc -config <run>.cfg <MC module>.tla`; a proof:
`tlapm <module>.tla`. `PROJECT.json` lists the runs with their modules, which
lines of the source every definition stands for, one mutation per checked
property that breaks it, and the hazards the properties are aimed at.

## 1. The system

The store is a set of JSON documents behind a REST API. A document carries an
ETag, and a write that sends one is refused with 412 when the stored one
differs; a write with a null ETag is unconditional. There is no transaction
over two documents. Several nodes run the same process; they share the store,
the data lake and the distributed cache, and nothing else. So the hard
behaviour is always the same kind: read-modify-write over documents, leases
kept in a document, retries, two documents that must change together, and runs
that stop half way.

### Inventory

| Component | State | Operations | Interacts with | Hard behaviour | What makes it correct |
|---|---|---|---|---|---|
| Batch job claiming (`Core/Services/Ingest/JobClaimService`, `DAL/Adapters/BatchJobAdapter`, `API/Services/ChunkJobProcessor`) | job documents (Status, ClaimedBy, ClaimExpiration, ETag); per node a `_claimLock` and a pool of slots | claim up to five jobs under a lease, start, complete, fail, reset by an operator | job documents of the run and of the operator | nodes race for one job, leases expire while a job waits for a slot, full-document writes with and without ETag, crashes | one runner per start, takeovers only after expiry, status moves forward, every job ends |
| Batch job run (`IngestService.RunAsync`, `BatchJobService`, `ResumabilityService`, `BatchResultFileService`) | ProcessedLines of the document, two counters in memory, an uncommitted result stream | read, skip, process, save progress, commit, report, resume | event service for every line; the claim for start and report | two counters writing one field, stale ETags, crash between processing and saving | no line is lost, repeated work is bounded, results match the lines, every run reports |
| Event turn on an account (`EventService`, `RulesService`, `LoyaltyAccountService.TryLockAccount`, `StateUtility`) | account document (RuleState, Journeys, lease), TTL documents, event wrappers | process an event, enter or exit a tier by hand, account event | point ledgers, notifications, operators | a 500 ms lease in the document, saves in the middle of a turn, parallel final writes, journeys read before the lock | one turn at a time, counts agree with TTL documents, journeys are not lost, every request is answered |
| Point ledgers (`LoyaltyAccountService`, `LoyaltyAccountPointLedgerAdapter`) | ledger documents, a static semaphore per account and node, the account's lease | deposit, withdraw, bulk forms, expire, bring current | the lease of the account, outcomes of a turn | expiration over two documents with retry and rollback, a second lease under the first, re-sent deposits | balance and entries agree, no entry is in neither ledger, expired points are credited once, the semaphore is given back |
| File import (`IngestService.CreateBatchJobsFromBlobUriAsync`, `BatchFileService`, `FileChunkingService`, `BlobCreatedEventController`) | batch files, parent and chunk job documents, the uploaded lines | find or store a batch file and its parent job, upload, cut into chunks, store a job per chunk | EventGrid (delivers at least once), job claiming (takes jobs as soon as they are stored) | check-then-create, a parent claimable before upload and chunks, a delivery cut short and sent again | every line is processed or shows as failed, repeated work is bounded, chunks partition the lines |
| Caches (`Core/Caching`) | memory cache per node, distributed cache, a dictionary of semaphores per node, list of tenant keys | get or create, bypass, set, invalidate, expire | every reader of campaigns, models and point types | a semaphore removed and disposed while others refer to it, invalidation on one node beside a factory on another | the lock of a key is usable, exclusive and cleaned up, calls return, old values go |
| Journey engine (`Core/RulesEngine`) | the account's journeys during a turn | enter, exit, transition, evaluate rules, outcomes | event turn | recursion over nodes while the journeys change | an account is in one node per exclusive journey, navigation ends |
| Resettlement (`EventService.ResettleAccountInternalAsync`, `RulesService.ResettleAccountJourneysAsync`) | as the event turn | re-evaluate an account without an event, on request and whenever it is read by its external id | event turn | the lease, a turn under way | as the event turn |
| Campaign authoring (`CampaignService`, validators) | campaign documents | upsert, validate, materialise, delete | caches, journey engine | validation of a graph of nodes | functions of one document, covered by unit tests |
| Campaign agent (`API/CampaignAgent`, `Core/Workflow`, `CampaignAgent.Remediation`, `Agent`) | threads, workflow phase, messages | chat turn, tool call, phase gate | campaign authoring | ordering of phases | a gate is not skipped |
| External references (`DAL/Adapters/ReferenceableBaseAdapter`) | entity and reference documents | upsert, look up | all entities | two documents per upsert | one entity per reference |
| Transactions of the developer tools (`.cursor/tools/aidlc-transaction.ts`) | files and trees, a lock file, staging directories | carry out a plan of file operations, roll back, take over a stale lock | other processes of the tools, editors | stale locks taken by several processes, death or failure between any two renames | one process changes files at a time, all or nothing, nothing is lost |
| Controllers, MCP, A2A, consumers, notifications, reports, audit, authentication, SDK wrappers, the rest of the developer tooling | none that a later step depends on | translate and forward | all of the above | – | – |

The `components` of `PROJECT.json` list each of them with its files and status.

## 2. Modules

| Module | Models | Extends or uses |
|---|---|---|
| `JobQueue` | what the claim protocol promises: a job is open, running or done, has one runner while it runs, and is started once | – |
| `BatchJobClaim` | claim, start, run and finish of jobs on several nodes | instantiates `JobQueue` |
| `BatchJobRun` | one job's runs, line by line, with its progress and result files | – |
| `AccountTurn` | turns of events, resettlements and operators' calls on one account | – |
| `AccountPoints` | deposits, withdrawals and expirations of points on two ledgers of one account | – |
| `HybridCache` | one key of the two-level cache on several nodes | – |
| `FileImport` | the import of one blob by several deliveries, and the workers meanwhile | – |
| `FileTransaction` | transactions of the developer tools over files and trees | – |
| `MC…` | instances for TLC | the module of that name |
| `…Proofs` | theorems and their proofs | the module of that name, TLAPS |

`BatchJobClaim` and `BatchJobRun` meet at the job document and are separate on
purpose. `AccountTurn` and `AccountPoints` meet at the lease in the account
document; each has it with its own holders. `FileImport` has the claim of a job
as one step and the run of a job as another, which is what `BatchJobClaim` and
`BatchJobRun` show of them. For the claim, a run is the sequence of *writes* it makes to its own
document (`SaveProgress` with an ETag, `SaveUnconditionally` without one,
`ReadToEnd`, `RunReturns`); for the run, the claim is the nondeterministic
moment at which it is started, ended or reset.

### BatchJobClaim

State: `store` (per job Status, ClaimedBy, ClaimExpiration and ETag), the clock
`now`, `up`, and what nodes hold in memory: `lock` (the node's `_claimLock`),
`claim` (a worker's pass through `TryClaimMultipleJobsAsync`), `task` (per
worker and job the `ProcessChunkJobAsync` call), `admin` (an operator's
`ReprocessBatchJob`). An action ends where the code awaits a store call, so
others may step in everywhere they can in the program:

- *Claiming*: `ClaimQuery` takes `_claimLock`, reads the clock and queries the
  candidates; `ClaimFetch` fetches the next one and looks at it again with the
  *old* clock value; `ClaimWrite` writes the lease with the fetched ETag,
  dropping a job on 412; `ClaimEnd` releases the lock and starts a task per job.
- *Starting and running*: `AcquireSlot` (`_concurrencyLimiter`), `StartFetch`,
  `StartWrite` (status and owner tested, ETag sent), then the writes of the run
  and `FinishFetch`, `FinishWrite` (owner tested, status not).
- *Operator*: `ResetFetch`, `ResetWrite`, `ResetAgain`.
- *Failures*: each `…Error` action is a store call that fails, or is made and
  loses its reply; `Crash` empties a node's memory, `Restart` brings it back
  under its id.

ETags are numbers (each write takes the next one). The identity of jobs is
their `CreateDate` order, by which the query sorts. One tenant is modelled,
because a worker's pass stops at the first tenant that has jobs.

### BatchJobRun

State: `job` (status, ETag, ProcessedLines, whether it is a chunk), `run` (the
place of the run, its copy of the document, the reader loop's `count` and
RunAsync's `counter`, its uncommitted results), `done` and `results` (how often
each line was processed and how often the result files hold it). Actions follow
the loop of `RunAsync` and of the reader it consumes: `Start`, `SkipLine`,
`ProcessLine`, `FrequencySave` (every WriteFrequency results, unconditional),
`CountLine` (every 50 lines, with ETag), `ReadError`, `ReadToEnd` (a file that
is not a chunk is marked Complete here, before the last writes), `LastSave`,
`FinalSave`, `Finish`, `Dispose` (commits the result stream), `Report`
(complete or fail), `Crash` and `Reprocess`. Each has a `…Lost` partner for a
call that fails or loses its reply.

`ResumeInfo` deserves a word. `CheckResumeInfoAsync` counts the lines of the
job's result file, but that file is created empty under a deterministic name
and `DataLakeAdapter.GetFileWriteStreamAsync` then opens a file with a *new*
name because that one exists; so `writeCounter` starts at 0 in every run while
the reader skips by the stored ProcessedLines. The consequence, that progress
goes back after a resume and more is repeated, is in the model. No line is lost
by it: that is `CompleteMeansAll`.

### AccountTurn

State: `acct` (the rule's count, the journey nodes the account is in, lease key
and expiration), `fresh` (the turns whose fetched ETag is still the stored one:
all that ETag equality can tell apart), `ttl` (the TTL document of each event),
`settled` (whether an event's wrapper has outcomes), `turn`, `manual`, `now`. A
turn goes `Load`, for an event of the account's own kind `ProfileFetch` and
`ProfileWrite`, `ReadWrapper`, `PreSave`, `LockFetch`, `LockWrite` (three tries,
and three rounds of `ProcessCampaignsAsync`), `ReadExpired`, `RereadState`,
`ReadExisting`, `SaveDecayed`, `DeleteExpired`, `Award`, then the final writes
`SaveAccount` and `SaveTtl`, which the code starts in parallel and the model in
either order, and `PostSave`. A resettlement (`Resettling`) is a turn without an
event: `ResettleFetch` takes the account that was read, and it goes on from
`LockFetch`; it adds nothing to the count, awards nothing, writes the account
only (`FinalWrites`) and has no wrapper (`AfterRules`). `ManualFetch` and `ManualWrite` are
`ManuallyEnterTier` and `ManuallyExitTier`. `CallFails`, `WriteUnanswered` and
the other failure actions end a request as an exception does; `Crash` ends it
without an answer.

Reduced data: one historical rule of kind Count to which each event contributes
one. Where the entries, exits and transitions of `SettleStateAsync` lead from a
set of nodes is a function per turn, `Navigate`: the proofs hold for every such
function, the runs take one with entries and a transition; the criteria do not
look at the count. A wrapper is "has outcomes or not"; calculate-only requests,
which store nothing, are left out. `turn[t].seen` is history: the journey nodes
of the account as the turn last read them, which is what `TryLockAccount` hands
back, whatever the locked document says.

### AccountPoints

State: `acct` (the lease in the account document), `source` (the balance and
the entries of the ledger that earns and spends), `sink` (the balance of the
ledger its entries expire to, and how often each entry was put there),
`fresh` (per document, who holds a copy with the stored ETag), `sem` (the
account's semaphore on each node), `req` (what a request holds in memory) and
`now`. Deposits and withdrawals take a lease of 250 ms with `LockFetch` and
`LockWrite`; reads (`GetLoyaltyAccountPointsAsync` with `resettleIfNeeded`) do
not. All of them then bring the account up to date: `Fetch` looks at both
ledgers without a lock, and if an entry has expired, `Wait` takes the
semaphore, `LockFetch` and `LockWrite` a second lease of 500 ms with a new key,
`Credit` saves the sink, `Debit` the source; a refused write leads to `Refetch`
and another look, any other failure between the two to `Rollback`; `Unlock` is
the finally block, and `UnlockConflict` the same block when the write of the
account throws before the semaphore is released. `Check`, `Read`, `Write` are
the upsert of the deposit or withdrawal, `Release` the finally block around it.

`req[r].object` tells which of two account objects the finally block writes:
the caller's, or the one that `TryLockAccount` returned to `ExpirePoints`; the
caller's is stale once the second lease was written, so a deposit that met an
expired entry always fails at `Release`, with its points saved.

An entry belongs to an event and may have both kinds of points: a withdrawal of
the event of a deposit is written into the deposit's entry, and the other way
round (`Rewritten`). Its field `began` says which kind came first, and with that
whether it has points to spend. An entry is saved with the date it brings along
or the one its account type gives (`NewEntry`); a withdrawal is saved without.
`Dated` is the dating that `Fetch` and `Refetch` do in memory: every entry
without a date, withdrawals included, gets the type's end date, or its number of
days from now, before anything is looked for that has expired, and the store
sees these dates with the next write of that copy. So withdrawals expire too.
They leave the source with the deposits, while the balance loses only the points
deposited (`Debited`); `source.gone` is history, the points of the withdrawals
that left so.

Reduced data: one account with two ledgers that exist; whole points; every
expiration takes all of an entry; entries in the sink do not
expire within the clock; spend references are left out. A deposit request
brings `SpendablePoints` along and the service adds the amount to it, which is
why a new entry has twice its points to spend (`NewEntry`).

### HybridCache

State: `source` (the version the store holds), `shared` (the distributed cache),
`memory` (per node), `keyLock` (the entry of `_keyLocks` on each node), `sem`
(the `SemaphoreSlim` objects: count, queue, disposed), `call` (what each caller
is doing). `Get`, `ReadHit`, `ReadMiss`, `Fill` are the way without a lock;
`Enter` is `GetOrAdd`; `WaitEnters`, `WaitQueues`, `WaitThrows` are `WaitAsync`
of a free, a taken and a disposed semaphore; `Check`, again `ReadHit` and
`ReadMiss`, `Fetch`, `Put`, `Share` are the try block; `Release`,
`ReleaseThrows`, `Tidy`, `Remove`, `Dispose` the finally block, one step for
each call, because another thread can come in between. `Forget` and `Unshare`
are `InvalidateAsync`, `Bypass` the path with `bypassCache`, `Delete` a deletion
with its invalidation, `SourceChanges` an upsert, which invalidates nothing.

A value is the version it was read at. Semaphore objects are numbered, and a
number is used again when nobody refers to it, as memory is. Keys share
nothing, so there is one.

### FileImport

State: `length` (the lines of the blob), `files` (the batch files stored for it,
each with whether it is younger than `OrphanDetectionTimeout` and uploaded),
`jobs` (the documents; a parent has an id computed from its file, a chunk a new
one for every delivery that stores it), `delivery`, `worker`, `runs` (how often
each line was processed) and `since` (history). A delivery goes `Find`, then for
a new blob `CreateFile`, `CreateParent`, `Upload`, and for one that looks like a
duplicate `FindParent` or `MissParent` and `CreateParent`; then `SplitFile` and
`StoreChunk` for each chunk. `Cut` ends it at any point: the controller answers
EventGrid with OK after an exception, and a process may die. `Claim`,
`CountJobs`, `Size`, `Run`, `Finish` are a worker's: the parent of a file that
has other jobs, or would have, is left alone. `Age` is the timeout.

Reduced data: lines are numbers, chunks are intervals of a fixed number of
records (the code computes it from the sizes of the file and of 100 records),
one blob. The first line of a file is put before every chunk and is not among
the lines; in a file of JSON lines, which has no header, the code does the same
with the first record (`BatchJobService.cs:262`), which is then read with each
chunk. `Upload` is one step, although the data lake creates the file empty
before it has its content, and workers do not die here: what a crash of a run
leaves is the matter of `BatchJobRun`. `Chunks` is a recursive function; that it partitions
the lines is checked for files of up to nine lines and chunk sizes up to four,
and proved for all.

### FileTransaction

State: `target` (what is at each path: the content is the name of who wrote
it), `lock` (whose identity the lock file has), `staging` (per process the
backups and the displaced trees, and whether the directory is in use, orphaned
into a recovery directory or gone), `proc`, `edits`, and the history `base` (what
a path held when last nobody was changing it) and `torn` (the paths of which a
process gave up the old content). An operation expects a state of its path or
not (`checked`, the optional `expected` of the code); `AsExpected` is the test,
made at `Verify`, `Snapshot` and `Check`. The actions are the calls of
`executePlan` to the file system: `Link`, and for a lock that is taken
`ReadLock`, `Judge`, `MoveLock`, `Compare`, `PutBack` (`clearStaleLock`); then
`Quarantine`, `Verify`, `Snapshot` and per operation `Check`, `Displace`,
`Install` and `Record`, which reads the new state and makes the record that the
rollback goes by; `Validate`; `Rollback`, `RollbackEnds`, `Clean`; `Release`,
`Unlock`, either of which may leave the lock file where it is.
`Die` may happen anywhere, and `Edit` is a person with an editor, except between
the check of a path and the record of the rename that follows it, where no code
could see it.

Every call may throw: `Throw`, `ThrowAtInstall`, `ThrowAtRecord` (the operation
is live and has no record), `ThrowAtValidate` (the removal of the staging
directory breaks off, with any copies gone and of trees any part, and the
rollback runs with what is left), `RollbackFails` (also after the path was
removed), `CleanFails`. In four cases the code itself gives up the old content of
a path, which is then `torn`: `ThrowAtRecord`, the copies that
`ThrowAtValidate` loses, a tree that `ThrowAtInstall` cannot move back, and an
edit that an unchecked operation replaces without having a copy of it
(`Unseen`). A path is whole again when a plan on it is carried out or somebody
edits it.

## 3. Runs

Every passing run finishes in about three minutes or less; every property has a mutation of
one mapped definition that breaks it.

| Run | Instance | Properties | What it shows |
|---|---|---|---|
| `claim_safety` | two nodes, one with two workers; one job that is a whole file; one slot a node; lease 1, clock to 3; one progress save, one crash, one lost call | `TypeOK`, `RunnersBounded`, `RunnerOwnsJob`, `TakeoverOnlyExpired`, `LifecycleForward`, `ImplementsJobQueue` | ETags, leases and ownership together give one runner per job, over every interleaving, expiry and single failure |
| `claim_live` | one worker, two jobs of which the second is a chunked file's parent; one slot; a crash; the node restarts; an operator's reset | `EveryJobFinishes`, `NoClaimStuck` | no job waits for ever on slots or `_claimLock`; claims left by a crash are taken up by the node that comes back |
| `run_job` | eight lines, line 5 null; WriteFrequency 3, interval 6; two crashes, two lost calls, two resets; the job a chunk or a whole file | `TypeOK`, `ProgressSound`, `CompleteMeansAll`, `ReworkBounded`, `ResultsMatch`, `RunReports` | no line is lost and rework is bounded, over three runs and failures anywhere |
| `run_spurious` (violated) | three lines, no failure | `FailedOnlyOnError` | the last line is saved twice with one ETag, and the job fails |
| `turn_safe` | two turns of two events at any time, and a resettlement made after the first ended; lease 2, clock to 3, one crash, one lost call, nothing expires | `LeaseExclusive`, `CountBounded`, `JourneysKept`, `EveryTurnAnswered` | the lease excludes, no contribution is lost, a journey is left only by an exit or transition or by a writer that had not read it, every request is answered |
| `turn_serial` | five turns of events, a resettlement and three operator's calls in a chain; an own-kind event, two contributions that expire, an event sent twice, a transition; leases may run out; one crash, one lost call | `TypeOK`, `CountBounded` | taken one at a time, calls agree about the count, decay and all failures included |
| `turn_hydrate` (violated) | three turns, the first one's contribution expires | `LeaseExclusive` | the save of the decayed state drops the lease |
| `points_safe` | three ledger entries: a deposit expired at the start, one due at 2, and a withdrawal without a date, of a type that ends at 2; a read and a deposit sent again with another amount on one node, the withdrawal sent again on the other; leases 1, clock to 2, two tries and two rounds; one failed call, lost reply or crash | `TypeOK`, `BalanceBacked`, `EntriesKept`, `CreditBounded`, `EveryRequestAnswered` | ETags keep the ledgers together whatever becomes of the leases, and whichever kind of entry expires; an entry is credited again only by a refused or failed write or a crash; requests end unless a semaphore was never given back |
| `points_twice` (violated) | two reads on two nodes, one expired deposit, no failure, no lease runs out | `CreditedOnce` | the sink is credited twice |
| `cache_safe` | three callers, two on one node and one on either; two semaphores alive at a time; the source changes once; the distributed cache may fail or expire at any call; the first caller calls again and again | `TypeOK`, `KeyUsable`, `NoLockLeak`, `OneInside`, `CallsReturn`, `Converges` | removing and disposing the lock of a key never leaves a dead one in the dictionary, never lets two into one semaphore; every call returns unless a disposed semaphore forgot it; expiry makes caches agree with the source in the end |
| `import_safe` | two deliveries of a blob of two or three lines (one or two chunks), two workers, cut anywhere | `TypeOK`, `LinesAccounted`, `RunsBounded`, `ChunksPartition`, `Settles` | after a delivery that was not cut short, each line was processed or a job that has it shows as failed; a delivery costs at most one more processing of a short file, two of a long one |
| `tx_safe` | one process replaces a file without an expectation and a tree with one, two remove the file; there may be no tree at first; a death, an edit; any call may throw, some half way | `TypeOK`, `OneMutates`, `NothingLost`, `AllOrNothing` | taking over a stale lock is safe between two contenders; on paths that are not torn (section 2), a plan is carried out whole or not at all, or says that it was not, and old content can always be found |

*Bounds.* Two nodes and three workers are the smallest instance in which a job
can be contended between nodes and within a node; two jobs the smallest in
which one pass claims several and the second waits for a slot. A clock to 3
with a lease of 1 lets a claim expire and its successor expire. One progress
save suffices because all saves of one kind write the same fields. In a run,
the intervals 3 and 6 over eight lines reach every combination of the periodic
saves with a rest at the end, and the null line makes the two counters differ;
the sizes of the code (25 and 50) only repeat them. Two turns of
events and a resettlement that may overlap the second suffice for `turn_safe`,
since a further one can only repeat the part of one of them;
for any number of turns exclusion is also proved, and so is `CountBounded`. In `turn_serial` two
contributions expire together, so that a crash after the decayed count is saved
leaves more than one document to be taken off again: `CountBounded` counts such
a failure with that weight, and without failures says that the count and the
documents agree. `points_safe` has one request
of each kind, two of them sharing a semaphore and all of them the lease; its
clock reaches the end of a lease taken at the start, the due date of the
deposit that is sent again and the end date that the withdrawal gets, so that
both arrive before and after their entry expired. `claim_live` has one
worker because waiting needs no contention, which `claim_safety` has: the second
job waits for the slot of the first. So nobody else is waiting for `_claimLock`
in `claim_live`; who holds it only calls the store, and gives it back. In `cache_safe` the smallest
interesting case is that one caller leaves a semaphore, another holds a
reference to it and a third comes to the dictionary; the proofs of section 4
are for any number. In `import_safe` the second delivery is the one sent again
or the one that overlaps, and of the chunks one can be stored and the other not;
two workers suffice to take a parent and a chunk at once. In `tx_safe` three
processes are the most for which `OneMutates` holds (section 6), and the plan of
two operations, on a file and on a tree, has both ways of replacing, an operation
of either kind of expectation, and a rollback of more than one; the file is also
what the others remove, so plans that meet at a path follow each other. The plans of the two that remove are the same, so the
run uses symmetry; it checks no liveness.

All bounds are the constants
named `Max…`, in the guards of failures, resets, saves and the clock.

*Orders left to observations.* `turn_safe` has no expiring contribution and
`turn_serial` no two turns at once, because the code breaks `LeaseExclusive` and
`CountBounded` there: `turn_hydrate` shows it of the first, section 6 says it of
the second. In the same way the chain of `turn_serial` places the own-kind event before the count has
begun, and expires the contribution of an event that is not sent twice. Section
6 says what happens otherwise. Its lease may run out, and operators take part.
Events of the account's own kind and operators are not in `turn_safe`, since
they write the account without the lease; what `JourneysKept` says of them
beside turns is proved, for any overlap. `RunnersBounded` allows a job one more
runner for each reset, and two may indeed finish one job then (section 6).

*Deadlock* checking is off in all runs: every one of these systems may stop,
when the jobs are done, the calls made, or the clock at its bound.

*Fairness.* `BatchJobClaim!FairSpec` has weak fairness of the awaited store
calls and of the clock, and strong fairness of `ClaimQuery` and `AcquireSlot`,
because `SemaphoreSlim` queues its waiters, so a waiter is served if the
semaphore is released again and again; a run always ends since its input is
finite (`BatchJobRun` checks it: `RunReports`). `RestartSpec` adds that the
platform restarts a node under its id (`GetNodeId` uses the instance or replica
name). `BatchJobRun!FairSpec` has weak fairness of the next step of the run and
of `Start`; `AccountTurn!FairSpec` and `AccountPoints!FairSpec` of the next
step of each turn or request. `HybridCache!FairSpec` has weak fairness of each caller's
next step and of expiry, which is absolute in both caches; it promises nothing
to a caller queued at a semaphore, who moves when `Release` moves it.
`FileImport!FairSpec` has weak fairness of the deliveries that began, together
(some delivery goes on), and of the workers, of which one at least polls for
ever: it asks less than fairness of each would. `FileTransaction` has no
fairness: its processes may stop. Failures, crashes,
operators and requests not yet made are never obliged to happen.
`EveryJobFinishes` is conditional on no failure ever: a job whose run crashes
stays Processing until an operator resets it.

## 4. Proofs

The theorems hold for all values of the constants that satisfy the `ASSUME` of
the module (`ClaimAssumption`, `RunAssumption`, `TurnAssumption`, `PointsAssumption`,
`CacheAssumption`, `ImportAssumption`, `TransactionAssumption`: finite sets
where cardinalities are taken, naturals for bounds, plans with one operation for
a path), hence for any number of
nodes, workers, jobs, lines, turns, requests, deliveries, operations, failures
and resets.

| Theorem | Statement |
|---|---|
| `BatchJobClaimProofs!TypeCorrect` | `Spec => []TypeOK` |
| `BatchJobClaimProofs!RunnersCorrect` | `Spec => []RunnersBounded`: a job has at most one runner more than it had resets |
| `JobQueueProofs!OwnerCorrect` | `Spec => []RunnerOwnsJob`: who runs a job nobody reset is who its document names |
| `JobQueueProofs!TakeoverCorrect` | `Spec => TakeoverOnlyExpired`: a claim changes hands only after its lease ran out |
| `JobQueueProofs!LifecycleCorrect` | `Spec => LifecycleForward`: no write takes a job back that nobody reset |
| `JobQueueProofs!QueueCorrect` | `Spec => ImplementsJobQueue`, assuming `MaxResets = 0` |
| `BatchJobRunProofs!TypeCorrect` | `Spec => []TypeOK` |
| `BatchJobRunProofs!ResultsCorrect` | `Spec => []ResultsMatch`: committed results agree with what was processed |
| `BatchJobRunProofs!ProgressCorrect` | `Spec => []ProgressSound`: the recorded progress covers processed lines only |
| `BatchJobRunProofs!CompletionCorrect` | `Spec => []CompleteMeansAll`: no line of a completed job was skipped |
| `BatchJobRunProofs!ReworkCorrect` | `Spec => []ReworkBounded`: a resumed run repeats few lines |
| `AccountTurnProofs!TypeCorrect` | `Spec => []TypeOK` |
| `HybridCacheProofs!TypeCorrect` | `Spec => []TypeOK` |
| `HybridCacheProofs!KeyIsUsable` | `Spec => []KeyUsable`: no dictionary holds a disposed semaphore |
| `HybridCacheProofs!NoLockIsLeft` | `Spec => []NoLockLeak`: a semaphore in a dictionary has a caller that will clean it up |
| `HybridCacheProofs!OneIsInside` | `Spec => []OneInside`: callers that share a semaphore are inside one at a time |
| `AccountTurnProofs!LeaseCorrect` | `Quiet => (Spec => []LeaseExclusive)` |
| `AccountTurnProofs!JourneysCorrect` | `Spec => JourneysKept`: a journey is left by an exit, a transition or an operator, or by a writer that had read the account before it was entered |
| `AccountTurnProofs!CountCorrect` | `Spec => []CountBounded`, assuming `Ordinary`: calls come one after the other, an own-kind event before the turns of other events, and events sent twice do not decay |
| `AccountTurnProofs!SharedCountCorrect` | `Spec => []CountBounded`, assuming `Quiet` and `Apart`: requests of one event come one after the other, all others overlap |
| `AccountPointsProofs!TypeCorrect` | `Spec => []TypeOK` |
| `AccountPointsProofs!EntriesCorrect` | `Spec => []EntriesKept`: no saved entry, of either kind, is in neither ledger |
| `AccountPointsProofs!BalanceCorrect` | `Spec => []BalanceBacked`: the balance and the withdrawals that expired add up to the entries |
| `AccountPointsProofs!CreditCorrect` | `Spec => []CreditBounded`: an entry is put in the sink again only for a refusal, a failure or a crash |
| `FileImportProofs!TypeCorrect` | `Spec => []TypeOK` |
| `FileImportProofs!ChunksDivide` | what `Chunks` computes for every length and size: non-empty chunks that have every line, and none twice |
| `FileImportProofs!ChunksCorrect` | `Spec => []ChunksPartition` |
| `FileImportProofs!LinesCorrect` | `Spec => []LinesAccounted`: after a delivery that was not cut short, every line was processed or shows as failed |
| `FileImportProofs!RunsCorrect` | `Spec => []RunsBounded`: a delivery costs at most one more processing of a short file's line, two of a long one's |
| `FileTransactionProofs!TypeCorrect` | `Spec => []TypeOK` |
| `FileTransactionProofs!OneCorrect` | `Spec => []OneMutates`, assuming `Few`: there are no four processes |
| `FileTransactionProofs!LostCorrect` | `Spec => []NothingLost`, assuming `Few`: what a path held can be found, unless it is torn |
| `FileTransactionProofs!WholeCorrect` | `Spec => []AllOrNothing`, assuming `Few`: what is left of a half plan is in torn paths only |

*Runners.* `RunnersBounded` counts tasks that run a job; by itself it says
nothing of the next start. The inductive invariant `IInv` adds an *opening*: a
job that is Pending or Claiming can be started once more, and runners plus
opening are at most one plus the resets. A start closes the opening because it
writes Processing with an ETag; to know that the write is refused otherwise,
`ClaimCopies`, `TaskCopies` and `AdminCopy` say of each copy in flight that, if
its ETag is the stored one, the stored document is still open. No write of a
run opens a job (`TaskCopy`), and a reset opens it and is paid for by `resets`.

*Owner and queue.* `OInv` adds to `IInv` what the copies in flight say of names:
a claim pass writes Claiming over a document it found claimable, with a clock
value from the past (`ClaimLooks`); a task writes the name of its node, which
was in the document it fetched (`TaskNodes`); an operator's copies have no name
and were counted (`AdminPaid`). `Owners` is the conclusion: while a job nobody
reset is run, its document has the runner's node. It is inductive because of the
opening: a document that a runner took cannot be open, so no claim pass holds a
fresh claimable copy of it. The two action theorems and the refinement follow
step by step from `OInv`, with a lemma for what each write of a task does to a
document (`Effect`) and one for a document nobody reset (`Progress`). The
refinement is stated without resets because the abstract queue has none: a
reset starts it again.

*Progress.* Both counters of a run write ProcessedLines. `RInv` says of the
document, of the run's copy and of the reader's count that the lines they cover
were processed or are null; that RunAsync's counter is at most the reader's, plus one
between processing a line and counting it; and that a run past its last line
has read all of them. So whichever counter is saved, a resumed run skips
processed lines only.

*Results.* `SInv` adds to `RInv` that the lines whose result is in the stream of
a run are ones it has read, and that there is no stream outside a run
(`StreamOK`); and that each time a line was processed its result is either
committed or in the stream, unless a run crashed or a call was lost
(`ResultsOK`). The first is what makes the second inductive: a line about to be
processed is not in the stream yet, so its new result adds one.

*Rework.* A third invariant, `Rework`, stands beside `RInv`. The count of lines
handed over is what both saves go by, so the recorded progress is at its last
multiple of the save interval, less one interval for each save that failed
(`Due`); a save that is not due leaves it alone. The lines processed beyond the
progress are then among those handed over since, without the null ones, and
counting them is the rest (`ReworkCounts`).

*Lease.* `LInv` says of each turn between taking the lease and giving it back
that the account carries its key and expiration and that the lease has not run
out; and of a turn about to write its lease with a fresh ETag that the account
is free or the stored lease has run out. The assumption `Quiet` names what it
takes, and each conjunct is needed: turns end within their lease (`Punctual`,
500 ms that nothing enforces), no contribution decays during the run
(`turn_hydrate`), and neither own-kind events nor operators write the account
(they do so without the lease).

*Journeys.* `KInv` says of each turn that still writes the account that its
nodes include those it has read (`seen`), but for the ones its own exits and
transitions quit (`Slack`). Each action is put into one form first (`TurnMoves`:
the stored nodes stay or become the turn's, and the turn's lose none but those),
and the invariant is shown once from that form; a turn tried again after a
conflict keeps the nodes it has navigated to, which is why the invariant allows
for `Slack` before the lease too. A step of which the account is then without a
node writes the turn's nodes, so the node was quit or not read (`Excused`). No
order of the calls is assumed and the leases play no part: turns overlap each
other and the operators.

*Entries.* `PInv` says that, as long as no reply was lost, a copy of the source
has the same entries as the stored one while its ETag is fresh (their dates may
differ, which is `Dated`), a copy of the sink is the stored one, and the sink is
`Safe`: no entry is missing now, nor will one be once the requests that are
about to debit the source have done so. The second half is what makes it
inductive: the debit removes entries from the source that the earlier credit of
the same request has put in the sink. The rollback is the hard step: it is
accepted only if nobody wrote the sink since the credit it takes back, so the
copy it puts back has the entries of all others who are about to debit, and is
`Safe` too. Leases and semaphores are not
used, so the theorem holds whatever becomes of them, and so do the dates: it is
the same argument whichever entries expire.

*Balance.* `BalanceBacked` says of the stored ledger only what `LInv` says of
every copy of it: each ledger a request holds in memory is in balance too
(`Good`), so that a write of any of them is harmless, the rollback's included.
The sum over events is a fold; lemmas say what it becomes when one entry changes
(the upsert, by the difference of both kinds of points) and when a set of
entries is emptied, by induction on the number of events. The debit takes off
the deposits of what expired, and the withdrawals in those entries go to `gone`,
which is the difference that the code leaves. The same invariant has who holds
the semaphore (`Holding`) and where reads never get.

*Credits.* `CInv` counts for each event: the credits in the sink, and one while
the entry is in the source, are at most its arrivals, the requests between
credit and debit and the excuses. A credit makes its request one of
those, a debit takes the entry out of the source as the request leaves
them; when a debit is refused, fails or loses its reply, the excuse stays. That
one credit does not free another is in `Copies`: a copy with the stored ETag has
the entries of the stored ledger, so a debit that is accepted finds the entry
still there.
`CreditBounded` follows. Leases and semaphores are not used here either: a request
that lost the race after its credit pays with the conflict of its debit.

*Counts, one call at a time.* `CInv` of `AccountTurnProofs` says at each place
of a turn what its count in memory is: the stored one until the expired
contributions are taken off (`Expires`), the stored one less those while they
are saved, and, in the final writes, within the budget of what the TTL documents
will be (`Saves`). While nobody is at work, the stored count and the documents
are `Near` each other. `TtlOK` says that a document is there only because a turn
that earned it came to its final writes, with the due date of that turn; so
those that expire together are of `Perishable` events, and a failure between the
decayed save and the deletion costs at most their number, `FailureWeight`. Each
action is put into one form (`TurnCounts`), from which the invariant follows
once. `Ordinary` holds of the instance of `turn_serial`. Its parts are needed:
section 6 has what an own-kind event after a count, an event sent again after it
expired, and an operator beside a turn do.

*Counts under the lease.* With overlapping turns the count in memory and the
documents are no longer close: a turn that has saved the account may let its TTL
document wait while others take the lease, count and save. `Owed` is the set of
those turns, and `ShareInv` compares the count with `Expected`, the documents
there are and those that are owed. Since one turn at a time holds the lease
(`LeaseCorrect`), the stored count moves only by that turn's own save; every
other step moves `Expected` only together with the budget (`Shifted`: a turn
that dies owing its document), or not at all. A turn that wrote its document
before the account is the reverse case (`Written`); it holds the lease, so there
is one at most. `Apart` is needed because a request for the same event between
two final writes counts it twice (section 6); `turn_safe` satisfies `Quiet` and
`Apart`. The two theorems together are the two runs that check `CountBounded`.

*Import.* `Chunks` is a recursive function, so that it partitions the lines is
an induction over natural numbers, from the end of the file: the chunks from a
line on have the closed form `Piece`. On it rests what deliveries, workers and
jobs know (`LInv`): a job is complete only if its lines were processed, and a
parent of a long file is completed without them. `SInv` adds the promise that makes the lines
of a long file be seen to (`SeenTo`): if a delivery began after the last cut and
the file is uploaded, some delivery has stored every chunk of it or has it still
before itself. `BInv` is a bank account for each line: what was run, the jobs
that wait with it and the workers that may process it are at most the parents
and the chunks that deliveries have stored; so each document that is stored pays
for one processing.

*Semaphores.* The four theorems of `HybridCacheProofs` come from one inductive
invariant `Inv`, and only the first is inductive alone. `Holder` says that a
semaphore that is not disposed has count 0 exactly when a caller is inside;
`Exclusive`, that one at most is, also when it was disposed; `Queues`, that who
is queued at a semaphore waits there, once, so that `Release` wakes one caller
that is not inside; `Dictionary`, that a semaphore in a dictionary is not
disposed nor about to be, belongs to the callers of that node, and has one that
will clean it up. The hard step is `Remove`, which takes whatever semaphore the
key has by then while `Dispose` disposes the caller's own.

*Transactions.* Two invariants. `LInv` is about the lock: who holds the lock file
had it or is over; what a process has read or moved aside belonged to such a
one; and who is inside without the lock file had it moved aside by another, who
took it for the lock of a third that is over (`Moved`). A process that gets in
beside one inside would be a fourth, which `Few` excludes; so would one whose
lock file is put back over that of another. `PInv` is about the paths that are not
torn, each by itself. While
nobody is at work each path is `Settled`: what it held is there, or somebody died
or gave up and left it in a directory. While one is at work, `Records` ties its
staging directory and its list of committed operations to its plan, and `PathOK`
says of the path what putting back would give: for each record of it, what the
rollback takes (`Previous`) is what the path held (`Well`); so it is for a tree
that is moved aside (`Away`) and for new content without a record yet (`Live`);
and a path without any of these holds what it held. The copies never have to be
what the plan expected, so operations without an expectation need no argument of
their own. An edit made to a committed path is the case for which the rollback
compares first: it is then in nobody's directory, and must stay (`Touched`). A
failure that breaks `PathOK` does so for the path that it tears, and the
others go on being put back. The theorems hold for plans of any
length and kind, any number of deaths and edits.

Every invariant and action property of a passing run is stated by a theorem.
Only model-checked are the liveness properties (`EveryJobFinishes`,
`NoClaimStuck`, `RunReports`, `EveryTurnAnswered`, `EveryRequestAnswered`,
`CallsReturn`, `Converges`, `Settles`), because this prover does not reason
about fairness. Where a theorem has a
hypothesis, it is one the code needs: with four processes `OneMutates` is false
(section 6), so `Few` cannot be dropped; `Quiet`, `Ordinary` (with `Serial`) and
`Apart` leave out what `turn_hydrate` and section 6 show to go wrong. A mixture
of the last ones, turns that overlap *and* contributions that decay, is not
covered by a theorem: `turn_hydrate` has the lease lost there.

## 5. Findings

The violated runs are disagreements between the code and what its own
documents, comments or tests say; `PROJECT.json` quotes both sides.

- `run_spurious`: the final progress update repeats the last one with the old
  ETag (`BatchJobService.cs:143`).
- `turn_hydrate`: saving the decayed rule state drops the lease
  (`RulesService.cs:882`).
- `points_twice`: the credit of the sink is not taken back when the source is
  refused (`LoyaltyAccountService.cs:2531`).

## 6. Observations without a run

Met while modelling; each follows from the modules (drop the corresponding
restriction of a configuration) but has no run of its own.

- Expired claims of other nodes are never candidates (`BatchJobAdapter.cs:90`:
  `claimedby` unset or the asking node's own id), so a claim whose node does not
  come back under its id stays for ever; `BatchJob.cs:74` says of
  ClaimExpiration "Used to detect stale claims when a node crashes", and a test
  expects the takeover (`BatchJobAdapterIntegrationTests.cs:132`).
  `NoClaimStuck` is stated for nodes that restart. In the same way, nothing
  takes up a job left Processing by a crash (`JobClaimService.cs:62`).
- `TryLockAccount` hands back the journeys that were loaded before the lock
  (`LoyaltyAccountService.cs:364`), and the end of the turn writes them: of two
  turns one after the other on the lease, the second takes the account out of
  the node the first one entered, if it was loaded before. An operator's call
  beside a turn does the same (`RulesService.cs:363`). This is the last clause of
  `JourneysKept` (`Overwritten`); without it `turn_safe` violates the property at
  once.
- `CompleteJobAsync` and `FailJobAsync` test the owner of a job but not its
  status (`JobClaimService.cs:109`): after a reset that the same node claimed
  again, the run that was under way completes the job of the new claim.
- After a resume, the first periodic save takes ProcessedLines back (2,
  BatchJobRun).
- A job that was Complete keeps its ProcessedLines when an operator resets it,
  so its lines are skipped.
- Results in an uncommitted stream are lost in a crash although the progress
  that covers them was saved. `ResultsMatch` is stated for runs without one.
- An event sent again after its contribution expired is taken off, is not
  counted, and gets a TTL document again (`RulesService.cs:865`).
- An event of the account's own kind replaces the account without its
  RuleState, while the TTL documents stay (`StateUtility.cs:177`).
- A request for the same event between the two parallel final writes of the
  first one counts it twice (`RulesService.cs:450`).
- An operator's tier change beside a turn writes back the rule state it
  fetched before (`RulesService.cs:363`).
- The semaphore of an account leaks: when the write of the account in the
  finally block of `ExpirePoints` throws, `Release` is skipped
  (`LoyaltyAccountService.cs:2410`), and later expirations of the account on
  that node wait until it restarts. Two reads of two nodes that race for the
  lease suffice. `EveryRequestAnswered` allows for exactly this (`Stuck`).
- When the reply of the write of the source is lost, the rollback takes the
  entry out of the sink although it has left the source (line 2544).
  `EntriesKept` is stated for runs without lost replies.
- A deposit or withdrawal that met an expired entry fails at its last write
  although its points were saved (line 1178); one that is sent again after its
  deposit expired counts as a new deposit, and expires again.
- Expiration takes the whole deposit from the balance, spent or not (line
  2443); a withdrawal sent again with another amount spends all of it once
  more (line 1493); a deposit request can be spent twice over (line 1517).
- Entries without a date get one when the ledger is looked at, withdrawals too
  (lines 2226 and 2331), so that they expire and leave the ledger; the balance
  loses only the points deposited (line 2443), and is then no longer the sum of
  the entries. `BalanceBacked` says by how much (`gone`).
- A withdrawal that is sent again after it expired is deducted a second time,
  because its entry is gone; one that is sent again before it has a date fails
  when the type has no end date, since it has no EarnDate to count from (line
  1480, `CanUpsert`).
- A deposit and a withdrawal of one event share an entry, and the later one
  overwrites the points of the other kind (line 1474, `Rewritten`).
- A chunk is never found to be stored already: `IngestService.cs:211` compares
  the ids of stored jobs with the id of a new chunk, which is null. A second
  delivery stores all chunks again, and all lines are processed again, although
  `BatchFileService.cs:62` says "Skipping duplicate processing and returning
  existing file"; `RunsBounded` has the factor.
- If the query for the parent fails, a new one is written over it without an
  ETag (`BatchFileService.cs:93`); the worker that had the old one finds the
  document no longer its own.
- A delivery that stops between the parent and the upload leaves a parent
  without a file; one that follows within the 30 minutes of
  `OrphanDetectionTimeout` takes it for a duplicate and uploads nothing. The
  parent job fails, so the lines are accounted for, and somebody has to look.
- A delivery that fails half way through its chunks is answered with OK
  (`BlobCreatedEventController.cs:72`, whose comment speaks of a retry "if we
  return an error status"), so it is not sent again: the chunks not yet stored
  are lost, and the parent completes. `LinesAccounted` speaks of blobs with a
  later delivery that was not cut.
- A worker that asks for the size of a parent's file before the upload and reads
  it after processes a long file as a whole, besides its chunks.
- The ReprocessEvent flag is not copied to chunk jobs
  (`FileChunkingService.cs:227`), and the query for the jobs of a file reads one
  page of 100 (`BatchFileService.cs:71`).
- A caller queued at a semaphore that is disposed waits for ever
  (`HybridCacheService.cs:114`): one leaves and sees count 1; before it removes
  the entry another enters and a third queues; then it removes and disposes. `CallsReturn` allows
  for exactly this (`Abandoned`). The one inside then gets an
  `ObjectDisposedException` from `Release`, and one that comes later makes a new
  semaphore: two factories of a key run at once on one node.
- `InvalidateAsync` removes the memory entry first, so that a read in between
  copies the old value back from the distributed cache for the whole of its
  expiration (`HybridCacheService.cs:153`); and a factory that read the source
  before a change stores the old value after the invalidation. `Converges` says
  when it ends.
- `PointAccountTypeCache` answers a list from whatever keys it knows, so a list
  may lack types (`PointAccountTypeCache.cs`), and an upsert does not invalidate
  other nodes.
- `OneMutates` holds for two processes that contend for the lock of a third that
  is dead or about to end. With three contenders it fails: the first moves the
  dead lock, the second gets its own, the third, who had read the dead lock, moves
  the second's aside, the fourth gets in before it is put back
  (`aidlc-transaction.ts:352`).
- One exception of `transactionState` after a rename and before the operation is
  recorded (`aidlc-transaction.ts:581`) leaves that operation out of the
  rollback: the others are undone, no incomplete rollback is reported, and the
  staging directory is removed with the only copy of the old content
  (`ThrowAtRecord`).
- The removal of the staging directory is the last call of the `try`
  (`aidlc-transaction.ts:595`): when it breaks off, a plan that was carried out
  is rolled back with the copies that are left, and a tree may be put back in
  part (`ThrowAtValidate`).
- A displaced tree that cannot be moved back (`aidlc-transaction.ts:571`) has no
  record either, and the directory with the tree and its backup is removed
  (`ThrowAtInstall`). This takes two failing calls, the only one of the four.
- Without an expectation (`expected` is optional) nothing tells that a path was
  edited after its snapshot (`aidlc-transaction.ts:551`): the edit is replaced,
  and a rollback puts back what was there before it (`Unseen`). A tree that is
  replaced keeps the edit, because it is moved aside and back as it is.
- When the staging directory cannot be removed in the end
  (`aidlc-transaction.ts:631`), or the lock file cannot be read or removed, the
  lock file stays until the process is gone.

`NothingLost` and `AllOrNothing` are therefore stated for paths that are not
`torn`, which is what the first four leave behind.

## 7. Plan

Done: `JobQueue`, `BatchJobClaim`, `BatchJobRun`, `AccountTurn`,
`AccountPoints`, `HybridCache`, `FileImport` and `FileTransaction` with their
runs and proofs. What remains, in the order of what it would add:

1. `AccountPoints` extended with the bulk forms and
   `ExpireLoyaltyAccountPointsByEarnDate` (a part of a deposit under the
   caller's lease); an abstract `PointBank` that adds, takes and expires points
   atomically, which the module refines as long as no write of the source is
   refused.
2. `JourneyNavigation`: the navigator's recursion as a recursive function on
   small graphs, checked against a reference definition; termination.
3. External references (`ReferenceableBaseAdapter`): two documents per upsert.

A new module gets one run of safety and liveness together; findings of a module
are shown by the run that says most and listed in section 6 otherwise.

## 8. What is not modelled, and why

- *The rest of the point ledgers, the recursion of the journey engine, external
  references*: planned above.
- *Reconciliation of an account* (`EventService.ReconcileLoyaltyAccountEvents…`):
  a report over the events of an account that may process again, one after the
  other and with the account as it was loaded at the start, those without
  points.
- *The developer tooling*: the only TypeScript and JavaScript in the repository
  is a set of vendored command-line tools for a development workflow
  (`.cursor/tools`), some 140 000 lines that the program does not run. Of them
  `aidlc-transaction.ts` has a concurrent protocol and is modelled; the others
  read documents, print and write them, one process and one file at a time, and
  there is nothing in them that a state machine says better than their tests.
  The program itself is C#, and that is what the other modules stand for.
- *Around file import*: uploads by HTTP, archiving of blobs, other tenants, the
  encoding and quoting of lines.
- *Around the cache*: which keys the caches above it use.
- *Readers of CSV and JSON, response formatting, reflection, reports, audit,
  controllers, MCP and A2A endpoints, notifications, authentication*:
  translation or I/O without state that a later step depends on. `BatchJobRun`
  takes what a reader yields: a sequence of lines, some null.
- *Campaign authoring*: validators are functions of one JSON document.
- *Campaign agent*: conversations with a language model; its phase gates may
  become a small module.
- *The store, the data lake and the bus*: external; of the store the modules
  have the ETag check and calls that fail or lose their reply, of the data lake
  the uncommitted stream and the name that already exists.
