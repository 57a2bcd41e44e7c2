# depgraph's protocols, in TLA+

depgraph analyses a repository and keeps a dependency graph in a local SQLite
store. What is hard to test in it is not the analysis but what happens around
it, and this project models that:

* long work is requested as *durable operations*: a journal, detached runner
  processes, leases, deadlines, cancellation and recovery, over two databases
  and a lock file;
* a *daemon* watches the files, folds bursts of events into batches and rescans,
  cancelling and retrying attempts while the files go on changing;
* the *store* keeps immutable snapshots in layers and moves two pointers over
  them, with cache hits, builds, trace imports, crashes and late recovery;
* a *scan* runs its units on worker processes out of order, re-splits those that
  exceed a limit, replays checkpoints of earlier scans, and publishes only what
  stands on the repository that was planned;
* a *supervisor* decides why a worker ended when several things end it at once;
* the *queries* search a snapshot under limits and give their answers in pages.

Line numbers are those of the sources; `lib.rs` and `runner.rs` without a path are
`crates/depgraph-operation/src/lib.rs` and `.../runner.rs`.

## Inventory

| Part | State | Operations | Interacts with | Hard behaviour | Correct when |
|---|---|---|---|---|---|
| Operation journal (`lib.rs`) | tables `operations`, `runner_handoffs`, `operation_completion_intents`, `operation_tombstones` | submit, cancel, cancel before launch, claim, acquire / renew / release lease, progress, finish, commit / finish completion intent, fail deadline, purge | every process, one IMMEDIATE transaction per call | stale timestamps, retention and tombstone windows, batches | every row stays readable; terminal rows are frozen; a key runs once per window |
| Runner and lease guardian (`runner.rs`) | guard file lock, main thread, guardian thread, lease token | reconcile, recover, expire, purge, claim, dispatch, decide, promote, clean up | journal, graph store, launched by clients | crash between any two steps, lease loss, guardian racing the main thread | one runner works, decisions stand, effects follow decisions |
| Clients (`crates/depgraph-mcp/src/main.rs`) | submissions not launched yet | submit, launch, withdraw, cancel | journal, runner processes | launch racing cancellation, runner leaving | accepted work reaches a runner |
| Operation-owned staging (`crates/depgraph-store/src/lib.rs`) | `scan_operation_staging`, status of the scan | start, seal, promote, cancel, acknowledge, recover interrupted attempts | runner, daemon | crash between store and journal | nothing undecided is published, nothing is left behind |
| Repository daemon (`crates/depgraph-core/src/daemon.rs`) | event coalescer, active attempt, debounce and retry deadlines | ingest, spawn, cancel, retry, stop | watcher, scan runner, store lock | events during an attempt, retry order, drain at stop | the store catches up with the files |
| Store snapshots (`crates/depgraph-store/src/snapshot.rs`, `build.rs`, `lib.rs`) | completed snapshots, the current snapshot and the successful scan, staging attempts, scan cache | start, finish, recover, promote, publish a cache hit | runner, daemon, builds | promotion over a moved base, late recovery | the pointers agree, and do not go back |
| Incremental deltas (`crates/depgraph-store/src/incremental.rs`) | staged delta over a base | stage, validate, apply | daemon, workers | base changed meanwhile | what a delta replaces is what changed |
| Runtime imports (`crates/depgraph-store/src/runtime.rs`) | staged imports and their operation owners | stage, attach, release, promote | runner | shared staging, release by one owner | a stage lives as long as it has an owner |
| Analysis plan and execution (`crates/depgraph-core/src/analysis_*.rs`) | schedule, reorder window, checkpoints, refinements | plan, dispatch, ingest, re-split, replay, verify, promote | workers, editors, token | outputs out of order, edits during a scan, partial output | every path is published once, from the planned version |
| Worker supervision (`crates/depgraph-core/src/worker.rs`, `cancellation.rs`) | child process, pipes, deadline, token | read, time out, kill, choose the cause | analysis | exit racing deadline, token and memory watch | one verdict, for what was seen; no partial output is taken for complete |
| Queries and impact (`crates/depgraph-core/src/query.rs`, `impact.rs`) | queue, adjacency, budget, cursor | traverse, page, why, cycles, impact, impact of a change set | clients, one immutable snapshot | searches cut short by a limit, pages at their byte limit, shared budgets | an answer that says it is complete is |
| Policies, scanners, CLI, protocol types, release tooling | none of their own | pure functions over a snapshot, parsing, formatting | | | left out: no protocol |

## Modules

| Module | Models |
|---|---|
| `OperationJournal` | the journal as an open system: any caller calls any method at any time |
| `OperationJournalProofs` | its rows stay typed and decodable; its keys, its history and its retention |
| `OperationRunner` | runner processes, guardians, clients, the staged scan and a daemon that holds the store lock, over the journal |
| `OperationRunnerProofs` | the threads' control, ownership of work; the runners use the journal through its calls only |
| `RunnerDecisionProofs` | decisions stand and can be carried out; store and records agree, code runs once, one writer; the life cycle is implemented |
| `OperationLifecycle` | what a client is promised; implemented by `OperationRunner` |
| `EventCoalescer` | the daemon's coalescer, as operators: classification of watcher events, folding of a window, the drained batch |
| `WatchedRepository` | external: files that are edited, and what a watcher backend reports of it |
| `WatchedBurst` | one window of the coalescer over a watched repository |
| `RepositoryDaemon` | the daemon's loop and its scan runner, over coalescer and repository |
| `RepositoryDaemonProofs` | the batch of a window names what changed, however renames are reported; a path out of date is on its way |
| `SnapshotStore` | scans, builds, imports and cache hits over the snapshot store |
| `SnapshotStoreProofs` | its pointers, imports and evidence, and the order of its scans |
| `AnalysisExecution` | one scan: executor, checkpoints, re-split, publication, across scans and crashes |
| `AnalysisExecutionProofs` | no item lost, stages in order, failures exact, checkpoints and published scans sound |
| `WorkerSupervision` | one worker process, its pipes, limits and token |
| `WorkerSupervisionProofs` | the verdict names its cause; success is a whole stream |
| `GraphQueries` | the breadth-first queries over one snapshot, and their pages |
| `GraphQueryProofs` | pages, paths, impact and attribution are exact |
| `MC...` | instances for TLC |

Operators commented `Slip:` are deliberately wrong variants of the definition that
follows them. They are used by no specification; substituting one for its
original must make the property named in `PROJECT.json` fail.

### OperationJournal

`operations` is a function from live operation ids to rows. A row joins the
`operations` columns with its one `runner_handoffs` row (`claimed`, `finished`
are `claimed_at_ms` and `completed_at_ms`). SQL NULL is `NoTime` or
`NoToken`; `NoTime` is below all timestamps, so a NULL lease expiry counts as lost,
as the queries say. Digests of keys, inputs and tokens are opaque values.
`intents` keeps `decided_at_ms`; `tombstones` the retired scopes.

A method that writes is one action, for it is one IMMEDIATE transaction; a call
that returns an error rolls back and is a stutter. Two exceptions are spelled out
because a runner reacts to them: `ClaimNone` (which may still fail lost leases)
and `ClaimErrs`. `RowOK` is `decode_operation` with
`validate_operation_handoff`, the check behind every read. The writes do *not*
assume it: only `fail_lost_project_exec_leases` re-reads what it wrote, so only
`MayFailLost` contains `RowOK`. That every other write produces a decodable row is
the invariant `RowsDecodable`.

Client calls read the clock inside the transaction. Runner calls carry a
timestamp read before it, so the journal model lets them carry any `t` in
`0..clock`. `purge` is one action with its three phases, each limited to
`PurgeBatch` rows by age. `reserved` is a history variable: until when the last
purged record of a scope must keep the scope.

### OperationRunner

A runner is `run[r]` (main thread) and `guardian[r]`. `run_until_idle` becomes one
action per transaction:

| Actions | Code |
|---|---|
| `TryGuard`, `Leave` | `try_acquire_runner_purge_guard`, process end |
| `Reconcile`, `Recover`, `FinishDecided` | cleanup acknowledgements, completion intents |
| `Expire`, `PurgeStep`, `Claim` | overdue store work, purge, claim, all with one clock reading |
| `StartGuardian`, `GuardianSample`, `GuardianRenew` | `LeaseGuardian::start`, `guard_lease` |
| `FirstCheck`, `Dispatch` (`StartScan`, `StartBuild`), `ReportProgress`, `ForceCancel`, `EndWork`, `FinalCheck` | `ExecutionControl::checkpoint`, `dispatch_scan`, `dispatch_resolve_build` |
| `Join`, `Decide`, `Commit`, `Promote` | `stop_and_join`, the outcome match, `commit_completion_intent`, `promote` |
| `Cleanup`, `Terminalize`, `Acknowledge` | `terminalize_after_cleanup` |
| `Conflict` | `StoreWriterConflict`: the runner leaves |
| `Crash` | death of the process |
| `DaemonStart`, `DaemonStop` | `start_repository_daemon` (lock and `recover_interrupted_attempts`); the end of `run_daemon_loop` |

A fresh clock reading is any instant since the thread's last step (`Fresh`); a
reading that the code keeps in a variable over several transactions is kept in
`at`. An error that `run_until_idle` propagates ends the process (`Exit`), and
the guard file stays locked until the process is gone (`Leave`).

`daemon` says whether a daemon holds the store's writer lock. It takes the lock before it
recovers (`crates/depgraph-core/src/daemon.rs:1451`, 1606) and gives it back when its
loop ends (1866), so beside it no step of a runner that writes the store goes through:
promotion and recovery of an intent, cleanup and its acknowledgement, and the legacy
reconciliation in front of the overdue work (`MustReconcile`) are guarded by `~daemon`, and where
one of them is next (`NeedsStore`) the runner leaves (`Conflict`). The lock is tried, never
awaited. A runner that may control daemons skips the legacy reconciliation and goes on.
A scan or build that begins beside a daemon fails. The runner's own hold on the lock is read off
its step (`HoldsStore`), and keeps a daemon from starting.
 The lease token is
the runner: the code makes a new token per claim, and when a process claims
again no thread using an older one is left.

`stage[o]` is the operation's owner row joined with the status of its scan:
none, staging, proof (cancelled, waiting for acknowledgement), published.
`execs[o]` counts how often the project's own code was run. Two kinds stand for
the two sorts of work: `scan_submit` (staged and promoted by a decision) and
`resolve_build_submit` (executed directly).

### OperationLifecycle

Phases and effects without leases, clocks, runners or tables: an operation is
accepted, perhaps asked to cancel, decided, published, completed; project code is
executed at most once and not after a cancel request; a decided operation can
only complete. The refinement mapping reads the phase off status and intents
(`PhaseOf`) and the effect off the store (`EffectOf`). One transaction may move
several operations, hence the shape of its next-state relation.

### EventCoalescer, WatchedRepository, WatchedBurst

`ingest` is `RepositoryWatcher::ingest`: it classifies a watcher event into the
changes it pushes, or records the half of a tracked rename. `FoldAdded` ...
`FoldRenamed` are the four arms of `coalesce_incremental_changes`, folded over
the operations of a window; `Batch` is what is reported, sorted as the derived
order of `IncrementalFileChange` sorts it. The coalescer's state is a record, so
that the daemon and the single window use the same operators.

`WatchedRepository` is not code of this repository. Files are edited with fresh
contents, and the backend reports a rename in one of the forms that the
recommended watchers of the notify crate send: two halves without a tracker (`split`,
Windows), two unspecific events (`any`, macOS and kqueue), two tracked halves followed by the pair
(`inotify`, Linux), or the tracked halves only (`tracked`, Linux when the halves of several
renames interleave). An overflow loses an event and asks for a rescan; a touch is an event
without a change. `WatchedBurst` compares the batch that a window would drain with
the repository before and after. Three history variables keep what was renamed away, what
something was renamed to, and which paths the window has used again (`reused`).

### RepositoryDaemon

The loop of `run_daemon_loop` is one task: `Drain` (spawn an attempt when the
window is over), `Ingest` (take an event, cancel the attempt that runs),
`Completion` (requeue, arm the back-off, or forget), `Stop`, `WatcherCloses`,
`Break`. `RepositoryScanRunner::run` is another (`RunStart`, `RunAnalysis`,
`RunFallback`, `RunAnalysed`, `RunFails`, `RunCommit`), with the three ways to a
promotion: a full scan, a worker delta, and a semantic no-op. They share the
token. The snapshot is the content it was computed from, path by path; a full
scan replaces all of it, a delta the paths that its changes name. Deadlines are
armed or not; an armed one may pass whenever the loop waits. `TouchFlushed` lets files be
touched for ever while a stopping daemon flushes, whatever the bound on edits is: each event cancels the
flush, which is queued and spawned again.

### SnapshotStore

The identity of a completed snapshot hashes its parent's identity and its own
layer, so a snapshot is the sequence of its layers: scans, builds and trace
sessions. `snapshots` lists the rows in the order of their creation (an identity
that exists is shared, `Created`), `current` and `successful` are the two
pointers, `cache` the whole-scan cache. `writer` is the store's writer lock. An
import is its parent and session; `staged`, `imported`, `owners` and `sessions`
are the rows of `runtime.rs`; `phase` and `decided` are what the journal knows of
operations. A crash releases the lock and leaves every row; recovery
(`RecoverScan`, `RecoverImport`), cleanup (`CleanupImport`) and a starting daemon
(`RecoverInterrupted`) may come at any later time.

### AnalysisExecution

`items` is the schedule with the replacements of re-splits appended. The executor
of `execute_analysis_units_with_clock` is a loop of three phases: ingest what is
next in order (`Ingest`, `IngestFails`, `Settle`, `IngestNothing`), dispatch what
the reorder window and the stage order allow (`Dispatch`, a replay or a spawn),
and wait for a worker (`Join`, `Break`). The scan around it refines items that
exceeded a limit (`Resplit`), gives the store what is still held back
(`Analysed`), verifies and promotes. The repository is a version; a worker reads
the version that is current whenever it reads, so an output stands on a set of
versions. Checkpoints survive scans and crashes; their key names the planned
version and, for a semantic item, the closures its typed items reported.

### WorkerSupervision

The supervisor's wait has four branches (`SeesExit`, `SeesTimeout`,
`SeesCancellation`, `SeesMemory`), polled in any order; the stderr task
(`ReadLine`, `observe`) extends the deadline when a counter advances. `Settle`
joins the readers and chooses one kind by precedence. The worker may hang, print
for ever, exit, or leave a descendant that holds its pipes.

### GraphQueries

A request is a record of its kind and its arguments; a snapshot is a set of edges.
Every kind starts a breadth-first search (`StartTraverse` ... `StartChanges`) that
pops a node (`Expand`) and takes its edges one by one in the order of the adjacency
map (`VisitTraverse`, `VisitWhy`, `VisitCycle`, `VisitAdmitting`). The end of the
search builds the answer: the sorted items of a traversal, the path of `why`, one
cycle per component, the reached nodes of an impact with their paths.

* `VisitAdmitting` is `admit_edge` and `admit_node`. `impact` runs it twice, forward
  from the root to a changed node and then back to what depends on the root, with
  one budget for both.
* A change set searches from all changed nodes at once. Which path a node is
  attributed to is decided afterwards, by a second search per path that stays inside
  the nodes of the first (`Attributed`, a ball in the reached part of the graph).
* `Page` is `paginate_interactive_query`, with the bisection over page lengths. A page
  on which the next item does not fit, or that has no room for its own summary,
  leaves the cursor where it was.
* `Abort` is a cancelled token or a ceiling on preprocessing work.

`Components` stands for petgraph's `tarjan_scc`, which is not code of this repository.

## Runs

| Run | Question | Result |
|---|---|---|
| `journal_retention` | scans and builds through claims, lost leases, deadlines, purge, tombstones and key reuse | passes |
| `runner_scan` | two runners, a crash, a client and a clock around one scan; refinement | passes |
| `runner_writers` | two unbounded scans, a crash, a daemon that starts and stops any time | passes |
| `runner_liveness` | a scan or a build with a deadline ends once no daemon holds the store, a build runs once; refinement | passes |
| `coalesce` | does a batch name every path that changed, however renames are reported? | passes |
| `daemon` | edits and touches during attempts, failures, retries, a lost watcher, a stop | passes |
| `store` | scans, cache hits, builds, direct and shared imports, two crashes | passes |
| `analysis_order` | out-of-order workers, limits, rejects, re-splits, cancellation | passes |
| `analysis_checkpoints` | edits, crashes and replays over two scans | passes |
| `worker_supervision` | everything that can end a worker, at once | passes |
| `queries` | are complete answers complete, and cut ones sound and flagged? | passes |
| `runner_daemon_start` | is a decision recoverable when a daemon starts? | violated |

Properties:

* `RowsDecodable`: no sequence of calls commits a row that later reads reject.
* `OneRecordPerScope`, `IdempotencyWindow`: a key denotes one piece of work, also
  across purge, for the whole tombstone window.
* `TerminalRecordsFrozen`, `LegalHistory`: ended rows do not change and are kept
  for their retention; others move along the documented state machine and never
  back in time or progress.
* `WorkStaysOwned`: while a runner works, nobody else ends or leases its record.
* `SingleLiveWriter`: two store writers never hold live leases together.
* `StageMatchesRecord`: a scan is published only by a decision; ended work leaves
  nothing staged.
* `IntentRecoverable`, `DecisionsStand`: a committed decision can always be finished
  by the next runner, and nothing else can end the record.
* `AtMostOnceExec`: project code runs at most once per operation.
* `EventuallySettled`: work with a deadline ends, once no daemon holds the store lock any more
  (deviation 15).
* `ImplementsLifecycle`: all of it is a behaviour of `OperationLifecycle`.
* `CoveredUnlessReused`: the batch of a window names every path whose file changed, or asks for
  a new plan; a path it misses would keep its old records, as a delta replaces only what is named.
  Excepted are paths that the window used again (`reused`): named by two renames, renamed onto a file,
  created where a file was renamed away, or hidden by a file that came out of an ignored path; and
  a rescan when `.depgraph.toml` itself went (deviation 7).
* `StaleIsPending`: a path that the snapshot shows out of date is reported, waiting,
  or being scanned. `CatchesUp`, `StopsEventually`: once events cease the daemon gets there,
  and a stop is answered (deviation 16).
* `CurrentOfScan`: the two pointers of the store agree. `NewerKept`: they move to
  newer scans only, apart from the case of deviation 9.
* `OwnershipConsistent`, `DecidedStageKept`, `EvidenceRetained`: the import rows
  pass the store's own check; nobody takes away the stage of a committed intent,
  or a session that a snapshot needs.
* `NoUnitLost`, `StageOrder`: the executor leaves no item behind, and a later stage
  starts only behind its consumed prerequisites.
* `CheckpointSound`, `PublishedSound`, `FailuresMatch`: what is stored for reuse
  and what is published stands on the planned version, every path once and nothing
  partial; the failures reported are those of the items that still count.
  `ScanEnds`: the re-split loop runs out.
* `CauseKept`, `OkIsWhole`, `Settles`: a worker's verdict names a cause that was
  seen, success means a complete stream, and the verdict comes.
* `DeliveredExact`: the pages of a traversal hold no edge twice and none that was not
  asked for, and all of them when the last page says complete; it says partial only
  when a bound was too small.
* `PathsShortest`: the paths of `why` and `impact` are shortest and are found
  whenever they exist and no limit was met; every cyclic component is shown by a
  shortest cycle through its smallest node.
* `ImpactExact`, `AttributionExact`: affected nodes come with a shortest path also when
  a limit cut the search, none is missing when none did; a changed path is named for a
  node exactly when it reaches the node on its own within the depth.

Each module with state of its own, `GraphQueries` apart, also states a type
invariant. Those of the journal and of the store are checked and proved;
`RunnerTypeOK` and `AnalysisTypeOK` are proved; `DaemonTypeOK` and
`SupervisionTypeOK` document the state (`DaemonTyped` is the part of the former that a
proof needs).

## Known deviations

Where a doc or a comment promises something that the code does not always do, the
module states the promise in its last section, and TLC refutes it. The first is a run, and
`PROJECT.json` quotes the line it contradicts. To see another, check
the named formula with the constants given; the traces are short.

1. `IntentRecoverable` of the runner (run `runner_daemon_start`): a runner commits
   its intent and dies; a daemon starts and cancels the staged scan
   (`recover_interrupted_attempts`, store `lib.rs:928`). The intent can no longer
   be recovered and, since intents come first, no work is claimed any more.
2. `StaleIsPending`, with the `Edits` of `daemon.cfg` replaced by `{"create", "delete"}`: an attempt
   for *deleted a* is cancelled by *added a*, and requeued behind it
   (`daemon.rs:1840`). The two fold to nothing; no attempt follows, and the graph
   keeps the old `a`. Renames that are reported in halves or pairs do the same. No property
   covers the order of the requeue. The system
   design (`docs/40_arch_design/arch-dependency-graph-cli-system-design.md:1324`):
   「cancelされたbatchと新しい変更を再coalesceして次batchを開始する」.
3. `CancelRequestDeliverable`, with `resolve_build_submit`: cancel a queued build.
   The row is cancelling with no lease and an unclaimed handoff, so the next
   capable claim takes it for a lost lease, fails it, and its own row check rejects
   the result (`lib.rs:5000`, `5269`). Every claim fails until the deadline.
   `docs/40_arch_design/arch-mcp-agent-tools.md:309-314` hands the cancel to the runner.
4. `QueuedWorkHasRunner`, with `FreeLaunch` FALSE: a runner has found its queue
   empty and is leaving; a client submits and launches; the new runner finds the
   guard held and returns (`runner.rs:727`). `crates/depgraph-mcp/src/main.rs:2629`:
   "without ever returning an accepted handle for work that was not handed to a
   runner".
5. `EarlierCancelWins`: a cancel commits after the runner read the clock and before
   its decision; the decision fails on the row's date instead of reporting the
   cancel (`lib.rs:2421`). The next runner ends it. `lib.rs:2400`: "Cancellation that
   commits first wins".
6. `TakeoverMayReport`: the second holder of a scan starts reporting at zero, which
   is refused as going back; the scan is cancelled, but its record is running and
   may not end as cancelled, so the runner exits, and so does the next
   (`runner.rs:1804`).
7. `BurstCovered` (the batch of a window names every changed path), in five ways.
   * The tracked halves of a rename are appended when the window is drained, behind
     everything else (`daemon.rs:283`). `tracked`: rename *b* to *a* and create *b*; the rename
     takes the new *b* along, and *b* is missing. `inotify`, which sends the pair as well: create *a*,
     rename it to *b* and create *a* again; *a* is missing.
   * A name is given away and taken back (`inotify`: rename *b* to *a*, *a* to *b*, delete *b*):
     the batch is empty (`daemon.rs:368`).
   * A file is renamed onto an existing path, which is then deleted (`split`: rename *b* to *a*,
     delete *a*): *a* counts as new, and its deletion is missing (`daemon.rs:360`).
   * A file out of an ignored path takes the place that another was renamed to: it is an added
     file, and hides the path the other came from (`daemon.rs:327`).
   * A rescan request is encoded as a modification of `.depgraph.toml` (`daemon.rs:445`).
     Creating that file, losing the events of another and deleting it again leaves a batch without
     the rescan (any backend).

   The system design (line 1322) says 「added / modified / deleted /
   rename chain、temporary replacementを決定的にcoalesceする」.
8. `PromotionGated`: the semantic no-op path looks at the token at `daemon.rs:901` and
   promotes at 924 without the gate. The system design (line 1324):
   「cancelled attemptはsnapshotを生成・promoteせず」.
9. `NewerUnchanged`, with three scans: S1 promotes P; S2 starts on P, commits its
   intent and crashes; S3 hits the cache and republishes P; the recovery of S2 finds
   its parent current and replaces the newer S3 (store `lib.rs:1712`: "leaves that
   newer current snapshot unchanged").
10. `IntentRecoverable` of the store, with two scans and a direct import: a session that
    was imported on one base is imported on another by an operation. The session
    row keeps its first base (`runtime.rs:523`), and recovery of the operation's
    intent refuses the mismatch for ever.
11. `LayersKept`, with two sessions, two operations and a build: two imports on the
    same base; the second is not promoted but is the scan's latest snapshot, the
    next build stands on it, and the first import leaves the current snapshot
    (`build.rs:343`; compare the comment at 201).
12. `BuildPromotable`, with two scans of one content: a build on a scan that was
    answered from the cache is accepted, runs, and cannot be finished
    (`build.rs:354`).
13. `CheckpointSound` with `Reverts` TRUE: an edit that is undone while a worker runs
    is not seen by the check behind it, and the checkpoint's key does not name what
    was read (`analysis_schedule.rs:238`; compare the comment at 1105).
14. `StageMatchesRecord`, with a grant without `scan_submit` (no `StoreWrite`) among the `Grants`: a
    runner ends a scan as failed and dies before it acknowledges the cleanup, so the
    store still has the proof. A runner that may only build reads no proofs
    (`runner.rs:2627`) and purges the record when its retention is over (`runner.rs:784`).
    Every later runner with the store finds a proof without a record and exits with an
    integrity failure. The proof attempt showed this; the theorem has the hypothesis
    `StoreGranted`.
15. `ControlStaysRunnable`, with the constants of `runner_liveness`: a scan is overdue while a daemon
    runs. A runner that may control daemons skips the legacy reconciliation, meets the overdue
    scan before it claims anything, and leaves, because the cleanup needs the daemon's lock
    (`crates/depgraph-core/src/service_store_write.rs:916`); a runner without that capability leaves one
    step earlier (`runner.rs:758`, 2675). So while the daemon runs, overdue scans do not end, and
    a request to stop it through a runner is not claimed. `runner.rs:2664`: "daemon stop/control
    claims must remain runnable under that ownership". `EventuallySettled` promises the end of the work
    for when no daemon runs any more.
16. `StopAnswered`, with the constants of `daemon`: a daemon that is asked to stop flushes what it
    has. Each event that arrives cancels the flush (`daemon.rs:1773-1783`), its changes are queued
    again (1839-1840) and a new flush is spawned (1706-1713), so files that go on being
    touched keep it from stopping. The system design (line 1324): 「pending batchを1回だけ最終flushする」.
    `StopsEventually` and `CatchesUp` have `Quiet`: from some moment on, the channel is empty.

## Bounds

* Two operations in the journal and in `runner_writers` are enough to interfere in
  a scope, in a purge batch of one and for the writer lease; the runner runs that
  follow one operation use one, since other operations meet it only through the
  guard, the intent and the writer lease.
* Two runners: the guard admits one; the second is the successor or the intruder.
* `MaxTime` is 3 in `journal_retention` with a lifetime of 1: submission, deadline,
  retention (1), tombstone (1) and reuse of the key. In the runner runs it
  lets a lease expire before the deadline, and the deadline before the end.
* `MaxCrashes` is 1 or 2: a crash, and one during what recovers from it.
* `UnboundedDeadline` stands for `i64::MAX` minus the retention; the clock never
  reaches it, which `TimeAssumption` states.
* `FreeLaunch` FALSE keeps launches to one per submission, where extra launches only
  multiply states (`runner_writers`).
* `coalesce`: three edits over four paths, of which one is ignored and one is `.depgraph.toml`, under
  all four backends; creations, writes, deletions, overflows and renames, also onto existing
  files. Three edits are what the shortest trace of every case of deviation 7 takes, so each
  exception of `reused` is met. The theorem lifts the property to any number of paths and edits.
* `daemon`: two edits, one failure, renames reported as `any`, and any number of touches while a
  stopping daemon flushes. Two edits put one
  into an attempt and the other into its cancellation and requeue. Creations and
  deletions are left out, and renames reported in halves or pairs (deviations 2 and 7);
  larger instances of the safety property (three edits, creations, overwrites) pass as well
  but take longer than a run should.
* `runner_liveness`: every scan has a deadline (`UnboundedScans` FALSE), since the property is about
  those and there is one operation; `runner_scan` has the refinement with scans that have none. Runners
  may control daemons, so they get as far as the overdue work beside one; one crash; the
  daemon starts and stops any number of times.
* `store`: two scans of two contents, a build, a session, two operations and direct
  imports. The theorems lift its properties to any number.
* `analysis_order`: four items on two workers, one of which the planner can refine;
  `analysis_checkpoints`: three items, two versions, two scans. A version never
  comes back (`Reverts` FALSE, deviation 13).
* `worker_supervision`: two phases of which one is tracked, counters to 2, three
  stderr lines, a budget of two ticks: each limit is met and exceeded.
* `queries`: (the theorems lift its properties to any set of graphs, requests and
  limits) every graph of at most four edges on four nodes, with a loop among them,
  and each also with one edge doubled in a second profile. Every bound is met and
  exceeded: items, bytes, traversed and inspected edges, nodes, edges, depth, and the
  length of all paths together. `MaxPathSteps` is 3, the longest path of four nodes,
  so `why` and the forward search cannot exceed it; the sum of both halves of an
  impact path can.
* `CHECK_DEADLOCK FALSE`: the clock is at its bound and everything has ended, or the
  bounded environment has made its last edit, scan or crash. `daemon` and
  `queries` check deadlock: a daemon that rests, and an answer that was given, do so in
  a step of their own.
* Symmetry permutes ids, keys, tokens, scans, contents, which are only compared. It is off
  wherever liveness is checked.

## Fairness

* `OperationRunner`: the clock advances, a runner's main and guardian threads are
  scheduled, and some runner is launched again and again. The first two hold on
  any running machine. The last is what clients do: an agent that does not
  see its operation end resubmits the key or submits other work, and both launch a
  runner (`handoff_submitted_scan`). Without it the property is false (deviation 4).
  No fairness is assumed of cancels, withdrawals, crashes or of a scan
  ending well. Nor is a daemon assumed to stop: `EventuallySettled` is about the behaviours in
  which it does not run for ever (`[]~daemon` from some moment on), since one that does keeps the lock.
* `RepositoryDaemon`: the loop's `select!` polls every branch that is ready, and the
  attempt's task goes on; its workers are bounded by `WorkerSupervision`. Edits, touches,
  failures and stops are not fair; the properties are about the behaviours in which events cease
  (`Quiet`).
* `AnalysisExecution`: the executor is polled, and every worker ends.
  `WorkerSupervision!Settles` is why: time passes and the supervisor is scheduled;
  nothing is assumed of the worker.

## Proofs

`OperationJournalProofs` proves, for every value of the constants that satisfies
`TimeAssumption` and `NameAssumption` (positive retentions, an unreachable
unbounded deadline, tokens that are not NULL):

* `JournalInvariant`: `JournalSpec => []JournalInv`, with
  `JournalInv == TypeOK /\ RowsDecodable`. Neither half is inductive in
  isolation: a write keeps a row decodable because its guards compare typed
  timestamps with those of a decodable row, and a typed row after a deadline
  failure needs the deadline of the old one.
* `TypeCorrect` and `RowsStayDecodable`, its two halves.

The argument: each row operator (`ClaimRow`, `EndRow`, `DeadlineRow`, ...) maps a
typed, decodable row to such a row under its caller's guard, one lemma each; each
action replaces some rows by such images and drops others, one step each; the
three phases of purge only shrink or reap.

`SnapshotStoreProofs` proves, from `StoreAssumption` (scans, builds and operations
are distinct, the scans finite), `StoreInvariant`: `Spec => []StoreInv`, and from
it `StoreTypeCorrect`, `OwnershipHolds`, `DecidedStageHolds`, `EvidenceHolds` and
`CurrentOfScanHolds`. `StoreInv` is `StoreTypeOK` with two groups:

* `GraphInv`: every snapshot row belongs to a completed scan and is that scan's
  snapshot with layers on top (`RowsOK`); a completed scan's snapshot exists and has
  no layers, a staging scan has a content (`ScansOK`); the current snapshot is of the
  successful scan, which is completed (`SuccessfulOK`); a cached content names an
  existing snapshot without layers (`CacheOK`); a build that holds the lock stands on
  the successful scan (`HeldBuildOK`). `CurrentOfScan` alone is not inductive: a build is
  promoted unconditionally, and keeps the pointers together only because the writer
  lock keeps the scan it started from successful until it ends.
* `ImportInv`: submitted imports name existing snapshots (`InputsOK`); owners have
  staged and not finished (`OwnersOK`); the ownership check itself; the import of
  an operation that holds the lock, staged or decided, is staged and owned by it
  (`HeldImportOK`); the stage of
  a decision (`DecidedStageKept`); a session layer comes from a completed import
  (`LayersImported`); imports have their session rows (`SessionsStored`).
  `EvidenceRetained` needs the last two: a release deletes a session row only when
  no import is left that has it, and no snapshot has the layer without an import.

One lemma per action shows what it preserves; lemmas about `Base`, `Layers`,
`Latest` and `Created` say what appending a layer or a row does. `StoreInv` was
checked by TLC before it was proved.

`OrderInvariant` and `NewerStays` follow the numbers of the scans. `NewerKept` compares
a recovered scan with the successful one, and the code compares identities of
snapshots only. What connects the two is `OrderInv`: the scans are numbered in the
order of their starts (`NumbersOK`), the one with the lock is the newest
(`NewestHolds`), an identity has one row (`RowsUnique`), and the row of a scan's parent
is of an older scan (`ParentsOlder`). A scan that finishes in its own process holds the
lock, so it is the newest. A scan that is recovered is promoted only on its parent; what is current then was made by an older scan.

Its second half adds the action properties of the journal. `Keeps(r, s)` is what a
step may make of a record; one lemma per action shows `TableStep`, from which
`TerminalRecordsStay` and `HistoryIsLegal` follow. `ScopeInv` is `OneRecordPerScope` with
`WindowInv`: a reservation that is not over is backed by a record or by a tombstone that
lasts as long. `ScopesStayUnique` and `WindowIsKept` follow. The window needs `WindowInv`,
because purge turns records into tombstones and reaps tombstones in batches, each with
its own clock reading.

`OperationRunnerProofs` is about the runners, for any number of runners, operations,
crashes and grants.

* `ControlInv` relates the threads to the guard, to the clock and to the records: a
  runner between taking and giving back the guard holds it; a guardian runs only beside
  the steps that tolerate it; a clock reading that is still going to be used is not in
  the future; a runner that works has its record leased under its token.
  `WorkStaysOwned` is a part of it and is not inductive without the rest: nobody takes
  the record over because takeovers are made by runners with the guard.
* `RunnersUseTheJournal`: `Spec => JournalSpec`. Every step is a call of the journal with
  a reading in `0..clock`, or leaves the journal alone. This carries the theorems about
  the journal over to the runners.

`RunnerDecisionProofs` describes every step of a main thread field by field (the
`...Shape` lemmas) and proves `DecisionInv`: from commit to finish the intent is there
and the record is leased and unmoved; while a runner is at a step where it could claim, no
intent is open; a staged scan belongs to a live record. `DecisionsAreKept` needs no
hypothesis. `DecisionsCanBeCarriedOut` has `~DaemonStarts`, since with a daemon it is false
(deviation 1).

The same module has three more invariants and the refinement.

* `ProofInv`: a cleanup proof has its record, and a runner that could purge the record
  has acknowledged the proof. From it, `StoreMatchesRecords`, under `StoreGranted` (every
  grant has `scan_submit`; deviation 14).
* `ExecInv`: a claim is not later than the readings that the runner with the guard still
  uses; a runner that has claimed and not yet dispatched has run nothing; of two claimed
  builds one was overdue when the other was claimed (`BuildsApart`), so the batch of lost
  leases that a claim fails has all of them. From it, `CodeRunsOnce`.
* `WriterInv`: while a runner is busy with a scan, the leases of all other writers have
  expired. From it, `OneWriterAtATime`; claims and renewals with stale readings are the
  hard case.
* `RunnersImplementLifecycle`: initial states map to initial states, and every step maps
  to a step of `OperationLifecycle` or to a stutter. `OpMove`, `LeaseMove` and `RunMove` say what a
  step may do to one record, its lease and one thread; `Follows` says that the
  abstract life of each operation takes one of its allowed steps.

`WorkerSupervisionProofs`: `VerdictInv` adds to `CauseKept` and `OkIsWhole` what the
supervisor's state says of the child and of the pipes, and which kinds the cause of the
wait alone accounts for before the readers are joined.

`AnalysisExecutionProofs` is about any schedule, any number of concurrent workers, any
refinements and any number of scans. Besides the typing of the constants it uses
`ScheduleAssumption`: the earlier stages of a unit come first in the schedule, which
`stage_prerequisites` insists on (`analysis_execution.rs:912`), and the batches of
one unit and stage share no path, which is what `partition` makes
(`analysis_split.rs:1884`).

* `ExecutorInv`: the items taken and not ingested are exactly those in the hands of
  a worker or waiting for their turn (`WindowOK`); what was ingested is decided, and a worker
  runs only on decided prerequisites (`DecidedOK`); the items that count partition
  the planned paths, through every re-split (`PlanOK`). From it, `NoItemIsLost`.
* `LedgerInv`: every failure on record belongs to an item that counts, and the staging
  scan has at most one record per item and none of an item that was, or may still be,
  replaced. From both, `StagesAreOrdered` and `FailuresAreExact`.
* `ReadInv`: all that was read lies between the planned and the current version,
  so that a repository found unchanged was read at one version. From it,
  `CheckpointsAreSound` and `PublishedIsSound`. Both have the hypothesis `~Reverts`: with
  edits that are undone the first is false (deviation 13), since the code compares contents.

`GraphQueryProofs` is about any graphs, requests, limits and page sizes. `QueryAssumption`
types the constants and nothing more: nodes and profiles are finite sets of positive
numbers, a page has room for an item or more, and any byte limit is allowed.

* The distances are recursive functions over the naturals (`Ball`). What holds of them
  for every number of steps is proved by the least number principle, with the set of
  the numbers for which it holds in the place of a predicate: walks stay in their balls,
  balls grow until nothing is added and then never again, so that as many steps as there are
  nodes reach everything.
* `Sound` says of a search, at every moment, that each node it has seen hangs by its `via`
  edge on a node one step nearer (`Tree`), that its depth is its distance from the roots
  (`Exact`), and that the queue is in order of depth, no node seen being more than one step beyond
  an unfinished one (`Ordered`). `Closed` says that every edge out of a finished node is
  pending or leads to a node that has been seen. A search that has run out of edges and is closed
  has seen all it can reach. One lemma per step of a search (an edge to a known node, an edge to a new
  one, the next node of the queue) shows that both are kept, in both directions and under any depth bound.
* `SearchInv` is `QueryTyped` and `KindsMatch` (which requests a search works for) with an
  invariant for each search: `TraverseInv`, `PagesInv`, `WhyInv`, `ForwardInv`,
  `ReverseInv` and `CyclesInv` say what `Sound` and `Closed` mean for its answer so
  far, and which limits have been met. `PathsShortest`, `ImpactExact` and `AttributionExact`
  are conjuncts of it, being statements about a finished answer.
* The bisection for a page's size (`PageCount`) ends within the items that are left; so a
  page continues where the last one stopped, and no item is skipped or repeated.
* A search that stopped at a limit proves less: its depths are right and its walks are real,
  but `Closed` may fail, and the properties say `complete` where they need it.

`RepositoryDaemonProofs` is about any set of paths and any number of edits, events,
attempts and failures.

* The library says nothing of `FoldLeft` but its definition. It is opened, and what a window of any
  length folds to is proved by induction over its length. The sorted batch is the one line-up of
  a finite set by `Precedes`, which is proved to exist (`InOrder`).
* `BurstsCovered` is about every backend form, with overwrites, overflows, ignored paths and
  `.depgraph.toml` among the edits. Neither the batch nor the window is inductive, since the files
  run ahead of the events, and the tracked halves are appended last. `BurstInv` therefore speaks of the
  coalescer that the daemon will have when it has ingested what waits in the channel (`Leads`), and of what
  draining it would add (`Replay`, change by change). It says (`Described`): the halves that are held are those of
  renames of this window, each path not used again in one of them at most, and none is hidden
  (`Trackers`); a path that was not renamed away is where no other one came from (`NotOrigin`); every
  changed path that was not used again is shown by the operations or by a half, or the rescan
  is (`CoveredAll`). One lemma per edit shows that its events keep this, `DrainNames` that the
  drained batch then names every changed path that was not used again.
* `DaemonInv`: only a full scan answers for `.depgraph.toml` (`AttemptSound`); a path that
  changed behind the analysis that has read it is reported or collected
  (`ReadOrReported`), as is what a promoted attempt leaves out of date
  (`PromotedOrReported`) and what no attempt is about (`StaleOnItsWay`). From it,
  `StaleStaysPending`, under `WritesOnly`: nothing is deleted, and renames are reported as two
  changed paths. Renames onto existing files, ignored paths, overflows, failures, a lost
  watcher, touches and the stop are unrestricted. Without `WritesOnly` it is false (deviations 2 and 7).

Each invariant was checked by TLC on the instances of the runs before it was proved.

Every invariant, action property and refinement that a passing run checks is also the
conclusion of a theorem. Only model-checked is liveness, which the prover does not
reach: `EventuallySettled`, `StopsEventually`, `CatchesUp`, `ScanEnds`, `Settles`.

## Abstractions

* Graph contents, digests, keys and identities are opaque; a snapshot identity is the
  sequence of layers it hashes, so two identities are equal exactly when these are.
* `AnalysisExecution`: the input of a checkpoint key is the whole repository's
  version, where the code hashes the unit's closure; units are bounded by
  packages; a re-split supersedes one item; the Rust syntax-only retry is left out;
  the total budget and the user's cancellation are one token; a stream that violates
  the security policy is a failure that no re-split answers. The refinements are
  any that the planner could return.
* `WorkerSupervision`: a stream is partial, complete, malformed or over its limit.
* `SnapshotStore`: the compiler-precise publication of a cache hit and the legacy owner
  sentinel of imports are left out. Collection of old snapshots is called by tests
  only.
* `GraphQueries`: of the filters, the profile is modelled, the others select edges in the
  same way; an item takes as many bytes as the number of its profile; selectors and
  the mapping of changed paths to nodes are inputs.
* `RepositoryDaemon`: start-up and status files are left out; ignore rules are a set.

## Not modelled

Schema migrations and file permissions; the launcher's executable checks; export
and daemon dispatch of the runner; clock steps backwards (a wall clock
that runs back makes calls fail on `updated <= t`, the same guard that stale
readings exercise); SQLite busy errors (a call that fails is a stutter, or ends
the runner at the next step, as `Crash` does); legacy staging cleanup before the
purge; the paging of cleanup acknowledgements (a page holds more proofs than the
instances have operations); the contents of graphs.

Most of the repository's lines are parsers, contract and language scanners, wire
types, the declarative query language, health reports, the policy engine, the command
line and release tooling: functions
from data to data without a protocol of their own. A model of them would restate
them, so the map covers a small share of the lines; it is meant to cover
the part where steps of several actors meet.

## Plan

1. *Done*: journal, runner, life cycle, coalescer, daemon loop, snapshot store with
   imports, analysis execution, worker supervision, queries, their runs.
2. *Done*: proofs of the safety properties of every module that has a run, and of the
   refinement of the life cycle.
3. The theorem about the batch of a window covers every backend form. Not to be had while deviations
   2 and 7 stand: theorems about the daemon's loop with deletions, or with renames reported in halves
   or pairs.
4. The runner's import dispatch as an instance of `SnapshotStore`, so that journal
   and store recover together in one model; the capability exit of `Expire`.
