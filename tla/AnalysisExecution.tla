------------------------- MODULE AnalysisExecution -------------------------
(***************************************************************************)
(* The analysis of one scan (crates/depgraph-core/src/analysis_execution.rs*)
(* and scan.rs): execute_analysis_units runs the work items of the         *)
(* schedule on worker processes, at most max_concurrent_units at a time,   *)
(* and ingests their outputs in schedule order; the scan re-splits the     *)
(* items that exceeded a resource limit, runs the replacements, and        *)
(* promotes the result when the repository is still what was planned.      *)
(* Accepted outputs become checkpoints that later scans may replay.        *)
(*                                                                         *)
(* The repository content is a version.  A worker reads the version that is*)
(* current whenever it reads, so its output stands on a set of versions.   *)
(* Editors, the cancellation token, the workers and the executor take      *)
(* their steps in any order.                                               *)
(***************************************************************************)
EXTENDS Integers, Sequences, FiniteSets

CONSTANTS Work,            \* the schedule: a sequence of items
          MaxConcurrent,   \* scan.max_concurrent_units
          Contents,        \* versions of the repository
          Reverts,         \* edits may bring an earlier version back
          MaxLevel,        \* how often the planner can refine an item
          MaxScans,        \* bound: scans of the repository
          MayCancel,       \* the user, or the total budget, may cancel
          MayFail          \* what an attempt may meet besides success

Stages == {"syntax", "typed", "semantic"}

\* What ends a worker: success, a resource limit (time, memory, output),
\* cancellation, or another failure; a stream that violates the security
\* policy is one of the others even when a limit ended it.
Failures == {"limit", "other"}
Outcomes == {"ok", "cancelled"} \cup Failures

\* A work item: the batch of paths that it owns, of one stage of one unit, and
\* how often it was refined.
WorkItem ==
    [unit : { Work[i].unit : i \in 1..Len(Work) }, stage : Stages,
     paths : SUBSET UNION { Work[i].paths : i \in 1..Len(Work) },
     level : 0..MaxLevel]

\* The stages that come before one.
Prior(stage) == CASE stage = "typed" -> {"syntax"}
                  [] stage = "semantic" -> {"syntax", "typed"}
                  [] OTHER -> {}

ASSUME AnalysisAssumption ==
    /\ MaxConcurrent \in Nat \ {0}
    /\ Contents \subseteq Nat /\ IsFiniteSet(Contents) /\ Contents # {}
    /\ Reverts \in BOOLEAN /\ MayCancel \in BOOLEAN
    /\ MaxLevel \in Nat /\ MaxScans \in Nat
    /\ MayFail \subseteq Failures \cup {"reject", "store", "crash"}
    /\ Work \in Seq(WorkItem) /\ Work # <<>>
    /\ \A i \in 1..Len(Work) : IsFiniteSet(Work[i].paths) /\ Work[i].paths # {}

\* The planner's part: a unit's earlier stages come first, which the executor
\* insists on, and the batches of a unit and stage share no path.
ASSUME ScheduleAssumption ==
    \A i, j \in 1..Len(Work) :
        Work[i].unit = Work[j].unit =>
            /\ Work[j].stage \in Prior(Work[i].stage) => j < i
            /\ Work[i].stage = Work[j].stage /\ i # j
                   => Work[i].paths \cap Work[j].paths = {}

VARIABLES content,      \* what the repository holds
          checkpoints,  \* committed unit checkpoints
          scans,        \* scans started so far
          pc,           \* where the scan stands
          expected,     \* the version the schedule was planned from
          preflight,    \* the memoized witness: "unset", "same", "changed"
          token,        \* the cancellation token
          items,        \* the work items, replacements appended
          first,        \* the first item of the running executor
          started,      \* its last item that was taken from the queue
          ingested,     \* its last item that was ingested
          status,       \* progress.units[i].status
          limited,      \* items whose failure reason is a resource limit
          worker,       \* the worker of an item that runs
          ready,        \* outputs that wait for their turn
          loader,       \* the reference fingerprint an item reported
          superseded,   \* items that a re-split withdrew
          attempted,    \* items that the planner was asked to refine
          failed,       \* unit_failures: by unit id
          deferred,     \* deferred_failures: partial outputs held back
          stored        \* outputs in the store's staging scan

repoVars == <<content, checkpoints, scans>>
planVars == <<expected, token, items, first, superseded, attempted>>
runVars == <<preflight, started, ingested, status, limited, worker, ready, loader,
             failed, deferred, stored>>
vars == <<content, checkpoints, scans, pc, expected, preflight, token, items,
          first, started, ingested, status, limited, worker, ready, loader,
          superseded, attempted, failed, deferred, stored>>

None == "none"
Items == 1..Len(items)

\* The identity of a work item: replacements of the same paths share it.
UnitId(i) == [unit |-> items[i].unit, stage |-> items[i].stage,
              paths |-> items[i].paths]

Cancelled == token # "active"
Running == { i \in Items : i \in DOMAIN worker }
Finished == { i \in Running : worker[i].outcome # None }

-----------------------------------------------------------------------------
(***************************************************************************)
(* Checkpoints.                                                            *)
(***************************************************************************)
\* stage_prerequisites: the last earlier-stage item of the same unit.
prerequisites(i) ==
    { j \in first..Len(items) :
        items[j].unit = items[i].unit /\ items[j].stage \in Prior(items[i].stage) }

\* Typed items that loaded the packages of item i: those of this executor,
\* and the completed ones that a re-split retained.
TypedOf(i) ==
    { j \in Items \ superseded :
        /\ j # i
        /\ items[j].unit = items[i].unit /\ items[j].stage = "typed"
        /\ items[j].paths \cap items[i].paths # {}
        /\ j >= first \/ status[j] = "completed" }

\* The closures that a semantic item is bound to; none unless all the typed
\* items have reported theirs.
bind_reference_fingerprints(i) ==
    IF items[i].stage = "semantic" /\ \A j \in TypedOf(i) : loader[j] # {}
    THEN { loader[j] : j \in TypedOf(i) }
    ELSE {}

CheckpointKey(i) == [id |-> UnitId(i), input |-> expected,
                     reference |-> bind_reference_fingerprints(i)]

package_semantic_checkpoint_bound(i) ==
    items[i].stage = "semantic" => bind_reference_fingerprints(i) # {}

\* matches_before_reuse: the first check of a scan is memoized.
Preflight == IF preflight # "unset" THEN preflight
             ELSE IF content = expected THEN "same" ELSE "changed"

\* Slip: a checkpoint write trusts the memo.
matches_memo == Preflight = "same"

\* matches_checkpoint_write and matches_postflight: the repository is read anew.
matches_postflight == content = expected

StagedCheckpoint(i, output) ==
    IF /\ output.outcome = "ok"
       /\ ~Cancelled
       /\ package_semantic_checkpoint_bound(i)
       /\ matches_postflight
    THEN { [key |-> CheckpointKey(i), read |-> output.read] }
    ELSE {}

-----------------------------------------------------------------------------
NoScan ==
    /\ expected = 0 /\ preflight = "unset" /\ token = "active"
    /\ items = <<>> /\ first = 1 /\ started = 0 /\ ingested = 0
    /\ status = <<>> /\ limited = {} /\ worker = <<>> /\ ready = <<>>
    /\ loader = <<>> /\ superseded = {} /\ attempted = {}
    /\ failed = {} /\ deferred = {} /\ stored = {}

Init ==
    /\ content \in Contents
    /\ checkpoints = {}
    /\ scans = 0
    /\ pc = "idle"
    /\ NoScan

\* A scan: prepare_analysis_schedule plans the items from what the repository
\* holds, with a token of its own.
StartScan ==
    /\ pc \in {"idle", "published", "partial", "cancelled", "failed"}
    /\ scans < MaxScans
    /\ scans' = scans + 1
    /\ pc' = "ingest"
    /\ expected' = content
    /\ preflight' = "unset"
    /\ token' = "active"
    /\ items' = Work
    /\ first' = 1 /\ started' = 0 /\ ingested' = 0
    /\ status' = [i \in 1..Len(Work) |-> "queued"]
    /\ limited' = {} /\ worker' = <<>> /\ ready' = <<>>
    /\ loader' = [i \in 1..Len(Work) |-> {}]
    /\ superseded' = {} /\ attempted' = {}
    /\ failed' = {} /\ deferred' = {} /\ stored' = {}
    /\ UNCHANGED <<content, checkpoints>>

-----------------------------------------------------------------------------
(***************************************************************************)
(* The executor: ingest what is next, dispatch what the window allows, wait*)
(* for a worker.                                                           *)
(***************************************************************************)
NextIngest == ingested + 1

Without(f, i) == [j \in DOMAIN f \ {i} |-> f[j]]
With(f, i, value) == [j \in DOMAIN f \cup {i} |-> IF j = i THEN value ELSE f[j]]

\* Slip: a partial output goes to the store although it may be replaced.
held_back_never(output) == FALSE

\* A resource limit may lead to a re-split: the partial output is held back.
held_back(output) == output.outcome = "limit"

\* consume: the output reaches the store, unless it is held back or the store
\* rejects it; everything but an accepted complete output is a failure.
Consume(i, output, accepted) ==
    /\ failed' = IF accepted THEN failed ELSE failed \cup {UnitId(i)}
    /\ deferred' = IF held_back(output) THEN deferred \cup {i} ELSE deferred
    /\ stored' = IF \/ held_back(output)
                    \/ output.outcome = "ok" /\ ~accepted
                 THEN stored
                 ELSE stored \cup {[item |-> i, partial |-> ~accepted,
                                    read |-> output.read]}

\* The output that is next: consumed, and its checkpoint committed if the
\* store took it and nobody has cancelled.
Ingest ==
    LET output == ready[NextIngest]
    IN  /\ pc = "ingest" /\ NextIngest \in DOMAIN ready
        /\ \E accepted \in BOOLEAN :
              /\ accepted => output.outcome = "ok"
              /\ ~accepted => output.outcome # "ok" \/ "reject" \in MayFail
              /\ Consume(NextIngest, output, accepted)
              /\ \E lost \in BOOLEAN :
                    /\ lost => "store" \in MayFail
                    /\ checkpoints' = IF accepted /\ ~Cancelled /\ ~lost
                                      THEN checkpoints \cup output.staged
                                      ELSE checkpoints
              /\ pc' = IF accepted THEN "settle" ELSE "settle_failed"
        /\ limited' = IF output.outcome = "limit" THEN limited \cup {NextIngest}
                      ELSE limited
        /\ loader' = [loader EXCEPT ![NextIngest] = output.fingerprint]
        /\ ready' = Without(ready, NextIngest)
        /\ UNCHANGED <<content, scans, planVars, preflight, started, ingested,
                       status, worker>>

\* The store fails: the executor returns the error, its tasks are aborted, and
\* what was held back is restored before the scan gives up.
IngestFails ==
    /\ "store" \in MayFail
    /\ pc = "ingest" /\ NextIngest \in DOMAIN ready
    /\ pc' = "failed"
    /\ worker' = <<>> /\ ready' = <<>>
    /\ UNCHANGED <<repoVars, planVars, preflight, started, ingested, status,
                   limited, loader, failed, deferred, stored>>

\* The item's status is decided after its checkpoint was.
Settle ==
    /\ pc \in {"settle", "settle_failed"}
    /\ status' = [status EXCEPT ![NextIngest] =
                     IF Cancelled THEN "cancelled"
                     ELSE IF pc = "settle" THEN "completed" ELSE "failed"]
    /\ ingested' = NextIngest
    /\ pc' = "ingest"
    /\ UNCHANGED <<repoVars, planVars, preflight, started, limited, worker, ready,
                   loader, failed, deferred, stored>>

IngestNothing ==
    /\ pc = "ingest" /\ NextIngest \notin DOMAIN ready
    /\ pc' = "dispatch"
    /\ UNCHANGED <<repoVars, planVars, runVars>>

\* Slip: a later stage waits for its prerequisites to start, not to be consumed.
admissible_when_started(i) ==
    /\ i <= ingested + MaxConcurrent
    /\ \A j \in prerequisites(i) : j <= started

\* Slip: the prerequisite must lie before the last item that was consumed.
admissible_strict(i) ==
    /\ i <= ingested + MaxConcurrent
    /\ \A j \in prerequisites(i) : j < ingested

\* The reorder window, and the stage order of the item's unit.
admissible(i) ==
    /\ i <= ingested + MaxConcurrent
    /\ \A j \in prerequisites(i) : j <= ingested

CanDispatch ==
    /\ Cardinality(Running) < MaxConcurrent
    /\ ~Cancelled
    /\ started < Len(items)
    /\ admissible(started + 1)

\* A checkpoint that may be replayed: its key binds the planned input and the
\* closures that the typed stage of this scan reported.
Replayable(i) ==
    { c \in checkpoints : /\ package_semantic_checkpoint_bound(i)
                          /\ Preflight = "same"
                          /\ c.key = CheckpointKey(i) }

Replay(i) ==
    \E c \in Replayable(i) :
        /\ ready' = With(ready, i, [outcome |-> "ok", read |-> c.read,
                                    fingerprint |-> c.read, staged |-> {}])
        /\ UNCHANGED <<status, worker>>

Spawn(i) ==
    /\ Replayable(i) = {}
    /\ status' = [status EXCEPT ![i] = "running"]
    /\ worker' = With(worker, i, [outcome |-> None, read |-> {}])
    /\ UNCHANGED ready

Dispatch ==
    LET i == started + 1
    IN  /\ pc = "dispatch" /\ CanDispatch
        /\ started' = i
        /\ preflight' = IF package_semantic_checkpoint_bound(i) THEN Preflight
                        ELSE preflight
        /\ Replay(i) \/ Spawn(i)
        /\ UNCHANGED <<repoVars, planVars, pc, ingested, limited, loader, failed,
                       deferred, stored>>

DispatchNothing ==
    /\ pc = "dispatch" /\ ~CanDispatch
    /\ pc' = IF NextIngest \in DOMAIN ready THEN "ingest" ELSE "join"
    /\ UNCHANGED <<repoVars, planVars, runVars>>

Joined(i) == Without(worker, i)

\* A worker has ended; its stream is staged as a checkpoint, and published only
\* after the store has taken it.
Join(i) ==
    /\ pc = "join" /\ i \in Finished
    /\ \E reported \in BOOLEAN :
          /\ worker[i].outcome = "ok" => reported
          /\ ready' = With(ready, i,
                [outcome |-> worker[i].outcome, read |-> worker[i].read,
                 fingerprint |-> IF reported THEN worker[i].read ELSE {},
                 staged |-> StagedCheckpoint(i, worker[i])])
    /\ worker' = Joined(i)
    /\ pc' = "ingest"
    /\ UNCHANGED <<repoVars, planVars, preflight, started, ingested, status,
                   limited, loader, failed, deferred, stored>>

\* Nothing runs: the executor returns, and what it never started is cancelled.
Break ==
    /\ pc = "join" /\ Running = {}
    /\ status' = [i \in Items |-> IF i > started THEN "cancelled" ELSE status[i]]
    /\ pc' = "resplit"
    /\ UNCHANGED <<repoVars, planVars, preflight, started, ingested, limited,
                   worker, ready, loader, failed, deferred, stored>>

-----------------------------------------------------------------------------
(***************************************************************************)
(* The scan around the executor.                                           *)
(***************************************************************************)
\* Slip: an item that could not be split is tried again.
RefinableAgain ==
    { i \in Items \ superseded : status[i] = "failed" /\ i \in limited }

\* The items to refine: failed at a resource limit, and not attempted yet.
Refinable ==
    { i \in Items \ (superseded \cup attempted) :
        status[i] = "failed" /\ i \in limited }

FirstRefinable == CHOOSE i \in Refinable : \A j \in Refinable : i <= j

\* resplit_execution_unit: the same paths under a finer loader, or two batches.
Finer(item) == { <<[item EXCEPT !.level = @ + 1]>> } \cup
    { <<[item EXCEPT !.level = @ + 1, !.paths = part],
        [item EXCEPT !.level = @ + 1, !.paths = item.paths \ part]>> :
        part \in (SUBSET item.paths) \ {{}, item.paths} }

\* The planner cannot split the item, or the scan defers the split.
ResplitNothing ==
    /\ pc = "resplit" /\ ~Cancelled /\ Refinable # {}
    /\ attempted' = attempted \cup {FirstRefinable}
    /\ UNCHANGED <<repoVars, pc, expected, token, items, first, superseded, runVars>>

\* Slip: the store keeps the failure of an item that is replaced.
WithdrawnNever(i) == UNCHANGED <<failed, deferred>>

\* The failure is withdrawn before the replacements run: one of them may have
\* the identity of the item it replaces.
Withdrawn(i) ==
    /\ failed' = failed \ {UnitId(i)}
    /\ deferred' = deferred \ {i}

Resplit ==
    LET i == FirstRefinable
    IN  /\ pc = "resplit" /\ ~Cancelled /\ Refinable # {}
        /\ items[i].level < MaxLevel
        /\ \E finer \in Finer(items[i]) :
              /\ items' = items \o finer
              /\ status' = status \o [k \in 1..Len(finer) |-> "queued"]
              /\ loader' = loader \o [k \in 1..Len(finer) |-> {}]
        /\ attempted' = attempted \cup {i}
        /\ superseded' = superseded \cup {i}
        /\ Withdrawn(i)
        /\ first' = Len(items) + 1
        /\ started' = Len(items) /\ ingested' = Len(items)
        /\ pc' = "ingest"
        /\ UNCHANGED <<repoVars, expected, token, preflight, limited, worker,
                       ready, stored>>

\* No more refinements: the outputs that are still held back reach the store,
\* and a cancelled scan ends here.
Analysed ==
    /\ pc = "resplit" /\ (Cancelled \/ Refinable = {})
    /\ stored' = stored \cup { [item |-> i, partial |-> TRUE, read |-> {}] : i \in deferred }
    /\ deferred' = {}
    /\ pc' = IF Cancelled THEN "cancelled" ELSE "verify"
    /\ UNCHANGED <<repoVars, planVars, preflight, started, ingested, status, limited,
                   worker, ready, loader, failed>>

\* finalize_analysis_unit_ledger: all items that still count have completed.
Covered == \A i \in Items \ superseded : status[i] = "completed"

\* Slip: a repository that changed during the scan goes unnoticed.
VerifyUnchecked ==
    /\ pc = "verify"
    /\ pc' = IF failed = {} /\ Covered THEN "promote" ELSE "partial"
    /\ UNCHANGED <<repoVars, planVars, runVars>>

\* Failures, incomplete coverage and a changed repository end the scan partial.
Verify ==
    /\ pc = "verify"
    /\ pc' = IF failed = {} /\ Covered /\ matches_postflight THEN "promote"
             ELSE "partial"
    /\ UNCHANGED <<repoVars, planVars, runVars>>

\* complete_scan: promotion and cancellation exclude each other.
Promote ==
    /\ pc = "promote"
    /\ pc' = IF Cancelled THEN "cancelled" ELSE "published"
    /\ UNCHANGED <<repoVars, planVars, runVars>>

-----------------------------------------------------------------------------
(***************************************************************************)
(* The workers, the token, the editors, and crashes.                       *)
(***************************************************************************)
WorkerReads(i) ==
    /\ i \in Running \ Finished
    /\ worker' = [worker EXCEPT ![i].read = @ \cup {content}]
    /\ UNCHANGED <<repoVars, pc, planVars, preflight, started, ingested, status,
                   limited, ready, loader, failed, deferred, stored>>

\* The supervisor sees the exit, a limit or the token, whichever it polls first.
WorkerEnds(i) ==
    /\ i \in Running \ Finished
    /\ \E outcome \in Outcomes :
          /\ outcome \in Failures => outcome \in MayFail
          /\ outcome = "cancelled" => Cancelled
          /\ outcome = "ok" => worker[i].read # {}
          /\ worker' = [worker EXCEPT ![i].outcome = outcome]
    /\ UNCHANGED <<repoVars, pc, planVars, preflight, started, ingested, status,
                   limited, ready, loader, failed, deferred, stored>>

\* The user, the guard of the total budget, or the executor's own check of it.
Cancel ==
    /\ MayCancel
    /\ pc \notin {"idle", "published", "partial", "cancelled", "failed"}
    /\ ~Cancelled
    /\ token' = "cancelled"
    /\ UNCHANGED <<repoVars, pc, expected, items, first, superseded, attempted,
                   runVars>>

Edit ==
    /\ \E c \in Contents \ {content} :
          /\ Reverts \/ c > content
          /\ content' = c
    /\ UNCHANGED <<checkpoints, scans, pc, planVars, runVars>>

\* The process dies: checkpoints are all that it leaves.
Crash ==
    /\ "crash" \in MayFail
    /\ pc # "idle"
    /\ pc' = "idle"
    /\ expected' = 0 /\ preflight' = "unset" /\ token' = "active"
    /\ items' = <<>> /\ first' = 1 /\ started' = 0 /\ ingested' = 0
    /\ status' = <<>> /\ limited' = {} /\ worker' = <<>> /\ ready' = <<>>
    /\ loader' = <<>> /\ superseded' = {} /\ attempted' = {}
    /\ failed' = {} /\ deferred' = {} /\ stored' = {}
    /\ UNCHANGED repoVars

Execute ==
    \/ Ingest \/ IngestFails \/ Settle \/ IngestNothing
    \/ Dispatch \/ DispatchNothing \/ Break
    \/ \E i \in Items : Join(i)
    \/ ResplitNothing \/ Resplit \/ Analysed \/ Verify \/ Promote

Next ==
    \/ StartScan
    \/ Execute
    \/ \E i \in Items : WorkerReads(i) \/ WorkerEnds(i)
    \/ Cancel
    \/ Edit
    \/ Crash

\* The executor is polled, and the supervisor ends every worker: its inactivity
\* deadline is extended only by progress, which WorkerSupervision bounds.
Fairness ==
    /\ WF_vars(Execute)
    /\ \A i \in 1..(Len(Work) * 2^(MaxLevel + 1)) : WF_vars(i \in Items /\ WorkerEnds(i))

Spec == Init /\ [][Next]_vars

FairSpec == Spec /\ Fairness

-----------------------------------------------------------------------------
Ended == {"published", "partial", "cancelled", "failed"}
Statuses == {"queued", "running", "completed", "failed", "cancelled"}

AnalysisTypeOK ==
    /\ content \in Contents
    /\ scans \in 0..MaxScans
    /\ pc \in {"idle", "ingest", "settle", "settle_failed", "dispatch", "join",
               "resplit", "verify", "promote"} \cup Ended
    /\ expected \in Contents \cup {0}
    /\ preflight \in {"unset", "same", "changed"}
    /\ token \in {"active", "cancelled"}
    /\ ingested <= started /\ started <= Len(items)
    /\ first \in 1..(Len(items) + 1)
    /\ DOMAIN status = Items /\ DOMAIN loader = Items
    /\ \A i \in Items : status[i] \in Statuses /\ loader[i] \subseteq Contents
    /\ \A i \in Running : worker[i].outcome \in Outcomes \cup {None}
    /\ DOMAIN ready \cap Running = {}
    /\ limited \cup superseded \cup attempted \cup deferred \subseteq Items

\* The executor returns only when every item was ingested, unless the token was
\* cancelled: neither the reorder window nor the stage order ever leaves an
\* item in the queue that nothing would start (analysis_execution.rs, the break
\* of the loop at 841).
NoUnitLost ==
    pc \in {"resplit", "verify", "promote", "published", "partial"} =>
        \A i \in Items : \/ status[i] \in {"completed", "failed"}
                         \/ status[i] = "cancelled" /\ Cancelled

\* While a later stage runs, the earlier stages of its unit have been consumed
\* for good: each is in the store, or is a failure that is on record
\* (stage_prerequisites, analysis_execution.rs:909).
StageOrder ==
    \A i \in Running : \A j \in prerequisites(i) :
        \/ /\ status[j] = "completed"
           /\ \E r \in stored : r.item = j /\ ~r.partial
        \/ status[j] = "failed" /\ UnitId(j) \in failed

\* A checkpoint was computed from the input its key names, and a semantic one
\* is bound to closures of that input, in this scan or in an earlier one
\* (validate_work_inputs, analysis_schedule.rs:1072).
CheckpointSound ==
    \A c \in checkpoints :
        /\ c.read = {c.key.input}
        /\ c.key.id.stage = "semantic" => c.key.reference = {{c.key.input}}

\* What a published scan holds: every path of every stage exactly once, no
\* partial output of an attempt that was replaced, and nothing that was read
\* from another version than the one planned.
PublishedSound ==
    pc = "published" =>
        /\ \A r \in stored : ~r.partial /\ r.read = {expected}
        /\ \A w \in 1..Len(Work) : \A p \in Work[w].paths :
              Cardinality({ r \in stored :
                  /\ items[r.item].unit = Work[w].unit
                  /\ items[r.item].stage = Work[w].stage
                  /\ p \in items[r.item].paths }) = 1

\* The failures a scan reports are those of the items that still count: a
\* withdrawn failure is gone, and a replacement that has the identity of the
\* item it replaces keeps its own (scan.rs:1274).
FailuresMatch ==
    pc = "verify" =>
        failed = { UnitId(i) : i \in { j \in Items \ superseded : status[j] = "failed" } }

\* Every scan ends, however its workers behave and whenever it is cancelled,
\* unless its process dies: the re-split loop, too, runs out of items
\* (scan.rs:1161).
ScanEnds == pc = "ingest" ~> pc \in Ended \cup {"idle"}
=============================================================================
