-------------------------- MODULE RepositoryDaemon --------------------------
(***************************************************************************)
(* The watcher daemon (crates/depgraph-core/src/daemon.rs): run_daemon_loop *)
(* collects the events of the repository, starts one attempt per quiet     *)
(* window, cancels it when newer events arrive, and keeps the store's      *)
(* completed snapshot in step with the files.                              *)
(*                                                                         *)
(* The loop is one task; RepositoryScanRunner::run is another, and the two *)
(* share the cancellation token.  Time is abstract: a deadline is armed or *)
(* not, and an armed deadline may pass whenever the loop waits.  The       *)
(* snapshot is the content it was computed from: a full scan replaces all  *)
(* of it, a delta only the paths that its changes name.                    *)
(***************************************************************************)
EXTENDS WatchedRepository

CONSTANTS MaxFailures,     \* bound: attempts that fail
          MayStop,         \* the daemon may be asked to stop
          MayLoseWatcher   \* the watcher backend may go away

ASSUME DaemonAssumption ==
    /\ MaxFailures \in Nat
    /\ MayStop \in BOOLEAN
    /\ MayLoseWatcher \in BOOLEAN

VARIABLES coalescer,
          armed,       \* deadline.is_some()
          active,      \* the running attempt, its token and its progress
          stopping,
          phase,       \* "running" until the loop ends, then "stopped"
          watcher,     \* "open", "lost" (no more events), "closed" (noticed)
          failures,    \* failed attempts so far
          dropped,     \* a failed shutdown flush has given its changes up
          snapshot     \* what the completed snapshot was computed from

daemonVars == <<coalescer, armed, active, stopping, phase, watcher, failures,
                dropped, snapshot>>
vars == <<files, edits, events, coalescer, armed, active, stopping, phase,
          watcher, failures, dropped, snapshot>>

NoAttempt == [stage |-> "none", changes |-> <<>>, flush |-> FALSE,
              cancelled |-> FALSE, mode |-> "full",
              read |-> [p \in Paths |-> 0], outcome |-> "none"]

Stages == {"none", "start", "analysing", "analysed", "committing", "done"}
Modes == {"full", "delta", "noop"}

DaemonTypeOK ==
    /\ RepositoryTypeOK
    /\ Range(coalescer.operations) \subseteq IncrementalFileChange
    /\ active.stage \in Stages
    /\ active.mode \in Modes
    /\ Range(active.changes) \subseteq IncrementalFileChange
    /\ active.read \in [Paths -> Contents]
    /\ active.outcome \in {"none", "completed", "cancelled", "failed"}
    /\ active.stage = "none" <=> active = NoAttempt
    /\ active.stage # "none" => active.changes # <<>>
    /\ active.outcome # "none" <=> active.stage = "done"
    /\ {armed, stopping, dropped, active.cancelled, active.flush} \subseteq BOOLEAN
    /\ phase \in {"running", "stopped"}
    /\ watcher \in {"open", "lost", "closed"}
    /\ failures \in 0..MaxFailures
    /\ snapshot \in [Paths -> Contents]

\* A foreground scan has completed before the daemon starts.
Init ==
    /\ files \in { f \in [Paths -> Contents] :
                      \A p \in Paths : f[p] \in {0, Original(p)} }
    /\ edits = 0
    /\ events = <<>>
    /\ coalescer = Emptied
    /\ armed = FALSE
    /\ active = NoAttempt
    /\ stopping = FALSE
    /\ phase = "running"
    /\ watcher = "open"
    /\ failures = 0
    /\ dropped = FALSE
    /\ snapshot = files

-----------------------------------------------------------------------------
(***************************************************************************)
(* The loop.                                                               *)
(***************************************************************************)
Idle == active.stage = "none"

\* What the head of the loop does before it waits: a daemon that is stopping
\* does not wait for the quiet window.
MustDrain == Idle /\ stopping /\ ~is_empty(coalescer)

Waiting == phase = "running" /\ ~MustDrain

\* cancellation.cancel() on the attempt that runs, if one does.
Cancelled(attempt) ==
    IF attempt.stage = "none" THEN attempt ELSE [attempt EXCEPT !.cancelled = TRUE]

\* The quiet window is over, or the daemon is stopping: spawn_attempt, unless
\* the window folded to nothing.
Drain ==
    /\ phase = "running"
    /\ Idle /\ ~is_empty(coalescer)
    /\ stopping \/ armed
    /\ armed' = FALSE
    /\ coalescer' = Emptied
    /\ active' = IF Drained(coalescer) = <<>> THEN NoAttempt
                 ELSE [NoAttempt EXCEPT !.stage = "start",
                                        !.changes = Drained(coalescer),
                                        !.flush = stopping]
    /\ UNCHANGED <<files, edits, events, stopping, phase, watcher, failures,
                   dropped, snapshot>>

\* A watcher event: the window begins again, and the running attempt is
\* cancelled, when the event changed the coalescer's revision.
Ingest ==
    LET ingested == ingest(coalescer, Head(events))
        isNews == ingested.revision # coalescer.revision
    IN  /\ Waiting /\ watcher # "closed" /\ events # <<>>
        /\ events' = Tail(events)
        /\ coalescer' = ingested
        /\ armed' = IF isNews THEN ~stopping ELSE armed
        /\ active' = IF isNews THEN Cancelled(active) ELSE active
        /\ UNCHANGED <<files, edits, stopping, phase, watcher, failures,
                       dropped, snapshot>>

\* The stop channel fires, or the handle is dropped.
Stop ==
    /\ MayStop
    /\ Waiting /\ ~stopping
    /\ stopping' = TRUE
    /\ armed' = FALSE
    /\ active' = Cancelled(active)
    /\ UNCHANGED <<files, edits, events, coalescer, phase, watcher, failures,
                   dropped, snapshot>>

\* The watcher's channel ends: the daemon stops as if it had been asked to.
WatcherCloses ==
    /\ Waiting /\ watcher = "lost" /\ events = <<>>
    /\ watcher' = "closed"
    /\ stopping' = TRUE
    /\ armed' = FALSE
    /\ active' = Cancelled(active)
    /\ UNCHANGED <<files, edits, events, coalescer, phase, failures, dropped,
                   snapshot>>

\* Slip: only failed batches are queued again.
CompletionForgets ==
    LET retried == active.outcome = "failed" /\ ~active.flush
    IN  /\ Waiting /\ active.stage = "done"
        /\ coalescer' = IF retried THEN extend(coalescer, active.changes) ELSE coalescer
        /\ armed' = (armed \/ (retried /\ ~stopping))
        /\ dropped' = (dropped \/ (active.flush /\ active.outcome = "failed"))
        /\ active' = NoAttempt
        /\ UNCHANGED <<files, edits, events, stopping, phase, watcher, failures,
                       snapshot>>

\* Slip: a batch is queued again without a deadline for it.
CompletionDisarmed ==
    LET retried == \/ active.outcome = "cancelled"
                   \/ active.outcome = "failed" /\ ~active.flush
    IN  /\ Waiting /\ active.stage = "done"
        /\ coalescer' = IF retried THEN extend(coalescer, active.changes) ELSE coalescer
        /\ armed' = armed
        /\ dropped' = (dropped \/ (active.flush /\ active.outcome = "failed"))
        /\ active' = NoAttempt
        /\ UNCHANGED <<files, edits, events, stopping, phase, watcher, failures,
                       snapshot>>

\* An attempt has ended: its changes go behind the events that arrived
\* meanwhile, unless it completed or was a shutdown flush that failed.
Completion ==
    LET retried == \/ active.outcome = "cancelled"
                   \/ active.outcome = "failed" /\ ~active.flush
    IN  /\ Waiting /\ active.stage = "done"
        /\ coalescer' = IF retried THEN extend(coalescer, active.changes) ELSE coalescer
        /\ armed' = (armed \/ (retried /\ ~stopping))
        /\ dropped' = (dropped \/ (active.flush /\ active.outcome = "failed"))
        /\ active' = NoAttempt
        /\ UNCHANGED <<files, edits, events, stopping, phase, watcher, failures,
                       snapshot>>

\* Slip: the loop only ends when the watcher's channel does.
BreakOnDisconnect ==
    /\ phase = "running" /\ stopping
    /\ Idle /\ is_empty(coalescer)
    /\ watcher = "closed"
    /\ phase' = "stopped"
    /\ UNCHANGED <<files, edits, events, coalescer, armed, active, stopping,
                   watcher, failures, dropped, snapshot>>

\* The loop ends once the daemon is stopping and nothing is left to do.
Break ==
    /\ phase = "running" /\ stopping
    /\ Idle /\ is_empty(coalescer)
    /\ watcher = "closed" \/ events = <<>>
    /\ phase' = "stopped"
    /\ UNCHANGED <<files, edits, events, coalescer, armed, active, stopping,
                   watcher, failures, dropped, snapshot>>

-----------------------------------------------------------------------------
(***************************************************************************)
(* RepositoryScanRunner::run, in the steps between its looks at the token. *)
(***************************************************************************)
runnerUnchanged == <<files, edits, events, coalescer, armed, stopping, phase,
                     watcher, dropped>>

Ends(outcome) == active' = [active EXCEPT !.stage = "done", !.outcome = outcome]

\* semantic_noop_change_path and semantic_noop_delta_base: one file written,
\* which the snapshot knows as a web source file.
NoopEligible ==
    /\ Len(active.changes) = 1
    /\ active.changes[1].kind \in {"added", "modified"}
    /\ active.changes[1].new # ConfigPath
    /\ snapshot[active.changes[1].new] # 0

\* worker_delta_plan_is_eligible: a change of the configuration replans the
\* whole workspace.
DeltaEligible == ConfigPath \notin Named(active.changes)

Eligible(mode) ==
    CASE mode = "noop" -> NoopEligible
      [] mode = "delta" -> DeltaEligible
      [] OTHER -> TRUE

\* The first look at the token, then the choice of a path: the fast path, a
\* delta, or the full scan, which any missing capability falls back to.
RunStart ==
    /\ active.stage = "start"
    /\ \/ /\ active.cancelled
          /\ Ends("cancelled")
       \/ /\ ~active.cancelled
          /\ \E mode \in Modes :
                /\ Eligible(mode)
                /\ active' = [active EXCEPT !.stage = "analysing", !.mode = mode]
    /\ UNCHANGED <<runnerUnchanged, failures, snapshot>>

\* The worker reads the repository.
RunAnalysis ==
    /\ active.stage = "analysing"
    /\ active' = [active EXCEPT !.stage = "analysed", !.read = files]
    /\ UNCHANGED <<runnerUnchanged, failures, snapshot>>

\* The fast path does not apply (the worker refuses or fails, the file is
\* unreadable or the profile plan changed), or a delta is not supported: the
\* attempt goes on with a broader path.
RunFallback ==
    /\ active.stage = "analysed"
    /\ \E mode \in Modes \ {"noop"} :
          /\ active.mode = "noop" \/ (active.mode = "delta" /\ mode = "full")
          /\ Eligible(mode)
          /\ active' = [active EXCEPT !.stage = "analysing", !.mode = mode]
    /\ UNCHANGED <<runnerUnchanged, failures, snapshot>>

\* The look at the token behind the analysis, whether the worker delivered or
\* was stopped by the token.
RunAnalysed ==
    /\ active.stage = "analysed"
    /\ \/ /\ active.cancelled
          /\ Ends("cancelled")
       \/ /\ ~active.cancelled
          /\ active.mode = "noop" => active.read[active.changes[1].new] # 0
          /\ active' = [active EXCEPT !.stage = "committing"]
    /\ UNCHANGED <<runnerUnchanged, failures, snapshot>>

\* A worker, the store, the validation or a policy fails.  A worker's failure
\* counts only while the token is quiet; an error of the store counts always.
RunFails ==
    /\ \/ active.stage = "analysed" /\ ~active.cancelled
       \/ active.stage = "committing"
    /\ failures < MaxFailures
    /\ failures' = failures + 1
    /\ Ends("failed")
    /\ UNCHANGED <<runnerUnchanged, snapshot>>

Replaced == IF active.mode = "full" THEN Paths ELSE Named(active.changes)

Promotion ==
    /\ snapshot' = [p \in Paths |-> IF p \in Replaced THEN active.read[p]
                                                      ELSE snapshot[p]]
    /\ Ends("completed")

\* complete_scan promotes inside the token's gate (run_if_active);
\* commit_semantic_noop_delta promotes without it.
RunCommit ==
    /\ active.stage = "committing"
    /\ IF active.cancelled /\ active.mode # "noop"
       THEN Ends("cancelled") /\ UNCHANGED snapshot
       ELSE Promotion
    /\ UNCHANGED <<runnerUnchanged, failures>>

Run == RunStart \/ RunAnalysis \/ RunFallback \/ RunAnalysed \/ RunFails \/ RunCommit

-----------------------------------------------------------------------------
EventPaths == UNION { Range(events[i].paths) : i \in DOMAIN events }
CoalescerPaths ==
    Named(coalescer.operations)
        \cup UNION { {coalescer.tracked[t].from, coalescer.tracked[t].to} :
                       t \in DOMAIN coalescer.tracked }

\* The files of the shutdown flush are touched while it runs, without end.
\* Bound: once for each attempt, and when nothing else waits for the loop.
TouchFlushed ==
    /\ stopping /\ ~active.cancelled
    /\ events = <<>> /\ is_empty(coalescer)
    /\ \E p \in Edited \cap Named(active.changes) : Touch(p)

\* An edit is reported as long as the watcher is there.
Environment ==
    \/ /\ watcher = "open"
       /\ Edit \/ TouchFlushed
       /\ UNCHANGED daemonVars
    \/ /\ MayLoseWatcher
       /\ watcher = "open" /\ watcher' = "lost"
       /\ UNCHANGED <<files, edits, events, coalescer, armed, active, stopping,
                      phase, failures, dropped, snapshot>>

Loop == Drain \/ Ingest \/ WatcherCloses \/ Completion \/ Break

\* A daemon that is not asked to stop waits for ever.
Resting ==
    /\ phase = "stopped" \/ (Idle /\ is_empty(coalescer) /\ events = <<>>)
    /\ UNCHANGED vars

Next == Environment \/ Loop \/ Stop \/ Run \/ Resting

\* The loop polls every branch that is ready, and an attempt ends: its workers
\* are bounded by the scan's time limit.  A fallback is taken at most twice.
Fairness == WF_vars(Loop) /\ WF_vars(Run)

Spec == Init /\ [][Next]_vars /\ Fairness

-----------------------------------------------------------------------------
\* A full scan is due: a rescan was asked for.
RescanDue ==
    \/ \E i \in DOMAIN events : events[i].kind = "rescan"
    \/ ConfigPath \in CoalescerPaths \cup Named(active.changes)

\* Every path that the snapshot shows out of date is still on its way into it:
\* reported and not ingested, waiting in the coalescer, or a change of the
\* attempt that runs.  Otherwise the daemon goes idle beside a wrong graph.
\* The exceptions are the ones the code takes knowingly: a shutdown flush that
\* failed, and a watcher that is gone.
StaleIsPending ==
    \A p \in Watched :
        snapshot[p] # files[p] =>
            \/ p \in EventPaths \cup CoalescerPaths \cup Named(active.changes)
            \/ RescanDue
            \/ dropped

\* From some time on nothing is reported any more.
Quiet == <>[](events = <<>>)

\* A daemon that is asked to stop, or whose watcher ends, does stop, however
\* its attempts end and whatever still arrived while it drained.  Quiet is
\* needed: every event cancels the last attempt, which is queued and spawned
\* again (daemon.rs:1773-1783, 1839-1840 and 1706-1713; deviation 16).
StopsEventually == Quiet => (stopping ~> phase = "stopped")

\* A daemon that is left alone catches up: once events cease, the completed
\* snapshot describes the files for good.
CatchesUp ==
    Quiet => <>[](\/ \A p \in Watched : snapshot[p] = files[p]
                  \/ phase = "stopped")

-----------------------------------------------------------------------------
(***************************************************************************)
(* What the repository says and the code does not always do.               *)
(***************************************************************************)
\* A cancelled attempt does not promote, on any path (the system design, line
\* 1324); the semantic no-op commit looks at the token only before.
PromotionGated == [][snapshot' # snapshot => ~active.cancelled]_vars

\* A daemon that is asked to stop flushes the pending batch once and stops (the
\* system design, line 1324), whatever arrives meanwhile.
StopAnswered == stopping ~> phase = "stopped"
=============================================================================
