--------------------------- MODULE OperationRunner ---------------------------
(***************************************************************************)
(* Runner processes over the operation journal: run_until_idle and the     *)
(* lease guardian of crates/depgraph-operation/src/runner.rs, the clients  *)
(* of crates/depgraph-mcp/src/main.rs that submit work and launch runners, *)
(* and the part of crates/depgraph-store/src/lib.rs that keeps the staged  *)
(* scan of an operation.                                                   *)
(*                                                                         *)
(* A runner is two threads.  The main thread loops over reconciling,       *)
(* recovering, expiring, purging and claiming, then dispatches what it     *)
(* claimed; the guardian thread renews the lease meanwhile.  Every store   *)
(* or journal transaction is one step.  A runner reads the clock before    *)
(* the transaction that uses the reading: since is the instant of its last *)
(* step, so a fresh reading is any t in since..clock; at is a reading kept *)
(* over several steps.  An error returned by any call ends the process.    *)
(*                                                                         *)
(* The lease token is the runner: a process makes a new token per claim,   *)
(* and no thread that used an earlier one is left when it claims again.    *)
(***************************************************************************)
EXTENDS OperationJournal

CONSTANTS
    NoOp,             \* no operation
    NoRunner,         \* the free runner guard
    RenewalMargin,    \* LeaseTiming::renewal_margin_ms
    FreeLaunch,       \* whether replayed submissions may launch runners any time
    DaemonStarts,     \* whether a daemon may start beside the runners
    MaxCrashes        \* bound on crashes

Runners == Tokens

\* Work is dispatched here for one kind of each sort: staged in the store, and
\* executed at once.
ASSUME RunnerAssumption ==
    /\ SubmitKinds \subseteq {"scan_submit", "resolve_build_submit"}
    /\ NoOp \notin Ops
    /\ NoRunner \notin Runners
    /\ RenewalMargin \in 1..LeaseDuration
    /\ FreeLaunch \in BOOLEAN
    /\ DaemonStarts \in BOOLEAN
    /\ MaxCrashes \in Nat

VARIABLES
    guard,      \* holder of the runner-purge guard file lock
    run,        \* main thread of each runner
    guardian,   \* lease guardian thread of each runner
    stage,      \* scan_operation_staging joined with scans, per operation
    execs,      \* how often the project's own code was run for an operation
    owed,       \* submitted operations whose client has not launched a runner
    crashes,    \* how many runners have crashed
    daemon      \* whether a daemon holds the store writer lock

storeVars == <<stage, execs>>
runnerVars == <<guard, run, guardian, owed, crashes, daemon>>
vars == <<journalVars, storeVars, runnerVars>>

\* none: no owner row; staging: a scan in progress or awaiting promotion;
\* proof: the scan is cancelled and its owner row waits for acknowledgement;
\* published: the scan is the completed source of a snapshot.
Stages == {"none", "staging", "proof", "published"}

Pcs == {"off", "start", "reconcile", "recover", "recovered", "expired",
        "purge", "claim", "guardian", "check", "dispatch", "work", "final",
        "join", "decide", "commit", "promote", "finish", "cleanup",
        "terminalize", "ack", "exiting"}

\* DispatchOutcome; the pending ones still hold the staged scan.
Outcomes == {"none", "completed", "failed", "cancelled",
             "pending", "fail_pending", "cancel_pending"}

\* ExecutionCheckpoint, and the error its journal read may return.
Checkpoints == {"continue", "cancel", "deadline", "lost", "error"}

Off == [pc |-> "off", grant |-> {}, op |-> NoOp, at |-> NoTime, since |-> 0,
        plan |-> 0, outcome |-> "none", check |-> "continue",
        ending |-> "none", back |-> "reconcile"]

GuardianOff == [pc |-> "off", at |-> NoTime, exp |-> NoTime, exit |-> "none"]

-----------------------------------------------------------------------------
Init ==
    /\ JournalInit
    /\ guard = NoRunner
    /\ run = [r \in Runners |-> Off]
    /\ guardian = [r \in Runners |-> GuardianOff]
    /\ stage = [o \in Ops |-> "none"]
    /\ execs = [o \in Ops |-> 0]
    /\ owed = {}
    /\ crashes = 0
    /\ daemon = FALSE

At(r, pc) == run[r].pc = pc
Fresh(r) == run[r].since..clock
Op(r) == run[r].op
Rec(r) == operations[Op(r)]
IsScan(r) == Rec(r).kind = "scan_submit"
MayStore(r) == "scan_submit" \in run[r].grant

\* The next state of r's main thread.
Go(r, fields) == run' = [run EXCEPT ![r] = [fields EXCEPT !.since = clock]]
GoTo(r, pc) == Go(r, [run[r] EXCEPT !.pc = pc])

\* Back into the loop of run_until_idle: nothing is kept but the grant.
Loop(r, pc) == Go(r, [Off EXCEPT !.pc = pc, !.grant = run[r].grant])

\* An error or an idle queue ends run_until_idle; the guard file is unlocked
\* only when the process is gone.
Exit(r) == run' = [run EXCEPT ![r] = [Off EXCEPT !.pc = "exiting"]]

\* Enter terminalize_after_cleanup with the timestamp its closure captured.
End(r, ending, at) ==
    Go(r, [run[r] EXCEPT !.pc = "cleanup", !.ending = ending, !.at = at])

Stop(r) == guardian' = [guardian EXCEPT ![r] = GuardianOff]

SetStage(o, s) == stage' = [stage EXCEPT ![o] = s]

\* What no step of a working main thread changes.
Kept == UNCHANGED <<guard, owed, crashes, daemon>>

-----------------------------------------------------------------------------
(***************************************************************************)
(* Clients.  A submission owes a runner launch; a request cancelled before *)
(* its launch withdraws the operation instead.  operation_cancel launches  *)
(* nothing.  Fresh operation ids are random, so none is ever used twice.   *)
(***************************************************************************)
SubmitWork(o, kind, key, input, deadline) ==
    /\ Submit(o, kind, key, input, deadline)
    /\ stage[o] = "none" /\ execs[o] = 0
    /\ owed' = owed \cup {o}
    /\ UNCHANGED <<storeVars, guard, run, guardian, crashes, daemon>>

CancelWork(o) ==
    /\ Cancel(o)
    /\ UNCHANGED <<storeVars, runnerVars>>

\* handoff_submitted_scan, when the request is cancelled or the launch fails.
Withdraw(o) ==
    /\ o \in owed
    /\ owed' = owed \ {o}
    /\ IF Cancellable(o) THEN CancelBeforeLaunch(o) ELSE UNCHANGED journalVars
    /\ UNCHANGED <<storeVars, guard, run, guardian, crashes, daemon>>

\* handoff_submitted_scan, when it launches; a replayed submission finds a
\* record that is not its own and launches too.
Launch(r, grant) ==
    /\ At(r, "off")
    /\ run' = [run EXCEPT ![r] = [Off EXCEPT !.pc = "start", !.grant = grant]]
    /\ \/ \E o \in owed : owed' = owed \ {o}
       \/ FreeLaunch /\ UNCHANGED owed
    /\ UNCHANGED <<journalVars, storeVars, guard, guardian, crashes, daemon>>

-----------------------------------------------------------------------------
(***************************************************************************)
(* run_until_idle, before work is claimed.                                 *)
(***************************************************************************)
\* Slip: the guard is taken from its holder.
TryGuardForced(r) ==
    /\ At(r, "start")
    /\ guard' = r /\ Loop(r, "reconcile")
    /\ UNCHANGED <<journalVars, storeVars, guardian, owed, crashes, daemon>>

TryGuard(r) ==
    /\ At(r, "start")
    /\ IF guard = NoRunner
         THEN guard' = r /\ Loop(r, "reconcile")
         ELSE guard' = guard /\ run' = [run EXCEPT ![r] = Off]
    /\ UNCHANGED <<journalVars, storeVars, guardian, owed, crashes, daemon>>

\* scan_cleanup_acknowledged: proofs without a record, or of completed work,
\* are an IntegrityFailure; proofs of other ended work may be retired.
Orphaned(o) == o \notin DOMAIN operations \/ operations[o].status = "completed"
Acknowledged(o) == ~Orphaned(o) /\ IsTerminal(operations[o])

\* reconcile_cleanup_acknowledgements
Reconcile(r) ==
    LET proofs == {o \in Ops : MayStore(r) /\ stage[o] = "proof"}
        orphans == {o \in proofs : Orphaned(o)}
        acknowledged == {o \in proofs : Acknowledged(o)}
    IN  /\ At(r, "reconcile")
        /\ \/ /\ ~daemon
              /\ \E o \in acknowledged : SetStage(o, "none") /\ GoTo(r, "reconcile")
           \/ orphans # {} /\ Exit(r) /\ UNCHANGED stage
           \/ /\ orphans \cup acknowledged = {}
              /\ GoTo(r, "recover")
              /\ UNCHANGED stage
        /\ Kept /\ UNCHANGED <<journalVars, execs, guardian>>

\* next_completion_intent: the oldest decision.
OldestIntents ==
    {o \in DOMAIN intents : \A p \in DOMAIN intents : intents[o] <= intents[p]}

\* recover_scan_completion_for_operation: a staged scan is promoted, one that
\* already is a snapshot is left as it is; a cancelled one is an error.
Promotable(o) == stage[o] \in {"staging", "published"}

\* reconcile_legacy_staging needs the store, but leaves it to a daemon when the
\* runner may control one: its own stop request must remain claimable.
MustReconcile(r) == MayStore(r) /\ "daemon_stop" \notin run[r].grant

\* recover_completion promotes what the intent decided.  When no intent is left
\* the loop reads the clock for what follows.
Recover(r) ==
    /\ At(r, "recover")
    /\ \E t \in Fresh(r) :
          \/ /\ DOMAIN intents = {}
             /\ MustReconcile(r) => ~daemon
             /\ Go(r, [run[r] EXCEPT !.pc = "expired", !.at = t])
             /\ UNCHANGED stage
          \/ \E o \in OldestIntents :
                IF IntentValid(o, t) /\ MayStore(r) /\ Promotable(o) /\ ~daemon
                  THEN /\ SetStage(o, "published")
                       /\ Go(r, [run[r] EXCEPT !.pc = "recovered", !.op = o])
                  ELSE Exit(r) /\ UNCHANGED stage
    /\ Kept /\ UNCHANGED <<journalVars, execs, guardian>>

\* finish_completion_intent, after recovery and after promotion.
FinishDecided(r, pc, next) ==
    /\ At(r, pc)
    /\ \E t \in Fresh(r) :
          \/ FinishCompletionIntent(Op(r), t) /\ Loop(r, next)
          \/ /\ ~(Op(r) \in DOMAIN intents /\ IntentValid(Op(r), t))
             /\ Exit(r)
             /\ UNCHANGED journalVars
    /\ Kept /\ UNCHANGED <<storeVars, guardian>>

\* Slip: overdue work is not looked for.
ExpireNothing(r) ==
    /\ At(r, "expired")
    /\ GoTo(r, "purge")
    /\ Kept /\ UNCHANGED <<journalVars, storeVars, guardian>>

\* next_expired_external_store_operation: the work with the earliest deadline.
NextExpired(t) ==
    LET late == {o \in DOMAIN operations :
                    operations[o].kind \in CleanupKinds /\ Overdue(o, t)}
    IN  {o \in late : \A p \in late :
            operations[o].deadline <= operations[p].deadline}

Expire(r) ==
    /\ At(r, "expired")
    /\ \/ NextExpired(run[r].at) = {} /\ GoTo(r, "purge")
       \/ \E o \in NextExpired(run[r].at) :
             IF operations[o].kind \in run[r].grant
               THEN Go(r, [run[r] EXCEPT !.pc = "cleanup", !.op = o,
                           !.ending = "deadline", !.back = "expired"])
               ELSE Exit(r)
    /\ Kept /\ UNCHANGED <<journalVars, storeVars, guardian>>

PurgeStep(r) ==
    /\ At(r, "purge")
    /\ Purge(run[r].at)
    /\ GoTo(r, "claim")
    /\ Kept /\ UNCHANGED <<storeVars, guardian>>

Claim(r) ==
    LET grant == run[r].grant
        t == run[r].at
    IN  /\ At(r, "claim")
        /\ \/ \E o \in Ops :
                 /\ ClaimNext(o, grant, r, t)
                 /\ Go(r, [run[r] EXCEPT !.pc = "guardian", !.op = o, !.at = NoTime])
           \/ ClaimNone(grant, t) /\ Exit(r)
           \/ ClaimErrs(grant, t) /\ Exit(r) /\ UNCHANGED journalVars
        /\ Kept /\ UNCHANGED <<storeVars, guardian>>

-----------------------------------------------------------------------------
(***************************************************************************)
(* The lease guardian.  It starts with a renewal of its own, on which the  *)
(* main thread waits; then it sleeps until the renewal margin, reads the   *)
(* clock, and renews in a transaction of its own.                          *)
(***************************************************************************)
StartGuardian(r) ==
    LET rec == Rec(r)
        o == Op(r)
    IN  /\ At(r, "guardian")
        /\ \E t \in Fresh(r) :
              \/ /\ rec.deadline <= t
                 /\ End(r, "deadline", NoTime)
                 /\ UNCHANGED <<journalVars, guardian>>
              \/ /\ t < rec.deadline /\ ~Loadable(o, t)
                 /\ Exit(r)
                 /\ UNCHANGED <<journalVars, guardian>>
              \/ /\ t < rec.deadline /\ Loadable(o, t)
                 /\ ~HasActiveLease(rec, r, t)
                 /\ Loop(r, "reconcile")
                 /\ UNCHANGED <<journalVars, guardian>>
              \/ /\ RenewLease(o, r, t)
                 /\ rec.status = "cancelling"
                 /\ \E u \in t..clock : End(r, "cancelled", u)
                 /\ UNCHANGED guardian
              \/ /\ RenewLease(o, r, t)
                 /\ rec.status = "running"
                 /\ GoTo(r, "check")
                 /\ guardian' = [guardian EXCEPT ![r] =
                       [GuardianOff EXCEPT !.pc = "idle", !.exp = LeaseUntil(rec, t)]]
        /\ Kept /\ UNCHANGED storeVars

GuardianExit(r, exit) ==
    guardian' = [guardian EXCEPT ![r] =
        [GuardianOff EXCEPT !.pc = "done", !.exit = exit]]

GuardianSample(r) ==
    LET g == guardian[r]
        d == Rec(r).deadline
    IN  /\ g.pc = "idle"
        /\ \/ d <= clock /\ GuardianExit(r, "deadline")
           \/ /\ clock < d /\ g.exp < d
              /\ g.exp - RenewalMargin <= clock
              /\ guardian' = [guardian EXCEPT ![r] =
                    [g EXCEPT !.pc = "sampled", !.at = clock]]
        /\ UNCHANGED <<journalVars, storeVars, guard, run, owed, crashes, daemon>>

GuardianRenew(r) ==
    LET t == guardian[r].at
        rec == Rec(r)
        o == Op(r)
    IN  /\ guardian[r].pc = "sampled"
        /\ \/ /\ ~Loadable(o, t)
              /\ GuardianExit(r, "error")
              /\ UNCHANGED journalVars
           \/ /\ Loadable(o, t) /\ ~HasActiveLease(rec, r, t)
              /\ GuardianExit(r, "lost")
              /\ UNCHANGED journalVars
           \/ /\ RenewLease(o, r, t)
              /\ IF rec.status = "cancelling"
                   THEN GuardianExit(r, "cancel")
                   ELSE guardian' = [guardian EXCEPT ![r] =
                          [GuardianOff EXCEPT !.pc = "idle", !.exp = LeaseUntil(rec, t)]]
        /\ UNCHANGED <<storeVars, guard, run, owed, crashes, daemon>>

-----------------------------------------------------------------------------
(***************************************************************************)
(* Dispatch under checkpoints.                                             *)
(***************************************************************************)
\* ExecutionControl::checkpoint, in the order of its early returns.
Checkpoint(r, t) ==
    IF Rec(r).deadline <= t THEN "deadline"
    ELSE IF ~Loadable(Op(r), t) THEN "error"
    ELSE IF ~HasActiveLease(Rec(r), r, t) THEN "lost"
    ELSE IF Rec(r).status = "cancelling" THEN "cancel"
    ELSE "continue"

\* The dispatch is over; the final checkpoint follows.
Dispatched(r, outcome) ==
    Go(r, [run[r] EXCEPT !.pc = "final", !.outcome = outcome])

FirstCheck(r) ==
    /\ At(r, "check")
    /\ \E t \in Fresh(r) :
          LET c == Checkpoint(r, t)
          IN  \/ c = "continue" /\ GoTo(r, "dispatch")
              \/ c = "cancel" /\ Dispatched(r, "cancelled")
              \/ /\ c \in {"deadline", "lost", "error"}
                 /\ Go(r, [run[r] EXCEPT !.pc = "join", !.check = c])
    /\ Kept /\ UNCHANGED <<journalVars, storeVars, guardian>>

\* start_scan_for_operation replaces an abandoned attempt.  Scans and builds
\* begin with the store writer lock: beside a daemon they fail.
StartScan(r) ==
    /\ IsScan(r) /\ ~daemon
    /\ stage[Op(r)] \in {"none", "staging", "proof"}
    /\ SetStage(Op(r), "staging")
    /\ GoTo(r, "work")
    /\ UNCHANGED execs

RunProject(r) ==
    /\ ~daemon
    /\ execs' = [execs EXCEPT ![Op(r)] = @ + 1]
    /\ GoTo(r, "work")

\* Slip: the project's own code is started without a checkpoint.
StartBuildUnchecked(r) == ~IsScan(r) /\ RunProject(r) /\ UNCHANGED stage

\* A build asks for a checkpoint and then runs the project's own code.
StartBuild(r) ==
    /\ ~IsScan(r)
    /\ \E t \in Fresh(r) :
          IF Checkpoint(r, t) = "continue"
            THEN RunProject(r)
            ELSE Dispatched(r, "cancelled") /\ UNCHANGED execs
    /\ UNCHANGED stage

\* Input, configuration or lock errors fail the work before it starts.
Dispatch(r) ==
    /\ At(r, "dispatch")
    /\ \/ Dispatched(r, "failed") /\ UNCHANGED storeVars
       \/ StartScan(r)
       \/ StartBuild(r)
    /\ Kept /\ UNCHANGED <<journalVars, guardian>>

\* report_scan_progress: the plan is announced with nothing done, then the
\* finished units of the plan are reported; the last unit is the promotion.
Reports(r) ==
    IF run[r].plan = 0
      THEN {0} \X (Totals \ {1})
      ELSE (Rec(r).done..(run[r].plan - 1)) \X {run[r].plan}

ReportProgress(r) ==
    /\ At(r, "work")
    /\ IsScan(r)
    /\ \E t \in Fresh(r), p \in Reports(r) :
          /\ UpdateProgress(Op(r), r, p[1], p[2], t)
          /\ Go(r, [run[r] EXCEPT !.plan = p[2]])
    /\ Kept /\ UNCHANGED <<storeVars, guardian>>

\* A refused report or a checkpoint that is not Continue cancels the scan's or
\* the build's own token; the future then ends, possibly as it would have.
MustStop(r, t) ==
    \/ Checkpoint(r, t) # "continue"
    \/ /\ IsScan(r)
       /\ \E p \in Reports(r) : ~ProgressAllowed(Rec(r), p[1], p[2])

ForceCancel(r) ==
    /\ At(r, "work")
    /\ \E t \in Fresh(r) : MustStop(r, t)
    /\ \/ Dispatched(r, "cancelled") /\ ~IsScan(r) /\ UNCHANGED stage
       \/ /\ Dispatched(r, "cancelled") /\ IsScan(r)
          /\ \E s \in {"none", "staging", "proof"} : SetStage(Op(r), s)
       \/ Dispatched(r, "cancel_pending") /\ IsScan(r) /\ UNCHANGED stage
    /\ Kept /\ UNCHANGED <<journalVars, execs, guardian>>

\* A scan ends by itself.  A sealed scan stays staged; a scan that ends without
\* a snapshot loses its owner row (finish_scan_inner).
EndScan(r) ==
    /\ IsScan(r)
    /\ \/ /\ \E outcome \in {"pending", "fail_pending", "failed"} :
                Dispatched(r, outcome)
          /\ UNCHANGED stage
       \/ /\ \E outcome \in {"completed", "failed"} : Dispatched(r, outcome)
          /\ SetStage(Op(r), "none")

EndBuild(r) ==
    /\ ~IsScan(r)
    /\ \E outcome \in {"completed", "failed"} : Dispatched(r, outcome)
    /\ UNCHANGED stage

EndWork(r) ==
    /\ At(r, "work")
    /\ EndScan(r) \/ EndBuild(r)
    /\ Kept /\ UNCHANGED <<journalVars, execs, guardian>>

FinalCheck(r) ==
    /\ At(r, "final")
    /\ \E t \in Fresh(r) :
          Go(r, [run[r] EXCEPT !.pc = "join", !.check = Checkpoint(r, t)])
    /\ Kept /\ UNCHANGED <<journalVars, storeVars, guardian>>

-----------------------------------------------------------------------------
(***************************************************************************)
(* After the dispatch: the guardian is stopped and joined, then the        *)
(* outcome is recorded.                                                    *)
(***************************************************************************)
Pending == {"pending", "fail_pending", "cancel_pending"}

\* stop_and_join waits for a renewal in progress.  Errors win, then what the
\* guardian saw, then the final checkpoint.
Join(r) ==
    LET exit == guardian[r].exit
        check == run[r].check
        why == IF "error" \in {exit, check} THEN "error"
               ELSE IF exit # "none" THEN exit ELSE check
    IN  /\ At(r, "join")
        /\ guardian[r].pc # "sampled"
        /\ Stop(r)
        /\ \/ why = "error" /\ Exit(r) /\ UNCHANGED stage
           \/ /\ why = "cancel"
              /\ \E t \in Fresh(r) : End(r, "cancelled", t)
              /\ UNCHANGED stage
           \/ why = "deadline" /\ End(r, "deadline", NoTime) /\ UNCHANGED stage
           \/ /\ why = "lost"
              /\ Loop(r, "reconcile")
              /\ IF run[r].outcome \in Pending
                   THEN SetStage(Op(r), "proof")
                   ELSE UNCHANGED stage
           \/ why = "continue" /\ GoTo(r, "decide") /\ UNCHANGED stage
        /\ Kept /\ UNCHANGED <<journalVars, execs>>

Decide(r) ==
    LET outcome == run[r].outcome
        o == Op(r)
    IN  /\ At(r, "decide")
        /\ \E t \in Fresh(r) :
              \/ /\ Rec(r).deadline <= t
                 /\ End(r, "deadline", NoTime)
                 /\ UNCHANGED journalVars
              \/ /\ t < Rec(r).deadline
                 /\ outcome = "completed"
                 /\ \/ Finish(o, r, "completed", t) /\ Loop(r, "reconcile")
                    \/ ~HeldBy(o, r, t) /\ Exit(r) /\ UNCHANGED journalVars
              \/ /\ t < Rec(r).deadline
                 /\ outcome = "pending"
                 /\ Go(r, [run[r] EXCEPT !.pc = "commit", !.at = t])
                 /\ UNCHANGED journalVars
              \/ /\ t < Rec(r).deadline
                 /\ outcome \in {"failed", "fail_pending"}
                 /\ End(r, "failed", t)
                 /\ UNCHANGED journalVars
              \/ /\ t < Rec(r).deadline
                 /\ outcome \in {"cancelled", "cancel_pending"}
                 /\ End(r, "cancelled", t)
                 /\ UNCHANGED journalVars
        /\ Kept /\ UNCHANGED <<storeVars, guardian>>

\* Slip: a scan is promoted without a durable decision.
CommitNothing(r) ==
    /\ At(r, "commit")
    /\ HeldBy(Op(r), r, run[r].at)
    /\ GoTo(r, "promote")
    /\ Kept /\ UNCHANGED <<journalVars, storeVars, guardian>>

\* commit_completion_intent: the decision, or CancellationWon, whose cleanup
\* reads the clock again.
Commit(r) ==
    LET o == Op(r)
        t == run[r].at
    IN  /\ At(r, "commit")
        /\ \/ CommitCompletionIntent(o, r, t) /\ GoTo(r, "promote")
           \/ /\ HeldBy(o, r, t) /\ Rec(r).status = "cancelling"
              /\ End(r, "cancelled", NoTime)
              /\ UNCHANGED journalVars
           \/ ~HeldBy(o, r, t) /\ Exit(r) /\ UNCHANGED journalVars
        /\ Kept /\ UNCHANGED <<storeVars, guardian>>

\* The store lock is held since the scan was staged: nothing can have changed.
Promote(r) ==
    /\ At(r, "promote")
    /\ SetStage(Op(r), "published")
    /\ GoTo(r, "finish")
    /\ Kept /\ UNCHANGED <<journalVars, execs, guardian>>

-----------------------------------------------------------------------------
(***************************************************************************)
(* terminalize_after_cleanup: cancel the staged scan and keep its proof,   *)
(* end the record, then retire the proof.                                  *)
(***************************************************************************)
\* Slip: the staged scan is left behind.
CleanupNothing(r) ==
    /\ At(r, "cleanup")
    /\ GoTo(r, "terminalize")
    /\ Kept /\ UNCHANGED <<journalVars, storeVars, guardian>>

Cleanup(r) ==
    LET o == Op(r)
    IN  /\ At(r, "cleanup")
        /\ IsScan(r) => ~daemon
        /\ IF IsScan(r) /\ stage[o] = "published"
             THEN Exit(r) /\ UNCHANGED stage
             ELSE /\ GoTo(r, "terminalize")
                  /\ IF stage[o] = "staging"
                       THEN SetStage(o, "proof")
                       ELSE UNCHANGED stage
        /\ Kept /\ UNCHANGED <<journalVars, execs, guardian>>

Terminalize(r) ==
    LET o == Op(r)
        ending == run[r].ending
        times == IF run[r].at = NoTime THEN Fresh(r) ELSE {run[r].at}
    IN  /\ At(r, "terminalize")
        /\ \/ /\ ending = "deadline"
              /\ FailDeadline(o, TRUE, Rec(r).deadline)
              /\ GoTo(r, "ack")
           \/ /\ ending # "deadline"
              /\ \E t \in times :
                    \/ Finish(o, r, ending, t) /\ GoTo(r, "ack")
                    \/ /\ ~(HeldBy(o, r, t) /\ MayFinishAs(Rec(r), ending))
                       /\ Exit(r)
                       /\ UNCHANGED journalVars
        /\ Kept /\ UNCHANGED <<storeVars, guardian>>

\* finalize_cleanup_acknowledgement; then back into the loop that got here.
Acknowledge(r) ==
    /\ At(r, "ack")
    /\ IsScan(r) => ~daemon
    /\ IF stage[Op(r)] = "proof" THEN SetStage(Op(r), "none") ELSE UNCHANGED stage
    /\ Go(r, [Off EXCEPT !.pc = run[r].back, !.grant = run[r].grant,
                         !.at = IF run[r].back = "expired"
                                  THEN run[r].at ELSE NoTime])
    /\ Kept /\ UNCHANGED <<journalVars, execs, guardian>>

\* What the main thread is about to do needs the store writer lock.
NeedsStore(r) ==
    \/ At(r, "reconcile") /\ \E o \in Ops : stage[o] = "proof" /\ Acknowledged(o)
    \/ At(r, "recover") /\ (DOMAIN intents # {} \/ MustReconcile(r))
    \/ run[r].pc \in {"cleanup", "ack"} /\ IsScan(r)

\* StoreWriterConflict: a daemon has the lock, and the runner leaves, with an
\* error or as if the queue were idle.  The lock is tried once, never awaited.
Conflict(r) ==
    /\ daemon
    /\ NeedsStore(r)
    /\ Exit(r)
    /\ Kept /\ UNCHANGED <<journalVars, storeVars, guardian>>

\* The process ends and the guard file is unlocked.
Leave(r) ==
    /\ At(r, "exiting")
    /\ run' = [run EXCEPT ![r] = Off]
    /\ guard' = NoRunner
    /\ UNCHANGED <<journalVars, storeVars, guardian, owed, crashes, daemon>>

\* A crash at any point; the operating system drops the file locks.
Crash(r) ==
    /\ crashes < MaxCrashes
    /\ ~At(r, "off")
    /\ crashes' = crashes + 1
    /\ run' = [run EXCEPT ![r] = Off]
    /\ Stop(r)
    /\ guard' = IF guard = r THEN NoRunner ELSE guard
    /\ UNCHANGED <<journalVars, storeVars, owed, daemon>>

\* The store writer lock, held from the start of a scan to the end of its
\* promotion or cancellation, again while its record is ended, and during a
\* build.
HoldsStore(r) ==
    \/ At(r, "work")
    \/ /\ run[r].pc \in {"final", "join", "decide", "commit", "promote", "cleanup"}
       /\ run[r].outcome \in Pending
    \/ At(r, "terminalize") /\ IsScan(r)

\* A daemon takes the store lock and cancels every scan it finds in progress
\* (recover_interrupted_attempts).  It keeps the lock until its loop ends.
DaemonStart ==
    /\ DaemonStarts /\ ~daemon
    /\ \A r \in Runners : ~HoldsStore(r)
    /\ daemon' = TRUE
    /\ stage' = [o \in Ops |-> IF stage[o] = "staging" THEN "proof" ELSE stage[o]]
    /\ UNCHANGED <<journalVars, execs, guard, run, guardian, owed, crashes>>

\* The daemon is stopped, or its process dies.
DaemonStop ==
    /\ daemon
    /\ daemon' = FALSE
    /\ UNCHANGED <<journalVars, storeVars, guard, run, guardian, owed, crashes>>

-----------------------------------------------------------------------------
Clock == Tick /\ UNCHANGED <<storeVars, runnerVars>>

ClientStep(o) ==
    \/ \E kind \in SubmitKinds, key \in Keys, input \in Inputs :
          \E deadline \in Requests(kind) :
              SubmitWork(o, kind, key, input, deadline)
    \/ CancelWork(o)
    \/ Withdraw(o)

MainStep(r) ==
    \/ TryGuard(r)      \/ Reconcile(r)   \/ Recover(r)
    \/ FinishDecided(r, "recovered", "recover")
    \/ Expire(r)        \/ PurgeStep(r)   \/ Claim(r)
    \/ StartGuardian(r) \/ FirstCheck(r)  \/ Dispatch(r)
    \/ ReportProgress(r) \/ ForceCancel(r) \/ EndWork(r)
    \/ FinalCheck(r)    \/ Join(r)        \/ Decide(r)
    \/ Commit(r)        \/ Promote(r)
    \/ FinishDecided(r, "finish", "reconcile")
    \/ Cleanup(r)       \/ Terminalize(r) \/ Acknowledge(r)
    \/ Conflict(r)      \/ Leave(r)

GuardianStep(r) == GuardianSample(r) \/ GuardianRenew(r)

Next ==
    \/ Clock
    \/ \E o \in Ops : ClientStep(o)
    \/ \E r \in Runners :
          \/ \E grant \in Grants : Launch(r, grant)
          \/ MainStep(r)
          \/ GuardianStep(r)
          \/ Crash(r)
    \/ DaemonStart \/ DaemonStop

Spec == Init /\ [][Next]_vars

\* Time passes, threads are scheduled, and clients that do not see an end
\* resubmit their key, which launches another runner.
Fairness ==
    /\ WF_vars(Clock)
    /\ \A r \in Runners :
          /\ WF_vars(MainStep(r))
          /\ WF_vars(GuardianStep(r))
          /\ WF_vars(\E grant \in Grants : Launch(r, grant))

FairSpec == Spec /\ Fairness

-----------------------------------------------------------------------------
(***************************************************************************)
(* Properties.                                                             *)
(***************************************************************************)
Thread == [pc : Pcs, grant : SUBSET Kinds, op : Ops \cup {NoOp}, at : Int,
           since : Nat, plan : Nat, outcome : Outcomes, check : Checkpoints,
           ending : {"none", "deadline", "failed", "cancelled"},
           back : {"reconcile", "expired"}]

GuardianThread == [pc : {"off", "idle", "sampled", "done"}, at : Int, exp : Int,
                   exit : {"none", "error", "lost", "deadline", "cancel"}]

\* The journal is typed, and the guard file has the main threads' states.
RunnerTypeOK ==
    /\ TypeOK
    /\ guard \in Runners \cup {NoRunner}
    /\ DOMAIN run = Runners /\ \A r \in Runners : run[r] \in Thread
    /\ DOMAIN guardian = Runners /\ \A r \in Runners : guardian[r] \in GuardianThread
    /\ stage \in [Ops -> Stages]
    /\ execs \in [Ops -> Nat]
    /\ owed \subseteq Ops
    /\ crashes \in 0..MaxCrashes
    /\ daemon \in BOOLEAN

\* Two operations that write the store never hold live leases together, not
\* even when a stalled guardian renews with a clock it read long ago.
SingleLiveWriter ==
    \A o, p \in DOMAIN operations :
        /\ operations[o].kind \in WriterKinds /\ clock < operations[o].exp
        /\ operations[p].kind \in WriterKinds /\ clock < operations[p].exp
        => o = p

Working == {"check", "dispatch", "work", "final", "join", "decide", "commit",
            "promote", "finish"}

\* While a runner works, the record it works on stays its own: no purge, no
\* reaper, no other runner and no client ends it or takes its lease away.
WorkStaysOwned ==
    \A r \in Runners : run[r].pc \in Working =>
        /\ guard = r
        /\ Op(r) \in DOMAIN operations
        /\ Rec(r).status \in LeasedStatus
        /\ Rec(r).token = r

\* A scan becomes the current snapshot only by a durable decision: cancelled,
\* failed or expired work never replaces it, and completed work leaves nothing
\* staged behind.
StageMatchesRecord ==
    \A o \in Ops :
        /\ stage[o] = "published" =>
              \/ o \in DOMAIN intents
              \/ o \notin DOMAIN operations
              \/ operations[o].status = "completed"
        /\ stage[o] \in {"staging", "proof"} =>
              /\ o \in DOMAIN operations
              /\ stage[o] = "staging" => ~IsTerminal(operations[o])
              /\ operations[o].status # "completed"

\* A committed completion intent can always be finished by the next runner,
\* whatever time it is and wherever the last one stopped (docs/40_arch_design/
\* arch-mcp-agent-tools.md:537); otherwise it would block every later claim.
IntentRecoverable ==
    \A o \in DOMAIN intents :
        /\ IntentValid(o, clock)
        /\ Promotable(o)

\* The project's own code is run at most once for an operation, through
\* crashes, lost leases and takeovers.
AtMostOnceExec == \A o \in Ops : execs[o] <= 1

\* A decision stands: cancellation, deadline and purge leave a decided record
\* alone until it is completed, and it is completed only once published.
DecisionsStand ==
    [][\A o \in DOMAIN intents :
          /\ o \in DOMAIN operations'
          /\ \/ o \in DOMAIN intents' /\ operations'[o] = operations[o]
             \/ operations'[o].status = "completed" /\ stage'[o] = "published"
      ]_vars

\* Every accepted operation with a deadline ends, although runners crash and
\* give up on errors, as long as clients go on launching runners, once no
\* daemon runs beside them any more: overdue scans wait for its lock
\* (runner.rs:758 and 2675; deviation 15), and so does everything while an
\* intent waits whose scan a daemon has cancelled (deviation 1).
EventuallySettled ==
    \A o \in Ops :
        ((o \in DOMAIN operations /\ operations[o].deadline <= MaxTime) /\ []~daemon)
            ~> \/ o \in DOMAIN operations => IsTerminal(operations[o])
               \/ \E p \in DOMAIN intents : ~Promotable(p)

-----------------------------------------------------------------------------
(***************************************************************************)
(* The runners implement OperationLifecycle: an intent is the decision.    *)
(***************************************************************************)
PhaseOf(o) ==
    IF o \notin DOMAIN operations THEN "absent"
    ELSE IF o \in DOMAIN intents THEN "decided"
    ELSE IF operations[o].status \in {"queued", "running"} THEN "accepted"
    ELSE operations[o].status

EffectOf(o) ==
    IF stage[o] = "published" THEN "published"
    ELSE IF execs[o] > 0 THEN "executed" ELSE "none"

Lifecycle == INSTANCE OperationLifecycle
    WITH phase <- [o \in Ops |-> PhaseOf(o)],
         effect <- [o \in Ops |-> EffectOf(o)]

\* Under every interleaving of clients, runners, guardians and crashes, what a
\* client can observe is a behaviour of the promised life cycle.
ImplementsLifecycle == Lifecycle!LifecycleSpec

(***************************************************************************)
(* What the repository says and the code does not always do.               *)
(***************************************************************************)
\* Accepted work was handed to a runner (crates/depgraph-mcp/src/main.rs:2629):
\* a queued operation whose client has launched has a runner that may claim it.
QueuedWorkHasRunner ==
    \A o \in DOMAIN operations :
        operations[o].status = "queued" /\ o \notin owed =>
            \E r \in Runners : run[r].pc \notin {"off", "exiting"}

\* Cancellation that commits before the decision wins (crates/depgraph-operation/
\* src/lib.rs:2400): the decision reports it rather than failing on the
\* record's date.
EarlierCancelWins ==
    \A r \in Runners :
        At(r, "commit") /\ Rec(r).status = "cancelling" => Loadable(Op(r), run[r].at)

\* A handoff whose lease expired is recoverable (crates/depgraph-operation/src/
\* lib.rs:1846): the runner that takes a scan over may report its plan.
TakeoverMayReport ==
    \A r \in Runners :
        At(r, "work") /\ IsScan(r) /\ run[r].plan = 0 =>
            \A p \in Reports(r) : ProgressAllowed(Rec(r), p[1], p[2])

\* Claims that control a daemon remain runnable while it owns the store writer
\* lock (crates/depgraph-operation/src/runner.rs:2664): a runner that may stop
\* the daemon never leaves for want of that lock.
ControlStaysRunnable ==
    \A r \in Runners : "daemon_stop" \in run[r].grant /\ daemon => ~NeedsStore(r)
=============================================================================
