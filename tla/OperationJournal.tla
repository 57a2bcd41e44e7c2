-------------------------- MODULE OperationJournal --------------------------
(***************************************************************************)
(* The durable operation journal of crates/depgraph-operation/src/lib.rs.  *)
(*                                                                         *)
(* Four SQLite tables are shared by MCP servers, CLI processes and runner  *)
(* processes: operations (joined here with its one runner_handoffs row),   *)
(* operation_completion_intents and operation_tombstones.  Each method of  *)
(* OperationJournal that writes is one IMMEDIATE transaction, so it is one *)
(* action; a call that returns an error rolls back and is a stutter.       *)
(*                                                                         *)
(* The module is an open system: any caller may call any method at any     *)
(* time.  Client calls (submit, cancel) read the clock inside the          *)
(* transaction.  Runner calls carry a timestamp read before the            *)
(* transaction began, hence any t in 0..clock.                             *)
(***************************************************************************)
EXTENDS Integers, FiniteSets

CONSTANTS
    Ops,                  \* operation identifiers
    Keys,                 \* idempotency keys (their digests)
    Inputs,               \* normalized inputs (their digests)
    Tokens,               \* lease tokens (their digests)
    NoToken,              \* the NULL lease_token_digest
    SubmitKinds,          \* the kinds of operation that clients submit
    Grants,               \* capability grants, each as the kinds it enables
    Lifetimes,            \* execution_deadline_ms - now_ms of a request
    TerminalRetention,    \* TERMINAL_RETENTION_MS
    TombstoneRetention,   \* TOMBSTONE_RETENTION_MS
    MaxTtl,               \* MAX_TASK_TTL_MS
    UnboundedDeadline,    \* UNBOUNDED_SCAN_DEADLINE_MS
    UnboundedScans,       \* whether clients leave the deadline of a scan out
    LeaseDuration,        \* lease length a runner asks for
    Totals,               \* progress totals a scan plan may announce
    PurgeBatch,           \* MAX_PURGE_BATCH_SIZE
    MaxTime               \* bound on the clock

\* The SQL NULL of a timestamp column; smaller than every timestamp.
NoTime == -1

Kinds == {"scan_submit", "runtime_trace_import_submit", "export_file",
          "daemon_start_submit", "daemon_stop", "resolve_build_submit"}

\* OperationKind::requires_runner_cleanup
CleanupKinds == {"scan_submit", "runtime_trace_import_submit", "export_file"}

\* The kinds that write the graph store; one of them at a time holds a lease.
WriterKinds == {"scan_submit", "runtime_trace_import_submit"}

LiveStatus == {"queued", "running", "cancelling"}
LeasedStatus == {"running", "cancelling"}
TerminalStatus == {"completed", "failed", "cancelled"}
Status == LiveStatus \cup TerminalStatus

\* result_json / error_json: which of the two columns is set, and with what.
Payloads == {"none", "result", "error", "deadline_exceeded", "state_unknown"}
Errors == {"error", "deadline_exceeded", "state_unknown"}

\* Every time constant is positive, and the clock never reaches the deadline
\* of an unbounded scan (i64::MAX milliseconds minus the retention).
ASSUME TimeAssumption ==
    /\ TerminalRetention \in Nat \ {0}
    /\ TombstoneRetention \in Nat \ {0}
    /\ MaxTtl \in Nat
    /\ LeaseDuration \in Nat \ {0}
    /\ MaxTime \in Nat
    /\ UnboundedDeadline \in Nat
    /\ UnboundedDeadline > MaxTime
    /\ UnboundedScans \in BOOLEAN
    /\ Lifetimes \subseteq Nat
    /\ Totals \subseteq Nat \ {0}
    /\ PurgeBatch \in Nat \ {0}

\* Tokens are non-NULL; clients submit known kinds; a grant enables kinds.
ASSUME NameAssumption ==
    /\ NoToken \notin Tokens
    /\ SubmitKinds \subseteq Kinds
    /\ Grants \subseteq SUBSET Kinds

VARIABLES
    operations,   \* operations and runner_handoffs: a record per live id
    intents,      \* operation_completion_intents: id -> decided_at_ms
    tombstones,   \* operation_tombstones: a record per retired id
    clock,        \* wall clock
    reserved      \* history: when the last purged record of a scope may be reused

journalVars == <<operations, intents, tombstones, clock, reserved>>

Scopes == Kinds \X Keys

Row == [kind : Kinds, key : Keys, input : Inputs, status : Status,
        done : Nat, total : Nat,
        token : Tokens \cup {NoToken}, exp : Int,
        deadline : Nat, payload : Payloads,
        created : Nat, updated : Nat, terminal : Int,
        anchor : Nat, retain : Nat,
        claimed : Int, finished : Int]

Tombstone == [kind : Kinds, key : Keys, input : Inputs, until : Nat]

\* The idempotency scope of a record (the repository is fixed).
Scope(r) == <<r.kind, r.key>>

IsTerminal(r) == r.status \in TerminalStatus
IsUnbounded(r) == r.deadline = UnboundedDeadline
Later(s, t) == IF s < t THEN t ELSE s
Earlier(s, t) == IF s < t THEN s ELSE t

\* A table with one more row, and a table without some rows.
With(table, id, r) == [x \in DOMAIN table \cup {id} |->
                          IF x = id THEN r ELSE table[x]]
Without(table, ids) == [x \in DOMAIN table \ ids |-> table[x]]

-----------------------------------------------------------------------------
(***************************************************************************)
(* decode_operation, decode_handoff and validate_operation_handoff: what a *)
(* stored row must satisfy for any later call to be able to read it.  A    *)
(* row that fails them is an IntegrityFailure for every caller.            *)
(***************************************************************************)
TimesOK(r) ==
    /\ r.created <= r.updated
    /\ r.updated <= r.deadline
    /\ r.created < r.deadline
    /\ r.retain = r.anchor + TerminalRetention
    /\ IF IsUnbounded(r)
         THEN /\ r.kind = "scan_submit"
              /\ IsTerminal(r) <=> r.anchor # r.deadline
         ELSE /\ r.deadline + TerminalRetention <= r.created + MaxTtl
              /\ r.anchor >= r.deadline
              /\ r.anchor # r.deadline => r.status = "completed"

LeaseOK(r) ==
    IF r.token = NoToken
      THEN r.exp = NoTime
      ELSE /\ r.status \in LeasedStatus
           /\ r.created < r.exp
           /\ r.exp <= r.deadline

OutcomeOK(r) ==
    /\ r.status \in LiveStatus => r.terminal = NoTime /\ r.payload = "none"
    /\ r.status = "completed" => r.payload = "result"
    /\ r.status = "failed" => r.payload \in Errors
    /\ r.status = "cancelled" => r.payload = "none"
    /\ IsTerminal(r) => r.terminal = r.updated /\ r.terminal <= r.anchor

HandoffOK(r) ==
    /\ r.claimed # NoTime => r.created <= r.claimed /\ r.claimed <= r.updated
    /\ r.finished = r.terminal
    /\ r.status = "queued" => r.claimed = NoTime
    /\ \/ r.claimed # NoTime
       \/ /\ r.status \notin {"running", "completed", "cancelled"}
          /\ r.token = NoToken
          /\ r.status = "failed" => /\ r.terminal = r.deadline
                                    /\ r.payload = "deadline_exceeded"

RowOK(r) ==
    /\ r.total > 0 /\ r.done <= r.total
    /\ TimesOK(r)
    /\ LeaseOK(r)
    /\ OutcomeOK(r)
    /\ HandoffOK(r)

-----------------------------------------------------------------------------
(***************************************************************************)
(* What each write does to the row it updates.                             *)
(***************************************************************************)
NewRow(kind, key, input, deadline, t) ==
    [kind |-> kind, key |-> key, input |-> input, status |-> "queued",
     done |-> 0, total |-> 1, token |-> NoToken, exp |-> NoTime,
     deadline |-> deadline, payload |-> "none",
     created |-> t, updated |-> t, terminal |-> NoTime,
     anchor |-> deadline, retain |-> deadline + TerminalRetention,
     claimed |-> NoTime, finished |-> NoTime]

\* terminal_retention: an unbounded scan is retained from its end, other
\* work from its deadline or its end, whichever is later.
TerminalAnchor(r, t) == IF IsUnbounded(r) THEN t ELSE Later(r.anchor, t)

\* Slip: the status and payload parameters bound in the wrong order.
EndRowSwapped(r, status, payload, at, now) ==
    [r EXCEPT !.status = payload, !.payload = status,
              !.token = NoToken, !.exp = NoTime,
              !.updated = at, !.terminal = at, !.finished = at]

\* The columns every terminal write sets; at is terminal_at_ms and now the
\* instant the retention is counted from.
EndRow(r, status, payload, at, now) ==
    [r EXCEPT !.status = status, !.payload = payload,
              !.done = IF status = "completed" THEN r.total ELSE r.done,
              !.token = NoToken, !.exp = NoTime,
              !.updated = at, !.terminal = at, !.finished = at,
              !.anchor = TerminalAnchor(r, now),
              !.retain = TerminalAnchor(r, now) + TerminalRetention]

CancelRow(r, t) == [r EXCEPT !.status = "cancelling", !.updated = t]

\* cancel_before_launch on a queued row: cancelling and cancelled at once.
CancelQueuedRow(r, t) ==
    [EndRow(r, "cancelled", "none", t, t) EXCEPT !.claimed = t]

\* A lease never outlives the execution deadline.
LeaseUntil(r, t) == Earlier(t + LeaseDuration, r.deadline)

ClaimRow(r, tok, t) ==
    [r EXCEPT !.status = IF r.status = "queued" THEN "running" ELSE r.status,
              !.token = tok, !.exp = LeaseUntil(r, t), !.updated = t,
              !.claimed = IF r.claimed = NoTime THEN t ELSE r.claimed]

RenewRow(r, t) == [r EXCEPT !.exp = LeaseUntil(r, t), !.updated = t]

\* Slip: the expiry column is not cleared with the token.
ReleaseRowKeepingExpiry(r, t) == [r EXCEPT !.token = NoToken, !.updated = t]

ReleaseRow(r, t) == [r EXCEPT !.token = NoToken, !.exp = NoTime, !.updated = t]

ProgressRow(r, done, total, t) ==
    [r EXCEPT !.done = done, !.total = total, !.updated = t]

\* Slip: the row keeps its date.
DecideRowUndated(r, t) == r

\* commit_completion_intent dates the row like the decision.
DecideRow(r, t) == [r EXCEPT !.updated = t]

\* transition_to_deadline_failure: dated at the deadline, not at the reaping.
DeadlineRow(r) ==
    [r EXCEPT !.status = "failed", !.payload = "deadline_exceeded",
              !.token = NoToken, !.exp = NoTime,
              !.updated = r.deadline, !.terminal = r.deadline,
              !.finished = r.deadline,
              !.retain = Later(r.retain, r.deadline + TerminalRetention)]

\* transition_to_execution_state_unknown
UnknownRow(r, t) ==
    [r EXCEPT !.status = "failed", !.payload = "state_unknown",
              !.token = NoToken, !.exp = NoTime,
              !.updated = t, !.terminal = t, !.finished = t,
              !.retain = Later(r.retain, t + TerminalRetention)]

\* Slip: the tombstone ends with the record's own retention.
TombstoneOfEnded(r) ==
    [kind |-> r.kind, key |-> r.key, input |-> r.input, until |-> r.retain]

TombstoneOf(r) ==
    [kind |-> r.kind, key |-> r.key, input |-> r.input,
     until |-> r.retain + TombstoneRetention]

-----------------------------------------------------------------------------
(***************************************************************************)
(* The checks the methods share.                                           *)
(***************************************************************************)
\* load_active_record: present, not written in the caller's future, retained.
Loadable(o, t) ==
    /\ o \in DOMAIN operations
    /\ operations[o].updated <= t
    /\ t < operations[o].retain

HasActiveLease(r, tok, t) == r.token = tok /\ t < r.exp

\* The common prefix of the calls a lease holder makes.
HeldBy(o, tok, t) ==
    /\ Loadable(o, t)
    /\ t < operations[o].deadline
    /\ HasActiveLease(operations[o], tok, t)

\* OperationStatus::allows_transition_to, without queued rows: what a lease
\* holder may finish its work as.
MayFinishAs(r, status) ==
    \/ r.status = "running" /\ status \in {"completed", "failed"}
    \/ r.status = "cancelling" /\ status \in TerminalStatus

\* Slip: progress may go back.
ProgressAllowedBack(r, done, total) ==
    /\ total = r.total \/ (r.kind = "scan_submit" /\ r.total = 1)
    /\ done <= total

\* update_progress: totals are fixed, but a scan may announce its plan once.
ProgressAllowed(r, done, total) ==
    /\ total = r.total \/ /\ r.kind = "scan_submit"
                          /\ r.total = 1 /\ r.done = 0
                          /\ done = 0 /\ total > 1
    /\ r.done <= done /\ done <= total

\* ORDER BY at LIMIT PurgeBatch: every choice of the oldest rows of ids.
OldestBatches(ids, at(_)) ==
    {batch \in SUBSET ids :
        /\ Cardinality(batch) = Earlier(PurgeBatch, Cardinality(ids))
        /\ \A x \in batch, y \in ids \ batch : at(x) <= at(y)}

-----------------------------------------------------------------------------
JournalInit ==
    /\ operations = << >>
    /\ intents = << >>
    /\ tombstones = << >>
    /\ clock = 0
    /\ reserved = [s \in Scopes |-> 0]

Tick ==
    /\ clock < MaxTime
    /\ clock' = clock + 1
    /\ UNCHANGED <<operations, intents, tombstones, reserved>>

\* A write that touches the operations table only.
Write(ops) ==
    /\ operations' = ops
    /\ UNCHANGED <<intents, tombstones, clock, reserved>>

Update(o, r) == Write([operations EXCEPT ![o] = r])

\* Slip: tombstones are not looked up.
TombstonesIgnored(scope) == {}

TombstonesOf(scope) ==
    {p \in DOMAIN tombstones : Scope(tombstones[p]) = scope}

(***************************************************************************)
(* submit_with_clock, the case that creates a record.  A record or a live  *)
(* tombstone in the scope makes it a replay, a conflict or Expired, none   *)
(* of which writes; an elapsed tombstone is deleted on the way.            *)
(***************************************************************************)
Submit(o, kind, key, input, deadline) ==
    LET scope == <<kind, key>>
        old == TombstonesOf(scope)
    IN  /\ o \notin DOMAIN operations \cup DOMAIN tombstones
        /\ deadline = UnboundedDeadline => kind = "scan_submit"
        /\ \A p \in DOMAIN operations : Scope(operations[p]) # scope
        /\ \A p \in old : tombstones[p].until <= clock
        /\ clock < deadline
        /\ \/ deadline + TerminalRetention <= clock + MaxTtl
           \/ deadline = UnboundedDeadline
        /\ operations' = With(operations, o,
                              NewRow(kind, key, input, deadline, clock))
        /\ tombstones' = Without(tombstones, old)
        /\ UNCHANGED <<intents, clock, reserved>>

\* Slip: a completion decision is overlooked.
CancellableDecided(o) ==
    /\ Loadable(o, clock)
    /\ operations[o].status \in {"queued", "running"}
    /\ clock < operations[o].deadline

\* A decided, terminal or cancelling row is left alone.
Cancellable(o) ==
    /\ Loadable(o, clock)
    /\ o \notin DOMAIN intents
    /\ operations[o].status \in {"queued", "running"}
    /\ clock < operations[o].deadline

\* cancel_if_with_clock
Cancel(o) ==
    /\ Cancellable(o)
    /\ Update(o, CancelRow(operations[o], clock))

\* cancel_before_launch_with_clock: an unclaimed row ends here and now.
CancelBeforeLaunch(o) ==
    /\ Cancellable(o)
    /\ IF operations[o].status = "queued"
         THEN /\ operations[o].claimed = NoTime
              /\ operations[o].token = NoToken
              /\ Update(o, CancelQueuedRow(operations[o], clock))
         ELSE Update(o, CancelRow(operations[o], clock))

-----------------------------------------------------------------------------
(***************************************************************************)
(* claim_next_runner_handoff.  A runner with project-exec capability first *)
(* fails the project-exec work whose lease was lost: it may have run, and  *)
(* is never run again.  Then the oldest claimable row is leased.           *)
(***************************************************************************)
LeaseLost(r, t) == r.exp <= t

\* Slip: only cancelled builds are taken for lost.
LostProjectExecCancelling(t) ==
    {o \in DOMAIN operations :
        /\ operations[o].kind = "resolve_build_submit"
        /\ operations[o].status = "cancelling"
        /\ t < operations[o].deadline
        /\ LeaseLost(operations[o], t)}

LostProjectExec(t) ==
    {o \in DOMAIN operations :
        /\ operations[o].kind = "resolve_build_submit"
        /\ operations[o].status \in LeasedStatus
        /\ t < operations[o].deadline
        /\ LeaseLost(operations[o], t)}

\* fail_lost_project_exec_leases: the batches it may fail, and the row check
\* that follows each update and rolls everything back when it does not hold.
LostBatches(grant, t) ==
    LET created(o) == operations[o].created
    IN  IF "resolve_build_submit" \in grant
          THEN OldestBatches(LostProjectExec(t), created)
          ELSE {{}}

MayFailLost(lost, t) ==
    \A o \in lost : /\ operations[o].updated <= t
                    /\ RowOK(UnknownRow(operations[o], t))

FailLost(lost, t) ==
    [o \in DOMAIN operations |->
        IF o \in lost THEN UnknownRow(operations[o], t) ELSE operations[o]]

\* Slip: a cancelling operation that still holds its lease does not count.
BusyRunning(ops, kinds, t) ==
    \E o \in DOMAIN ops : /\ ops[o].kind \in kinds
                          /\ ops[o].status = "running"
                          /\ t < ops[o].exp

\* Rows of these kinds with a live lease block the others of these kinds.
Busy(ops, kinds, t) ==
    \E o \in DOMAIN ops : /\ ops[o].kind \in kinds
                          /\ ops[o].status \in LeasedStatus
                          /\ t < ops[o].exp

\* select_next_claim_candidate: nothing while a completion is undecided.
Claimable(ops, grant, t) ==
    {o \in DOMAIN ops :
        /\ DOMAIN intents = {}
        /\ ops[o].kind \in grant
        /\ t < ops[o].deadline
        /\ \/ ops[o].status = "queued"
           \/ ops[o].status \in LeasedStatus /\ LeaseLost(ops[o], t)
        /\ ops[o].kind \in WriterKinds => ~Busy(ops, WriterKinds, t)
        /\ ops[o].kind = "resolve_build_submit"
              => ~Busy(ops, {"resolve_build_submit"}, t)}

OldestClaimable(ops, grant, t) ==
    {o \in Claimable(ops, grant, t) :
        \A p \in Claimable(ops, grant, t) : ops[o].created <= ops[p].created}

\* The claim that leases o.
ClaimNext(o, grant, tok, t) ==
    \E lost \in LostBatches(grant, t) :
        LET ops == FailLost(lost, t)
        IN  /\ MayFailLost(lost, t)
            /\ o \in OldestClaimable(ops, grant, t)
            /\ ops[o].updated <= t
            /\ Write([ops EXCEPT ![o] = ClaimRow(ops[o], tok, t)])

\* The claim that finds nothing to do, and may still fail lost leases.
ClaimNone(grant, t) ==
    \E lost \in LostBatches(grant, t) :
        LET ops == FailLost(lost, t)
        IN  /\ MayFailLost(lost, t)
            /\ Claimable(ops, grant, t) = {}
            /\ Write(ops)

\* The claim that returns an error: a failed row would not decode, or the
\* chosen row was written after the runner read its clock.
ClaimErrs(grant, t) ==
    \E lost \in LostBatches(grant, t) :
        \/ ~MayFailLost(lost, t)
        \/ \E o \in OldestClaimable(FailLost(lost, t), grant, t) :
              t < operations[o].updated

-----------------------------------------------------------------------------
(***************************************************************************)
(* The lease holder's calls.                                               *)
(***************************************************************************)
AcquireLease(o, tok, t) ==
    /\ Loadable(o, t)
    /\ t < operations[o].deadline
    /\ ~IsTerminal(operations[o])
    /\ LeaseLost(operations[o], t)
    /\ Update(o, ClaimRow(operations[o], tok, t))

RenewLease(o, tok, t) ==
    /\ HeldBy(o, tok, t)
    /\ Update(o, RenewRow(operations[o], t))

\* release_lease checks the token but not that the lease is still live.
ReleaseLease(o, tok, t) ==
    /\ Loadable(o, t)
    /\ t < operations[o].deadline
    /\ ~IsTerminal(operations[o])
    /\ operations[o].token = tok
    /\ Update(o, ReleaseRow(operations[o], t))

UpdateProgress(o, tok, done, total, t) ==
    /\ HeldBy(o, tok, t)
    /\ operations[o].status \in LeasedStatus
    /\ ProgressAllowed(operations[o], done, total)
    /\ Update(o, ProgressRow(operations[o], done, total, t))

\* finish: complete, fail and mark_cancelled.
Finish(o, tok, status, t) ==
    /\ HeldBy(o, tok, t)
    /\ MayFinishAs(operations[o], status)
    /\ Update(o, EndRow(operations[o], status,
                        CASE status = "completed" -> "result"
                          [] status = "failed"    -> "error"
                          [] status = "cancelled" -> "none", t, t))

\* commit_completion_intent, when cancellation has not won.
CommitCompletionIntent(o, tok, t) ==
    /\ HeldBy(o, tok, t)
    /\ operations[o].status = "running"
    /\ o \notin DOMAIN intents
    /\ intents' = With(intents, o, t)
    /\ operations' = [operations EXCEPT ![o] = DecideRow(operations[o], t)]
    /\ UNCHANGED <<tombstones, clock, reserved>>

\* validate_completion_intent
IntentValid(o, t) ==
    LET r == operations[o]
    IN  /\ o \in DOMAIN operations
        /\ r.updated <= t
        /\ r.status = "running"
        /\ intents[o] = r.updated
        /\ intents[o] < r.deadline
        /\ r.token # NoToken /\ intents[o] < r.exp

\* finish_completion_intent: allowed after the deadline, the decision is not.
FinishCompletionIntent(o, t) ==
    /\ o \in DOMAIN intents
    /\ IntentValid(o, t)
    /\ operations' = [operations EXCEPT ![o] =
          EndRow(operations[o], "completed", "result", intents[o], t)]
    /\ intents' = Without(intents, {o})
    /\ UNCHANGED <<tombstones, clock, reserved>>

-----------------------------------------------------------------------------
(***************************************************************************)
(* Deadlines and retention.                                                *)
(***************************************************************************)
Overdue(o, t) ==
    /\ operations[o].status \in LiveStatus
    /\ operations[o].deadline <= t
    /\ o \notin DOMAIN intents

\* fail_deadline_inner; cleaned says the runner removed the external state.
FailDeadline(o, cleaned, t) ==
    /\ o \in DOMAIN operations
    /\ operations[o].updated <= t
    /\ operations[o].kind \in CleanupKinds => cleaned
    /\ Overdue(o, t)
    /\ Update(o, DeadlineRow(operations[o]))

(***************************************************************************)
(* purge_with_runner_guard: reap overdue work that needs no cleanup, then  *)
(* replace expired terminal rows by tombstones (deleting their handoffs    *)
(* and intents in cascade), then drop elapsed tombstones.                  *)
(***************************************************************************)
Reapable(t) ==
    {o \in DOMAIN operations :
        operations[o].kind \notin CleanupKinds /\ Overdue(o, t)}

Reap(batch) ==
    [o \in DOMAIN operations |->
        IF o \in batch THEN DeadlineRow(operations[o]) ELSE operations[o]]

\* Slip: purged at the deadline instead of after the retention.
RetiredAtDeadline(ops, t) ==
    {o \in DOMAIN ops : IsTerminal(ops[o]) /\ ops[o].deadline <= t}

Retired(ops, t) == {o \in DOMAIN ops : IsTerminal(ops[o]) /\ ops[o].retain <= t}

\* The tombstones after the rows of batch were deleted from ops.
Bury(ops, batch, t) ==
    LET buried == {o \in batch : ops[o].retain + TombstoneRetention > t}
    IN  [o \in DOMAIN tombstones \cup buried |->
            IF o \in buried THEN TombstoneOf(ops[o]) ELSE tombstones[o]]

Elapsed(tombs, t) == {o \in DOMAIN tombs : tombs[o].until <= t}

\* History: the instant until which the scopes of batch stay reserved.
Remember(ops, batch) ==
    [s \in Scopes |->
        IF \E o \in batch : Scope(ops[o]) = s
          THEN LET o == CHOOSE o \in batch : Scope(ops[o]) = s
               IN  ops[o].retain + TombstoneRetention
          ELSE reserved[s]]

Purge(t) ==
    LET deadline(o) == operations[o].deadline
    IN  \E reaped \in OldestBatches(Reapable(t), deadline) :
          LET ops == Reap(reaped)
              retain(o) == ops[o].retain
          IN  \E gone \in OldestBatches(Retired(ops, t), retain) :
                LET tombs == Bury(ops, gone, t)
                    until(o) == tombs[o].until
                IN  \E done \in OldestBatches(Elapsed(tombs, t), until) :
                      /\ operations' = Without(ops, gone)
                      /\ intents' = Without(intents, gone)
                      /\ tombstones' = Without(tombs, done)
                      /\ reserved' = Remember(ops, gone)
                      /\ UNCHANGED clock

-----------------------------------------------------------------------------
Requests(kind) ==
    {clock + l : l \in Lifetimes}
        \cup (IF kind = "scan_submit" /\ UnboundedScans
              THEN {UnboundedDeadline} ELSE {})

ClientNext ==
    \E o \in Ops :
        \/ \E kind \in SubmitKinds, key \in Keys, input \in Inputs :
              \E deadline \in Requests(kind) :
                  Submit(o, kind, key, input, deadline)
        \/ Cancel(o)
        \/ CancelBeforeLaunch(o)

HolderNext(o, tok, t) ==
    \/ AcquireLease(o, tok, t)
    \/ RenewLease(o, tok, t)
    \/ ReleaseLease(o, tok, t)
    \/ \E total \in Totals : \E done \in 0..total :
          UpdateProgress(o, tok, done, total, t)
    \/ \E status \in TerminalStatus : Finish(o, tok, status, t)
    \/ CommitCompletionIntent(o, tok, t)

RunnerNext(t) ==
    \/ \E grant \in Grants :
          \/ \E o \in Ops, tok \in Tokens : ClaimNext(o, grant, tok, t)
          \/ ClaimNone(grant, t)
    \/ \E o \in Ops, tok \in Tokens : HolderNext(o, tok, t)
    \/ \E o \in Ops :
          \/ FinishCompletionIntent(o, t)
          \/ \E cleaned \in BOOLEAN : FailDeadline(o, cleaned, t)
    \/ Purge(t)

JournalNext ==
    \/ Tick
    \/ ClientNext
    \/ \E t \in 0..clock : RunnerNext(t)

JournalSpec == JournalInit /\ [][JournalNext]_journalVars

-----------------------------------------------------------------------------
(***************************************************************************)
(* Properties.                                                             *)
(***************************************************************************)

\* Every table holds rows of the shape its columns declare; intents and
\* tombstones are keyed by operation ids.
TypeOK ==
    /\ DOMAIN operations \subseteq Ops
    /\ \A o \in DOMAIN operations : operations[o] \in Row
    /\ DOMAIN intents \subseteq Ops
    /\ \A o \in DOMAIN intents : intents[o] \in Nat
    /\ DOMAIN tombstones \subseteq Ops
    /\ \A o \in DOMAIN tombstones : tombstones[o] \in Tombstone
    /\ clock \in 0..MaxTime
    /\ reserved \in [Scopes -> Nat]

\* Whatever calls were made, in whatever order and with whatever stale
\* timestamps, every committed row passes decode_operation and
\* validate_operation_handoff, so no record becomes unreadable for good.
RowsDecodable == \A o \in DOMAIN operations : RowOK(operations[o])

\* The unique indexes and overlap triggers of the schema are never what stops
\* a write: a scope has at most one record or tombstone, an id only one.
OneRecordPerScope ==
    /\ DOMAIN operations \cap DOMAIN tombstones = {}
    /\ \A o, p \in DOMAIN operations :
          Scope(operations[o]) = Scope(operations[p]) => o = p
    /\ \A o, p \in DOMAIN tombstones :
          Scope(tombstones[o]) = Scope(tombstones[p]) => o = p
    /\ \A o \in DOMAIN operations, p \in DOMAIN tombstones :
          Scope(operations[o]) # Scope(tombstones[p])

\* A purged record keeps its idempotency scope for TombstoneRetention after
\* its retention ended: no resubmission runs the work a second time earlier,
\* whichever purges and submissions happen in between.
IdempotencyWindow ==
    [][\A o \in DOMAIN operations' \ DOMAIN operations :
          reserved[Scope(operations'[o])] <= clock]_journalVars

\* A terminal record never changes again and leaves the journal only when its
\* retention has passed; the trigger operations_terminal_immutable and the
\* purge query both rely on it.
TerminalRecordsFrozen ==
    [][\A o \in DOMAIN operations :
          \/ o \notin DOMAIN operations' /\ operations[o].retain <= clock
          \/ /\ o \in DOMAIN operations'
             /\ IsTerminal(operations[o]) => operations'[o] = operations[o]
      ]_journalVars

\* The states a status may lead to within one transaction.
Successors(status) ==
    CASE status = "queued"     -> Status \ {"completed"}
      [] status = "running"    -> Status \ {"queued", "cancelled"}
      [] status = "cancelling" -> {"cancelling"} \cup TerminalStatus
      [] OTHER                 -> {status}

\* A record that stays keeps its identity, moves only along the documented
\* state machine, never turns back its clock or its progress, and is claimed
\* for the first time only once (queued work is never cancelled as claimed).
LegalHistory ==
    [][\A o \in DOMAIN operations \cap DOMAIN operations' :
          LET r == operations[o]
              s == operations'[o]
          IN  /\ Scope(s) = Scope(r) /\ s.input = r.input
              /\ s.created = r.created /\ s.deadline = r.deadline
              /\ s.status \in Successors(r.status)
              /\ r.updated <= s.updated
              /\ r.done <= s.done
              /\ r.claimed # NoTime => s.claimed = r.claimed
      ]_journalVars

\* A cancel request on work that no runner holds is handed to the next runner
\* (docs/40_arch_design/arch-mcp-agent-tools.md:309-313): the claim of a
\* runner with the capability, made now, does not fail because of it.
CancelRequestDeliverable ==
    \A grant \in Grants : \A lost \in LostBatches(grant, clock) :
        MayFailLost(lost, clock)

=============================================================================
