------------------------- MODULE WorkerSupervision -------------------------
(***************************************************************************)
(* One worker process and its supervisor (crates/depgraph-core/src/worker.rs*)
(* execute_worker_inner_with_request, worker_progress.rs).  The supervisor *)
(* waits for the exit, the inactivity deadline, the cancellation token or  *)
(* the memory watch; a task of its own reads stderr and reports progress,  *)
(* which extends the deadline.  Whatever ends the wait, the process tree is*)
(* killed, the readers are joined, and the attempt gets one failure kind.  *)
(*                                                                         *)
(* Time is counted in ticks; stderr is a sequence of lines.  The worker may*)
(* do anything: hang, print for ever, exit at any time, close stderr, leave*)
(* a descendant behind that holds its pipes.                               *)
(***************************************************************************)
EXTENDS Naturals, FiniteSets

CONSTANTS Phases,        \* phase names a worker may report
          MaxPhases,     \* MAX_PROGRESS_PHASES
          MaxItems,      \* bound: the largest work counter
          StderrLines,   \* max_stderr_bytes, in lines
          Budget         \* worker_timeout_seconds, in ticks

ASSUME SupervisionAssumption ==
    /\ IsFiniteSet(Phases)
    /\ {MaxPhases, MaxItems, StderrLines, Budget} \subseteq Nat

VARIABLES child,      \* "running", or how it ended
          stdout,     \* what it has written of the protocol
          pipes,      \* "open", "closed", or "held" by a descendant that left the tree
          stderr,     \* "open" or "closed"
          lines,      \* lines retained
          counters,   \* ProgressTracker
          completed,
          changed,    \* the watch channel has a value the supervisor has not seen
          remaining,  \* ticks until the deadline
          token,      \* the token is cancelled
          memory,     \* the memory watch has found the tree over its limit
          waited,     \* what ended the wait
          kinds,      \* failure_kinds
          result      \* the kind of the attempt, or "ok"

vars == <<child, stdout, pipes, stderr, lines, counters, completed, changed,
          remaining, token, memory, waited, kinds, result>>
childVars == <<child, stdout, pipes, stderr>>
readerVars == <<lines, counters, completed>>
waitVars == <<waited, kinds, result>>

None == "none"
Exits == {"success", "failure", "timed_out"}   \* exit code 124 is a timeout
Causes == {"process", "timeout", "cancelled", "memory"}

\* The order in which select_worker_failure_kind looks for a kind.
Precedence == <<"timeout", "memory_limit", "cancelled", "nonzero_exit", "output_limit",
                "malformed_protocol", "incomplete_protocol", "other">>
Kinds == { Precedence[k] : k \in DOMAIN Precedence }

Init ==
    /\ child = "running" /\ stdout = "partial" /\ pipes = "open" /\ stderr = "open"
    /\ lines = 0
    /\ counters = [p \in Phases |-> 0] /\ completed = {}
    /\ changed = FALSE /\ remaining = Budget
    /\ token = FALSE /\ memory = FALSE
    /\ waited = None /\ kinds = {} /\ result = None

-----------------------------------------------------------------------------
(***************************************************************************)
(* The worker, the clock and the user.                                     *)
(***************************************************************************)
\* The protocol stream ends well, or badly, or grows past its limit.
WorkerWrites ==
    /\ child = "running" /\ stdout = "partial"
    /\ stdout' \in {"complete", "malformed", "over"}
    /\ UNCHANGED <<child, pipes, stderr, readerVars, changed, remaining, token,
                   memory, waitVars>>

WorkerExits ==
    /\ child = "running"
    /\ child' \in Exits
    /\ stderr' = "closed"
    /\ pipes' \in {"closed", "held"}
    /\ UNCHANGED <<stdout, readerVars, changed, remaining, token, memory, waitVars>>

WorkerClosesStderr ==
    /\ child = "running" /\ stderr = "open"
    /\ stderr' = "closed"
    /\ UNCHANGED <<child, stdout, pipes, readerVars, changed, remaining, token,
                   memory, waitVars>>

Tick ==
    /\ waited = None /\ remaining > 0
    /\ remaining' = remaining - 1
    /\ UNCHANGED <<childVars, readerVars, changed, token, memory, waitVars>>

Cancel ==
    /\ ~token
    /\ token' = TRUE
    /\ UNCHANGED <<childVars, readerVars, changed, remaining, memory, waitVars>>

\* The tree grows past max_worker_memory_bytes, or cannot be measured.
Overgrows ==
    /\ ~memory /\ child = "running"
    /\ memory' = TRUE
    /\ UNCHANGED <<childVars, readerVars, changed, remaining, token, waitVars>>

-----------------------------------------------------------------------------
(***************************************************************************)
(* read_progress_stderr.                                                   *)
(***************************************************************************)
KnownPhases == { p \in Phases : counters[p] > 0 }

\* Logs beyond the budget are read, and dropped.
Retained == lines < StderrLines

\* An advancing counter, of a phase there is room for.
Advances(phase, items) ==
    /\ Retained
    /\ items > counters[phase]
    /\ phase \in KnownPhases \/ Cardinality(KnownPhases) < MaxPhases

\* A phase that completes for the first time.
Completes(phase, status) ==
    /\ Retained
    /\ status = "completed" /\ phase \notin completed
    /\ Cardinality(completed) < MaxPhases

\* Slip: every line is a sign of life.
observe_anything(phase, items, status) == TRUE

\* ProgressTracker::observe.
observe(phase, items, status) == Advances(phase, items) \/ Completes(phase, status)

\* A line on stderr: progress, or any other line, which says nothing.
ReadLine(phase, items, status) ==
    /\ child = "running" /\ stderr = "open"
    /\ lines' = IF Retained THEN lines + 1 ELSE lines
    /\ counters' = IF Advances(phase, items)
                   THEN [counters EXCEPT ![phase] = items] ELSE counters
    /\ completed' = IF Completes(phase, status) THEN completed \cup {phase}
                    ELSE completed
    /\ changed' = (changed \/ observe(phase, items, status))
    /\ UNCHANGED <<childVars, remaining, token, memory, waitVars>>

-----------------------------------------------------------------------------
(***************************************************************************)
(* The supervisor.                                                         *)
(***************************************************************************)
\* wait_with_progress: the deadline starts again.
SeesProgress ==
    /\ waited = None /\ changed
    /\ changed' = FALSE
    /\ remaining' = Budget
    /\ UNCHANGED <<childVars, readerVars, token, memory, waitVars>>

SeesExit ==
    /\ waited = None /\ child # "running"
    /\ waited' = "process"
    /\ kinds' = CASE child = "failure" -> {"nonzero_exit"}
                  [] child = "timed_out" -> {"timeout"}
                  [] OTHER -> {}
    /\ UNCHANGED <<childVars, readerVars, changed, remaining, token, memory, result>>

\* terminate_worker: the tree is killed; a descendant that left it is not.
Terminated ==
    /\ child' = IF child = "running" THEN "killed" ELSE child
    /\ stderr' = "closed"
    /\ pipes' \in IF pipes = "open" THEN {"closed", "held"} ELSE {pipes}

SeesLimit(cause, kind) ==
    /\ waited = None
    /\ waited' = cause
    /\ kinds' = {kind}
    /\ Terminated
    /\ UNCHANGED <<stdout, readerVars, changed, remaining, token, memory, result>>

SeesTimeout == remaining = 0 /\ SeesLimit("timeout", "timeout")

SeesCancellation == token /\ SeesLimit("cancelled", "cancelled")

SeesMemory == memory /\ \E kind \in {"memory_limit", "other"} : SeesLimit("memory", kind)

\* Slip: what was read before the reader was given up counts.
ReaderKindsSoFar == CASE stdout = "over" -> {"output_limit", "incomplete_protocol"}
                      [] stdout = "malformed" -> {"malformed_protocol"}
                      [] stdout = "partial" -> {"incomplete_protocol"}
                      [] OTHER -> {}

\* What the readers and the parser add: a reader whose pipe stays open is
\* given up after two seconds, and its bytes with it.
ReaderKinds == IF pipes = "held" THEN {"other", "incomplete_protocol", "output_limit"}
               ELSE CASE stdout = "over" -> {"output_limit", "incomplete_protocol"}
                      [] stdout = "malformed" -> {"malformed_protocol"}
                      [] stdout = "partial" -> {"incomplete_protocol"}
                      [] OTHER -> {}

\* Slip: the stream's own failure is reported first.
select_stream_first(all) ==
    IF all \cap {"incomplete_protocol", "malformed_protocol"} # {}
    THEN CHOOSE k \in all \cap {"incomplete_protocol", "malformed_protocol"} : TRUE
    ELSE IF all = {} THEN "ok" ELSE CHOOSE k \in all : TRUE

select_worker_failure_kind(all) ==
    IF all = {} THEN "ok"
    ELSE LET first == CHOOSE k \in DOMAIN Precedence :
                         /\ Precedence[k] \in all
                         /\ \A j \in 1..(k - 1) : Precedence[j] \notin all
         IN  Precedence[first]

Settle ==
    /\ waited # None /\ result = None
    /\ kinds' = kinds \cup ReaderKinds
    /\ result' = select_worker_failure_kind(kinds \cup ReaderKinds)
    /\ UNCHANGED <<childVars, readerVars, changed, remaining, token, memory, waited>>

Supervise ==
    \/ SeesExit \/ SeesTimeout \/ SeesCancellation \/ SeesMemory
    \/ SeesProgress \/ Settle

Next ==
    \/ WorkerWrites \/ WorkerExits \/ WorkerClosesStderr
    \/ Tick \/ Cancel \/ Overgrows
    \/ \E p \in Phases, n \in 0..MaxItems, s \in {"progress", "completed"} :
          ReadLine(p, n, s)
    \/ Supervise

\* Time passes, and the supervisor's task is polled when something is ready;
\* nothing is asked of the worker.
Spec == Init /\ [][Next]_vars /\ WF_vars(Tick) /\ WF_vars(Supervise)

-----------------------------------------------------------------------------
SupervisionTypeOK ==
    /\ child \in {"running", "killed"} \cup Exits
    /\ stdout \in {"partial", "complete", "malformed", "over"}
    /\ pipes \in {"open", "closed", "held"}
    /\ lines \in 0..StderrLines
    /\ counters \in [Phases -> 0..MaxItems] /\ completed \subseteq Phases
    /\ remaining \in 0..Budget
    /\ waited \in Causes \cup {None}
    /\ kinds \subseteq Kinds
    /\ result \in Kinds \cup {"ok", None}
    /\ waited # None => child # "running"

\* The kind of a killed attempt is what it was killed for: the stream that the
\* kill cut short never hides it, so a retry at a finer unit is decided by the
\* limit and a cancelled unit is never taken for a broken worker
\* (worker.rs:282).
CauseKept ==
    result # None =>
        /\ waited = "timeout" => result = "timeout"
        /\ waited = "cancelled" => result = "cancelled"
        /\ waited = "memory" /\ "other" \notin kinds => result = "memory_limit"

\* A successful attempt ended by itself, before any limit was acted on, with a
\* whole stream that was read to its end (worker.rs:2061-2205).
OkIsWhole ==
    result = "ok" => child = "success" /\ stdout = "complete" /\ pipes = "closed"

\* The supervisor settles every attempt, whatever the worker prints and
\* whoever holds its pipes: progress runs out, because stderr does
\* (worker_progress.rs:88).
Settles == <>(result # None)
=============================================================================
