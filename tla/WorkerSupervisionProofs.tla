---------------------- MODULE WorkerSupervisionProofs ----------------------
(***************************************************************************)
(* Theorems about WorkerSupervision, for every budget, every limit on      *)
(* stderr and every set of phases: the verdict of an attempt.              *)
(***************************************************************************)
EXTENDS WorkerSupervision, TLAPS

\* What the supervisor's state says of the child and of its pipes: nothing is
\* decided while it runs, only a limit kills it, and its end gives up the pipes.
ChildInv ==
    /\ waited \in Causes \cup {None}
    /\ pipes \in {"open", "closed", "held"}
    /\ stdout \in {"partial", "complete", "malformed", "over"}
    /\ child \in {"running", "killed"} \cup Exits
    /\ waited # None => child # "running"
    /\ child = "killed" => waited \in {"timeout", "cancelled", "memory"}
    /\ child # "running" => pipes # "open"

\* The kinds that the cause of the wait alone accounts for, until the readers
\* are joined.
KindsInv ==
    result = None =>
        /\ waited = None => kinds = {}
        /\ waited = "timeout" => kinds = {"timeout"}
        /\ waited = "cancelled" => kinds = {"cancelled"}
        /\ waited = "memory" => kinds = {"memory_limit"} \/ kinds = {"other"}
        /\ waited = "process" =>
              /\ child = "failure" => kinds = {"nonzero_exit"}
              /\ child = "timed_out" => kinds = {"timeout"}
              /\ child = "success" => kinds = {}

\* The inductive invariant; a verdict exists only after the wait.
VerdictInv ==
    /\ ChildInv
    /\ KindsInv
    /\ result # None => waited # None
    /\ CauseKept
    /\ OkIsWhole

-----------------------------------------------------------------------------
(***************************************************************************)
(* select_worker_failure_kind.                                             *)
(***************************************************************************)
\* The selection returns the kind at the first position that occurs.
LEMMA SelectsFirst ==
    ASSUME NEW all, NEW k \in 1..8, Precedence[k] \in all,
           \A j \in 1..(k - 1) : Precedence[j] \notin all
    PROVE  select_worker_failure_kind(all) = Precedence[k]
<1>1. DOMAIN Precedence = 1..8
  BY DEF Precedence
<1> DEFINE Least(i) == /\ Precedence[i] \in all
                       /\ \A j \in 1..(i - 1) : Precedence[j] \notin all
<1>2. \A i \in 1..8 : Least(i) => i = k
  OBVIOUS
<1>3. (CHOOSE i \in DOMAIN Precedence : Least(i)) = k
  BY <1>1, <1>2
<1> QED
  BY <1>3 DEF select_worker_failure_kind

\* The kinds are the entries of the precedence.
LEMMA AllKinds ==
    {"timeout", "memory_limit", "cancelled", "nonzero_exit", "output_limit",
     "malformed_protocol", "incomplete_protocol", "other"} \subseteq Kinds
<1>1. /\ DOMAIN Precedence = 1..8
      /\ Precedence[1] = "timeout" /\ Precedence[2] = "memory_limit"
      /\ Precedence[3] = "cancelled" /\ Precedence[4] = "nonzero_exit"
      /\ Precedence[5] = "output_limit" /\ Precedence[6] = "malformed_protocol"
      /\ Precedence[7] = "incomplete_protocol" /\ Precedence[8] = "other"
  BY DEF Precedence
<1> QED
  BY <1>1 DEF Kinds

\* A timeout is reported whatever else was found, a memory limit unless a
\* timeout was, a cancellation unless one of these was.
LEMMA SelectsCause ==
    ASSUME NEW all
    PROVE  /\ "timeout" \in all => select_worker_failure_kind(all) = "timeout"
           /\ "memory_limit" \in all /\ "timeout" \notin all =>
                 select_worker_failure_kind(all) = "memory_limit"
           /\ "cancelled" \in all /\ "timeout" \notin all /\ "memory_limit" \notin all =>
                 select_worker_failure_kind(all) = "cancelled"
<1>1. Precedence[1] = "timeout" /\ Precedence[2] = "memory_limit" /\ Precedence[3] = "cancelled"
  BY DEF Precedence
<1>2. "timeout" \in all => select_worker_failure_kind(all) = Precedence[1]
  BY <1>1, SelectsFirst
<1>3. "memory_limit" \in all /\ "timeout" \notin all =>
          select_worker_failure_kind(all) = Precedence[2]
  BY <1>1, SelectsFirst
<1>4. "cancelled" \in all /\ "timeout" \notin all /\ "memory_limit" \notin all =>
          select_worker_failure_kind(all) = Precedence[3]
  BY <1>1, SelectsFirst
<1> QED
  BY <1>1, <1>2, <1>3, <1>4

\* Only an attempt without any kind is a success, and a verdict is never empty.
LEMMA SelectsOk ==
    ASSUME NEW all \in SUBSET Kinds
    PROVE  /\ select_worker_failure_kind(all) = "ok" => all = {}
           /\ select_worker_failure_kind(all) # None
<1>1. CASE all = {}
  BY <1>1 DEF select_worker_failure_kind, None
<1>2. CASE all # {}
  <2>1. DOMAIN Precedence = 1..8 /\ \A i \in 1..8 : Precedence[i] \notin {"ok", None}
    BY DEF Precedence, None
  <2>2. PICK k \in 1..8 : /\ Precedence[k] \in all
                          /\ \A j \in 1..(k - 1) : Precedence[j] \notin all
    <3>1. PICK i \in 1..8 : Precedence[i] \in all
      BY <1>2, <2>1 DEF Kinds
    <3> HIDE DEF Precedence
    <3> QED
      BY <3>1
  <2>3. select_worker_failure_kind(all) = Precedence[k]
    BY <2>2, SelectsFirst
  <2> QED
    BY <2>1, <2>3
<1> QED
  BY <1>1, <1>2

-----------------------------------------------------------------------------
\* Joining the readers gives a verdict that keeps the cause, and a success only
\* to a whole stream.
LEMMA SettleKeepsVerdict ==
    ASSUME VerdictInv, Settle
    PROVE  VerdictInv'
<1> DEFINE all == kinds \cup ReaderKinds
<1>1. /\ waited # None /\ result = None
      /\ kinds' = all /\ result' = select_worker_failure_kind(all)
      /\ UNCHANGED <<child, stdout, pipes, waited>>
  BY DEF Settle, childVars
<1>2. /\ ReaderKinds \subseteq {"output_limit", "malformed_protocol", "incomplete_protocol", "other"}
      /\ ReaderKinds = {} => pipes # "held" /\ stdout = "complete"
  BY DEF ReaderKinds, VerdictInv, ChildInv
<1>3. /\ waited = "timeout" => kinds = {"timeout"}
      /\ waited = "cancelled" => kinds = {"cancelled"}
      /\ waited = "memory" => kinds = {"memory_limit"} \/ kinds = {"other"}
      /\ waited = "process" =>
              /\ child = "failure" => kinds = {"nonzero_exit"}
              /\ child = "timed_out" => kinds = {"timeout"}
              /\ child = "success" => kinds = {}
      /\ waited \in Causes /\ child # "running" /\ pipes # "open"
      /\ child \in {"killed"} \cup Exits
      /\ child = "killed" => waited # "process"
      /\ pipes \in {"open", "closed", "held"}
  BY <1>1 DEF VerdictInv, KindsInv, ChildInv
<1>4. all \in SUBSET Kinds
  <2>1. kinds \subseteq {"timeout", "cancelled", "memory_limit", "other", "nonzero_exit"}
    BY <1>3 DEF Causes, Exits
  <2> QED
    BY <1>2, <2>1, AllKinds
<1> HIDE DEF all
<1>5. CauseKept'
  BY <1>1, <1>2, <1>3, SelectsCause DEF CauseKept, all
<1>6. OkIsWhole'
  <2>1. SUFFICES ASSUME result' = "ok"
                 PROVE  child = "success" /\ stdout = "complete" /\ pipes = "closed"
    BY <1>1 DEF OkIsWhole
  <2>2. kinds = {} /\ ReaderKinds = {}
    BY <1>1, <1>4, <2>1, SelectsOk DEF all
  <2> QED
    BY <1>2, <1>3, <2>2 DEF Causes, Exits
<1>7. ChildInv' /\ (result' # None => waited' # None) /\ result' # None
  BY <1>1, <1>4, SelectsOk DEF VerdictInv, ChildInv
<1> QED
  BY <1>5, <1>6, <1>7 DEF VerdictInv, KindsInv

\* Every step of the worker, the clock, the user and the supervisor keeps the
\* invariant.
LEMMA VerdictStep == VerdictInv /\ [Next]_vars => VerdictInv'
<1> SUFFICES ASSUME VerdictInv, [Next]_vars
             PROVE  VerdictInv'
  OBVIOUS
<1> USE DEF VerdictInv, ChildInv, KindsInv, CauseKept, OkIsWhole, childVars, waitVars
<1>1. CASE WorkerWrites
  BY <1>1 DEF WorkerWrites
<1>2. CASE WorkerExits
  BY <1>2 DEF WorkerExits, Exits, None
<1>3. CASE WorkerClosesStderr
  BY <1>3 DEF WorkerClosesStderr
<1>4. CASE Tick \/ Cancel \/ Overgrows \/ SeesProgress
  BY <1>4 DEF Tick, Cancel, Overgrows, SeesProgress
<1>5. CASE \E p \in Phases, n \in 0..MaxItems, s \in {"progress", "completed"} :
              ReadLine(p, n, s)
  BY <1>5 DEF ReadLine
<1>6. CASE SeesExit
  BY <1>6 DEF SeesExit, Causes, None, Exits
<1>7. ASSUME NEW cause \in {"timeout", "cancelled", "memory"}, NEW kind,
             SeesLimit(cause, kind),
             \/ cause \in {"timeout", "cancelled"} /\ kind = cause
             \/ cause = "memory" /\ kind \in {"memory_limit", "other"}
      PROVE  VerdictInv'
  BY <1>7 DEF SeesLimit, Terminated, Causes, None, Exits
<1>8. CASE SeesTimeout \/ SeesCancellation \/ SeesMemory
  BY <1>7, <1>8 DEF SeesTimeout, SeesCancellation, SeesMemory
<1>9. CASE Settle
  BY <1>9, SettleKeepsVerdict
<1>10. CASE UNCHANGED vars
  BY <1>10 DEF vars
<1> QED
  BY <1>1, <1>2, <1>3, <1>4, <1>5, <1>6, <1>8, <1>9, <1>10 DEF Next, Supervise

\* The invariant holds from the start of the attempt to its end.
THEOREM VerdictInvariant == Spec => []VerdictInv
<1>1. Init => VerdictInv
  BY DEF Init, VerdictInv, ChildInv, KindsInv, CauseKept, OkIsWhole, None, Causes
<1> QED
  BY <1>1, VerdictStep, PTL DEF Spec

\* Whatever the killed worker's stream looks like and whatever else ends at the
\* same time, an attempt that was killed for a limit or cancelled is reported
\* as that (select_worker_failure_kind).
THEOREM CauseIsKept == Spec => []CauseKept
BY VerdictInvariant, PTL DEF VerdictInv

\* Success means that the worker ended by itself and that its whole stream was
\* read.
THEOREM SuccessIsWhole == Spec => []OkIsWhole
BY VerdictInvariant, PTL DEF VerdictInv
=============================================================================
