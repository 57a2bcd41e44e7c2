------------------------ MODULE OperationRunnerProofs ------------------------
(***************************************************************************)
(* Proofs about OperationRunner: every step of a runner, a client or the   *)
(* daemon is a call of the journal or leaves it alone, so what is proved   *)
(* of the journal holds under the runners; and a runner that works keeps   *)
(* the record it works on.                                                 *)
(***************************************************************************)
EXTENDS OperationRunner, OperationJournalProofs

\* The steps between taking the guard and giving it back.
Holding == Pcs \ {"off", "start"}

\* The steps at which a runner has an operation.
HasOp == {"recovered", "guardian", "check", "dispatch", "work", "final", "join",
          "decide", "commit", "promote", "finish", "cleanup", "terminalize", "ack"}

\* The steps beside which the guardian thread may run.
Guarded == {"check", "dispatch", "work", "final", "join"}

\* The steps with the clock reading that follows recovery, the ones that end
\* overdue work included.
Sweeping(r) ==
    \/ run[r].pc \in {"expired", "purge", "claim"}
    \/ run[r].pc \in {"cleanup", "terminalize", "ack"} /\ run[r].back = "expired"

\* The main thread of a runner, by itself: only the holder of the guard is past
\* its start, and what it keeps over several steps is a reading of the clock, an
\* operation, a plan.
ThreadOK(r) ==
    /\ run[r].pc \in Holding => guard = r
    /\ run[r].pc \notin {"off", "exiting"} => run[r].grant \in Grants
    /\ run[r].since <= clock
    /\ run[r].at = NoTime \/ run[r].at \in 0..clock
    /\ Sweeping(r) \/ run[r].pc = "commit" => run[r].at \in 0..clock
    /\ run[r].pc \in HasOp => run[r].op \in Ops
    /\ run[r].plan \in Totals \cup {0}
    /\ run[r].back = "expired" =>
          run[r].pc \in {"cleanup", "terminalize", "ack"} /\ run[r].ending = "deadline"

\* The guardian runs beside a main thread that works.
GuardianOK(r) ==
    /\ guardian[r].pc # "off" => run[r].pc \in Guarded
    /\ guardian[r].pc = "sampled" => guardian[r].at \in 0..clock

\* An operation that a runner has claimed is its own; one that it ends for its
\* deadline, or that the guardian or the last checkpoint found late, is overdue.
OwnOK(r) ==
    /\ run[r].pc \in Working \cup {"guardian"} =>
          /\ Op(r) \in DOMAIN operations
          /\ Rec(r).status \in LeasedStatus
          /\ Rec(r).token = r
    /\ run[r].pc \in {"cleanup", "terminalize"} =>
          /\ Op(r) \in DOMAIN operations
          /\ run[r].ending = "deadline" => Rec(r).deadline <= clock
    /\ run[r].pc = "join" /\ run[r].check = "deadline" => Rec(r).deadline <= clock
    /\ run[r].pc \in Guarded /\ guardian[r].exit = "deadline" => Rec(r).deadline <= clock

ThreadTypes ==
    /\ guard \in Runners \cup {NoRunner}
    /\ run \in [Runners -> Thread]
    /\ guardian \in [Runners -> GuardianThread]
    /\ stage \in [Ops -> Stages]
    /\ execs \in [Ops -> Nat]
    /\ owed \subseteq Ops
    /\ crashes \in 0..MaxCrashes

RunnerOK(r) == ThreadOK(r) /\ GuardianOK(r) /\ OwnOK(r)

\* The inductive invariant of the threads, over that of the journal.
ControlInv ==
    /\ JournalInv
    /\ ThreadTypes
    /\ \A r \in Runners : RunnerOK(r)

-----------------------------------------------------------------------------
(***************************************************************************)
(* The moves of a main thread.                                             *)
(***************************************************************************)
\* The other main threads stay where they are.
Others(r) ==
    /\ run' \in [Runners -> Thread]
    /\ \A q \in Runners \ {r} : run'[q] = run[q]

\* The fields of a thread, as a record that a move starts from.
SameFields(new, old) ==
    /\ new.grant = old.grant /\ new.op = old.op /\ new.plan = old.plan
    /\ new.outcome = old.outcome /\ new.check = old.check
    /\ new.back = old.back

\* The move to given fields.
LEMMA GoMoves ==
    ASSUME ThreadTypes, clock \in Nat, NEW r \in Runners, NEW f \in Thread, Go(r, f)
    PROVE  /\ Others(r)
           /\ SameFields(run'[r], f)
           /\ run'[r].pc = f.pc /\ run'[r].at = f.at /\ run'[r].ending = f.ending
           /\ run'[r].since = clock
<1>1. [f EXCEPT !.since = clock] \in Thread
  BY DEF Thread
<1> QED
  BY <1>1 DEF ThreadTypes, Go, Others, SameFields, Thread

\* The move to another step, all else kept.
LEMMA GoToMoves ==
    ASSUME ThreadTypes, clock \in Nat, NEW r \in Runners, NEW pc \in Pcs, GoTo(r, pc)
    PROVE  /\ Others(r)
           /\ SameFields(run'[r], run[r])
           /\ run'[r].pc = pc /\ run'[r].at = run[r].at
           /\ run'[r].ending = run[r].ending /\ run'[r].since = clock
<1> DEFINE f == [run[r] EXCEPT !.pc = pc]
<1>1. /\ f \in Thread
      /\ SameFields(f, run[r]) /\ f.pc = pc /\ f.at = run[r].at
      /\ f.ending = run[r].ending
  BY DEF ThreadTypes, Thread, SameFields
<1>2. Go(r, f)
  BY DEF GoTo
<1> HIDE DEF f
<1> QED
  BY <1>1, <1>2, GoMoves DEF SameFields

\* The thread that has not started.
LEMMA OffTyped ==
    /\ Off \in Thread
    /\ Off.pc = "off" /\ Off.op = NoOp /\ Off.at = NoTime /\ Off.since = 0
    /\ Off.plan = 0 /\ Off.outcome = "none" /\ Off.ending = "none"
    /\ Off.back = "reconcile" /\ Off.grant = {}
BY DEF Off, Thread, Pcs, Outcomes, Checkpoints, NoTime, Kinds

\* The move back into the loop.
LEMMA LoopMoves ==
    ASSUME ThreadTypes, clock \in Nat, NEW r \in Runners, NEW pc \in Pcs, Loop(r, pc)
    PROVE  /\ Others(r)
           /\ run'[r].pc = pc /\ run'[r].grant = run[r].grant
           /\ run'[r].op = NoOp /\ run'[r].at = NoTime /\ run'[r].since = clock
           /\ run'[r].plan = 0 /\ run'[r].outcome = "none"
           /\ run'[r].ending = "none" /\ run'[r].back = "reconcile"
<1> DEFINE f == [Off EXCEPT !.pc = pc, !.grant = run[r].grant]
<1>1. /\ f \in Thread
      /\ f.pc = pc /\ f.grant = run[r].grant /\ f.op = NoOp /\ f.at = NoTime
      /\ f.plan = 0 /\ f.outcome = "none" /\ f.ending = "none" /\ f.back = "reconcile"
  BY OffTyped DEF ThreadTypes, Thread
<1>2. Go(r, f)
  BY DEF Loop
<1> HIDE DEF f
<1> QED
  BY <1>1, <1>2, GoMoves DEF SameFields

\* The end of a process, and a process that is put to a step before the loop.
LEMMA OffMoves ==
    ASSUME ThreadTypes, NEW r \in Runners, NEW pc \in Pcs, NEW grant \in SUBSET Kinds,
           run' = [run EXCEPT ![r] = [Off EXCEPT !.pc = pc, !.grant = grant]]
    PROVE  /\ Others(r)
           /\ run'[r].pc = pc /\ run'[r].grant = grant
           /\ run'[r].op = NoOp /\ run'[r].at = NoTime /\ run'[r].since = 0
           /\ run'[r].plan = 0 /\ run'[r].back = "reconcile"
<1> DEFINE f == [Off EXCEPT !.pc = pc, !.grant = grant]
<1>1. /\ f \in Thread
      /\ f.pc = pc /\ f.grant = grant /\ f.op = NoOp /\ f.at = NoTime /\ f.since = 0
      /\ f.plan = 0 /\ f.back = "reconcile"
  BY OffTyped DEF ThreadTypes, Thread
<1>2. run' = [run EXCEPT ![r] = f]
  OBVIOUS
<1> HIDE DEF f
<1> QED
  BY <1>1, <1>2 DEF ThreadTypes, Others

\* The end of run_until_idle.
LEMMA ExitMoves ==
    ASSUME ThreadTypes, NEW r \in Runners, Exit(r)
    PROVE  /\ Others(r)
           /\ run'[r].pc = "exiting" /\ run'[r].op = NoOp /\ run'[r].at = NoTime
           /\ run'[r].since = 0 /\ run'[r].plan = 0 /\ run'[r].back = "reconcile"
<1> DEFINE f == [Off EXCEPT !.pc = "exiting"]
<1>1. /\ f \in Thread
      /\ f.pc = "exiting" /\ f.op = NoOp /\ f.at = NoTime /\ f.since = 0
      /\ f.plan = 0 /\ f.back = "reconcile"
  BY OffTyped DEF Thread, Pcs
<1>2. run' = [run EXCEPT ![r] = f]
  BY DEF Exit
<1> HIDE DEF f
<1> QED
  BY <1>1, <1>2 DEF ThreadTypes, Others

\* A thread that is gone.
LEMMA GoneMoves ==
    ASSUME ThreadTypes, NEW r \in Runners, run' = [run EXCEPT ![r] = Off]
    PROVE  /\ Others(r)
           /\ run'[r].pc = "off" /\ run'[r].op = NoOp /\ run'[r].at = NoTime
           /\ run'[r].since = 0 /\ run'[r].plan = 0 /\ run'[r].back = "reconcile"
BY OffTyped DEF ThreadTypes, Others, Off

\* The move into terminalize_after_cleanup.
LEMMA EndMoves ==
    ASSUME ThreadTypes, clock \in Nat, NEW r \in Runners, NEW at \in Int,
           NEW ending \in {"deadline", "failed", "cancelled"}, End(r, ending, at)
    PROVE  /\ Others(r)
           /\ SameFields(run'[r], run[r])
           /\ run'[r].pc = "cleanup" /\ run'[r].at = at
           /\ run'[r].ending = ending /\ run'[r].since = clock
<1> DEFINE f == [run[r] EXCEPT !.pc = "cleanup", !.ending = ending, !.at = at]
<1>0. run[r] \in Thread /\ "cleanup" \in Pcs
  BY DEF ThreadTypes, Pcs
<1>1. /\ f \in Thread
      /\ SameFields(f, run[r]) /\ f.pc = "cleanup" /\ f.at = at /\ f.ending = ending
  BY <1>0 DEF Thread, SameFields
<1>2. Go(r, f)
  BY DEF End
<1> HIDE DEF f
<1> QED
  BY <1>1, <1>2, GoMoves DEF SameFields

-----------------------------------------------------------------------------
(***************************************************************************)
(* Every step is a step of the journal.                                    *)
(***************************************************************************)
\* A fresh reading of the clock, and the reading a runner keeps.
LEMMA Readings ==
    ASSUME ControlInv, NEW r \in Runners
    PROVE  /\ clock \in Nat
           /\ Fresh(r) \subseteq 0..clock
           /\ Sweeping(r) \/ run[r].pc = "commit" => run[r].at \in 0..clock
           /\ run[r].at = NoTime \/ run[r].at \in 0..clock
<1>1. run[r].since \in Nat /\ run[r].since <= clock
  BY DEF ControlInv, ThreadTypes, Thread, RunnerOK, ThreadOK
<1>2. clock \in Nat
  BY TimeAssumption DEF ControlInv, JournalInv, TypeOK
<1> QED
  BY <1>1, <1>2 DEF Fresh, ControlInv, RunnerOK, ThreadOK

\* What a client does is a client's call.
LEMMA ClientStepIsJournalStep ==
    ASSUME NEW o \in Ops, ClientStep(o)
    PROVE  ClientNext \/ UNCHANGED journalVars
BY DEF ClientStep, SubmitWork, CancelWork, Withdraw, ClientNext

\* The calls of the main thread carry its own token and a past instant.
LEMMA MainStepIsJournalStep ==
    ASSUME ControlInv, NEW r \in Runners, MainStep(r)
    PROVE  (\E t \in 0..clock : RunnerNext(t)) \/ UNCHANGED journalVars
<1>1. /\ clock \in Nat /\ Fresh(r) \subseteq 0..clock
      /\ Sweeping(r) \/ run[r].pc = "commit" => run[r].at \in 0..clock
      /\ run[r].at = NoTime \/ run[r].at \in 0..clock
  BY Readings
<1>2. /\ run[r].pc \in HasOp => Op(r) \in Ops
      /\ run[r].pc \notin {"off", "exiting"} => run[r].grant \in Grants
      /\ run[r].plan \in Totals \cup {0}
      /\ r \in Tokens
  BY DEF ControlInv, RunnerOK, ThreadOK, Op, Runners
<1>3. CASE FinishDecided(r, "recovered", "recover") \/ FinishDecided(r, "finish", "reconcile")
  <2>1. Op(r) \in Ops
    BY <1>2, <1>3 DEF FinishDecided, At, HasOp
  <2>2. (\E t \in Fresh(r) : FinishCompletionIntent(Op(r), t)) \/ UNCHANGED journalVars
    BY <1>3 DEF FinishDecided
  <2> QED
    BY <1>1, <2>1, <2>2 DEF RunnerNext
<1>4. CASE PurgeStep(r)
  BY <1>1, <1>4 DEF PurgeStep, At, Sweeping, RunnerNext
<1>5. CASE Claim(r)
  <2>1. run[r].at \in 0..clock /\ run[r].grant \in Grants
    BY <1>1, <1>2, <1>5 DEF Claim, At, Sweeping
  <2>2. \/ \E o \in Ops : ClaimNext(o, run[r].grant, r, run[r].at)
        \/ ClaimNone(run[r].grant, run[r].at)
        \/ UNCHANGED journalVars
    BY <1>5 DEF Claim
  <2> QED
    BY <1>2, <2>1, <2>2 DEF RunnerNext
<1>6. CASE StartGuardian(r)
  <2>1. Op(r) \in Ops
    BY <1>2, <1>6 DEF StartGuardian, At, HasOp
  <2>2. (\E t \in Fresh(r) : RenewLease(Op(r), r, t)) \/ UNCHANGED journalVars
    BY <1>6 DEF StartGuardian
  <2> QED
    BY <1>1, <1>2, <2>1, <2>2 DEF RunnerNext, HolderNext
<1>7. CASE ReportProgress(r)
  <2>1. Op(r) \in Ops /\ Op(r) \in DOMAIN operations
    BY <1>2, <1>7 DEF ReportProgress, At, HasOp, ControlInv, RunnerOK, OwnOK, Working
  <2>2. PICK t \in Fresh(r), p \in Reports(r) : UpdateProgress(Op(r), r, p[1], p[2], t)
    BY <1>7 DEF ReportProgress
  <2>3. Rec(r).done \in Nat
    BY <2>1 DEF Rec, ControlInv, JournalInv, TypeOK, Row
  <2>4. p[2] \in Totals /\ p[1] \in 0..p[2]
    <3>1. Totals \subseteq Nat \ {0}
      BY TimeAssumption
    <3>2. CASE run[r].plan = 0
      <4>1. p \in {0} \X (Totals \ {1})
        BY <2>2, <3>2 DEF Reports
      <4>2. p[1] = 0 /\ p[2] \in Totals
        BY <4>1
      <4>3. p[2] \in Nat
        BY <3>1, <4>2
      <4> QED
        BY <4>2, <4>3
    <3>3. CASE run[r].plan # 0
      <4>1. p \in (Rec(r).done..(run[r].plan - 1)) \X {run[r].plan}
        BY <2>2, <3>3 DEF Reports
      <4>2. run[r].plan \in Totals
        BY <1>2, <3>3
      <4>3. p[1] \in Rec(r).done..(run[r].plan - 1) /\ p[2] = run[r].plan
        BY <4>1
      <4>4. run[r].plan \in Nat
        BY <3>1, <4>2
      <4> QED
        BY <2>3, <4>2, <4>3, <4>4
    <3> QED
      BY <3>2, <3>3
  <2> QED
    BY <1>1, <1>2, <2>1, <2>2, <2>4 DEF RunnerNext, HolderNext
<1>8. CASE Decide(r)
  <2>1. Op(r) \in Ops
    BY <1>2, <1>8 DEF Decide, At, HasOp
  <2>2. (\E t \in Fresh(r) : Finish(Op(r), r, "completed", t)) \/ UNCHANGED journalVars
    BY <1>8 DEF Decide
  <2> QED
    BY <1>1, <1>2, <2>1, <2>2 DEF RunnerNext, HolderNext, TerminalStatus
<1>9. CASE Commit(r)
  <2>1. Op(r) \in Ops /\ run[r].at \in 0..clock
    BY <1>1, <1>2, <1>9 DEF Commit, At, HasOp
  <2>2. CommitCompletionIntent(Op(r), r, run[r].at) \/ UNCHANGED journalVars
    BY <1>9 DEF Commit
  <2> QED
    BY <1>2, <2>1, <2>2 DEF RunnerNext, HolderNext
<1>10. CASE Terminalize(r)
  <2>1. Op(r) \in Ops /\ Op(r) \in DOMAIN operations
        /\ (run[r].ending = "deadline" => Rec(r).deadline <= clock)
    BY <1>2, <1>10 DEF Terminalize, At, HasOp, ControlInv, RunnerOK, OwnOK
  <2>2. Rec(r).deadline \in Nat
    BY <2>1 DEF Rec, ControlInv, JournalInv, TypeOK, Row
  <2>3. CASE run[r].ending = "deadline" /\ FailDeadline(Op(r), TRUE, Rec(r).deadline)
    <3>1. Rec(r).deadline \in 0..clock
      BY <1>1, <2>1, <2>2, <2>3
    <3> QED
      BY <2>1, <2>3, <3>1 DEF RunnerNext
  <2>4. CASE run[r].ending # "deadline" /\ ~ UNCHANGED journalVars
    <3>1. run[r].ending \in TerminalStatus \cup {"none"}
      BY <2>4 DEF ControlInv, ThreadTypes, Thread, TerminalStatus
    <3>2. PICK t \in IF run[r].at = NoTime THEN Fresh(r) ELSE {run[r].at} :
              Finish(Op(r), r, run[r].ending, t)
      BY <1>10, <2>4 DEF Terminalize
    <3>3. t \in 0..clock
      BY <1>1, <3>2
    <3>4. run[r].ending \in TerminalStatus
      BY <3>1, <3>2 DEF Finish, MayFinishAs, TerminalStatus
    <3> QED
      BY <1>2, <2>1, <3>2, <3>3, <3>4 DEF RunnerNext, HolderNext
  <2> QED
    BY <1>10, <2>3, <2>4 DEF Terminalize
<1>11. CASE \/ TryGuard(r) \/ Reconcile(r) \/ Recover(r) \/ Expire(r) \/ FirstCheck(r)
            \/ Dispatch(r) \/ ForceCancel(r) \/ EndWork(r) \/ FinalCheck(r) \/ Join(r)
            \/ Promote(r) \/ Cleanup(r) \/ Acknowledge(r) \/ Conflict(r) \/ Leave(r)
  BY <1>11 DEF TryGuard, Reconcile, Recover, Expire, FirstCheck, Dispatch, ForceCancel,
               EndWork, FinalCheck, Join, Promote, Cleanup, Acknowledge, Conflict, Leave
<1> QED
  BY <1>3, <1>4, <1>5, <1>6, <1>7, <1>8, <1>9, <1>10, <1>11 DEF MainStep

\* The guardian's only call is a renewal.
LEMMA GuardianStepIsJournalStep ==
    ASSUME ControlInv, NEW r \in Runners, GuardianStep(r)
    PROVE  (\E t \in 0..clock : RunnerNext(t)) \/ UNCHANGED journalVars
<1>1. CASE GuardianSample(r)
  BY <1>1 DEF GuardianSample
<1>2. CASE GuardianRenew(r)
  <2>1. /\ run[r].pc \in Guarded /\ guardian[r].at \in 0..clock
        /\ r \in Tokens
    BY <1>2 DEF GuardianRenew, ControlInv, RunnerOK, GuardianOK, Runners
  <2>2. Op(r) \in Ops
    BY <2>1 DEF ControlInv, RunnerOK, ThreadOK, Op, Guarded, HasOp
  <2>3. RenewLease(Op(r), r, guardian[r].at) \/ UNCHANGED journalVars
    BY <1>2 DEF GuardianRenew
  <2> QED
    BY <2>1, <2>2, <2>3 DEF RunnerNext, HolderNext
<1> QED
  BY <1>1, <1>2 DEF GuardianStep

\* Whatever a step does, the journal sees calls it was proved to bear.
LEMMA StepIsJournalStep ==
    ASSUME ControlInv, [Next]_vars
    PROVE  [JournalNext]_journalVars
<1>1. CASE Clock
  BY <1>1 DEF Clock, JournalNext
<1>2. CASE \E o \in Ops : ClientStep(o)
  BY <1>2, ClientStepIsJournalStep DEF JournalNext
<1>3. ASSUME NEW r \in Runners, MainStep(r)
      PROVE  [JournalNext]_journalVars
  BY <1>3, MainStepIsJournalStep DEF JournalNext
<1>4. ASSUME NEW r \in Runners, GuardianStep(r)
      PROVE  [JournalNext]_journalVars
  BY <1>4, GuardianStepIsJournalStep DEF JournalNext
<1>5. ASSUME NEW r \in Runners, Crash(r) \/ \E grant \in Grants : Launch(r, grant)
      PROVE  [JournalNext]_journalVars
  BY <1>5 DEF Crash, Launch
<1>6. CASE DaemonStart \/ DaemonStop
  BY <1>6 DEF DaemonStart, DaemonStop
<1>7. CASE UNCHANGED vars
  BY <1>7 DEF vars
<1> QED
  BY <1>1, <1>2, <1>3, <1>4, <1>5, <1>6, <1>7 DEF Next

-----------------------------------------------------------------------------
(***************************************************************************)
(* The threads keep their invariant.                                       *)
(***************************************************************************)
\* Only one runner is past its start: the steps of the holder of the guard, and
\* the steps that touch neither the guard nor the journal, leave the others
\* as they were.
LEMMA OthersStay ==
    ASSUME ControlInv, NEW r \in Runners, Others(r), clock' = clock,
           \A q \in Runners \ {r} : guardian'[q] = guardian[q],
           \/ guard \in {r, NoRunner}
           \/ guard' = guard /\ operations' = operations
    PROVE  \A q \in Runners \ {r} : RunnerOK(q)'
<1> SUFFICES ASSUME NEW q \in Runners \ {r}
             PROVE  RunnerOK(q)'
  OBVIOUS
<1>1. /\ run'[q] = run[q] /\ guardian'[q] = guardian[q] /\ RunnerOK(q)
      /\ run[q].pc \in Pcs
  BY DEF Others, ControlInv, ThreadTypes, Thread
<1>2. CASE guard' = guard /\ operations' = operations
  BY <1>1, <1>2 DEF RunnerOK, ThreadOK, GuardianOK, OwnOK, Sweeping, Op, Rec
<1>3. CASE guard \in {r, NoRunner}
  <2>1. guard # q
    BY <1>3, RunnerAssumption
  <2>2. run[q].pc \in {"off", "start"}
    BY <1>1, <2>1 DEF RunnerOK, ThreadOK, Holding
  <2> QED
    BY <1>1, <2>2
       DEF RunnerOK, ThreadOK, GuardianOK, OwnOK, Sweeping, Holding, Guarded, Working, HasOp
<1> QED
  BY <1>2, <1>3

\* A thread that ends keeps nothing.
LEMMA ExitControl ==
    ASSUME ControlInv, NEW r \in Runners, clock' = clock, guardian'[r].pc = "off",
           \/ Exit(r) /\ guard' = r
           \/ run' = [run EXCEPT ![r] = Off]
    PROVE  Others(r) /\ RunnerOK(r)'
<1>1. /\ Others(r) /\ run'[r].pc \in {"exiting", "off"}
      /\ run'[r].pc = "exiting" => guard' = r
      /\ run'[r].at = NoTime /\ run'[r].since = 0
      /\ run'[r].plan = 0 /\ run'[r].back = "reconcile"
  BY ExitMoves, GoneMoves DEF ControlInv
<1>2. clock \in Nat
  BY Readings
<1> QED
  BY <1>1, <1>2
     DEF RunnerOK, ThreadOK, GuardianOK, OwnOK, Sweeping, Holding, HasOp, Guarded, Working

\* A thread that starts over keeps its grant.
LEMMA LoopControl ==
    ASSUME ControlInv, NEW r \in Runners, NEW pc \in {"reconcile", "recover"},
           Loop(r, pc), guard' = r, clock' = clock, guardian'[r].pc = "off",
           run[r].grant \in Grants
    PROVE  Others(r) /\ RunnerOK(r)'
<1>1. clock \in Nat
  BY Readings
<1>2. pc \in Pcs
  BY DEF Pcs
<1>3. /\ Others(r) /\ run'[r].pc = pc /\ run'[r].grant = run[r].grant
      /\ run'[r].at = NoTime /\ run'[r].since = clock
      /\ run'[r].plan = 0 /\ run'[r].back = "reconcile"
  BY <1>1, <1>2, LoopMoves DEF ControlInv
<1> QED
  BY <1>1, <1>3
     DEF RunnerOK, ThreadOK, GuardianOK, OwnOK, Sweeping, Holding, HasOp, Guarded, Working

\* What is known of the thread that moves.
LEMMA Holder ==
    ASSUME ControlInv, NEW r \in Runners, run[r].pc \notin {"off", "start"}
    PROVE  /\ guard = r
           /\ run[r].pc # "exiting" => run[r].grant \in Grants
           /\ run[r].pc \notin Guarded => guardian[r].pc = "off"
           /\ run[r] \in Thread
BY DEF ControlInv, RunnerOK, ThreadOK, GuardianOK, ThreadTypes, Thread, Holding

\* The start of a runner and its end.
LEMMA ProcessControl ==
    ASSUME ControlInv, NEW r \in Runners,
           \/ TryGuard(r) \/ Leave(r) \/ Crash(r)
           \/ \E grant \in Grants : Launch(r, grant)
    PROVE  /\ Others(r) /\ RunnerOK(r)' /\ ThreadTypes'
           /\ UNCHANGED journalVars
           /\ \A q \in Runners \ {r} : guardian'[q] = guardian[q]
           /\ guard \in {r, NoRunner} \/ guard' = guard
<1>1. CASE TryGuard(r)
  <2>1. /\ run[r].pc = "start" /\ UNCHANGED <<journalVars, storeVars, guardian, owed, crashes>>
        /\ guardian[r].pc = "off" /\ run[r].grant \in Grants
    BY <1>1 DEF TryGuard, At, ControlInv, RunnerOK, GuardianOK, ThreadOK, Guarded
  <2>2. \/ guard = NoRunner /\ guard' = r /\ Loop(r, "reconcile")
        \/ guard' = guard /\ run' = [run EXCEPT ![r] = Off]
    BY <1>1 DEF TryGuard
  <2>3. Others(r) /\ RunnerOK(r)'
    BY <2>1, <2>2, LoopControl, ExitControl DEF journalVars
  <2> QED
    BY <2>1, <2>2, <2>3 DEF ControlInv, ThreadTypes, Others, storeVars
<1>2. CASE Leave(r)
  <2>1. /\ UNCHANGED <<journalVars, storeVars, guardian, owed, crashes>>
        /\ guardian[r].pc = "off" /\ guard = r /\ guard' = NoRunner
        /\ run' = [run EXCEPT ![r] = Off]
    BY <1>2, Holder DEF Leave, At, Guarded
  <2>2. Others(r) /\ RunnerOK(r)'
    BY <2>1, ExitControl DEF journalVars
  <2> QED
    BY <2>1, <2>2 DEF ControlInv, ThreadTypes, Others, storeVars
<1>3. CASE Crash(r)
  <2>1. /\ UNCHANGED <<journalVars, storeVars, owed>>
        /\ guardian' = [guardian EXCEPT ![r] = GuardianOff]
        /\ run' = [run EXCEPT ![r] = Off]
        /\ guard' = IF guard = r THEN NoRunner ELSE guard
        /\ crashes < MaxCrashes /\ crashes' = crashes + 1
    BY <1>3 DEF Crash, Stop
  <2>2. GuardianOff \in GuardianThread /\ GuardianOff.pc = "off"
    BY DEF GuardianOff, GuardianThread, NoTime
  <2>3. /\ guardian' \in [Runners -> GuardianThread] /\ guardian'[r].pc = "off"
        /\ \A q \in Runners \ {r} : guardian'[q] = guardian[q]
    BY <2>1, <2>2 DEF ControlInv, ThreadTypes
  <2>4. Others(r) /\ RunnerOK(r)'
    BY <2>1, <2>3, ExitControl DEF journalVars
  <2>5. crashes' \in 0..MaxCrashes
    BY <2>1, RunnerAssumption DEF ControlInv, ThreadTypes
  <2> QED
    BY <2>1, <2>3, <2>4, <2>5 DEF ControlInv, ThreadTypes, Others, storeVars
<1>4. ASSUME NEW grant \in Grants, Launch(r, grant)
      PROVE  /\ Others(r) /\ RunnerOK(r)' /\ ThreadTypes'
             /\ UNCHANGED journalVars
             /\ \A q \in Runners \ {r} : guardian'[q] = guardian[q]
             /\ guard' = guard
  <2>1. /\ UNCHANGED <<journalVars, storeVars, guard, guardian, crashes>>
        /\ run[r].pc = "off" /\ owed' \subseteq Ops
        /\ run' = [run EXCEPT ![r] = [Off EXCEPT !.pc = "start", !.grant = grant]]
    BY <1>4 DEF Launch, At, ControlInv, ThreadTypes
  <2>2. grant \in SUBSET Kinds /\ "start" \in Pcs /\ clock \in Nat
    BY NameAssumption, Readings DEF Pcs
  <2>3. /\ Others(r) /\ run'[r].pc = "start" /\ run'[r].grant = grant
        /\ run'[r].at = NoTime /\ run'[r].since = 0
        /\ run'[r].plan = 0 /\ run'[r].back = "reconcile"
    <3>1. ThreadTypes
      BY DEF ControlInv
    <3> QED
      BY <2>1, <2>2, <3>1, OffMoves
  <2>4. guardian[r].pc = "off"
    BY <2>1 DEF ControlInv, RunnerOK, GuardianOK, Guarded
  <2>5. RunnerOK(r)'
    BY <2>1, <2>2, <2>3, <2>4
       DEF journalVars, RunnerOK, ThreadOK, GuardianOK, OwnOK, Sweeping, Holding, HasOp, Guarded, Working
  <2> QED
    BY <2>1, <2>3, <2>5 DEF ControlInv, ThreadTypes, Others, storeVars
<1> QED
  BY <1>1, <1>2, <1>3, <1>4

\* A step of the main thread that moves it within the loop.
Moved(r) ==
    /\ Others(r) /\ RunnerOK(r)' /\ ThreadTypes'
    /\ clock' = clock /\ guard = r
    /\ \A q \in Runners \ {r} : guardian'[q] = guardian[q]

\* What a claim does to the table: it fails a batch of lost builds, and leases a
\* record that is not among them.
LEMMA ClaimShape ==
    ASSUME JournalInv, NEW o \in Ops, NEW grant, NEW tok, NEW t \in 0..clock,
           ClaimNext(o, grant, tok, t)
    PROVE  \E lost \in LostBatches(grant, t) :
              /\ MayFailLost(lost, t) /\ lost \subseteq LostProjectExec(t)
              /\ o \in DOMAIN operations \ lost
              /\ o \in OldestClaimable(FailLost(lost, t), grant, t)
              /\ operations[o].updated <= t /\ operations[o].status \in LiveStatus
              /\ DOMAIN operations' = DOMAIN operations
              /\ operations'[o] = ClaimRow(operations[o], tok, t)
              /\ \A x \in lost : operations'[x] = UnknownRow(operations[x], t)
              /\ \A x \in DOMAIN operations \ (lost \cup {o}) :
                    operations'[x] = operations[x]
              /\ UNCHANGED <<intents, tombstones, clock, reserved>>
<1>1. PICK lost \in LostBatches(grant, t) :
        LET ops == FailLost(lost, t)
        IN  /\ MayFailLost(lost, t)
            /\ o \in OldestClaimable(ops, grant, t)
            /\ ops[o].updated <= t
            /\ Write([ops EXCEPT ![o] = ClaimRow(ops[o], tok, t)])
  BY DEF ClaimNext
<1> DEFINE ops == FailLost(lost, t)
<1>2. lost \subseteq LostProjectExec(t)
  BY DEF LostBatches, OldestBatches
<1>3. /\ DOMAIN ops = DOMAIN operations
      /\ \A x \in DOMAIN operations :
            ops[x] = IF x \in lost THEN UnknownRow(operations[x], t) ELSE operations[x]
  BY DEF FailLost
<1>4. o \in DOMAIN ops /\ ops[o].status \in LiveStatus
  BY <1>1 DEF OldestClaimable, Claimable, LiveStatus, LeasedStatus
<1>5. ASSUME o \in lost PROVE FALSE
  <2>1. ops[o] = UnknownRow(operations[o], t) /\ operations[o] \in Row
    BY <1>3, <1>4, <1>5 DEF JournalInv, TypeOK
  <2>2. UnknownRow(operations[o], t).status = "failed"
    BY <2>1 DEF UnknownRow, Row
  <2> QED
    BY <1>4, <2>1, <2>2 DEF LiveStatus
<1>6. ops[o] = operations[o]
  BY <1>3, <1>4, <1>5
<1>7. /\ operations' = [ops EXCEPT ![o] = ClaimRow(operations[o], tok, t)]
      /\ UNCHANGED <<intents, tombstones, clock, reserved>>
  BY <1>1, <1>6 DEF Write
<1>8. /\ MayFailLost(lost, t) /\ o \in OldestClaimable(ops, grant, t)
      /\ operations[o].updated <= t /\ operations[o].status \in LiveStatus
  BY <1>1, <1>4, <1>6
<1>9. DOMAIN operations' = DOMAIN operations /\ operations'[o] = ClaimRow(operations[o], tok, t)
  BY <1>3, <1>4, <1>7
<1>10. \A x \in lost : x \in DOMAIN operations /\ x # o
  BY <1>2, <1>5 DEF LostProjectExec
<1>11. \A x \in lost : operations'[x] = UnknownRow(operations[x], t)
  BY <1>3, <1>7, <1>10
<1>12. \A x \in DOMAIN operations \ (lost \cup {o}) : operations'[x] = operations[x]
  BY <1>3, <1>7
<1> HIDE DEF ops
<1> QED
  BY <1>2, <1>3, <1>4, <1>5, <1>7, <1>8, <1>9, <1>11, <1>12 DEF ops

\* The record a runner claims is then its own.
LEMMA ClaimOwns ==
    ASSUME JournalInv, NEW o \in Ops, NEW grant, NEW tok, NEW t \in 0..clock,
           ClaimNext(o, grant, tok, t)
    PROVE  /\ o \in DOMAIN operations'
           /\ operations'[o].status \in LeasedStatus /\ operations'[o].token = tok
           /\ clock' = clock
<1>1. /\ o \in DOMAIN operations /\ o \in DOMAIN operations'
      /\ operations[o].status \in LiveStatus
      /\ operations'[o] = ClaimRow(operations[o], tok, t)
      /\ clock' = clock
  BY ClaimShape
<1>2. operations[o] \in Row
  BY <1>1 DEF JournalInv, TypeOK
<1> QED
  BY <1>1, <1>2 DEF ClaimRow, Row, LiveStatus, LeasedStatus

\* Reconciling, recovering, expiring, purging and claiming.
LEMMA SweepControl ==
    ASSUME ControlInv, NEW r \in Runners,
           \/ Reconcile(r) \/ Recover(r) \/ Expire(r) \/ PurgeStep(r) \/ Claim(r)
           \/ FinishDecided(r, "recovered", "recover")
           \/ FinishDecided(r, "finish", "reconcile")
    PROVE  Moved(r)
<1>1. /\ run[r].pc \in {"reconcile", "recover", "expired", "purge", "claim",
                        "recovered", "finish"}
      /\ UNCHANGED <<guard, owed, crashes, execs, guardian>>
  BY DEF Reconcile, Recover, Expire, PurgeStep, Claim, FinishDecided, At, Kept, storeVars
<1>2. /\ guard = r /\ run[r].grant \in Grants /\ guardian[r].pc = "off"
      /\ run[r] \in Thread /\ clock \in Nat /\ Fresh(r) \subseteq 0..clock
      /\ Sweeping(r) => run[r].at \in 0..clock
      /\ ThreadTypes /\ ThreadOK(r)
  BY <1>1, Holder, Readings DEF Guarded, ControlInv, RunnerOK
<1>3. ASSUME Others(r), RunnerOK(r)', clock' = clock, stage' \in [Ops -> Stages]
      PROVE  Moved(r)
  BY <1>1, <1>2, <1>3 DEF Moved, ThreadTypes, Others
<1>4. ASSUME Exit(r), clock' = clock, stage' \in [Ops -> Stages]
      PROVE  Moved(r)
  BY <1>1, <1>2, <1>3, <1>4, ExitControl
<1> USE DEF RunnerOK, ThreadOK, GuardianOK, OwnOK, Sweeping, Holding, HasOp, Guarded, Working
<1>5. CASE Reconcile(r)
  <2>1. clock' = clock /\ run[r].pc = "reconcile"
    BY <1>5 DEF Reconcile, At, journalVars
  <2>2. stage' \in [Ops -> Stages]
    BY <1>2, <1>5 DEF Reconcile, SetStage, ThreadTypes, Stages
  <2>3. CASE Exit(r)
    BY <1>4, <2>1, <2>2, <2>3
  <2>4. ASSUME NEW pc \in {"reconcile", "recover"}, GoTo(r, pc)
        PROVE  Moved(r)
    <3>1. pc \in Pcs
      BY DEF Pcs
    <3>2. /\ Others(r) /\ SameFields(run'[r], run[r]) /\ run'[r].pc = pc
          /\ run'[r].at = run[r].at /\ run'[r].ending = run[r].ending
          /\ run'[r].since = clock
      BY <1>2, <2>4, <3>1, GoToMoves
    <3>3. RunnerOK(r)'
      BY <1>1, <1>2, <2>1, <3>2 DEF SameFields
    <3> QED
      BY <1>3, <2>1, <2>2, <3>2, <3>3
  <2> QED
    BY <1>5, <2>3, <2>4 DEF Reconcile
<1>6. CASE Recover(r)
  <2>1. clock' = clock /\ run[r].pc = "recover"
    BY <1>6 DEF Recover, At, journalVars
  <2>2. DOMAIN intents \subseteq Ops
    BY DEF ControlInv, JournalInv, TypeOK
  <2>3. stage' \in [Ops -> Stages]
    BY <1>2, <1>6 DEF Recover, SetStage, ThreadTypes, Stages
  <2>4. CASE Exit(r)
    BY <1>4, <2>1, <2>3, <2>4
  <2>5. ASSUME NEW t \in Fresh(r), Go(r, [run[r] EXCEPT !.pc = "expired", !.at = t])
        PROVE  Moved(r)
    <3> DEFINE f == [run[r] EXCEPT !.pc = "expired", !.at = t]
    <3>1. t \in 0..clock /\ t \in Int /\ "expired" \in Pcs
      BY <1>2 DEF Pcs
    <3>2. /\ f \in Thread /\ f.pc = "expired" /\ f.at = t /\ SameFields(f, run[r])
          /\ f.ending = run[r].ending
      BY <1>2, <3>1 DEF Thread, SameFields
    <3>3. Go(r, f)
      BY <2>5
    <3> HIDE DEF f
    <3>4. /\ Others(r) /\ SameFields(run'[r], f) /\ run'[r].pc = "expired"
          /\ run'[r].at = t /\ run'[r].since = clock
      BY <1>2, <3>2, <3>3, GoMoves
    <3>5. RunnerOK(r)'
      BY <1>1, <1>2, <2>1, <3>1, <3>2, <3>4 DEF SameFields
    <3> QED
      BY <1>3, <2>1, <2>3, <3>4, <3>5
  <2>6. ASSUME NEW o \in Ops, Go(r, [run[r] EXCEPT !.pc = "recovered", !.op = o])
        PROVE  Moved(r)
    <3> DEFINE f == [run[r] EXCEPT !.pc = "recovered", !.op = o]
    <3>1. "recovered" \in Pcs
      BY DEF Pcs
    <3>2. /\ f \in Thread /\ f.pc = "recovered" /\ f.at = run[r].at /\ f.op = o
          /\ f.grant = run[r].grant /\ f.plan = run[r].plan /\ f.back = run[r].back
      BY <1>2, <3>1 DEF Thread
    <3>3. Go(r, f)
      BY <2>6
    <3> HIDE DEF f
    <3>4. /\ Others(r) /\ SameFields(run'[r], f) /\ run'[r].pc = "recovered"
          /\ run'[r].at = run[r].at /\ run'[r].since = clock
      BY <1>2, <3>2, <3>3, GoMoves
    <3>5. RunnerOK(r)'
      BY <1>1, <1>2, <2>1, <3>2, <3>4 DEF SameFields
    <3> QED
      BY <1>3, <2>1, <2>3, <3>4, <3>5
  <2> QED
    BY <1>6, <2>2, <2>4, <2>5, <2>6 DEF Recover, OldestIntents
<1>7. CASE Expire(r)
  <2>1. /\ clock' = clock /\ run[r].pc = "expired" /\ UNCHANGED operations
        /\ stage' \in [Ops -> Stages]
    BY <1>2, <1>7 DEF Expire, At, journalVars, storeVars, ThreadTypes
  <2>2. CASE Exit(r)
    BY <1>4, <2>1, <2>2
  <2>3. CASE GoTo(r, "purge")
    <3>1. "purge" \in Pcs
      BY DEF Pcs
    <3>2. /\ Others(r) /\ SameFields(run'[r], run[r]) /\ run'[r].pc = "purge"
          /\ run'[r].at = run[r].at /\ run'[r].since = clock
      BY <1>2, <2>3, <3>1, GoToMoves
    <3>3. RunnerOK(r)'
      BY <1>1, <1>2, <2>1, <3>2 DEF SameFields
    <3> QED
      BY <1>3, <2>1, <3>2, <3>3
  <2>4. ASSUME NEW o \in NextExpired(run[r].at),
               Go(r, [run[r] EXCEPT !.pc = "cleanup", !.op = o, !.ending = "deadline",
                                    !.back = "expired"])
        PROVE  Moved(r)
    <3> DEFINE f == [run[r] EXCEPT !.pc = "cleanup", !.op = o, !.ending = "deadline",
                                    !.back = "expired"]
    <3>1. "cleanup" \in Pcs /\ run[r].at \in 0..clock
      BY <1>2, <2>1 DEF Pcs
    <3>2. /\ o \in DOMAIN operations /\ operations[o].deadline <= run[r].at
          /\ o \in Ops /\ operations[o].deadline \in Nat
      BY DEF NextExpired, Overdue, ControlInv, JournalInv, TypeOK, Row
    <3>3. operations[o].deadline <= clock
      BY <1>2, <3>1, <3>2
    <3>4. /\ f \in Thread /\ f.pc = "cleanup" /\ f.at = run[r].at /\ f.op = o
          /\ f.grant = run[r].grant /\ f.plan = run[r].plan /\ f.back = "expired"
          /\ f.ending = "deadline"
      BY <1>2, <3>1, <3>2 DEF Thread
    <3>5. Go(r, f)
      BY <2>4
    <3> HIDE DEF f
    <3>6. /\ Others(r) /\ SameFields(run'[r], f) /\ run'[r].pc = "cleanup"
          /\ run'[r].at = run[r].at /\ run'[r].since = clock /\ run'[r].ending = "deadline"
      BY <1>2, <3>4, <3>5, GoMoves
    <3>7. RunnerOK(r)'
      BY <1>1, <1>2, <2>1, <3>1, <3>2, <3>3, <3>4, <3>6 DEF SameFields, Op, Rec
    <3> QED
      BY <1>3, <2>1, <3>6, <3>7
  <2> QED
    BY <1>7, <2>2, <2>3, <2>4 DEF Expire
<1>8. CASE PurgeStep(r)
  <2>1. /\ clock' = clock /\ run[r].pc = "purge" /\ stage' \in [Ops -> Stages]
        /\ GoTo(r, "claim") /\ "claim" \in Pcs
    BY <1>2, <1>8, PurgeShape DEF PurgeStep, At, storeVars, ThreadTypes, Pcs
  <2>2. /\ Others(r) /\ SameFields(run'[r], run[r]) /\ run'[r].pc = "claim"
        /\ run'[r].at = run[r].at /\ run'[r].since = clock
    BY <1>2, <2>1, GoToMoves
  <2>3. RunnerOK(r)'
    BY <1>1, <1>2, <2>1, <2>2 DEF SameFields
  <2> QED
    BY <1>3, <2>1, <2>2, <2>3
<1>9. CASE Claim(r)
  <2>1. run[r].pc = "claim" /\ stage' \in [Ops -> Stages]
    BY <1>2, <1>9 DEF Claim, At, storeVars, ThreadTypes
  <2>2. CASE Exit(r)
    <3>1. clock' = clock
      BY <1>9, ClaimOwns, <1>2, <2>1 DEF Claim, ClaimNone, Write, journalVars, ControlInv
    <3> QED
      BY <1>4, <2>1, <2>2, <3>1
  <2>3. ASSUME NEW o \in Ops, ClaimNext(o, run[r].grant, r, run[r].at),
               Go(r, [run[r] EXCEPT !.pc = "guardian", !.op = o, !.at = NoTime])
        PROVE  Moved(r)
    <3> DEFINE f == [run[r] EXCEPT !.pc = "guardian", !.op = o, !.at = NoTime]
    <3>1. "guardian" \in Pcs /\ NoTime \in Int
      BY DEF Pcs, NoTime
    <3>2. /\ o \in DOMAIN operations' /\ clock' = clock
          /\ operations'[o].status \in LeasedStatus /\ operations'[o].token = r
      BY <1>2, <2>1, <2>3, ClaimOwns DEF ControlInv
    <3>3. /\ f \in Thread /\ f.pc = "guardian" /\ f.at = NoTime /\ f.op = o
          /\ f.grant = run[r].grant /\ f.plan = run[r].plan /\ f.back = run[r].back
      BY <1>2, <3>1 DEF Thread
    <3>4. Go(r, f)
      BY <2>3
    <3> HIDE DEF f
    <3>5. /\ Others(r) /\ SameFields(run'[r], f) /\ run'[r].pc = "guardian"
          /\ run'[r].at = NoTime /\ run'[r].since = clock
      BY <1>2, <3>3, <3>4, GoMoves
    <3>6. RunnerOK(r)'
      BY <1>1, <1>2, <2>1, <3>2, <3>3, <3>5 DEF SameFields, Op, Rec
    <3> QED
      BY <1>3, <2>1, <3>2, <3>5, <3>6
  <2> QED
    BY <1>9, <2>2, <2>3 DEF Claim
<1>10. CASE FinishDecided(r, "recovered", "recover") \/ FinishDecided(r, "finish", "reconcile")
  <2>1. clock' = clock /\ stage' \in [Ops -> Stages]
    BY <1>2, <1>10 DEF FinishDecided, FinishCompletionIntent, journalVars, storeVars, ThreadTypes
  <2>2. CASE Exit(r)
    BY <1>4, <2>1, <2>2
  <2>3. ASSUME NEW pc \in {"recover", "reconcile"}, Loop(r, pc)
        PROVE  Moved(r)
    BY <1>1, <1>2, <1>3, <2>1, <2>3, LoopControl
  <2> QED
    BY <1>10, <2>2, <2>3 DEF FinishDecided
<1> QED
  BY <1>5, <1>6, <1>7, <1>8, <1>9, <1>10

\* The calls a holder makes while it works change neither the lease's owner nor
\* the status of its record, nor any other record.
LEMMA HolderWrites ==
    ASSUME JournalInv, NEW o \in Ops, NEW tok, NEW t,
           \/ RenewLease(o, tok, t)
           \/ \E done, total : UpdateProgress(o, tok, done, total, t)
           \/ CommitCompletionIntent(o, tok, t)
    PROVE  /\ o \in DOMAIN operations /\ DOMAIN operations' = DOMAIN operations
           /\ operations'[o].status = operations[o].status
           /\ operations'[o].token = operations[o].token
           /\ operations'[o].kind = operations[o].kind
           /\ operations'[o].deadline = operations[o].deadline
           /\ operations'[o].claimed = operations[o].claimed
           /\ \A x \in DOMAIN operations \ {o} : operations'[x] = operations[x]
           /\ clock' = clock
<1>1. o \in DOMAIN operations
  BY DEF RenewLease, UpdateProgress, CommitCompletionIntent, HeldBy, Loadable
<1>2. operations[o] \in Row
  BY <1>1 DEF JournalInv, TypeOK
<1>3. CASE RenewLease(o, tok, t)
  BY <1>1, <1>2, <1>3 DEF RenewLease, Update, Write, RenewRow, Row
<1>4. ASSUME NEW done, NEW total, UpdateProgress(o, tok, done, total, t)
      PROVE  /\ DOMAIN operations' = DOMAIN operations
             /\ operations'[o].status = operations[o].status
             /\ operations'[o].token = operations[o].token
             /\ operations'[o].kind = operations[o].kind
             /\ operations'[o].deadline = operations[o].deadline
             /\ operations'[o].claimed = operations[o].claimed
             /\ \A x \in DOMAIN operations \ {o} : operations'[x] = operations[x]
             /\ clock' = clock
  BY <1>1, <1>2, <1>4 DEF UpdateProgress, Update, Write, ProgressRow, Row
<1>5. CASE CommitCompletionIntent(o, tok, t)
  BY <1>1, <1>2, <1>5 DEF CommitCompletionIntent, DecideRow, Row
<1> QED
  BY <1>1, <1>3, <1>4, <1>5

\* What is known of a thread with work in its hands.
LEMMA Worker ==
    ASSUME ControlInv, NEW r \in Runners, run[r].pc \in Working \cup {"guardian"}
    PROVE  /\ guard = r /\ run[r].grant \in Grants /\ run[r] \in Thread
           /\ clock \in Nat /\ Fresh(r) \subseteq 0..clock
           /\ ThreadTypes /\ ThreadOK(r) /\ GuardianOK(r) /\ OwnOK(r)
           /\ Op(r) \in DOMAIN operations /\ Op(r) \in Ops
           /\ Rec(r).deadline \in Nat /\ NoTime \in Int
           /\ run[r].back = "reconcile"
<1>1. run[r].pc \notin {"off", "start", "exiting"}
  BY DEF Working
<1>2. run[r].back \in {"reconcile", "expired"} /\ ThreadOK(r) /\ GuardianOK(r) /\ OwnOK(r)
  BY DEF ControlInv, RunnerOK, ThreadTypes, Thread
<1>3. Op(r) \in DOMAIN operations /\ Op(r) \in Ops /\ Rec(r).deadline \in Nat
  BY <1>2 DEF OwnOK, ControlInv, JournalInv, TypeOK, Row, Rec
<1>4. run[r].back = "reconcile"
  BY <1>2 DEF ThreadOK, Working
<1> QED
  BY <1>1, <1>2, <1>3, <1>4, Holder, Readings DEF ControlInv, NoTime

\* A working thread that goes to another step of its work.
LEMMA WorkMoves ==
    ASSUME ControlInv, NEW r \in Runners, run[r].pc \in Working \cup {"guardian"},
           NEW pc \in Working, NEW f \in Thread, Go(r, f),
           f.pc = pc, f.op = run[r].op, f.grant = run[r].grant, f.back = run[r].back,
           f.at = NoTime \/ f.at \in 0..clock, pc = "commit" => f.at \in 0..clock,
           f.plan \in Totals \cup {0},
           guard' = guard, clock' = clock,
           guardian'[r].pc # "off" => pc \in Guarded,
           guardian'[r].pc = "sampled" => guardian'[r].at \in 0..clock,
           Op(r) \in DOMAIN operations',
           operations'[Op(r)].status \in LeasedStatus, operations'[Op(r)].token = r,
           pc = "join" /\ f.check = "deadline" => operations'[Op(r)].deadline <= clock,
           pc \in Guarded /\ guardian'[r].exit = "deadline"
              => operations'[Op(r)].deadline <= clock
    PROVE  Others(r) /\ RunnerOK(r)'
<1>1. /\ guard = r /\ run[r].grant \in Grants /\ clock \in Nat /\ ThreadTypes
      /\ run[r].back = "reconcile" /\ Op(r) \in Ops
  BY Worker
<1>2. /\ Others(r) /\ SameFields(run'[r], f)
      /\ run'[r].pc = pc /\ run'[r].at = f.at /\ run'[r].since = clock
  BY <1>1, GoMoves
<1>3. pc \in Working
  OBVIOUS
<1>4. ThreadOK(r)'
  BY <1>1, <1>2, <1>3 DEF ThreadOK, Sweeping, Holding, HasOp, Working, SameFields, Op
<1>5. GuardianOK(r)'
  BY <1>2 DEF GuardianOK
<1>6. OwnOK(r)'
  BY <1>1, <1>2, <1>3 DEF OwnOK, Working, SameFields, Op, Rec
<1> QED
  BY <1>2, <1>4, <1>5, <1>6 DEF RunnerOK

\* A working thread that ends its work.
LEMMA EndControl ==
    ASSUME ControlInv, NEW r \in Runners, run[r].pc \in Working \cup {"guardian"},
           NEW ending \in {"deadline", "failed", "cancelled"}, NEW at, End(r, ending, at),
           at = NoTime \/ at \in 0..clock, guard' = guard, clock' = clock,
           guardian'[r].pc = "off",
           Op(r) \in DOMAIN operations',
           ending = "deadline" => operations'[Op(r)].deadline <= clock
    PROVE  Others(r) /\ RunnerOK(r)'
<1>1. /\ guard = r /\ run[r].grant \in Grants /\ clock \in Nat /\ ThreadTypes
      /\ run[r].back = "reconcile" /\ Op(r) \in Ops /\ ThreadOK(r)
  BY Worker
<1>2. at \in Int
  BY <1>1 DEF NoTime
<1>3. /\ Others(r) /\ SameFields(run'[r], run[r])
      /\ run'[r].pc = "cleanup" /\ run'[r].at = at
      /\ run'[r].ending = ending /\ run'[r].since = clock
  BY <1>1, <1>2, EndMoves
<1> QED
  BY <1>1, <1>3
     DEF RunnerOK, ThreadOK, GuardianOK, OwnOK, Sweeping, Holding, HasOp, Guarded, Working,
         SameFields, Op, Rec

\* The end of the dispatch.
LEMMA DispatchedControl ==
    ASSUME ControlInv, NEW r \in Runners, run[r].pc \in Guarded,
           NEW outcome \in Outcomes, Dispatched(r, outcome),
           guard' = guard, clock' = clock, guardian' = guardian, operations' = operations
    PROVE  Others(r) /\ RunnerOK(r)'
<1>1. run[r].pc \in Working /\ "final" \in Working /\ "final" \in Pcs /\ "final" \in Guarded
  BY DEF Guarded, Working, Pcs
<1>2. /\ run[r] \in Thread /\ ThreadOK(r) /\ GuardianOK(r) /\ OwnOK(r) /\ clock \in Nat
  BY <1>1, Worker
<1> DEFINE f == [run[r] EXCEPT !.pc = "final", !.outcome = outcome]
<1>3. /\ f \in Thread /\ f.pc = "final" /\ f.op = run[r].op /\ f.grant = run[r].grant
      /\ f.back = run[r].back /\ f.at = run[r].at /\ f.plan = run[r].plan
  BY <1>1, <1>2 DEF Thread
<1>4. Go(r, f)
  BY DEF Dispatched
<1> HIDE DEF f
<1>5. /\ f.at = NoTime \/ f.at \in 0..clock
      /\ f.plan \in Totals \cup {0}
      /\ guardian'[r].pc = "sampled" => guardian'[r].at \in 0..clock
      /\ Op(r) \in DOMAIN operations'
      /\ operations'[Op(r)].status \in LeasedStatus /\ operations'[Op(r)].token = r
      /\ guardian'[r].exit = "deadline" => operations'[Op(r)].deadline <= clock
  BY <1>1, <1>2, <1>3 DEF ThreadOK, GuardianOK, OwnOK, Rec
<1> QED
  BY <1>1, <1>3, <1>4, <1>5, WorkMoves

\* The steps of the dispatch.
LEMMA DispatchControl ==
    ASSUME ControlInv, NEW r \in Runners,
           FirstCheck(r) \/ Dispatch(r) \/ ReportProgress(r) \/ ForceCancel(r)
              \/ EndWork(r) \/ FinalCheck(r)
    PROVE  Moved(r)
<1>1. /\ run[r].pc \in {"check", "dispatch", "work", "final"}
      /\ UNCHANGED <<guard, owed, crashes, guardian>>
  BY DEF FirstCheck, Dispatch, ReportProgress, ForceCancel, EndWork, FinalCheck, At, Kept
<1>2. run[r].pc \in Working /\ run[r].pc \in Guarded
  BY <1>1 DEF Working, Guarded
<1>3. /\ guard = r /\ run[r] \in Thread /\ ThreadTypes /\ clock \in Nat
      /\ Fresh(r) \subseteq 0..clock
      /\ ThreadOK(r) /\ GuardianOK(r) /\ OwnOK(r)
      /\ Op(r) \in DOMAIN operations /\ Op(r) \in Ops
  BY <1>2, Worker
<1>4. /\ run[r].at = NoTime \/ run[r].at \in 0..clock
      /\ run[r].plan \in Totals \cup {0}
      /\ guardian[r].pc = "sampled" => guardian[r].at \in 0..clock
      /\ operations[Op(r)].status \in LeasedStatus /\ operations[Op(r)].token = r
      /\ operations[Op(r)].deadline \in Nat
      /\ guardian[r].exit = "deadline" => operations[Op(r)].deadline <= clock
  BY <1>2, <1>3, Worker DEF ThreadOK, GuardianOK, OwnOK, Rec
<1>5. ASSUME Others(r), RunnerOK(r)', clock' = clock, stage' \in [Ops -> Stages],
             execs' \in [Ops -> Nat]
      PROVE  Moved(r)
  BY <1>1, <1>3, <1>5 DEF Moved, ThreadTypes, Others
<1>6. ASSUME NEW outcome \in Outcomes, Dispatched(r, outcome), UNCHANGED journalVars,
             stage' \in [Ops -> Stages], execs' \in [Ops -> Nat]
      PROVE  Moved(r)
  BY <1>1, <1>2, <1>5, <1>6, DispatchedControl DEF journalVars
<1>7. ASSUME NEW pc \in Guarded \ {"join"}, GoTo(r, pc), UNCHANGED journalVars,
             stage' \in [Ops -> Stages], execs' \in [Ops -> Nat]
      PROVE  Moved(r)
  <2> DEFINE f == [run[r] EXCEPT !.pc = pc]
  <2>1. pc \in Pcs /\ pc \in Working /\ pc \notin {"commit", "join"}
    BY DEF Guarded, Pcs, Working
  <2>2. /\ f \in Thread /\ f.pc = pc /\ f.op = run[r].op /\ f.grant = run[r].grant
        /\ f.back = run[r].back /\ f.at = run[r].at /\ f.plan = run[r].plan
    BY <1>3, <2>1 DEF Thread
  <2>3. Go(r, f)
    BY <1>7 DEF GoTo
  <2> HIDE DEF f
  <2>4. Others(r) /\ RunnerOK(r)'
    BY <1>1, <1>2, <1>3, <1>4, <1>7, <2>1, <2>2, <2>3, WorkMoves DEF journalVars
  <2> QED
    BY <1>5, <1>7, <2>4 DEF journalVars
<1>8. ASSUME NEW c \in Checkpoints, Go(r, [run[r] EXCEPT !.pc = "join", !.check = c]),
             UNCHANGED journalVars, stage' \in [Ops -> Stages], execs' \in [Ops -> Nat],
             c = "deadline" => operations[Op(r)].deadline <= clock
      PROVE  Moved(r)
  <2> DEFINE f == [run[r] EXCEPT !.pc = "join", !.check = c]
  <2>1. "join" \in Pcs /\ "join" \in Working /\ "join" \in Guarded
    BY DEF Guarded, Pcs, Working
  <2>2. /\ f \in Thread /\ f.pc = "join" /\ f.op = run[r].op /\ f.grant = run[r].grant
        /\ f.back = run[r].back /\ f.at = run[r].at /\ f.plan = run[r].plan
        /\ f.check = c
    BY <1>3, <1>8, <2>1 DEF Thread
  <2>3. Go(r, f)
    BY <1>8
  <2> HIDE DEF f
  <2>4. Others(r) /\ RunnerOK(r)'
    BY <1>1, <1>2, <1>3, <1>4, <1>8, <2>1, <2>2, <2>3, WorkMoves DEF journalVars
  <2> QED
    BY <1>5, <1>8, <2>4 DEF journalVars
<1>9. \A t \in Fresh(r) :
        /\ Checkpoint(r, t) \in Checkpoints
        /\ Checkpoint(r, t) = "deadline" => operations[Op(r)].deadline <= clock
  BY <1>3, <1>4 DEF Checkpoint, Checkpoints, Rec
<1>10. stage \in [Ops -> Stages] /\ execs \in [Ops -> Nat]
  BY <1>3 DEF ThreadTypes
<1>11. CASE FirstCheck(r)
  <2>1. UNCHANGED <<journalVars, stage, execs>>
    BY <1>11 DEF FirstCheck, storeVars
  <2>2. PICK t \in Fresh(r) :
          \/ GoTo(r, "dispatch")
          \/ Dispatched(r, "cancelled")
          \/ Go(r, [run[r] EXCEPT !.pc = "join", !.check = Checkpoint(r, t)])
    BY <1>11 DEF FirstCheck
  <2>3. "cancelled" \in Outcomes /\ "dispatch" \in Guarded \ {"join"}
    BY DEF Outcomes, Guarded
  <2> QED
    BY <1>6, <1>7, <1>8, <1>9, <1>10, <2>1, <2>2, <2>3
<1>12. CASE Dispatch(r)
  <2>1. UNCHANGED journalVars
    BY <1>12 DEF Dispatch
  <2>2. /\ \/ Dispatched(r, "failed") \/ GoTo(r, "work") \/ Dispatched(r, "cancelled")
        /\ stage' \in [Ops -> Stages] /\ execs' \in [Ops -> Nat]
    BY <1>3, <1>10, <1>12 DEF Dispatch, StartScan, StartBuild, RunProject, SetStage, storeVars, Stages
  <2>3. "cancelled" \in Outcomes /\ "failed" \in Outcomes /\ "work" \in Guarded \ {"join"}
    BY DEF Outcomes, Guarded
  <2> QED
    BY <1>6, <1>7, <2>1, <2>2, <2>3
<1>13. CASE ReportProgress(r)
  <2>1. stage' = stage /\ execs' = execs
    BY <1>13 DEF ReportProgress, storeVars
  <2>2. PICK t \in Fresh(r), p \in Reports(r) :
          /\ UpdateProgress(Op(r), r, p[1], p[2], t)
          /\ Go(r, [run[r] EXCEPT !.plan = p[2]])
    BY <1>13 DEF ReportProgress
  <2>3. p[2] \in Totals
    BY <1>4, <2>2 DEF Reports
  <2> DEFINE f == [run[r] EXCEPT !.plan = p[2]]
  <2>4. /\ f \in Thread /\ f.pc = run[r].pc /\ f.op = run[r].op /\ f.grant = run[r].grant
        /\ f.back = run[r].back /\ f.at = run[r].at /\ f.plan = p[2]
    BY <1>3, <2>3, TimeAssumption DEF Thread
  <2>5. Go(r, f)
    BY <2>2
  <2> HIDE DEF f
  <2>6. /\ Op(r) \in DOMAIN operations' /\ clock' = clock
        /\ operations'[Op(r)].status = operations[Op(r)].status
        /\ operations'[Op(r)].token = operations[Op(r)].token
        /\ operations'[Op(r)].deadline = operations[Op(r)].deadline
    BY <1>3, <2>2, HolderWrites DEF ControlInv
  <2>7. run[r].pc = "work"
    BY <1>13 DEF ReportProgress, At
  <2>8. Others(r) /\ RunnerOK(r)'
    BY <1>1, <1>2, <1>3, <1>4, <2>3, <2>4, <2>5, <2>6, <2>7, WorkMoves
  <2> QED
    BY <1>5, <1>10, <2>1, <2>6, <2>8
<1>14. CASE ForceCancel(r)
  <2>1. UNCHANGED <<journalVars, execs>>
    BY <1>14 DEF ForceCancel
  <2>2. /\ Dispatched(r, "cancelled") \/ Dispatched(r, "cancel_pending")
        /\ stage' \in [Ops -> Stages]
    BY <1>3, <1>10, <1>14 DEF ForceCancel, SetStage, Stages
  <2>3. "cancelled" \in Outcomes /\ "cancel_pending" \in Outcomes
    BY DEF Outcomes
  <2> QED
    BY <1>6, <1>10, <2>1, <2>2, <2>3
<1>15. CASE EndWork(r)
  <2>1. UNCHANGED <<journalVars, execs>>
    BY <1>15 DEF EndWork
  <2>2. /\ \E outcome \in Outcomes : Dispatched(r, outcome)
        /\ stage' \in [Ops -> Stages]
    BY <1>3, <1>10, <1>15 DEF EndWork, EndScan, EndBuild, SetStage, Stages, Outcomes
  <2> QED
    BY <1>6, <1>10, <2>1, <2>2
<1>16. CASE FinalCheck(r)
  <2>1. UNCHANGED <<journalVars, stage, execs>>
    BY <1>16 DEF FinalCheck, storeVars
  <2> QED
    BY <1>8, <1>9, <1>10, <1>16, <2>1 DEF FinalCheck
<1> QED
  BY <1>11, <1>12, <1>13, <1>14, <1>15, <1>16

\* The guardian that is not running.
LEMMA GuardianOffTyped ==
    /\ GuardianOff \in GuardianThread /\ GuardianOff.pc = "off"
    /\ GuardianOff.exit = "none"
BY DEF GuardianOff, GuardianThread, NoTime

\* The guardian's first renewal.
LEMMA StartGuardianControl ==
    ASSUME ControlInv, NEW r \in Runners, StartGuardian(r)
    PROVE  Moved(r)
<1>1. /\ run[r].pc = "guardian" /\ UNCHANGED <<guard, owed, crashes, stage, execs>>
  BY DEF StartGuardian, At, Kept, storeVars
<1>2. /\ guard = r /\ run[r] \in Thread /\ ThreadTypes /\ clock \in Nat
      /\ Fresh(r) \subseteq 0..clock /\ run[r].grant \in Grants
      /\ ThreadOK(r) /\ GuardianOK(r) /\ OwnOK(r) /\ Rec(r).deadline \in Nat
      /\ Op(r) \in DOMAIN operations /\ Op(r) \in Ops
      /\ NoTime \in Int
  BY <1>1, Worker
<1>3. guardian[r].pc = "off"
  BY <1>1, <1>2 DEF GuardianOK, Guarded
<1>4. ASSUME Others(r), RunnerOK(r)', clock' = clock,
             guardian' \in [Runners -> GuardianThread],
             \A q \in Runners \ {r} : guardian'[q] = guardian[q]
      PROVE  Moved(r)
  BY <1>1, <1>2, <1>4 DEF Moved, ThreadTypes, Others
<1>5. guardian \in [Runners -> GuardianThread]
  BY <1>2 DEF ThreadTypes
<1>6. PICK t \in Fresh(r) :
              \/ /\ Rec(r).deadline <= t
                 /\ End(r, "deadline", NoTime)
                 /\ UNCHANGED <<journalVars, guardian>>
              \/ /\ Exit(r) \/ Loop(r, "reconcile")
                 /\ UNCHANGED <<journalVars, guardian>>
              \/ /\ RenewLease(Op(r), r, t)
                 /\ \E u \in t..clock : End(r, "cancelled", u)
                 /\ UNCHANGED guardian
              \/ /\ RenewLease(Op(r), r, t)
                 /\ GoTo(r, "check")
                 /\ guardian' = [guardian EXCEPT ![r] =
                       [GuardianOff EXCEPT !.pc = "idle", !.exp = LeaseUntil(Rec(r), t)]]
  BY DEF StartGuardian
<1>7. CASE Rec(r).deadline <= t /\ End(r, "deadline", NoTime) /\ UNCHANGED <<journalVars, guardian>>
  <2>1. Rec(r).deadline <= clock
    BY <1>2, <1>7
  <2>2. Others(r) /\ RunnerOK(r)'
    BY <1>1, <1>2, <1>3, <1>7, <2>1, EndControl DEF journalVars, Rec
  <2> QED
    BY <1>4, <1>5, <1>7, <2>2 DEF journalVars
<1>8. CASE (Exit(r) \/ Loop(r, "reconcile")) /\ UNCHANGED <<journalVars, guardian>>
  BY <1>1, <1>2, <1>3, <1>4, <1>5, <1>8, ExitControl, LoopControl DEF journalVars
<1>9. ASSUME RenewLease(Op(r), r, t)
      PROVE  /\ Op(r) \in DOMAIN operations' /\ clock' = clock
             /\ operations'[Op(r)].status \in LeasedStatus /\ operations'[Op(r)].token = r
  BY <1>1, <1>2, <1>9, HolderWrites DEF ControlInv, OwnOK, Rec
<1>10. ASSUME RenewLease(Op(r), r, t), NEW u \in t..clock, End(r, "cancelled", u),
              UNCHANGED guardian
       PROVE  Moved(r)
  <2>1. u \in 0..clock
    BY <1>2, <1>6, <1>10
  <2>2. Others(r) /\ RunnerOK(r)'
    BY <1>1, <1>2, <1>3, <1>9, <1>10, <2>1, EndControl
  <2> QED
    BY <1>4, <1>5, <1>9, <1>10, <2>2
<1>11. CASE /\ RenewLease(Op(r), r, t)
            /\ GoTo(r, "check")
            /\ guardian' = [guardian EXCEPT ![r] =
                  [GuardianOff EXCEPT !.pc = "idle", !.exp = LeaseUntil(Rec(r), t)]]
  <2> DEFINE g == [GuardianOff EXCEPT !.pc = "idle", !.exp = LeaseUntil(Rec(r), t)]
             f == [run[r] EXCEPT !.pc = "check"]
  <2>1. LeaseUntil(Rec(r), t) \in Int
    BY <1>2, TimeAssumption DEF LeaseUntil, Earlier
  <2>2. g \in GuardianThread /\ g.pc = "idle" /\ g.exit = "none"
    BY <2>1, GuardianOffTyped DEF GuardianThread
  <2>3. guardian' = [guardian EXCEPT ![r] = g]
    BY <1>11
  <2>4. "check" \in Pcs /\ "check" \in Working /\ "check" \in Guarded
    BY DEF Pcs, Working, Guarded
  <2>5. /\ f \in Thread /\ f.pc = "check" /\ f.op = run[r].op /\ f.grant = run[r].grant
        /\ f.back = run[r].back /\ f.at = run[r].at /\ f.plan = run[r].plan
    BY <1>2, <2>4 DEF Thread
  <2>6. Go(r, f)
    BY <1>11 DEF GoTo
  <2> HIDE DEF f, g
  <2>7. /\ guardian' \in [Runners -> GuardianThread]
        /\ guardian'[r].pc = "idle" /\ guardian'[r].exit = "none"
        /\ \A q \in Runners \ {r} : guardian'[q] = guardian[q]
    BY <1>5, <2>2, <2>3
  <2>8. /\ f.at = NoTime \/ f.at \in 0..clock
        /\ f.plan \in Totals \cup {0}
    BY <1>2, <2>5 DEF ThreadOK
  <2>9. Others(r) /\ RunnerOK(r)'
    BY <1>1, <1>2, <1>9, <1>11, <2>4, <2>5, <2>6, <2>7, <2>8, WorkMoves
  <2> QED
    BY <1>4, <1>9, <1>11, <2>7, <2>9
<1> QED
  BY <1>6, <1>7, <1>8, <1>10, <1>11

\* Joining the guardian, deciding, committing and promoting.
LEMMA DecideControl ==
    ASSUME ControlInv, NEW r \in Runners,
           Join(r) \/ Decide(r) \/ Commit(r) \/ Promote(r)
    PROVE  Moved(r)
<1>1. /\ run[r].pc \in {"join", "decide", "commit", "promote"}
      /\ UNCHANGED <<guard, owed, crashes, execs>>
  BY DEF Join, Decide, Commit, Promote, At, Kept, storeVars
<1>2. run[r].pc \in Working
  BY <1>1 DEF Working
<1>3. /\ guard = r /\ run[r] \in Thread /\ ThreadTypes /\ clock \in Nat
      /\ Fresh(r) \subseteq 0..clock /\ run[r].grant \in Grants
      /\ ThreadOK(r) /\ GuardianOK(r) /\ OwnOK(r) /\ Rec(r).deadline \in Nat
      /\ Op(r) \in DOMAIN operations /\ Op(r) \in Ops
      /\ NoTime \in Int
  BY <1>2, Worker
<1>4. /\ run[r].at = NoTime \/ run[r].at \in 0..clock
      /\ run[r].plan \in Totals \cup {0}
      /\ operations[Op(r)].status \in LeasedStatus /\ operations[Op(r)].token = r
  BY <1>2, <1>3 DEF ThreadOK, GuardianOK, OwnOK, Rec
<1>5. /\ guardian' \in [Runners -> GuardianThread] /\ guardian'[r].pc = "off"
      /\ \A q \in Runners \ {r} : guardian'[q] = guardian[q]
  <2>1. CASE Join(r)
    BY <1>3, <2>1, GuardianOffTyped DEF Join, Stop, ThreadTypes
  <2>2. CASE Decide(r) \/ Commit(r) \/ Promote(r)
    BY <1>3, <2>2 DEF Decide, Commit, Promote, At, GuardianOK, Guarded, ThreadTypes
  <2> QED
    BY <2>1, <2>2
<1>6. ASSUME Others(r), RunnerOK(r)', clock' = clock, stage' \in [Ops -> Stages]
      PROVE  Moved(r)
  BY <1>1, <1>3, <1>5, <1>6 DEF Moved, ThreadTypes, Others
<1>7. ASSUME Exit(r) \/ Loop(r, "reconcile"), clock' = clock, stage' \in [Ops -> Stages]
      PROVE  Moved(r)
  BY <1>1, <1>3, <1>5, <1>6, <1>7, ExitControl, LoopControl
<1>8. ASSUME NEW ending \in {"deadline", "failed", "cancelled"}, NEW at,
             End(r, ending, at), at = NoTime \/ at \in 0..clock,
             ending = "deadline" => Rec(r).deadline <= clock,
             UNCHANGED journalVars, stage' \in [Ops -> Stages]
      PROVE  Moved(r)
  <2>1. Others(r) /\ RunnerOK(r)'
    BY <1>1, <1>2, <1>3, <1>5, <1>8, EndControl DEF journalVars, Rec
  <2> QED
    BY <1>6, <1>8, <2>1 DEF journalVars
<1>9. ASSUME NEW pc \in {"decide", "promote", "finish"}, GoTo(r, pc),
             clock' = clock, stage' \in [Ops -> Stages],
             Op(r) \in DOMAIN operations',
             operations'[Op(r)].status \in LeasedStatus, operations'[Op(r)].token = r
      PROVE  Moved(r)
  <2> DEFINE f == [run[r] EXCEPT !.pc = pc]
  <2>1. pc \in Pcs /\ pc \in Working /\ pc \notin {"commit", "join"} /\ pc \notin Guarded
    BY DEF Guarded, Pcs, Working
  <2>2. /\ f \in Thread /\ f.pc = pc /\ f.op = run[r].op /\ f.grant = run[r].grant
        /\ f.back = run[r].back /\ f.at = run[r].at /\ f.plan = run[r].plan
    BY <1>3, <2>1 DEF Thread
  <2>3. Go(r, f)
    BY <1>9 DEF GoTo
  <2> HIDE DEF f
  <2>4. Others(r) /\ RunnerOK(r)'
    BY <1>1, <1>2, <1>3, <1>4, <1>5, <1>9, <2>1, <2>2, <2>3, WorkMoves
  <2> QED
    BY <1>6, <1>9, <2>4
<1>10. stage \in [Ops -> Stages]
  BY <1>3 DEF ThreadTypes
<1>11. CASE Join(r)
  <2>1. UNCHANGED journalVars /\ run[r].pc = "join"
    BY <1>11 DEF Join, At
  <2>2. stage' \in [Ops -> Stages]
    BY <1>3, <1>10, <1>11 DEF Join, SetStage, Stages
  <2>3. \/ Exit(r) \/ Loop(r, "reconcile")
        \/ \E t \in Fresh(r) : End(r, "cancelled", t)
        \/ /\ End(r, "deadline", NoTime)
           /\ "deadline" \in {guardian[r].exit, run[r].check}
        \/ GoTo(r, "decide")
    BY <1>11 DEF Join
  <2>4. "deadline" \in {guardian[r].exit, run[r].check} => Rec(r).deadline <= clock
    BY <1>3, <2>1 DEF OwnOK, Guarded
  <2> QED
    BY <1>3, <1>4, <1>7, <1>8, <1>9, <2>1, <2>2, <2>3, <2>4 DEF journalVars
<1>12. CASE Decide(r)
  <2>1. stage' \in [Ops -> Stages] /\ clock' = clock
    BY <1>10, <1>12 DEF Decide, storeVars, Finish, Update, Write, journalVars
  <2>2. PICK t \in Fresh(r) :
          \/ /\ Rec(r).deadline <= t
             /\ End(r, "deadline", NoTime)
             /\ UNCHANGED journalVars
          \/ Loop(r, "reconcile") \/ Exit(r)
          \/ /\ Go(r, [run[r] EXCEPT !.pc = "commit", !.at = t])
             /\ UNCHANGED journalVars
          \/ End(r, "failed", t) /\ UNCHANGED journalVars
          \/ End(r, "cancelled", t) /\ UNCHANGED journalVars
    BY <1>12 DEF Decide
  <2>3. t \in 0..clock /\ t \in Int
    BY <1>3
  <2>4. Rec(r).deadline <= t => Rec(r).deadline <= clock
    BY <1>3, <2>3
  <2>5. CASE Go(r, [run[r] EXCEPT !.pc = "commit", !.at = t]) /\ UNCHANGED journalVars
    <3> DEFINE f == [run[r] EXCEPT !.pc = "commit", !.at = t]
    <3>1. "commit" \in Pcs /\ "commit" \in Working /\ "commit" \notin Guarded
      BY DEF Guarded, Pcs, Working
    <3>2. /\ f \in Thread /\ f.pc = "commit" /\ f.op = run[r].op /\ f.grant = run[r].grant
          /\ f.back = run[r].back /\ f.at = t /\ f.plan = run[r].plan
      BY <1>3, <2>3, <3>1 DEF Thread
    <3>3. Go(r, f)
      BY <2>5
    <3> HIDE DEF f
    <3>4. Others(r) /\ RunnerOK(r)'
      BY <1>1, <1>2, <1>3, <1>4, <1>5, <2>3, <2>5, <3>1, <3>2, <3>3, WorkMoves DEF journalVars
    <3> QED
      BY <1>6, <2>1, <3>4
  <2> QED
    BY <1>7, <1>8, <2>1, <2>2, <2>3, <2>4, <2>5
<1>13. CASE Commit(r)
  <2>1. stage' \in [Ops -> Stages]
    BY <1>10, <1>13 DEF Commit, storeVars
  <2>2. \/ CommitCompletionIntent(Op(r), r, run[r].at) /\ GoTo(r, "promote")
        \/ End(r, "cancelled", NoTime) /\ UNCHANGED journalVars
        \/ Exit(r) /\ UNCHANGED journalVars
    BY <1>13 DEF Commit
  <2>3. CASE CommitCompletionIntent(Op(r), r, run[r].at) /\ GoTo(r, "promote")
    <3>1. /\ Op(r) \in DOMAIN operations' /\ clock' = clock
          /\ operations'[Op(r)].status = operations[Op(r)].status
          /\ operations'[Op(r)].token = operations[Op(r)].token
      BY <1>3, <2>3, HolderWrites DEF ControlInv
    <3> QED
      BY <1>4, <1>9, <2>1, <2>3, <3>1
  <2> QED
    BY <1>7, <1>8, <2>1, <2>2, <2>3 DEF journalVars
<1>14. CASE Promote(r)
  <2>1. /\ GoTo(r, "finish") /\ UNCHANGED journalVars
        /\ stage' \in [Ops -> Stages]
    BY <1>3, <1>10, <1>14 DEF Promote, SetStage, Stages
  <2> QED
    BY <1>3, <1>4, <1>9, <2>1 DEF journalVars
<1> QED
  BY <1>11, <1>12, <1>13, <1>14

\* Ending a record.
LEMMA EndingControl ==
    ASSUME ControlInv, NEW r \in Runners,
           Cleanup(r) \/ Terminalize(r) \/ Acknowledge(r)
    PROVE  Moved(r)
<1>1. /\ run[r].pc \in {"cleanup", "terminalize", "ack"}
      /\ UNCHANGED <<guard, owed, crashes, execs, guardian>>
  BY DEF Cleanup, Terminalize, Acknowledge, At, Kept, storeVars
<1>2. /\ guard = r /\ run[r].grant \in Grants /\ guardian[r].pc = "off"
      /\ run[r] \in Thread /\ clock \in Nat /\ ThreadTypes
      /\ ThreadOK(r) /\ OwnOK(r) /\ Op(r) \in Ops
      /\ stage \in [Ops -> Stages]
  BY <1>1, Holder, Readings DEF Guarded, ControlInv, RunnerOK, ThreadTypes, ThreadOK, HasOp, Op
<1>3. ASSUME Others(r), RunnerOK(r)', clock' = clock, stage' \in [Ops -> Stages]
      PROVE  Moved(r)
  BY <1>1, <1>2, <1>3 DEF Moved, ThreadTypes, Others
<1>4. ASSUME Exit(r), clock' = clock, stage' \in [Ops -> Stages]
      PROVE  Moved(r)
  BY <1>1, <1>2, <1>3, <1>4, ExitControl
<1>5. CASE Cleanup(r)
  <2>1. UNCHANGED journalVars /\ run[r].pc = "cleanup"
    BY <1>5 DEF Cleanup, At
  <2>2. stage' \in [Ops -> Stages] /\ (Exit(r) \/ GoTo(r, "terminalize"))
    BY <1>2, <1>5 DEF Cleanup, SetStage, Stages
  <2>3. CASE GoTo(r, "terminalize")
    <3>1. "terminalize" \in Pcs
      BY DEF Pcs
    <3>2. /\ Others(r) /\ SameFields(run'[r], run[r]) /\ run'[r].pc = "terminalize"
          /\ run'[r].at = run[r].at /\ run'[r].ending = run[r].ending
          /\ run'[r].since = clock
      BY <1>2, <2>3, <3>1, GoToMoves
    <3>3. RunnerOK(r)'
      BY <1>1, <1>2, <2>1, <3>2
         DEF journalVars, RunnerOK, ThreadOK, GuardianOK, OwnOK, Sweeping, Holding, HasOp,
             Guarded, Working, SameFields, Op, Rec
    <3> QED
      BY <1>3, <2>1, <2>2, <3>2, <3>3 DEF journalVars
  <2> QED
    BY <1>4, <2>1, <2>2, <2>3 DEF journalVars
<1>6. CASE Terminalize(r)
  <2>1. /\ run[r].pc = "terminalize" /\ stage' \in [Ops -> Stages]
        /\ Exit(r) \/ GoTo(r, "ack")
    BY <1>2, <1>6 DEF Terminalize, At, storeVars
  <2>2. clock' = clock
    BY <1>6 DEF Terminalize, FailDeadline, Finish, Update, Write, journalVars
  <2>3. CASE GoTo(r, "ack")
    <3>1. "ack" \in Pcs
      BY DEF Pcs
    <3>2. /\ Others(r) /\ SameFields(run'[r], run[r]) /\ run'[r].pc = "ack"
          /\ run'[r].at = run[r].at /\ run'[r].ending = run[r].ending
          /\ run'[r].since = clock
      BY <1>2, <2>3, <3>1, GoToMoves
    <3>3. RunnerOK(r)'
      BY <1>1, <1>2, <2>1, <2>2, <3>2
         DEF RunnerOK, ThreadOK, GuardianOK, OwnOK, Sweeping, Holding, HasOp,
             Guarded, Working, SameFields, Op
    <3> QED
      BY <1>3, <2>1, <2>2, <3>2, <3>3
  <2> QED
    BY <1>4, <2>1, <2>2, <2>3
<1>7. CASE Acknowledge(r)
  <2>1. UNCHANGED journalVars /\ run[r].pc = "ack"
    BY <1>7 DEF Acknowledge, At
  <2>2. stage' \in [Ops -> Stages]
    BY <1>2, <1>7 DEF Acknowledge, SetStage, Stages
  <2> DEFINE at == IF run[r].back = "expired" THEN run[r].at ELSE NoTime
             f == [Off EXCEPT !.pc = run[r].back, !.grant = run[r].grant, !.at = at]
  <2>3. /\ run[r].back \in {"reconcile", "expired"} /\ run[r].back \in Pcs
        /\ run[r].grant \in SUBSET Kinds /\ at \in Int
        /\ run[r].back = "expired" => at \in 0..clock
        /\ run[r].back # "expired" => at = NoTime
    BY <1>2, <2>1 DEF Thread, Pcs, ThreadOK, Sweeping, NoTime
  <2> HIDE DEF at
  <2>4. /\ f \in Thread /\ f.pc = run[r].back /\ f.grant = run[r].grant /\ f.at = at
        /\ f.plan = 0 /\ f.back = "reconcile"
    BY <2>3, OffTyped DEF Thread
  <2>5. Go(r, f)
    BY <1>7 DEF Acknowledge, at
  <2> HIDE DEF f
  <2>6. /\ Others(r) /\ SameFields(run'[r], f) /\ run'[r].pc = run[r].back
        /\ run'[r].at = at /\ run'[r].since = clock
    BY <1>2, <2>4, <2>5, GoMoves
  <2>7. RunnerOK(r)'
    BY <1>1, <1>2, <2>1, <2>3, <2>4, <2>6
       DEF journalVars, RunnerOK, ThreadOK, GuardianOK, OwnOK, Sweeping, Holding, HasOp,
           Guarded, Working, SameFields
  <2> QED
    BY <1>3, <2>1, <2>2, <2>6, <2>7 DEF journalVars
<1> QED
  BY <1>5, <1>6, <1>7

\* The guardian's steps leave the main thread and its record in place.
LEMMA GuardianControl ==
    ASSUME ControlInv, NEW r \in Runners, GuardianStep(r)
    PROVE  Moved(r)
<1>1. /\ guardian[r].pc # "off" /\ UNCHANGED <<guard, run, owed, crashes, stage, execs>>
  BY DEF GuardianStep, GuardianSample, GuardianRenew, storeVars
<1>2. run[r].pc \in Guarded /\ run[r].pc \in Working
  BY <1>1 DEF ControlInv, RunnerOK, GuardianOK, Guarded, Working
<1>3. /\ guard = r /\ run[r] \in Thread /\ ThreadTypes /\ clock \in Nat
      /\ ThreadOK(r) /\ GuardianOK(r) /\ OwnOK(r)
      /\ Op(r) \in DOMAIN operations /\ Op(r) \in Ops /\ Rec(r).deadline \in Nat
  BY <1>2, Worker
<1>4. guardian \in [Runners -> GuardianThread] /\ guardian[r] \in GuardianThread
  BY <1>3 DEF ThreadTypes
<1>5. /\ Op(r) \in DOMAIN operations' /\ clock' = clock
      /\ operations'[Op(r)].status \in LeasedStatus /\ operations'[Op(r)].token = r
      /\ operations'[Op(r)].deadline = operations[Op(r)].deadline
  <2>1. UNCHANGED journalVars \/ RenewLease(Op(r), r, guardian[r].at)
    BY DEF GuardianStep, GuardianSample, GuardianRenew
  <2>2. operations[Op(r)].status \in LeasedStatus /\ operations[Op(r)].token = r
    BY <1>2, <1>3 DEF OwnOK, Rec
  <2>3. CASE RenewLease(Op(r), r, guardian[r].at)
    BY <1>3, <2>2, <2>3, HolderWrites DEF ControlInv
  <2> QED
    BY <1>3, <2>1, <2>2, <2>3 DEF journalVars
<1>6. ASSUME NEW g \in GuardianThread, guardian' = [guardian EXCEPT ![r] = g],
             g.pc = "sampled" => g.at \in 0..clock,
             g.exit = "deadline" => Rec(r).deadline <= clock
      PROVE  Moved(r)
  <2>1. /\ guardian' \in [Runners -> GuardianThread] /\ guardian'[r] = g
        /\ \A q \in Runners \ {r} : guardian'[q] = guardian[q]
    BY <1>4, <1>6
  <2>2. Others(r) /\ ThreadOK(r)'
    BY <1>1, <1>3, <1>5 DEF Others, ThreadTypes, ThreadOK, Sweeping
  <2>3. GuardianOK(r)' /\ OwnOK(r)'
    BY <1>1, <1>2, <1>3, <1>5, <1>6, <2>1 DEF GuardianOK, OwnOK, Guarded, Working, Op, Rec
  <2> QED
    BY <1>1, <1>3, <1>5, <2>1, <2>2, <2>3 DEF Moved, ThreadTypes, RunnerOK
<1>7. ASSUME NEW exit \in {"error", "lost", "deadline", "cancel"}, GuardianExit(r, exit),
             exit = "deadline" => Rec(r).deadline <= clock
      PROVE  Moved(r)
  <2> DEFINE g == [GuardianOff EXCEPT !.pc = "done", !.exit = exit]
  <2>1. g \in GuardianThread /\ g.pc = "done" /\ g.exit = exit
    BY GuardianOffTyped DEF GuardianThread
  <2>2. guardian' = [guardian EXCEPT ![r] = g]
    BY <1>7 DEF GuardianExit
  <2> HIDE DEF g
  <2> QED
    BY <1>6, <1>7, <2>1, <2>2
<1>8. CASE GuardianSample(r)
  <2>1. \/ Rec(r).deadline <= clock /\ GuardianExit(r, "deadline")
        \/ guardian' = [guardian EXCEPT ![r] = [guardian[r] EXCEPT !.pc = "sampled", !.at = clock]]
    BY <1>8 DEF GuardianSample
  <2> DEFINE g == [guardian[r] EXCEPT !.pc = "sampled", !.at = clock]
  <2>0. clock \in Int /\ "sampled" \in {"off", "idle", "sampled", "done"}
    BY <1>3
  <2>2. g \in GuardianThread /\ g.at = clock /\ g.exit = guardian[r].exit
    BY <1>4, <2>0 DEF GuardianThread
  <2>3. g.exit = "deadline" => Rec(r).deadline <= clock
    BY <1>2, <1>3, <2>2 DEF OwnOK
  <2> HIDE DEF g
  <2>4. g.at \in 0..clock
    BY <1>3, <2>2
  <2> QED
    BY <1>6, <1>7, <2>1, <2>2, <2>3, <2>4 DEF g
<1>9. CASE GuardianRenew(r)
  <2>1. \/ \E exit \in {"error", "lost", "cancel"} : GuardianExit(r, exit)
        \/ guardian' = [guardian EXCEPT ![r] =
              [GuardianOff EXCEPT !.pc = "idle", !.exp = LeaseUntil(Rec(r), guardian[r].at)]]
    BY <1>9 DEF GuardianRenew
  <2> DEFINE g == [GuardianOff EXCEPT !.pc = "idle", !.exp = LeaseUntil(Rec(r), guardian[r].at)]
  <2>2. LeaseUntil(Rec(r), guardian[r].at) \in Int
    BY <1>3, <1>4, TimeAssumption DEF LeaseUntil, Earlier, GuardianThread
  <2>3. g \in GuardianThread /\ g.pc = "idle" /\ g.exit = "none"
    BY <2>2, GuardianOffTyped DEF GuardianThread
  <2> HIDE DEF g
  <2> QED
    BY <1>6, <1>7, <2>1, <2>3 DEF g
<1> QED
  BY <1>8, <1>9 DEF GuardianStep

\* What clients write: new records, and cancellations that leave the lease and
\* the deadline of a record alone and end only records that nobody claimed.
LEMMA ClientWrites ==
    ASSUME JournalInv, NEW o \in Ops, ClientStep(o)
    PROVE  /\ UNCHANGED <<intents, clock, guard, run, guardian, stage, execs, crashes>>
           /\ \A x \in DOMAIN operations :
                 /\ x \in DOMAIN operations'
                 /\ operations'[x].deadline = operations[x].deadline
                 /\ operations'[x].kind = operations[x].kind
                 /\ operations[x].status \in LeasedStatus =>
                       /\ operations'[x].status \in LeasedStatus
                       /\ operations'[x].token = operations[x].token
                       /\ operations'[x].claimed = operations[x].claimed
                       /\ operations'[x].exp = operations[x].exp
<1>1. \A x \in DOMAIN operations : operations[x] \in Row
  BY DEF JournalInv, TypeOK
<1>2. CASE UNCHANGED journalVars /\ ClientStep(o)
  BY <1>2 DEF ClientStep, SubmitWork, CancelWork, Withdraw, storeVars, runnerVars, journalVars
<1>3. ASSUME NEW kind, NEW key, NEW input, NEW deadline,
             SubmitWork(o, kind, key, input, deadline)
      PROVE  /\ UNCHANGED <<intents, clock, guard, run, guardian, stage, execs, crashes>>
             /\ \A x \in DOMAIN operations :
                   x \in DOMAIN operations' /\ operations'[x] = operations[x]
  BY <1>3 DEF SubmitWork, Submit, With, storeVars
<1>4. ASSUME Cancel(o) \/ CancelBeforeLaunch(o)
      PROVE  /\ UNCHANGED <<intents, clock>>
             /\ \A x \in DOMAIN operations :
                   /\ x \in DOMAIN operations'
                   /\ operations'[x].deadline = operations[x].deadline
                   /\ operations'[x].kind = operations[x].kind
                   /\ operations[x].status \in LeasedStatus =>
                         /\ operations'[x].status \in LeasedStatus
                         /\ operations'[x].token = operations[x].token
                         /\ operations'[x].claimed = operations[x].claimed
                         /\ operations'[x].exp = operations[x].exp
  <2>1. /\ o \in DOMAIN operations
        /\ \/ Update(o, CancelRow(operations[o], clock))
           \/ operations[o].status = "queued" /\ Update(o, CancelQueuedRow(operations[o], clock))
    BY <1>4 DEF Cancel, CancelBeforeLaunch, Cancellable, Loadable
  <2>2. CASE Update(o, CancelRow(operations[o], clock))
    BY <1>1, <2>1, <2>2 DEF Update, Write, CancelRow, Row, LeasedStatus
  <2>3. CASE operations[o].status = "queued" /\ Update(o, CancelQueuedRow(operations[o], clock))
    <3>1. /\ CancelQueuedRow(operations[o], clock).deadline = operations[o].deadline
          /\ CancelQueuedRow(operations[o], clock).kind = operations[o].kind
      BY <1>1, <2>1 DEF CancelQueuedRow, EndRow, Row
    <3> QED
      BY <2>1, <2>3, <3>1 DEF Update, Write, LeasedStatus
  <2> QED
    BY <2>1, <2>2, <2>3
<1>5. CASE CancelWork(o)
  BY <1>4, <1>5 DEF CancelWork, storeVars, runnerVars
<1>6. CASE Withdraw(o) /\ ~UNCHANGED journalVars
  BY <1>4, <1>6 DEF Withdraw, storeVars
<1> QED
  BY <1>2, <1>3, <1>5, <1>6 DEF ClientStep

\* Clients, the clock and the daemon disturb no thread.
LEMMA OutsideControl ==
    ASSUME ControlInv,
           Clock \/ DaemonStart \/ DaemonStop \/ (\E o \in Ops : ClientStep(o)) \/ UNCHANGED vars
    PROVE  ThreadTypes' /\ \A q \in Runners : RunnerOK(q)'
<1>1. JournalInv /\ ThreadTypes /\ clock \in Nat
  BY TimeAssumption DEF ControlInv, JournalInv, TypeOK
<1>2. ASSUME UNCHANGED <<guard, run, guardian>>, clock' \in Nat, clock <= clock',
             \A x \in DOMAIN operations :
                 /\ x \in DOMAIN operations'
                 /\ operations'[x].deadline = operations[x].deadline
                 /\ operations[x].status \in LeasedStatus =>
                       /\ operations'[x].status \in LeasedStatus
                       /\ operations'[x].token = operations[x].token
      PROVE  \A q \in Runners : RunnerOK(q)'
  <2> SUFFICES ASSUME NEW q \in Runners PROVE RunnerOK(q)'
    OBVIOUS
  <2>1. RunnerOK(q) /\ run[q] \in Thread /\ guardian[q] \in GuardianThread
    BY <1>1 DEF ControlInv, ThreadTypes
  <2>2. \A x \in DOMAIN operations : operations[x].deadline \in Nat
    BY <1>1 DEF JournalInv, TypeOK, Row
  <2>3. ThreadOK(q)'
    BY <1>1, <1>2, <2>1 DEF RunnerOK, ThreadOK, Sweeping, Thread
  <2>4. GuardianOK(q)'
    BY <1>1, <1>2, <2>1 DEF RunnerOK, GuardianOK, GuardianThread
  <2>5. OwnOK(q)'
    BY <1>1, <1>2, <2>1, <2>2 DEF RunnerOK, OwnOK, Op, Rec, Guarded, Working
  <2> QED
    BY <2>3, <2>4, <2>5 DEF RunnerOK
<1>3. CASE Clock
  <2>1. /\ UNCHANGED <<operations, guard, run, guardian, stage, execs, owed, crashes>>
        /\ clock' = clock + 1
    BY <1>3 DEF Clock, Tick, storeVars, runnerVars
  <2> QED
    BY <1>1, <1>2, <2>1 DEF ThreadTypes
<1>4. CASE DaemonStart
  <2>1. /\ UNCHANGED <<operations, clock, guard, run, guardian, execs, owed, crashes>>
        /\ stage' = [o \in Ops |-> IF stage[o] = "staging" THEN "proof" ELSE stage[o]]
    BY <1>4 DEF DaemonStart, runnerVars, journalVars
  <2>2. stage' \in [Ops -> Stages]
    BY <1>1, <2>1 DEF ThreadTypes, Stages
  <2> QED
    BY <1>1, <1>2, <2>1, <2>2 DEF ThreadTypes
<1>5. ASSUME NEW o \in Ops, ClientStep(o)
      PROVE  ThreadTypes' /\ \A q \in Runners : RunnerOK(q)'
  <2>1. owed' \subseteq Ops
    BY <1>1, <1>5 DEF ClientStep, SubmitWork, CancelWork, Withdraw, runnerVars, ThreadTypes
  <2>2. UNCHANGED <<clock, guard, run, guardian, stage, execs, crashes>>
    BY <1>1, <1>5, ClientWrites
  <2>3. \A x \in DOMAIN operations :
                 /\ x \in DOMAIN operations'
                 /\ operations'[x].deadline = operations[x].deadline
                 /\ operations[x].status \in LeasedStatus =>
                       /\ operations'[x].status \in LeasedStatus
                       /\ operations'[x].token = operations[x].token
    BY <1>1, <1>5, ClientWrites
  <2> QED
    BY <1>1, <1>2, <2>1, <2>2, <2>3 DEF ThreadTypes
<1>6. CASE DaemonStop \/ UNCHANGED vars
  BY <1>1, <1>2, <1>6
     DEF DaemonStop, vars, journalVars, storeVars, runnerVars, ThreadTypes
<1> QED
  BY <1>3, <1>4, <1>5, <1>6

\* A main thread that meets a daemon's lock leaves the loop.
LEMMA ConflictControl ==
    ASSUME ControlInv, NEW r \in Runners, Conflict(r)
    PROVE  Moved(r)
<1>1. run[r].pc \in {"reconcile", "recover", "cleanup", "ack"}
  BY DEF Conflict, NeedsStore, At
<1>2. /\ UNCHANGED <<guard, owed, crashes, guardian, stage, execs>> /\ clock' = clock
      /\ Exit(r)
  BY DEF Conflict, Kept, storeVars, journalVars
<1>3. guard = r /\ guardian[r].pc = "off" /\ ThreadTypes
  BY <1>1, Holder DEF Guarded, ControlInv
<1>4. Others(r) /\ RunnerOK(r)'
  BY <1>2, <1>3, ExitControl
<1> QED
  BY <1>2, <1>3, <1>4 DEF Moved, ThreadTypes, Others

\* Every step of the main thread is within the loop, or starts or ends the process.
LEMMA MainControl ==
    ASSUME ControlInv, NEW r \in Runners, MainStep(r)
    PROVE  Moved(r) \/ TryGuard(r) \/ Leave(r)
BY SweepControl, StartGuardianControl, DispatchControl, DecideControl, EndingControl,
   ConflictControl
   DEF MainStep

\* Every step preserves the invariant of the threads.
LEMMA StepKeepsControl ==
    ASSUME ControlInv, [Next]_vars
    PROVE  ControlInv'
<1>1. JournalInv'
  BY StepIsJournalStep, StepKeepsJournal DEF ControlInv
<1>2. ASSUME NEW r \in Runners, Moved(r)
      PROVE  ThreadTypes' /\ \A q \in Runners : RunnerOK(q)'
  BY <1>2, OthersStay DEF Moved
<1>3. ASSUME NEW r \in Runners,
             TryGuard(r) \/ Leave(r) \/ Crash(r) \/ \E grant \in Grants : Launch(r, grant)
      PROVE  ThreadTypes' /\ \A q \in Runners : RunnerOK(q)'
  <2>1. /\ Others(r) /\ RunnerOK(r)' /\ ThreadTypes'
        /\ operations' = operations /\ clock' = clock
        /\ \A q \in Runners \ {r} : guardian'[q] = guardian[q]
        /\ guard \in {r, NoRunner} \/ guard' = guard
    BY <1>3, ProcessControl DEF journalVars
  <2> QED
    BY <2>1, OthersStay
<1>4. ASSUME NEW r \in Runners,
             \/ \E grant \in Grants : Launch(r, grant)
             \/ MainStep(r) \/ GuardianStep(r) \/ Crash(r)
      PROVE  ThreadTypes' /\ \A q \in Runners : RunnerOK(q)'
  BY <1>2, <1>3, <1>4, MainControl, GuardianControl
<1>5. ThreadTypes' /\ \A q \in Runners : RunnerOK(q)'
  BY <1>4, OutsideControl DEF Next
<1> QED
  BY <1>1, <1>5 DEF ControlInv

\* The threads start within their invariant.
LEMMA ControlStarts ==
    ASSUME Init
    PROVE  ControlInv
<1>1. JournalInv /\ clock = 0
  BY JournalStarts DEF Init, JournalInit
<1>2. /\ run = [r \in Runners |-> Off] /\ guardian = [r \in Runners |-> GuardianOff]
      /\ guard = NoRunner /\ owed = {} /\ crashes = 0
      /\ stage = [o \in Ops |-> "none"] /\ execs = [o \in Ops |-> 0]
  BY DEF Init
<1>3. ThreadTypes
  BY <1>2, OffTyped, GuardianOffTyped, RunnerAssumption DEF ThreadTypes, Stages
<1>4. ASSUME NEW r \in Runners PROVE RunnerOK(r)
  <2>1. run[r] = Off /\ guardian[r] = GuardianOff
    BY <1>2
  <2> QED
    BY <1>1, <2>1, OffTyped, GuardianOffTyped
       DEF RunnerOK, ThreadOK, GuardianOK, OwnOK, Sweeping, Holding, HasOp, Guarded, Working
<1> QED
  BY <1>1, <1>3, <1>4 DEF ControlInv

-----------------------------------------------------------------------------
\* The invariant of the threads holds in every state of the system.
THEOREM ControlInvariant == Spec => []ControlInv
<1>1. Init => ControlInv
  BY ControlStarts
<1>2. ControlInv /\ [Next]_vars => ControlInv'
  BY StepKeepsControl
<1> QED
  BY <1>1, <1>2, PTL DEF Spec

LockTyped == daemon \in BOOLEAN

\* Only the start and the end of a daemon touch its lock.
LEMMA StepKeepsDaemon ==
    ASSUME LockTyped, [Next]_vars
    PROVE  LockTyped'
<1>1. ASSUME NEW o \in Ops, ClientStep(o) PROVE daemon' = daemon
  BY <1>1 DEF ClientStep, SubmitWork, CancelWork, Withdraw, runnerVars
<1>2. ASSUME NEW r \in Runners, MainStep(r) PROVE daemon' = daemon
  <2>1. CASE TryGuard(r) \/ Leave(r)
    BY <2>1 DEF TryGuard, Leave
  <2>2. CASE \/ Reconcile(r) \/ Recover(r) \/ FinishDecided(r, "recovered", "recover")
             \/ Expire(r) \/ PurgeStep(r) \/ Claim(r)
    BY <2>2 DEF Reconcile, Recover, FinishDecided, Expire, PurgeStep, Claim, Kept
  <2>3. CASE \/ StartGuardian(r) \/ FirstCheck(r) \/ Dispatch(r) \/ ReportProgress(r)
             \/ ForceCancel(r) \/ EndWork(r) \/ FinalCheck(r) \/ Join(r)
    BY <2>3 DEF StartGuardian, FirstCheck, Dispatch, StartScan, StartBuild, RunProject, ReportProgress, ForceCancel,
                EndWork, FinalCheck, Join, Kept
  <2>4. CASE \/ Decide(r) \/ Commit(r) \/ Promote(r)
             \/ FinishDecided(r, "finish", "reconcile")
             \/ Cleanup(r) \/ Terminalize(r) \/ Acknowledge(r) \/ Conflict(r)
    BY <2>4 DEF Decide, Commit, Promote, FinishDecided, Cleanup, Terminalize,
                Acknowledge, Conflict, Kept
  <2> QED
    BY <1>2, <2>1, <2>2, <2>3, <2>4 DEF MainStep
<1>3. ASSUME NEW r \in Runners, \/ GuardianStep(r) \/ Crash(r)
                               \/ \E grant \in Grants : Launch(r, grant)
      PROVE  daemon' = daemon
  BY <1>3 DEF GuardianStep, GuardianSample, GuardianRenew, Crash, Launch
<1>4. CASE Clock \/ DaemonStart \/ DaemonStop \/ UNCHANGED vars
  <2>1. daemon' = daemon \/ daemon' = TRUE \/ daemon' = FALSE
    BY <1>4 DEF Clock, DaemonStart, DaemonStop, vars, runnerVars
  <2> QED
    BY <2>1, Zenon DEF LockTyped
<1>5. daemon' = daemon => LockTyped'
  BY Zenon DEF LockTyped
<1> QED
  BY <1>1, <1>2, <1>3, <1>4, <1>5 DEF Next

\* The tables, the guard, the threads and the store keep their types.
THEOREM RunnerTypeCorrect == Spec => []RunnerTypeOK
<1>1. ControlInv /\ LockTyped => RunnerTypeOK
  BY DEF ControlInv, JournalInv, ThreadTypes, RunnerTypeOK, LockTyped
<1>2. Init => LockTyped
  BY DEF Init, LockTyped
<1>3. LockTyped /\ [Next]_vars => LockTyped'
  BY StepKeepsDaemon
<1> QED
  BY <1>1, <1>2, <1>3, ControlInvariant, PTL DEF Spec

\* The clients, runners, guardians and daemon of the system use the journal only
\* through its calls, with timestamps that are not in the future: the system
\* implements the journal's specification, and with it everything proved of it.
THEOREM RunnersUseTheJournal == Spec => JournalSpec
<1>1. Init => JournalInit
  BY DEF Init
<1>2. ControlInv /\ [Next]_vars => [JournalNext]_journalVars
  BY StepIsJournalStep
<1> QED
  BY <1>1, <1>2, ControlInvariant, PTL DEF Spec, JournalSpec

\* While a runner works, through renewals by its guardian, cancellations by
\* clients and crashes of other processes, the record it works on stays leased
\* to it and it holds the runner guard.
THEOREM WorkIsOwned == Spec => []WorkStaysOwned
<1>1. ControlInv => WorkStaysOwned
  BY DEF ControlInv, RunnerOK, ThreadOK, OwnOK, WorkStaysOwned, Holding, Working, Pcs
<1> QED
  BY <1>1, ControlInvariant, PTL

=============================================================================
