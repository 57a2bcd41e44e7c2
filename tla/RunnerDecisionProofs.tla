------------------------- MODULE RunnerDecisionProofs -------------------------
(***************************************************************************)
(* Proofs about OperationRunner: a completion decision stands until it is  *)
(* carried out, it can always be carried out, and what the store holds for *)
(* an operation agrees with the record of the operation; the project's own *)
(* code runs at most once; clients observe the promised life cycle.        *)
(***************************************************************************)
EXTENDS OperationRunnerProofs, FiniteSetTheorems

(***************************************************************************)
(* What each step of the main thread does, field by field.                 *)
(***************************************************************************)
\* The thread is at pc and has just read or written something.
Lands(r, pc) == Others(r) /\ run'[r].pc = pc /\ run'[r].since = clock

\* The thread goes on with the same operation.
Continues(r, pc) ==
    /\ Lands(r, pc)
    /\ run'[r].op = run[r].op /\ run'[r].outcome = run[r].outcome
    /\ run'[r].at = run[r].at /\ run'[r].back = run[r].back
    /\ run'[r].ending = run[r].ending

\* The thread starts over, or goes to step pc of a new round.
Restarts(r, pc) ==
    /\ Lands(r, pc)
    /\ run'[r].outcome = "none" /\ run'[r].back = "reconcile"

\* The process is about to be gone.
Quits(r) == Others(r) /\ run'[r].pc = "exiting"

\* The dispatch is over, with an outcome.
Finals(r, outcome) ==
    /\ Lands(r, "final")
    /\ run'[r].op = run[r].op /\ run'[r].outcome = outcome
    /\ run'[r].back = run[r].back

\* The work is to be joined.
Joins(r) ==
    /\ Lands(r, "join")
    /\ run'[r].op = run[r].op /\ run'[r].outcome = run[r].outcome
    /\ run'[r].back = run[r].back

\* The record of the operation is to be ended.
Finishes(r, ending) ==
    /\ Lands(r, "cleanup")
    /\ run'[r].op = run[r].op /\ run'[r].outcome = run[r].outcome
    /\ run'[r].back = run[r].back /\ run'[r].ending = ending

\* The shared moves, read off field by field.
LEMMA Moves ==
    ASSUME ControlInv, NEW r \in Runners
    PROVE  /\ \A pc \in Pcs : GoTo(r, pc) => Continues(r, pc)
           /\ \A pc \in Pcs : Loop(r, pc) => Restarts(r, pc)
           /\ Exit(r) => Quits(r)
           /\ \A ending \in {"deadline", "failed", "cancelled"}, at \in Int :
                 End(r, ending, at) => Finishes(r, ending)
           /\ \A outcome \in Outcomes : Dispatched(r, outcome) => Finals(r, outcome)
           /\ \A c \in Checkpoints :
                 Go(r, [run[r] EXCEPT !.pc = "join", !.check = c]) => Joins(r)
<1>1. ThreadTypes /\ clock \in Nat /\ run[r] \in Thread
  BY Readings DEF ControlInv, ThreadTypes
<1>2. ASSUME NEW pc \in Pcs, GoTo(r, pc) PROVE Continues(r, pc)
  BY <1>1, <1>2, GoToMoves DEF Continues, Lands, SameFields
<1>3. ASSUME NEW pc \in Pcs, Loop(r, pc) PROVE Restarts(r, pc)
  BY <1>1, <1>3, LoopMoves DEF Restarts, Lands
<1>4. ASSUME Exit(r) PROVE Quits(r)
  BY <1>1, <1>4, ExitMoves DEF Quits
<1>5. ASSUME NEW ending \in {"deadline", "failed", "cancelled"}, NEW at \in Int,
             End(r, ending, at)
      PROVE  Finishes(r, ending)
  BY <1>1, <1>5, EndMoves DEF Finishes, Lands, SameFields
<1>6. ASSUME NEW outcome \in Outcomes, Dispatched(r, outcome) PROVE Finals(r, outcome)
  <2> DEFINE f == [run[r] EXCEPT !.pc = "final", !.outcome = outcome]
  <2>1. "final" \in Pcs
    BY DEF Pcs
  <2>2. /\ f \in Thread /\ f.pc = "final" /\ f.op = run[r].op /\ f.outcome = outcome
        /\ f.back = run[r].back
    BY <1>1, <2>1 DEF Thread
  <2>3. Go(r, f)
    BY <1>6 DEF Dispatched
  <2> HIDE DEF f
  <2> QED
    BY <1>1, <2>2, <2>3, GoMoves DEF Finals, Lands, SameFields
<1>7. ASSUME NEW c \in Checkpoints, Go(r, [run[r] EXCEPT !.pc = "join", !.check = c])
      PROVE  Joins(r)
  <2> DEFINE f == [run[r] EXCEPT !.pc = "join", !.check = c]
  <2>1. "join" \in Pcs
    BY DEF Pcs
  <2>2. /\ f \in Thread /\ f.pc = "join" /\ f.op = run[r].op
        /\ f.outcome = run[r].outcome /\ f.back = run[r].back
    BY <1>1, <2>1 DEF Thread
  <2>3. Go(r, f)
    BY <1>7
  <2> HIDE DEF f
  <2> QED
    BY <1>1, <2>2, <2>3, GoMoves DEF Joins, Lands, SameFields
<1> QED
  BY <1>2, <1>3, <1>4, <1>5, <1>6, <1>7

\* Reconciling retires one proof, or finds an orphan, or finds none to retire.
LEMMA ReconcileShape ==
    ASSUME ControlInv, NEW r \in Runners, Reconcile(r)
    PROVE  /\ run[r].pc = "reconcile" /\ UNCHANGED <<journalVars, execs, guard>>
           /\ \/ /\ Continues(r, "reconcile")
                 /\ \E o \in Ops : /\ stage[o] = "proof" /\ Acknowledged(o)
                                   /\ stage' = [stage EXCEPT ![o] = "none"]
              \/ Quits(r) /\ stage' = stage
              \/ /\ Continues(r, "recover") /\ stage' = stage
                 /\ \A o \in Ops : MayStore(r) /\ stage[o] = "proof" =>
                                      ~Orphaned(o) /\ ~Acknowledged(o)
<1>1. "reconcile" \in Pcs /\ "recover" \in Pcs
  BY DEF Pcs
<1>2. /\ run[r].pc = "reconcile" /\ UNCHANGED <<journalVars, execs, guard>>
      /\ \/ /\ GoTo(r, "reconcile")
            /\ \E o \in Ops : /\ stage[o] = "proof" /\ Acknowledged(o)
                              /\ stage' = [stage EXCEPT ![o] = "none"]
         \/ Exit(r) /\ stage' = stage
         \/ /\ GoTo(r, "recover") /\ stage' = stage
            /\ \A o \in Ops : MayStore(r) /\ stage[o] = "proof" =>
                                 ~Orphaned(o) /\ ~Acknowledged(o)
  BY DEF Reconcile, At, Kept, SetStage
<1> QED
  BY <1>1, <1>2, Moves

\* Recovery publishes a decided scan, or goes on when nothing is decided.
LEMMA RecoverShape ==
    ASSUME ControlInv, NEW r \in Runners, Recover(r)
    PROVE  /\ run[r].pc = "recover" /\ UNCHANGED <<journalVars, execs, guard>>
           /\ \/ /\ DOMAIN intents = {} /\ stage' = stage
                 /\ Lands(r, "expired") /\ run'[r].at \in Fresh(r)
                 /\ run'[r].outcome = run[r].outcome /\ run'[r].back = run[r].back
              \/ \E o \in DOMAIN intents :
                    /\ Promotable(o) /\ stage' = [stage EXCEPT ![o] = "published"]
                    /\ Lands(r, "recovered") /\ run'[r].op = o
                    /\ run'[r].outcome = run[r].outcome /\ run'[r].back = run[r].back
              \/ Quits(r) /\ stage' = stage
<1>1. /\ ThreadTypes /\ clock \in Nat /\ run[r] \in Thread /\ Fresh(r) \subseteq 0..clock
      /\ DOMAIN intents \subseteq Ops
  BY Readings DEF ControlInv, ThreadTypes, JournalInv, TypeOK
<1>2. /\ run[r].pc = "recover" /\ UNCHANGED <<journalVars, execs, guard>>
      /\ \E t \in Fresh(r) :
            \/ /\ DOMAIN intents = {} /\ stage' = stage
               /\ Go(r, [run[r] EXCEPT !.pc = "expired", !.at = t])
            \/ \E o \in DOMAIN intents :
                  /\ Promotable(o) /\ stage' = [stage EXCEPT ![o] = "published"]
                  /\ Go(r, [run[r] EXCEPT !.pc = "recovered", !.op = o])
            \/ Exit(r) /\ stage' = stage
  BY DEF Recover, At, Kept, SetStage, OldestIntents
<1>3. ASSUME NEW t \in Fresh(r), Go(r, [run[r] EXCEPT !.pc = "expired", !.at = t])
      PROVE  /\ Lands(r, "expired") /\ run'[r].at = t
             /\ run'[r].outcome = run[r].outcome /\ run'[r].back = run[r].back
  <2> DEFINE f == [run[r] EXCEPT !.pc = "expired", !.at = t]
  <2>1. "expired" \in Pcs /\ t \in Int
    BY <1>1 DEF Pcs
  <2>2. /\ f \in Thread /\ f.pc = "expired" /\ f.at = t
        /\ f.outcome = run[r].outcome /\ f.back = run[r].back
    BY <1>1, <2>1 DEF Thread
  <2>3. Go(r, f)
    BY <1>3
  <2> HIDE DEF f
  <2> QED
    BY <1>1, <2>2, <2>3, GoMoves DEF Lands, SameFields
<1>4. ASSUME NEW o \in DOMAIN intents, Go(r, [run[r] EXCEPT !.pc = "recovered", !.op = o])
      PROVE  /\ Lands(r, "recovered") /\ run'[r].op = o
             /\ run'[r].outcome = run[r].outcome /\ run'[r].back = run[r].back
  <2> DEFINE f == [run[r] EXCEPT !.pc = "recovered", !.op = o]
  <2>1. "recovered" \in Pcs /\ o \in Ops
    BY <1>1 DEF Pcs
  <2>2. /\ f \in Thread /\ f.pc = "recovered" /\ f.op = o
        /\ f.outcome = run[r].outcome /\ f.back = run[r].back
    BY <1>1, <2>1 DEF Thread
  <2>3. Go(r, f)
    BY <1>4
  <2> HIDE DEF f
  <2> QED
    BY <1>1, <2>2, <2>3, GoMoves DEF Lands, SameFields
<1> QED
  BY <1>2, <1>3, <1>4, Moves

\* A decided operation is finished, or its decision does not check.
LEMMA FinishShape ==
    ASSUME ControlInv, NEW r \in Runners, NEW pc \in {"recovered", "finish"},
           NEW next \in {"recover", "reconcile"}, FinishDecided(r, pc, next)
    PROVE  /\ run[r].pc = pc /\ UNCHANGED <<stage, execs, guard>>
           /\ \/ /\ Restarts(r, next)
                 /\ \E t \in 0..clock : FinishCompletionIntent(Op(r), t)
              \/ Quits(r) /\ UNCHANGED journalVars
<1>1. Fresh(r) \subseteq 0..clock /\ next \in Pcs
  BY Readings DEF Pcs
<1>2. /\ run[r].pc = pc /\ UNCHANGED <<stage, execs, guard>>
      /\ \/ \E t \in Fresh(r) : FinishCompletionIntent(Op(r), t) /\ Loop(r, next)
         \/ Exit(r) /\ UNCHANGED journalVars
  BY DEF FinishDecided, At, Kept, storeVars
<1> QED
  BY <1>1, <1>2, Moves

\* Overdue work is taken to be ended, or there is none.
LEMMA ExpireShape ==
    ASSUME ControlInv, NEW r \in Runners, Expire(r)
    PROVE  /\ run[r].pc = "expired" /\ UNCHANGED <<journalVars, stage, execs, guard>>
           /\ \/ Continues(r, "purge")
              \/ \E o \in DOMAIN operations :
                    /\ operations[o].kind \in CleanupKinds /\ Overdue(o, run[r].at)
                    /\ Lands(r, "cleanup") /\ run'[r].op = o
                    /\ run'[r].ending = "deadline" /\ run'[r].back = "expired"
                    /\ run'[r].at = run[r].at /\ run'[r].outcome = run[r].outcome
              \/ Quits(r)
<1>1. /\ ThreadTypes /\ clock \in Nat /\ run[r] \in Thread
      /\ DOMAIN operations \subseteq Ops
  BY Readings DEF ControlInv, ThreadTypes, JournalInv, TypeOK
<1>2. /\ run[r].pc = "expired" /\ UNCHANGED <<journalVars, stage, execs, guard>>
      /\ \/ GoTo(r, "purge")
         \/ \E o \in DOMAIN operations :
               /\ operations[o].kind \in CleanupKinds /\ Overdue(o, run[r].at)
               /\ Go(r, [run[r] EXCEPT !.pc = "cleanup", !.op = o,
                           !.ending = "deadline", !.back = "expired"])
         \/ Exit(r)
  BY DEF Expire, At, Kept, storeVars, NextExpired
<1>3. ASSUME NEW o \in DOMAIN operations,
             Go(r, [run[r] EXCEPT !.pc = "cleanup", !.op = o,
                           !.ending = "deadline", !.back = "expired"])
      PROVE  /\ Lands(r, "cleanup") /\ run'[r].op = o
             /\ run'[r].ending = "deadline" /\ run'[r].back = "expired"
             /\ run'[r].at = run[r].at /\ run'[r].outcome = run[r].outcome
  <2> DEFINE f == [run[r] EXCEPT !.pc = "cleanup", !.op = o,
                           !.ending = "deadline", !.back = "expired"]
  <2>1. "cleanup" \in Pcs /\ o \in Ops
    BY <1>1 DEF Pcs
  <2>2. /\ f \in Thread /\ f.pc = "cleanup" /\ f.op = o /\ f.at = run[r].at
        /\ f.outcome = run[r].outcome /\ f.back = "expired" /\ f.ending = "deadline"
    BY <1>1, <2>1 DEF Thread
  <2>3. Go(r, f)
    BY <1>3
  <2> HIDE DEF f
  <2> QED
    BY <1>1, <2>2, <2>3, GoMoves DEF Lands, SameFields
<1>4. "purge" \in Pcs
  BY DEF Pcs
<1> QED
  BY <1>2, <1>3, <1>4, Moves

\* A purge with the reading kept since recovery.
LEMMA PurgeStepShape ==
    ASSUME ControlInv, NEW r \in Runners, PurgeStep(r)
    PROVE  /\ run[r].pc = "purge" /\ UNCHANGED <<stage, execs, guard>>
           /\ run[r].at \in 0..clock /\ Purge(run[r].at) /\ Continues(r, "claim")
<1>1. "claim" \in Pcs
  BY DEF Pcs
<1>2. /\ run[r].pc = "purge" /\ UNCHANGED <<stage, execs, guard>>
      /\ Purge(run[r].at) /\ GoTo(r, "claim")
  BY DEF PurgeStep, At, Kept, storeVars
<1>3. run[r].at \in 0..clock
  BY <1>2, Readings DEF Sweeping
<1> QED
  BY <1>1, <1>2, <1>3, Moves

\* A claim with the reading kept since recovery.
LEMMA ClaimStepShape ==
    ASSUME ControlInv, NEW r \in Runners, Claim(r)
    PROVE  /\ run[r].pc = "claim" /\ UNCHANGED <<stage, execs, guard>>
           /\ run[r].at \in 0..clock
           /\ \/ \E o \in Ops :
                    /\ ClaimNext(o, run[r].grant, r, run[r].at)
                    /\ Lands(r, "guardian") /\ run'[r].op = o
                    /\ run'[r].outcome = run[r].outcome /\ run'[r].back = run[r].back
              \/ Quits(r) /\ ClaimNone(run[r].grant, run[r].at)
              \/ Quits(r) /\ UNCHANGED journalVars
<1>1. /\ ThreadTypes /\ clock \in Nat /\ run[r] \in Thread
  BY Readings DEF ControlInv, ThreadTypes
<1>2. /\ run[r].pc = "claim" /\ UNCHANGED <<stage, execs, guard>>
      /\ \/ \E o \in Ops :
               /\ ClaimNext(o, run[r].grant, r, run[r].at)
               /\ Go(r, [run[r] EXCEPT !.pc = "guardian", !.op = o, !.at = NoTime])
         \/ Exit(r) /\ ClaimNone(run[r].grant, run[r].at)
         \/ Exit(r) /\ UNCHANGED journalVars
  BY DEF Claim, At, Kept, storeVars
<1>3. ASSUME NEW o \in Ops,
             Go(r, [run[r] EXCEPT !.pc = "guardian", !.op = o, !.at = NoTime])
      PROVE  /\ Lands(r, "guardian") /\ run'[r].op = o
             /\ run'[r].outcome = run[r].outcome /\ run'[r].back = run[r].back
  <2> DEFINE f == [run[r] EXCEPT !.pc = "guardian", !.op = o, !.at = NoTime]
  <2>1. "guardian" \in Pcs /\ NoTime \in Int
    BY DEF Pcs, NoTime
  <2>2. /\ f \in Thread /\ f.pc = "guardian" /\ f.op = o
        /\ f.outcome = run[r].outcome /\ f.back = run[r].back
    BY <1>1, <2>1 DEF Thread
  <2>3. Go(r, f)
    BY <1>3
  <2> HIDE DEF f
  <2> QED
    BY <1>1, <2>2, <2>3, GoMoves DEF Lands, SameFields
<1>4. run[r].at \in 0..clock
  BY <1>2, Readings DEF Sweeping
<1> QED
  BY <1>2, <1>3, <1>4, Moves

\* The guardian is started with a renewal, or the work is given up.
LEMMA StartGuardianShape ==
    ASSUME ControlInv, NEW r \in Runners, StartGuardian(r)
    PROVE  /\ run[r].pc = "guardian" /\ UNCHANGED <<stage, execs, guard>>
           /\ \/ UNCHANGED journalVars
              \/ \E t \in 0..clock : RenewLease(Op(r), r, t)
           /\ \/ \E ending \in {"deadline", "cancelled"} : Finishes(r, ending)
              \/ Quits(r)
              \/ Restarts(r, "reconcile")
              \/ Continues(r, "check")
<1>1. /\ clock \in Nat /\ Fresh(r) \subseteq 0..clock /\ NoTime \in Int
      /\ "reconcile" \in Pcs /\ "check" \in Pcs
  BY Readings DEF Pcs, NoTime
<1>2. /\ run[r].pc = "guardian" /\ UNCHANGED <<stage, execs, guard>>
      /\ \E t \in Fresh(r) :
            /\ UNCHANGED journalVars \/ RenewLease(Op(r), r, t)
            /\ \/ End(r, "deadline", NoTime)
               \/ \E u \in t..clock : End(r, "cancelled", u)
               \/ Exit(r)
               \/ Loop(r, "reconcile")
               \/ GoTo(r, "check")
  BY DEF StartGuardian, At, Kept, storeVars
<1>3. PICK t \in Fresh(r) :
            /\ UNCHANGED journalVars \/ RenewLease(Op(r), r, t)
            /\ \/ End(r, "deadline", NoTime)
               \/ \E u \in t..clock : End(r, "cancelled", u)
               \/ Exit(r)
               \/ Loop(r, "reconcile")
               \/ GoTo(r, "check")
  BY <1>2
<1>4. \A u \in t..clock : u \in Int
  BY <1>1
<1>5. \/ \E ending \in {"deadline", "cancelled"} : Finishes(r, ending)
      \/ Quits(r)
      \/ Restarts(r, "reconcile")
      \/ Continues(r, "check")
  BY <1>1, <1>3, <1>4, Moves
<1> QED
  BY <1>1, <1>2, <1>3, <1>5

\* A checkpoint is one of its values.
LEMMA CheckpointTyped ==
    ASSUME NEW r, NEW t
    PROVE  Checkpoint(r, t) \in Checkpoints
BY DEF Checkpoint, Checkpoints

\* The first checkpoint: go on, or be done with the dispatch.
LEMMA FirstCheckShape ==
    ASSUME ControlInv, NEW r \in Runners, FirstCheck(r)
    PROVE  /\ run[r].pc = "check" /\ UNCHANGED <<journalVars, stage, execs, guard>>
           /\ Continues(r, "dispatch") \/ Finals(r, "cancelled") \/ Joins(r)
<1>1. "dispatch" \in Pcs /\ "cancelled" \in Outcomes
  BY DEF Pcs, Outcomes
<1>2. /\ run[r].pc = "check" /\ UNCHANGED <<journalVars, stage, execs, guard>>
      /\ \/ GoTo(r, "dispatch") \/ Dispatched(r, "cancelled")
         \/ \E c \in Checkpoints : Go(r, [run[r] EXCEPT !.pc = "join", !.check = c])
  BY CheckpointTyped DEF FirstCheck, At, Kept, storeVars
<1> QED
  BY <1>1, <1>2, Moves

\* The dispatch fails, or stages a scan, or runs the project's own code after a
\* checkpoint.
LEMMA DispatchShape ==
    ASSUME ControlInv, NEW r \in Runners, Dispatch(r)
    PROVE  /\ run[r].pc = "dispatch" /\ UNCHANGED <<journalVars, guard>>
           /\ \/ /\ UNCHANGED <<stage, execs>>
                 /\ \E outcome \in {"failed", "cancelled"} : Finals(r, outcome)
              \/ /\ Continues(r, "work") /\ IsScan(r) /\ execs' = execs
                 /\ stage[Op(r)] # "published"
                 /\ stage' = [stage EXCEPT ![Op(r)] = "staging"]
              \/ /\ Continues(r, "work") /\ ~IsScan(r) /\ stage' = stage
                 /\ execs' = [execs EXCEPT ![Op(r)] = @ + 1]
                 /\ \E t \in 0..clock : Checkpoint(r, t) = "continue"
<1>1. /\ "work" \in Pcs /\ "cancelled" \in Outcomes /\ "failed" \in Outcomes
      /\ Fresh(r) \subseteq 0..clock
  BY Readings DEF Pcs, Outcomes
<1>2. /\ run[r].pc = "dispatch" /\ UNCHANGED <<journalVars, guard>>
      /\ \/ /\ UNCHANGED <<stage, execs>>
            /\ \E outcome \in {"failed", "cancelled"} : Dispatched(r, outcome)
         \/ /\ GoTo(r, "work") /\ IsScan(r) /\ execs' = execs
            /\ stage[Op(r)] # "published"
            /\ stage' = [stage EXCEPT ![Op(r)] = "staging"]
         \/ /\ GoTo(r, "work") /\ ~IsScan(r) /\ stage' = stage
            /\ execs' = [execs EXCEPT ![Op(r)] = @ + 1]
            /\ \E t \in Fresh(r) : Checkpoint(r, t) = "continue"
  BY DEF Dispatch, At, Kept, storeVars, StartScan, StartBuild, RunProject, SetStage
<1> QED
  BY <1>1, <1>2, Moves

\* A report of progress.
LEMMA ReportShape ==
    ASSUME ControlInv, NEW r \in Runners, ReportProgress(r)
    PROVE  /\ run[r].pc = "work" /\ UNCHANGED <<stage, execs, guard>>
           /\ Continues(r, "work")
           /\ \E t \in 0..clock : \E done, total : UpdateProgress(Op(r), r, done, total, t)
<1>1. /\ run[r].pc = "work" /\ UNCHANGED <<stage, execs, guard>>
      /\ \E t \in Fresh(r), p \in Reports(r) :
            /\ UpdateProgress(Op(r), r, p[1], p[2], t)
            /\ Go(r, [run[r] EXCEPT !.plan = p[2]])
  BY DEF ReportProgress, At, Kept, storeVars
<1>2. PICK t \in Fresh(r), p \in Reports(r) :
            /\ UpdateProgress(Op(r), r, p[1], p[2], t)
            /\ Go(r, [run[r] EXCEPT !.plan = p[2]])
  BY <1>1
<1>3. /\ ThreadTypes /\ clock \in Nat /\ run[r] \in Thread
      /\ run[r].plan \in Totals \cup {0} /\ Totals \subseteq Nat
      /\ Fresh(r) \subseteq 0..clock
  BY Readings, TimeAssumption DEF ControlInv, ThreadTypes, RunnerOK, ThreadOK
<1>4. p[2] \in Nat
  <2>1. CASE run[r].plan = 0
    <3>1. p \in {0} \X (Totals \ {1})
      BY <2>1 DEF Reports
    <3> QED
      BY <1>3, <3>1
  <2>2. CASE run[r].plan # 0
    <3>1. p \in (Rec(r).done..(run[r].plan - 1)) \X {run[r].plan}
      BY <2>2 DEF Reports
    <3>2. p[2] = run[r].plan
      BY <3>1
    <3>3. run[r].plan \in Nat
      BY <1>3 DEF Thread
    <3> QED
      BY <3>2, <3>3
  <2> QED
    BY <2>1, <2>2
<1> DEFINE f == [run[r] EXCEPT !.plan = p[2]]
<1>5. /\ f \in Thread /\ f.pc = run[r].pc /\ f.op = run[r].op /\ f.at = run[r].at
      /\ f.outcome = run[r].outcome /\ f.back = run[r].back /\ f.ending = run[r].ending
  BY <1>3, <1>4 DEF Thread
<1>6. Go(r, f)
  BY <1>2
<1> HIDE DEF f
<1>7. Continues(r, "work")
  BY <1>1, <1>3, <1>5, <1>6, GoMoves DEF Continues, Lands, SameFields
<1> QED
  BY <1>1, <1>2, <1>3, <1>7

\* The work ends: by itself or because it must; what it leaves in the store goes
\* with its outcome.
LEMMA EndWorkShape ==
    ASSUME ControlInv, NEW r \in Runners, ForceCancel(r) \/ EndWork(r)
    PROVE  /\ run[r].pc = "work" /\ UNCHANGED <<journalVars, execs, guard>>
           /\ \E outcome \in Outcomes \ {"none"} :
                 /\ Finals(r, outcome)
                 /\ outcome \in Pending => IsScan(r) /\ stage' = stage
                 /\ \/ stage' = stage /\ (outcome = "completed" => ~IsScan(r))
                    \/ IsScan(r) /\ stage' = [stage EXCEPT ![Op(r)] = "none"]
                    \/ /\ IsScan(r) /\ outcome = "cancelled"
                       /\ \E s \in {"none", "staging", "proof"} :
                             stage' = [stage EXCEPT ![Op(r)] = s]
<1>1. /\ run[r].pc = "work" /\ UNCHANGED <<journalVars, execs, guard>>
      /\ \E outcome \in Outcomes \ {"none"} :
            /\ Dispatched(r, outcome)
            /\ outcome \in Pending => IsScan(r) /\ stage' = stage
            /\ \/ stage' = stage /\ (outcome = "completed" => ~IsScan(r))
               \/ IsScan(r) /\ stage' = [stage EXCEPT ![Op(r)] = "none"]
               \/ /\ IsScan(r) /\ outcome = "cancelled"
                  /\ \E s \in {"none", "staging", "proof"} :
                        stage' = [stage EXCEPT ![Op(r)] = s]
  <2>1. CASE ForceCancel(r)
    BY <2>1 DEF ForceCancel, At, Kept, SetStage, Outcomes, Pending
  <2>2. CASE EndWork(r)
    BY <2>2 DEF EndWork, EndScan, EndBuild, At, Kept, SetStage, Outcomes, Pending
  <2> QED
    BY <2>1, <2>2
<1> QED
  BY <1>1, Moves

\* The final checkpoint.
LEMMA FinalShape ==
    ASSUME ControlInv, NEW r \in Runners, FinalCheck(r)
    PROVE  /\ run[r].pc = "final" /\ UNCHANGED <<journalVars, stage, execs, guard>>
           /\ Joins(r)
<1>1. /\ run[r].pc = "final" /\ UNCHANGED <<journalVars, stage, execs, guard>>
      /\ \E c \in Checkpoints : Go(r, [run[r] EXCEPT !.pc = "join", !.check = c])
  BY CheckpointTyped DEF FinalCheck, At, Kept, storeVars
<1> QED
  BY <1>1, Moves

\* The work is joined: a scan whose lease is lost is cancelled, its proof stays.
LEMMA JoinShape ==
    ASSUME ControlInv, NEW r \in Runners, Join(r)
    PROVE  /\ run[r].pc = "join" /\ UNCHANGED <<journalVars, execs, guard>>
           /\ \/ Quits(r) /\ stage' = stage
              \/ /\ stage' = stage
                 /\ \E ending \in {"deadline", "cancelled"} : Finishes(r, ending)
              \/ /\ Restarts(r, "reconcile")
                 /\ \/ stage' = stage /\ run[r].outcome \notin Pending
                    \/ /\ run[r].outcome \in Pending
                       /\ stage' = [stage EXCEPT ![Op(r)] = "proof"]
              \/ Continues(r, "decide") /\ stage' = stage
<1>1. /\ "reconcile" \in Pcs /\ "decide" \in Pcs /\ NoTime \in Int
      /\ \A t \in Fresh(r) : t \in Int
  BY Readings DEF Pcs, NoTime
<1>2. /\ run[r].pc = "join" /\ UNCHANGED <<journalVars, execs, guard>>
      /\ \/ Exit(r) /\ stage' = stage
         \/ (\E t \in Fresh(r) : End(r, "cancelled", t)) /\ stage' = stage
         \/ End(r, "deadline", NoTime) /\ stage' = stage
         \/ /\ Loop(r, "reconcile")
            /\ \/ stage' = stage /\ run[r].outcome \notin Pending
               \/ /\ run[r].outcome \in Pending
                  /\ stage' = [stage EXCEPT ![Op(r)] = "proof"]
         \/ GoTo(r, "decide") /\ stage' = stage
  BY DEF Join, At, Kept, SetStage
<1> QED
  BY <1>1, <1>2, Moves

\* The outcome is recorded, or the record is to be ended, or a scan decided.
LEMMA DecideShape ==
    ASSUME ControlInv, NEW r \in Runners, Decide(r)
    PROVE  /\ run[r].pc = "decide" /\ UNCHANGED <<stage, execs, guard>>
           /\ \/ /\ UNCHANGED journalVars
                 /\ \E ending \in {"deadline", "failed", "cancelled"} : Finishes(r, ending)
              \/ /\ Restarts(r, "reconcile") /\ run[r].outcome = "completed"
                 /\ \E t \in 0..clock : Finish(Op(r), r, "completed", t)
              \/ Quits(r) /\ UNCHANGED journalVars
              \/ /\ UNCHANGED journalVars /\ run[r].outcome = "pending"
                 /\ Lands(r, "commit") /\ run'[r].op = run[r].op
                 /\ run'[r].outcome = run[r].outcome /\ run'[r].back = run[r].back
<1>1. /\ "reconcile" \in Pcs /\ "commit" \in Pcs /\ NoTime \in Int
      /\ Fresh(r) \subseteq 0..clock /\ Fresh(r) \subseteq Int
      /\ ThreadTypes /\ clock \in Nat /\ run[r] \in Thread
  BY Readings DEF Pcs, NoTime, ControlInv, ThreadTypes
<1>2. /\ run[r].pc = "decide" /\ UNCHANGED <<stage, execs, guard>>
      /\ \/ End(r, "deadline", NoTime) /\ UNCHANGED journalVars
         \/ \E t \in Fresh(r) :
               \/ /\ run[r].outcome = "completed" /\ Loop(r, "reconcile")
                  /\ Finish(Op(r), r, "completed", t)
               \/ Exit(r) /\ UNCHANGED journalVars
               \/ /\ UNCHANGED journalVars /\ run[r].outcome = "pending"
                  /\ Go(r, [run[r] EXCEPT !.pc = "commit", !.at = t])
               \/ /\ UNCHANGED journalVars
                  /\ \E ending \in {"failed", "cancelled"} : End(r, ending, t)
  BY DEF Decide, At, Kept, storeVars
<1>3. ASSUME NEW t \in Fresh(r), Go(r, [run[r] EXCEPT !.pc = "commit", !.at = t])
      PROVE  /\ Lands(r, "commit") /\ run'[r].op = run[r].op
             /\ run'[r].outcome = run[r].outcome /\ run'[r].back = run[r].back
  <2> DEFINE f == [run[r] EXCEPT !.pc = "commit", !.at = t]
  <2>1. t \in Int
    BY <1>1
  <2>2. /\ f \in Thread /\ f.pc = "commit" /\ f.op = run[r].op
        /\ f.outcome = run[r].outcome /\ f.back = run[r].back
    BY <1>1, <2>1 DEF Thread
  <2>3. Go(r, f)
    BY <1>3
  <2> HIDE DEF f
  <2> QED
    BY <1>1, <2>2, <2>3, GoMoves DEF Lands, SameFields
<1>4. CASE End(r, "deadline", NoTime) /\ UNCHANGED journalVars
  BY <1>1, <1>2, <1>4, Moves
<1>5. ASSUME NEW t \in Fresh(r),
               \/ /\ run[r].outcome = "completed" /\ Loop(r, "reconcile")
                  /\ Finish(Op(r), r, "completed", t)
               \/ Exit(r) /\ UNCHANGED journalVars
               \/ /\ UNCHANGED journalVars /\ run[r].outcome = "pending"
                  /\ Go(r, [run[r] EXCEPT !.pc = "commit", !.at = t])
               \/ /\ UNCHANGED journalVars
                  /\ \E ending \in {"failed", "cancelled"} : End(r, ending, t)
      PROVE  \/ /\ UNCHANGED journalVars
                /\ \E ending \in {"deadline", "failed", "cancelled"} : Finishes(r, ending)
             \/ /\ Restarts(r, "reconcile") /\ run[r].outcome = "completed"
                /\ \E u \in 0..clock : Finish(Op(r), r, "completed", u)
             \/ Quits(r) /\ UNCHANGED journalVars
             \/ /\ UNCHANGED journalVars /\ run[r].outcome = "pending"
                /\ Lands(r, "commit") /\ run'[r].op = run[r].op
                /\ run'[r].outcome = run[r].outcome /\ run'[r].back = run[r].back
  <2>1. t \in Int /\ t \in 0..clock
    BY <1>1
  <2> QED
    BY <1>1, <1>3, <1>5, <2>1, Moves
<1> QED
  BY <1>2, <1>4, <1>5

\* The decision, or a cancellation that came first, or a lost lease.
LEMMA CommitShape ==
    ASSUME ControlInv, NEW r \in Runners, Commit(r)
    PROVE  /\ run[r].pc = "commit" /\ UNCHANGED <<stage, execs, guard>>
           /\ run[r].at \in 0..clock
           /\ \/ CommitCompletionIntent(Op(r), r, run[r].at) /\ Continues(r, "promote")
              \/ Finishes(r, "cancelled") /\ UNCHANGED journalVars
              \/ Quits(r) /\ UNCHANGED journalVars
<1>1. "promote" \in Pcs /\ NoTime \in Int
  BY DEF Pcs, NoTime
<1>2. /\ run[r].pc = "commit" /\ UNCHANGED <<stage, execs, guard>>
      /\ \/ CommitCompletionIntent(Op(r), r, run[r].at) /\ GoTo(r, "promote")
         \/ End(r, "cancelled", NoTime) /\ UNCHANGED journalVars
         \/ Exit(r) /\ UNCHANGED journalVars
  BY DEF Commit, At, Kept, storeVars
<1>3. run[r].at \in 0..clock
  BY <1>2, Readings
<1> QED
  BY <1>1, <1>2, <1>3, Moves

\* The decided scan is published.
LEMMA PromoteShape ==
    ASSUME ControlInv, NEW r \in Runners, Promote(r)
    PROVE  /\ run[r].pc = "promote" /\ UNCHANGED <<journalVars, execs, guard>>
           /\ stage' = [stage EXCEPT ![Op(r)] = "published"] /\ Continues(r, "finish")
<1>1. "finish" \in Pcs
  BY DEF Pcs
<1> QED
  BY <1>1, Moves DEF Promote, At, Kept, SetStage

\* A staged scan is cancelled; a published one is an error.
LEMMA CleanupShape ==
    ASSUME ControlInv, NEW r \in Runners, Cleanup(r)
    PROVE  /\ run[r].pc = "cleanup" /\ UNCHANGED <<journalVars, execs, guard>>
           /\ \/ Quits(r) /\ stage' = stage
              \/ /\ Continues(r, "terminalize")
                 /\ ~(IsScan(r) /\ stage[Op(r)] = "published")
                 /\ \/ stage[Op(r)] # "staging" /\ stage' = stage
                    \/ /\ stage[Op(r)] = "staging"
                       /\ stage' = [stage EXCEPT ![Op(r)] = "proof"]
<1>1. "terminalize" \in Pcs
  BY DEF Pcs
<1> QED
  BY <1>1, Moves DEF Cleanup, At, Kept, SetStage

\* The record is ended, but never as completed.
LEMMA TerminalizeShape ==
    ASSUME ControlInv, NEW r \in Runners, Terminalize(r)
    PROVE  /\ run[r].pc = "terminalize" /\ UNCHANGED <<stage, execs, guard>>
           /\ \/ Quits(r) /\ UNCHANGED journalVars
              \/ /\ Continues(r, "ack")
                 /\ \/ FailDeadline(Op(r), TRUE, Rec(r).deadline)
                    \/ \E t \in 0..clock, ending \in {"failed", "cancelled"} :
                          Finish(Op(r), r, ending, t)
<1>1. /\ "ack" \in Pcs /\ Fresh(r) \subseteq 0..clock
      /\ run[r].at = NoTime \/ run[r].at \in 0..clock
      /\ run[r].ending \in {"none", "deadline", "failed", "cancelled"}
  BY Readings DEF Pcs, ControlInv, ThreadTypes, Thread
<1> DEFINE times == IF run[r].at = NoTime THEN Fresh(r) ELSE {run[r].at}
<1>2. /\ run[r].pc = "terminalize" /\ UNCHANGED <<stage, execs, guard>>
      /\ \/ Exit(r) /\ UNCHANGED journalVars
         \/ /\ GoTo(r, "ack")
            /\ \/ FailDeadline(Op(r), TRUE, Rec(r).deadline)
               \/ /\ run[r].ending # "deadline"
                  /\ \E t \in times : Finish(Op(r), r, run[r].ending, t)
  BY DEF Terminalize, At, Kept, storeVars
<1>3. \A t \in times : t \in 0..clock
  BY <1>1
<1>4. ASSUME NEW t, Finish(Op(r), r, run[r].ending, t)
      PROVE  run[r].ending # "none"
  BY <1>4 DEF Finish, MayFinishAs, TerminalStatus
<1> HIDE DEF times
<1> QED
  BY <1>1, <1>2, <1>3, <1>4, Moves

\* The proof of the ended record is retired.
LEMMA AcknowledgeShape ==
    ASSUME ControlInv, NEW r \in Runners, Acknowledge(r)
    PROVE  /\ run[r].pc = "ack" /\ UNCHANGED <<journalVars, execs, guard>>
           /\ Restarts(r, run[r].back)
           /\ run[r].back = "expired" => run'[r].at = run[r].at
           /\ run[r].back \in {"reconcile", "expired"}
           /\ \/ stage[Op(r)] # "proof" /\ stage' = stage
              \/ stage[Op(r)] = "proof" /\ stage' = [stage EXCEPT ![Op(r)] = "none"]
<1>1. /\ ThreadTypes /\ clock \in Nat /\ run[r] \in Thread
      /\ run[r].back \in {"reconcile", "expired"}
  BY Readings DEF ControlInv, ThreadTypes, Thread
<1> DEFINE at == IF run[r].back = "expired" THEN run[r].at ELSE NoTime
           f == [Off EXCEPT !.pc = run[r].back, !.grant = run[r].grant, !.at = at]
<1>2. /\ at \in Int /\ run[r].back \in Pcs /\ run[r].grant \in SUBSET Kinds
      /\ run[r].back = "expired" => at = run[r].at
  BY <1>1 DEF Thread, NoTime, Pcs
<1>3. /\ run[r].pc = "ack" /\ UNCHANGED <<journalVars, execs, guard>> /\ Go(r, f)
      /\ \/ stage[Op(r)] # "proof" /\ stage' = stage
         \/ stage[Op(r)] = "proof" /\ stage' = [stage EXCEPT ![Op(r)] = "none"]
  BY DEF Acknowledge, At, Kept, SetStage
<1> HIDE DEF at
<1>4. /\ f \in Thread /\ f.pc = run[r].back /\ f.at = at
      /\ f.outcome = "none" /\ f.back = "reconcile"
  BY <1>2, OffTyped DEF Thread
<1> HIDE DEF f
<1> QED
  BY <1>1, <1>2, <1>3, <1>4, GoMoves DEF Restarts, Lands, SameFields

\* A runner that meets a daemon's lock quits.
LEMMA ConflictShape ==
    ASSUME ControlInv, NEW r \in Runners, Conflict(r)
    PROVE  UNCHANGED <<journalVars, stage, execs, guard>> /\ Quits(r)
BY Moves DEF Conflict, Kept, storeVars

\* A process is launched, takes the guard or not, leaves or crashes.
LEMMA ProcessShape ==
    ASSUME ControlInv, NEW r \in Runners,
           \/ TryGuard(r) \/ Leave(r) \/ Crash(r)
           \/ \E grant \in Grants : Launch(r, grant)
    PROVE  /\ UNCHANGED <<journalVars, stage, execs>> /\ Others(r)
           /\ run'[r].pc \in {"off", "start"} \/ Restarts(r, "reconcile")
<1>1. ThreadTypes
  BY DEF ControlInv
<1>2. CASE TryGuard(r)
  <2>1. "reconcile" \in Pcs
    BY DEF Pcs
  <2>2. /\ UNCHANGED <<journalVars, stage, execs>>
        /\ Loop(r, "reconcile") \/ run' = [run EXCEPT ![r] = Off]
    BY <1>2 DEF TryGuard, storeVars
  <2> QED
    BY <1>1, <2>1, <2>2, Moves, GoneMoves DEF Restarts, Lands
<1>3. CASE Leave(r) \/ Crash(r)
  <2>1. UNCHANGED <<journalVars, stage, execs>> /\ run' = [run EXCEPT ![r] = Off]
    BY <1>3 DEF Leave, Crash, storeVars
  <2> QED
    BY <1>1, <2>1, GoneMoves
<1>4. ASSUME NEW grant \in Grants, Launch(r, grant)
      PROVE  /\ UNCHANGED <<journalVars, stage, execs>> /\ Others(r)
             /\ run'[r].pc = "start"
  <2>1. /\ UNCHANGED <<journalVars, stage, execs>>
        /\ run' = [run EXCEPT ![r] = [Off EXCEPT !.pc = "start", !.grant = grant]]
    BY <1>4 DEF Launch, storeVars
  <2>2. grant \in SUBSET Kinds /\ "start" \in Pcs
    BY NameAssumption DEF Pcs
  <2> QED
    BY <1>1, <2>1, <2>2, OffMoves
<1> QED
  BY <1>2, <1>3, <1>4

-----------------------------------------------------------------------------
(***************************************************************************)
(* What each call does to the records of the table.                        *)
(***************************************************************************)
\* A record that stays alive keeps its lease's owner and its first claim.
TokenKept(x) ==
    operations'[x].status \in LiveStatus =>
        /\ operations'[x].token = operations[x].token
        /\ operations'[x].claimed = operations[x].claimed

\* A call that ends one record and touches no other.
Ends(o, status) ==
    /\ o \in DOMAIN operations /\ operations[o].status \in LiveStatus
    /\ DOMAIN operations' = DOMAIN operations
    /\ operations'[o].status = status /\ status \in TerminalStatus
    /\ \A x \in DOMAIN operations \ {o} : operations'[x] = operations[x]
    /\ clock' = clock

\* Finishing, completing a decision and failing a deadline end one record.
LEMMA EndWrites ==
    ASSUME JournalInv, NEW o \in Ops, NEW t
    PROVE  /\ \A tok, status : Finish(o, tok, status, t) =>
                 Ends(o, status) /\ intents' = intents
           /\ FinishCompletionIntent(o, t) =>
                 /\ Ends(o, "completed")
                 /\ o \in DOMAIN intents /\ intents' = Without(intents, {o})
           /\ FailDeadline(o, TRUE, t) => Ends(o, "failed") /\ intents' = intents
<1>1. \A x \in DOMAIN operations : operations[x] \in Row
  BY DEF JournalInv, TypeOK
<1>2. ASSUME NEW tok, NEW status, Finish(o, tok, status, t)
      PROVE  Ends(o, status) /\ intents' = intents
  <2> DEFINE p == CASE status = "completed" -> "result"
                    [] status = "failed"    -> "error"
                    [] status = "cancelled" -> "none"
  <2>1. /\ o \in DOMAIN operations /\ MayFinishAs(operations[o], status)
        /\ operations' = [operations EXCEPT ![o] =
                              EndRow(operations[o], status, p, t, t)]
        /\ UNCHANGED <<intents, clock>>
    BY <1>2 DEF Finish, HeldBy, Loadable, Update, Write
  <2> HIDE DEF p
  <2>2. status \in TerminalStatus /\ operations[o].status \in LiveStatus
    BY <2>1 DEF MayFinishAs, TerminalStatus, LiveStatus
  <2>3. operations'[o].status = status
    BY <1>1, <2>1 DEF EndRow, Row
  <2> QED
    BY <2>1, <2>2, <2>3 DEF Ends
<1>3. ASSUME FinishCompletionIntent(o, t)
      PROVE  /\ Ends(o, "completed")
             /\ o \in DOMAIN intents /\ intents' = Without(intents, {o})
  <2>1. /\ o \in DOMAIN operations /\ operations[o].status = "running"
        /\ o \in DOMAIN intents /\ intents' = Without(intents, {o}) /\ clock' = clock
        /\ operations' = [operations EXCEPT ![o] =
              EndRow(operations[o], "completed", "result", intents[o], t)]
    BY <1>3 DEF FinishCompletionIntent, IntentValid
  <2>2. operations'[o].status = "completed"
    BY <1>1, <2>1 DEF EndRow, Row
  <2> QED
    BY <2>1, <2>2 DEF Ends, LiveStatus, TerminalStatus
<1>4. ASSUME FailDeadline(o, TRUE, t)
      PROVE  Ends(o, "failed") /\ intents' = intents
  <2>1. /\ o \in DOMAIN operations /\ operations[o].status \in LiveStatus
        /\ operations' = [operations EXCEPT ![o] = DeadlineRow(operations[o])]
        /\ UNCHANGED <<intents, clock>>
    BY <1>4 DEF FailDeadline, Overdue, Update, Write
  <2>2. operations'[o].status = "failed"
    BY <1>1, <2>1 DEF DeadlineRow, Row
  <2> QED
    BY <2>1, <2>2 DEF Ends, TerminalStatus
<1> QED
  BY <1>2, <1>3, <1>4

\* A purge fails overdue work that needs no cleanup, and removes ended records.
LEMMA PurgeWrites ==
    ASSUME JournalInv, NEW t \in 0..clock, Purge(t)
    PROVE  /\ DOMAIN operations' \subseteq DOMAIN operations /\ clock' = clock
           /\ \A x \in DOMAIN operations' :
                 \/ operations'[x] = operations[x]
                 \/ /\ operations[x].kind \notin CleanupKinds
                    /\ operations[x].status \in LiveStatus
                    /\ operations[x].deadline <= t
                    /\ operations'[x].status = "failed"
           /\ \A x \in DOMAIN operations \ DOMAIN operations' :
                 \/ IsTerminal(operations[x])
                 \/ operations[x].kind \notin CleanupKinds /\ Overdue(x, t)
           /\ \E gone : intents' = Without(intents, gone)
<1>1. PICK reaped \in SUBSET Reapable(t) :
          \E gone \in SUBSET Retired(Reap(reaped), t) :
              /\ operations' = Without(Reap(reaped), gone)
              /\ intents' = Without(intents, gone) /\ clock' = clock
  BY PurgeShape
<1>2. PICK gone \in SUBSET Retired(Reap(reaped), t) :
              /\ operations' = Without(Reap(reaped), gone)
              /\ intents' = Without(intents, gone) /\ clock' = clock
  BY <1>1
<1>3. \A x \in reaped : /\ x \in DOMAIN operations /\ operations[x] \in Row
                        /\ operations[x].kind \notin CleanupKinds /\ Overdue(x, t)
                        /\ operations[x].status \in LiveStatus
                        /\ operations[x].deadline <= t
  BY DEF Reapable, Overdue, JournalInv, TypeOK
<1>4. /\ DOMAIN Reap(reaped) = DOMAIN operations
      /\ \A x \in reaped : Reap(reaped)[x].status = "failed"
      /\ \A x \in DOMAIN operations \ reaped : Reap(reaped)[x] = operations[x]
  BY <1>3 DEF Reap, DeadlineRow, Row
<1>5. /\ DOMAIN operations' = DOMAIN operations \ gone
      /\ \A x \in DOMAIN operations \ gone : operations'[x] = Reap(reaped)[x]
  BY <1>2, <1>4 DEF Without
<1>6. \A x \in gone : x \in DOMAIN operations /\ IsTerminal(Reap(reaped)[x])
  BY <1>4 DEF Retired
<1>7. \A x \in DOMAIN operations \ DOMAIN operations' :
         x \in reaped \/ IsTerminal(operations[x])
  BY <1>4, <1>5, <1>6
<1>8. \A x \in DOMAIN operations' :
         \/ operations'[x] = operations[x]
         \/ x \in reaped /\ operations'[x].status = "failed"
  BY <1>4, <1>5
<1> QED
  BY <1>2, <1>3, <1>5, <1>7, <1>8

\* A claim that finds nothing fails a batch of lost builds.
LEMMA ClaimNoneWrites ==
    ASSUME JournalInv, NEW grant, NEW t, ClaimNone(grant, t)
    PROVE  /\ DOMAIN operations' = DOMAIN operations
           /\ UNCHANGED <<intents, clock>>
           /\ \A x \in DOMAIN operations :
                 \/ operations'[x] = operations[x]
                 \/ /\ operations[x].kind = "resolve_build_submit"
                    /\ operations[x].status \in LeasedStatus
                    /\ operations'[x].status = "failed"
<1>1. PICK lost \in LostBatches(grant, t) : Write(FailLost(lost, t))
  BY DEF ClaimNone
<1>2. lost \subseteq LostProjectExec(t)
  BY DEF LostBatches, OldestBatches
<1>3. \A x \in lost : /\ x \in DOMAIN operations /\ operations[x] \in Row
                      /\ operations[x].kind = "resolve_build_submit"
                      /\ operations[x].status \in LeasedStatus
  BY <1>2 DEF LostProjectExec, JournalInv, TypeOK
<1>4. /\ DOMAIN operations' = DOMAIN operations
      /\ UNCHANGED <<intents, clock>>
      /\ \A x \in DOMAIN operations :
            operations'[x] = IF x \in lost THEN UnknownRow(operations[x], t) ELSE operations[x]
  BY <1>1 DEF Write, FailLost
<1>5. \A x \in lost : UnknownRow(operations[x], t).status = "failed"
  BY <1>3 DEF UnknownRow, Row
<1> QED
  BY <1>3, <1>4, <1>5

\* A claim leases one live record and fails a batch of lost builds.
LEMMA ClaimWrites ==
    ASSUME JournalInv, NEW o \in Ops, NEW grant, NEW tok, NEW t \in 0..clock,
           ClaimNext(o, grant, tok, t)
    PROVE  /\ DOMAIN operations' = DOMAIN operations /\ o \in DOMAIN operations
           /\ UNCHANGED <<intents, clock>>
           /\ operations[o].status \in LiveStatus
           /\ operations'[o].status \in LeasedStatus /\ operations'[o].token = tok
           /\ operations'[o].kind = operations[o].kind
           /\ \A x \in DOMAIN operations \ {o} :
                 \/ operations'[x] = operations[x]
                 \/ /\ operations[x].kind = "resolve_build_submit"
                    /\ operations[x].status \in LeasedStatus
                    /\ operations'[x].status = "failed"
<1>1. PICK lost \in LostBatches(grant, t) :
              /\ lost \subseteq LostProjectExec(t)
              /\ o \in DOMAIN operations \ lost
              /\ operations[o].status \in LiveStatus
              /\ DOMAIN operations' = DOMAIN operations
              /\ operations'[o] = ClaimRow(operations[o], tok, t)
              /\ \A x \in lost : operations'[x] = UnknownRow(operations[x], t)
              /\ \A x \in DOMAIN operations \ (lost \cup {o}) :
                    operations'[x] = operations[x]
              /\ UNCHANGED <<intents, clock>>
  BY ClaimShape
<1>2. \A x \in lost : /\ x \in DOMAIN operations /\ operations[x] \in Row
                      /\ operations[x].kind = "resolve_build_submit"
                      /\ operations[x].status \in LeasedStatus
  BY <1>1 DEF LostProjectExec, JournalInv, TypeOK
<1>3. \A x \in lost : UnknownRow(operations[x], t).status = "failed"
  BY <1>2 DEF UnknownRow, Row
<1>4. /\ operations'[o].status \in LeasedStatus /\ operations'[o].token = tok
      /\ operations'[o].kind = operations[o].kind
  <2>1. operations[o] \in Row
    BY <1>1 DEF JournalInv, TypeOK
  <2> QED
    BY <1>1, <2>1 DEF ClaimRow, Row, LiveStatus, LeasedStatus
<1> QED
  BY <1>1, <1>2, <1>3, <1>4

-----------------------------------------------------------------------------
(***************************************************************************)
(* The invariant of decisions and staged scans.                            *)
(***************************************************************************)
\* The steps before work has an outcome.
Early == {"reconcile", "recover", "recovered", "expired", "purge", "claim",
          "guardian", "check", "dispatch", "work"}

\* The steps at which no decision is open: a runner recovers them all before it
\* looks for work, and makes one only with its own.
Undecided == {"expired", "purge", "claim", "guardian", "check", "dispatch", "work",
              "final", "join", "decide", "commit", "cleanup", "terminalize", "ack"}

\* What a runner knows of the decisions.
DecisionOK(r) ==
    /\ run[r].pc \in Undecided => DOMAIN intents = {}
    /\ run[r].pc \in {"recovered", "promote", "finish"} => Op(r) \in DOMAIN intents
    /\ run[r].pc \in {"recovered", "finish"} => stage[Op(r)] = "published"

\* What a runner knows of the scan it works on.
StagingOK(r) ==
    /\ run[r].pc \in Early => run[r].outcome = "none"
    /\ run[r].pc = "work" /\ IsScan(r) => stage[Op(r)] = "staging"
    /\ run[r].pc \in {"final", "join", "decide", "commit", "promote"}
          /\ run[r].outcome \in Pending => IsScan(r) /\ stage[Op(r)] = "staging"
    /\ run[r].pc \in {"commit", "promote"} => run[r].outcome = "pending"
    /\ run[r].pc \in {"final", "join", "decide"} /\ run[r].outcome = "completed" =>
          stage[Op(r)] = "none"
    /\ run[r].pc = "terminalize" => stage[Op(r)] \in {"none", "proof"}

RunnerDecided(r) == DecisionOK(r) /\ StagingOK(r)

\* What a record says of the effects of its operation: work that nobody claimed
\* has none, scans do not run code and builds stage nothing.
RecordOK(o) ==
    o \in DOMAIN operations =>
        /\ operations[o].kind \in SubmitKinds
        /\ operations[o].status \in LiveStatus /\ operations[o].token = NoToken =>
              operations[o].claimed = NoTime /\ stage[o] = "none" /\ execs[o] = 0
        /\ operations[o].kind = "scan_submit" => execs[o] = 0
        /\ operations[o].kind # "scan_submit" => stage[o] = "none"

\* What a staged scan says of the record: the part of StageMatchesRecord that holds
\* whatever the grants of the runners are.
StageOK(o) ==
    /\ stage[o] = "published" =>
          \/ o \in DOMAIN intents
          \/ o \notin DOMAIN operations
          \/ operations[o].status = "completed"
    /\ stage[o] = "staging" => o \in DOMAIN operations /\ ~IsTerminal(operations[o])
    /\ stage[o] = "proof" /\ o \in DOMAIN operations => operations[o].status # "completed"

\* What a decision says: it can be carried out.
IntentOK(o) ==
    o \in DOMAIN intents =>
        /\ IntentValid(o, clock)
        /\ operations[o].kind = "scan_submit"
        /\ ~DaemonStarts => Promotable(o)

DecisionInv ==
    /\ \A r \in Runners : RunnerDecided(r)
    /\ \A o \in Ops : RecordOK(o) /\ StageOK(o) /\ IntentOK(o)

-----------------------------------------------------------------------------
(***************************************************************************)
(* What a step may do to the effects and the record of one operation.      *)
(***************************************************************************)
\* A scan is published only while its decision is open; before that it may be
\* staged, cancelled or dropped, as long as its record is alive.
StageMove(o) ==
    \/ stage'[o] = stage[o]
    \/ stage[o] = "proof" /\ stage'[o] = "none" /\ UNCHANGED <<operations, intents>>
    \/ /\ stage[o] \in {"staging", "published"} /\ stage'[o] = "published"
       /\ o \in DOMAIN intents /\ UNCHANGED <<operations, intents>>
    \/ /\ stage[o] # "published" /\ stage'[o] \in {"none", "staging", "proof"}
       /\ UNCHANGED <<operations, intents>>
       /\ o \in DOMAIN operations /\ operations[o].kind = "scan_submit"
       /\ operations[o].status \in LiveStatus
       /\ stage[o] # "none" \/ operations[o].token # NoToken
       /\ DaemonStarts \/ o \notin DOMAIN intents

\* Project code runs only for a build that a runner dispatches.
ExecMove(o) ==
    \/ execs'[o] = execs[o]
    \/ /\ execs'[o] = execs[o] + 1
       /\ \E r \in Runners : run[r].pc = "dispatch" /\ o = Op(r)
       /\ o \in DOMAIN operations /\ operations[o].kind # "scan_submit"
       /\ operations[o].status = "running" /\ operations[o].token # NoToken
       /\ o \notin DOMAIN intents
       /\ UNCHANGED <<operations, intents, stage>>

\* A runner has just ended the record of o.
Terminalized(r, o) ==
    /\ run[r].pc = "terminalize" /\ Op(r) = o
    /\ run'[r].pc = "ack" /\ run'[r].op = o

\* A decision stays until it is carried out, is made only for a staged scan, and a
\* record ends only when nothing of it is left in progress.
RecordMove(o) ==
    /\ o \in DOMAIN intents =>
          /\ o \in DOMAIN operations'
          /\ \/ /\ o \in DOMAIN intents' /\ intents'[o] = intents[o]
                /\ operations'[o] = operations[o]
             \/ /\ o \notin DOMAIN intents' /\ operations'[o].status = "completed"
                /\ stage[o] = "published"
    /\ o \in DOMAIN intents' \ DOMAIN intents =>
          /\ IntentValid(o, clock)'
          /\ o \in DOMAIN operations /\ operations[o].kind = "scan_submit"
          /\ operations[o].status = "running" /\ operations'[o].status = "running"
          /\ stage[o] = "staging"
    /\ o \in DOMAIN operations' \ DOMAIN operations =>
          /\ operations'[o].kind \in SubmitKinds /\ operations'[o].status = "queued"
          /\ operations'[o].token = NoToken /\ operations'[o].claimed = NoTime
          /\ stage[o] = "none" /\ execs[o] = 0
    /\ o \in DOMAIN operations \ DOMAIN operations' =>
          /\ IsTerminal(operations[o]) \/ operations[o].kind \notin CleanupKinds
          /\ \E r \in Runners : run[r].pc = "purge"
    /\ o \in DOMAIN operations \cap DOMAIN operations' =>
          /\ TokenKept(o) \/ operations'[o].token # NoToken
          /\ operations[o].status \in LiveStatus /\ IsTerminal(operations'[o]) =>
                \/ stage[o] \in {"none", "published"}
                \/ stage[o] = "proof" /\ \E r \in Runners : Terminalized(r, o)
          /\ operations[o].status \in LiveStatus /\ operations'[o].status = "completed" =>
                o \in DOMAIN intents \/ stage[o] = "none"

OpMove(o) == StageMove(o) /\ ExecMove(o) /\ RecordMove(o)

\* A step that leaves the journal alone moves no record.
LEMMA QuietRecords ==
    ASSUME ControlInv, DecisionInv, UNCHANGED journalVars
    PROVE  \A o \in Ops : RecordMove(o)
<1>1. \A o \in DOMAIN operations : operations[o].status \in Status
  BY DEF ControlInv, JournalInv, TypeOK, Row
<1>2. \A o \in DOMAIN intents : o \in DOMAIN operations
  BY DEF DecisionInv, IntentOK, IntentValid, ControlInv, JournalInv, TypeOK
<1> QED
  BY <1>1, <1>2 DEF journalVars, RecordMove, TokenKept, IsTerminal, LiveStatus, TerminalStatus

\* The records and the effects stay right when every operation moves as it may.
LEMMA MovesKeepRecords ==
    ASSUME ControlInv, DecisionInv, TableStep, ControlInv', clock <= clock',
           NEW o \in Ops, OpMove(o)
    PROVE  RecordOK(o)' /\ StageOK(o)' /\ IntentOK(o)'
<1>1. /\ RecordOK(o) /\ StageOK(o) /\ IntentOK(o)
      /\ stage[o] \in Stages /\ execs[o] \in Nat /\ stage'[o] \in Stages
      /\ o \in DOMAIN operations => operations[o] \in Row
      /\ o \in DOMAIN operations' => operations'[o] \in Row
      /\ clock \in Nat /\ clock' \in Nat
  BY TimeAssumption DEF DecisionInv, ControlInv, ThreadTypes, JournalInv, TypeOK
<1>2. /\ o \in DOMAIN operations => operations[o].status \in LiveStatus \cup TerminalStatus
      /\ o \in DOMAIN operations' => operations'[o].status \in LiveStatus \cup TerminalStatus
  BY <1>1 DEF Row, Status
<1>3. o \in DOMAIN operations \cap DOMAIN operations' =>
         /\ IsTerminal(operations[o]) => operations'[o] = operations[o]
         /\ operations'[o].kind = operations[o].kind
  BY DEF TableStep, Keeps, Scope
<1>4. RecordOK(o)'
  <2> SUFFICES ASSUME o \in DOMAIN operations'
               PROVE  /\ operations'[o].kind \in SubmitKinds
                      /\ operations'[o].status \in LiveStatus /\ operations'[o].token = NoToken =>
                            operations'[o].claimed = NoTime /\ stage'[o] = "none" /\ execs'[o] = 0
                      /\ operations'[o].kind = "scan_submit" => execs'[o] = 0
                      /\ operations'[o].kind # "scan_submit" => stage'[o] = "none"
    BY DEF RecordOK
  <2>1. CASE o \notin DOMAIN operations
    <3>1. /\ operations'[o].kind \in SubmitKinds /\ operations'[o].claimed = NoTime
          /\ stage[o] = "none" /\ execs[o] = 0
      BY <2>1 DEF OpMove, RecordMove
    <3>2. stage'[o] = "none"
      BY <1>1, <2>1, <3>1 DEF OpMove, StageMove
    <3>3. execs'[o] = 0
      BY <2>1, <3>1 DEF OpMove, ExecMove
    <3> QED
      BY <3>1, <3>2, <3>3
  <2>2. CASE o \in DOMAIN operations
    <3>1. /\ operations'[o].kind = operations[o].kind
          /\ operations[o].kind \in SubmitKinds
          /\ operations[o].kind = "scan_submit" => execs[o] = 0
          /\ operations[o].kind # "scan_submit" => stage[o] = "none"
      BY <1>1, <1>3, <2>2 DEF RecordOK
    <3>2. operations[o].kind = "scan_submit" => execs'[o] = 0
      BY <3>1 DEF OpMove, ExecMove
    <3>3. operations[o].kind # "scan_submit" => stage'[o] = "none"
      BY <3>1 DEF OpMove, StageMove
    <3>4. ASSUME operations'[o].status \in LiveStatus, operations'[o].token = NoToken
          PROVE  operations'[o].claimed = NoTime /\ stage'[o] = "none" /\ execs'[o] = 0
      <4>1. TokenKept(o)
        BY <2>2, <3>4 DEF OpMove, RecordMove
      <4>2. ~IsTerminal(operations[o])
        BY <1>3, <2>2, <3>4 DEF IsTerminal, LiveStatus, TerminalStatus
      <4>3. /\ operations[o].status \in LiveStatus /\ operations[o].token = NoToken
            /\ operations'[o].claimed = operations[o].claimed
        BY <1>2, <2>2, <3>4, <4>1, <4>2 DEF TokenKept, IsTerminal
      <4>4. operations[o].claimed = NoTime /\ stage[o] = "none" /\ execs[o] = 0
        BY <1>1, <2>2, <4>3 DEF RecordOK
      <4>5. stage'[o] = "none"
        BY <4>3, <4>4 DEF OpMove, StageMove
      <4>6. execs'[o] = 0
        BY <4>3, <4>4 DEF OpMove, ExecMove
      <4> QED
        BY <4>3, <4>4, <4>5, <4>6
    <3> QED
      BY <3>1, <3>2, <3>3, <3>4
  <2> QED
    BY <2>1, <2>2
<1>5. StageOK(o)'
  <2>1. ASSUME stage'[o] = "published"
        PROVE  \/ o \in DOMAIN intents'
               \/ o \notin DOMAIN operations'
               \/ operations'[o].status = "completed"
    <3>1. CASE stage[o] = "published"
      <4>1. \/ o \in DOMAIN intents \/ o \notin DOMAIN operations
            \/ operations[o].status = "completed"
        BY <1>1, <3>1 DEF StageOK
      <4> QED
        BY <1>3, <3>1, <4>1 DEF OpMove, RecordMove, IsTerminal, TerminalStatus
    <3>2. CASE stage[o] # "published"
      BY <2>1, <3>2 DEF OpMove, StageMove
    <3> QED
      BY <3>1, <3>2
  <2>2. ASSUME stage'[o] = "staging"
        PROVE  o \in DOMAIN operations' /\ ~IsTerminal(operations'[o])
    <3>1. CASE stage[o] = "staging"
      <4>1. o \in DOMAIN operations /\ ~IsTerminal(operations[o])
        BY <1>1, <3>1 DEF StageOK
      <4>2. operations[o].kind = "scan_submit" /\ operations[o].status \in LiveStatus
        BY <1>1, <1>2, <3>1, <4>1 DEF RecordOK, IsTerminal
      <4>3. o \in DOMAIN operations'
        BY <4>1, <4>2 DEF OpMove, RecordMove, CleanupKinds
      <4> QED
        BY <3>1, <4>1, <4>2, <4>3 DEF OpMove, RecordMove
    <3>2. CASE stage[o] # "staging"
      BY <2>2, <3>2 DEF OpMove, StageMove, IsTerminal, LiveStatus, TerminalStatus
    <3> QED
      BY <3>1, <3>2
  <2>3. ASSUME stage'[o] = "proof", o \in DOMAIN operations'
        PROVE  operations'[o].status # "completed"
    <3>1. CASE stage[o] = "proof"
      <4>1. CASE o \in DOMAIN operations
        <5>1. operations[o].status # "completed"
          BY <1>1, <3>1, <4>1 DEF StageOK
        <5>2. o \notin DOMAIN intents \/ operations'[o].status # "completed"
          BY <3>1, <4>1, <5>1 DEF OpMove, RecordMove
        <5>3. CASE operations[o].status \in LiveStatus
          BY <2>3, <3>1, <4>1, <5>2, <5>3 DEF OpMove, RecordMove
        <5>4. CASE operations[o].status \in TerminalStatus
          BY <1>3, <2>3, <4>1, <5>1, <5>4 DEF IsTerminal
        <5> QED
          BY <1>2, <4>1, <5>3, <5>4
      <4>2. CASE o \notin DOMAIN operations
        BY <2>3, <3>1, <4>2 DEF OpMove, RecordMove
      <4> QED
        BY <4>1, <4>2
    <3>2. CASE stage[o] # "proof"
      BY <2>3, <3>2 DEF OpMove, StageMove, LiveStatus
    <3> QED
      BY <3>1, <3>2
  <2> QED
    BY <2>1, <2>2, <2>3 DEF StageOK
<1>6. IntentOK(o)'
  <2> SUFFICES ASSUME o \in DOMAIN intents'
               PROVE  /\ IntentValid(o, clock)'
                      /\ operations'[o].kind = "scan_submit"
                      /\ ~DaemonStarts => Promotable(o)'
    BY DEF IntentOK
  <2>1. CASE o \in DOMAIN intents
    <3>1. /\ IntentValid(o, clock) /\ operations[o].kind = "scan_submit"
          /\ ~DaemonStarts => Promotable(o)
          /\ o \in DOMAIN operations' /\ intents'[o] = intents[o]
          /\ operations'[o] = operations[o] /\ o \in DOMAIN operations
      BY <1>1, <2>1 DEF IntentOK, OpMove, RecordMove, IntentValid
    <3>2. IntentValid(o, clock)'
      BY <1>1, <3>1 DEF IntentValid, Row
    <3>3. ~DaemonStarts => Promotable(o)'
      BY <2>1, <3>1 DEF OpMove, StageMove, Promotable
    <3> QED
      BY <3>1, <3>2, <3>3
  <2>2. CASE o \notin DOMAIN intents
    <3>1. /\ IntentValid(o, clock)' /\ operations[o].kind = "scan_submit"
          /\ o \in DOMAIN operations /\ stage[o] = "staging"
      BY <2>2 DEF OpMove, RecordMove
    <3>2. o \in DOMAIN operations'
      BY <3>1 DEF IntentValid
    <3>3. stage'[o] = "staging"
      BY <2>2, <3>1 DEF OpMove, StageMove
    <3> QED
      BY <1>3, <3>1, <3>2, <3>3 DEF Promotable
  <2> QED
    BY <2>1, <2>2
<1> QED
  BY <1>4, <1>5, <1>6

-----------------------------------------------------------------------------
(***************************************************************************)
(* Every step moves every operation as it may.                             *)
(***************************************************************************)
\* The step of a runner's main thread.
Steady(r) == RunnerDecided(r)' /\ \A o \in Ops : OpMove(o)

\* What is known before the step.
LEMMA Acting ==
    ASSUME ControlInv, DecisionInv, NEW r \in Runners
    PROVE  /\ JournalInv /\ RunnerDecided(r) /\ run[r] \in Thread /\ r # NoToken
           /\ stage \in [Ops -> Stages] /\ execs \in [Ops -> Nat]
           /\ DOMAIN operations \subseteq Ops /\ DOMAIN intents \subseteq DOMAIN operations
           /\ \A o \in DOMAIN operations : operations[o].status \in LiveStatus \cup TerminalStatus
           /\ \A o \in Ops : RecordOK(o) /\ StageOK(o) /\ IntentOK(o)
           /\ run[r].pc \in HasOp => Op(r) \in Ops
           /\ run[r].pc \in Working \cup {"guardian"} =>
                 /\ Op(r) \in DOMAIN operations
                 /\ Rec(r).status \in LeasedStatus /\ Rec(r).token = r
           /\ run[r].pc \in {"cleanup", "terminalize"} => Op(r) \in DOMAIN operations
<1>1. r # NoToken
  BY NameAssumption DEF Runners
<1>2. JournalInv /\ ThreadTypes /\ RunnerOK(r) /\ DOMAIN operations \subseteq Ops
      /\ DOMAIN intents \subseteq Ops
      /\ \A o \in DOMAIN operations : operations[o] \in Row
  BY DEF ControlInv, JournalInv, TypeOK
<1>3. DOMAIN intents \subseteq DOMAIN operations
  BY <1>2 DEF DecisionInv, IntentOK, IntentValid
<1>4. \A o \in DOMAIN operations : operations[o].status \in LiveStatus \cup TerminalStatus
  BY <1>2 DEF Row, Status
<1> QED
  BY <1>1, <1>2, <1>3, <1>4 DEF DecisionInv, ThreadTypes, RunnerOK, ThreadOK, OwnOK, Op

\* A thread that is gone, or starts over where decisions may be open.
LEMMA StartsOver ==
    ASSUME NEW r \in Runners,
           \/ Quits(r) \/ run'[r].pc \in {"off", "start"}
           \/ Restarts(r, "reconcile") \/ Restarts(r, "recover")
    PROVE  RunnerDecided(r)'
BY DEF Quits, Restarts, Lands, RunnerDecided, DecisionOK, StagingOK, Undecided, Early

\* A step that changes neither the store nor the journal.
LEMMA QuietMoves ==
    ASSUME ControlInv, DecisionInv, UNCHANGED <<journalVars, stage, execs>>
    PROVE  \A o \in Ops : OpMove(o)
BY QuietRecords DEF OpMove, StageMove, ExecMove

\* Reconciling, recovering and finishing what is decided.
LEMMA RecoverySteady ==
    ASSUME ControlInv, DecisionInv, NEW r \in Runners,
           \/ Reconcile(r) \/ Recover(r)
           \/ FinishDecided(r, "recovered", "recover")
           \/ FinishDecided(r, "finish", "reconcile")
    PROVE  Steady(r)
<1>1. /\ JournalInv /\ RunnerDecided(r) /\ stage \in [Ops -> Stages]
      /\ execs \in [Ops -> Nat] /\ DOMAIN intents \subseteq DOMAIN operations
      /\ DOMAIN operations \subseteq Ops
      /\ run[r].pc \in HasOp => Op(r) \in Ops
  BY Acting
<1>2. CASE Reconcile(r)
  <2>1. /\ UNCHANGED <<journalVars, execs>> /\ run[r].pc = "reconcile"
        /\ Continues(r, "reconcile") \/ Quits(r) \/ Continues(r, "recover")
        /\ \/ stage' = stage
           \/ \E p \in Ops : stage[p] = "proof" /\ stage' = [stage EXCEPT ![p] = "none"]
    BY <1>2, ReconcileShape
  <2>2. \A o \in Ops : stage'[o] = stage[o] \/ (stage[o] = "proof" /\ stage'[o] = "none")
    BY <1>1, <2>1
  <2>3. RunnerDecided(r)'
    BY <1>1, <2>1, StartsOver
       DEF Continues, Lands, RunnerDecided, DecisionOK, StagingOK, Undecided, Early
  <2> QED
    BY <2>1, <2>2, <2>3, QuietRecords DEF Steady, OpMove, StageMove, ExecMove, journalVars
<1>3. CASE Recover(r)
  <2>1. /\ UNCHANGED <<journalVars, execs>> /\ run[r].pc = "recover"
        /\ \/ /\ DOMAIN intents = {} /\ stage' = stage
              /\ Lands(r, "expired") /\ run'[r].outcome = run[r].outcome
           \/ \E o \in DOMAIN intents :
                 /\ Promotable(o) /\ stage' = [stage EXCEPT ![o] = "published"]
                 /\ Lands(r, "recovered") /\ run'[r].op = o
                 /\ run'[r].outcome = run[r].outcome
           \/ Quits(r) /\ stage' = stage
    BY <1>3, RecoverShape
  <2>2. run[r].outcome = "none"
    BY <1>1, <2>1 DEF RunnerDecided, StagingOK, Early
  <2>3. CASE DOMAIN intents = {} /\ stage' = stage /\ Lands(r, "expired")
             /\ run'[r].outcome = run[r].outcome
    <3>1. RunnerDecided(r)'
      BY <2>1, <2>2, <2>3
         DEF Lands, RunnerDecided, DecisionOK, StagingOK, Undecided, Early, journalVars
    <3> QED
      BY <2>1, <2>3, <3>1, QuietMoves DEF Steady
  <2>4. ASSUME NEW o \in DOMAIN intents,
               Promotable(o), stage' = [stage EXCEPT ![o] = "published"],
               Lands(r, "recovered"), run'[r].op = o,
               run'[r].outcome = run[r].outcome
        PROVE  Steady(r)
    <3>1. RunnerDecided(r)'
      BY <1>1, <2>1, <2>2, <2>4
         DEF Lands, RunnerDecided, DecisionOK, StagingOK, Undecided, Early, journalVars, Op
    <3>2. \A x \in Ops : \/ stage'[x] = stage[x]
                         \/ /\ stage[x] \in {"staging", "published"}
                            /\ stage'[x] = "published" /\ x \in DOMAIN intents
      BY <1>1, <2>4 DEF Promotable
    <3> QED
      BY <2>1, <3>1, <3>2, QuietRecords DEF Steady, OpMove, StageMove, ExecMove, journalVars
  <2>5. CASE Quits(r) /\ stage' = stage
    BY <2>1, <2>5, StartsOver, QuietMoves DEF Steady
  <2> QED
    BY <2>1, <2>3, <2>4, <2>5
<1>4. ASSUME NEW pc \in {"recovered", "finish"}, NEW next \in {"recover", "reconcile"},
             FinishDecided(r, pc, next)
      PROVE  Steady(r)
  <2>1. /\ run[r].pc = pc /\ UNCHANGED <<stage, execs>>
        /\ \/ /\ Restarts(r, next)
              /\ \E t \in 0..clock : FinishCompletionIntent(Op(r), t)
           \/ Quits(r) /\ UNCHANGED journalVars
    BY <1>4, FinishShape
  <2>2. CASE Quits(r) /\ UNCHANGED journalVars
    BY <2>1, <2>2, StartsOver, QuietMoves DEF Steady
  <2>3. ASSUME NEW t \in 0..clock, FinishCompletionIntent(Op(r), t), Restarts(r, next)
        PROVE  Steady(r)
    <3>1. Op(r) \in Ops /\ stage[Op(r)] = "published" /\ Op(r) \in DOMAIN intents
      BY <1>1, <2>1 DEF HasOp, RunnerDecided, DecisionOK
    <3>2. Ends(Op(r), "completed") /\ intents' = Without(intents, {Op(r)})
      BY <1>1, <2>3, <3>1, EndWrites
    <3>3. /\ DOMAIN intents' = DOMAIN intents \ {Op(r)}
          /\ \A x \in DOMAIN intents \ {Op(r)} : intents'[x] = intents[x]
      BY <3>2 DEF Without
    <3>4. ASSUME NEW o \in Ops PROVE RecordMove(o)
      <4>1. CASE o = Op(r)
        BY <3>1, <3>2, <3>3, <4>1
           DEF Ends, RecordMove, TokenKept, LiveStatus, TerminalStatus
      <4>2. CASE o # Op(r)
        BY <1>1, <3>2, <3>3, <4>2
           DEF Ends, RecordMove, TokenKept, LiveStatus, TerminalStatus, IsTerminal
      <4> QED
        BY <4>1, <4>2
    <3> QED
      BY <2>1, <2>3, <3>4, StartsOver DEF Steady, OpMove, StageMove, ExecMove
  <2> QED
    BY <2>1, <2>2, <2>3
<1> QED
  BY <1>2, <1>3, <1>4

\* A write that touches records of which nothing is staged, while no decision is
\* open: those that stay alive keep their owner or get one.
LEMMA PlainRecords ==
    ASSUME ControlInv, DecisionInv, DOMAIN intents = {}, DOMAIN intents' = {},
           DOMAIN operations' \subseteq DOMAIN operations,
           \A x \in DOMAIN operations \ DOMAIN operations' :
              /\ IsTerminal(operations[x]) \/ operations[x].kind \notin CleanupKinds
              /\ \E r \in Runners : run[r].pc = "purge",
           \A x \in DOMAIN operations' :
              \/ operations'[x] = operations[x]
              \/ /\ operations[x].kind # "scan_submit"
                 /\ operations'[x].status = "failed"
              \/ /\ operations'[x].status \in LiveStatus
                 /\ TokenKept(x) \/ operations'[x].token # NoToken
              \/ /\ operations'[x].status \in {"failed", "cancelled"}
                 /\ \/ stage[x] = "none"
                    \/ stage[x] = "proof" /\ \E r \in Runners : Terminalized(r, x)
              \/ /\ operations'[x].status = "completed" /\ stage[x] = "none"
    PROVE  \A o \in Ops : RecordMove(o)
<1>1. \A x \in DOMAIN operations : /\ operations[x].status \in LiveStatus \cup TerminalStatus
                                   /\ operations[x].kind # "scan_submit" => stage[x] = "none"
  BY DEF DecisionInv, RecordOK, ControlInv, JournalInv, TypeOK, Row, Status
<1> SUFFICES ASSUME NEW o \in Ops PROVE RecordMove(o)
  OBVIOUS
<1>2. ASSUME o \in DOMAIN operations'
      PROVE  /\ TokenKept(o) \/ operations'[o].token # NoToken
             /\ operations[o].status \in LiveStatus /\ IsTerminal(operations'[o]) =>
                   \/ stage[o] \in {"none", "published"}
                   \/ stage[o] = "proof" /\ \E r \in Runners : Terminalized(r, o)
             /\ operations[o].status \in LiveStatus /\ operations'[o].status = "completed" =>
                   stage[o] = "none"
  <2>1. CASE operations'[o] = operations[o]
    BY <1>1, <1>2, <2>1 DEF TokenKept, IsTerminal, LiveStatus, TerminalStatus
  <2>2. CASE operations[o].kind # "scan_submit" /\ operations'[o].status = "failed"
    BY <1>1, <1>2, <2>2 DEF TokenKept, LiveStatus
  <2>3. CASE /\ operations'[o].status \in LiveStatus
             /\ TokenKept(o) \/ operations'[o].token # NoToken
    BY <2>3 DEF IsTerminal, LiveStatus, TerminalStatus
  <2>4. CASE /\ operations'[o].status \in {"failed", "cancelled"}
             /\ \/ stage[o] = "none"
                \/ stage[o] = "proof" /\ \E r \in Runners : Terminalized(r, o)
    BY <2>4 DEF TokenKept, LiveStatus
  <2>5. CASE operations'[o].status = "completed" /\ stage[o] = "none"
    BY <2>5 DEF TokenKept, LiveStatus
  <2> QED
    BY <1>2, <2>1, <2>2, <2>3, <2>4, <2>5
<1> QED
  BY <1>2 DEF RecordMove

\* Expiring, purging and claiming.
LEMMA SweepSteady ==
    ASSUME ControlInv, DecisionInv, NEW r \in Runners,
           Expire(r) \/ PurgeStep(r) \/ Claim(r)
    PROVE  Steady(r)
<1>1. /\ JournalInv /\ RunnerDecided(r) /\ r # NoToken
  BY Acting
<1>2. CASE Expire(r)
  <2>1. /\ run[r].pc = "expired" /\ UNCHANGED <<journalVars, stage, execs>>
        /\ Continues(r, "purge") \/ Lands(r, "cleanup") \/ Quits(r)
    BY <1>2, ExpireShape
  <2>2. RunnerDecided(r)'
    BY <1>1, <2>1, StartsOver
       DEF Continues, Lands, RunnerDecided, DecisionOK, StagingOK, Undecided, Early, journalVars
  <2> QED
    BY <2>1, <2>2, QuietMoves DEF Steady
<1>3. CASE PurgeStep(r)
  <2>1. /\ run[r].pc = "purge" /\ UNCHANGED <<stage, execs>>
        /\ run[r].at \in 0..clock /\ Purge(run[r].at) /\ Continues(r, "claim")
    BY <1>3, PurgeStepShape
  <2>2. DOMAIN intents = {} /\ run[r].outcome = "none"
    BY <1>1, <2>1 DEF RunnerDecided, DecisionOK, StagingOK, Undecided, Early
  <2>3. DOMAIN intents' = {}
    BY <1>1, <2>1, <2>2, PurgeWrites DEF Without
  <2>4. /\ DOMAIN operations' \subseteq DOMAIN operations
        /\ \A x \in DOMAIN operations \ DOMAIN operations' :
              /\ IsTerminal(operations[x]) \/ operations[x].kind \notin CleanupKinds
              /\ \E q \in Runners : run[q].pc = "purge"
        /\ \A x \in DOMAIN operations' :
              \/ operations'[x] = operations[x]
              \/ operations[x].kind # "scan_submit" /\ operations'[x].status = "failed"
    BY <1>1, <2>1, PurgeWrites DEF CleanupKinds
  <2>5. \A o \in Ops : RecordMove(o)
    BY <2>2, <2>3, <2>4, PlainRecords
  <2>6. RunnerDecided(r)'
    BY <2>1, <2>2, <2>3
       DEF Continues, Lands, RunnerDecided, DecisionOK, StagingOK, Undecided, Early
  <2> QED
    BY <2>1, <2>5, <2>6 DEF Steady, OpMove, StageMove, ExecMove
<1>4. CASE Claim(r)
  <2>1. /\ run[r].pc = "claim" /\ UNCHANGED <<stage, execs>> /\ run[r].at \in 0..clock
        /\ \/ \E o \in Ops :
                 /\ ClaimNext(o, run[r].grant, r, run[r].at)
                 /\ Lands(r, "guardian") /\ run'[r].outcome = run[r].outcome
           \/ Quits(r) /\ ClaimNone(run[r].grant, run[r].at)
           \/ Quits(r) /\ UNCHANGED journalVars
    BY <1>4, ClaimStepShape
  <2>2. DOMAIN intents = {} /\ run[r].outcome = "none"
    BY <1>1, <2>1 DEF RunnerDecided, DecisionOK, StagingOK, Undecided, Early
  <2>3. ASSUME NEW o \in Ops, ClaimNext(o, run[r].grant, r, run[r].at),
               Lands(r, "guardian"), run'[r].outcome = run[r].outcome
        PROVE  Steady(r)
    <3>1. /\ DOMAIN operations' = DOMAIN operations /\ intents' = intents
          /\ operations'[o].status \in LeasedStatus /\ operations'[o].token = r
          /\ \A x \in DOMAIN operations \ {o} :
                \/ operations'[x] = operations[x]
                \/ /\ operations[x].kind = "resolve_build_submit"
                   /\ operations'[x].status = "failed"
      BY <1>1, <2>1, <2>3, ClaimWrites
    <3>2. \A x \in DOMAIN operations' :
              \/ operations'[x] = operations[x]
              \/ operations[x].kind # "scan_submit" /\ operations'[x].status = "failed"
              \/ /\ operations'[x].status \in LiveStatus
                 /\ operations'[x].token # NoToken
      BY <1>1, <3>1 DEF LeasedStatus, LiveStatus
    <3>3. \A x \in Ops : RecordMove(x)
      BY <2>2, <3>1, <3>2, PlainRecords
    <3>4. RunnerDecided(r)'
      BY <2>2, <2>3, <3>1
         DEF Lands, RunnerDecided, DecisionOK, StagingOK, Undecided, Early
    <3> QED
      BY <2>1, <3>3, <3>4 DEF Steady, OpMove, StageMove, ExecMove
  <2>4. CASE Quits(r) /\ ClaimNone(run[r].grant, run[r].at)
    <3>1. /\ DOMAIN operations' = DOMAIN operations /\ intents' = intents
          /\ \A x \in DOMAIN operations :
                \/ operations'[x] = operations[x]
                \/ /\ operations[x].kind = "resolve_build_submit"
                   /\ operations'[x].status = "failed"
      BY <1>1, <2>4, ClaimNoneWrites
    <3>2. \A x \in DOMAIN operations' :
              \/ operations'[x] = operations[x]
              \/ operations[x].kind # "scan_submit" /\ operations'[x].status = "failed"
      BY <3>1
    <3>3. \A x \in Ops : RecordMove(x)
      BY <2>2, <3>1, <3>2, PlainRecords
    <3> QED
      BY <2>1, <2>4, <3>3, StartsOver DEF Steady, OpMove, StageMove, ExecMove
  <2>5. CASE Quits(r) /\ UNCHANGED journalVars
    BY <2>1, <2>5, StartsOver, QuietMoves DEF Steady
  <2> QED
    BY <2>1, <2>3, <2>4, <2>5
<1> QED
  BY <1>2, <1>3, <1>4

\* A renewal or a report, while no decision is open.
LEMMA HolderRecords ==
    ASSUME ControlInv, DecisionInv, DOMAIN intents = {}, NEW o \in Ops, NEW tok, NEW t,
           \/ RenewLease(o, tok, t)
           \/ \E done, total : UpdateProgress(o, tok, done, total, t)
    PROVE  (\A x \in Ops : RecordMove(x)) /\ intents' = intents
<1>1. JournalInv
  BY DEF ControlInv
<1>2. intents' = intents
  BY DEF RenewLease, UpdateProgress, Update, Write
<1>3. /\ DOMAIN operations' = DOMAIN operations /\ o \in DOMAIN operations
      /\ operations'[o].status = operations[o].status
      /\ operations'[o].token = operations[o].token
      /\ operations'[o].claimed = operations[o].claimed
      /\ \A x \in DOMAIN operations \ {o} : operations'[x] = operations[x]
  BY <1>1, HolderWrites
<1>4. \A x \in DOMAIN operations : operations[x].status \in LiveStatus \cup TerminalStatus
  BY <1>1 DEF JournalInv, TypeOK, Row, Status
<1> SUFFICES ASSUME NEW x \in Ops PROVE RecordMove(x)
  BY <1>2
<1>5. CASE x = o
  BY <1>2, <1>3, <1>4, <1>5
     DEF RecordMove, TokenKept, IsTerminal, LiveStatus, TerminalStatus
<1>6. CASE x # o
  BY <1>2, <1>3, <1>4, <1>6
     DEF RecordMove, TokenKept, IsTerminal, LiveStatus, TerminalStatus
<1> QED
  BY <1>5, <1>6

\* The steps from the start of the guardian to the end of the work.
LEMMA WorkSteady ==
    ASSUME ControlInv, DecisionInv, TableStep, NEW r \in Runners,
           \/ StartGuardian(r) \/ FirstCheck(r) \/ Dispatch(r)
           \/ ReportProgress(r) \/ ForceCancel(r) \/ EndWork(r)
    PROVE  Steady(r)
<1>1. /\ JournalInv /\ RunnerDecided(r) /\ r # NoToken
      /\ stage \in [Ops -> Stages] /\ execs \in [Ops -> Nat]
      /\ DOMAIN operations \subseteq Ops
  BY Acting
<1>2. run[r].pc \in {"guardian", "check", "dispatch", "work"}
  BY DEF StartGuardian, FirstCheck, Dispatch, ReportProgress, ForceCancel, EndWork, At
<1>3. /\ Op(r) \in DOMAIN operations /\ Op(r) \in Ops
      /\ Rec(r).status \in LeasedStatus /\ Rec(r).token = r
      /\ DOMAIN intents = {} /\ run[r].outcome = "none"
  BY <1>1, <1>2, Acting
     DEF RunnerDecided, DecisionOK, StagingOK, Undecided, Early, Working
<1>4. CASE StartGuardian(r)
  <2>1. /\ run[r].pc = "guardian" /\ UNCHANGED <<stage, execs>>
        /\ \/ UNCHANGED journalVars
           \/ \E t \in 0..clock : RenewLease(Op(r), r, t)
        /\ \/ \E ending \in {"deadline", "cancelled"} : Finishes(r, ending)
           \/ Quits(r)
           \/ Restarts(r, "reconcile")
           \/ Continues(r, "check")
    BY <1>4, StartGuardianShape
  <2>2. (\A x \in Ops : RecordMove(x)) /\ intents' = intents
    BY <1>3, <2>1, HolderRecords, QuietRecords DEF journalVars
  <2>3. RunnerDecided(r)'
    BY <1>3, <2>1, <2>2, StartsOver
       DEF Continues, Finishes, Lands, RunnerDecided, DecisionOK, StagingOK, Undecided, Early
  <2> QED
    BY <2>1, <2>2, <2>3 DEF Steady, OpMove, StageMove, ExecMove
<1>5. CASE FirstCheck(r)
  <2>1. /\ run[r].pc = "check" /\ UNCHANGED <<journalVars, stage, execs>>
        /\ Continues(r, "dispatch") \/ Finals(r, "cancelled") \/ Joins(r)
    BY <1>5, FirstCheckShape
  <2>2. RunnerDecided(r)'
    BY <1>3, <2>1
       DEF Continues, Finals, Joins, Lands, RunnerDecided, DecisionOK, StagingOK, Undecided,
           Early, Pending, journalVars
  <2> QED
    BY <2>1, <2>2, QuietMoves DEF Steady
<1>6. CASE Dispatch(r)
  <2>1. /\ run[r].pc = "dispatch" /\ UNCHANGED journalVars
        /\ \/ /\ UNCHANGED <<stage, execs>>
              /\ \E outcome \in {"failed", "cancelled"} : Finals(r, outcome)
           \/ /\ Continues(r, "work") /\ IsScan(r) /\ execs' = execs
              /\ stage[Op(r)] # "published"
              /\ stage' = [stage EXCEPT ![Op(r)] = "staging"]
           \/ /\ Continues(r, "work") /\ ~IsScan(r) /\ stage' = stage
              /\ execs' = [execs EXCEPT ![Op(r)] = @ + 1]
              /\ \E t \in 0..clock : Checkpoint(r, t) = "continue"
    BY <1>6, DispatchShape
  <2>2. UNCHANGED <<operations, intents>> /\ \A x \in Ops : RecordMove(x)
    BY <2>1, QuietRecords DEF journalVars
  <2>3. CASE /\ UNCHANGED <<stage, execs>>
             /\ \E outcome \in {"failed", "cancelled"} : Finals(r, outcome)
    <3>1. RunnerDecided(r)'
      BY <1>3, <2>2, <2>3
         DEF Finals, Lands, RunnerDecided, DecisionOK, StagingOK, Undecided, Early, Pending
    <3> QED
      BY <2>1, <2>3, <3>1, QuietMoves DEF Steady
  <2>4. CASE /\ Continues(r, "work") /\ IsScan(r) /\ execs' = execs
             /\ stage[Op(r)] # "published"
             /\ stage' = [stage EXCEPT ![Op(r)] = "staging"]
    <3>1. RunnerDecided(r)'
      BY <1>1, <1>3, <2>2, <2>4
         DEF Continues, Lands, RunnerDecided, DecisionOK, StagingOK, Undecided, Early, Op
    <3>2. \A x \in Ops : StageMove(x)
      BY <1>1, <1>3, <2>2, <2>4 DEF StageMove, IsScan, Rec, LeasedStatus, LiveStatus
    <3> QED
      BY <2>2, <2>4, <3>1, <3>2 DEF Steady, OpMove, ExecMove
  <2>5. CASE /\ Continues(r, "work") /\ ~IsScan(r) /\ stage' = stage
             /\ execs' = [execs EXCEPT ![Op(r)] = @ + 1]
             /\ \E t \in 0..clock : Checkpoint(r, t) = "continue"
    <3>1. RunnerDecided(r)'
      BY <1>1, <1>3, <2>2, <2>5
         DEF Continues, Lands, RunnerDecided, DecisionOK, StagingOK, Undecided, Early, Op,
             IsScan, Rec
    <3>2. Rec(r).status = "running"
      BY <1>3, <2>5 DEF Checkpoint, LeasedStatus
    <3>3. \A x \in Ops : ExecMove(x)
      BY <1>1, <1>3, <2>1, <2>2, <2>5, <3>2 DEF ExecMove, IsScan, Rec
    <3> QED
      BY <2>2, <2>5, <3>1, <3>3 DEF Steady, OpMove, StageMove
  <2> QED
    BY <2>1, <2>3, <2>4, <2>5
<1>7. CASE ReportProgress(r)
  <2>1. /\ run[r].pc = "work" /\ UNCHANGED <<stage, execs>> /\ Continues(r, "work")
        /\ \E t \in 0..clock : \E done, total : UpdateProgress(Op(r), r, done, total, t)
    BY <1>7, ReportShape
  <2>2. (\A x \in Ops : RecordMove(x)) /\ intents' = intents
    BY <1>3, <2>1, HolderRecords
  <2>3. operations'[Op(r)].kind = operations[Op(r)].kind
    BY <1>1, <1>3, <2>1, HolderWrites
  <2>4. RunnerDecided(r)'
    BY <1>1, <1>3, <2>1, <2>2, <2>3
       DEF Continues, Lands, RunnerDecided, DecisionOK, StagingOK, Undecided, Early, Op,
           IsScan, Rec
  <2> QED
    BY <2>1, <2>2, <2>4 DEF Steady, OpMove, StageMove, ExecMove
<1>8. CASE ForceCancel(r) \/ EndWork(r)
  <2>1. run[r].pc = "work" /\ UNCHANGED <<journalVars, execs>>
    BY <1>8, EndWorkShape
  <2>2. PICK outcome \in Outcomes \ {"none"} :
                 /\ Finals(r, outcome)
                 /\ outcome \in Pending => IsScan(r) /\ stage' = stage
                 /\ \/ stage' = stage /\ (outcome = "completed" => ~IsScan(r))
                    \/ IsScan(r) /\ stage' = [stage EXCEPT ![Op(r)] = "none"]
                    \/ /\ IsScan(r) /\ outcome = "cancelled"
                       /\ \E s \in {"none", "staging", "proof"} :
                             stage' = [stage EXCEPT ![Op(r)] = s]
    BY <1>8, EndWorkShape
  <2>3. UNCHANGED <<operations, intents>> /\ \A x \in Ops : RecordMove(x)
    BY <2>1, QuietRecords DEF journalVars
  <2>4. /\ IsScan(r) => stage[Op(r)] = "staging"
        /\ ~IsScan(r) => stage[Op(r)] = "none"
    <3>1. RecordOK(Op(r))
      BY <1>3, Acting
    <3> QED
      BY <1>1, <1>3, <2>1, <3>1 DEF RunnerDecided, StagingOK, RecordOK, IsScan, Rec
  <2>5. \A x \in Ops : StageMove(x)
    BY <1>1, <1>3, <2>2, <2>3, <2>4 DEF StageMove, IsScan, Rec, LeasedStatus, LiveStatus
  <2>6. outcome = "completed" => stage'[Op(r)] = "none"
    BY <1>1, <1>3, <2>2, <2>4
  <2>7. /\ run'[r].pc = "final" /\ run'[r].op = run[r].op /\ run'[r].outcome = outcome
    BY <2>2 DEF Finals, Lands
  <2>8. outcome \in Pending => IsScan(r) /\ stage'[Op(r)] = "staging"
    BY <2>2, <2>4
  <2>9. RunnerDecided(r)'
    BY <1>3, <2>3, <2>6, <2>7, <2>8
       DEF RunnerDecided, DecisionOK, StagingOK, Undecided, Early, Op, IsScan, Rec
  <2> QED
    BY <2>1, <2>3, <2>5, <2>9 DEF Steady, OpMove, ExecMove
<1> QED
  BY <1>4, <1>5, <1>6, <1>7, <1>8

\* The last checkpoint, the join, the decision and the promotion.
LEMMA DecideSteady ==
    ASSUME ControlInv, DecisionInv, NEW r \in Runners,
           \/ FinalCheck(r) \/ Join(r) \/ Decide(r) \/ Commit(r) \/ Promote(r)
    PROVE  Steady(r)
<1>1. /\ JournalInv /\ RunnerDecided(r) /\ r # NoToken
      /\ stage \in [Ops -> Stages] /\ execs \in [Ops -> Nat]
      /\ DOMAIN operations \subseteq Ops
  BY Acting
<1>2. run[r].pc \in {"final", "join", "decide", "commit", "promote"}
  BY DEF FinalCheck, Join, Decide, Commit, Promote, At
<1>3. /\ Op(r) \in DOMAIN operations /\ Op(r) \in Ops
      /\ Rec(r).status \in LeasedStatus /\ Rec(r).token = r
      /\ run[r].pc # "promote" => DOMAIN intents = {}
      /\ run[r].outcome \in Pending => IsScan(r) /\ stage[Op(r)] = "staging"
  BY <1>1, <1>2, Acting
     DEF RunnerDecided, DecisionOK, StagingOK, Undecided, Working
<1>4. CASE FinalCheck(r)
  <2>1. run[r].pc = "final" /\ UNCHANGED <<journalVars, stage, execs>> /\ Joins(r)
    BY <1>4, FinalShape
  <2>2. RunnerDecided(r)'
    BY <1>1, <2>1
       DEF Joins, Lands, RunnerDecided, DecisionOK, StagingOK, Undecided, Early, journalVars,
           Op, IsScan, Rec
  <2> QED
    BY <2>1, <2>2, QuietMoves DEF Steady
<1>5. CASE Join(r)
  <2>1. /\ run[r].pc = "join" /\ UNCHANGED <<journalVars, execs>>
        /\ \/ Quits(r) /\ stage' = stage
           \/ /\ stage' = stage
              /\ \E ending \in {"deadline", "cancelled"} : Finishes(r, ending)
           \/ /\ Restarts(r, "reconcile")
              /\ \/ stage' = stage
                 \/ /\ run[r].outcome \in Pending
                    /\ stage' = [stage EXCEPT ![Op(r)] = "proof"]
           \/ Continues(r, "decide") /\ stage' = stage
    BY <1>5, JoinShape
  <2>2. RunnerDecided(r)'
    BY <1>1, <2>1, StartsOver
       DEF Continues, Finishes, Lands, RunnerDecided, DecisionOK, StagingOK, Undecided, Early,
           journalVars, Op, IsScan, Rec
  <2>3. UNCHANGED <<operations, intents>> /\ \A x \in Ops : RecordMove(x)
    BY <2>1, QuietRecords DEF journalVars
  <2>4. \A x \in Ops : StageMove(x)
    BY <1>1, <1>3, <2>1, <2>3 DEF StageMove, IsScan, Rec, LeasedStatus, LiveStatus
  <2> QED
    BY <2>1, <2>2, <2>3, <2>4 DEF Steady, OpMove, ExecMove
<1>6. CASE Decide(r)
  <2>1. /\ run[r].pc = "decide" /\ UNCHANGED <<stage, execs>>
        /\ \/ /\ UNCHANGED journalVars
              /\ \E ending \in {"deadline", "failed", "cancelled"} : Finishes(r, ending)
           \/ /\ Restarts(r, "reconcile") /\ run[r].outcome = "completed"
              /\ \E t \in 0..clock : Finish(Op(r), r, "completed", t)
           \/ Quits(r) /\ UNCHANGED journalVars
           \/ /\ UNCHANGED journalVars /\ run[r].outcome = "pending"
              /\ Lands(r, "commit") /\ run'[r].op = run[r].op
              /\ run'[r].outcome = run[r].outcome
    BY <1>6, DecideShape
  <2>2. RunnerDecided(r)'
    BY <1>1, <2>1, StartsOver
       DEF Finishes, Lands, RunnerDecided, DecisionOK, StagingOK, Undecided, Early,
           journalVars, Op, IsScan, Rec, Pending
  <2>3. CASE UNCHANGED journalVars
    BY <2>1, <2>2, <2>3, QuietMoves DEF Steady
  <2>4. ASSUME NEW t \in 0..clock, Finish(Op(r), r, "completed", t),
               run[r].outcome = "completed"
        PROVE  Steady(r)
    <3>1. Ends(Op(r), "completed") /\ intents' = intents
      BY <1>1, <1>3, <2>4, EndWrites
    <3>2. stage[Op(r)] = "none" /\ DOMAIN intents = {}
      BY <1>1, <1>3, <2>1, <2>4 DEF RunnerDecided, StagingOK
    <3>3. \A x \in Ops : RecordMove(x)
      BY <3>1, <3>2, PlainRecords DEF Ends
    <3> QED
      BY <2>1, <2>2, <3>3 DEF Steady, OpMove, StageMove, ExecMove
  <2> QED
    BY <2>1, <2>3, <2>4
<1>7. CASE Commit(r)
  <2>1. /\ run[r].pc = "commit" /\ UNCHANGED <<stage, execs>> /\ run[r].at \in 0..clock
        /\ \/ CommitCompletionIntent(Op(r), r, run[r].at) /\ Continues(r, "promote")
           \/ Finishes(r, "cancelled") /\ UNCHANGED journalVars
           \/ Quits(r) /\ UNCHANGED journalVars
    BY <1>7, CommitShape
  <2>2. run[r].outcome = "pending" /\ stage[Op(r)] = "staging" /\ IsScan(r)
    BY <1>1, <1>3, <2>1 DEF RunnerDecided, StagingOK, Pending
  <2>3. CASE UNCHANGED journalVars /\ (Finishes(r, "cancelled") \/ Quits(r))
    <3>1. RunnerDecided(r)'
      BY <1>1, <1>3, <2>1, <2>3, StartsOver
         DEF Finishes, Lands, RunnerDecided, DecisionOK, StagingOK, Undecided, Early, journalVars
    <3> QED
      BY <2>1, <2>3, <3>1, QuietMoves DEF Steady
  <2>4. CASE CommitCompletionIntent(Op(r), r, run[r].at) /\ Continues(r, "promote")
    <3>0. PICK o \in Ops, t \in 0..clock : o = Op(r) /\ t = run[r].at
      BY <1>3, <2>1
    <3>1. /\ HeldBy(o, r, t) /\ operations[o].status = "running" /\ o \notin DOMAIN intents
          /\ intents' = With(intents, o, t)
          /\ operations' = [operations EXCEPT ![o] = DecideRow(operations[o], t)]
          /\ clock' = clock
      BY <2>4, <3>0 DEF CommitCompletionIntent
    <3>2. /\ DOMAIN intents' = {o} /\ intents'[o] = t
      BY <1>3, <2>1, <3>0, <3>1 DEF With
    <3>3. operations[o] \in Row /\ DOMAIN operations' = DOMAIN operations
          /\ operations'[o] = DecideRow(operations[o], t)
          /\ \A x \in DOMAIN operations \ {o} : operations'[x] = operations[x]
      BY <1>1, <1>3, <3>0, <3>1 DEF JournalInv, TypeOK
    <3>4. /\ operations'[o].status = "running" /\ operations'[o].token = r
          /\ operations'[o].claimed = operations[o].claimed
          /\ operations'[o].kind = operations[o].kind
          /\ operations'[o].updated = t /\ operations'[o].deadline = operations[o].deadline
          /\ operations'[o].exp = operations[o].exp
      BY <1>3, <3>0, <3>1, <3>3 DEF DecideRow, Row, Rec
    <3>5. t < operations[o].deadline /\ t < operations[o].exp /\ t <= clock
      BY <2>1, <3>0, <3>1, Readings DEF HeldBy, HasActiveLease
    <3>6. IntentValid(o, clock)'
      BY <1>1, <1>3, <3>0, <3>1, <3>2, <3>3, <3>4, <3>5 DEF IntentValid
    <3>7. RecordMove(o)
      BY <1>1, <1>3, <2>2, <3>0, <3>1, <3>2, <3>3, <3>4, <3>6
         DEF RecordMove, TokenKept, IsTerminal, TerminalStatus, IsScan, Rec
    <3>8. \A x \in DOMAIN operations : operations[x].status \in LiveStatus \cup TerminalStatus
      BY Acting
    <3>9. \A x \in Ops \ {o} : RecordMove(x)
      BY <1>3, <2>1, <3>0, <3>2, <3>3, <3>8
         DEF RecordMove, TokenKept, IsTerminal, LiveStatus, TerminalStatus
    <3>10. run'[r].pc = "promote" /\ run'[r].op = o /\ run'[r].outcome = "pending"
      BY <2>2, <2>4, <3>0 DEF Continues, Lands, Op
    <3>11. RunnerDecided(r)'
      BY <2>1, <2>2, <3>0, <3>2, <3>4, <3>10
         DEF RunnerDecided, DecisionOK, StagingOK, Undecided, Early, Op, IsScan, Rec
    <3> QED
      BY <2>1, <3>7, <3>9, <3>11 DEF Steady, OpMove, StageMove, ExecMove
  <2> QED
    BY <2>1, <2>3, <2>4
<1>8. CASE Promote(r)
  <2>1. /\ run[r].pc = "promote" /\ UNCHANGED <<journalVars, execs>>
        /\ stage' = [stage EXCEPT ![Op(r)] = "published"] /\ Continues(r, "finish")
    BY <1>8, PromoteShape
  <2>2. Op(r) \in DOMAIN intents /\ stage[Op(r)] = "staging"
    BY <1>1, <1>3, <2>1 DEF RunnerDecided, DecisionOK, StagingOK, Pending
  <2>3. RunnerDecided(r)'
    BY <1>1, <1>3, <2>1, <2>2
       DEF Continues, Lands, RunnerDecided, DecisionOK, StagingOK, Undecided, Early,
           journalVars, Op
  <2>4. \A x \in Ops : StageMove(x)
    BY <1>1, <2>1, <2>2 DEF StageMove, journalVars
  <2> QED
    BY <2>1, <2>3, <2>4, QuietRecords DEF Steady, OpMove, ExecMove
<1> QED
  BY <1>4, <1>5, <1>6, <1>7, <1>8

\* The steps that end a record.
LEMMA EndSteady ==
    ASSUME ControlInv, DecisionInv, NEW r \in Runners,
           Cleanup(r) \/ Terminalize(r) \/ Acknowledge(r)
    PROVE  Steady(r)
<1>1. /\ JournalInv /\ RunnerDecided(r)
      /\ stage \in [Ops -> Stages] /\ execs \in [Ops -> Nat]
      /\ DOMAIN operations \subseteq Ops
  BY Acting
<1>2. run[r].pc \in {"cleanup", "terminalize", "ack"}
  BY DEF Cleanup, Terminalize, Acknowledge, At
<1>3. /\ Op(r) \in Ops /\ DOMAIN intents = {}
      /\ run[r].pc # "ack" => Op(r) \in DOMAIN operations
      /\ RecordOK(Op(r)) /\ StageOK(Op(r))
  BY <1>1, <1>2, Acting DEF RunnerDecided, DecisionOK, Undecided, HasOp
<1>4. CASE Cleanup(r)
  <2>1. /\ run[r].pc = "cleanup" /\ UNCHANGED <<journalVars, execs>>
        /\ \/ Quits(r) /\ stage' = stage
           \/ /\ Continues(r, "terminalize")
              /\ ~(IsScan(r) /\ stage[Op(r)] = "published")
              /\ \/ stage[Op(r)] # "staging" /\ stage' = stage
                 \/ /\ stage[Op(r)] = "staging"
                    /\ stage' = [stage EXCEPT ![Op(r)] = "proof"]
    BY <1>4, CleanupShape
  <2>2. UNCHANGED <<operations, intents>> /\ \A x \in Ops : RecordMove(x)
    BY <2>1, QuietRecords DEF journalVars
  <2>3. CASE Quits(r) /\ stage' = stage
    BY <2>1, <2>3, StartsOver, QuietMoves DEF Steady
  <2>4. CASE /\ Continues(r, "terminalize")
             /\ ~(IsScan(r) /\ stage[Op(r)] = "published")
             /\ \/ stage[Op(r)] # "staging" /\ stage' = stage
                \/ /\ stage[Op(r)] = "staging"
                   /\ stage' = [stage EXCEPT ![Op(r)] = "proof"]
    <3>1. stage'[Op(r)] \in {"none", "proof"}
      <4>1. ~IsScan(r) => stage[Op(r)] = "none"
        BY <1>3, <2>1 DEF RecordOK, IsScan, Rec
      <4>2. stage[Op(r)] \in Stages
        BY <1>1, <1>3
      <4> QED
        BY <1>1, <1>3, <2>4, <4>1, <4>2 DEF Stages
    <3>2. RunnerDecided(r)'
      BY <1>3, <2>2, <2>4, <3>1
         DEF Continues, Lands, RunnerDecided, DecisionOK, StagingOK, Undecided, Early, Op
    <3>3. stage[Op(r)] = "staging" =>
             /\ operations[Op(r)].kind = "scan_submit"
             /\ operations[Op(r)].status \in LiveStatus
      <4>1. operations[Op(r)].status \in LiveStatus \cup TerminalStatus
        BY <1>3, <2>1, Acting
      <4> QED
        BY <1>3, <2>1, <4>1 DEF RecordOK, StageOK, IsTerminal
    <3>4. \A x \in Ops : StageMove(x)
      BY <1>1, <1>3, <2>1, <2>2, <2>4, <3>3 DEF StageMove
    <3> QED
      BY <2>1, <2>2, <3>2, <3>4 DEF Steady, OpMove, ExecMove
  <2> QED
    BY <2>1, <2>3, <2>4
<1>5. CASE Terminalize(r)
  <2>1. /\ run[r].pc = "terminalize" /\ UNCHANGED <<stage, execs>>
        /\ \/ Quits(r) /\ UNCHANGED journalVars
           \/ /\ Continues(r, "ack")
              /\ \/ FailDeadline(Op(r), TRUE, Rec(r).deadline)
                 \/ \E t \in 0..clock, ending \in {"failed", "cancelled"} :
                       Finish(Op(r), r, ending, t)
    BY <1>5, TerminalizeShape
  <2>2. CASE Quits(r) /\ UNCHANGED journalVars
    BY <2>1, <2>2, StartsOver, QuietMoves DEF Steady
  <2>3. CASE /\ Continues(r, "ack")
             /\ \/ FailDeadline(Op(r), TRUE, Rec(r).deadline)
                \/ \E t \in 0..clock, ending \in {"failed", "cancelled"} :
                      Finish(Op(r), r, ending, t)
    <3>1. /\ Ends(Op(r), "failed") \/ Ends(Op(r), "cancelled")
          /\ intents' = intents
      BY <1>1, <1>3, <2>3, EndWrites
    <3>2. stage[Op(r)] \in {"none", "proof"} /\ Terminalized(r, Op(r))
      BY <1>1, <2>1, <2>3
         DEF RunnerDecided, StagingOK, Terminalized, Continues, Lands, Op
    <3>3. \A x \in Ops : RecordMove(x)
      BY <1>3, <3>1, <3>2, PlainRecords DEF Ends
    <3>4. RunnerDecided(r)'
      BY <1>3, <2>3, <3>1
         DEF Continues, Lands, RunnerDecided, DecisionOK, StagingOK, Undecided, Early
    <3> QED
      BY <2>1, <3>3, <3>4 DEF Steady, OpMove, StageMove, ExecMove
  <2> QED
    BY <2>1, <2>2, <2>3
<1>6. CASE Acknowledge(r)
  <2>1. /\ run[r].pc = "ack" /\ UNCHANGED <<journalVars, execs>>
        /\ Restarts(r, run[r].back) /\ run[r].back \in {"reconcile", "expired"}
        /\ \/ stage[Op(r)] # "proof" /\ stage' = stage
           \/ stage[Op(r)] = "proof" /\ stage' = [stage EXCEPT ![Op(r)] = "none"]
    BY <1>6, AcknowledgeShape
  <2>2. UNCHANGED <<operations, intents>> /\ \A x \in Ops : RecordMove(x)
    BY <2>1, QuietRecords DEF journalVars
  <2>3. RunnerDecided(r)'
    BY <1>3, <2>1, <2>2
       DEF Restarts, Lands, RunnerDecided, DecisionOK, StagingOK, Undecided, Early
  <2>4. \A x \in Ops : StageMove(x)
    BY <1>1, <2>1, <2>2 DEF StageMove
  <2> QED
    BY <2>1, <2>2, <2>3, <2>4 DEF Steady, OpMove, ExecMove
<1> QED
  BY <1>4, <1>5, <1>6

\* The runners that do not take the step.
LEMMA OthersDecided ==
    ASSUME ControlInv, DecisionInv, NEW r \in Runners, Others(r),
           guard \in {r, NoRunner} \/ UNCHANGED <<operations, intents, stage>>
    PROVE  \A q \in Runners \ {r} : RunnerDecided(q)'
<1> SUFFICES ASSUME NEW q \in Runners \ {r} PROVE RunnerDecided(q)'
  OBVIOUS
<1>1. run'[q] = run[q] /\ RunnerDecided(q) /\ run[q].pc \in Pcs
  BY DEF Others, DecisionInv, ControlInv, ThreadTypes, Thread
<1>2. CASE UNCHANGED <<operations, intents, stage>>
  BY <1>1, <1>2 DEF RunnerDecided, DecisionOK, StagingOK, Op, IsScan, Rec
<1>3. CASE guard \in {r, NoRunner}
  <2>1. guard # q
    BY <1>3, RunnerAssumption
  <2>2. run[q].pc \in {"off", "start"}
    BY <1>1, <2>1 DEF ControlInv, RunnerOK, ThreadOK, Holding
  <2> QED
    BY <1>1, <2>2 DEF RunnerDecided, DecisionOK, StagingOK, Undecided, Early
<1> QED
  BY <1>2, <1>3

\* The guardian renews while nothing is decided.
LEMMA GuardianSteady ==
    ASSUME ControlInv, DecisionInv, NEW r \in Runners, GuardianStep(r)
    PROVE  Steady(r)
<1>1. /\ guardian[r].pc # "off" /\ UNCHANGED <<run, stage, execs>>
      /\ UNCHANGED journalVars \/ RenewLease(Op(r), r, guardian[r].at)
  BY DEF GuardianStep, GuardianSample, GuardianRenew, storeVars
<1>2. run[r].pc \in Guarded
  BY <1>1 DEF ControlInv, RunnerOK, GuardianOK
<1>3. /\ JournalInv /\ RunnerDecided(r) /\ Op(r) \in Ops /\ Op(r) \in DOMAIN operations
      /\ DOMAIN intents = {}
  BY <1>2, Acting DEF Guarded, Working, HasOp, RunnerDecided, DecisionOK, Undecided
<1>4. CASE UNCHANGED journalVars
  BY <1>1, <1>3, <1>4, QuietMoves
     DEF Steady, RunnerDecided, DecisionOK, StagingOK, Op, IsScan, Rec, journalVars
<1>5. CASE RenewLease(Op(r), r, guardian[r].at)
  <2>1. /\ intents' = intents /\ (\A x \in Ops : RecordMove(x))
        /\ operations'[Op(r)].kind = operations[Op(r)].kind
    BY <1>3, <1>5, HolderRecords, HolderWrites
  <2>2. RunnerDecided(r)'
    BY <1>1, <1>3, <2>1 DEF RunnerDecided, DecisionOK, StagingOK, Op, IsScan, Rec
  <2> QED
    BY <1>1, <2>1, <2>2 DEF Steady, OpMove, StageMove, ExecMove
<1> QED
  BY <1>1, <1>4, <1>5

\* What a client does to the records.
LEMMA ClientRecords ==
    ASSUME ControlInv, DecisionInv, NEW p \in Ops, ClientStep(p)
    PROVE  /\ \A o \in Ops : RecordMove(o)
           /\ intents' = intents
           /\ \A o \in DOMAIN operations : /\ o \in DOMAIN operations'
                                           /\ operations'[o].kind = operations[o].kind
<1>1. /\ JournalInv /\ DOMAIN operations \subseteq Ops
      /\ \A o \in DOMAIN operations :
            operations[o] \in Row /\ operations[o].status \in LiveStatus \cup TerminalStatus
      /\ DOMAIN intents \subseteq DOMAIN operations
      /\ \A o \in Ops : RecordOK(o)
  <2>1. DOMAIN intents \subseteq DOMAIN operations
    BY DEF DecisionInv, IntentOK, IntentValid, ControlInv, JournalInv, TypeOK
  <2> QED
    BY <2>1 DEF ControlInv, DecisionInv, JournalInv, TypeOK, Row, Status
<1>2. /\ intents' = intents
      /\ \A o \in DOMAIN operations : /\ o \in DOMAIN operations'
                                      /\ operations'[o].kind = operations[o].kind
  BY <1>1, ClientWrites
<1>3. ASSUME NEW kind \in SubmitKinds, NEW key \in Keys, NEW input \in Inputs, NEW deadline,
             SubmitWork(p, kind, key, input, deadline)
      PROVE  \A o \in Ops : RecordMove(o)
  <2>1. /\ p \notin DOMAIN operations /\ stage[p] = "none" /\ execs[p] = 0
        /\ operations' = With(operations, p, NewRow(kind, key, input, deadline, clock))
    BY <1>3 DEF SubmitWork, Submit
  <2>2. /\ DOMAIN operations' = DOMAIN operations \cup {p}
        /\ operations'[p] = NewRow(kind, key, input, deadline, clock)
        /\ \A o \in DOMAIN operations : operations'[o] = operations[o]
    BY <2>1 DEF With
  <2>3. /\ operations'[p].kind \in SubmitKinds /\ operations'[p].status = "queued"
        /\ operations'[p].token = NoToken /\ operations'[p].claimed = NoTime
    BY <2>2 DEF NewRow
  <2> QED
    BY <1>1, <1>2, <2>1, <2>2, <2>3
       DEF RecordMove, TokenKept, IsTerminal, LiveStatus, TerminalStatus
<1>4. ASSUME Cancel(p) \/ CancelBeforeLaunch(p)
      PROVE  \A o \in Ops : RecordMove(o)
  <2>1. /\ p \in DOMAIN operations /\ p \notin DOMAIN intents
        /\ operations[p].status \in {"queued", "running"}
        /\ \/ Update(p, CancelRow(operations[p], clock))
           \/ operations[p].status = "queued" /\ Update(p, CancelQueuedRow(operations[p], clock))
    BY <1>4 DEF Cancel, CancelBeforeLaunch, Cancellable, Loadable
  <2>2. /\ DOMAIN operations' = DOMAIN operations
        /\ \A o \in DOMAIN operations \ {p} : operations'[o] = operations[o]
    BY <2>1 DEF Update, Write
  <2>3. \A o \in Ops \ {p} : RecordMove(o)
    BY <1>1, <1>2, <2>2
       DEF RecordMove, TokenKept, IsTerminal, LiveStatus, TerminalStatus
  <2>4. CASE Update(p, CancelRow(operations[p], clock))
    <3>1. /\ operations'[p].status = "cancelling"
          /\ operations'[p].token = operations[p].token
          /\ operations'[p].claimed = operations[p].claimed
      BY <1>1, <2>1, <2>4 DEF Update, Write, CancelRow, Row
    <3>2. RecordMove(p)
      BY <1>2, <2>1, <2>2, <3>1
         DEF RecordMove, TokenKept, IsTerminal, LiveStatus, TerminalStatus
    <3> QED
      BY <2>3, <3>2
  <2>5. CASE operations[p].status = "queued" /\ Update(p, CancelQueuedRow(operations[p], clock))
    <3>1. operations'[p].status = "cancelled"
      <4>1. CancelQueuedRow(operations[p], clock).status = "cancelled"
        BY <1>1, <2>1 DEF CancelQueuedRow, EndRow, Row
      <4> QED
        BY <2>1, <2>5, <4>1 DEF Update, Write
    <3>2. operations[p].token = NoToken
      BY <1>1, <2>1, <2>5
         DEF JournalInv, RowsDecodable, RowOK, LeaseOK, LeasedStatus
    <3>3. stage[p] = "none"
      BY <1>1, <2>1, <2>5, <3>2 DEF RecordOK, LiveStatus
    <3>4. RecordMove(p)
      BY <1>2, <2>1, <2>2, <3>1, <3>3
         DEF RecordMove, TokenKept, IsTerminal, LiveStatus, TerminalStatus
    <3> QED
      BY <2>3, <3>4
  <2> QED
    BY <2>1, <2>4, <2>5
<1>5. UNCHANGED journalVars => \A o \in Ops : RecordMove(o)
  BY QuietRecords
<1>6. ASSUME NEW kind \in SubmitKinds, NEW key \in Keys, NEW input \in Inputs,
             NEW deadline \in Requests(kind), SubmitWork(p, kind, key, input, deadline)
      PROVE  \A o \in Ops : RecordMove(o)
  BY <1>3, <1>6
<1>7. CASE CancelWork(p) \/ Withdraw(p)
  BY <1>2, <1>4, <1>5, <1>7 DEF CancelWork, Withdraw
<1> QED
  BY <1>2, <1>6, <1>7 DEF ClientStep

\* Clients, the clock and the daemon.
LEMMA OutsideSteady ==
    ASSUME ControlInv, DecisionInv,
           Clock \/ DaemonStart \/ DaemonStop \/ (\E o \in Ops : ClientStep(o)) \/ UNCHANGED vars
    PROVE  (\A q \in Runners : RunnerDecided(q)') /\ \A o \in Ops : OpMove(o)
<1>1. /\ JournalInv /\ stage \in [Ops -> Stages] /\ DOMAIN intents \subseteq DOMAIN operations
      /\ \A q \in Runners : RunnerDecided(q)
      /\ \A o \in Ops : RecordOK(o) /\ StageOK(o)
      /\ \A o \in DOMAIN operations : operations[o].status \in LiveStatus \cup TerminalStatus
  <2>1. DOMAIN intents \subseteq DOMAIN operations
    BY DEF DecisionInv, IntentOK, IntentValid, ControlInv, JournalInv, TypeOK
  <2> QED
    BY <2>1 DEF ControlInv, DecisionInv, JournalInv, TypeOK, Row, Status, ThreadTypes
<1>2. CASE Clock \/ DaemonStop \/ UNCHANGED vars
  <2>1. UNCHANGED <<operations, intents, stage, execs, run>>
    BY <1>2 DEF Clock, Tick, DaemonStop, storeVars, runnerVars, vars, journalVars
  <2>2. \A o \in Ops : RecordMove(o)
    BY <1>1, <2>1 DEF RecordMove, TokenKept, IsTerminal, LiveStatus, TerminalStatus
  <2> QED
    BY <1>1, <2>1, <2>2
       DEF RunnerDecided, DecisionOK, StagingOK, Op, IsScan, Rec, OpMove, StageMove, ExecMove
<1>3. ASSUME NEW p \in Ops, ClientStep(p)
      PROVE  (\A q \in Runners : RunnerDecided(q)') /\ \A o \in Ops : OpMove(o)
  <2>1. UNCHANGED <<stage, execs, run, intents>>
    BY <1>1, <1>3, ClientWrites
  <2>2. /\ \A o \in Ops : RecordMove(o)
        /\ \A o \in DOMAIN operations : operations'[o].kind = operations[o].kind
    BY <1>3, ClientRecords
  <2>3. ASSUME NEW q \in Runners PROVE RunnerDecided(q)'
    <3>1. /\ RunnerDecided(q)
          /\ run[q].pc \in Working => Op(q) \in DOMAIN operations
      BY <1>1, Acting
    <3>2. run[q].pc \in {"work", "final", "join", "decide", "commit", "promote"} =>
             (IsScan(q) <=> IsScan(q)')
      BY <2>1, <2>2, <3>1 DEF Working, IsScan, Rec, Op
    <3> QED
      BY <2>1, <3>1, <3>2 DEF RunnerDecided, DecisionOK, StagingOK, Op
  <2> QED
    BY <2>1, <2>2, <2>3 DEF OpMove, StageMove, ExecMove
<1>4. CASE DaemonStart
  <2>1. /\ UNCHANGED <<journalVars, operations, intents, execs, run>> /\ DaemonStarts
        /\ \A r \in Runners : ~HoldsStore(r)
        /\ stage' = [o \in Ops |-> IF stage[o] = "staging" THEN "proof" ELSE stage[o]]
    BY <1>4 DEF DaemonStart, runnerVars, journalVars
  <2>2. \A o \in Ops : /\ stage[o] # "staging" => stage'[o] = stage[o]
                       /\ stage[o] = "staging" => stage'[o] = "proof"
    BY <2>1
  <2>3. \A o \in Ops : stage[o] = "staging" =>
           /\ o \in DOMAIN operations /\ operations[o].kind = "scan_submit"
           /\ operations[o].status \in LiveStatus
    BY <1>1 DEF RecordOK, StageOK, IsTerminal
  <2>4. \A o \in Ops : StageMove(o)
    BY <2>1, <2>2, <2>3 DEF StageMove
  <2>5. ASSUME NEW q \in Runners PROVE RunnerDecided(q)'
    <3>1. RunnerDecided(q) /\ ~HoldsStore(q) /\ (run[q].pc \in HasOp => Op(q) \in Ops)
      BY <1>1, <2>1, Acting
    <3>2. DecisionOK(q)'
      BY <2>1, <2>2, <3>1 DEF RunnerDecided, DecisionOK, Op, HasOp
    <3>3. ~(run[q].pc = "work" /\ IsScan(q))
          /\ ~(/\ run[q].pc \in {"final", "join", "decide", "commit", "promote"}
               /\ run[q].outcome \in Pending)
      BY <3>1 DEF HoldsStore, At
    <3>4. StagingOK(q)'
      BY <2>1, <2>2, <3>1, <3>3 DEF RunnerDecided, StagingOK, Op, IsScan, Rec, HasOp, Pending
    <3> QED
      BY <3>2, <3>4 DEF RunnerDecided
  <2> QED
    BY <2>1, <2>4, <2>5, QuietRecords DEF OpMove, ExecMove
<1> QED
  BY <1>2, <1>3, <1>4

\* Every step moves every operation as it may, and leaves every runner right.
LEMMA StepIsSteady ==
    ASSUME ControlInv, DecisionInv, [Next]_vars
    PROVE  (\A q \in Runners : RunnerDecided(q)') /\ \A o \in Ops : OpMove(o)
<1>1. TableStep
  BY StepIsJournalStep, StepIsTableStep DEF ControlInv
<1>2. ASSUME NEW r \in Runners,
             TryGuard(r) \/ Leave(r) \/ Crash(r) \/ \E grant \in Grants : Launch(r, grant)
      PROVE  (\A q \in Runners : RunnerDecided(q)') /\ \A o \in Ops : OpMove(o)
  <2>1. /\ UNCHANGED <<journalVars, stage, execs>> /\ Others(r)
        /\ run'[r].pc \in {"off", "start"} \/ Restarts(r, "reconcile")
    BY <1>2, ProcessShape
  <2>2. \A q \in Runners \ {r} : RunnerDecided(q)'
    BY <2>1, OthersDecided DEF journalVars
  <2> QED
    BY <2>1, <2>2, StartsOver, QuietMoves
<1>3. ASSUME NEW r \in Runners, MainStep(r) \/ GuardianStep(r), ~TryGuard(r), ~Leave(r)
      PROVE  (\A q \in Runners : RunnerDecided(q)') /\ \A o \in Ops : OpMove(o)
  <2>1. Moved(r)
    BY <1>3, MainControl, GuardianControl
  <2>2. \A q \in Runners \ {r} : RunnerDecided(q)'
    BY <2>1, OthersDecided DEF Moved
  <2>3. Conflict(r) => Steady(r)
    BY ConflictShape, StartsOver, QuietMoves DEF Steady
  <2>4. Steady(r)
    BY <1>1, <1>3, <2>3, RecoverySteady, SweepSteady, WorkSteady, DecideSteady, EndSteady,
       GuardianSteady DEF MainStep
  <2> QED
    BY <2>2, <2>4 DEF Steady
<1> QED
  BY <1>2, <1>3, OutsideSteady DEF Next, MainStep

\* Time does not go back.
LEMMA StepForward ==
    ASSUME ControlInv, [Next]_vars
    PROVE  clock <= clock'
<1>1. clock \in Nat
  BY TimeAssumption DEF ControlInv, JournalInv, TypeOK
<1>2. ASSUME NEW r \in Runners,
             \/ \E grant \in Grants : Launch(r, grant)
             \/ MainStep(r) \/ GuardianStep(r) \/ Crash(r)
      PROVE  clock' = clock
  BY <1>2, MainControl, GuardianControl, ProcessControl DEF Moved, journalVars
<1>3. ASSUME Clock \/ DaemonStart \/ DaemonStop \/ (\E o \in Ops : ClientStep(o)) \/ UNCHANGED vars
      PROVE  clock' \in {clock, clock + 1}
  BY <1>3, ClientWrites
     DEF Clock, Tick, DaemonStart, DaemonStop, ControlInv, vars, journalVars
<1>4. clock' \in {clock, clock + 1}
  BY <1>2, <1>3 DEF Next
<1> QED
  BY <1>1, <1>4

\* Every step preserves the invariant of decisions and staged scans.
LEMMA StepKeepsDecisions ==
    ASSUME ControlInv, DecisionInv, [Next]_vars
    PROVE  DecisionInv'
<1>1. TableStep /\ ControlInv'
  BY StepIsJournalStep, StepIsTableStep, StepKeepsControl DEF ControlInv
<1>2. clock <= clock'
  BY StepForward
<1> QED
  BY <1>1, <1>2, StepIsSteady, MovesKeepRecords DEF DecisionInv

\* At first nothing is staged, decided or recorded.
LEMMA DecisionsStart ==
    ASSUME Init
    PROVE  DecisionInv
<1>1. DOMAIN operations = {} /\ DOMAIN intents = {}
  BY DEF Init, JournalInit
<1>2. \A r \in Runners : run[r].pc = "off"
  BY DEF Init, Off
<1>3. \A o \in Ops : stage[o] = "none"
  BY DEF Init
<1> QED
  BY <1>1, <1>2, <1>3
     DEF DecisionInv, RunnerDecided, DecisionOK, StagingOK, RecordOK, StageOK, IntentOK,
         Undecided, Early

-----------------------------------------------------------------------------
\* What the runners know of decisions and staged scans is right in every state.
THEOREM DecisionInvariant == Spec => []DecisionInv
<1>1. Init => DecisionInv
  BY DecisionsStart
<1>2. ControlInv /\ DecisionInv /\ [Next]_vars => DecisionInv'
  BY StepKeepsDecisions
<1> QED
  BY <1>1, <1>2, ControlInvariant, PTL DEF Spec

\* No cancellation, deadline, purge, crash or other runner moves a record between
\* commit_completion_intent and finish_completion_intent, and the record completes
\* only when its scan is the published snapshot.
THEOREM DecisionsAreKept == Spec => DecisionsStand
<1>1. ASSUME ControlInv, DecisionInv, [Next]_vars, NEW o \in DOMAIN intents
      PROVE  /\ o \in DOMAIN operations'
             /\ \/ o \in DOMAIN intents' /\ operations'[o] = operations[o]
                \/ operations'[o].status = "completed" /\ stage'[o] = "published"
  <2>1. o \in Ops
    BY <1>1 DEF ControlInv, JournalInv, TypeOK
  <2>2. StageMove(o) /\ RecordMove(o)
    BY <1>1, <2>1, StepIsSteady DEF OpMove
  <2>3. CASE o \in DOMAIN intents' /\ operations'[o] = operations[o]
    BY <1>1, <2>2, <2>3 DEF RecordMove
  <2>4. CASE o \notin DOMAIN intents' /\ operations'[o].status = "completed"
             /\ stage[o] = "published"
    <3>1. o \in DOMAIN operations'
      BY <1>1, <2>2 DEF RecordMove
    <3>2. stage'[o] = "published"
      BY <1>1, <2>2, <2>4 DEF StageMove
    <3> QED
      BY <2>4, <3>1, <3>2
  <2> QED
    BY <1>1, <2>2, <2>3, <2>4 DEF RecordMove
<1>2. ControlInv /\ DecisionInv /\ [Next]_vars =>
         [\A o \in DOMAIN intents :
             /\ o \in DOMAIN operations'
             /\ \/ o \in DOMAIN intents' /\ operations'[o] = operations[o]
                \/ operations'[o].status = "completed" /\ stage'[o] = "published"]_vars
  BY <1>1
<1> QED
  BY <1>2, ControlInvariant, DecisionInvariant, PTL DEF Spec, DecisionsStand

\* Whatever time it is and wherever the last runner stopped, an open decision has
\* its record and a scan to publish: the next runner can carry it out.  A daemon
\* that starts beside the runners cancels staged scans, decided ones too, and is
\* excluded here as in the run.
THEOREM DecisionsCanBeCarriedOut == Spec => [](~DaemonStarts => IntentRecoverable)
<1>1. ControlInv /\ DecisionInv => (~DaemonStarts => IntentRecoverable)
  BY DEF ControlInv, DecisionInv, JournalInv, TypeOK, IntentOK, IntentRecoverable
<1> QED
  BY <1>1, ControlInvariant, DecisionInvariant, PTL

-----------------------------------------------------------------------------
(***************************************************************************)
(* Where the steps of a runner with work in its hands lead.                *)
(***************************************************************************)
\* The steps of a runner with work in its hands.
WorkStep(r) ==
    \/ StartGuardian(r) \/ FirstCheck(r) \/ Dispatch(r)
    \/ ReportProgress(r) \/ ForceCancel(r) \/ EndWork(r)
    \/ FinalCheck(r) \/ Join(r) \/ Decide(r) \/ Commit(r) \/ Promote(r)
    \/ FinishDecided(r, "finish", "reconcile")

\* The work goes on, is to be ended, or is over.
LEMMA WorkLands ==
    ASSUME ControlInv, NEW r \in Runners, WorkStep(r)
    PROVE  /\ run[r].pc \in Working \cup {"guardian"}
           /\ \/ /\ run'[r].pc \in Working \cup {"cleanup"}
                 /\ run'[r].op = run[r].op /\ run'[r].back = run[r].back
                 /\ run'[r].since = clock
                 /\ run'[r].pc = "check" => run[r].pc = "guardian" /\ execs' = execs
                 /\ run'[r].pc = "dispatch" => run[r].pc = "check" /\ execs' = execs
              \/ run'[r].pc = "reconcile" /\ run'[r].since = clock
              \/ run'[r].pc = "exiting"
<1>1. CASE StartGuardian(r) \/ FirstCheck(r)
  BY <1>1, StartGuardianShape, FirstCheckShape
     DEF Working, Finishes, Quits, Restarts, Continues, Finals, Joins, Lands
<1>2. CASE Dispatch(r)
  BY <1>2, DispatchShape DEF Working, Continues, Finals, Lands
<1>3. CASE ReportProgress(r) \/ FinalCheck(r)
  BY <1>3, ReportShape, FinalShape DEF Working, Continues, Joins, Lands
<1>4. CASE ForceCancel(r) \/ EndWork(r)
  <2>1. run[r].pc = "work" /\ \E outcome \in Outcomes \ {"none"} : Finals(r, outcome)
    BY <1>4, EndWorkShape
  <2> QED
    BY <2>1 DEF Working, Finals, Lands
<1>5. CASE Join(r) \/ Decide(r)
  BY <1>5, JoinShape, DecideShape
     DEF Working, Finishes, Quits, Restarts, Continues, Lands
<1>6. CASE Commit(r) \/ Promote(r) \/ FinishDecided(r, "finish", "reconcile")
  BY <1>6, CommitShape, PromoteShape, FinishShape
     DEF Working, Finishes, Quits, Restarts, Continues, Lands
<1> QED
  BY <1>1, <1>2, <1>3, <1>4, <1>5, <1>6 DEF WorkStep

(***************************************************************************)
(* Cancellation proofs.  A runner that may open the store retires the      *)
(* proofs of ended records before it purges records, so a proof never      *)
(* outlives its record.                                                    *)
(***************************************************************************)
\* Every runner that is launched may open the store.
StoreGranted == \A grant \in Grants : "scan_submit" \in grant

\* A proof whose record has ended and that waits for its acknowledgement.
EndedProof(o) ==
    stage[o] = "proof" /\ o \in DOMAIN operations /\ IsTerminal(operations[o])

\* The steps from the end of reconciling to the claim.
AfterReconcile(r) == run[r].pc \in {"recover", "recovered"} \/ Sweeping(r)

\* From the end of reconciling to the claim only the proof of the record that the
\* runner itself has just ended is left.
ProofsRetired(r) ==
    AfterReconcile(r) =>
        \A o \in Ops : EndedProof(o) => run[r].pc = "ack" /\ o = Op(r)

ProofInv ==
    /\ \A o \in Ops : stage[o] = "proof" => o \in DOMAIN operations
    /\ \A r \in Runners : ProofsRetired(r)

\* A step that leaves a runner after reconciling found it there, or found every
\* proof retired.
Enters(r) ==
    AfterReconcile(r)' =>
        \/ run'[r] = run[r]
        \/ AfterReconcile(r) /\ (run[r].pc = "ack" => stage'[Op(r)] # "proof")
        \/ StoreGranted => \A o \in Ops : ~EndedProof(o)

\* Only reconciling leads to recovery, and only through it to a purge.
LEMMA MainEnters ==
    ASSUME ControlInv, DecisionInv, NEW r \in Runners, MainStep(r)
    PROVE  Enters(r)
<1>1. /\ run[r].back = "expired" => run[r].pc \in {"cleanup", "terminalize", "ack"}
      /\ run[r].pc \in HasOp => Op(r) \in Ops
      /\ run[r].pc = "reconcile" => run[r].grant \in Grants
      /\ stage \in [Ops -> Stages]
  BY DEF ControlInv, RunnerOK, ThreadOK, ThreadTypes, Op
<1>2. CASE Reconcile(r)
  <2>1. run[r].pc = "reconcile"
    BY <1>2, ReconcileShape
  <2>2. CASE Continues(r, "reconcile") \/ Quits(r)
    BY <2>2 DEF Enters, AfterReconcile, Sweeping, Continues, Lands, Quits
  <2>3. CASE \A o \in Ops : MayStore(r) /\ stage[o] = "proof" =>
                               ~Orphaned(o) /\ ~Acknowledged(o)
    BY <1>1, <2>1, <2>3
       DEF Enters, StoreGranted, EndedProof, MayStore, Acknowledged, Orphaned
  <2> QED
    BY <1>2, <2>2, <2>3, ReconcileShape
<1>3. CASE run[r].pc \in {"recover", "recovered", "expired", "purge", "claim"}
  BY <1>3 DEF Enters, AfterReconcile, Sweeping
<1>4. CASE Cleanup(r) \/ Terminalize(r)
  <2>1. /\ run[r].pc \in {"cleanup", "terminalize"}
        /\ Quits(r) \/ Continues(r, "terminalize") \/ Continues(r, "ack")
    BY <1>4, CleanupShape, TerminalizeShape
  <2> QED
    BY <2>1 DEF Enters, AfterReconcile, Sweeping, Continues, Lands, Quits
<1>5. CASE Acknowledge(r)
  <2>1. run[r].pc = "ack" /\ Op(r) \in Ops /\ stage'[Op(r)] # "proof"
    BY <1>1, <1>5, AcknowledgeShape DEF HasOp
  <2>2. run[r].back # "expired" => run'[r].pc = "reconcile"
    BY <1>5, AcknowledgeShape DEF Restarts, Lands
  <2> QED
    BY <2>1, <2>2 DEF Enters, AfterReconcile, Sweeping
<1>6. CASE TryGuard(r) \/ Leave(r)
  <2>1. run'[r].pc \in {"off", "start", "reconcile"}
    BY <1>6, ProcessShape DEF Restarts, Lands
  <2> QED
    BY <2>1 DEF Enters, AfterReconcile, Sweeping
<1>7. CASE Conflict(r)
  BY <1>7, ConflictShape DEF Enters, AfterReconcile, Sweeping, Quits
<1>8. CASE WorkStep(r)
  <2>1. /\ run[r].pc \notin {"cleanup", "terminalize", "ack"}
        /\ \/ run'[r].pc = "cleanup" /\ run'[r].back = run[r].back
           \/ run'[r].pc \in Working \cup {"exiting", "reconcile"}
    BY <1>8, WorkLands DEF Working
  <2> QED
    BY <1>1, <2>1 DEF Enters, AfterReconcile, Sweeping, Working
<1> QED
  <2>1. /\ Recover(r) => run[r].pc = "recover"
        /\ FinishDecided(r, "recovered", "recover") => run[r].pc = "recovered"
        /\ Expire(r) => run[r].pc = "expired"
        /\ PurgeStep(r) => run[r].pc = "purge"
        /\ Claim(r) => run[r].pc = "claim"
    BY RecoverShape, FinishShape, ExpireShape, PurgeStepShape, ClaimStepShape
  <2> QED
    BY <1>2, <1>3, <1>4, <1>5, <1>6, <1>7, <1>8, <2>1 DEF MainStep, WorkStep

\* Every step, of whichever process, enters as it may.
LEMMA StepEnters ==
    ASSUME ControlInv, DecisionInv, [Next]_vars, NEW q \in Runners
    PROVE  Enters(q)
<1>1. CASE Clock \/ DaemonStart \/ DaemonStop \/ (\E o \in Ops : ClientStep(o)) \/ UNCHANGED vars
  <2>1. run' = run
    BY <1>1, ClientWrites
       DEF ControlInv, Clock, DaemonStart, DaemonStop, runnerVars, vars
  <2> QED
    BY <2>1 DEF Enters
<1>2. ASSUME NEW r \in Runners,
             \/ \E grant \in Grants : Launch(r, grant)
             \/ MainStep(r) \/ GuardianStep(r) \/ Crash(r)
      PROVE  Enters(q)
  <2>1. CASE GuardianStep(r)
    <3>1. run' = run
      BY <2>1 DEF GuardianStep, GuardianSample, GuardianRenew
    <3> QED
      BY <3>1 DEF Enters
  <2>2. CASE ~GuardianStep(r)
    <3>1. Others(r)
      BY <1>2, <2>2, MainControl, ProcessControl DEF Moved
    <3>2. CASE q # r
      BY <3>1, <3>2 DEF Enters, Others
    <3>3. CASE q = r /\ MainStep(r)
      BY <3>3, MainEnters
    <3>4. CASE q = r /\ (Crash(r) \/ \E grant \in Grants : Launch(r, grant))
      <4>1. run'[r].pc \in {"off", "start", "reconcile"}
        BY <3>4, ProcessShape DEF Restarts, Lands
      <4> QED
        BY <3>4, <4>1 DEF Enters, AfterReconcile, Sweeping
    <3> QED
      BY <1>2, <2>2, <3>2, <3>3, <3>4
  <2> QED
    BY <2>1, <2>2
<1> QED
  BY <1>1, <1>2 DEF Next

\* An ended proof was one before, or a runner has just ended its record.
LEMMA EndedProofs ==
    ASSUME NEW o \in Ops, OpMove(o), ControlInv, EndedProof(o)'
    PROVE  EndedProof(o) \/ \E r \in Runners : Terminalized(r, o)
<1>1. stage'[o] = "proof" /\ o \in DOMAIN operations' /\ IsTerminal(operations'[o])
  BY DEF EndedProof
<1>2. stage[o] = "proof"
  BY <1>1 DEF OpMove, StageMove, IsTerminal, LiveStatus, TerminalStatus
<1>3. o \in DOMAIN operations
  BY <1>1, <1>2 DEF OpMove, RecordMove
<1>4. operations[o].status \in LiveStatus \/ IsTerminal(operations[o])
  BY <1>3 DEF ControlInv, JournalInv, TypeOK, Row, Status, IsTerminal
<1> QED
  BY <1>1, <1>2, <1>3, <1>4 DEF EndedProof, OpMove, RecordMove

\* No step loses the record of a proof, or leaves one unretired before a purge.
LEMMA StepKeepsProofs ==
    ASSUME ControlInv, DecisionInv, StoreGranted, ProofInv, [Next]_vars
    PROVE  ProofInv'
<1>1. \A o \in Ops : OpMove(o)
  BY StepIsSteady
<1>2. ASSUME NEW o \in Ops, stage'[o] = "proof" PROVE o \in DOMAIN operations'
  <2>1. OpMove(o) /\ RecordOK(o)
    BY <1>1 DEF DecisionInv
  <2>2. CASE stage[o] # "proof"
    BY <1>2, <2>1, <2>2 DEF OpMove, StageMove
  <2>3. CASE stage[o] = "proof" /\ o \notin DOMAIN operations'
    <3>1. o \in DOMAIN operations /\ operations[o].kind = "scan_submit"
      BY <2>1, <2>3 DEF ProofInv, RecordOK
    <3>2. IsTerminal(operations[o])
      BY <2>1, <2>3, <3>1 DEF OpMove, RecordMove, CleanupKinds
    <3>3. PICK r \in Runners : run[r].pc = "purge"
      BY <2>1, <2>3, <3>1 DEF OpMove, RecordMove
    <3> QED
      BY <2>3, <3>1, <3>2, <3>3
         DEF ProofInv, ProofsRetired, AfterReconcile, Sweeping, EndedProof
  <2> QED
    BY <2>2, <2>3
<1>3. ASSUME NEW q \in Runners, AfterReconcile(q)', NEW o \in Ops, EndedProof(o)'
      PROVE  run'[q].pc = "ack" /\ o = run'[q].op
  <2>1. EndedProof(o) \/ \E r \in Runners : Terminalized(r, o)
    BY <1>1, <1>3, EndedProofs
  <2>2. ASSUME NEW r \in Runners, Terminalized(r, o)
        PROVE  run'[q].pc = "ack" /\ o = run'[q].op
    <3>1. ControlInv'
      BY StepKeepsControl
    <3>2. guard' = r /\ guard' = q
      BY <1>3, <2>2, <3>1
         DEF ControlInv, RunnerOK, ThreadOK, Terminalized, AfterReconcile, Sweeping,
             Holding, Pcs
    <3> QED
      BY <2>2, <3>2 DEF Terminalized
  <2>3. CASE EndedProof(o)
    <3>1. Enters(q) /\ stage'[o] = "proof" /\ ProofsRetired(q)
      BY <1>3, StepEnters DEF EndedProof, ProofInv
    <3>2. CASE run'[q] = run[q]
      BY <1>3, <2>3, <3>1, <3>2 DEF ProofsRetired, AfterReconcile, Sweeping, Op
    <3> QED
      BY <1>3, <2>3, <3>1, <3>2 DEF Enters, ProofsRetired
  <2> QED
    BY <2>1, <2>2, <2>3
<1> QED
  BY <1>2, <1>3 DEF ProofInv, ProofsRetired, Op

\* When every runner may open the store, a proof has its record until it is retired.
THEOREM ProofInvariant == Spec => [](StoreGranted => ProofInv)
<1>1. Init => ProofInv
  <2>1. Init => (\A r \in Runners : run[r].pc = "off") /\ \A o \in Ops : stage[o] = "none"
    BY DEF Init, Off
  <2> QED
    BY <2>1 DEF ProofInv, ProofsRetired, AfterReconcile, Sweeping
<1>2. ControlInv /\ DecisionInv /\ (StoreGranted => ProofInv) /\ [Next]_vars =>
         (StoreGranted => ProofInv)'
  BY StepKeepsProofs DEF StoreGranted
<1> QED
  BY <1>1, <1>2, ControlInvariant, DecisionInvariant, PTL DEF Spec

\* Cancelled, failed or expired work never becomes the snapshot, and completed work
\* leaves nothing staged, through crashes at every step, when every runner may open
\* the store.  (A runner that may not purges records without looking for proofs,
\* runner.rs:2627, so the hypothesis is needed.)
THEOREM StoreMatchesRecords == Spec => [](StoreGranted => StageMatchesRecord)
<1>1. DecisionInv /\ ProofInv => StageMatchesRecord
  <2> SUFFICES ASSUME DecisionInv, ProofInv, NEW o \in Ops
               PROVE  /\ stage[o] = "published" =>
                            \/ o \in DOMAIN intents
                            \/ o \notin DOMAIN operations
                            \/ operations[o].status = "completed"
                      /\ stage[o] \in {"staging", "proof"} =>
                            /\ o \in DOMAIN operations
                            /\ stage[o] = "staging" => ~IsTerminal(operations[o])
                            /\ operations[o].status # "completed"
    BY DEF StageMatchesRecord
  <2> QED
    BY DEF DecisionInv, StageOK, ProofInv, IsTerminal, TerminalStatus
<1> QED
  BY <1>1, DecisionInvariant, ProofInvariant, PTL

-----------------------------------------------------------------------------
(***************************************************************************)
(* Leases.  What a step may do to the lease of a record.                   *)
(***************************************************************************)
\* The steps at which a runner has work in its hands.
Busied == Working \cup {"guardian"}

\* A lease stays as it is, is renewed beside the work of its runner, or is given
\* by a claim.
LeaseMove(o) ==
    o \in DOMAIN operations' /\ operations'[o].token # NoToken =>
        \/ /\ o \in DOMAIN operations /\ operations[o].token # NoToken
           /\ \/ operations'[o].exp = operations[o].exp
              \/ \E r \in Runners : run[r].pc \in Busied /\ o = Op(r)
        \/ \E r \in Runners :
              /\ run[r].pc = "claim" /\ run'[r].pc = "guardian" /\ run[r].at \in 0..clock
              /\ ClaimNext(o, run[r].grant, r, run[r].at)

\* A lease says that its record was claimed and is being worked on.
LEMMA Leased ==
    ASSUME JournalInv, NEW o \in DOMAIN operations
    PROVE  /\ operations[o].token # NoToken =>
                 /\ operations[o].status \in LeasedStatus
                 /\ operations[o].claimed # NoTime
           /\ operations[o].token = NoToken => operations[o].exp = NoTime
           /\ operations[o] \in Row
BY DEF JournalInv, TypeOK, RowsDecodable, RowOK, LeaseOK, HandoffOK

\* A call that leaves the leases of live records alone.
LEMMA PlainLeases ==
    ASSUME JournalInv', DOMAIN operations' \subseteq DOMAIN operations,
           \A x \in DOMAIN operations' :
              operations'[x] = operations[x] \/ operations'[x].status \in TerminalStatus
    PROVE  \A o \in Ops : LeaseMove(o)
<1>1. \A x \in DOMAIN operations' :
         operations'[x].token # NoToken => operations'[x].status \in LeasedStatus
  BY DEF JournalInv, TypeOK, RowsDecodable, RowOK, LeaseOK
<1> QED
  BY <1>1 DEF LeaseMove, LeasedStatus, TerminalStatus

\* Clients give no lease.
LEMMA ClientLeases ==
    ASSUME ControlInv, NEW p \in Ops, ClientStep(p)
    PROVE  \A o \in Ops : LeaseMove(o)
<1>1. \A x \in DOMAIN operations : operations[x] \in Row
  BY DEF ControlInv, JournalInv, TypeOK
<1>2. CASE UNCHANGED journalVars
  BY <1>2 DEF LeaseMove, journalVars
<1>3. ASSUME NEW kind, NEW key, NEW input, NEW deadline, Submit(p, kind, key, input, deadline)
      PROVE  \A o \in Ops : LeaseMove(o)
  <2>1. operations' = With(operations, p, NewRow(kind, key, input, deadline, clock))
    BY <1>3 DEF Submit
  <2>2. operations'[p].token = NoToken
    BY <2>1 DEF With, NewRow
  <2>3. \A o \in DOMAIN operations' \ {p} :
           o \in DOMAIN operations /\ operations'[o] = operations[o]
    BY <2>1 DEF With
  <2> QED
    BY <2>2, <2>3 DEF LeaseMove
<1>4. CASE Cancel(p) \/ CancelBeforeLaunch(p)
  <2>1. p \in DOMAIN operations /\ operations[p] \in Row
    BY <1>1, <1>4 DEF Cancel, CancelBeforeLaunch, Cancellable, Loadable
  <2>2. /\ CancelRow(operations[p], clock).token = operations[p].token
        /\ CancelRow(operations[p], clock).exp = operations[p].exp
    BY <2>1 DEF CancelRow, Row
  <2>3. CancelQueuedRow(operations[p], clock).token = NoToken
    BY <2>1 DEF CancelQueuedRow, EndRow, Row
  <2>4. \/ operations' = [operations EXCEPT ![p] = CancelRow(operations[p], clock)]
        \/ operations' = [operations EXCEPT ![p] = CancelQueuedRow(operations[p], clock)]
    BY <1>4 DEF Cancel, CancelBeforeLaunch, Update, Write
  <2> QED
    BY <2>1, <2>2, <2>3, <2>4 DEF LeaseMove
<1> QED
  BY <1>2, <1>3, <1>4 DEF ClientStep, SubmitWork, CancelWork, Withdraw

\* A call of the runner with the work.
LEMMA HolderLeases ==
    ASSUME JournalInv, NEW r \in Runners, run[r].pc \in Busied, Op(r) \in Ops, NEW tok, NEW t,
           \/ RenewLease(Op(r), tok, t)
           \/ \E done, total : UpdateProgress(Op(r), tok, done, total, t)
           \/ CommitCompletionIntent(Op(r), tok, t)
    PROVE  \A o \in Ops : LeaseMove(o)
<1>1. /\ DOMAIN operations' = DOMAIN operations
      /\ operations'[Op(r)].token = operations[Op(r)].token
      /\ \A x \in DOMAIN operations \ {Op(r)} : operations'[x] = operations[x]
  BY HolderWrites
<1> QED
  BY <1>1 DEF LeaseMove

\* Every step moves every lease as it may.
LEMMA StepMovesLeases ==
    ASSUME ControlInv, DecisionInv, [Next]_vars
    PROVE  \A o \in Ops : LeaseMove(o)
<1>1. JournalInv /\ JournalInv'
  BY StepKeepsControl DEF ControlInv
<1>2. ASSUME operations' = operations PROVE \A o \in Ops : LeaseMove(o)
  BY <1>2 DEF LeaseMove
<1>3. ASSUME NEW o \in Ops, NEW status \in TerminalStatus, Ends(o, status)
      PROVE  \A x \in Ops : LeaseMove(x)
  <2>1. \A x \in DOMAIN operations' :
           operations'[x] = operations[x] \/ operations'[x].status \in TerminalStatus
    BY <1>3 DEF Ends
  <2> QED
    BY <1>1, <1>3, <2>1, PlainLeases DEF Ends
<1>4. ASSUME NEW r \in Runners, MainStep(r) PROVE \A o \in Ops : LeaseMove(o)
  <2>1. /\ run[r].pc \in HasOp => Op(r) \in Ops
        /\ run[r].pc = "claim" => run[r].at \in 0..clock
    BY DEF ControlInv, RunnerOK, ThreadOK, Op, Sweeping
  <2>2. CASE PurgeStep(r)
    BY <1>1, <2>2, PurgeStepShape, PurgeWrites, PlainLeases DEF TerminalStatus
  <2>3. CASE Claim(r)
    <3>1. CASE ClaimNone(run[r].grant, run[r].at)
      BY <1>1, <3>1, ClaimNoneWrites, PlainLeases DEF TerminalStatus
    <3>2. CASE UNCHANGED journalVars
      BY <1>2, <3>2 DEF journalVars
    <3>3. ASSUME NEW p \in Ops, ClaimNext(p, run[r].grant, r, run[r].at),
                 Lands(r, "guardian")
          PROVE  \A o \in Ops : LeaseMove(o)
      <4>1. run[r].pc = "claim" /\ run[r].at \in 0..clock
        BY <2>3, ClaimStepShape
      <4>2. /\ DOMAIN operations' = DOMAIN operations
            /\ \A x \in DOMAIN operations \ {p} :
                  operations'[x] = operations[x] \/ operations'[x].status = "failed"
        BY <1>1, <3>3, <4>1, ClaimWrites
      <4>3. \A x \in DOMAIN operations' :
               operations'[x].token # NoToken => operations'[x].status \in LeasedStatus
        BY <1>1 DEF JournalInv, TypeOK, RowsDecodable, RowOK, LeaseOK
      <4> QED
        BY <3>3, <4>1, <4>2, <4>3 DEF LeaseMove, LeasedStatus, Lands
    <3> QED
      BY <2>3, <3>1, <3>2, <3>3, ClaimStepShape
  <2>4. CASE FinishDecided(r, "recovered", "recover") \/ FinishDecided(r, "finish", "reconcile")
    <3>1. /\ run[r].pc \in HasOp
          /\ \/ \E t \in 0..clock : FinishCompletionIntent(Op(r), t)
             \/ UNCHANGED journalVars
      BY <2>4, FinishShape DEF HasOp
    <3> QED
      BY <1>1, <1>2, <1>3, <2>1, <3>1, EndWrites DEF journalVars, TerminalStatus
  <2>5. CASE StartGuardian(r) \/ ReportProgress(r) \/ Commit(r)
    <3>1. /\ run[r].pc \in Busied /\ run[r].pc \in HasOp
          /\ \/ UNCHANGED journalVars
             \/ \E t : \/ RenewLease(Op(r), r, t)
                       \/ \E done, total : UpdateProgress(Op(r), r, done, total, t)
                       \/ CommitCompletionIntent(Op(r), r, t)
      BY <2>5, StartGuardianShape, ReportShape, CommitShape DEF Busied, Working, HasOp
    <3> QED
      BY <1>1, <1>2, <2>1, <3>1, HolderLeases DEF journalVars
  <2>6. CASE Decide(r) \/ Terminalize(r)
    <3>1. /\ run[r].pc \in HasOp
          /\ \/ UNCHANGED journalVars
             \/ \E t \in 0..clock, status \in TerminalStatus : Finish(Op(r), r, status, t)
             \/ FailDeadline(Op(r), TRUE, Rec(r).deadline)
      BY <2>6, DecideShape, TerminalizeShape DEF HasOp, TerminalStatus
    <3> QED
      BY <1>1, <1>2, <1>3, <2>1, <3>1, EndWrites DEF journalVars, TerminalStatus
  <2>7. CASE UNCHANGED journalVars
    BY <1>2, <2>7 DEF journalVars
  <2>8. \/ PurgeStep(r) \/ Claim(r)
        \/ FinishDecided(r, "recovered", "recover") \/ FinishDecided(r, "finish", "reconcile")
        \/ StartGuardian(r) \/ ReportProgress(r) \/ Commit(r)
        \/ Decide(r) \/ Terminalize(r) \/ UNCHANGED journalVars
    BY <1>4 DEF MainStep, TryGuard, Reconcile, Recover, Expire, FirstCheck, Dispatch,
       ForceCancel, EndWork, FinalCheck, Join, Promote, Cleanup, Acknowledge, Conflict, Leave
  <2> QED
    BY <2>2, <2>3, <2>4, <2>5, <2>6, <2>7, <2>8
<1>5. ASSUME NEW r \in Runners, GuardianStep(r) PROVE \A o \in Ops : LeaseMove(o)
  <2>1. CASE UNCHANGED journalVars
    BY <1>2, <2>1 DEF journalVars
  <2>2. CASE guardian[r].pc = "sampled" /\ RenewLease(Op(r), r, guardian[r].at)
    <3>1. run[r].pc \in Busied /\ Op(r) \in Ops
      BY <2>2 DEF ControlInv, RunnerOK, ThreadOK, GuardianOK, Guarded, Busied, Working, HasOp, Op
    <3> QED
      BY <1>1, <2>2, <3>1, HolderLeases
  <2> QED
    BY <1>5, <2>1, <2>2 DEF GuardianStep, GuardianSample, GuardianRenew
<1>6. CASE Clock \/ DaemonStart \/ DaemonStop \/ UNCHANGED vars
  BY <1>2, <1>6 DEF Clock, Tick, DaemonStart, DaemonStop, vars, journalVars
<1>7. ASSUME NEW r \in Runners, Crash(r) \/ \E grant \in Grants : Launch(r, grant)
      PROVE  \A o \in Ops : LeaseMove(o)
  BY <1>2, <1>7 DEF Crash, Launch, journalVars
<1> QED
  BY <1>4, <1>5, <1>6, <1>7, ClientLeases DEF Next

-----------------------------------------------------------------------------
(***************************************************************************)
(* Threads.  Where a step may find and leave a runner.                     *)
(***************************************************************************)
\* The steps from a claim to the dispatch.
Claimed == {"guardian", "check", "dispatch"}

\* The runner has just claimed the operation it goes on with.
Claims(r) ==
    /\ run[r].pc = "claim" /\ run[r].at \in 0..clock
    /\ run'[r].pc = "guardian" /\ run'[r].op \in Ops
    /\ ClaimNext(run'[r].op, run[r].grant, r, run[r].at)
    /\ execs' = execs

\* A thread that moves has read the clock; the reading of the sweep is made after
\* the recovery and kept; work comes from a claim.
RunMove(r) ==
    /\ run'[r].pc \in Holding \ {"exiting"} => run'[r] = run[r] \/ run'[r].since = clock
    /\ Sweeping(r)' =>
          \/ run'[r] = run[r]
          \/ Sweeping(r) /\ run'[r].at = run[r].at
          \/ run[r].pc = "recover" /\ run'[r].at \in Fresh(r)
    /\ run'[r].pc \in Busied =>
          (run[r].pc \in Busied /\ run'[r].op = run[r].op) \/ Claims(r)
    /\ run'[r].pc \in Claimed =>
          \/ run[r].pc \in Claimed /\ run'[r].op = run[r].op /\ execs' = execs
          \/ Claims(r)

\* The main thread moves as it may.
LEMMA MainRunMove ==
    ASSUME ControlInv, NEW r \in Runners, MainStep(r)
    PROVE  RunMove(r)
<1>1. run[r].back = "expired" => run[r].pc \in {"cleanup", "terminalize", "ack"}
  BY DEF ControlInv, RunnerOK, ThreadOK
<1>2. CASE WorkStep(r)
  <2>1. /\ run[r].pc \in Busied
        /\ \/ /\ run'[r].pc \in Working \cup {"cleanup"}
              /\ run'[r].op = run[r].op /\ run'[r].back = run[r].back
              /\ run'[r].since = clock
              /\ run'[r].pc \in {"check", "dispatch"} =>
                    run[r].pc \in Claimed /\ execs' = execs
           \/ run'[r].pc = "reconcile" /\ run'[r].since = clock
           \/ run'[r].pc = "exiting"
    BY <1>2, WorkLands DEF Busied, Claimed
  <2>2. run[r].back # "expired"
    BY <1>1, <2>1 DEF Busied, Working
  <2> QED
    BY <2>1, <2>2 DEF RunMove, Sweeping, Busied, Working, Claimed
<1>3. CASE Claim(r)
  <2>1. CASE Quits(r)
    BY <2>1 DEF RunMove, Quits, Sweeping, Busied, Working, Claimed
  <2>2. CASE ~Quits(r)
    <3>1. Claims(r) /\ run'[r].since = clock
      BY <1>3, <2>2, ClaimStepShape DEF Claims, Lands
    <3> QED
      BY <3>1 DEF RunMove, Claims, Sweeping
  <2> QED
    BY <2>1, <2>2
<1>4. CASE TryGuard(r) \/ Leave(r)
  <2>1. \/ run'[r].pc \in {"off", "start"}
        \/ run'[r].pc = "reconcile" /\ run'[r].since = clock
    BY <1>4, ProcessShape DEF Restarts, Lands
  <2> QED
    BY <2>1 DEF RunMove, Holding, Sweeping, Busied, Working, Claimed
<1>5. CASE \/ Reconcile(r) \/ Recover(r) \/ FinishDecided(r, "recovered", "recover")
           \/ Expire(r) \/ PurgeStep(r)
  <2>1. \/ run'[r].pc = "exiting"
        \/ run'[r].pc \in {"reconcile", "recover", "recovered"} /\ run'[r].since = clock
        \/ /\ run[r].pc = "recover" /\ run'[r].pc = "expired"
           /\ run'[r].at \in Fresh(r) /\ run'[r].since = clock
        \/ /\ Sweeping(r) /\ run'[r].pc \in {"purge", "claim", "cleanup"}
           /\ run'[r].at = run[r].at /\ run'[r].since = clock
    BY <1>5, ReconcileShape, RecoverShape, FinishShape, ExpireShape, PurgeStepShape
       DEF Quits, Restarts, Continues, Lands, Sweeping
  <2> QED
    BY <2>1 DEF RunMove, Sweeping, Busied, Working, Claimed
<1>6. CASE Cleanup(r) \/ Terminalize(r) \/ Acknowledge(r)
  <2>1. \/ run'[r].pc = "exiting"
        \/ /\ run[r].pc \in {"cleanup", "terminalize"} /\ run'[r].back = run[r].back
           /\ run'[r].pc \in {"terminalize", "ack"}
           /\ run'[r].at = run[r].at /\ run'[r].since = clock
        \/ run'[r].pc = "reconcile" /\ run'[r].since = clock
        \/ /\ run[r].pc = "ack" /\ run[r].back = "expired" /\ run'[r].pc = "expired"
           /\ run'[r].at = run[r].at /\ run'[r].since = clock
    <3>1. CASE Cleanup(r)
      BY <3>1, CleanupShape DEF Quits, Restarts, Continues, Lands
    <3>2. CASE Terminalize(r)
      BY <3>2, TerminalizeShape DEF Quits, Restarts, Continues, Lands
    <3>3. CASE Acknowledge(r)
      BY <3>3, AcknowledgeShape DEF Quits, Restarts, Continues, Lands
    <3> QED BY <1>6, <3>1, <3>2, <3>3
  <2>2. run'[r].pc \in Holding \ {"exiting"} => run'[r].since = clock
    BY <2>1
  <2>3. Sweeping(r)' => Sweeping(r) /\ run'[r].at = run[r].at
    BY <2>1 DEF Sweeping
  <2>4. run'[r].pc \notin Busied \cup Claimed
    BY <2>1 DEF Busied, Working, Claimed
  <2> QED
    BY <2>2, <2>3, <2>4 DEF RunMove
<1>7. CASE Conflict(r)
  BY <1>7, ConflictShape DEF RunMove, Quits, Sweeping, Busied, Working, Claimed
<1> QED
  BY <1>2, <1>3, <1>4, <1>5, <1>6, <1>7 DEF MainStep, WorkStep

\* Every thread moves as it may, whoever takes the step.
LEMMA StepMovesRunners ==
    ASSUME ControlInv, [Next]_vars, NEW q \in Runners
    PROVE  RunMove(q)
<1>1. ASSUME run'[q] = run[q], execs' = execs \/ run[q].pc \notin Claimed PROVE RunMove(q)
  BY <1>1 DEF RunMove
<1>2. CASE Clock \/ DaemonStart \/ DaemonStop \/ (\E o \in Ops : ClientStep(o)) \/ UNCHANGED vars
  <2>1. run' = run /\ execs' = execs
    BY <1>2, ClientWrites
       DEF ControlInv, Clock, DaemonStart, DaemonStop, runnerVars, storeVars, vars
  <2> QED
    BY <1>1, <2>1
<1>3. ASSUME NEW r \in Runners, GuardianStep(r) PROVE RunMove(q)
  <2>1. run' = run /\ execs' = execs
    BY <1>3 DEF GuardianStep, GuardianSample, GuardianRenew, storeVars
  <2> QED
    BY <1>1, <2>1
<1>4. ASSUME NEW r \in Runners, Crash(r) \/ \E grant \in Grants : Launch(r, grant)
      PROVE  RunMove(q)
  <2>1. /\ Others(r) /\ execs' = execs
        /\ \/ run'[r].pc \in {"off", "start"}
           \/ run'[r].pc = "reconcile" /\ run'[r].since = clock
    BY <1>4, ProcessShape DEF Restarts, Lands
  <2>2. CASE q = r
    BY <2>1, <2>2 DEF RunMove, Holding, Sweeping, Busied, Working, Claimed
  <2> QED
    BY <1>1, <2>1, <2>2 DEF Others
<1>5. ASSUME NEW r \in Runners, MainStep(r) PROVE RunMove(q)
  <2>1. CASE q = r
    BY <1>5, <2>1, MainRunMove
  <2>2. CASE q # r
    <3>1. Others(r) /\ (guard = r \/ execs' = execs)
      BY <1>5, MainControl, ProcessShape DEF Moved
    <3>2. run[q].pc \in Claimed => guard = q
      BY DEF ControlInv, RunnerOK, ThreadOK, Claimed, Holding, Pcs
    <3> QED
      BY <1>1, <2>2, <3>1, <3>2 DEF Others
  <2> QED
    BY <2>1, <2>2
<1> QED
  BY <1>2, <1>3, <1>4, <1>5 DEF Next

\* A step adds at most one record to the table.
LEMMA TableGrows ==
    ASSUME JournalInv, [JournalNext]_journalVars
    PROVE  \E p : DOMAIN operations' \subseteq DOMAIN operations \cup {p}
<1>1. ASSUME DOMAIN operations' \subseteq DOMAIN operations
      PROVE  \E p : DOMAIN operations' \subseteq DOMAIN operations \cup {p}
  BY <1>1
<1>2. CASE Tick \/ UNCHANGED journalVars
  BY <1>1, <1>2 DEF Tick, journalVars
<1>3. ASSUME NEW o \in Ops, NEW kind, NEW key, NEW input, NEW deadline,
             Submit(o, kind, key, input, deadline)
      PROVE  \E p : DOMAIN operations' \subseteq DOMAIN operations \cup {p}
  BY <1>3 DEF Submit, With
<1>4. ASSUME NEW o \in Ops, Cancel(o) \/ CancelBeforeLaunch(o)
      PROVE  DOMAIN operations' \subseteq DOMAIN operations
  BY <1>4 DEF Cancel, CancelBeforeLaunch, Update, Write
<1>5. ASSUME NEW t \in 0..clock, RunnerNext(t)
      PROVE  DOMAIN operations' \subseteq DOMAIN operations
  <2>1. ASSUME NEW o \in Ops, NEW grant, NEW tok, ClaimNext(o, grant, tok, t)
        PROVE  DOMAIN operations' \subseteq DOMAIN operations
    BY <2>1, ClaimWrites
  <2>2. ASSUME NEW grant, ClaimNone(grant, t)
        PROVE  DOMAIN operations' \subseteq DOMAIN operations
    BY <2>2, ClaimNoneWrites
  <2>3. ASSUME NEW o \in Ops, NEW tok, HolderNext(o, tok, t)
        PROVE  DOMAIN operations' \subseteq DOMAIN operations
    BY <2>3 DEF HolderNext, AcquireLease, RenewLease, ReleaseLease, UpdateProgress,
       Finish, CommitCompletionIntent, Update, Write
  <2>4. ASSUME NEW o \in Ops, NEW cleaned,
               FinishCompletionIntent(o, t) \/ FailDeadline(o, cleaned, t)
        PROVE  DOMAIN operations' \subseteq DOMAIN operations
    BY <2>4 DEF FinishCompletionIntent, FailDeadline, Update, Write
  <2>5. CASE Purge(t)
    BY <2>5, PurgeWrites
  <2> QED
    BY <1>5, <2>1, <2>2, <2>3, <2>4, <2>5 DEF RunnerNext
<1> QED
  BY <1>1, <1>2, <1>3, <1>4, <1>5 DEF JournalNext, ClientNext

-----------------------------------------------------------------------------
(***************************************************************************)
(* The project's own code.  A build that was claimed is never claimed      *)
(* again: by the time another claim is made its lease is lost, and the     *)
(* claim fails it first.  A claim fails a batch of lost builds only, so    *)
(* the invariant says that the claimed builds in the table that are not    *)
(* overdue are never two.                                                  *)
(***************************************************************************)
\* A build that a runner has claimed and nobody has ended.
ClaimedBuild(o) ==
    /\ o \in DOMAIN operations
    /\ operations[o].kind = "resolve_build_submit"
    /\ operations[o].token # NoToken

\* No claim is dated after the clock readings of the runner that goes on.
ClaimedBefore(r) ==
    \A o \in DOMAIN operations : operations[o].token # NoToken =>
        /\ run[r].pc \in Holding \ {"exiting"} => operations[o].claimed <= run[r].since
        /\ Sweeping(r) => operations[o].claimed <= run[r].at

\* One claimed build is overdue before the next is claimed.
BuildsApart ==
    \A o, p \in Ops : o # p /\ ClaimedBuild(o) /\ ClaimedBuild(p) =>
        \/ operations[o].deadline <= operations[p].claimed
        \/ operations[p].deadline <= operations[o].claimed

ExecInv ==
    /\ IsFiniteSet(DOMAIN operations)
    /\ \A o \in DOMAIN operations :
          operations[o].token # NoToken => operations[o].claimed <= clock
    /\ \A r \in Runners : ClaimedBefore(r)
    /\ BuildsApart
    /\ \A r \in Runners : run[r].pc \in Claimed => execs[Op(r)] = 0
    /\ AtMostOnceExec

\* A claim that finds a claimed build with a lost lease fails it.
LEMMA LostBuildIsFailed ==
    ASSUME ControlInv, DecisionInv, ExecInv, NEW r \in Runners, run[r].pc = "claim",
           "resolve_build_submit" \in run[r].grant,
           NEW lost \in LostBatches(run[r].grant, run[r].at), MayFailLost(lost, run[r].at),
           NEW p \in LostProjectExec(run[r].at), operations[p].token # NoToken
    PROVE  p \in lost
<1> DEFINE t == run[r].at
<1>1. /\ \A o \in DOMAIN operations : operations[o] \in Row /\ o \in Ops
      /\ \A o \in DOMAIN operations : operations[o].token # NoToken =>
            operations[o].claimed <= t
      /\ t \in Nat
  BY DEF ControlInv, JournalInv, TypeOK, ExecInv, ClaimedBefore, Sweeping, RunnerOK, ThreadOK
<1>2. /\ LostProjectExec(t) \subseteq DOMAIN operations
      /\ \A o \in LostProjectExec(t) :
            /\ operations[o].kind = "resolve_build_submit"
            /\ operations[o].status \in LeasedStatus /\ t < operations[o].deadline
  BY DEF LostProjectExec
<1>3. /\ lost \subseteq LostProjectExec(t)
      /\ Cardinality(lost) = Earlier(PurgeBatch, Cardinality(LostProjectExec(t)))
  BY DEF LostBatches, OldestBatches
<1>4. IsFiniteSet(LostProjectExec(t))
  BY <1>2, FS_Subset DEF ExecInv
<1>5. lost # {}
  <2>1. Cardinality(LostProjectExec(t)) \in Nat /\ Cardinality(LostProjectExec(t)) # 0
    BY <1>4, FS_EmptySet, FS_CardinalityType
  <2>2. Cardinality(lost) # 0
    BY <1>3, <2>1, TimeAssumption DEF Earlier
  <2> QED
    BY <2>2, FS_EmptySet
<1>6. PICK x \in lost : TRUE
  BY <1>5
<1>7. x \in DOMAIN operations /\ operations[x] \in Row /\ operations[x].status \in LeasedStatus
  BY <1>1, <1>2, <1>3
<1>8. operations[x].claimed # NoTime
  <2>1. HandoffOK(UnknownRow(operations[x], t))
    BY DEF MayFailLost, RowOK
  <2>2. /\ UnknownRow(operations[x], t).status = "failed"
        /\ UnknownRow(operations[x], t).payload = "state_unknown"
        /\ UnknownRow(operations[x], t).claimed = operations[x].claimed
    BY <1>7 DEF UnknownRow, Row
  <2> QED
    BY <2>1, <2>2 DEF HandoffOK
<1>9. operations[x].token # NoToken
  BY <1>1, <1>7, <1>8 DEF DecisionInv, RecordOK, LiveStatus, LeasedStatus
<1>10. ClaimedBuild(x) /\ ClaimedBuild(p) /\ x \in Ops /\ p \in Ops
  BY <1>1, <1>2, <1>3, <1>9 DEF ClaimedBuild
<1>11. /\ operations[x].claimed <= t /\ operations[p].claimed <= t
       /\ t < operations[x].deadline /\ t < operations[p].deadline
       /\ operations[x].claimed \in Int /\ operations[p].claimed \in Int
       /\ operations[x].deadline \in Nat /\ operations[p].deadline \in Nat
  BY <1>1, <1>2, <1>3, <1>9, <1>10 DEF ClaimedBuild, Row
<1>12. x = p
  BY <1>1, <1>10, <1>11 DEF ExecInv, BuildsApart
<1> QED
  BY <1>12

\* What a claim finds: the operation has run no code yet, a build is claimed for the
\* first time, and no other claimed build can still be run.
LEMMA ClaimFinds ==
    ASSUME ControlInv, DecisionInv, ExecInv, NEW r \in Runners, run[r].pc = "claim",
           run[r].at \in 0..clock, NEW o \in Ops,
           ClaimNext(o, run[r].grant, r, run[r].at)
    PROVE  /\ o \in DOMAIN operations /\ execs[o] = 0
           /\ operations'[o].claimed \in {operations[o].claimed, run[r].at}
           /\ operations[o].token = NoToken => operations'[o].claimed = run[r].at
           /\ operations[o].kind = "resolve_build_submit" =>
                 /\ operations'[o].claimed = run[r].at
                 /\ \A p \in DOMAIN operations \ {o} :
                       ClaimedBuild(p) /\ operations'[p].token # NoToken =>
                          operations[p].deadline <= run[r].at
<1> DEFINE t == run[r].at
<1>1. /\ \A x \in DOMAIN operations : operations[x] \in Row
      /\ RecordOK(o) /\ JournalInv /\ t \in Nat
  BY DEF ControlInv, JournalInv, TypeOK, DecisionInv
<1>2. PICK lost \in LostBatches(run[r].grant, t) :
              /\ MayFailLost(lost, t) /\ lost \subseteq LostProjectExec(t)
              /\ o \in DOMAIN operations \ lost
              /\ o \in OldestClaimable(FailLost(lost, t), run[r].grant, t)
              /\ operations[o].status \in LiveStatus
              /\ operations'[o] = ClaimRow(operations[o], r, t)
              /\ \A x \in lost : operations'[x] = UnknownRow(operations[x], t)
  BY <1>1, ClaimShape
<1>3. /\ FailLost(lost, t)[o] = operations[o]
      /\ \A x \in DOMAIN operations \ lost : FailLost(lost, t)[x] = operations[x]
      /\ DOMAIN FailLost(lost, t) = DOMAIN operations
  BY <1>2 DEF FailLost
<1>4. /\ operations[o].kind \in run[r].grant /\ t < operations[o].deadline
      /\ \/ operations[o].status = "queued"
         \/ operations[o].status \in LeasedStatus /\ operations[o].exp <= t
      /\ operations[o].kind = "resolve_build_submit" =>
            ~Busy(FailLost(lost, t), {"resolve_build_submit"}, t)
  BY <1>2, <1>3 DEF OldestClaimable, Claimable, LeaseLost
<1>5. operations'[o].claimed = IF operations[o].claimed = NoTime THEN t ELSE operations[o].claimed
  BY <1>1, <1>2 DEF ClaimRow, Row
<1>6. operations[o].token = NoToken => operations[o].claimed = NoTime /\ execs[o] = 0
  BY <1>1, <1>2 DEF RecordOK
<1>7. operations[o].kind = "resolve_build_submit" => operations[o].token = NoToken
  <2> SUFFICES ASSUME operations[o].kind = "resolve_build_submit",
                      operations[o].token # NoToken
               PROVE  FALSE
    OBVIOUS
  <2>1. operations[o].status \in LeasedStatus
    BY <1>1, <1>2, Leased
  <2>2. o \in LostProjectExec(t)
    BY <1>2, <1>4, <2>1 DEF LostProjectExec, LeaseLost, LeasedStatus
  <2> QED
    BY <1>2, <1>4, <2>2, LostBuildIsFailed
<1>8. operations[o].kind # "resolve_build_submit" => execs[o] = 0
  BY <1>1, <1>2, RunnerAssumption DEF RecordOK
<1>9. ASSUME operations[o].kind = "resolve_build_submit",
             NEW p \in DOMAIN operations \ {o},
             ClaimedBuild(p), operations'[p].token # NoToken
      PROVE  operations[p].deadline <= t
  <2>1. p \notin lost
    <3>1. UnknownRow(operations[p], t).token = NoToken
      BY <1>1, <1>9 DEF UnknownRow, Row
    <3> QED
      BY <1>2, <1>9, <3>1
  <2>2. operations[p].status \in LeasedStatus /\ operations[p].kind = "resolve_build_submit"
    BY <1>1, <1>9, Leased DEF ClaimedBuild
  <2>3. operations[p].exp \in Int /\ operations[p].deadline \in Nat
    BY <1>1, <1>9 DEF Row
  <2>4. operations[p].exp <= t
    BY <1>1, <1>3, <1>4, <1>9, <2>1, <2>2, <2>3 DEF Busy
  <2>5. t < operations[p].deadline => p \in LostProjectExec(t)
    BY <1>9, <2>2, <2>4 DEF LostProjectExec, LeaseLost
  <2> QED
    BY <1>1, <1>2, <1>4, <1>9, <2>1, <2>3, <2>5, LostBuildIsFailed DEF ClaimedBuild
<1> QED
  BY <1>2, <1>5, <1>6, <1>7, <1>8, <1>9

\* A lease after a step is one of before with its claim, or has just been claimed.
LEMMA LeasesCome ==
    ASSUME ControlInv, DecisionInv, ExecInv, [Next]_vars, NEW o \in DOMAIN operations',
           operations'[o].token # NoToken
    PROVE  /\ o \in DOMAIN operations /\ o \in Ops
           /\ operations'[o].kind = operations[o].kind
           /\ operations'[o].deadline = operations[o].deadline
           /\ \/ /\ operations[o].token # NoToken
                 /\ operations'[o].claimed = operations[o].claimed
              \/ \E r \in Runners :
                    /\ run[r].pc = "claim" /\ run'[r].pc = "guardian"
                    /\ run[r].at \in 0..clock /\ operations'[o].claimed = run[r].at
                    /\ ClaimNext(o, run[r].grant, r, run[r].at)
<1>1. o \in Ops /\ LeaseMove(o)
  BY StepMovesLeases, StepKeepsControl DEF ControlInv, JournalInv, TypeOK
<1>2. o \in DOMAIN operations
  BY <1>1, ClaimFinds DEF LeaseMove
<1>3. Keeps(operations[o], operations'[o])
  BY <1>2, StepIsJournalStep, StepIsTableStep DEF ControlInv, TableStep
<1>4. operations[o].token # NoToken => operations'[o].claimed = operations[o].claimed
  BY <1>2, <1>3, Leased DEF Keeps, ControlInv
<1> QED
  BY <1>1, <1>2, <1>3, <1>4, ClaimFinds DEF LeaseMove, Keeps, Scope

\* Every step preserves the invariant of claims and executions.
LEMMA StepKeepsExec ==
    ASSUME ControlInv, DecisionInv, ExecInv, [Next]_vars
    PROVE  ExecInv'
<1>1. /\ ControlInv' /\ JournalInv /\ JournalInv'
      /\ clock \in Nat /\ clock' \in Nat /\ clock <= clock'
      /\ \A q \in Runners : RunMove(q)
      /\ \A o \in Ops : ExecMove(o)
  <2>1. ControlInv' /\ clock <= clock' /\ \A q \in Runners : RunMove(q)
    BY StepKeepsControl, StepMovesRunners, StepForward
  <2>2. \A o \in Ops : ExecMove(o)
    BY StepIsSteady DEF OpMove
  <2>3. JournalInv /\ JournalInv' /\ clock \in Nat /\ clock' \in Nat
    BY <2>1, TimeAssumption DEF ControlInv, JournalInv, TypeOK
  <2> QED
    BY <2>1, <2>2, <2>3
<1>2. \A x \in DOMAIN operations : operations[x] \in Row /\ x \in Ops
  BY DEF ControlInv, JournalInv, TypeOK
<1>3. \A q \in Runners : run[q].pc \in Holding => guard = q
  BY DEF ControlInv, RunnerOK, ThreadOK
<1>4. IsFiniteSet(DOMAIN operations')
  <2>1. PICK p : DOMAIN operations' \subseteq DOMAIN operations \cup {p}
    BY <1>1, StepIsJournalStep, TableGrows
  <2>2. IsFiniteSet(DOMAIN operations \cup {p})
    BY FS_AddElement DEF ExecInv
  <2> QED
    BY <2>1, <2>2, FS_Subset
<1>5. ASSUME NEW o \in DOMAIN operations', operations'[o].token # NoToken
      PROVE  operations'[o].claimed <= clock
  BY <1>1, <1>2, <1>5, LeasesCome DEF ExecInv
<1>6. ASSUME NEW q \in Runners PROVE ClaimedBefore(q)'
  <2> SUFFICES ASSUME NEW o \in DOMAIN operations', operations'[o].token # NoToken
               PROVE  /\ run'[q].pc \in Holding \ {"exiting"} =>
                            operations'[o].claimed <= run'[q].since
                      /\ Sweeping(q)' => operations'[o].claimed <= run'[q].at
    BY DEF ClaimedBefore
  <2>1. /\ run[q] \in Thread /\ operations'[o].claimed \in Int /\ RunMove(q)
        /\ operations'[o].claimed <= clock
    BY <1>1, <1>5, Leased DEF ControlInv, ThreadTypes, JournalInv, TypeOK, Row
  <2>2. CASE /\ o \in DOMAIN operations /\ operations[o].token # NoToken
             /\ operations'[o].claimed = operations[o].claimed
    <3>1. /\ run[q].pc \in Holding \ {"exiting"} => operations'[o].claimed <= run[q].since
          /\ Sweeping(q) => operations'[o].claimed <= run[q].at
      BY <2>2 DEF ExecInv, ClaimedBefore
    <3>2. CASE run'[q] = run[q]
      BY <3>1, <3>2 DEF Sweeping
    <3>3. run'[q].pc \in Holding \ {"exiting"} => operations'[o].claimed <= run'[q].since
      BY <2>1, <3>1, <3>2 DEF RunMove
    <3>4. run[q].pc = "recover" /\ run'[q].at \in Fresh(q) =>
             operations'[o].claimed <= run'[q].at
      BY <1>1, <2>1, <3>1 DEF Fresh, Holding, Pcs, Thread
    <3>5. Sweeping(q)' => operations'[o].claimed <= run'[q].at
      BY <2>1, <3>1, <3>2, <3>4 DEF RunMove
    <3> QED
      BY <3>3, <3>5
  <2>3. ASSUME NEW r \in Runners, run[r].pc = "claim", run'[r].pc = "guardian"
        PROVE  /\ run'[q].pc \in Holding \ {"exiting"} => run'[q].since = clock
               /\ ~Sweeping(q)'
    <3>1. guard = r
      BY <1>3, <2>3 DEF Holding, Pcs
    <3>2. CASE q = r
      BY <2>1, <2>3, <3>2 DEF RunMove, Sweeping
    <3>3. CASE q # r
      <4>1. run[q].pc \notin Holding
        BY <1>3, <3>1, <3>3
      <4>2. ~Sweeping(q) /\ run[q].pc # "recover"
        BY <4>1 DEF Sweeping, Holding, Pcs
      <4> QED
        BY <2>1, <4>1, <4>2 DEF RunMove, Sweeping
    <3> QED
      BY <3>2, <3>3
  <2> QED
    BY <2>1, <2>2, <2>3, LeasesCome
<1>7. BuildsApart'
  <2> SUFFICES ASSUME NEW o \in Ops, NEW p \in Ops, o # p, ClaimedBuild(o)', ClaimedBuild(p)'
               PROVE  \/ operations'[o].deadline <= operations'[p].claimed
                      \/ operations'[p].deadline <= operations'[o].claimed
    BY DEF BuildsApart
  <2>1. ASSUME NEW x \in Ops, NEW y \in Ops, x # y, ClaimedBuild(x)', ClaimedBuild(y)',
               NEW r \in Runners, run[r].pc = "claim", run[r].at \in 0..clock,
               ClaimNext(x, run[r].grant, r, run[r].at)
        PROVE  operations'[y].deadline <= operations'[x].claimed
    <3>1. /\ x \in DOMAIN operations /\ operations[x].kind = "resolve_build_submit"
          /\ y \in DOMAIN operations /\ operations[y].kind = "resolve_build_submit"
          /\ operations'[y].token # NoToken /\ operations'[y].deadline = operations[y].deadline
      BY <2>1, LeasesCome DEF ClaimedBuild
    <3>2. operations'[y] = operations[y] \/ operations'[y].status = "failed"
      BY <1>1, <2>1, <3>1, ClaimWrites
    <3>3. operations'[y].status \in LeasedStatus
      BY <1>1, <2>1 DEF ClaimedBuild, JournalInv, TypeOK, RowsDecodable, RowOK, LeaseOK
    <3>4. ClaimedBuild(y)
      BY <3>1, <3>2, <3>3 DEF ClaimedBuild, LeasedStatus
    <3> QED
      BY <2>1, <3>1, <3>4, ClaimFinds
  <2>2. CASE /\ operations[o].token # NoToken /\ operations[p].token # NoToken
             /\ operations'[o].claimed = operations[o].claimed
             /\ operations'[p].claimed = operations[p].claimed
    <3>1. /\ ClaimedBuild(o) /\ ClaimedBuild(p)
          /\ operations'[o].deadline = operations[o].deadline
          /\ operations'[p].deadline = operations[p].deadline
      BY <2>2, LeasesCome DEF ClaimedBuild
    <3> QED
      BY <2>2, <3>1 DEF ExecInv, BuildsApart
  <2> QED
    BY <2>1, <2>2, LeasesCome DEF ClaimedBuild
<1>8. ASSUME NEW q \in Runners, run'[q].pc \in Claimed PROVE execs'[run'[q].op] = 0
  <2>1. CASE run[q].pc \in Claimed /\ run'[q].op = run[q].op /\ execs' = execs
    BY <2>1 DEF ExecInv, Op
  <2>2. CASE Claims(q)
    BY <2>2, ClaimFinds DEF Claims
  <2> QED
    BY <1>1, <1>8, <2>1, <2>2 DEF RunMove
<1>9. ASSUME NEW o \in Ops PROVE execs'[o] <= 1
  <2>1. execs[o] \in Nat /\ execs[o] <= 1
    BY DEF ControlInv, ThreadTypes, ExecInv, AtMostOnceExec
  <2>2. CASE execs'[o] = execs[o]
    BY <2>1, <2>2
  <2>3. CASE execs'[o] = execs[o] + 1 /\ \E r \in Runners : run[r].pc = "dispatch" /\ o = Op(r)
    BY <2>1, <2>3 DEF ExecInv, Claimed
  <2> QED
    BY <1>1, <2>2, <2>3 DEF ExecMove
<1>10. \A o \in DOMAIN operations' :
          operations'[o].token # NoToken => operations'[o].claimed <= clock'
  <2>1. \A o \in DOMAIN operations' : operations'[o].claimed \in Int
    BY <1>1 DEF JournalInv, TypeOK, Row
  <2> QED
    BY <1>1, <1>5, <2>1
<1> QED
  BY <1>4, <1>6, <1>7, <1>8, <1>9, <1>10 DEF ExecInv, AtMostOnceExec, Op

\* At first nobody has claimed or run anything.
LEMMA ExecStarts ==
    ASSUME Init
    PROVE  ExecInv
<1>1. DOMAIN operations = {} /\ IsFiniteSet(DOMAIN operations)
  BY FS_EmptySet DEF Init, JournalInit
<1>2. \A r \in Runners : run[r].pc = "off"
  BY DEF Init, Off
<1>3. \A o \in Ops : execs[o] = 0
  BY DEF Init
<1> QED
  BY <1>1, <1>2, <1>3
     DEF ExecInv, ClaimedBefore, BuildsApart, ClaimedBuild, Claimed, AtMostOnceExec

\* Claimed builds stay apart and unrun until their dispatch.
THEOREM ExecInvariant == Spec => []ExecInv
<1>1. Init => ExecInv
  BY ExecStarts
<1>2. ControlInv /\ DecisionInv /\ ExecInv /\ [Next]_vars => ExecInv'
  BY StepKeepsExec
<1> QED
  BY <1>1, <1>2, ControlInvariant, DecisionInvariant, PTL DEF Spec

\* The project's own code runs at most once for an operation, although runners crash
\* after starting it, lose their leases and take operations over: a claim fails the
\* build whose lease was lost (fail_lost_project_exec_leases) before anyone could
\* claim it again.
THEOREM CodeRunsOnce == Spec => []AtMostOnceExec
<1>1. ExecInv => AtMostOnceExec
  BY DEF ExecInv
<1> QED
  BY <1>1, ExecInvariant, PTL

-----------------------------------------------------------------------------
(***************************************************************************)
(* Writers of the store.  A lease is renewed only beside the work of its   *)
(* runner, and a scan is claimed only when no other writer's lease is      *)
(* live; so while a runner has a scan in its hands every other writer's    *)
(* lease is over, and stays over.                                          *)
(***************************************************************************)
OthersExpired(r) ==
    run[r].pc \in Busied /\ IsScan(r) =>
        \A p \in DOMAIN operations \ {Op(r)} :
            operations[p].kind \in WriterKinds => operations[p].exp <= clock

WriterInv == SingleLiveWriter /\ \A r \in Runners : OthersExpired(r)

\* A scan is claimed when no other writer has a live lease.
LEMMA ClaimAlone ==
    ASSUME ControlInv, NEW r \in Runners, run[r].at \in 0..clock, NEW o \in Ops,
           ClaimNext(o, run[r].grant, r, run[r].at), operations[o].kind \in WriterKinds,
           NEW p \in DOMAIN operations' \ {o}, operations'[p].kind \in WriterKinds
    PROVE  operations'[p].exp <= clock
<1> DEFINE t == run[r].at
<1>1. JournalInv /\ t \in Nat /\ clock \in Nat
  BY TimeAssumption DEF ControlInv, JournalInv, TypeOK
<1>2. PICK lost \in LostBatches(run[r].grant, t) :
              /\ lost \subseteq LostProjectExec(t)
              /\ o \in DOMAIN operations \ lost
              /\ o \in OldestClaimable(FailLost(lost, t), run[r].grant, t)
              /\ DOMAIN operations' = DOMAIN operations
              /\ \A x \in lost : operations'[x] = UnknownRow(operations[x], t)
              /\ \A x \in DOMAIN operations \ (lost \cup {o}) :
                    operations'[x] = operations[x]
  BY <1>1, ClaimShape
<1>3. p \in DOMAIN operations /\ operations[p] \in Row
  BY <1>2 DEF ControlInv, JournalInv, TypeOK
<1>4. p \notin lost
  <2>1. UnknownRow(operations[p], t).kind = operations[p].kind
    BY <1>3 DEF UnknownRow, Row
  <2>2. p \in lost => operations[p].kind = "resolve_build_submit"
    BY <1>2 DEF LostProjectExec
  <2> QED
    BY <1>2, <2>1, <2>2 DEF WriterKinds
<1>5. operations'[p] = operations[p]
  BY <1>2, <1>3, <1>4
<1>6. ~Busy(FailLost(lost, t), WriterKinds, t)
  <2>1. FailLost(lost, t)[o] = operations[o]
    BY <1>2 DEF FailLost
  <2> QED
    BY <1>2, <2>1 DEF OldestClaimable, Claimable
<1>7. FailLost(lost, t)[p] = operations[p] /\ p \in DOMAIN FailLost(lost, t)
  BY <1>3, <1>4 DEF FailLost
<1>8. operations[p].status \in LeasedStatus => operations[p].exp <= t
  BY <1>1, <1>3, <1>5, <1>6, <1>7 DEF Busy, Row
<1>9. operations[p].status \notin LeasedStatus => operations[p].exp = NoTime
  BY <1>1, <1>3, Leased
<1> QED
  BY <1>1, <1>3, <1>5, <1>8, <1>9 DEF NoTime, Row

\* Every step preserves the invariant of the writers.
LEMMA StepKeepsWriters ==
    ASSUME ControlInv, DecisionInv, ExecInv, WriterInv, [Next]_vars
    PROVE  WriterInv'
<1>1. /\ ControlInv' /\ JournalInv /\ JournalInv' /\ clock \in Nat /\ clock' \in Nat
      /\ clock <= clock' /\ \A q \in Runners : RunMove(q)
  <2>1. ControlInv' /\ clock <= clock' /\ \A q \in Runners : RunMove(q)
    BY StepKeepsControl, StepMovesRunners, StepForward
  <2> QED
    BY <2>1, TimeAssumption DEF ControlInv, JournalInv, TypeOK
<1>2. /\ \A x \in DOMAIN operations : operations[x] \in Row /\ x \in Ops
      /\ \A x \in DOMAIN operations' : operations'[x] \in Row /\ x \in Ops
  BY <1>1 DEF JournalInv, TypeOK
<1>3. \A q \in Runners : run[q].pc \in Busied \cup {"claim"} => guard = q
  BY DEF ControlInv, RunnerOK, ThreadOK, Holding, Pcs, Busied, Working
<1>4. ASSUME NEW r \in Runners, run[r].pc \in Busied, Op(r) \in DOMAIN operations,
             Rec(r).kind \in WriterKinds
      PROVE  IsScan(r)
  BY <1>2, <1>4, RunnerAssumption DEF DecisionInv, RecordOK, IsScan, Rec, WriterKinds
<1>5. ASSUME NEW o \in DOMAIN operations', operations'[o].exp > clock'
      PROVE  /\ operations'[o].token # NoToken /\ o \in DOMAIN operations /\ o \in Ops
             /\ operations'[o].kind = operations[o].kind /\ LeaseMove(o)
             /\ operations'[o].exp > clock
             /\ operations[o].exp \in Int /\ operations'[o].exp \in Int
  <2>1. operations'[o].exp \in Int /\ operations'[o].exp > clock
    BY <1>1, <1>2, <1>5 DEF Row
  <2>2. operations'[o].token # NoToken
    BY <1>1, <1>5, <2>1 DEF JournalInv, TypeOK, RowsDecodable, RowOK, LeaseOK, NoTime
  <2>3. o \in DOMAIN operations /\ o \in Ops /\ operations'[o].kind = operations[o].kind
    BY <2>2, LeasesCome
  <2> QED
    BY <1>2, <2>1, <2>2, <2>3, StepMovesLeases DEF Row
<1>6. SingleLiveWriter'
  <2> SUFFICES ASSUME NEW o \in DOMAIN operations', NEW p \in DOMAIN operations', o # p,
                      operations'[o].kind \in WriterKinds, clock' < operations'[o].exp,
                      operations'[p].kind \in WriterKinds, clock' < operations'[p].exp
               PROVE  FALSE
    BY DEF SingleLiveWriter
  <2>1. /\ o \in DOMAIN operations /\ o \in Ops /\ LeaseMove(o)
        /\ operations[o].kind \in WriterKinds /\ operations'[o].token # NoToken
        /\ operations'[o].exp > clock /\ operations'[o].exp \in Int
        /\ p \in DOMAIN operations /\ p \in Ops /\ LeaseMove(p)
        /\ operations[p].kind \in WriterKinds /\ operations'[p].token # NoToken
        /\ operations'[p].exp > clock /\ operations'[p].exp \in Int
    BY <1>1, <1>2, <1>5 DEF Row
  <2>2. ASSUME NEW r \in Runners, run[r].at \in 0..clock, NEW x \in {o, p},
               ClaimNext(x, run[r].grant, r, run[r].at)
        PROVE  FALSE
    BY <1>1, <2>1, <2>2, ClaimAlone
  <2>3. ASSUME NEW r \in Runners, run[r].pc \in Busied, NEW x \in {o, p}, x = Op(r),
               NEW y \in {o, p} \ {x}
        PROVE  FALSE
    <3>1. operations[y].exp <= clock
      BY <1>4, <2>1, <2>3 DEF WriterInv, OthersExpired, Rec
    <3>2. ~ \E q \in Runners : run[q].pc \in Busied /\ y = Op(q)
      BY <1>3, <2>3
    <3>3. operations'[y].exp = operations[y].exp
      BY <2>1, <2>2, <2>3, <3>2 DEF LeaseMove
    <3> QED
      BY <1>1, <1>2, <2>1, <2>3, <3>1, <3>3
  <2>4. operations'[o].exp = operations[o].exp /\ operations'[p].exp = operations[p].exp
    BY <2>1, <2>2, <2>3 DEF LeaseMove
  <2> QED
    BY <2>1, <2>4 DEF WriterInv, SingleLiveWriter
<1>7. ASSUME NEW q \in Runners PROVE OthersExpired(q)'
  <2> SUFFICES ASSUME run'[q].pc \in Busied, operations'[run'[q].op].kind = "scan_submit",
                      NEW p \in DOMAIN operations' \ {run'[q].op},
                      operations'[p].kind \in WriterKinds, operations'[p].exp > clock'
               PROVE  FALSE
    <3>1. \A p \in DOMAIN operations' : operations'[p].exp \in Int
      BY <1>2 DEF Row
    <3> QED
      BY <1>1, <3>1 DEF OthersExpired, Op, IsScan, Rec
  <2>1. /\ p \in DOMAIN operations /\ p \in Ops /\ LeaseMove(p)
        /\ operations[p].kind \in WriterKinds /\ operations'[p].token # NoToken
        /\ operations'[p].exp > clock /\ operations'[p].exp \in Int
        /\ operations[p].exp \in Int
    BY <1>5
  <2>2. run'[q].op \in DOMAIN operations' /\ operations'[run'[q].op].token = q /\ q # NoToken
    BY <1>1, NameAssumption DEF ControlInv, RunnerOK, OwnOK, Busied, Op, Rec, Runners
  <2>3. /\ run'[q].op \in DOMAIN operations /\ run'[q].op \in Ops
        /\ operations[run'[q].op].kind = "scan_submit"
    BY <2>2, LeasesCome
  <2>4. CASE Claims(q)
    BY <1>1, <2>1, <2>3, <2>4, ClaimAlone DEF Claims, WriterKinds
  <2>5. CASE run[q].pc \in Busied /\ run'[q].op = run[q].op
    <3>1. operations[p].exp <= clock
      BY <2>1, <2>3, <2>5 DEF WriterInv, OthersExpired, IsScan, Rec, Op
    <3>2. /\ ~ \E r \in Runners : run[r].pc \in Busied /\ p = Op(r)
          /\ ~ \E r \in Runners : run[r].pc = "claim"
      BY <1>3, <2>5 DEF Op, Busied, Working
    <3>3. operations'[p].exp = operations[p].exp
      BY <2>1, <3>2 DEF LeaseMove
    <3> QED
      BY <1>1, <2>1, <3>1, <3>3
  <2> QED
    BY <1>1, <2>4, <2>5 DEF RunMove
<1> QED
  BY <1>6, <1>7 DEF WriterInv

\* While a runner has a scan in its hands no other writer has a live lease.
THEOREM WriterInvariant == Spec => []WriterInv
<1>1. Init => WriterInv
  <2>1. Init => DOMAIN operations = {} /\ \A r \in Runners : run[r].pc = "off"
    BY DEF Init, JournalInit, Off
  <2> QED
    BY <2>1 DEF WriterInv, SingleLiveWriter, OthersExpired, Busied, Working
<1>2. ControlInv /\ DecisionInv /\ ExecInv /\ WriterInv /\ [Next]_vars => WriterInv'
  BY StepKeepsWriters
<1> QED
  BY <1>1, <1>2, ControlInvariant, DecisionInvariant, ExecInvariant, PTL DEF Spec

\* Two operations that write the store never hold live leases together, although a
\* guardian may renew with a clock it read long ago and a crashed runner's lease
\* outlives it.
THEOREM OneWriterAtATime == Spec => []SingleLiveWriter
<1>1. WriterInv => SingleLiveWriter
  BY DEF WriterInv
<1> QED
  BY <1>1, WriterInvariant, PTL

-----------------------------------------------------------------------------
(***************************************************************************)
(* The life cycle.  What a step does to one operation is one step of the   *)
(* promised life cycle, or none.                                           *)
(***************************************************************************)
\* What clients see of an operation.
LEMMA Observed ==
    ASSUME ControlInv, DecisionInv, NEW o \in Ops
    PROVE  /\ PhaseOf(o) \in Lifecycle!Phases /\ EffectOf(o) \in Lifecycle!Effects
           /\ o \in DOMAIN intents => o \in DOMAIN operations /\ execs[o] = 0
           /\ o \in DOMAIN operations => operations[o].status \in Status
           /\ stage[o] \in Stages /\ execs[o] \in Nat
<1>1. /\ o \in DOMAIN operations => operations[o].status \in Status
      /\ stage[o] \in Stages /\ execs[o] \in Nat
  BY DEF ControlInv, JournalInv, TypeOK, Row, ThreadTypes
<1>2. o \in DOMAIN intents => o \in DOMAIN operations /\ execs[o] = 0
  BY DEF DecisionInv, IntentOK, RecordOK, IntentValid
<1>3. PhaseOf(o) \in Lifecycle!Phases
  BY <1>1 DEF PhaseOf, Lifecycle!Phases, Lifecycle!Open, Lifecycle!Ended, Status,
     LiveStatus, TerminalStatus
<1>4. EffectOf(o) \in Lifecycle!Effects
  BY DEF EffectOf, Lifecycle!Effects
<1> QED
  BY <1>1, <1>2, <1>3, <1>4

\* One operation takes a step of the life cycle, or none.
Follows(o) ==
    LET p == PhaseOf(o)
        q == PhaseOf(o)'
        e == EffectOf(o)
        f == EffectOf(o)'
        open == {"accepted", "cancelling"}
    IN  \/ p = q /\ e = f
        \/ p = "absent" /\ e = "none" /\ q = "accepted" /\ e = f
        \/ p = "accepted" /\ q \in {"cancelling", "decided"} /\ e = f
        \/ p = "decided" /\ e = "none" /\ q = p /\ f = "published"
        \/ p = "accepted" /\ e = "none" /\ q = p /\ f = "executed"
        \/ p = "decided" /\ e = "published" /\ q = "completed" /\ e = f
        \/ p \in open /\ q \in {"completed", "failed", "cancelled"} /\ e = f
        \/ p \notin {"absent", "decided"} /\ q = "absent" /\ e = f

\* Every step takes every operation one step on, or leaves it.
LEMMA StepFollows ==
    ASSUME ControlInv, DecisionInv, ExecInv, [Next]_vars, NEW o \in Ops
    PROVE  Follows(o)
<1>1. /\ StageMove(o) /\ ExecMove(o) /\ RecordMove(o) /\ RecordOK(o)
      /\ o \in DOMAIN intents => o \in DOMAIN operations /\ execs[o] = 0
      /\ o \in DOMAIN operations => operations[o].status \in Status
      /\ stage[o] \in Stages /\ execs[o] \in Nat
  BY StepIsSteady, Observed DEF OpMove, DecisionInv
<1>2. /\ o \in DOMAIN intents' => o \in DOMAIN operations'
      /\ o \in DOMAIN operations' => operations'[o].status \in Status
  <2>1. ControlInv' /\ DecisionInv'
    BY StepKeepsControl, StepKeepsDecisions
  <2> QED
    BY <2>1 DEF ControlInv, JournalInv, TypeOK, Row, DecisionInv, IntentOK, IntentValid
<1>3. o \in DOMAIN operations \cap DOMAIN operations' =>
         /\ operations'[o].status \in Successors(operations[o].status)
         /\ IsTerminal(operations[o]) => operations'[o] = operations[o]
  BY StepIsJournalStep, StepIsTableStep DEF ControlInv, TableStep, Keeps
<1>4. CASE execs'[o] # execs[o]
  <2>1. /\ execs'[o] = execs[o] + 1 /\ operations' = operations /\ intents' = intents
        /\ stage' = stage /\ o \in DOMAIN operations /\ o \notin DOMAIN intents
        /\ operations[o].status = "running" /\ operations[o].kind # "scan_submit"
        /\ \E r \in Runners : run[r].pc = "dispatch" /\ o = Op(r)
    BY <1>1, <1>4 DEF ExecMove
  <2>2. execs[o] = 0 /\ execs'[o] = 1 /\ stage[o] = "none"
    BY <1>1, <2>1 DEF ExecInv, Claimed, RecordOK
  <2> QED
    BY <2>1, <2>2 DEF Follows, PhaseOf, EffectOf
<1>5. CASE execs'[o] = execs[o] /\ stage'[o] # stage[o]
  <2>1. /\ operations' = operations /\ intents' = intents
        /\ \/ stage[o] # "published" /\ stage'[o] # "published"
           \/ o \in DOMAIN intents /\ stage[o] = "staging" /\ stage'[o] = "published"
    BY <1>1, <1>5 DEF StageMove
  <2>2. PhaseOf(o)' = PhaseOf(o)
    BY <2>1 DEF PhaseOf
  <2>3. CASE stage[o] # "published" /\ stage'[o] # "published"
    BY <1>5, <2>2, <2>3 DEF Follows, EffectOf
  <2>4. CASE o \in DOMAIN intents /\ stage[o] = "staging" /\ stage'[o] = "published"
    BY <1>1, <1>5, <2>2, <2>4 DEF Follows, EffectOf, PhaseOf
  <2> QED
    BY <2>1, <2>3, <2>4
<1>6. CASE execs'[o] = execs[o] /\ stage'[o] = stage[o]
  <2>1. EffectOf(o)' = EffectOf(o)
    BY <1>6 DEF EffectOf
  <2>2. CASE o \notin DOMAIN operations
    <3>1. o \in DOMAIN operations' => /\ operations'[o].status = "queued"
                                     /\ stage[o] = "none" /\ execs[o] = 0
                                     /\ o \notin DOMAIN intents'
      BY <1>1, <2>2 DEF RecordMove
    <3> QED
      BY <2>1, <2>2, <3>1 DEF Follows, PhaseOf, EffectOf
  <2>3. CASE o \in DOMAIN operations /\ o \notin DOMAIN operations'
    <3>1. o \notin DOMAIN intents
      BY <1>1, <2>3 DEF RecordMove
    <3>2. PhaseOf(o) \notin {"absent", "decided"} /\ PhaseOf(o)' = "absent"
      BY <1>1, <2>3, <3>1 DEF PhaseOf, Status, LiveStatus, TerminalStatus
    <3> QED
      BY <2>1, <3>2 DEF Follows
  <2>4. CASE o \in DOMAIN operations \cap DOMAIN operations' /\ o \in DOMAIN intents
    <3>1. \/ o \in DOMAIN intents' /\ operations'[o] = operations[o]
          \/ /\ o \notin DOMAIN intents' /\ operations'[o].status = "completed"
             /\ stage[o] = "published"
      BY <1>1, <2>4 DEF RecordMove
    <3> QED
      BY <2>1, <2>4, <3>1 DEF Follows, PhaseOf, EffectOf
  <2>5. CASE /\ o \in DOMAIN operations \cap DOMAIN operations'
             /\ o \notin DOMAIN intents /\ o \in DOMAIN intents'
    <3>1. operations[o].status = "running"
      BY <1>1, <2>5 DEF RecordMove
    <3> QED
      BY <2>1, <2>5, <3>1 DEF Follows, PhaseOf
  <2>6. CASE /\ o \in DOMAIN operations \cap DOMAIN operations'
             /\ o \notin DOMAIN intents /\ o \notin DOMAIN intents'
    <3>1. /\ PhaseOf(o) = IF operations[o].status \in {"queued", "running"} THEN "accepted"
                          ELSE operations[o].status
          /\ PhaseOf(o)' = IF operations'[o].status \in {"queued", "running"} THEN "accepted"
                           ELSE operations'[o].status
      BY <2>6 DEF PhaseOf
    <3>2. CASE IsTerminal(operations[o])
      BY <1>3, <2>1, <2>6, <3>1, <3>2 DEF Follows
    <3>3. CASE ~IsTerminal(operations[o])
      BY <1>1, <1>2, <1>3, <2>1, <2>6, <3>1, <3>3
         DEF Follows, Successors, Status, LiveStatus, TerminalStatus, IsTerminal
    <3> QED
      BY <3>2, <3>3
  <2> QED
    BY <2>2, <2>3, <2>4, <2>5, <2>6
<1> QED
  BY <1>4, <1>5, <1>6

\* A step of the life cycle, told in its own words.
LEMMA FollowsIsStep ==
    ASSUME ControlInv, DecisionInv, ControlInv', \A o \in Ops : Follows(o)
    PROVE  Lifecycle!LifecycleNext
<1> DEFINE ph == [o \in Ops |-> PhaseOf(o)]
           ef == [o \in Ops |-> EffectOf(o)]
<1>1. ph' \in [Ops -> Lifecycle!Phases] /\ ef' \in [Ops -> Lifecycle!Effects]
  <2>1. \A o \in Ops : o \in DOMAIN operations' => operations'[o].status \in Status
    BY DEF ControlInv, JournalInv, TypeOK, Row
  <2>2. ASSUME NEW o \in Ops
        PROVE  PhaseOf(o)' \in Lifecycle!Phases /\ EffectOf(o)' \in Lifecycle!Effects
    BY <2>1 DEF PhaseOf, EffectOf, Lifecycle!Phases, Lifecycle!Effects, Lifecycle!Open,
       Lifecycle!Ended, Status, LiveStatus, TerminalStatus
  <2> QED
    BY <2>2
<1>2. ASSUME NEW o \in Ops
      PROVE  Lifecycle!Step(o) \/ Lifecycle!Does(o, ef[o])
  <2>1. /\ ph[o] = PhaseOf(o) /\ ph'[o] = PhaseOf(o)' /\ PhaseOf(o) \in Lifecycle!Phases
        /\ ef[o] = EffectOf(o) /\ ef'[o] = EffectOf(o)'
    BY Observed
  <2>2. Follows(o)
    OBVIOUS
  <2> HIDE DEF ph, ef
  <2> QED
    BY <2>1, <2>2 DEF Follows, ph, ef, Lifecycle!Step, Lifecycle!Does, Lifecycle!Becomes,
       Lifecycle!Accept, Lifecycle!RequestCancel, Lifecycle!Decide, Lifecycle!Publish,
       Lifecycle!Execute, Lifecycle!Complete, Lifecycle!GiveUp, Lifecycle!Forget,
       Lifecycle!Open, Lifecycle!Ended, Lifecycle!Phases
<1> QED
  BY <1>1, <1>2 DEF Lifecycle!LifecycleNext

\* Clients, runners, guardians, daemons and crashes together implement the promised
\* life cycle: an operation is decided at one instant, cancelled only before it, has
\* its effect after it and once, and ends once.
THEOREM RunnersImplementLifecycle == Spec => ImplementsLifecycle
<1>1. Init => Lifecycle!LifecycleInit
  <2>1. Init => /\ DOMAIN operations = {}
                /\ \A o \in Ops : stage[o] = "none" /\ execs[o] = 0
    BY DEF Init, JournalInit
  <2> QED
    BY <2>1 DEF Lifecycle!LifecycleInit, PhaseOf, EffectOf
<1>2. ControlInv /\ DecisionInv /\ ExecInv /\ [Next]_vars =>
         [Lifecycle!LifecycleNext]_(Lifecycle!lifecycleVars)
  BY StepKeepsControl, StepFollows, FollowsIsStep
<1> QED
  BY <1>1, <1>2, ControlInvariant, DecisionInvariant, ExecInvariant, PTL
     DEF Spec, ImplementsLifecycle, Lifecycle!LifecycleSpec

=============================================================================
