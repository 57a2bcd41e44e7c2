---------------------- MODULE AnalysisExecutionProofs ----------------------
(***************************************************************************)
(* Proofs about AnalysisExecution: the reorder window and the stage order  *)
(* never leave an item behind, a stage runs on earlier stages that were    *)
(* consumed, the failures on record are those of the items that count, and *)
(* checkpoints and published scans stand on the version they name.         *)
(***************************************************************************)
EXTENDS AnalysisExecution, FiniteSetTheorems, SequenceTheorems,
        WellFoundedInduction, TLAPS

Settling == {"settle", "settle_failed"}
Executing == {"ingest", "dispatch", "join"} \cup Settling

\* The steps of a scan whose analysis ended without being cancelled.
Concluded == {"verify", "promote", "published", "partial"}

Attempt == [outcome : Outcomes \cup {None}, read : SUBSET Contents]

\* An item that the executor has taken from the queue and not ingested is in
\* the hands of a worker or waits for its turn; the one that is being settled
\* is in neither.
Taken == { i \in (ingested + 1)..started : pc \in Settling => i # NextIngest }

ShapeOK ==
    /\ content \in Contents /\ expected \in Contents \cup {0}
    /\ scans \in 0..MaxScans
    /\ pc \in {"idle", "resplit"} \cup Executing \cup Concluded \cup Ended
    /\ preflight \in {"unset", "same", "changed"}
    /\ token \in {"active", "cancelled"}
    /\ items \in Seq(WorkItem)
    /\ status \in [Items -> Statuses]
    /\ loader \in [Items -> SUBSET Contents]
    /\ limited \subseteq Items /\ attempted \subseteq Items /\ deferred \subseteq Items
    /\ first \in Nat \ {0} /\ started \in Nat /\ ingested \in Nat
    /\ \A i \in DOMAIN worker : worker[i] \in Attempt
    /\ \A i \in DOMAIN ready :
          /\ ready[i].fingerprint \subseteq Contents
          /\ \A c \in ready[i].staged : c.read \subseteq Contents
    /\ \A c \in checkpoints : c.read \subseteq Contents

\* The items that count own their paths alone, and still cover the schedule.
PlanOK ==
    /\ \A i \in Items : items[i].paths # {}
    /\ \A i, j \in Items \ superseded :
          /\ i # j
          /\ items[i].unit = items[j].unit /\ items[i].stage = items[j].stage
          => items[i].paths \cap items[j].paths = {}
    /\ pc # "idle" =>
          \A w \in 1..Len(Work) : \A p \in Work[w].paths :
              \E i \in Items \ superseded :
                  /\ items[i].unit = Work[w].unit /\ items[i].stage = Work[w].stage
                  /\ p \in items[i].paths
    /\ \A i \in first..Len(items) : \A j \in prerequisites(i) : j < i
    /\ superseded \subseteq 1..(first - 1)

\* The executor's window: what is ingested, what is under way, what is queued.
WindowOK ==
    /\ first - 1 <= ingested /\ ingested <= started /\ started <= Len(items)
    /\ pc \in Settling => ingested < started
    /\ pc \in Executing =>
          /\ DOMAIN worker \cup DOMAIN ready = Taken
          /\ DOMAIN worker \cap DOMAIN ready = {}
    /\ pc \notin Executing => DOMAIN worker = {} /\ DOMAIN ready = {}
    /\ pc = "join" => NextIngest \notin DOMAIN ready /\ ~CanDispatch

\* What was ingested has been decided, and the items of a stage that runs were
\* let in by decisions that no cancellation made.
DecidedOK ==
    /\ pc \in Executing =>
          \A i \in 1..ingested : \/ status[i] \in {"completed", "failed"}
                                 \/ status[i] = "cancelled" /\ Cancelled
    /\ pc = "resplit" =>
          \A i \in Items : \/ status[i] \in {"completed", "failed"}
                           \/ status[i] = "cancelled" /\ Cancelled
    /\ pc \in Concluded => \A i \in Items : status[i] \in {"completed", "failed"}
    /\ \A i \in DOMAIN worker : \A j \in prerequisites(i) :
          j <= ingested /\ status[j] \in {"completed", "failed"}

ExecutorInv == ShapeOK /\ PlanOK /\ WindowOK /\ DecidedOK

\* The output of the item has been taken, whether or not its status is decided.
Consumed(i) ==
    \/ i <= ingested
    \/ pc \in Settling /\ i = NextIngest

\* The failures on record: each belongs to an item that counts and has failed,
\* was cancelled, or is just being settled, and none is missing.
FailuresOK ==
    /\ \A i \in Items \ superseded : status[i] = "failed" => UnitId(i) \in failed
    /\ \A u \in failed : \E i \in Items \ superseded :
          /\ u = UnitId(i)
          /\ \/ i <= ingested /\ status[i] = "failed"
             \/ i <= ingested /\ status[i] = "cancelled" /\ Cancelled
             \/ pc = "settle_failed" /\ i = NextIngest
    /\ pc = "settle_failed" => UnitId(NextIngest) \in failed

\* The staging scan: one record for an item at most, none for an item that was
\* replaced or that may still be, and a failure for every partial one.
StagedOK ==
    /\ \A r \in stored :
          /\ r.item \in Items \ superseded
          /\ Consumed(r.item)
          /\ pc \notin Concluded \cup Ended => r.item \notin limited
          /\ r.partial \in BOOLEAN
          /\ r.partial => UnitId(r.item) \in failed
    /\ \A r, q \in stored : r.item = q.item => r = q
    /\ \A i \in deferred :
          /\ i \notin superseded /\ UnitId(i) \in failed /\ i \in limited
          /\ Consumed(i)
    /\ limited \subseteq 1..NextIngest
    /\ NextIngest \in limited => pc \in Settling
    /\ \A i \in Items : status[i] = "completed" =>
          \E r \in stored : r.item = i /\ ~r.partial
    /\ pc = "settle" => \E r \in stored : r.item = NextIngest /\ ~r.partial
    /\ pc \in {"promote", "published"} => failed = {} /\ Covered

LedgerInv == FailuresOK /\ StagedOK

\* The versions that the repository went through since the scan was planned.
Seen == { v \in Contents : expected <= v /\ v <= content }

\* Without reverts, what anyone read lies between the planned version and the
\* current one, so that a repository found unchanged was read at that version
\* alone.
ReadInv ==
    /\ expected <= content
    /\ CheckpointSound
    /\ \A i \in Items : loader[i] \subseteq Seen
    /\ \A i \in DOMAIN worker :
          /\ worker[i].read \subseteq Seen
          /\ worker[i].outcome = "ok" => worker[i].read # {}
    /\ \A i \in DOMAIN ready :
          /\ ready[i].read \subseteq Seen /\ ready[i].fingerprint \subseteq Seen
          /\ ready[i].outcome = "ok" => ready[i].read # {}
          /\ \A c \in ready[i].staged :
                /\ c.read = {c.key.input}
                /\ c.key.id.stage = "semantic" => c.key.reference = {{c.key.input}}
    /\ \A r \in stored : ~r.partial => r.read # {} /\ r.read \subseteq Seen
    /\ pc \in {"promote", "published"} => \A r \in stored : r.read = {expected}

-----------------------------------------------------------------------------
(***************************************************************************)
(* Operators.                                                              *)
(***************************************************************************)
\* The least number of a set, which FirstRefinable chooses.
LEMMA LeastExists ==
    ASSUME NEW T \in SUBSET Nat, T # {}
    PROVE  \E i \in T : \A j \in T : i <= j
<1>1. PICK x \in T : \A y \in T : ~(<<y, x>> \in OpToRel(<, Nat))
    BY NatLessThanWellFounded, WFMin
<1>2. \A y \in T : ~(y < x)
    BY <1>1 DEF OpToRel
<1> QED BY <1>2

\* FirstRefinable is one of the items that may be refined (scan.rs:1161).
LEMMA FirstIsRefinable ==
    ASSUME Refinable # {}
    PROVE  FirstRefinable \in Refinable
<1>1. Refinable \in SUBSET Nat
    BY DEF Refinable, Items
<1>2. \E i \in Refinable : \A j \in Refinable : i <= j
    BY <1>1, LeastExists
<1> QED BY <1>2 DEF FirstRefinable

\* A function on an initial segment is a sequence.
LEMMA FunctionIsSeq ==
    ASSUME NEW S, NEW n \in Nat, NEW f \in [1..n -> S]
    PROVE  f \in Seq(S) /\ Len(f) = n
OBVIOUS

\* What a sequence appended to another holds.
LEMMA Appended ==
    ASSUME NEW S, NEW f \in Seq(S), NEW g \in Seq(S), NEW n, NEW l,
           Len(f) = n, Len(g) = l
    PROVE  /\ f \o g \in Seq(S) /\ Len(f \o g) = n + l
           /\ f \o g \in [1..(n + l) -> S]
           /\ \A i \in 1..n : (f \o g)[i] = f[i]
           /\ \A k \in 1..l : (f \o g)[n + k] = g[k]
           /\ \A i \in 1..(n + l) : i > n => (f \o g)[i] = g[i - n]
<1>1. /\ f \o g \in Seq(S) /\ Len(f \o g) = n + l
      /\ n \in Nat /\ l \in Nat
      /\ \A i \in 1..(n + l) : (f \o g)[i] = IF i <= n THEN f[i] ELSE g[i - n]
  <2>1. /\ f \o g \in Seq(S) /\ Len(f \o g) = Len(f) + Len(g)
        /\ \A i \in 1..(Len(f) + Len(g)) :
              (f \o g)[i] = IF i <= Len(f) THEN f[i] ELSE g[i - Len(f)]
      BY ConcatProperties
  <2>2. n \in Nat /\ l \in Nat
      BY LenProperties
  <2> QED BY <2>1, <2>2
<1>2. f \o g \in [1..(n + l) -> S]
    BY <1>1, LenProperties
<1>3. \A i \in 1..n : (f \o g)[i] = f[i]
    BY <1>1
<1>4. \A k \in 1..l : (f \o g)[n + k] = g[k]
    BY <1>1
<1>5. \A i \in 1..(n + l) : i > n => (f \o g)[i] = g[i - n]
    BY <1>1
<1> QED BY <1>1, <1>2, <1>3, <1>4, <1>5

\* The replacements of an item share its unit and stage and divide its paths
\* (resplit_execution_unit, analysis_split.rs:1337).
LEMMA FinerDivides ==
    ASSUME NEW item \in WorkItem, item.level < MaxLevel, item.paths # {},
           NEW finer \in Finer(item)
    PROVE  /\ finer \in Seq(WorkItem)
           /\ \A k \in 1..Len(finer) :
                 /\ finer[k].unit = item.unit /\ finer[k].stage = item.stage
                 /\ finer[k].paths # {} /\ finer[k].paths \subseteq item.paths
           /\ \A k, l \in 1..Len(finer) :
                 k # l => finer[k].paths \cap finer[l].paths = {}
           /\ \A p \in item.paths : \E k \in 1..Len(finer) : p \in finer[k].paths
<1> DEFINE At(part) == [item EXCEPT !.level = @ + 1, !.paths = part]
           whole == [item EXCEPT !.level = @ + 1]
<1>1. MaxLevel \in Nat
    BY AnalysisAssumption
<1>2. whole \in WorkItem /\ whole.unit = item.unit /\ whole.stage = item.stage
      /\ whole.paths = item.paths
    BY <1>1 DEF WorkItem
<1>3. ASSUME NEW part \in SUBSET item.paths
      PROVE  At(part) \in WorkItem /\ At(part).unit = item.unit
             /\ At(part).stage = item.stage /\ At(part).paths = part
  <2>1. At(part) = [whole EXCEPT !.paths = part]
      BY <1>2 DEF WorkItem
  <2>2. part \in SUBSET UNION { Work[i].paths : i \in 1..Len(Work) }
      BY DEF WorkItem
  <2> HIDE DEF At, whole
  <2> QED BY <1>2, <2>1, <2>2 DEF WorkItem
<1> HIDE DEF At, whole
<1>4. CASE finer = <<whole>>
  <2>1. Len(finer) = 1 /\ finer[1] = whole
      BY <1>4
  <2> QED BY <1>2, <1>4, <2>1
<1>5. ASSUME NEW part \in (SUBSET item.paths) \ {{}, item.paths},
             finer = <<At(part), At(item.paths \ part)>>
      PROVE  /\ finer \in Seq(WorkItem)
             /\ \A k \in 1..Len(finer) :
                   /\ finer[k].unit = item.unit /\ finer[k].stage = item.stage
                   /\ finer[k].paths # {} /\ finer[k].paths \subseteq item.paths
             /\ \A k, l \in 1..Len(finer) :
                   k # l => finer[k].paths \cap finer[l].paths = {}
             /\ \A p \in item.paths : \E k \in 1..Len(finer) : p \in finer[k].paths
  <2>1. Len(finer) = 2 /\ finer[1] = At(part) /\ finer[2] = At(item.paths \ part)
      BY <1>5
  <2>2. finer[1] \in WorkItem /\ finer[1].unit = item.unit
        /\ finer[1].stage = item.stage /\ finer[1].paths = part
      BY <1>3, <2>1
  <2>3. finer[2] \in WorkItem /\ finer[2].unit = item.unit
        /\ finer[2].stage = item.stage /\ finer[2].paths = item.paths \ part
      BY <1>3, <2>1
  <2>4. finer \in Seq(WorkItem)
      BY <1>5, <2>1, <2>2, <2>3
  <2>5. \A k \in 1..Len(finer) : k = 1 \/ k = 2
      BY <2>1
  <2>6. \A p \in item.paths : p \in finer[1].paths \/ p \in finer[2].paths
      BY <2>2, <2>3
  <2>7. 1 \in 1..Len(finer) /\ 2 \in 1..Len(finer)
      BY <2>1
  <2>8. finer[1].paths \cap finer[2].paths = {}
      BY <2>2, <2>3
  <2>9. item.paths \ part # {}
      OBVIOUS
  <2> QED BY <2>2, <2>3, <2>4, <2>5, <2>6, <2>7, <2>8, <2>9
<1> QED BY <1>4, <1>5 DEF Finer, At, whole

-----------------------------------------------------------------------------
(***************************************************************************)
(* The executor.                                                           *)
(***************************************************************************)
\* A step that leaves the items and the ranges of the executor alone keeps what
\* is known of the plan.
LEMMA PlanKept ==
    ASSUME PlanOK, UNCHANGED <<items, first, superseded>>,
           pc # "idle" \/ pc' = "idle"
    PROVE  PlanOK'
BY DEF PlanOK, prerequisites, Items

\* Nothing is scanned at first.
LEMMA ExecutorInit == Init => ExecutorInv
<1> SUFFICES ASSUME Init PROVE ExecutorInv
    OBVIOUS
<1> USE DEF Init, NoScan, Items
<1>1. Len(items) = 0 /\ Items = {} /\ DOMAIN worker = {} /\ DOMAIN ready = {}
    OBVIOUS
<1>2. ShapeOK
    BY <1>1, AnalysisAssumption DEF ShapeOK
<1>3. PlanOK
    BY <1>1 DEF PlanOK
<1>4. WindowOK
    BY <1>1 DEF WindowOK, Executing, Settling
<1>5. DecidedOK
    BY <1>1 DEF DecidedOK, Executing, Settling, Concluded
<1> QED BY <1>2, <1>3, <1>4, <1>5 DEF ExecutorInv

\* A new scan runs the schedule, which the planner has put in stage order and
\* divided into batches.
LEMMA StartScanKeeps == ExecutorInv /\ StartScan => ExecutorInv'
<1> SUFFICES ASSUME ExecutorInv, StartScan PROVE ExecutorInv'
    OBVIOUS
<1> USE DEF StartScan
<1>1. Work \in Seq(WorkItem) /\ Len(Work) \in Nat /\ Items' = 1..Len(Work)
      /\ \A i \in 1..Len(Work) : Work[i].paths # {}
    BY AnalysisAssumption DEF Items
<1>2. DOMAIN worker' = {} /\ DOMAIN ready' = {}
    OBVIOUS
<1>3. ShapeOK'
    BY <1>1, <1>2, AnalysisAssumption DEF ExecutorInv, ShapeOK, Executing, Statuses
<1>4. PlanOK'
  <2>1. \A i \in first'..Len(items') : \A j \in prerequisites(i)' : j < i
      BY <1>1, ScheduleAssumption DEF prerequisites
  <2>2. \A i, j \in (Items \ superseded)' :
          /\ i # j
          /\ items'[i].unit = items'[j].unit /\ items'[i].stage = items'[j].stage
          => items'[i].paths \cap items'[j].paths = {}
      BY <1>1, ScheduleAssumption
  <2> QED BY <1>1, <2>1, <2>2 DEF PlanOK
<1>5. WindowOK'
    BY <1>1, <1>2 DEF WindowOK, Executing, Settling, Taken
<1>6. DecidedOK'
    BY <1>1, <1>2 DEF DecidedOK, Executing, Settling, Concluded
<1> QED BY <1>3, <1>4, <1>5, <1>6 DEF ExecutorInv

\* The item that is next leaves the ready outputs and is settled.
LEMMA IngestKeeps == ExecutorInv /\ Ingest => ExecutorInv'
<1> SUFFICES ASSUME ExecutorInv, Ingest PROVE ExecutorInv'
    OBVIOUS
<1>1. /\ UNCHANGED <<content, scans, expected, token, items, first, superseded,
                     attempted, preflight, started, ingested, status, worker>>
      /\ pc = "ingest" /\ pc' \in Settling
      /\ NextIngest \in DOMAIN ready /\ DOMAIN ready' = DOMAIN ready \ {NextIngest}
    BY DEF Ingest, planVars, Settling, Without
<1>2. NextIngest \in Items /\ NextIngest \in Nat /\ ingested < started
    BY <1>1 DEF ExecutorInv, ShapeOK, WindowOK, Executing, Taken, Items
<1>3. ShapeOK'
  <2>1. limited' \subseteq Items /\ deferred' \subseteq Items
      BY <1>2 DEF Ingest, Consume, ExecutorInv, ShapeOK
  <2>2. loader' \in [Items -> SUBSET Contents]
      BY <1>1, <1>2 DEF Ingest, ExecutorInv, ShapeOK
  <2>3. \A i \in DOMAIN ready' : ready'[i] = ready[i]
      BY <1>1 DEF Ingest, Without
  <2>4. \A c \in checkpoints' : c.read \subseteq Contents
      BY <1>1 DEF Ingest, ExecutorInv, ShapeOK
  <2> QED BY <1>1, <2>1, <2>2, <2>3, <2>4 DEF ExecutorInv, ShapeOK, Executing, Items
<1>4. PlanOK'
    BY <1>1, PlanKept DEF ExecutorInv
<1>5. WindowOK'
    BY <1>1, <1>2 DEF ExecutorInv, WindowOK, Executing, Settling, Taken, NextIngest
<1>6. DecidedOK'
    BY <1>1 DEF ExecutorInv, DecidedOK, Executing, Settling, Concluded, prerequisites,
       Cancelled
<1> QED BY <1>3, <1>4, <1>5, <1>6 DEF ExecutorInv

\* A store that fails ends the scan, and with it the work under way.
LEMMA IngestFailsKeeps == ExecutorInv /\ IngestFails => ExecutorInv'
<1> SUFFICES ASSUME ExecutorInv, IngestFails PROVE ExecutorInv'
    OBVIOUS
<1>1. /\ UNCHANGED <<content, checkpoints, scans, expected, token, items, first,
                     superseded, attempted, preflight, started, ingested, status,
                     limited, loader, deferred>>
      /\ pc # "idle" /\ pc' = "failed"
      /\ DOMAIN worker' = {} /\ DOMAIN ready' = {}
    BY DEF IngestFails, planVars, repoVars
<1>2. ShapeOK'
    BY <1>1 DEF ExecutorInv, ShapeOK, Items, Ended
<1>3. PlanOK'
    BY <1>1, PlanKept DEF ExecutorInv
<1>4. WindowOK'
    BY <1>1 DEF ExecutorInv, WindowOK, Executing, Settling
<1>5. DecidedOK'
    BY <1>1 DEF ExecutorInv, DecidedOK, Executing, Settling, Concluded
<1> QED BY <1>2, <1>3, <1>4, <1>5 DEF ExecutorInv

\* The status of the item is decided, and the next one is due.
LEMMA SettleKeeps == ExecutorInv /\ Settle => ExecutorInv'
<1> SUFFICES ASSUME ExecutorInv, Settle PROVE ExecutorInv'
    OBVIOUS
<1>1. /\ UNCHANGED <<content, checkpoints, scans, expected, token, items, first,
                     superseded, attempted, preflight, started, limited, worker,
                     ready, loader, failed, deferred, stored>>
      /\ pc \in Settling /\ pc' = "ingest" /\ ingested' = ingested + 1
    BY DEF Settle, planVars, repoVars, Settling, NextIngest
<1>2. NextIngest \in Items /\ NextIngest = ingested + 1 /\ NextIngest \in Nat
      /\ ingested < started
    BY <1>1 DEF ExecutorInv, ShapeOK, WindowOK, Items, NextIngest
<1>3. /\ status' \in [Items -> Statuses]
      /\ \/ status'[NextIngest] \in {"completed", "failed"}
         \/ status'[NextIngest] = "cancelled" /\ Cancelled
      /\ \A i \in Items : i # NextIngest => status'[i] = status[i]
    BY <1>1, <1>2 DEF Settle, ExecutorInv, ShapeOK, Statuses
<1>4. ShapeOK'
    BY <1>1, <1>2, <1>3 DEF ExecutorInv, ShapeOK, Executing, Items
<1>5. PlanOK'
    BY <1>1, PlanKept DEF ExecutorInv, Settling
<1>6. WindowOK'
    BY <1>1, <1>2 DEF ExecutorInv, ShapeOK, WindowOK, Executing, Settling, Taken, NextIngest
<1>7. DecidedOK'
  <2>1. \A i \in 1..ingested' : \/ status'[i] \in {"completed", "failed"}
                                \/ status'[i] = "cancelled" /\ Cancelled'
      BY <1>1, <1>2, <1>3
         DEF ExecutorInv, ShapeOK, WindowOK, DecidedOK, Executing, Cancelled, Items
  <2>2. ASSUME NEW i \in DOMAIN worker, NEW j \in prerequisites(i)
        PROVE  j <= ingested' /\ status'[j] \in {"completed", "failed"}
      BY <1>1, <1>2, <1>3
         DEF ExecutorInv, ShapeOK, DecidedOK, prerequisites, Items
  <2> QED BY <1>1, <2>1, <2>2 DEF DecidedOK, Executing, Settling, Concluded, prerequisites
<1> QED BY <1>4, <1>5, <1>6, <1>7 DEF ExecutorInv

\* The steps that only move the executor on.
LEMMA ExecutorMovesKeep ==
    ExecutorInv /\ (IngestNothing \/ DispatchNothing) => ExecutorInv'
<1> SUFFICES ASSUME ExecutorInv, IngestNothing \/ DispatchNothing PROVE ExecutorInv'
    OBVIOUS
<1>1. /\ UNCHANGED <<content, checkpoints, scans, expected, token, items, first,
                     superseded, attempted, preflight, started, ingested, status,
                     limited, worker, ready, loader, failed, deferred, stored>>
      /\ pc \in Executing \ Settling /\ pc' \in Executing \ Settling
      /\ pc' = "join" => NextIngest \notin DOMAIN ready /\ ~CanDispatch
    BY DEF IngestNothing, DispatchNothing, planVars, repoVars, runVars, Executing, Settling
<1>2. ShapeOK'
    BY <1>1 DEF ExecutorInv, ShapeOK, Items
<1>3. PlanOK'
    BY <1>1, PlanKept DEF ExecutorInv, Executing, Settling
<1>4. WindowOK'
  <2>1. Taken' = Taken /\ NextIngest' = NextIngest
      BY <1>1 DEF Taken, NextIngest
  <2>2. CanDispatch' <=> CanDispatch
      BY <1>1 DEF CanDispatch, Running, Items, Cancelled, admissible, prerequisites
  <2> QED BY <1>1, <2>1, <2>2 DEF ExecutorInv, WindowOK
<1>5. DecidedOK'
    BY <1>1 DEF ExecutorInv, DecidedOK, Executing, Settling, Concluded, Cancelled, prerequisites
<1> QED BY <1>2, <1>3, <1>4, <1>5 DEF ExecutorInv

\* An item is taken from the queue when its window and its stage allow: its
\* output is replayed, or a worker runs it.
LEMMA DispatchKeeps == ExecutorInv /\ Dispatch => ExecutorInv'
<1> SUFFICES ASSUME ExecutorInv, Dispatch PROVE ExecutorInv'
    OBVIOUS
<1> DEFINE n == started + 1
<1>1. /\ UNCHANGED <<content, checkpoints, scans, pc, expected, token, items, first,
                     superseded, attempted, ingested, limited, loader, failed,
                     deferred, stored>>
      /\ pc = "dispatch" /\ started' = n /\ CanDispatch
      /\ preflight' = preflight \/ preflight' = Preflight
      /\ Replay(n) \/ Spawn(n)
    BY DEF Dispatch, planVars, repoVars
<1>2. /\ n \in Items /\ n \in Nat /\ first <= n /\ ~Cancelled
      /\ \A j \in prerequisites(n) : j <= ingested
    BY <1>1 DEF CanDispatch, admissible, ExecutorInv, ShapeOK, WindowOK, Items
<1>3. /\ status' \in [Items -> Statuses]
      /\ \A i \in Items : i # n => status'[i] = status[i]
    BY <1>1, <1>2 DEF Replay, Spawn, ExecutorInv, ShapeOK, Statuses
<1>4. n \notin DOMAIN worker /\ n \notin DOMAIN ready
    BY <1>1 DEF ExecutorInv, ShapeOK, WindowOK, Executing, Taken
<1>5. \/ /\ DOMAIN ready' = DOMAIN ready \cup {n} /\ worker' = worker
         /\ \A i \in DOMAIN ready : ready'[i] = ready[i]
         /\ \E c \in checkpoints :
               ready'[n] = [outcome |-> "ok", read |-> c.read,
                            fingerprint |-> c.read, staged |-> {}]
      \/ /\ DOMAIN worker' = DOMAIN worker \cup {n} /\ ready' = ready
         /\ \A i \in DOMAIN worker : worker'[i] = worker[i]
         /\ worker'[n] = [outcome |-> None, read |-> {}]
    BY <1>1, <1>4 DEF Replay, Spawn, Replayable, With
<1>6. ShapeOK'
  <2>1. \A i \in DOMAIN worker' : worker'[i] \in Attempt
      BY <1>5 DEF ExecutorInv, ShapeOK, Attempt, None, Outcomes
  <2>2. \A i \in DOMAIN ready' :
          /\ ready'[i].fingerprint \subseteq Contents
          /\ \A c \in ready'[i].staged : c.read \subseteq Contents
    <3>1. ASSUME NEW c \in checkpoints,
                 ready'[n] = [outcome |-> "ok", read |-> c.read,
                              fingerprint |-> c.read, staged |-> {}]
          PROVE  ready'[n].fingerprint \subseteq Contents /\ ready'[n].staged = {}
        BY <3>1 DEF ExecutorInv, ShapeOK
    <3> QED BY <1>5, <3>1 DEF ExecutorInv, ShapeOK
  <2>3. preflight' \in {"unset", "same", "changed"}
      BY <1>1 DEF ExecutorInv, ShapeOK, Preflight
  <2> QED BY <1>1, <1>2, <1>3, <2>1, <2>2, <2>3 DEF ExecutorInv, ShapeOK, Items
<1>7. PlanOK'
    BY <1>1, PlanKept DEF ExecutorInv
<1>8. WindowOK'
  <2>1. Taken' = Taken \cup {n}
      BY <1>1, <1>2 DEF Taken, Settling, ExecutorInv, ShapeOK, WindowOK
  <2> HIDE DEF n
  <2>2. /\ DOMAIN worker' \cup DOMAIN ready' = Taken'
        /\ DOMAIN worker' \cap DOMAIN ready' = {}
      BY <1>1, <1>4, <1>5, <2>1 DEF ExecutorInv, WindowOK, Executing
  <2> QED BY <1>1, <1>2, <2>2 DEF n, ExecutorInv, ShapeOK, WindowOK, Executing, Settling, Items
<1>9. DecidedOK'
  <2>1. \A i \in 1..ingested : i \in Items /\ i # n
      BY DEF ExecutorInv, ShapeOK, WindowOK, Items
  <2>2. \A j \in prerequisites(n) : j \in 1..ingested /\ status[j] \in {"completed", "failed"}
      BY <1>1, <1>2 DEF ExecutorInv, ShapeOK, DecidedOK, Executing, prerequisites
  <2>3. ASSUME NEW i \in DOMAIN worker', NEW j \in prerequisites(i)
        PROVE  j <= ingested /\ status'[j] \in {"completed", "failed"}
    <3>1. CASE i = n
        BY <1>3, <2>1, <2>2, <3>1
    <3>2. CASE i \in DOMAIN worker
      <4>1. j <= ingested /\ status[j] \in {"completed", "failed"} /\ j \in 1..ingested
          BY <3>2 DEF ExecutorInv, ShapeOK, DecidedOK, prerequisites
      <4> QED BY <1>3, <2>1, <4>1
    <3> QED BY <1>5, <3>1, <3>2
  <2> QED BY <1>1, <1>3, <2>1, <2>3
      DEF ExecutorInv, DecidedOK, Executing, Settling, Concluded, Cancelled, prerequisites
<1> QED BY <1>6, <1>7, <1>8, <1>9 DEF ExecutorInv

\* A worker's output joins those that wait for their turn.
LEMMA JoinKeeps == ExecutorInv /\ (\E i \in Items : Join(i)) => ExecutorInv'
<1> SUFFICES ASSUME ExecutorInv, NEW n \in Items, Join(n) PROVE ExecutorInv'
    OBVIOUS
<1>1. /\ UNCHANGED <<content, checkpoints, scans, expected, token, items, first,
                     superseded, attempted, preflight, started, ingested, status,
                     limited, loader, failed, deferred, stored>>
      /\ pc = "join" /\ pc' = "ingest"
      /\ n \in DOMAIN worker
      /\ DOMAIN worker' = DOMAIN worker \ {n}
      /\ \A i \in DOMAIN worker' : worker'[i] = worker[i]
      /\ DOMAIN ready' = DOMAIN ready \cup {n}
      /\ \A i \in DOMAIN ready' : i # n => ready'[i] = ready[i]
      /\ ready'[n].fingerprint = worker[n].read \/ ready'[n].fingerprint = {}
      /\ ready'[n].staged = StagedCheckpoint(n, worker[n])
    BY DEF Join, Joined, Finished, Running, With, Without, planVars, repoVars
<1>2. ShapeOK'
  <2>1. worker[n].read \subseteq Contents
      BY <1>1 DEF ExecutorInv, ShapeOK, Attempt
  <2>2. \A c \in StagedCheckpoint(n, worker[n]) : c.read = worker[n].read
      BY DEF StagedCheckpoint
  <2>3. \A i \in DOMAIN ready' :
          /\ ready'[i].fingerprint \subseteq Contents
          /\ \A c \in ready'[i].staged : c.read \subseteq Contents
      BY <1>1, <2>1, <2>2 DEF ExecutorInv, ShapeOK
  <2> QED BY <1>1, <2>3 DEF ExecutorInv, ShapeOK, Executing, Items
<1>3. PlanOK'
    BY <1>1, PlanKept DEF ExecutorInv
<1>4. WindowOK'
  <2>1. Taken' = Taken
      BY <1>1 DEF Taken, NextIngest, Settling
  <2> QED BY <1>1, <2>1 DEF ExecutorInv, WindowOK, Executing, Settling
<1>5. DecidedOK'
    BY <1>1 DEF ExecutorInv, DecidedOK, Executing, Settling, Concluded, Cancelled, prerequisites
<1> QED BY <1>2, <1>3, <1>4, <1>5 DEF ExecutorInv

\* The executor returns when no worker runs: the output that is next would be
\* ready, and an item in the queue would be let in, so none is left.
LEMMA BreakKeeps == ExecutorInv /\ Break => ExecutorInv'
<1> SUFFICES ASSUME ExecutorInv, Break PROVE ExecutorInv'
    OBVIOUS
<1>1. /\ UNCHANGED <<content, checkpoints, scans, expected, token, items, first,
                     superseded, attempted, preflight, started, ingested, limited,
                     worker, ready, loader, failed, deferred, stored>>
      /\ pc = "join" /\ pc' = "resplit" /\ Running = {}
      /\ status' = [i \in Items |-> IF i > started THEN "cancelled" ELSE status[i]]
    BY DEF Break, planVars, repoVars
<1>2. DOMAIN worker = {}
  <2>1. Taken \subseteq Items /\ DOMAIN worker \subseteq Taken
      BY <1>1 DEF Items, ExecutorInv, ShapeOK, WindowOK, Executing, Taken
  <2> QED BY <1>1, <2>1 DEF Running
<1>3. ingested = started
  <2>1. SUFFICES ASSUME ingested < started PROVE FALSE
      BY DEF ExecutorInv, ShapeOK, WindowOK
  <2>2. NextIngest \in Taken
      BY <1>1, <2>1 DEF Taken, NextIngest, Settling, ExecutorInv, ShapeOK
  <2> QED BY <1>1, <1>2, <2>2 DEF ExecutorInv, WindowOK, Executing
<1>4. DOMAIN ready = {}
  <2>1. Taken = {}
      BY <1>3 DEF Taken, ExecutorInv, ShapeOK
  <2> QED BY <1>1, <2>1 DEF ExecutorInv, WindowOK, Executing
<1>5. ~Cancelled => started = Len(items)
  <2>1. SUFFICES ASSUME ~Cancelled, started < Len(items) PROVE CanDispatch
      BY <1>1 DEF ExecutorInv, ShapeOK, WindowOK
  <2>2. Cardinality(Running) = 0 /\ MaxConcurrent \in Nat \ {0}
      BY <1>1, FS_EmptySet, AnalysisAssumption
  <2>3. \A j \in prerequisites(started + 1) : j \in Int /\ j < started + 1
      BY <2>1 DEF ExecutorInv, ShapeOK, PlanOK, WindowOK, prerequisites
  <2>4. admissible(started + 1)
      BY <1>3, <2>2, <2>3 DEF admissible, ExecutorInv, ShapeOK
  <2> QED BY <2>1, <2>2, <2>4 DEF CanDispatch
<1>6. ShapeOK'
    BY <1>1 DEF ExecutorInv, ShapeOK, Items, Statuses
<1>7. PlanOK'
    BY <1>1, PlanKept DEF ExecutorInv
<1>8. WindowOK'
    BY <1>1, <1>2, <1>4 DEF ExecutorInv, WindowOK, Executing, Settling
<1>9. DecidedOK'
  <2>1. \A i \in Items : \/ status'[i] \in {"completed", "failed"}
                         \/ status'[i] = "cancelled" /\ Cancelled
    <3>1. \A i \in 1..ingested : \/ status[i] \in {"completed", "failed"}
                                 \/ status[i] = "cancelled" /\ Cancelled
        BY <1>1 DEF ExecutorInv, DecidedOK, Executing
    <3> QED BY <1>1, <1>3, <1>5, <3>1 DEF ExecutorInv, ShapeOK, Items
  <2> QED BY <1>1, <1>2, <2>1 DEF DecidedOK, Executing, Settling, Concluded, Cancelled, Items
<1> QED BY <1>6, <1>7, <1>8, <1>9 DEF ExecutorInv

\* The re-split and promotion of the scan change no item, unless one is replaced.
LEMMA ConclusionsKeep ==
    ExecutorInv /\ (ResplitNothing \/ Analysed \/ Verify \/ Promote) => ExecutorInv'
<1> SUFFICES ASSUME ExecutorInv, ResplitNothing \/ Analysed \/ Verify \/ Promote
             PROVE  ExecutorInv'
    OBVIOUS
<1>1. /\ UNCHANGED <<content, checkpoints, scans, expected, token, items, first,
                     superseded, preflight, started, ingested, status, limited,
                     worker, ready, loader, failed>>
      /\ \/ pc = "resplit" /\ pc' = "resplit"
         \/ pc = "resplit" /\ pc' = "cancelled"
         \/ pc = "resplit" /\ pc' = "verify" /\ ~Cancelled
         \/ pc = "verify" /\ pc' \in {"promote", "partial"}
         \/ pc = "promote" /\ pc' \in {"cancelled", "published"}
    BY DEF ResplitNothing, Analysed, Verify, Promote, planVars, repoVars, runVars
<1>2. attempted' \subseteq Items /\ deferred' \subseteq Items
  <2>1. CASE ResplitNothing
      BY <2>1, FirstIsRefinable DEF ResplitNothing, Refinable, runVars, ExecutorInv, ShapeOK
  <2>2. CASE Analysed \/ Verify \/ Promote
      BY <2>2 DEF Analysed, Verify, Promote, planVars, runVars, ExecutorInv, ShapeOK
  <2> QED BY <2>1, <2>2
<1>3. ShapeOK'
    BY <1>1, <1>2 DEF ExecutorInv, ShapeOK, Items, Concluded, Ended
<1>4. PlanOK'
    BY <1>1, PlanKept DEF ExecutorInv
<1>5. WindowOK'
    BY <1>1 DEF ExecutorInv, WindowOK, Executing, Settling
<1>6. DecidedOK'
    BY <1>1 DEF ExecutorInv, WindowOK, DecidedOK, Executing, Settling, Concluded, Cancelled,
       Items, prerequisites
<1> QED BY <1>3, <1>4, <1>5, <1>6 DEF ExecutorInv

\* A worker's steps change its own attempt.
LEMMA WorkersKeep ==
    ExecutorInv /\ (\E i \in Items : WorkerReads(i) \/ WorkerEnds(i)) => ExecutorInv'
<1> SUFFICES ASSUME ExecutorInv, NEW n \in Items, WorkerReads(n) \/ WorkerEnds(n)
             PROVE  ExecutorInv'
    OBVIOUS
<1>1. /\ UNCHANGED <<content, checkpoints, scans, pc, expected, token, items, first,
                     superseded, attempted, preflight, started, ingested, status,
                     limited, ready, loader, failed, deferred, stored>>
      /\ n \in DOMAIN worker /\ DOMAIN worker' = DOMAIN worker
      /\ \A i \in DOMAIN worker : i # n => worker'[i] = worker[i]
    BY DEF WorkerReads, WorkerEnds, Running, planVars, repoVars
<1>2. worker[n] \in Attempt
    BY <1>1 DEF ExecutorInv, ShapeOK
<1>3. worker'[n] \in Attempt
  <2>1. CASE WorkerReads(n)
      BY <1>1, <1>2, <2>1 DEF WorkerReads, Attempt, ExecutorInv, ShapeOK
  <2>2. CASE WorkerEnds(n)
      BY <1>1, <1>2, <2>2 DEF WorkerEnds, Attempt
  <2> QED BY <2>1, <2>2
<1>4. ShapeOK'
    BY <1>1, <1>3 DEF ExecutorInv, ShapeOK, Items
<1>5. PlanOK'
    BY <1>1, PlanKept DEF ExecutorInv
<1>6. WindowOK'
  <2>1. Taken' = Taken /\ NextIngest' = NextIngest
      BY <1>1 DEF Taken, NextIngest
  <2>2. CanDispatch' <=> CanDispatch
      BY <1>1 DEF CanDispatch, Running, Items, Cancelled, admissible, prerequisites
  <2> QED BY <1>1, <2>1, <2>2 DEF ExecutorInv, WindowOK
<1>7. DecidedOK'
    BY <1>1 DEF ExecutorInv, DecidedOK, Executing, Settling, Concluded, Cancelled, Items,
       prerequisites
<1> QED BY <1>4, <1>5, <1>6, <1>7 DEF ExecutorInv

\* Cancellation only withholds what the executor may do; an edit changes nothing
\* that it holds.
LEMMA OutsideKeeps == ExecutorInv /\ (Cancel \/ Edit) => ExecutorInv'
<1> SUFFICES ASSUME ExecutorInv, Cancel \/ Edit PROVE ExecutorInv'
    OBVIOUS
<1>1. /\ UNCHANGED <<checkpoints, scans, pc, expected, items, first, superseded,
                     attempted, preflight, started, ingested, status, limited,
                     worker, ready, loader, failed, deferred, stored>>
      /\ content' \in Contents /\ token' \in {"active", "cancelled"}
      /\ Cancelled => Cancelled'
    BY DEF Cancel, Edit, planVars, repoVars, runVars, ExecutorInv, ShapeOK, Cancelled
<1>2. ShapeOK'
    BY <1>1 DEF ExecutorInv, ShapeOK, Items
<1>3. PlanOK'
    BY <1>1, PlanKept DEF ExecutorInv
<1>4. WindowOK'
  <2>1. Taken' = Taken /\ NextIngest' = NextIngest
      BY <1>1 DEF Taken, NextIngest
  <2>2. CanDispatch' => CanDispatch
      BY <1>1 DEF CanDispatch, Running, Items, admissible, prerequisites
  <2> QED BY <1>1, <2>1, <2>2 DEF ExecutorInv, WindowOK
<1>5. DecidedOK'
    BY <1>1 DEF ExecutorInv, DecidedOK, Executing, Settling, Concluded, Items, prerequisites
<1> QED BY <1>2, <1>3, <1>4, <1>5 DEF ExecutorInv

\* A crash leaves the checkpoints.
LEMMA CrashKeeps == ExecutorInv /\ Crash => ExecutorInv'
<1> SUFFICES ASSUME ExecutorInv, Crash PROVE ExecutorInv'
    OBVIOUS
<1> USE DEF Crash, repoVars
<1>1. Len(items') = 0 /\ Items' = {} /\ DOMAIN worker' = {} /\ DOMAIN ready' = {}
    BY DEF Items
<1>2. ShapeOK'
    BY <1>1 DEF ExecutorInv, ShapeOK
<1>3. PlanOK'
    BY <1>1 DEF PlanOK
<1>4. WindowOK'
    BY <1>1 DEF WindowOK, Executing, Settling
<1>5. DecidedOK'
    BY <1>1 DEF DecidedOK, Executing, Settling, Concluded
<1> QED BY <1>2, <1>3, <1>4, <1>5 DEF ExecutorInv

\* What a re-split makes of the items: the old ones stay as they are, and the
\* replacements follow them, queued, with the paths of the one they replace.
Replaced(x, n, m) ==
    /\ x \in Items \ superseded /\ x \in limited /\ status[x] = "failed"
    /\ n = Len(items) /\ m = Len(items') /\ n \in Nat /\ m \in Nat /\ n < m
    /\ items' \in Seq(WorkItem)
    /\ status' \in [1..m -> Statuses] /\ loader' \in [1..m -> SUBSET Contents]
    /\ \A i \in 1..n : items'[i] = items[i] /\ status'[i] = status[i] /\ loader'[i] = loader[i]
    /\ \A i \in (n + 1)..m :
          /\ items'[i].unit = items[x].unit /\ items'[i].stage = items[x].stage
          /\ items'[i].paths # {} /\ items'[i].paths \subseteq items[x].paths
          /\ status'[i] = "queued" /\ loader'[i] = {}
    /\ \A i, j \in (n + 1)..m : i # j => items'[i].paths \cap items'[j].paths = {}
    /\ \A p \in items[x].paths : \E i \in (n + 1)..m : p \in items'[i].paths
    /\ attempted' = attempted \cup {x} /\ superseded' = superseded \cup {x}
    /\ failed' = failed \ {UnitId(x)} /\ deferred' = deferred \ {x}
    /\ first' = n + 1 /\ started' = n /\ ingested' = n
    /\ pc = "resplit" /\ pc' = "ingest" /\ ~Cancelled
    /\ UNCHANGED <<content, checkpoints, scans, expected, token, preflight, limited,
                   worker, ready, stored>>

\* A re-split appends the replacements of one item that failed at a limit.
LEMMA ResplitReplaces ==
    ASSUME ExecutorInv, Resplit
    PROVE  \E x \in Items, n \in Nat, m \in Nat : Replaced(x, n, m)
<1> DEFINE x == FirstRefinable
           n == Len(items)
<1>1. PICK finer \in Finer(items[x]) :
          /\ items' = items \o finer
          /\ status' = status \o [k \in 1..Len(finer) |-> "queued"]
          /\ loader' = loader \o [k \in 1..Len(finer) |-> {}]
    BY DEF Resplit
<1>2. /\ pc = "resplit" /\ ~Cancelled /\ Refinable # {}
      /\ items[x].level < MaxLevel
      /\ attempted' = attempted \cup {x} /\ superseded' = superseded \cup {x}
      /\ failed' = failed \ {UnitId(x)} /\ deferred' = deferred \ {x}
      /\ first' = n + 1 /\ started' = n /\ ingested' = n /\ pc' = "ingest"
      /\ UNCHANGED <<content, checkpoints, scans, expected, token, preflight, limited,
                     worker, ready, stored>>
    BY DEF Resplit, Withdrawn, repoVars
<1>3. x \in Items \ superseded /\ x \in limited /\ status[x] = "failed"
    BY <1>2, FirstIsRefinable DEF Refinable
<1>4. n \in Nat /\ items \in Seq(WorkItem) /\ items[x] \in WorkItem /\ items[x].paths # {}
    BY <1>3 DEF ExecutorInv, ShapeOK, PlanOK, Items
<1> HIDE DEF x, n
<1>5. /\ finer \in Seq(WorkItem)
      /\ \A k \in 1..Len(finer) :
            /\ finer[k].unit = items[x].unit /\ finer[k].stage = items[x].stage
            /\ finer[k].paths # {} /\ finer[k].paths \subseteq items[x].paths
      /\ \A k, l \in 1..Len(finer) : k # l => finer[k].paths \cap finer[l].paths = {}
      /\ \A p \in items[x].paths : \E k \in 1..Len(finer) : p \in finer[k].paths
    BY <1>1, <1>2, <1>4, FinerDivides
<1> DEFINE l == Len(finer)
           m == n + l
<1>6. l \in Nat /\ l > 0 /\ finer \in [1..l -> WorkItem] /\ items \in [1..n -> WorkItem]
  <2>1. PICK p \in items[x].paths : TRUE
      BY <1>4
  <2>2. l \in Nat /\ \E k \in 1..l : TRUE
      BY <1>5, <2>1
  <2> QED BY <1>4, <1>5, <2>2 DEF n
<1> HIDE DEF l
<1>7. /\ items' \in [1..m -> WorkItem] /\ items' \in Seq(WorkItem) /\ Len(items') = m
      /\ \A i \in 1..n : items'[i] = items[i]
      /\ \A k \in 1..l : items'[n + k] = finer[k]
      /\ \A i \in 1..m : i > n => items'[i] = finer[i - n]
  <2>1. /\ Len(items) = n /\ Len(finer) = l
        /\ items \in Seq(WorkItem) /\ finer \in Seq(WorkItem)
      BY <1>4, <1>5 DEF n, l
  <2>2. items \o finer \in Seq(WorkItem) /\ Len(items \o finer) = n + l
      BY <2>1, Appended
  <2>3. items \o finer \in [1..(n + l) -> WorkItem]
      BY <2>1, Appended
  <2>4. \A i \in 1..n : (items \o finer)[i] = items[i]
      BY <2>1, Appended
  <2>5. \A k \in 1..l : (items \o finer)[n + k] = finer[k]
      BY <2>1, Appended
  <2>6. \A i \in 1..(n + l) : i > n => (items \o finer)[i] = finer[i - n]
      BY <2>1, Appended
  <2> QED BY <1>1, <2>2, <2>3, <2>4, <2>5, <2>6
<1>8. /\ status' \in [1..m -> Statuses]
      /\ \A i \in 1..n : status'[i] = status[i]
      /\ \A i \in 1..m : i > n => status'[i] = "queued"
  <2>1. [k \in 1..l |-> "queued"] \in [1..l -> Statuses]
      BY DEF Statuses
  <2>2. status \in [1..n -> Statuses]
      BY DEF n, ExecutorInv, ShapeOK, Items
  <2>3. status' = status \o [k \in 1..l |-> "queued"]
      BY <1>1 DEF l
  <2> DEFINE g == [k \in 1..l |-> "queued"]
  <2>4. \A k \in 1..l : g[k] = "queued"
      OBVIOUS
  <2>5. g \in [1..l -> Statuses] /\ status' = status \o g
      BY <2>1, <2>3
  <2> HIDE DEF g
  <2>6. status \in Seq(Statuses) /\ g \in Seq(Statuses) /\ Len(status) = n /\ Len(g) = l
      BY <1>4, <1>6, <2>2, <2>5, FunctionIsSeq
  <2>7. /\ status \o g \in [1..m -> Statuses]
        /\ \A i \in 1..n : (status \o g)[i] = status[i]
        /\ \A i \in 1..m : i > n => (status \o g)[i] = g[i - n]
      BY <2>6, Appended
  <2>8. \A i \in 1..m : i > n => i - n \in 1..l
      BY <1>4, <1>6
  <2> QED BY <2>4, <2>5, <2>7, <2>8
<1>9. /\ loader' \in [1..m -> SUBSET Contents]
      /\ \A i \in 1..n : loader'[i] = loader[i]
      /\ \A i \in 1..m : i > n => loader'[i] = {}
  <2> DEFINE Reads == SUBSET Contents
             g == [k \in 1..l |-> {}]
  <2>1. g \in [1..l -> Reads] /\ \A k \in 1..l : g[k] = {}
      OBVIOUS
  <2>2. loader \in [1..n -> Reads]
      BY DEF n, ExecutorInv, ShapeOK, Items
  <2>3. loader' = loader \o g
      BY <1>1 DEF l
  <2> HIDE DEF g, Reads
  <2>4. loader \in Seq(Reads) /\ g \in Seq(Reads) /\ Len(loader) = n /\ Len(g) = l
      BY <1>4, <1>6, <2>1, <2>2, FunctionIsSeq
  <2>5. /\ loader \o g \in [1..m -> Reads]
        /\ \A i \in 1..n : (loader \o g)[i] = loader[i]
        /\ \A i \in 1..m : i > n => (loader \o g)[i] = g[i - n]
      BY <2>4, Appended
  <2>6. \A i \in 1..m : i > n => i - n \in 1..l
      BY <1>4, <1>6
  <2>7. loader' \in [1..m -> Reads]
      BY <2>3, <2>5
  <2> QED BY <2>1, <2>3, <2>5, <2>6, <2>7 DEF Reads
<1>10. \A i \in (n + 1)..m : i \in 1..m /\ i > n /\ i - n \in 1..l
    BY <1>4, <1>6
<1>11. \A i, j \in (n + 1)..m : i # j => items'[i].paths \cap items'[j].paths = {}
  <2> TAKE i, j \in (n + 1)..m
  <2>1. i # j => i - n # j - n
      BY <1>4, <1>6
  <2> QED BY <1>5, <1>7, <1>10, <2>1 DEF l
<1>12. \A p \in items[x].paths : \E i \in (n + 1)..m : p \in items'[i].paths
  <2> TAKE p \in items[x].paths
  <2>1. PICK k \in 1..l : p \in finer[k].paths
      BY <1>5 DEF l
  <2>2. n + k \in (n + 1)..m /\ items'[n + k] = finer[k]
      BY <1>4, <1>6, <1>7
  <2> QED BY <2>1, <2>2
<1>13. \A i \in (n + 1)..m :
          /\ items'[i].unit = items[x].unit /\ items'[i].stage = items[x].stage
          /\ items'[i].paths # {} /\ items'[i].paths \subseteq items[x].paths
    BY <1>5, <1>7, <1>10 DEF l
<1>14. m \in Nat /\ n < m /\ n = Len(items) /\ m = Len(items')
    BY <1>4, <1>6, <1>7 DEF n
<1>15. Replaced(x, n, m)
    BY <1>2, <1>3, <1>4, <1>7, <1>8, <1>9, <1>10, <1>11, <1>12, <1>13, <1>14 DEF Replaced
<1> QED BY <1>3, <1>4, <1>14, <1>15

\* The executor starts again with the replacements, which have no stage among
\* them to wait for.
LEMMA ResplitKeeps == ExecutorInv /\ Resplit => ExecutorInv'
<1> SUFFICES ASSUME ExecutorInv, Resplit PROVE ExecutorInv'
    OBVIOUS
<1>1. PICK x \in Items, n \in Nat, m \in Nat : Replaced(x, n, m)
    BY ResplitReplaces
<1> USE <1>1
<1>2. Items = 1..n /\ Items' = 1..m /\ x \in 1..n /\ DOMAIN worker' = {} /\ DOMAIN ready' = {}
    BY DEF Replaced, Items, ExecutorInv, WindowOK, Executing, Settling
<1>3. \A i \in 1..m : i \in 1..n \/ i \in (n + 1)..m
    OBVIOUS
<1>4. ShapeOK'
  <2>1. limited' \subseteq 1..m /\ attempted' \subseteq 1..m /\ deferred' \subseteq 1..m
      BY <1>2 DEF Replaced, ExecutorInv, ShapeOK
  <2>2. /\ items' \in Seq(WorkItem) /\ status' \in [Items' -> Statuses]
        /\ loader' \in [Items' -> SUBSET Contents]
        /\ first' \in Nat \ {0} /\ started' \in Nat /\ ingested' \in Nat
        /\ pc' \in Executing
      BY <1>2 DEF Replaced, Executing
  <2> QED BY <1>2, <2>1, <2>2 DEF Replaced, ExecutorInv, ShapeOK
<1>5. PlanOK'
  <2>1. \A i \in Items' : items'[i].paths # {}
      BY <1>2, <1>3 DEF Replaced, ExecutorInv, PlanOK
  <2>2. ASSUME NEW i \in Items' \ superseded', NEW j \in Items' \ superseded', i # j,
               items'[i].unit = items'[j].unit, items'[i].stage = items'[j].stage
        PROVE  items'[i].paths \cap items'[j].paths = {}
    <3>1. ASSUME NEW a \in 1..n, a \notin superseded', NEW b \in (n + 1)..m,
                 items'[a].unit = items'[b].unit, items'[a].stage = items'[b].stage
          PROVE  items'[a].paths \cap items'[b].paths = {}
      <4>1. a # x /\ a \notin superseded /\ x \notin superseded
          BY <3>1 DEF Replaced
      <4>2. /\ items'[a] = items[a]
            /\ items'[b].unit = items[x].unit /\ items'[b].stage = items[x].stage
            /\ items'[b].paths \subseteq items[x].paths
          BY DEF Replaced
      <4>3. items[a].paths \cap items[x].paths = {}
          BY <1>2, <3>1, <4>1, <4>2 DEF ExecutorInv, PlanOK
      <4> QED BY <4>2, <4>3
    <3>2. CASE i \in 1..n /\ j \in 1..n
      <4>1. /\ i \in Items \ superseded /\ j \in Items \ superseded
            /\ items'[i] = items[i] /\ items'[j] = items[j]
          BY <1>2, <3>2 DEF Replaced
      <4> QED BY <2>2, <4>1 DEF ExecutorInv, PlanOK
    <3>3. CASE i \in (n + 1)..m /\ j \in (n + 1)..m
        BY <2>2, <3>3 DEF Replaced
    <3> QED BY <1>2, <1>3, <2>2, <3>1, <3>2, <3>3
  <2>3. ASSUME NEW w \in 1..Len(Work), NEW p \in Work[w].paths
        PROVE  \E i \in Items' \ superseded' :
                  /\ items'[i].unit = Work[w].unit /\ items'[i].stage = Work[w].stage
                  /\ p \in items'[i].paths
    <3>1. PICK i \in Items \ superseded :
              /\ items[i].unit = Work[w].unit /\ items[i].stage = Work[w].stage
              /\ p \in items[i].paths
        BY DEF ExecutorInv, PlanOK, Replaced
    <3>2. CASE i = x
      <4>1. PICK k \in (n + 1)..m : p \in items'[k].paths
          BY <3>1, <3>2 DEF Replaced
      <4>2. k \in Items' \ superseded'
          BY <1>2 DEF Replaced, ExecutorInv, ShapeOK, PlanOK, WindowOK
      <4> QED BY <3>1, <3>2, <4>1, <4>2 DEF Replaced
    <3>3. CASE i # x
      <4>1. i \in 1..n /\ i \in Items' \ superseded' /\ items'[i] = items[i]
          BY <1>2, <3>1, <3>3 DEF Replaced
      <4> QED BY <3>1, <4>1
    <3> QED BY <3>2, <3>3
  <2>4. \A i \in first'..Len(items') : prerequisites(i)' = {}
    <3>1. \A i, j \in (n + 1)..m : items'[i].stage = items'[j].stage
        BY DEF Replaced
    <3>2. \A stage : stage \notin Prior(stage)
        BY DEF Prior
    <3>3. first' = n + 1 /\ Len(items') = m
        BY DEF Replaced
    <3> QED BY <3>1, <3>2, <3>3 DEF prerequisites
  <2>5. superseded' \subseteq 1..(first' - 1)
      BY <1>2 DEF Replaced, ExecutorInv, ShapeOK, PlanOK, WindowOK
  <2> QED BY <2>1, <2>2, <2>3, <2>4, <2>5 DEF PlanOK
<1>6. WindowOK'
  <2>1. Taken' = {}
      BY DEF Taken, Replaced
  <2> QED BY <1>2, <2>1 DEF Replaced, WindowOK, Executing, Settling
<1>7. DecidedOK'
  <2>1. \A i \in 1..n : status'[i] \in {"completed", "failed"}
      BY <1>2 DEF Replaced, ExecutorInv, DecidedOK
  <2> QED BY <1>2, <2>1 DEF Replaced, DecidedOK, Executing, Settling, Concluded
<1> QED BY <1>4, <1>5, <1>6, <1>7 DEF ExecutorInv

\* The executor's invariant: window, stage order, and decisions.
THEOREM ExecutorInvariant == Spec => []ExecutorInv
<1>1. ExecutorInv /\ UNCHANGED vars => ExecutorInv'
  <2> SUFFICES ASSUME ExecutorInv, UNCHANGED vars PROVE ExecutorInv'
      OBVIOUS
  <2>0. Items' = Items /\ \A i : prerequisites(i)' = prerequisites(i)
      BY DEF vars, Items, prerequisites
  <2>1. ShapeOK' /\ PlanOK' /\ DecidedOK'
    <3>1. ShapeOK'
        BY <2>0 DEF vars, ExecutorInv, ShapeOK
    <3>2. PlanOK'
        BY <2>0 DEF vars, ExecutorInv, PlanOK
    <3>3. DecidedOK'
        BY <2>0 DEF vars, ExecutorInv, DecidedOK, Cancelled
    <3> QED BY <3>1, <3>2, <3>3
  <2>2. Taken' = Taken /\ NextIngest' = NextIngest /\ (CanDispatch' <=> CanDispatch)
      BY DEF vars, Taken, NextIngest, CanDispatch, Running, Items, Cancelled, admissible,
         prerequisites
  <2>3. WindowOK'
      BY <2>2 DEF vars, ExecutorInv, WindowOK
  <2> QED BY <2>1, <2>3 DEF ExecutorInv
<1>2. ExecutorInv /\ [Next]_vars => ExecutorInv'
    BY <1>1, StartScanKeeps, IngestKeeps, IngestFailsKeeps, SettleKeeps, ExecutorMovesKeep,
       DispatchKeeps, JoinKeeps, BreakKeeps, ConclusionsKeep, ResplitKeeps, WorkersKeep,
       OutsideKeeps, CrashKeeps DEF Next, Execute
<1> QED BY ExecutorInit, <1>2, PTL DEF Spec

\* The executor returns only when every item was ingested, unless the token was
\* cancelled (the break of the loop, analysis_execution.rs:841).
THEOREM NoItemIsLost == Spec => []NoUnitLost
<1>1. ExecutorInv => NoUnitLost
    BY DEF ExecutorInv, DecidedOK, NoUnitLost, Concluded
<1> QED BY <1>1, ExecutorInvariant, PTL

-----------------------------------------------------------------------------
(***************************************************************************)
(* The ledger: failures and staged outputs.                                *)
(***************************************************************************)
\* Two items that count have two identities: they share no path, and each has
\* one.
LEMMA UnitIdsDiffer ==
    ASSUME ExecutorInv, NEW i \in Items \ superseded, NEW j \in Items \ superseded, i # j
    PROVE  UnitId(i) # UnitId(j)
<1> SUFFICES ASSUME UnitId(i) = UnitId(j) PROVE FALSE
    OBVIOUS
<1>1. /\ items[i].unit = items[j].unit /\ items[i].stage = items[j].stage
      /\ items[i].paths = items[j].paths
    BY DEF UnitId
<1> QED BY <1>1 DEF ExecutorInv, PlanOK

\* The ledger of no scan is empty.
LEMMA LedgerEmpty ==
    ASSUME Items = {}, superseded = {}, failed = {}, stored = {}, deferred = {},
           limited = {}, ingested = 0, pc = "idle"
    PROVE  LedgerInv
BY DEF LedgerInv, FailuresOK, StagedOK, Settling

\* A new scan has nothing on record.
LEMMA StartScanLedger == ExecutorInv' /\ StartScan => LedgerInv'
<1> SUFFICES ASSUME ExecutorInv', StartScan PROVE LedgerInv'
    OBVIOUS
<1>1. /\ failed' = {} /\ stored' = {} /\ deferred' = {} /\ limited' = {}
      /\ pc' = "ingest" /\ Items' = 1..Len(Work)
      /\ \A i \in Items' : status'[i] = "queued"
    BY DEF StartScan, Items
<1> QED BY <1>1 DEF LedgerInv, FailuresOK, StagedOK, Settling

\* A step that leaves the records alone keeps the ledger.
LEMMA LedgerKept ==
    ASSUME LedgerInv,
           UNCHANGED <<items, superseded, status, failed, stored, deferred, limited, ingested>>,
           Cancelled => Cancelled',
           \/ pc' = pc
           \/ /\ pc \notin Settling /\ pc' \notin Settling
              /\ pc \in Concluded \cup Ended => pc' \in Concluded \cup Ended
              /\ pc' \in {"promote", "published"} => failed = {} /\ Covered
    PROVE  LedgerInv'
<1>1. FailuresOK'
  <2>1. \A i : UnitId(i)' = UnitId(i)
      BY DEF UnitId
  <2>2. \A i : Consumed(i)' <=> Consumed(i)
      BY DEF Consumed, NextIngest
  <2> QED BY <2>1, <2>2 DEF LedgerInv, FailuresOK, Items, NextIngest, Settling
<1>2. StagedOK'
  <2>1. \A i : UnitId(i)' = UnitId(i)
      BY DEF UnitId
  <2>2. \A i : Consumed(i)' <=> Consumed(i)
      BY DEF Consumed, NextIngest
  <2>3. Items' = Items /\ NextIngest' = NextIngest /\ (Covered' <=> Covered)
      BY DEF Items, NextIngest, Covered
  <2>4. ASSUME NEW r \in stored
        PROVE  /\ r.item \in Items \ superseded /\ Consumed(r.item)
               /\ pc' \notin Concluded \cup Ended => r.item \notin limited
               /\ r.partial \in BOOLEAN
               /\ r.partial => UnitId(r.item) \in failed
      BY DEF LedgerInv, StagedOK
  <2>5. /\ NextIngest \in limited => pc' \in Settling
        /\ pc' = "settle" => \E r \in stored : r.item = NextIngest /\ ~r.partial
        /\ pc' \in {"promote", "published"} => failed = {} /\ Covered
      BY DEF LedgerInv, StagedOK, Settling
  <2>6. /\ \A r, q \in stored : r.item = q.item => r = q
        /\ \A i \in deferred :
              i \notin superseded /\ UnitId(i) \in failed /\ i \in limited /\ Consumed(i)
        /\ limited \subseteq 1..NextIngest
        /\ \A i \in Items : status[i] = "completed" =>
              \E r \in stored : r.item = i /\ ~r.partial
      BY DEF LedgerInv, StagedOK
  <2> QED BY <2>1, <2>2, <2>3, <2>4, <2>5, <2>6 DEF StagedOK
<1> QED BY <1>1, <1>2 DEF LedgerInv

\* The steps that leave the records alone.
LEMMA QuietLedger ==
    ASSUME ExecutorInv, LedgerInv,
           \/ IngestFails \/ IngestNothing \/ DispatchNothing
           \/ (\E i \in Items : Join(i)) \/ ResplitNothing \/ Verify \/ Promote
           \/ (\E i \in Items : WorkerReads(i) \/ WorkerEnds(i))
           \/ Cancel \/ Edit
    PROVE  LedgerInv'
<1>1. /\ UNCHANGED <<items, superseded, status, failed, stored, deferred, limited, ingested>>
      /\ Cancelled => Cancelled'
    BY DEF IngestFails, IngestNothing, DispatchNothing, Join, ResplitNothing, Verify,
       Promote, WorkerReads, WorkerEnds, Cancel, Edit, planVars, repoVars, runVars, Cancelled
<1>2. \/ pc' = pc
      \/ /\ pc \notin Settling /\ pc' \notin Settling
         /\ pc \in Concluded \cup Ended => pc' \in Concluded \cup Ended
         /\ pc' \in {"promote", "published"} => failed = {} /\ Covered
  <2>1. CASE Verify
      BY <2>1 DEF Verify, Settling, Concluded
  <2>2. CASE Promote
    <3>1. failed = {} /\ Covered
        BY <2>2 DEF Promote, LedgerInv, StagedOK
    <3> QED BY <2>2, <3>1 DEF Promote, Settling, Concluded, Ended
  <2>3. CASE IngestFails \/ IngestNothing \/ DispatchNothing \/ \E i \in Items : Join(i)
      BY <2>3 DEF IngestFails, IngestNothing, DispatchNothing, Join, Settling, Concluded, Ended
  <2>4. CASE \/ ResplitNothing \/ Cancel \/ Edit
             \/ \E i \in Items : WorkerReads(i) \/ WorkerEnds(i)
      BY <2>4 DEF ResplitNothing, Cancel, Edit, WorkerReads, WorkerEnds
  <2> QED BY <2>1, <2>2, <2>3, <2>4
<1> QED BY <1>1, <1>2, LedgerKept

\* What is consumed is recorded: in the store, as a failure, or both; a failure
\* at a limit is held back.
LEMMA IngestLedger == ExecutorInv /\ LedgerInv /\ Ingest => LedgerInv'
<1> SUFFICES ASSUME ExecutorInv, LedgerInv, Ingest PROVE LedgerInv'
    OBVIOUS
<1> DEFINE n == NextIngest
           output == ready[n]
<1>1. PICK accepted \in BOOLEAN :
          /\ accepted => output.outcome = "ok"
          /\ Consume(n, output, accepted)
          /\ pc' = IF accepted THEN "settle" ELSE "settle_failed"
    BY DEF Ingest
<1>2. /\ UNCHANGED <<items, superseded, status, ingested, token>>
      /\ limited' = IF output.outcome = "limit" THEN limited \cup {n} ELSE limited
      /\ pc = "ingest" /\ n \in DOMAIN ready
    BY DEF Ingest, planVars
<1>3. n \in Items \ superseded /\ n \in Nat /\ n = ingested + 1 /\ ingested \in Nat
    BY <1>2 DEF ExecutorInv, ShapeOK, PlanOK, WindowOK, Executing, Taken, Items, NextIngest
<1>4. /\ n' = n /\ Items' = Items /\ (Cancelled' <=> Cancelled)
      /\ \A i : UnitId(i)' = UnitId(i)
    BY <1>2 DEF NextIngest, Items, UnitId, Cancelled
<1>5. \A i : Consumed(i)' <=> Consumed(i) \/ i = n
    BY <1>1, <1>2, <1>4 DEF Consumed, Settling
<1>6. (\A r \in stored : r.item # n) /\ n \notin deferred /\ n \notin limited
    BY <1>2, <1>3 DEF LedgerInv, StagedOK, Consumed, Settling, NextIngest, ExecutorInv,
       ShapeOK, Items
<1>7. \E record :
        /\ record.item = n /\ record.partial \in BOOLEAN
        /\ record.partial => ~accepted
        /\ \/ /\ stored' = stored \cup {record}
              /\ deferred' = deferred /\ limited' = limited
              /\ accepted => ~record.partial
           \/ /\ stored' = stored /\ ~accepted
              /\ \/ deferred' = deferred \cup {n} /\ limited' = limited \cup {n}
                 \/ deferred' = deferred /\ limited' = limited
  <2> DEFINE record == [item |-> n, partial |-> ~accepted, read |-> output.read]
  <2>1. record.item = n /\ record.partial = ~accepted
      OBVIOUS
  <2>2. /\ deferred' = IF output.outcome = "limit" THEN deferred \cup {n} ELSE deferred
        /\ stored' = IF output.outcome = "limit" \/ (output.outcome = "ok" /\ ~accepted)
                     THEN stored ELSE stored \cup {record}
      BY <1>1 DEF Consume, held_back
  <2> HIDE DEF record, n, output
  <2> QED BY <1>1, <1>2, <2>1, <2>2
<1>8. failed' = IF accepted THEN failed ELSE failed \cup {UnitId(n)}
    BY <1>1 DEF Consume
<1>9. FailuresOK'
  <2>1. \A i \in Items \ superseded : status[i] = "failed" => UnitId(i) \in failed'
      BY <1>8 DEF LedgerInv, FailuresOK
  <2>2. ASSUME NEW u \in failed'
        PROVE  \E i \in Items \ superseded :
                  /\ u = UnitId(i)
                  /\ \/ i <= ingested /\ status[i] = "failed"
                     \/ i <= ingested /\ status[i] = "cancelled" /\ Cancelled
                     \/ pc' = "settle_failed" /\ i = n
    <3>1. CASE u \in failed
        BY <1>2, <3>1 DEF LedgerInv, FailuresOK
    <3>2. CASE ~accepted /\ u = UnitId(n)
        BY <1>1, <1>3, <3>2
    <3> QED BY <1>8, <3>1, <3>2
  <2>3. pc' = "settle_failed" => UnitId(n) \in failed'
      BY <1>1, <1>8
  <2> QED BY <1>2, <1>4, <2>1, <2>2, <2>3 DEF FailuresOK
<1>10. StagedOK'
  <2>1. PICK record :
        /\ record.item = n /\ record.partial \in BOOLEAN
        /\ record.partial => ~accepted
        /\ \/ /\ stored' = stored \cup {record}
              /\ deferred' = deferred /\ limited' = limited
              /\ accepted => ~record.partial
           \/ /\ stored' = stored /\ ~accepted
              /\ \/ deferred' = deferred \cup {n} /\ limited' = limited \cup {n}
                 \/ deferred' = deferred /\ limited' = limited
      BY <1>7
  <2> HIDE DEF n, output
  <2>2. ASSUME NEW r \in stored'
        PROVE  /\ r.item \in Items \ superseded
               /\ Consumed(r.item)'
               /\ pc' \notin Concluded \cup Ended => r.item \notin limited'
               /\ r.partial \in BOOLEAN
               /\ r.partial => UnitId(r.item) \in failed'
    <3>1. CASE r \in stored
      <4>1. /\ r.item \in Items \ superseded /\ Consumed(r.item)
            /\ r.item \notin limited /\ r.item # n
            /\ r.partial \in BOOLEAN /\ (r.partial => UnitId(r.item) \in failed)
          BY <1>2, <1>6, <3>1 DEF LedgerInv, StagedOK, Concluded, Ended
      <4> QED BY <1>5, <1>8, <2>1, <4>1
    <3>2. CASE stored' = stored \cup {record} /\ r = record
      <4>1. limited' = limited
          BY <1>6, <2>1, <3>2
      <4> QED BY <1>3, <1>5, <1>6, <1>8, <2>1, <3>2, <4>1
    <3> QED BY <2>1, <3>1, <3>2
  <2>3. \A r, q \in stored' : r.item = q.item => r = q
      BY <1>6, <2>1 DEF LedgerInv, StagedOK
  <2>4. \A i \in deferred' :
          /\ i \notin superseded /\ UnitId(i) \in failed' /\ i \in limited'
          /\ Consumed(i)'
      BY <1>3, <1>5, <1>8, <2>1 DEF LedgerInv, StagedOK
  <2>5. limited' \subseteq 1..n
    <3>1. limited \subseteq 1..n /\ n \in 1..n
        BY <1>3 DEF LedgerInv, StagedOK, n
    <3> QED BY <2>1, <3>1
  <2>6. \A i \in Items : status[i] = "completed" =>
          \E r \in stored' : r.item = i /\ ~r.partial
      BY <2>1 DEF LedgerInv, StagedOK
  <2>7. pc' = "settle" => \E r \in stored' : r.item = n /\ ~r.partial
      BY <1>1, <2>1
  <2>8. pc' \in Settling /\ pc' \notin {"promote", "published"}
      BY <1>1 DEF Settling
  <2> QED BY <1>2, <1>4, <2>2, <2>3, <2>4, <2>5, <2>6, <2>7, <2>8 DEF StagedOK, n
<1> QED BY <1>9, <1>10 DEF LedgerInv

\* Settling an item moves it to what is ingested, with a status that matches
\* its record.
LEMMA SettleLedger == ExecutorInv /\ LedgerInv /\ Settle => LedgerInv'
<1> SUFFICES ASSUME ExecutorInv, LedgerInv, Settle PROVE LedgerInv'
    OBVIOUS
<1> DEFINE n == NextIngest
<1>1. /\ UNCHANGED <<items, superseded, token, limited, failed, deferred, stored>>
      /\ pc \in Settling /\ pc' = "ingest" /\ ingested' = n
      /\ status' = [status EXCEPT ![n] = IF Cancelled THEN "cancelled"
                                         ELSE IF pc = "settle" THEN "completed" ELSE "failed"]
    BY DEF Settle, planVars, Settling
<1>2. n \in Items \ superseded /\ n \in Nat /\ n = ingested + 1 /\ ingested \in Nat
    BY <1>1 DEF ExecutorInv, ShapeOK, PlanOK, WindowOK, Items, NextIngest
<1>3. /\ Items' = Items /\ (Cancelled' <=> Cancelled) /\ NextIngest' = n + 1
      /\ \A i : UnitId(i)' = UnitId(i)
    BY <1>1 DEF NextIngest, Items, UnitId, Cancelled
<1>4. \A i \in Items : Consumed(i)' <=> Consumed(i)
    BY <1>1, <1>2, <1>3 DEF Consumed, Items, Settling
<1>5. /\ \A i \in Items : i # n => status'[i] = status[i]
      /\ status'[n] = IF Cancelled THEN "cancelled"
                      ELSE IF pc = "settle" THEN "completed" ELSE "failed"
    BY <1>1, <1>2 DEF ExecutorInv, ShapeOK
<1> HIDE DEF n
<1>6. FailuresOK'
  <2>1. \A i \in Items \ superseded : status'[i] = "failed" => UnitId(i) \in failed
    <3> TAKE i \in Items \ superseded
    <3>1. CASE i = n
        BY <1>1, <1>5, <3>1 DEF LedgerInv, FailuresOK, Settling, n
    <3>2. CASE i # n
        BY <1>5, <3>2 DEF LedgerInv, FailuresOK
    <3> QED BY <3>1, <3>2
  <2>2. ASSUME NEW u \in failed
        PROVE  \E i \in Items \ superseded :
                  /\ u = UnitId(i) /\ i <= n
                  /\ status'[i] = "failed" \/ (status'[i] = "cancelled" /\ Cancelled)
    <3>1. PICK i \in Items \ superseded :
              /\ u = UnitId(i)
              /\ \/ i <= ingested /\ status[i] = "failed"
                 \/ i <= ingested /\ status[i] = "cancelled" /\ Cancelled
                 \/ pc = "settle_failed" /\ i = n
        BY DEF LedgerInv, FailuresOK, n
    <3>2. CASE i = n /\ pc = "settle_failed"
        BY <1>2, <1>5, <3>1, <3>2
    <3>3. CASE i <= ingested
      <4>1. i # n /\ i <= n
          BY <1>2, <3>3 DEF Items
      <4> QED BY <1>5, <3>1, <4>1
    <3> QED BY <3>1, <3>2, <3>3
  <2> QED BY <1>1, <1>3, <2>1, <2>2 DEF FailuresOK
<1>7. StagedOK'
  <2>1. ASSUME NEW r \in stored
        PROVE  /\ r.item \in Items \ superseded /\ Consumed(r.item)'
               /\ r.item \notin limited /\ r.partial \in BOOLEAN
               /\ r.partial => UnitId(r.item) \in failed
      BY <1>1, <1>4 DEF LedgerInv, StagedOK, Settling, Concluded, Ended
  <2>2. \A i \in deferred :
          /\ i \notin superseded /\ UnitId(i) \in failed /\ i \in limited
          /\ Consumed(i)'
      BY <1>4 DEF LedgerInv, StagedOK, ExecutorInv, ShapeOK
  <2>3. limited \subseteq 1..n /\ n + 1 \notin limited /\ limited \subseteq 1..(n + 1)
      BY <1>2 DEF LedgerInv, StagedOK, n
  <2>4. ASSUME NEW i \in Items, status'[i] = "completed"
        PROVE  \E r \in stored : r.item = i /\ ~r.partial
    <3>1. CASE i = n
        BY <1>1, <1>5, <2>4, <3>1 DEF LedgerInv, StagedOK, n
    <3>2. CASE i # n
        BY <1>5, <2>4, <3>2 DEF LedgerInv, StagedOK
    <3> QED BY <3>1, <3>2
  <2>5. \A r, q \in stored : r.item = q.item => r = q
      BY DEF LedgerInv, StagedOK
  <2>6. pc' \notin Settling \cup {"promote", "published"}
      BY <1>1 DEF Settling
  <2> QED BY <1>1, <1>3, <2>1, <2>2, <2>3, <2>4, <2>5, <2>6 DEF StagedOK, Settling
<1> QED BY <1>6, <1>7 DEF LedgerInv

\* Starting an item, or giving up those that never started, touches no decision.
LEMMA StatusLedger == ExecutorInv /\ LedgerInv /\ (Dispatch \/ Break) => LedgerInv'
<1> SUFFICES ASSUME ExecutorInv, LedgerInv, Dispatch \/ Break PROVE LedgerInv'
    OBVIOUS
<1>1. /\ UNCHANGED <<items, superseded, token, limited, failed, deferred, stored, ingested>>
      /\ pc \in {"dispatch", "join"} /\ pc' \in {"dispatch", "resplit"}
    BY DEF Dispatch, Break, planVars
<1>2. \A i \in Items : /\ i <= ingested => status'[i] = status[i]
                       /\ status'[i] = status[i] \/ status'[i] \in {"running", "cancelled"}
  <2>1. CASE Dispatch
    <3>1. /\ status' = status \/ status' = [status EXCEPT ![started + 1] = "running"]
          /\ started \in Nat /\ ingested \in Nat /\ ingested <= started
          /\ status \in [Items -> Statuses]
        BY <2>1 DEF Dispatch, Replay, Spawn, ExecutorInv, ShapeOK, WindowOK
    <3>2. \A i \in Items : i <= ingested => i # started + 1
        BY <3>1 DEF Items
    <3> QED BY <3>1, <3>2
  <2>2. CASE Break
      BY <2>2 DEF Break, ExecutorInv, ShapeOK, WindowOK, Items
  <2> QED BY <2>1, <2>2
<1>3. /\ Items' = Items /\ (Cancelled' <=> Cancelled) /\ NextIngest' = NextIngest
      /\ \A i : UnitId(i)' = UnitId(i)
    BY <1>1 DEF NextIngest, Items, UnitId, Cancelled
<1>4. \A i : Consumed(i)' <=> Consumed(i)
    BY <1>1, <1>3 DEF Consumed, Settling
<1>5. FailuresOK'
  <2>1. \A i \in Items \ superseded : status'[i] = "failed" => UnitId(i) \in failed
      BY <1>2 DEF LedgerInv, FailuresOK
  <2>2. \A u \in failed : \E i \in Items \ superseded :
          /\ u = UnitId(i)
          /\ \/ i <= ingested /\ status'[i] = "failed"
             \/ i <= ingested /\ status'[i] = "cancelled" /\ Cancelled
      BY <1>1, <1>2 DEF LedgerInv, FailuresOK
  <2> QED BY <1>1, <1>3, <2>1, <2>2 DEF FailuresOK
<1>6. StagedOK'
  <2>1. ASSUME NEW r \in stored
        PROVE  /\ r.item \in Items \ superseded /\ Consumed(r.item)'
               /\ r.item \notin limited /\ r.partial \in BOOLEAN
               /\ r.partial => UnitId(r.item) \in failed
      BY <1>1, <1>4 DEF LedgerInv, StagedOK, Concluded, Ended
  <2>2. /\ \A i \in deferred :
              /\ i \notin superseded /\ UnitId(i) \in failed /\ i \in limited
              /\ Consumed(i)'
        /\ limited \subseteq 1..NextIngest /\ NextIngest \notin limited
        /\ \A r, q \in stored : r.item = q.item => r = q
      BY <1>1, <1>4 DEF LedgerInv, StagedOK, Settling
  <2>3. \A i \in Items : status'[i] = "completed" =>
          \E r \in stored : r.item = i /\ ~r.partial
      BY <1>2 DEF LedgerInv, StagedOK
  <2> QED BY <1>1, <1>3, <2>1, <2>2, <2>3 DEF StagedOK
<1> QED BY <1>5, <1>6 DEF LedgerInv

\* A re-split withdraws the failure of the item it replaces, and that one only;
\* nothing of the item was stored.
LEMMA ResplitLedger == ExecutorInv /\ LedgerInv /\ Resplit => LedgerInv'
<1> SUFFICES ASSUME ExecutorInv, LedgerInv, Resplit PROVE LedgerInv'
    OBVIOUS
<1>1. PICK x \in Items, n \in Nat, m \in Nat : Replaced(x, n, m)
    BY ResplitReplaces
<1>2. /\ Items = 1..n /\ Items' = 1..m /\ n < m
      /\ x \in 1..n /\ x \in limited /\ x \notin superseded
      /\ superseded' = superseded \cup {x} /\ failed' = failed \ {UnitId(x)}
      /\ deferred' = deferred \ {x} /\ ingested' = n
      /\ UNCHANGED <<limited, stored>>
      /\ pc = "resplit" /\ pc' = "ingest" /\ ~Cancelled /\ ~Cancelled'
    BY <1>1 DEF Replaced, Items, Cancelled
<1>3. /\ \A i \in 1..n : status'[i] = status[i] /\ UnitId(i)' = UnitId(i) /\ Consumed(i)'
      /\ \A i \in 1..m : i \in 1..n \/ status'[i] = "queued"
  <2>1. \A i \in 1..m : i \in 1..n \/ i \in (n + 1)..m
      BY <1>1
  <2> QED BY <1>1, <2>1 DEF Replaced, UnitId, Consumed
<1>4. \A i \in 1..n : i \notin superseded' => UnitId(i) # UnitId(x)
    BY <1>2, UnitIdsDiffer
<1>5. FailuresOK'
  <2>1. ASSUME NEW i \in Items' \ superseded', status'[i] = "failed"
        PROVE  UnitId(i)' \in failed'
    <3>1. i \in 1..n /\ i \notin superseded /\ status[i] = "failed"
        BY <1>2, <1>3, <2>1
    <3> QED BY <1>2, <1>3, <1>4, <3>1 DEF LedgerInv, FailuresOK
  <2>2. ASSUME NEW u \in failed'
        PROVE  \E i \in Items' \ superseded' :
                  u = UnitId(i)' /\ i <= ingested' /\ status'[i] = "failed"
    <3>1. PICK i \in Items \ superseded : u = UnitId(i) /\ status[i] = "failed"
        BY <1>2 DEF LedgerInv, FailuresOK
    <3>2. i # x /\ i \in 1..n /\ i \in Items' \ superseded' /\ i <= n
        BY <1>2, <3>1
    <3> QED BY <1>2, <1>3, <3>1, <3>2
  <2> QED BY <1>2, <2>1, <2>2 DEF FailuresOK
<1>6. StagedOK'
  <2>1. ASSUME NEW r \in stored
        PROVE  /\ r.item \in 1..n /\ r.item \in Items' \ superseded' /\ Consumed(r.item)'
               /\ r.item \notin limited /\ r.partial \in BOOLEAN
               /\ r.partial => UnitId(r.item)' \in failed'
    <3>1. /\ r.item \in 1..n /\ r.item \notin superseded /\ r.item \notin limited
          /\ r.partial \in BOOLEAN /\ (r.partial => UnitId(r.item) \in failed)
        BY <1>2 DEF LedgerInv, StagedOK, Concluded, Ended
    <3>2. r.item # x
        BY <1>2, <3>1
    <3> QED BY <1>2, <1>3, <1>4, <3>1, <3>2
  <2>2. ASSUME NEW i \in deferred'
        PROVE  /\ i \notin superseded' /\ UnitId(i)' \in failed' /\ i \in limited
               /\ Consumed(i)'
    <3>1. i \in deferred /\ i # x /\ i \in 1..n /\ i \notin superseded
          /\ UnitId(i) \in failed /\ i \in limited
        BY <1>2 DEF LedgerInv, StagedOK, ExecutorInv, ShapeOK
    <3> QED BY <1>2, <1>3, <1>4, <3>1
  <2>3. limited \subseteq 1..(n + 1) /\ n + 1 \notin limited
      BY <1>1, <1>2 DEF ExecutorInv, ShapeOK
  <2>4. ASSUME NEW i \in Items', status'[i] = "completed"
        PROVE  \E r \in stored : r.item = i /\ ~r.partial
    <3>1. i \in Items /\ status[i] = "completed"
        BY <1>2, <1>3, <2>4
    <3> QED BY <3>1 DEF LedgerInv, StagedOK
  <2>5. \A r, q \in stored : r.item = q.item => r = q
      BY DEF LedgerInv, StagedOK
  <2>6. NextIngest' = n + 1
      BY <1>2 DEF NextIngest
  <2> QED BY <1>2, <2>1, <2>2, <2>3, <2>4, <2>5, <2>6 DEF StagedOK
<1> QED BY <1>5, <1>6 DEF LedgerInv

\* The outputs that were held back are stored when no re-split can replace them.
LEMMA AnalysedLedger == ExecutorInv /\ LedgerInv /\ Analysed => LedgerInv'
<1> SUFFICES ASSUME ExecutorInv, LedgerInv, Analysed PROVE LedgerInv'
    OBVIOUS
<1> DEFINE held(i) == [item |-> i, partial |-> TRUE, read |-> {}]
<1>1. /\ UNCHANGED <<items, superseded, token, limited, failed, ingested, status>>
      /\ stored' = stored \cup { held(i) : i \in deferred } /\ deferred' = {}
      /\ pc = "resplit" /\ pc' \in {"cancelled", "verify"}
    BY DEF Analysed, planVars
<1>2. /\ Items' = Items /\ (Cancelled' <=> Cancelled) /\ NextIngest' = NextIngest
      /\ \A i : UnitId(i)' = UnitId(i)
    BY <1>1 DEF NextIngest, Items, UnitId, Cancelled
<1>3. \A i : Consumed(i)' <=> Consumed(i)
    BY <1>1, <1>2 DEF Consumed, Settling
<1>4. \A i : held(i).item = i /\ held(i).partial = TRUE
    OBVIOUS
<1> HIDE DEF held
<1>5. FailuresOK'
    BY <1>1, <1>2 DEF LedgerInv, FailuresOK
<1>6. StagedOK'
  <2>1. ASSUME NEW r \in stored'
        PROVE  /\ r.item \in Items \ superseded /\ Consumed(r.item)'
               /\ r.partial \in BOOLEAN
               /\ r.partial => UnitId(r.item) \in failed
    <3>1. CASE r \in stored
        BY <1>3, <3>1 DEF LedgerInv, StagedOK
    <3>2. ASSUME NEW i \in deferred, r = held(i)
          PROVE  /\ r.item \in Items \ superseded /\ Consumed(r.item)'
                 /\ r.partial \in BOOLEAN /\ UnitId(r.item) \in failed
      <4>1. r.item = i /\ r.partial = TRUE
          BY <1>4, <3>2
      <4>2. i \in Items \ superseded /\ UnitId(i) \in failed /\ Consumed(i)
          BY DEF LedgerInv, StagedOK, ExecutorInv, ShapeOK
      <4> QED BY <1>3, <4>1, <4>2
    <3> QED BY <1>1, <3>1, <3>2
  <2>2. \A r \in stored, i \in deferred : r.item # i
      BY <1>1 DEF LedgerInv, StagedOK, Concluded, Ended
  <2>3. \A r, q \in stored' : r.item = q.item => r = q
      BY <1>1, <1>4, <2>2 DEF LedgerInv, StagedOK
  <2>4. \A i \in Items : status[i] = "completed" =>
          \E r \in stored' : r.item = i /\ ~r.partial
      BY <1>1 DEF LedgerInv, StagedOK
  <2>5. limited \subseteq 1..NextIngest /\ NextIngest \notin limited
      BY <1>1 DEF LedgerInv, StagedOK, Settling
  <2>6. pc' \in Concluded \cup Ended /\ pc' \notin {"settle", "promote", "published"}
      BY <1>1 DEF Concluded, Ended
  <2> QED BY <1>1, <1>2, <2>1, <2>3, <2>4, <2>5, <2>6 DEF StagedOK
<1> QED BY <1>5, <1>6 DEF LedgerInv

\* The ledger holds in every state.
THEOREM LedgerInvariant == Spec => []LedgerInv
<1>1. Init => LedgerInv
  <2> SUFFICES ASSUME Init PROVE LedgerInv
      OBVIOUS
  <2>1. Items = {}
      BY DEF Init, NoScan, Items
  <2> QED BY <2>1, LedgerEmpty DEF Init, NoScan
<1>2. ExecutorInv /\ LedgerInv /\ Crash => LedgerInv'
  <2> SUFFICES ASSUME Crash PROVE LedgerInv'
      OBVIOUS
  <2>1. Items' = {} /\ superseded' = {} /\ failed' = {} /\ stored' = {} /\ deferred' = {}
        /\ limited' = {} /\ ingested' = 0 /\ pc' = "idle"
      BY DEF Crash, Items
  <2> QED BY <2>1 DEF LedgerInv, FailuresOK, StagedOK, Settling
<1>3. LedgerInv /\ UNCHANGED vars => LedgerInv'
  <2> SUFFICES ASSUME LedgerInv, UNCHANGED vars PROVE LedgerInv'
      OBVIOUS
  <2>1. UNCHANGED <<items, superseded, status, failed, stored, deferred, limited, ingested>>
        /\ pc' = pc /\ (Cancelled => Cancelled')
      BY DEF vars, Cancelled
  <2> QED BY <2>1, LedgerKept
<1>4. ExecutorInv /\ ExecutorInv' /\ LedgerInv /\ [Next]_vars => LedgerInv'
  <2> SUFFICES ASSUME ExecutorInv, ExecutorInv', LedgerInv, [Next]_vars PROVE LedgerInv'
      OBVIOUS
  <2>1. CASE StartScan
      BY <2>1, StartScanLedger
  <2>2. CASE Execute
      BY <2>2, IngestLedger, SettleLedger, StatusLedger, ResplitLedger, AnalysedLedger,
         QuietLedger DEF Execute
  <2>3. CASE (\E i \in Items : WorkerReads(i) \/ WorkerEnds(i)) \/ Cancel \/ Edit
      BY <2>3, QuietLedger
  <2> QED BY <1>2, <1>3, <2>1, <2>2, <2>3 DEF Next
<1> QED BY <1>1, <1>4, ExecutorInvariant, PTL DEF Spec

\* While a later stage runs, the earlier stages of its unit are in the store or
\* are failures on record (stage_prerequisites, analysis_execution.rs:909).
THEOREM StagesAreOrdered == Spec => []StageOrder
<1>1. ExecutorInv /\ LedgerInv => StageOrder
  <2> SUFFICES ASSUME ExecutorInv, LedgerInv,
                      NEW i \in Running, NEW j \in prerequisites(i)
               PROVE  \/ /\ status[j] = "completed"
                         /\ \E r \in stored : r.item = j /\ ~r.partial
                      \/ status[j] = "failed" /\ UnitId(j) \in failed
      BY DEF StageOrder
  <2>1. /\ j \in first..Len(items) /\ i \in DOMAIN worker
        /\ status[j] \in {"completed", "failed"}
      BY DEF ExecutorInv, DecidedOK, Running, prerequisites
  <2>2. j \in Items \ superseded
      BY <2>1 DEF ExecutorInv, ShapeOK, PlanOK, Items
  <2> QED BY <2>1, <2>2 DEF LedgerInv, FailuresOK, StagedOK
<1> QED BY <1>1, ExecutorInvariant, LedgerInvariant, PTL

\* The failures that a scan reports are those of the items that still count
\* (scan.rs:1274).
THEOREM FailuresAreExact == Spec => []FailuresMatch
<1>1. ExecutorInv /\ LedgerInv => FailuresMatch
  <2> SUFFICES ASSUME ExecutorInv, LedgerInv, pc = "verify"
               PROVE  failed = { UnitId(i) :
                          i \in { j \in Items \ superseded : status[j] = "failed" } }
      BY DEF FailuresMatch
  <2>1. \A i \in Items \ superseded : status[i] = "failed" => UnitId(i) \in failed
      BY DEF LedgerInv, FailuresOK
  <2>2. \A u \in failed : \E i \in Items \ superseded : u = UnitId(i) /\ status[i] = "failed"
      BY DEF ExecutorInv, DecidedOK, Concluded, LedgerInv, FailuresOK
  <2> QED BY <2>1, <2>2
<1> QED BY <1>1, ExecutorInvariant, LedgerInvariant, PTL

-----------------------------------------------------------------------------
(***************************************************************************)
(* What was read: checkpoints and published scans.                         *)
(***************************************************************************)
\* What a checkpoint may say.
Sound(c) ==
    /\ c.read = {c.key.input}
    /\ c.key.id.stage = "semantic" => c.key.reference = {{c.key.input}}

\* A checkpoint is staged only when the repository is found as it was planned,
\* so that every read, the one of the typed stage included, saw that version.
LEMMA StagedIsSound ==
    ASSUME ExecutorInv, ReadInv, NEW n \in DOMAIN worker,
           NEW c \in StagedCheckpoint(n, worker[n])
    PROVE  Sound(c)
<1>1. /\ worker[n].outcome = "ok" /\ package_semantic_checkpoint_bound(n)
      /\ content = expected
      /\ c = [key |-> CheckpointKey(n), read |-> worker[n].read]
    BY DEF StagedCheckpoint, matches_postflight
<1>2. content \in Nat /\ \A v \in Contents : v \in Nat
    BY AnalysisAssumption DEF ExecutorInv, ShapeOK
<1>3. Seen \subseteq {expected}
    BY <1>1, <1>2 DEF Seen
<1>4. worker[n].read = {expected}
    BY <1>1, <1>3 DEF ReadInv
<1>5. /\ c.read = {expected} /\ c.key.input = expected
      /\ c.key.id.stage = items[n].stage
      /\ c.key.reference = bind_reference_fingerprints(n)
    BY <1>1, <1>4 DEF CheckpointKey, UnitId
<1>6. ASSUME items[n].stage = "semantic"
      PROVE  bind_reference_fingerprints(n) = {{expected}}
  <2>1. bind_reference_fingerprints(n) # {}
      BY <1>1, <1>6 DEF package_semantic_checkpoint_bound
  <2>2. /\ bind_reference_fingerprints(n) = { loader[j] : j \in TypedOf(n) }
        /\ \A j \in TypedOf(n) : loader[j] # {}
      BY <1>6, <2>1 DEF bind_reference_fingerprints
  <2>3. \A j \in TypedOf(n) : loader[j] = {expected}
      BY <1>3, <2>2 DEF ReadInv, TypedOf
  <2> QED BY <2>1, <2>2, <2>3
<1> QED BY <1>5, <1>6 DEF Sound

\* The reads of no scan.
LEMMA ReadEmpty ==
    ASSUME NEW e, e <= content, CheckpointSound, expected = e,
           \A i \in Items : loader[i] = {},
           DOMAIN worker = {}, DOMAIN ready = {}, stored = {},
           pc \notin {"promote", "published"}
    PROVE  ReadInv
BY DEF ReadInv

\* A step that changes neither content nor records, and only loses attempts and
\* outputs, keeps what is known of the reads.
LEMMA ReadKept ==
    ASSUME ReadInv, UNCHANGED <<content, checkpoints, expected, items, loader, stored>>,
           DOMAIN worker' \subseteq DOMAIN worker,
           \A i \in DOMAIN worker' : worker'[i] = worker[i],
           DOMAIN ready' \subseteq DOMAIN ready,
           \A i \in DOMAIN ready' : ready'[i] = ready[i],
           pc' \in {"promote", "published"} => pc \in {"promote", "published"}
    PROVE  ReadInv'
<1>1. Seen' = Seen /\ Items' = Items /\ CheckpointSound'
    BY DEF Seen, Items, CheckpointSound, ReadInv
<1> QED BY <1>1 DEF ReadInv

\* The steps that read nothing.
LEMMA QuietReads ==
    ASSUME ReadInv,
           \/ IngestFails \/ Settle \/ IngestNothing \/ DispatchNothing \/ Break
           \/ ResplitNothing \/ Promote \/ Cancel \/ UNCHANGED vars
    PROVE  ReadInv'
<1>1. UNCHANGED <<content, checkpoints, expected, items, loader, stored>>
    BY DEF IngestFails, Settle, IngestNothing, DispatchNothing, Break, ResplitNothing,
       Promote, Cancel, vars, repoVars, planVars, runVars
<1>2. /\ worker' = worker \/ DOMAIN worker' = {}
      /\ ready' = ready \/ DOMAIN ready' = {}
    BY DEF IngestFails, Settle, IngestNothing, DispatchNothing, Break, ResplitNothing,
       Promote, Cancel, vars, repoVars, planVars, runVars
<1>3. pc' \in {"promote", "published"} => pc \in {"promote", "published"}
    BY DEF IngestFails, Settle, IngestNothing, DispatchNothing, Break, ResplitNothing,
       Promote, Cancel, vars, repoVars, planVars, runVars
<1> QED BY <1>1, <1>2, <1>3, ReadKept

\* The output that is next brings its fingerprint, its record and its checkpoint.
LEMMA IngestReads == ExecutorInv /\ ReadInv /\ Ingest => ReadInv'
<1> SUFFICES ASSUME ExecutorInv, ReadInv, Ingest PROVE ReadInv'
    OBVIOUS
<1> DEFINE n == NextIngest
           output == ready[n]
<1>1. PICK accepted \in BOOLEAN :
          /\ accepted => output.outcome = "ok"
          /\ Consume(n, output, accepted)
          /\ checkpoints' = checkpoints \/ checkpoints' = checkpoints \cup output.staged
          /\ pc' = IF accepted THEN "settle" ELSE "settle_failed"
    BY DEF Ingest
<1>2. /\ UNCHANGED <<content, expected, items, worker>>
      /\ loader' = [loader EXCEPT ![n] = output.fingerprint]
      /\ n \in DOMAIN ready /\ DOMAIN ready' = DOMAIN ready \ {n}
      /\ \A i \in DOMAIN ready' : ready'[i] = ready[i]
    BY DEF Ingest, planVars, Without
<1>3. Seen' = Seen /\ Items' = Items
    BY <1>2 DEF Seen, Items
<1>4. /\ output.read \subseteq Seen /\ output.fingerprint \subseteq Seen
      /\ output.outcome = "ok" => output.read # {}
      /\ \A c \in output.staged : Sound(c)
    BY <1>2 DEF ReadInv, Sound
<1>5. CheckpointSound'
    BY <1>1, <1>4 DEF CheckpointSound, ReadInv, Sound
<1>6. \A i \in Items : loader'[i] \subseteq Seen
    BY <1>2, <1>4 DEF ReadInv, ExecutorInv, ShapeOK
<1>7. \A r \in stored' : ~r.partial => r.read # {} /\ r.read \subseteq Seen
  <2> DEFINE record == [item |-> n, partial |-> ~accepted, read |-> output.read]
  <2>1. stored' = stored \/ stored' = stored \cup {record}
      BY <1>1 DEF Consume
  <2>2. record.partial = ~accepted /\ record.read = output.read
      OBVIOUS
  <2> HIDE DEF record, output
  <2> QED BY <1>1, <1>4, <2>1, <2>2 DEF ReadInv
<1>8. pc' \notin {"promote", "published"}
    BY <1>1
<1> HIDE DEF n, output
<1> QED BY <1>2, <1>3, <1>5, <1>6, <1>7, <1>8 DEF ReadInv

\* A replayed output was read from the planned version; a worker has not read.
LEMMA DispatchReads == ExecutorInv /\ ReadInv /\ Dispatch => ReadInv'
<1> SUFFICES ASSUME ExecutorInv, ReadInv, Dispatch PROVE ReadInv'
    OBVIOUS
<1> DEFINE n == started + 1
<1>1. /\ UNCHANGED <<content, checkpoints, expected, items, loader, stored, pc>>
      /\ pc = "dispatch"
      /\ Replay(n) \/ Spawn(n)
    BY DEF Dispatch, planVars, repoVars
<1>2. Seen' = Seen /\ Items' = Items /\ CheckpointSound'
    BY <1>1 DEF Seen, Items, CheckpointSound, ReadInv
<1>3. CASE Replay(n)
  <2>1. PICK c \in checkpoints :
            /\ c.key = CheckpointKey(n) /\ worker' = worker
            /\ ready' = With(ready, n, [outcome |-> "ok", read |-> c.read,
                                        fingerprint |-> c.read, staged |-> {}])
      BY <1>3 DEF Replay, Replayable
  <2>2. c.read = {expected} /\ c.read \subseteq Contents
      BY <2>1 DEF CheckpointKey, ReadInv, CheckpointSound, ExecutorInv, ShapeOK
  <2>3. c.read \subseteq Seen
    <3>1. expected \in Contents /\ expected \in Nat /\ expected <= content
        BY <2>2, AnalysisAssumption DEF ReadInv
    <3> QED BY <2>2, <3>1 DEF Seen
  <2>4. /\ DOMAIN ready' = DOMAIN ready \cup {n}
        /\ \A i \in DOMAIN ready : i # n => ready'[i] = ready[i]
        /\ ready'[n].read = c.read /\ ready'[n].fingerprint = c.read
        /\ ready'[n].staged = {}
      BY <2>1 DEF With
  <2> HIDE DEF n
  <2>5. \A i \in DOMAIN ready' :
          /\ ready'[i].read \subseteq Seen /\ ready'[i].fingerprint \subseteq Seen
          /\ ready'[i].outcome = "ok" => ready'[i].read # {}
          /\ \A d \in ready'[i].staged : Sound(d)
      BY <2>2, <2>3, <2>4 DEF ReadInv, Sound
  <2> QED BY <1>1, <1>2, <2>1, <2>5 DEF ReadInv, Sound
<1>4. CASE Spawn(n)
  <2>1. /\ ready' = ready /\ DOMAIN worker' = DOMAIN worker \cup {n}
        /\ \A i \in DOMAIN worker : i # n => worker'[i] = worker[i]
        /\ worker'[n].read = {} /\ worker'[n].outcome = None
      BY <1>4 DEF Spawn, With
  <2> HIDE DEF n
  <2>2. \A i \in DOMAIN worker' :
          /\ worker'[i].read \subseteq Seen
          /\ worker'[i].outcome = "ok" => worker'[i].read # {}
      BY <2>1 DEF ReadInv, None
  <2> QED BY <1>1, <1>2, <2>1, <2>2 DEF ReadInv
<1> QED BY <1>1, <1>3, <1>4

\* What a worker read goes with its output.
LEMMA JoinReads == ExecutorInv /\ ReadInv /\ (\E i \in Items : Join(i)) => ReadInv'
<1> SUFFICES ASSUME ExecutorInv, ReadInv, NEW n \in Items, Join(n) PROVE ReadInv'
    OBVIOUS
<1>1. /\ UNCHANGED <<content, checkpoints, expected, items, loader, stored>>
      /\ pc' = "ingest" /\ n \in DOMAIN worker
      /\ DOMAIN worker' = DOMAIN worker \ {n}
      /\ \A i \in DOMAIN worker' : worker'[i] = worker[i]
      /\ DOMAIN ready' = DOMAIN ready \cup {n}
      /\ \A i \in DOMAIN ready' : i # n => ready'[i] = ready[i]
      /\ ready'[n].read = worker[n].read /\ ready'[n].outcome = worker[n].outcome
      /\ ready'[n].fingerprint = worker[n].read \/ ready'[n].fingerprint = {}
      /\ ready'[n].staged = StagedCheckpoint(n, worker[n])
    BY DEF Join, Joined, Finished, Running, With, Without, planVars, repoVars
<1>2. Seen' = Seen /\ Items' = Items /\ CheckpointSound'
    BY <1>1 DEF Seen, Items, CheckpointSound, ReadInv
<1>3. \A c \in ready'[n].staged : Sound(c)
    BY <1>1, StagedIsSound
<1>4. \A i \in DOMAIN ready' :
        /\ ready'[i].read \subseteq Seen /\ ready'[i].fingerprint \subseteq Seen
        /\ ready'[i].outcome = "ok" => ready'[i].read # {}
        /\ \A c \in ready'[i].staged : Sound(c)
    BY <1>1, <1>3 DEF ReadInv, Sound
<1> QED BY <1>1, <1>2, <1>4 DEF ReadInv, Sound

\* A worker reads what the repository holds now, and succeeds only after it has.
LEMMA WorkerReadsNow ==
    ExecutorInv /\ ReadInv /\ (\E i \in Items : WorkerReads(i) \/ WorkerEnds(i)) => ReadInv'
<1> SUFFICES ASSUME ExecutorInv, ReadInv, NEW n \in Items, WorkerReads(n) \/ WorkerEnds(n)
             PROVE  ReadInv'
    OBVIOUS
<1>1. /\ UNCHANGED <<content, checkpoints, expected, items, loader, stored, ready, pc>>
      /\ n \in DOMAIN worker /\ worker[n].outcome = None
      /\ DOMAIN worker' = DOMAIN worker
      /\ \A i \in DOMAIN worker : i # n => worker'[i] = worker[i]
    BY DEF WorkerReads, WorkerEnds, Running, Finished, planVars, repoVars
<1>2. Seen' = Seen /\ Items' = Items /\ CheckpointSound'
    BY <1>1 DEF Seen, Items, CheckpointSound, ReadInv
<1>3. worker[n] \in Attempt /\ worker[n].read \subseteq Seen
    BY <1>1 DEF ExecutorInv, ShapeOK, ReadInv
<1>4. worker'[n].read \subseteq Seen /\ (worker'[n].outcome = "ok" => worker'[n].read # {})
  <2>1. CASE WorkerReads(n)
    <3>1. content \in Seen
        BY AnalysisAssumption DEF Seen, ReadInv, ExecutorInv, ShapeOK
    <3>2. worker'[n].read = worker[n].read \cup {content}
        BY <1>1, <1>3, <2>1 DEF WorkerReads, Attempt
    <3> QED BY <1>3, <3>1, <3>2
  <2>2. CASE WorkerEnds(n)
    <3>1. PICK outcome \in Outcomes :
              /\ outcome = "ok" => worker[n].read # {}
              /\ worker' = [worker EXCEPT ![n].outcome = outcome]
        BY <2>2 DEF WorkerEnds
    <3>2. worker'[n].read = worker[n].read /\ worker'[n].outcome = outcome
        BY <1>1, <1>3, <3>1 DEF Attempt
    <3> QED BY <1>3, <3>1, <3>2
  <2> QED BY <2>1, <2>2
<1>5. \A i \in DOMAIN worker' :
        /\ worker'[i].read \subseteq Seen
        /\ worker'[i].outcome = "ok" => worker'[i].read # {}
    BY <1>1, <1>4 DEF ReadInv
<1> QED BY <1>1, <1>2, <1>5 DEF ReadInv

\* An edit that brings no earlier version back only widens what may be seen.
LEMMA EditReads == ~Reverts /\ ExecutorInv /\ ReadInv /\ Edit => ReadInv'
<1> SUFFICES ASSUME ~Reverts, ExecutorInv, ReadInv, Edit PROVE ReadInv'
    OBVIOUS
<1>1. /\ UNCHANGED <<checkpoints, expected, items, loader, stored, worker, ready, pc>>
      /\ content' \in Contents /\ content < content'
    BY DEF Edit, planVars, runVars
<1>2. /\ content \in Nat /\ content' \in Nat /\ expected \in Nat
      /\ \A v \in Contents : v \in Nat
  <2>1. \A v \in Contents : v \in Nat
      BY AnalysisAssumption
  <2>2. content \in Contents /\ (expected \in Contents \/ expected = 0)
      BY DEF ExecutorInv, ShapeOK
  <2> QED BY <1>1, <2>1, <2>2
<1>3. Seen \subseteq Seen' /\ expected <= content'
  <2>1. expected <= content /\ expected' = expected
      BY <1>1 DEF ReadInv
  <2>2. \A v \in Contents : v <= content => v <= content'
      BY <1>1, <1>2
  <2>3. expected <= content'
      BY <1>1, <1>2, <2>1
  <2>4. Seen' = { v \in Contents : expected <= v /\ v <= content' }
      BY <2>1 DEF Seen
  <2> QED BY <2>2, <2>3, <2>4 DEF Seen
<1>4. Items' = Items /\ CheckpointSound'
    BY <1>1 DEF Items, CheckpointSound, ReadInv
<1>5. /\ \A i \in Items : loader[i] \subseteq Seen'
      /\ \A i \in DOMAIN worker :
            /\ worker[i].read \subseteq Seen'
            /\ worker[i].outcome = "ok" => worker[i].read # {}
      /\ \A r \in stored : ~r.partial => r.read # {} /\ r.read \subseteq Seen'
    BY <1>3 DEF ReadInv
<1>6. \A i \in DOMAIN ready :
        /\ ready[i].read \subseteq Seen' /\ ready[i].fingerprint \subseteq Seen'
        /\ ready[i].outcome = "ok" => ready[i].read # {}
        /\ \A c \in ready[i].staged : Sound(c)
    BY <1>3 DEF ReadInv, Sound
<1>7. pc \in {"promote", "published"} => \A r \in stored : r.read = {expected}
    BY DEF ReadInv
<1> QED BY <1>1, <1>3, <1>4, <1>5, <1>6, <1>7 DEF ReadInv, Sound

\* Replacements have reported nothing, and what is released was partial.
LEMMA ResplitReads == ExecutorInv /\ ReadInv /\ (Resplit \/ Analysed) => ReadInv'
<1> SUFFICES ASSUME ExecutorInv, ReadInv, Resplit \/ Analysed PROVE ReadInv'
    OBVIOUS
<1>1. CASE Resplit
  <2>1. PICK x \in Items, n \in Nat, m \in Nat : Replaced(x, n, m)
      BY <1>1, ResplitReplaces
  <2>2. /\ UNCHANGED <<content, checkpoints, expected, worker, ready, stored>>
        /\ pc' = "ingest"
      BY <2>1 DEF Replaced
  <2>3. Seen' = Seen /\ CheckpointSound'
      BY <2>2 DEF Seen, CheckpointSound, ReadInv
  <2>4. \A i \in Items' : loader'[i] \subseteq Seen
    <3>1. Items' = 1..m /\ Items = 1..n /\ \A i \in 1..m : i \in 1..n \/ i \in (n + 1)..m
        BY <2>1 DEF Replaced, Items
    <3>2. \A i \in 1..n : loader'[i] = loader[i]
        BY <2>1 DEF Replaced
    <3>3. \A i \in (n + 1)..m : loader'[i] = {}
        BY <2>1 DEF Replaced
    <3> QED BY <3>1, <3>2, <3>3 DEF ReadInv
  <2> QED BY <2>2, <2>3, <2>4 DEF ReadInv
<1>2. CASE Analysed
  <2> DEFINE held(i) == [item |-> i, partial |-> TRUE, read |-> {}]
  <2>1. /\ UNCHANGED <<content, checkpoints, expected, items, worker, ready, loader>>
        /\ stored' = stored \cup { held(i) : i \in deferred }
        /\ pc' \in {"cancelled", "verify"}
      BY <1>2 DEF Analysed, repoVars, planVars
  <2>2. Seen' = Seen /\ Items' = Items /\ CheckpointSound'
      BY <2>1 DEF Seen, Items, CheckpointSound, ReadInv
  <2>3. \A i : held(i).partial = TRUE
      OBVIOUS
  <2> HIDE DEF held
  <2>4. \A r \in stored' : ~r.partial => r.read # {} /\ r.read \subseteq Seen
      BY <2>1, <2>3 DEF ReadInv
  <2> QED BY <2>1, <2>2, <2>4 DEF ReadInv
<1> QED BY <1>1, <1>2

\* The last look at the repository: found as planned, it was read at that version
\* only, and without failures nothing stored is partial.
LEMMA VerifyReads == ExecutorInv /\ LedgerInv /\ ReadInv /\ Verify => ReadInv'
<1> SUFFICES ASSUME ExecutorInv, LedgerInv, ReadInv, Verify PROVE ReadInv'
    OBVIOUS
<1>1. /\ UNCHANGED <<content, checkpoints, expected, items, worker, ready, loader, stored>>
      /\ pc' = "promote" => failed = {} /\ content = expected
      /\ pc' \in {"promote", "partial"}
    BY DEF Verify, matches_postflight, repoVars, planVars, runVars
<1>2. Seen' = Seen /\ Items' = Items /\ CheckpointSound'
    BY <1>1 DEF Seen, Items, CheckpointSound, ReadInv
<1>3. ASSUME pc' = "promote", NEW r \in stored PROVE r.read = {expected}
  <2>1. ~r.partial
      BY <1>1, <1>3 DEF LedgerInv, StagedOK
  <2>2. content \in Nat /\ \A v \in Contents : v \in Nat
      BY AnalysisAssumption DEF ExecutorInv, ShapeOK
  <2>3. Seen \subseteq {expected}
      BY <1>1, <1>3, <2>2 DEF Seen
  <2> QED BY <2>1, <2>3 DEF ReadInv
<1> QED BY <1>1, <1>2, <1>3 DEF ReadInv

\* Unless an earlier version is brought back, what was read lies between the
\* planned version and the current one.
THEOREM ReadInvariant == Spec => [](~Reverts => ReadInv)
<1>1. Init => ReadInv
  <2> SUFFICES ASSUME Init PROVE ReadInv
      OBVIOUS
  <2>1. /\ Items = {} /\ DOMAIN worker = {} /\ DOMAIN ready = {} /\ stored = {}
        /\ pc = "idle" /\ CheckpointSound
      BY DEF Init, NoScan, Items, CheckpointSound
  <2>2. 0 <= content /\ expected = 0
      BY AnalysisAssumption DEF Init, NoScan
  <2> QED BY <2>1, <2>2, ReadEmpty
<1>2. ExecutorInv /\ ReadInv /\ StartScan => ReadInv'
  <2> SUFFICES ASSUME ExecutorInv, ReadInv, StartScan PROVE ReadInv'
      OBVIOUS
  <2>1. /\ content' = content /\ expected' = content /\ content \in Nat
        /\ DOMAIN worker' = {} /\ DOMAIN ready' = {} /\ stored' = {} /\ pc' = "ingest"
        /\ \A i \in Items' : loader'[i] = {}
      BY AnalysisAssumption DEF StartScan, Items, ExecutorInv, ShapeOK
  <2>2. CheckpointSound'
      BY DEF StartScan, CheckpointSound, ReadInv
  <2> QED BY <2>1, <2>2 DEF ReadInv
<1>3. ExecutorInv /\ ReadInv /\ Crash => ReadInv'
  <2> SUFFICES ASSUME ExecutorInv, ReadInv, Crash PROVE ReadInv'
      OBVIOUS
  <2>1. /\ content' = content /\ expected' = 0 /\ content \in Nat
        /\ DOMAIN worker' = {} /\ DOMAIN ready' = {} /\ stored' = {} /\ pc' = "idle"
        /\ Items' = {}
      BY AnalysisAssumption DEF Crash, repoVars, Items, ExecutorInv, ShapeOK
  <2>2. CheckpointSound'
      BY DEF Crash, repoVars, CheckpointSound, ReadInv
  <2> QED BY <2>1, <2>2 DEF ReadInv
<1>4. ExecutorInv /\ LedgerInv /\ (~Reverts => ReadInv) /\ [Next]_vars
      => (~Reverts => ReadInv)'
  <2> SUFFICES ASSUME ExecutorInv, LedgerInv, ~Reverts, ReadInv, [Next]_vars PROVE ReadInv'
      OBVIOUS
  <2>1. CASE StartScan \/ Crash \/ Edit
      BY <1>2, <1>3, <2>1, EditReads
  <2>2. CASE Execute
      BY <2>2, IngestReads, DispatchReads, JoinReads, ResplitReads, VerifyReads,
         QuietReads DEF Execute
  <2>3. CASE (\E i \in Items : WorkerReads(i) \/ WorkerEnds(i)) \/ Cancel \/ UNCHANGED vars
      BY <2>3, WorkerReadsNow, QuietReads
  <2> QED BY <2>1, <2>2, <2>3 DEF Next
<1> QED BY <1>1, <1>4, ExecutorInvariant, LedgerInvariant, PTL DEF Spec

\* A checkpoint was computed from the input that its key names, and a semantic
\* one is bound to closures of that input, unless an edit may bring an earlier
\* version back while a worker reads (validate_work_inputs,
\* analysis_schedule.rs:1072).
THEOREM CheckpointsAreSound == Spec => [](~Reverts => CheckpointSound)
<1>1. ReadInv => CheckpointSound
    BY DEF ReadInv
<1> QED BY <1>1, ReadInvariant, PTL

\* A published scan holds every path of every stage exactly once, no partial
\* output, and nothing that was read from another version than the planned one,
\* under the same condition (complete_scan, scan.rs).
THEOREM PublishedIsSound == Spec => [](~Reverts => PublishedSound)
<1>1. ExecutorInv /\ LedgerInv /\ ReadInv => PublishedSound
  <2> SUFFICES ASSUME ExecutorInv, LedgerInv, ReadInv, pc = "published"
               PROVE  /\ \A r \in stored : ~r.partial /\ r.read = {expected}
                      /\ \A w \in 1..Len(Work) : \A p \in Work[w].paths :
                            Cardinality({ r \in stored :
                                /\ items[r.item].unit = Work[w].unit
                                /\ items[r.item].stage = Work[w].stage
                                /\ p \in items[r.item].paths }) = 1
      BY DEF PublishedSound
  <2>1. failed = {} /\ Covered
      BY DEF LedgerInv, StagedOK
  <2>2. \A r \in stored : ~r.partial /\ r.read = {expected}
      BY <2>1 DEF LedgerInv, StagedOK, ReadInv
  <2>3. ASSUME NEW w \in 1..Len(Work), NEW p \in Work[w].paths
        PROVE  Cardinality({ r \in stored :
                   /\ items[r.item].unit = Work[w].unit
                   /\ items[r.item].stage = Work[w].stage
                   /\ p \in items[r.item].paths }) = 1
    <3> DEFINE Owner(i) == /\ items[i].unit = Work[w].unit
                           /\ items[i].stage = Work[w].stage
                           /\ p \in items[i].paths
    <3>1. PICK i \in Items \ superseded : Owner(i)
        BY DEF ExecutorInv, PlanOK
    <3>2. status[i] = "completed"
        BY <2>1 DEF Covered
    <3>3. PICK r \in stored : r.item = i
        BY <3>2 DEF LedgerInv, StagedOK
    <3>4. ASSUME NEW j \in Items \ superseded, Owner(j) PROVE j = i
        BY <3>1, <3>4 DEF ExecutorInv, PlanOK
    <3> HIDE DEF Owner
    <3>5. \A q \in stored : Owner(q.item) => q = r
        BY <3>3, <3>4 DEF LedgerInv, StagedOK
    <3>6. { q \in stored : Owner(q.item) } = {r}
        BY <3>1, <3>3, <3>5
    <3>7. Cardinality({ q \in stored : Owner(q.item) }) = 1
        BY <3>6, FS_Singleton
    <3> QED BY <3>7 DEF Owner
  <2> QED BY <2>2, <2>3
<1> QED BY <1>1, ExecutorInvariant, LedgerInvariant, ReadInvariant, PTL

\* The executor's state keeps its type.
THEOREM ExecutionTypeCorrect == Spec => []AnalysisTypeOK
<1>1. ExecutorInv => AnalysisTypeOK
  <2> SUFFICES ASSUME ExecutorInv PROVE AnalysisTypeOK
      OBVIOUS
  <2>1. superseded \subseteq Items /\ first \in 1..(Len(items) + 1)
      BY DEF ExecutorInv, ShapeOK, PlanOK, WindowOK, Items
  <2>2. DOMAIN ready \cap Running = {}
      BY DEF ExecutorInv, WindowOK, Running
  <2>3. \A i \in Running : worker[i].outcome \in Outcomes \cup {None}
      BY DEF ExecutorInv, ShapeOK, Running, Attempt
  <2>4. pc \in {"idle", "ingest", "settle", "settle_failed", "dispatch", "join",
                "resplit", "verify", "promote"} \cup Ended
      BY DEF ExecutorInv, ShapeOK, Executing, Settling, Concluded, Ended
  <2> QED BY <2>1, <2>2, <2>3, <2>4 DEF AnalysisTypeOK, ExecutorInv, ShapeOK, WindowOK
<1> QED BY <1>1, ExecutorInvariant, PTL

=============================================================================
