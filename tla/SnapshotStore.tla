---------------------------- MODULE SnapshotStore ----------------------------
(***************************************************************************)
(* The completed snapshots of the graph store and the writers that make    *)
(* them: scans (depgraph-store/src/lib.rs), builds (build.rs), cache hits  *)
(* (cache.rs) and runtime trace imports (runtime.rs), each under the       *)
(* repository's writer lock (depgraph-core).                               *)
(*                                                                         *)
(* A snapshot's identity is a digest of its graph, its parent and its      *)
(* runtime sessions.  Here it is the sequence of the layers that made it,  *)
(* oldest first: its parent, and one scan, build or session more.  Two     *)
(* scans of equal content on one parent have one identity.  The empty      *)
(* sequence is no snapshot.                                                *)
(*                                                                         *)
(* A writer that crashes drops the lock and leaves its rows.  An operation *)
(* whose completion intent is in the journal is finished by the next       *)
(* runner, at any time later.                                              *)
(***************************************************************************)
EXTENDS Naturals, Sequences, FiniteSets

CONSTANTS
    Scans,       \* scan attempts
    Contents,    \* what a scan may find in the repository
    Builds,      \* build attempts
    SafeBases,   \* how builds choose their base: TRUE is compiler-precise
    Sessions,    \* runtime sessions: a collector session and its trace digest
    Ops,         \* operations that import a session
    Direct,      \* whether imports are also made at once, without an operation
    Cached,      \* whether the scan cache is in use
    MaxCrashes,  \* bound: crashes of writers
    NoOne        \* nobody holds the writer lock; no scan

ASSUME StoreAssumption ==
    /\ Scans \cap Builds = {} /\ Scans \cap Ops = {} /\ Builds \cap Ops = {}
    /\ NoOne \notin Scans \cup Builds \cup Ops
    /\ IsFiniteSet(Scans)
    /\ SafeBases \subseteq BOOLEAN
    /\ Direct \in BOOLEAN
    /\ Cached \in BOOLEAN
    /\ MaxCrashes \in Nat

VARIABLES
    snapshots,   \* completed_snapshots, in the order of their creation
    current,     \* current_completed_snapshot
    successful,  \* current_successful: the scan, or NoOne
    scans,       \* the scans rows, with their snapshot_sources entry
    builds,      \* the build_attempts rows
    cache,       \* the semantic scan cache: content to snapshot
    sessions,    \* runtime_sessions: the base each session was stored with
    staged,      \* runtime_imports with status 'staging'
    imported,    \* runtime_imports with status 'completed'
    owners,      \* runtime_import_operation_owners
    input,       \* the journal's input of an import operation
    phase,       \* how far an import operation is
    decided,     \* scans whose completion intent is in the journal
    writer,      \* who holds the store's writer lock
    crashes

scanVars == <<scans, cache, decided>>
importVars == <<sessions, staged, imported, owners>>
opVars == <<input, phase>>
vars == <<snapshots, current, successful, scans, builds, cache, sessions,
          staged, imported, owners, input, phase, decided, writer, crashes>>

NoSnapshot == <<>>

scanLayer(content) == [kind |-> "scan", of |-> content]
buildLayer(build) == [kind |-> "build", of |-> build]
sessionLayer(session) == [kind |-> "session", of |-> session]

\* Where the layers above the last scan of an id are, and the id without them.
Above(id) == { n \in DOMAIN id : \A m \in n..Len(id) : id[m].kind # "scan" }
Layers(id) == { id[n] : n \in Above(id) }
Base(id) == SubSeq(id, 1, Len(id) - Cardinality(Above(id)))

SessionsOf(id) == { s \in Sessions : sessionLayer(s) \in Layers(id) }

Ids == { snapshots[n].id : n \in DOMAIN snapshots }

\* load_completed_snapshot_record(id).scan_id
ScanOf(id) == snapshots[CHOOSE n \in DOMAIN snapshots : snapshots[n].id = id].scan

\* The most recent completed_snapshots row of a scan, NoSnapshot if none.
Latest(s) ==
    LET of == { n \in DOMAIN snapshots : snapshots[n].scan = s }
    IN  IF of = {} THEN NoSnapshot
        ELSE snapshots[CHOOSE n \in of : \A m \in of : m <= n].id

\* create_completed_snapshot: an identity that exists is shared.
Created(id, s) ==
    IF id \in Ids THEN snapshots ELSE Append(snapshots, [id |-> id, scan |-> s])

NewScan == [status |-> "new", parent |-> NoSnapshot, content |-> NoOne,
            snapshot |-> NoSnapshot, order |-> 0]
NewBuild == [status |-> "new", scan |-> NoOne, base |-> NoSnapshot]

Init ==
    /\ snapshots = <<>>
    /\ current = NoSnapshot
    /\ successful = NoOne
    /\ scans = [s \in Scans |-> NewScan]
    /\ builds = [b \in Builds |-> NewBuild]
    /\ cache = [c \in Contents |-> NoSnapshot]
    /\ sessions = [s \in Sessions |-> NoSnapshot]
    /\ staged = {}
    /\ imported = {}
    /\ owners = {}
    /\ input = [o \in Ops |-> [parent |-> NoSnapshot, session |-> NoOne]]
    /\ phase = [o \in Ops |-> "new"]
    /\ decided = {}
    /\ writer = NoOne
    /\ crashes = 0

Free == writer = NoOne
Holds(x) == writer = x
Release == writer' = NoOne

-----------------------------------------------------------------------------
(***************************************************************************)
(* Scans.  The parent is the snapshot that was current at the start; a     *)
(* scan is promoted when it still is.                                      *)
(***************************************************************************)
StartScan(s, content) ==
    /\ Free /\ scans[s].status = "new"
    /\ scans' = [scans EXCEPT ![s] =
                    [status |-> "staging", parent |-> current, content |-> content,
                     snapshot |-> NoSnapshot,
                     order |-> Cardinality({ t \in Scans : scans[t].status # "new" }) + 1]]
    /\ writer' = s
    /\ UNCHANGED <<snapshots, current, successful, builds, cache, importVars,
                   opVars, decided, crashes>>

\* commit_completion_intent for an operation's scan that is ready.
DecideScan(s) ==
    /\ Holds(s) /\ scans[s].status = "staging" /\ s \notin decided
    /\ decided' = decided \cup {s}
    /\ UNCHANGED <<snapshots, current, successful, scans, builds, cache,
                   importVars, opVars, writer, crashes>>

\* Slip: the scan becomes current whatever is current meanwhile.
CompletedScanAlways(s) ==
    LET id == Append(scans[s].parent, scanLayer(scans[s].content))
    IN  /\ snapshots' = Created(id, s)
        /\ scans' = [scans EXCEPT ![s].status = "completed", ![s].snapshot = id]
        /\ current' = id /\ successful' = s

\* finish_scan with status "completed" and promote.
CompletedScan(s) ==
    LET id == Append(scans[s].parent, scanLayer(scans[s].content))
    IN  /\ snapshots' = Created(id, s)
        /\ scans' = [scans EXCEPT ![s].status = "completed", ![s].snapshot = id]
        /\ IF current = scans[s].parent
           THEN current' = id /\ successful' = s
           ELSE UNCHANGED <<current, successful>>

\* The scan's own process finishes it, and may fill the cache.
FinishScan(s) ==
    /\ Holds(s) /\ scans[s].status = "staging"
    /\ CompletedScan(s)
    /\ \/ UNCHANGED cache
       \/ /\ Cached
          /\ cache' = [cache EXCEPT ![scans[s].content] = scans'[s].snapshot]
    /\ decided' = decided \ {s}
    /\ Release
    /\ UNCHANGED <<builds, importVars, opVars, crashes>>

\* recover_scan_completion_for_operation, after the scan's process is gone.
RecoverScan(s) ==
    /\ Free /\ s \in decided /\ scans[s].status = "staging"
    /\ CompletedScan(s)
    /\ decided' = decided \ {s}
    /\ UNCHANGED <<builds, cache, importVars, opVars, writer, crashes>>

\* promote_validated_scan_cache_hit: the scan becomes one more source of the
\* cached snapshot, and that snapshot becomes current again.
CachedScan(s) ==
    LET id == cache[scans[s].content]
    IN  /\ Holds(s) /\ scans[s].status = "staging" /\ s \notin decided
        /\ id # NoSnapshot
        /\ scans' = [scans EXCEPT ![s].status = "completed", ![s].snapshot = id]
        /\ current' = id
        /\ successful' = s
        /\ Release
        /\ UNCHANGED <<snapshots, builds, cache, importVars, opVars, decided, crashes>>

\* A scan that fails or is cancelled: no snapshot, no promotion.
FailScan(s) ==
    /\ Holds(s) /\ scans[s].status = "staging" /\ s \notin decided
    /\ scans' = [scans EXCEPT ![s].status = "cancelled"]
    /\ Release
    /\ UNCHANGED <<snapshots, current, successful, builds, cache, importVars,
                   opVars, decided, crashes>>

-----------------------------------------------------------------------------
(***************************************************************************)
(* Builds.  resolve_build_inner holds the writer lock throughout, so the   *)
(* scan it starts from is still the successful one when it ends.           *)
(***************************************************************************)
\* snapshot_id_for_scan_selection
Selection(s) == IF Latest(s) # NoSnapshot THEN Latest(s) ELSE scans[s].snapshot

\* Slip: the build starts from whichever scan is newest, promoted or not.
StartBuildNewest(b, safe) ==
    \E s \in Scans :
        /\ Free /\ builds[b].status = "new"
        /\ scans[s].status = "completed"
        /\ \A t \in Scans : scans[t].status = "completed" => scans[t].order <= scans[s].order
        /\ builds' = [builds EXCEPT ![b] =
                         [status |-> "staging", scan |-> s, base |-> Selection(s)]]
        /\ writer' = b
        /\ UNCHANGED <<snapshots, current, successful, scanVars, importVars, opVars,
                       crashes>>

\* start_build_attempt
StartBuild(b, safe) ==
    /\ Free /\ builds[b].status = "new" /\ successful # NoOne
    /\ builds' = [builds EXCEPT ![b] =
                     [status |-> "staging", scan |-> successful,
                      base |-> IF safe THEN scans[successful].snapshot
                                       ELSE Selection(successful)]]
    /\ writer' = b
    /\ UNCHANGED <<snapshots, current, successful, scanVars, importVars, opVars,
                   crashes>>

\* finish_build_attempt, completed: the layer goes on the scan's latest
\* snapshot when that has runtime sessions, else on the attempt's base, and
\* the result becomes current.
FinishBuild(b) ==
    LET latest == Latest(builds[b].scan)
        parent == IF SessionsOf(latest) # {} THEN latest ELSE builds[b].base
        id == Append(parent, buildLayer(b))
    IN  /\ Holds(b)
        /\ latest # NoSnapshot
        /\ snapshots' = Created(id, builds[b].scan)
        /\ builds' = [builds EXCEPT ![b].status = "completed"]
        /\ current' = id
        /\ Release
        /\ UNCHANGED <<successful, scanVars, importVars, opVars, crashes>>

\* The same without a snapshot of the base scan: the transaction is rolled
\* back, and the process ends with the attempt still staging.
AbortBuild(b) ==
    /\ Holds(b)
    /\ Latest(builds[b].scan) = NoSnapshot
    /\ Release
    /\ UNCHANGED <<snapshots, current, successful, scanVars, builds, importVars,
                   opVars, crashes>>

\* The build fails, is cancelled or times out.
FailBuild(b) ==
    /\ Holds(b)
    /\ builds' = [builds EXCEPT ![b].status = "failed"]
    /\ Release
    /\ UNCHANGED <<snapshots, current, successful, scanVars, importVars, opVars,
                   crashes>>

-----------------------------------------------------------------------------
(***************************************************************************)
(* Runtime trace imports.  An import is its parent snapshot and session;   *)
(* an operation that stages one owns it, and several may.                  *)
(***************************************************************************)
\* Slip: an owner owns the session, whatever base it is imported on.
OwnerBySession(import, o) == [import |-> import.session, op |-> o]

Owner(import, o) == [import |-> import, op |-> o]
OwnersOf(import) == { w \in owners : w.import = import }
Result(import) == Append(import.parent, sessionLayer(import.session))

\* store_runtime_session: a session that is stored keeps its first base.
StoreSession(import) ==
    sessions' = [sessions EXCEPT ![import.session] =
                    IF @ = NoSnapshot THEN import.parent ELSE @]

\* Slip: the owner rows outlive the staging.
CompleteStillOwned(import) ==
    /\ snapshots' = Created(Result(import), ScanOf(import.parent))
    /\ imported' = imported \cup {import}
    /\ staged' = staged \ {import}
    /\ UNCHANGED owners
    /\ current' = IF current = import.parent THEN Result(import) ELSE current

\* The import completes: its snapshot exists, nobody owns it any more, and it
\* is current if its parent was.
Complete(import) ==
    /\ snapshots' = Created(Result(import), ScanOf(import.parent))
    /\ imported' = imported \cup {import}
    /\ staged' = staged \ {import}
    /\ owners' = owners \ OwnersOf(import)
    /\ current' = IF current = import.parent THEN Result(import) ELSE current

\* clear_runtime_import_operation_owners
ClearOwners(import) ==
    /\ owners' = owners \ OwnersOf(import)
    /\ UNCHANGED <<snapshots, current, staged, imported>>

Known(import) == import \in staged \cup imported

\* The session is already part of the base.
Contained(import) == import.session \in SessionsOf(import.parent)

\* The stored delta, base included, is the one being imported.
Replays(import) == Known(import) /\ sessions[import.session] = import.parent

\* import_runtime_session: the immediate mode, in one transaction.
ImportNow(import) ==
    /\ Direct /\ Free
    /\ ~Contained(import)
    /\ \/ /\ ~Known(import)
          /\ StoreSession(import)
          /\ Complete(import)
       \/ /\ Replays(import) /\ import \in staged
          /\ Complete(import) /\ UNCHANGED sessions
       \/ /\ Replays(import) /\ import \in imported
          /\ ClearOwners(import) /\ UNCHANGED sessions
    /\ UNCHANGED <<successful, scanVars, builds, opVars, writer, crashes>>

SubmitImport(o, base, session) ==
    /\ phase[o] = "new"
    /\ input' = [input EXCEPT ![o] = [parent |-> base, session |-> session]]
    /\ phase' = [phase EXCEPT ![o] = "queued"]
    /\ UNCHANGED <<snapshots, current, successful, scanVars, builds, importVars,
                   writer, crashes>>

\* prepare_runtime_session_import: there is nothing to import, or the import is
\* already complete, or its replay is refused.  The operation ends.
PrepareNothing(o) ==
    LET import == input[o]
    IN  /\ Free /\ phase[o] = "queued"
        /\ \/ /\ Contained(import) \/ (Known(import) /\ ~Replays(import))
              /\ UNCHANGED <<snapshots, current, staged, imported, owners>>
           \/ /\ ~Contained(import) /\ Replays(import) /\ import \in imported
              /\ ClearOwners(import)
        /\ phase' = [phase EXCEPT ![o] = "ended"]
        /\ UNCHANGED <<successful, scanVars, builds, sessions, input, writer, crashes>>

\* The import is staged, or was: the operation becomes an owner of it, and
\* keeps the writer lock.
Prepare(o) ==
    LET import == input[o]
    IN  /\ Free /\ phase[o] = "queued"
        /\ ~Contained(import)
        /\ ~Known(import) \/ (Replays(import) /\ import \in staged)
        /\ StoreSession(import)
        /\ staged' = staged \cup {import}
        /\ owners' = owners \cup {Owner(import, o)}
        /\ phase' = [phase EXCEPT ![o] = "staged"]
        /\ writer' = o
        /\ UNCHANGED <<snapshots, current, successful, scanVars, builds,
                       imported, input, crashes>>

\* Slip: the first owner that leaves takes the import with it.
ReleasedAtOnce(import, o) ==
    /\ owners' = owners \ OwnersOf(import)
    /\ staged' = staged \ {import}
    /\ UNCHANGED sessions

\* Slip: the import goes, and its session with it.
ReleasedWithSession(import, o) ==
    LET last == OwnersOf(import) = {Owner(import, o)}
    IN  /\ owners' = owners \ {Owner(import, o)}
        /\ staged' = IF last THEN staged \ {import} ELSE staged
        /\ sessions' = IF last THEN [sessions EXCEPT ![import.session] = NoSnapshot]
                       ELSE sessions

\* The owner row goes; the last owner takes the staged import, and the session
\* if no other import needs it.
Released(import, o) ==
    LET last == OwnersOf(import) = {Owner(import, o)}
        needed == \E other \in (staged \cup imported) \ {import} :
                      other.session = import.session
    IN  /\ owners' = owners \ {Owner(import, o)}
        /\ staged' = IF last THEN staged \ {import} ELSE staged
        /\ sessions' = IF last /\ ~needed
                       THEN [sessions EXCEPT ![import.session] = NoSnapshot]
                       ELSE sessions

\* cancel_with_writer_guard: the operation is cancelled or fails before its
\* intent is committed.
CancelImport(o) ==
    /\ Holds(o) /\ phase[o] = "staged"
    /\ Released(input[o], o)
    /\ phase' = [phase EXCEPT ![o] = "ended"]
    /\ Release
    /\ UNCHANGED <<snapshots, current, successful, scanVars, builds, imported,
                   input, crashes>>

\* cancel_staged_runtime_import_for_operation, after a crash; another owner may
\* have completed the import meanwhile.
CleanupImport(o) ==
    /\ Free /\ phase[o] = "staged"
    /\ IF Owner(input[o], o) \in owners
       THEN Released(input[o], o)
       ELSE UNCHANGED <<owners, staged, sessions>>
    /\ phase' = [phase EXCEPT ![o] = "ended"]
    /\ UNCHANGED <<snapshots, current, successful, scanVars, builds, imported,
                   input, writer, crashes>>

DecideImport(o) ==
    /\ Holds(o) /\ phase[o] = "staged"
    /\ phase' = [phase EXCEPT ![o] = "decided"]
    /\ UNCHANGED <<snapshots, current, successful, scanVars, builds, importVars,
                   input, writer, crashes>>

\* promote_runtime_session_import, by the process that staged it.
PromoteImport(o) ==
    /\ Holds(o) /\ phase[o] = "decided" /\ input[o] \in staged
    /\ Complete(input[o])
    /\ phase' = [phase EXCEPT ![o] = "promoted"]
    /\ UNCHANGED <<successful, scanVars, builds, sessions, input, writer, crashes>>

\* finish_completion in the journal.
FinishImport(o) ==
    /\ Holds(o) /\ phase[o] = "promoted"
    /\ phase' = [phase EXCEPT ![o] = "ended"]
    /\ Release
    /\ UNCHANGED <<snapshots, current, successful, scanVars, builds, importVars,
                   input, crashes>>

\* What recover_runtime_session_import_for_operation insists on.
Recoverable(o) ==
    LET import == input[o]
    IN  /\ Known(import)
        /\ sessions[import.session] = import.parent
        /\ import \in staged => Owner(import, o) \in owners

\* A committed intent is finished by the next runner.
RecoverImport(o) ==
    /\ Free /\ phase[o] \in {"decided", "promoted"}
    /\ Recoverable(o)
    /\ IF input[o] \in staged THEN Complete(input[o]) ELSE ClearOwners(input[o])
    /\ phase' = [phase EXCEPT ![o] = "ended"]
    /\ UNCHANGED <<successful, scanVars, builds, sessions, input, writer, crashes>>

-----------------------------------------------------------------------------
\* The process that holds the lock dies.
Crash ==
    /\ ~Free /\ crashes < MaxCrashes
    /\ crashes' = crashes + 1
    /\ Release
    /\ UNCHANGED <<snapshots, current, successful, scanVars, builds, importVars,
                   opVars>>

\* recover_interrupted_attempts, when a daemon starts: what is still staging is
\* given up, decided or not.
RecoverInterrupted ==
    /\ Free
    /\ \/ \E s \in Scans : scans[s].status = "staging"
       \/ \E b \in Builds : builds[b].status = "staging"
    /\ scans' = [s \in Scans |-> IF scans[s].status = "staging"
                                 THEN [scans[s] EXCEPT !.status = "cancelled"]
                                 ELSE scans[s]]
    /\ builds' = [b \in Builds |-> IF builds[b].status = "staging"
                                   THEN [builds[b] EXCEPT !.status = "cancelled"]
                                   ELSE builds[b]]
    /\ UNCHANGED <<snapshots, current, successful, cache, importVars, opVars,
                   decided, writer, crashes>>

ScanNext ==
    \E s \in Scans :
        \/ \E content \in Contents : StartScan(s, content)
        \/ DecideScan(s) \/ FinishScan(s) \/ RecoverScan(s) \/ CachedScan(s)
        \/ FailScan(s)

BuildNext ==
    \E b \in Builds :
        \/ \E safe \in SafeBases : StartBuild(b, safe)
        \/ FinishBuild(b) \/ AbortBuild(b) \/ FailBuild(b)

ImportNext ==
    \/ \E base \in Ids, session \in Sessions :
           \/ ImportNow([parent |-> base, session |-> session])
           \/ \E o \in Ops : SubmitImport(o, base, session)
    \/ \E o \in Ops :
           \/ PrepareNothing(o) \/ Prepare(o) \/ CancelImport(o)
           \/ CleanupImport(o) \/ DecideImport(o) \/ PromoteImport(o)
           \/ FinishImport(o) \/ RecoverImport(o)

Next == ScanNext \/ BuildNext \/ ImportNext \/ Crash \/ RecoverInterrupted

Spec == Init /\ [][Next]_vars

-----------------------------------------------------------------------------
(***************************************************************************)
(* Properties.                                                             *)
(***************************************************************************)
LayerSet == [kind : {"scan"}, of : Contents] \cup [kind : {"build"}, of : Builds]
                \cup [kind : {"session"}, of : Sessions]
Snapshot == Seq(LayerSet)
Import == [parent : Snapshot, session : Sessions]
Phases == {"new", "queued", "staged", "decided", "promoted", "ended"}

\* Every variable has its type: the rows the store's schema admits.
StoreTypeOK ==
    /\ snapshots \in Seq([id : Snapshot, scan : Scans])
    /\ current \in Snapshot
    /\ successful \in Scans \cup {NoOne}
    /\ scans \in [Scans -> [status : {"new", "staging", "completed", "cancelled"},
                            parent : Snapshot, content : Contents \cup {NoOne},
                            snapshot : Snapshot, order : Nat]]
    /\ builds \in [Builds -> [status : {"new", "staging", "completed", "failed", "cancelled"},
                              scan : Scans \cup {NoOne}, base : Snapshot]]
    /\ cache \in [Contents -> Snapshot]
    /\ sessions \in [Sessions -> Snapshot]
    /\ staged \subseteq Import
    /\ imported \subseteq Import
    /\ owners \subseteq [import : Import, op : Ops]
    /\ input \in [Ops -> [parent : Snapshot, session : Sessions \cup {NoOne}]]
    /\ phase \in [Ops -> Phases]
    /\ decided \subseteq Scans
    /\ writer \in Scans \cup Builds \cup Ops \cup {NoOne}
    /\ crashes \in 0..MaxCrashes

\* What every opening of the store verifies of its import rows: an owner owns a
\* staged import and only one, a staged import has an owner, and no import is
\* staged and completed at once.
OwnershipConsistent ==
    /\ \A w \in owners : w.import \in staged
    /\ \A import \in staged : OwnersOf(import) # {}
    /\ \A v, w \in owners : v.op = w.op => v = w
    /\ staged \cap imported = {}

\* The import of a committed intent is completed, or still staged and owned by
\* its operation, whatever the other owners of the same import do.
DecidedStageKept ==
    \A o \in Ops :
        phase[o] = "decided" =>
            \/ input[o] \in imported
            \/ input[o] \in staged /\ Owner(input[o], o) \in owners

\* The session rows of all imports and of all snapshots are still there.
EvidenceRetained ==
    /\ \A import \in staged \cup imported : sessions[import.session] # NoSnapshot
    /\ \A id \in Ids : \A s \in SessionsOf(id) : sessions[s] # NoSnapshot

\* The two pointers agree: the current snapshot is the one of the successful
\* scan, with layers on top of it.
CurrentOfScan ==
    successful # NoOne => Base(current) = scans[successful].snapshot

\* A scan is replaced by a newer one only: recovery of an interrupted scan does
\* not take the current snapshot back to what it saw.  The comparison with the
\* parent is by identity, so this is not so of a scan that was answered from
\* the cache: the snapshot that it made current again is another scan's.
NewerKept ==
    [][ successful # NoOne /\ successful' # successful
            => \/ scans[successful'].order > scans[successful].order
               \/ ScanOf(scans[successful].snapshot) # successful ]_vars

-----------------------------------------------------------------------------
(***************************************************************************)
(* What the repository says and the code does not always do.               *)
(***************************************************************************)
\* Recovery leaves a newer current snapshot unchanged (lib.rs:1712), also one
\* that came from the cache.
NewerUnchanged ==
    [][ successful # NoOne /\ successful' # successful
            => scans[successful'].order > scans[successful].order ]_vars

\* While the scan stays the same, what builds and imports have added to the
\* current snapshot stays in it (build.rs:201).
LayersKept ==
    [][ successful' = successful => Layers(current) \subseteq Layers(current') ]_vars

\* What recovery insists on holds of every operation it may have to finish
\* (service_store_write.rs:633).
IntentRecoverable ==
    \A o \in Ops : phase[o] \in {"decided", "promoted"} => Recoverable(o)

\* A build that was started has the base that its end will ask for
\* (build.rs:134).
BuildPromotable ==
    \A b \in Builds : Holds(b) => Latest(builds[b].scan) # NoSnapshot
=============================================================================
