--------------------------- MODULE EventCoalescer ---------------------------
(***************************************************************************)
(* The burst normaliser of the repository daemon                           *)
(* (crates/depgraph-core/src/daemon.rs): watcher events become file        *)
(* changes, the changes of one quiet window are folded into one batch.     *)
(*                                                                         *)
(* A path is a positive number, so that paths have the total order the     *)
(* sorted batches need; NoPath is the code's None.  The coalescer is a     *)
(* value, [operations, tracked, revision]: the daemon keeps it in a        *)
(* variable of its own.                                                    *)
(***************************************************************************)
EXTENDS Naturals, Sequences, FiniteSets, SequencesExt

CONSTANTS Paths,        \* the repository-relative paths
          Ignored,      \* the paths WatchIgnoreRules leaves out
          ConfigPath    \* ".depgraph.toml"

ASSUME PathsAssumption ==
    /\ Paths \subseteq Nat \ {0}
    /\ IsFiniteSet(Paths)
    /\ Ignored \subseteq Paths
    /\ ConfigPath \in Paths \ Ignored

NoPath == 0

Watched == Paths \ Ignored

ChangeKinds == {"added", "modified", "deleted", "renamed"}

added(p) == [kind |-> "added", old |-> NoPath, new |-> p]
modified(p) == [kind |-> "modified", old |-> NoPath, new |-> p]
deleted(p) == [kind |-> "deleted", old |-> p, new |-> NoPath]
renamed(p, q) == [kind |-> "renamed", old |-> p, new |-> q]

IncrementalFileChange ==
    { added(p) : p \in Watched } \cup { modified(p) : p \in Watched }
        \cup { deleted(p) : p \in Watched }
        \cup { renamed(p[1], p[2]) : p \in { q \in Watched \X Watched : q[1] # q[2] } }

\* The paths a change names, old and new.
NamedBy(change) == {change.old, change.new} \ {NoPath}
Named(changes) == UNION { NamedBy(change) : change \in Range(changes) }

-----------------------------------------------------------------------------
(***************************************************************************)
(* Folding one window.  "active" gives each path that a change of the      *)
(* window produced the path it came from; "deleted" holds the paths of the *)
(* last batch that are gone.                                               *)
(***************************************************************************)
Absent == [here |-> FALSE, origin |-> NoPath, modified |-> FALSE]
PathState(origin, isModified) ==
    [here |-> TRUE, origin |-> origin, modified |-> isModified]

Gone(gone, origin) == IF origin = NoPath THEN gone ELSE gone \cup {origin}

FoldAdded(w, p) ==
    CASE p \in w.deleted ->
             [active |-> [w.active EXCEPT ![p] = PathState(p, TRUE)],
              deleted |-> w.deleted \ {p}]
      [] p \notin w.deleted /\ w.active[p].here ->
             [w EXCEPT !.active[p].modified = TRUE]
      [] OTHER ->
             [w EXCEPT !.active[p] = PathState(NoPath, TRUE)]

FoldModified(w, p) ==
    [active |-> [w.active EXCEPT ![p] =
                     IF @.here THEN [@ EXCEPT !.modified = TRUE]
                               ELSE PathState(p, TRUE)],
     deleted |-> w.deleted \ {p}]

\* Slip: a path that the window produced is gone without a trace.
FoldDeletedForgetting(w, p) ==
    IF w.active[p].here THEN [w EXCEPT !.active[p] = Absent]
                        ELSE [w EXCEPT !.deleted = @ \cup {p}]

FoldDeleted(w, p) ==
    IF w.active[p].here
    THEN [active |-> [w.active EXCEPT ![p] = Absent],
          deleted |-> Gone(w.deleted, w.active[p].origin)]
    ELSE [w EXCEPT !.deleted = @ \cup {p}]

FoldRenamed(w, from, to) ==
    LET known == w.active[to].here /\ w.active[to].origin = from
        state == IF w.active[from].here THEN w.active[from]
                                        ELSE PathState(from, FALSE)
    IN  IF known THEN w
        ELSE [active |-> [w.active EXCEPT ![from] = Absent, ![to] = state],
              deleted |-> Gone(w.deleted \ {from}, w.active[to].origin)]

FoldChange(w, change) ==
    CASE change.kind = "added" -> FoldAdded(w, change.new)
      [] change.kind = "modified" -> FoldModified(w, change.new)
      [] change.kind = "deleted" -> FoldDeleted(w, change.old)
      [] OTHER -> FoldRenamed(w, change.old, change.new)

KindRank == [added |-> 0, modified |-> 1, deleted |-> 2, renamed |-> 3]

\* The derived order of IncrementalFileChange: kind, old path, new path.
Precedes(c, d) ==
    \/ KindRank[c.kind] < KindRank[d.kind]
    \/ c.kind = d.kind /\ c.old < d.old
    \/ c.kind = d.kind /\ c.old = d.old /\ c.new < d.new

\* The members of a set in their order.  The provers cannot open the operator
\* SetToSortSeq, which hands its order on to SortSeq.
InOrder(S, Before(_, _)) ==
    CHOOSE s \in [1..Cardinality(S) -> S] :
        \A i, j \in DOMAIN s : i < j => Before(s[i], s[j])

\* What the folded window reports: a sorted, duplicate-free batch.
Batch(w) ==
    LET at(p) == w.active[p]
        here == { p \in Paths : at(p).here }
    IN  InOrder(
            { deleted(p) : p \in w.deleted }
              \cup { added(p) : p \in { q \in here : at(q).origin = NoPath } }
              \cup { renamed(at(p).origin, p) :
                       p \in { q \in here : at(q).origin \notin {NoPath, q} } }
              \cup { modified(p) :
                       p \in { q \in here : at(q).origin = q /\ at(q).modified } },
            Precedes)

coalesce_incremental_changes(changes) ==
    Batch(FoldLeft(FoldChange,
                   [active |-> [p \in Paths |-> Absent], deleted |-> {}],
                   changes))

-----------------------------------------------------------------------------
(***************************************************************************)
(* struct EventCoalescer.  "tracked" maps the tracker of a rename reported *)
(* in two events to the halves seen so far.                                *)
(***************************************************************************)
Emptied == [operations |-> <<>>, tracked |-> <<>>, revision |-> 0]

is_empty(coalescer) ==
    coalescer.operations = <<>> /\ DOMAIN coalescer.tracked = {}

extend(coalescer, changes) ==
    [coalescer EXCEPT !.operations = @ \o changes, !.revision = @ + Len(changes)]

Half(coalescer, t) ==
    IF t \in DOMAIN coalescer.tracked THEN coalescer.tracked[t]
                                      ELSE [from |-> NoPath, to |-> NoPath]

Tracked(coalescer, t, half) ==
    [coalescer EXCEPT
        !.tracked = [u \in DOMAIN @ \cup {t} |-> IF u = t THEN half ELSE @[u]],
        !.revision = @ + 1]

track_rename_from(coalescer, t, p) ==
    Tracked(coalescer, t, [Half(coalescer, t) EXCEPT !.from = p])

track_rename_to(coalescer, t, p) ==
    Tracked(coalescer, t, [Half(coalescer, t) EXCEPT !.to = p])

\* A tracked rename of which both, or only one half, arrived in the window.
TrackedChange(half) ==
    CASE half.from # NoPath /\ half.to \notin {NoPath, half.from} ->
             renamed(half.from, half.to)
      [] half.from # NoPath /\ half.to \in {NoPath, half.from} ->
             deleted(half.from)
      [] OTHER -> added(half.to)

\* EventCoalescer::drain: the tracked renames, in the order of their trackers,
\* go behind the operations, and everything is folded.
Drained(coalescer) ==
    LET trackers == InOrder(DOMAIN coalescer.tracked, <)
        trailing == [i \in 1..Cardinality(DOMAIN coalescer.tracked) |->
                        TrackedChange(coalescer.tracked[trackers[i]])]
    IN  coalesce_incremental_changes(coalescer.operations \o trailing)

-----------------------------------------------------------------------------
(***************************************************************************)
(* RepositoryWatcher::ingest.  An event has a kind, its paths and, for a   *)
(* tracked half of a rename, the tracker; NoTracker is None.               *)
(***************************************************************************)
NoTracker == 0

watchEvent(kind, paths, tracker) ==
    [kind |-> kind, paths |-> paths, tracker |-> tracker]

\* WatchIgnoreRules::classify: an ignored path is no path.
Classified(paths) == [i \in DOMAIN paths |->
                         IF paths[i] \in Ignored THEN NoPath ELSE paths[i]]

\* The changes of one pair of ingest_rename_pairs.
PairChange(from, to) ==
    CASE from # NoPath /\ to # NoPath /\ from # to -> <<renamed(from, to)>>
      [] from # NoPath /\ to = NoPath -> <<deleted(from)>>
      [] from = NoPath /\ to # NoPath -> <<added(to)>>
      [] OTHER -> <<>>

\* One change for each path that is left.
Each(paths, Change(_)) ==
    FlattenSeq([i \in DOMAIN paths |->
                   IF paths[i] = NoPath THEN <<>> ELSE <<Change(paths[i])>>])

ingest(coalescer, event) ==
    LET paths == Classified(event.paths)
        push(Change(_)) == extend(coalescer, Each(paths, Change))
        pairs == extend(coalescer, PairChange(paths[1], paths[2]))
    IN  CASE event.kind = "rescan" -> extend(coalescer, <<modified(ConfigPath)>>)
          [] event.kind = "access" -> coalescer
          [] event.kind = "create" -> push(added)
          [] event.kind = "remove" -> push(deleted)
          [] event.kind = "both" \/ (event.kind = "any" /\ Len(paths) = 2) -> pairs
          [] event.kind = "from" /\ event.tracker = NoTracker -> push(deleted)
          [] event.kind = "to" /\ event.tracker = NoTracker -> push(added)
          [] event.kind = "from" /\ event.tracker # NoTracker ->
                 IF paths[1] = NoPath THEN coalescer
                 ELSE track_rename_from(coalescer, event.tracker, paths[1])
          [] event.kind = "to" /\ event.tracker # NoTracker ->
                 IF paths[1] = NoPath THEN coalescer
                 ELSE track_rename_to(coalescer, event.tracker, paths[1])
          [] OTHER -> push(modified)
=============================================================================
