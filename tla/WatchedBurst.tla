---------------------------- MODULE WatchedBurst ----------------------------
(***************************************************************************)
(* One quiet window: a repository is edited, the daemon ingests the events *)
(* and has not drained them.  The batch the coalescer would report is      *)
(* compared with the difference between the repository now and the         *)
(* repository that the last batch described.                               *)
(***************************************************************************)
EXTENDS WatchedRepository

VARIABLES before,       \* the files when the window began
          window,       \* the daemon's coalescer
          sources,      \* history: what was renamed away
          targets,      \* history: what something was renamed to
          reused        \* history: paths whose change the batch may lose

burstVars == <<files, edits, events, before, window, sources, targets, reused>>

BurstInit ==
    /\ files \in { f \in [Paths -> Contents] : \A p \in Paths : f[p] \in {0, Original(p)} }
    /\ before = files
    /\ edits = 0
    /\ events = <<>>
    /\ window = Emptied
    /\ sources = {} /\ targets = {}
    /\ reused = {}

BurstIngest ==
    /\ events # <<>>
    /\ window' = ingest(window, Head(events))
    /\ events' = Tail(events)
    /\ UNCHANGED <<files, edits, before, sources, targets, reused>>

RenamedPaths == sources \cup targets

\* A path is used again when a second rename names it, when a rename puts a
\* file in the place of another, or when a file is created where one was
\* renamed away.  A file that comes from an ignored path is a new file to the
\* watcher: it also hides what was renamed to its place.  And a rescan is kept
\* as a change of the configuration file: it may go when that file goes.
Moves(p, q) ==
    /\ Rename(p, q)
    /\ sources' = sources \cup {p}
    /\ targets' = targets \cup {q}
    /\ reused' = reused
          \cup ({p, q} \cap RenamedPaths) \cup ({p} \cap {ConfigPath})
          \cup (IF files[q] = 0 THEN {} ELSE {q})
          \cup (IF p \in Ignored /\ q \in targets THEN sources ELSE {})

Creates(p) ==
    /\ Create(p)
    /\ reused' = reused \cup ({p} \cap sources)
    /\ UNCHANGED <<sources, targets>>

Deletes(p) ==
    /\ Delete(p)
    /\ reused' = reused \cup ({p} \cap {ConfigPath})
    /\ UNCHANGED <<sources, targets>>

Burst ==
    /\ \/ \E p, q \in Edited : Moves(p, q)
       \/ \E p \in Edited : Creates(p) \/ Deletes(p)
       \/ /\ \E p \in Edited : Modify(p) \/ Overflow(p)
          /\ UNCHANGED <<sources, targets, reused>>
    /\ UNCHANGED <<before, window>>

BurstNext == Burst \/ BurstIngest

BurstSpec == BurstInit /\ [][BurstNext]_burstVars

-----------------------------------------------------------------------------
Changed == { p \in Watched : files[p] # before[p] }
Batched == Named(Drained(window))

\* The batch of a window names every path whose file differs from what the
\* last batch left, however the platform reports renames (the drain replays a
\* tracked rename behind everything that followed it, daemon.rs:283-289), or
\* it asks for a whole new plan.  A path it misses keeps its old records in the
\* graph, because a delta scan replaces only the paths that the batch names.
\* Only paths that the window used again may be lost (deviation 7).
CoveredUnlessReused ==
    events = <<>> =>
        \A p \in Changed \ reused : p \in Batched \/ ConfigPath \in Batched \cup reused

-----------------------------------------------------------------------------
(***************************************************************************)
(* What the repository says and the code does not always do.               *)
(***************************************************************************)
\* The same of every path, used again or not.
BurstCovered ==
    events = <<>> => Changed \subseteq Batched \/ ConfigPath \in Batched
=============================================================================
