------------------------- MODULE WatchedRepository -------------------------
(***************************************************************************)
(* A repository that is edited while a platform watcher reports the edits. *)
(* Neither is code of this repository: the file system and the backends of *)
(* the notify crate are modelled from the events that                      *)
(* RepositoryWatcher::ingest distinguishes.  The channel of the watcher is *)
(* unbounded and ordered.                                                  *)
(***************************************************************************)
EXTENDS EventCoalescer

CONSTANTS Edited,     \* the paths that are edited
          Edits,      \* which of EditKinds happen
          Backends,   \* how renames are reported, a part of BackendKinds
          MaxEdits    \* bound: the number of edits

EditKinds == {"create", "modify", "delete", "rename", "overwrite", "overflow", "touch"}
\* Windows reports two halves, macOS and kqueue two events that only name a
\* path, inotify two halves with a cookie and then the pair, or the halves only
\* when the two moves of several files interleave.
BackendKinds == {"split", "any", "tracked", "inotify"}

ASSUME RepositoryAssumption ==
    /\ Edited \subseteq Paths
    /\ Edits \subseteq EditKinds
    /\ Backends \subseteq BackendKinds
    /\ MaxEdits \in Nat

VARIABLES files,    \* the content of every path, 0 where there is no file
          edits,    \* the edits made so far: every content written is fresh
          events    \* the watcher's channel

repositoryVars == <<files, edits, events>>

\* The content a path had when the model began; an edit writes a fresh one.
Original(p) == MaxEdits + p
Contents == (0..MaxEdits) \cup { Original(p) : p \in Paths }

RepositoryTypeOK ==
    /\ files \in [Paths -> Contents]
    /\ edits \in 0..MaxEdits
    /\ \A i \in DOMAIN events : events[i].paths \in Seq(Paths)

\* What a backend sends for a rename.
RenameEvents(backend, p, q) ==
    CASE backend = "split" -> <<watchEvent("from", <<p>>, NoTracker),
                                watchEvent("to", <<q>>, NoTracker)>>
      [] backend = "any" -> <<watchEvent("any", <<p>>, NoTracker),
                              watchEvent("any", <<q>>, NoTracker)>>
      [] backend = "tracked" -> <<watchEvent("from", <<p>>, edits + 1),
                                  watchEvent("to", <<q>>, edits + 1)>>
      [] OTHER -> <<watchEvent("from", <<p>>, edits + 1),
                    watchEvent("to", <<q>>, edits + 1),
                    watchEvent("both", <<p, q>>, edits + 1)>>

Written(kind, reported) ==
    /\ kind \in Edits
    /\ edits < MaxEdits
    /\ edits' = edits + 1
    /\ events' = events \o reported

Create(p) ==
    /\ files[p] = 0
    /\ Written("create", <<watchEvent("create", <<p>>, NoTracker)>>)
    /\ files' = [files EXCEPT ![p] = edits + 1]

Modify(p) ==
    /\ files[p] # 0
    /\ Written("modify", <<watchEvent("modify", <<p>>, NoTracker)>>)
    /\ files' = [files EXCEPT ![p] = edits + 1]

Delete(p) ==
    /\ files[p] # 0
    /\ Written("delete", <<watchEvent("remove", <<p>>, NoTracker)>>)
    /\ files' = [files EXCEPT ![p] = 0]

Rename(p, q) ==
    /\ p # q /\ files[p] # 0
    /\ \E backend \in Backends :
           Written(IF files[q] = 0 THEN "rename" ELSE "overwrite",
                   RenameEvents(backend, p, q))
    /\ files' = [files EXCEPT ![p] = 0, ![q] = files[p]]

\* The kernel's queue overflows: the event of an edit is lost, and the backend
\* asks for a rescan instead.
Overflow(p) ==
    /\ Written("overflow", <<watchEvent("rescan", <<>>, NoTracker)>>)
    /\ files' = [files EXCEPT ![p] = IF @ = 0 THEN edits + 1 ELSE 0]

\* The times or permissions of a file are written: an event, and the same
\* content as before.
Touch(p) ==
    /\ "touch" \in Edits
    /\ files[p] # 0
    /\ events' = Append(events, watchEvent("modify", <<p>>, NoTracker))
    /\ UNCHANGED <<files, edits>>

Edit ==
    \/ \E p \in Edited : Create(p) \/ Modify(p) \/ Delete(p) \/ Overflow(p)
    \/ \E p, q \in Edited : Rename(p, q)
=============================================================================
