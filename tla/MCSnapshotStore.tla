-------------------------- MODULE MCSnapshotStore --------------------------
(***************************************************************************)
(* SnapshotStore on small instances, for TLC.                              *)
(***************************************************************************)
EXTENDS SnapshotStore, TLC

\* Scans, contents and operations are compared for equality only.
Symmetry ==
    Permutations(Scans) \cup Permutations(Contents) \cup Permutations(Ops)
=============================================================================
