------------------------ MODULE MCOperationJournal ------------------------
(***************************************************************************)
(* OperationJournal on small instances, for TLC.                           *)
(***************************************************************************)
EXTENDS OperationJournal, TLC

CONSTANTS o1, o2, k1, k2, i1, t1, t2

\* Callers that only write the store, and callers that also run the project's
\* own code.
MixedGrants == {{"scan_submit"}, {"scan_submit", "resolve_build_submit"}}

\* Identifiers, keys and lease tokens are compared for equality only.
Symmetry ==
    Permutations({o1, o2}) \cup Permutations({k1, k2}) \cup Permutations({t1, t2})
=============================================================================
