------------------------- MODULE MCOperationRunner -------------------------
(***************************************************************************)
(* OperationRunner on small instances, for TLC.                            *)
(***************************************************************************)
EXTENDS OperationRunner, TLC

CONSTANTS o1, o2, k1, k2, i1, r1, r2

\* A launch with store-write capability, and one that also runs project code.
StoreGrants == {{"scan_submit"}}
ExecGrants == {{"scan_submit", "resolve_build_submit"}}
\* A launch that also controls daemons: it goes on to claim beside one.
ControlGrants == {{"scan_submit", "resolve_build_submit", "daemon_stop"}}

\* Identifiers, keys and runners are compared for equality only.
Symmetry ==
    Permutations({o1, o2}) \cup Permutations({k1, k2}) \cup Permutations({r1, r2})
=============================================================================
