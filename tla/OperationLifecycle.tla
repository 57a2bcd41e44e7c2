------------------------- MODULE OperationLifecycle -------------------------
(***************************************************************************)
(* What a client of the durable operations is promised, without leases,    *)
(* clocks, runners or tables: an operation is accepted, may be asked to    *)
(* cancel, is decided at one instant, has its effect only after that       *)
(* instant, and ends once.  Docs: arch-mcp-agent-tools.md, cancellation    *)
(* precedence and completion crash recovery.                               *)
(*                                                                         *)
(* An effect is either staged and published by a decision (a scan), or run *)
(* directly (the project's own build), in which case it happens once.      *)
(***************************************************************************)
CONSTANT Ops

VARIABLES
    phase,    \* of each operation
    effect    \* what each operation did to the world

lifecycleVars == <<phase, effect>>

Open == {"accepted", "cancelling"}
Ended == {"completed", "failed", "cancelled"}
Phases == {"absent", "decided"} \cup Open \cup Ended
Effects == {"none", "published", "executed"}

LifecycleInit ==
    /\ phase = [o \in Ops |-> "absent"]
    /\ effect = [o \in Ops |-> "none"]

Becomes(o, p) == phase'[o] = p /\ effect'[o] = effect[o]
Does(o, e) == phase'[o] = phase[o] /\ effect'[o] = e

\* An id is never given to work again once it had an effect.
Accept(o) == phase[o] = "absent" /\ effect[o] = "none" /\ Becomes(o, "accepted")

RequestCancel(o) == phase[o] = "accepted" /\ Becomes(o, "cancelling")

\* A cancel request that comes first wins; one that comes later is too late.
Decide(o) == phase[o] = "accepted" /\ Becomes(o, "decided")

Publish(o) == phase[o] = "decided" /\ effect[o] = "none" /\ Does(o, "published")

\* Project code runs once, and not after a cancel request.
Execute(o) == phase[o] = "accepted" /\ effect[o] = "none" /\ Does(o, "executed")

\* A decided operation can only complete, and only with its effect in place.
Complete(o) ==
    /\ phase[o] = "decided" => effect[o] = "published"
    /\ phase[o] \in Open \cup {"decided"}
    /\ Becomes(o, "completed")

GiveUp(o) ==
    /\ phase[o] \in Open
    /\ Becomes(o, "failed") \/ Becomes(o, "cancelled")

\* Retention ends; overdue work may be failed and retired at once.
Forget(o) == phase[o] \in Open \cup Ended /\ Becomes(o, "absent")

Step(o) ==
    \/ Accept(o) \/ RequestCancel(o) \/ Decide(o) \/ Publish(o) \/ Execute(o)
    \/ Complete(o) \/ GiveUp(o) \/ Forget(o)

\* One transaction may move several operations.
LifecycleNext ==
    /\ phase' \in [Ops -> Phases]
    /\ effect' \in [Ops -> Effects]
    /\ \A o \in Ops : Step(o) \/ Does(o, effect[o])

LifecycleSpec == LifecycleInit /\ [][LifecycleNext]_lifecycleVars
=============================================================================
