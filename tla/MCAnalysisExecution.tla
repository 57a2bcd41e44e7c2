------------------------ MODULE MCAnalysisExecution ------------------------
(***************************************************************************)
(* Schedules for the analysis executor.                                    *)
(***************************************************************************)
EXTENDS AnalysisExecution

\* Items that the planner can refine, and items that it cannot.
Coarse(unit, stage, paths) ==
    [unit |-> unit, stage |-> stage, paths |-> paths, level |-> 0]
Fine(unit, stage, paths) ==
    [unit |-> unit, stage |-> stage, paths |-> paths, level |-> MaxLevel]

\* Two batches of one unit, and two stages of another; the first stage can be
\* split.
Mixed ==
    << Fine("n", "syntax", {3}), Fine("n", "syntax", {4}), Coarse("m", "typed", {1, 2}),
       Fine("m", "semantic", {1, 2}) >>

\* One unit whose typed stage has two batches, the first of which can be
\* refined.
Batches ==
    << Coarse("m", "typed", {1}), Fine("m", "typed", {2}), Fine("m", "semantic", {1, 2}) >>
=============================================================================
