SPECIFICATION Spec
CONSTANTS
    Nodes = {1, 2, 3, 4}
    Profiles = {1, 2}
    Paths = {"a", "b"}
    MaxEdges = 4
    Graphs <- SmallGraphs
    Queries <- SmallQueries
    MaxInspected = 4
    MaxPathSteps = 3
    MaxMaterialized = 6
    PageItems = {1, 3}
    PageBytes = {3, 4, 5}
    MetaBytes = 2
    CursorBytes = 1
    ExceedsBytes = 1
INVARIANTS DeliveredExact PathsShortest ImpactExact AttributionExact
