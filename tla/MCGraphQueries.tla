--------------------------- MODULE MCGraphQueries ---------------------------
(***************************************************************************)
(* Snapshots and requests for TLC: every graph with at most MaxEdges edges *)
(* between four nodes, a loop at the first among them, and possibly a      *)
(* second profile of one edge.                                             *)
(***************************************************************************)
EXTENDS GraphQueries

CONSTANT MaxEdges

Plain == { e \in Nodes \X Nodes \X {1} : Source(e) # Target(e) } \cup {<<1, 1, 1>>}

SmallGraphs ==
    { g \cup h : g \in UNION { kSubset(k, Plain) : k \in 0..MaxEdges },
                 h \in {{}, {<<2, 1, 2>>}} }

Traversals ==
    [kind : {"traverse"}, root : {2}, transitive : {TRUE}, reverse : BOOLEAN,
     filter : {{}}, maxTraversal : {1, 3}]
    \cup [kind : {"traverse"}, root : {2}, transitive : {FALSE}, reverse : {FALSE},
          filter : {{1}}, maxTraversal : {2}]
Whys == [kind : {"why"}, root : {1}, to : {1, 3}, filter : {{}}]
        \cup [kind : {"why"}, root : {2}, to : {3}, filter : {{1}}]

\* Requests without a bound, with a depth, and with too few nodes or edges.
Bounded(depth, maxNodes, maxEdges) ==
    [depth |-> depth, maxNodes |-> maxNodes, maxEdges |-> maxEdges]
Bounds == { Bounded({}, 9, 9), Bounded({1}, 9, 9), Bounded({}, 3, 9), Bounded({}, 1, 9),
            Bounded({}, 9, 3) }

Impacts ==
    { [kind |-> "impact", root |-> 2, changed |-> changed, filter |-> {},
       depth |-> b.depth, maxNodes |-> b.maxNodes, maxEdges |-> b.maxEdges] :
        changed \in {{}, {2}, {1, 3}}, b \in Bounds }
\* Paths that map to no node, to different ones, and to common ones.
Mapped == { m \in [Paths -> {{}, {1}, {3}, {1, 4}}] :
              m["a"] \in {{}, {1}} /\ m["b"] \in {{3}, {1, 4}} }
Changes ==
    { [kind |-> "changes", mapped |-> mapped, filter |-> {},
       depth |-> b.depth, maxNodes |-> b.maxNodes, maxEdges |-> b.maxEdges] :
        mapped \in Mapped, b \in Bounds }
Levels == [kind : {"cycles"}, allowed : {Nodes, Nodes \ {1}}]

SmallQueries == Traversals \cup Whys \cup Impacts \cup Changes \cup Levels
=============================================================================
