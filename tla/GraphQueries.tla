---------------------------- MODULE GraphQueries ----------------------------
(***************************************************************************)
(* The queries over one immutable snapshot (crates/depgraph-core/src/      *)
(* query.rs and impact.rs): the dependencies of a node with their pages,   *)
(* why one node depends on another, the cycles of a level, the impact of a *)
(* node and the impact of a set of changed paths.                          *)
(*                                                                         *)
(* Every query is a breadth-first search that takes the edges of a node in *)
(* the order of its adjacency map and may be cut short by a bound.  The    *)
(* searches are modelled edge by edge and compared with the distances of   *)
(* the graph.  Nodes and profiles are numbers, ordered as their ids are;   *)
(* an edge is <<source, target, profile>>.  The option of a depth bound is *)
(* a set with at most one element.                                         *)
(***************************************************************************)
EXTENDS Integers, Sequences, FiniteSets, FiniteSetsExt

CONSTANTS Nodes, Profiles,
          Paths,            \* changed paths
          Graphs,           \* the snapshots to query: sets of edges
          Queries,          \* the requests
          MaxInspected,     \* MAX_INTERACTIVE_QUERY_TRAVERSAL, for the adjacency
          MaxPathSteps,     \* MAX_DEPENDENCY_PATH_STEPS
          MaxMaterialized,  \* MAX_IMPACT_MATERIALIZED_PATH_STEPS
          PageItems,        \* --max-items of a page
          PageBytes,        \* --max-bytes of a page
          MetaBytes,        \* a page without items and cursor
          CursorBytes,      \* the cursor and the diagnostic that names it
          ExceedsBytes      \* the diagnostic of an item that does not fit

Edges == Nodes \X Nodes \X (Profiles \cup {0})
Filters == SUBSET Profiles
Depths == { d \in SUBSET (0..Cardinality(Nodes)) : Cardinality(d) <= 1 }

TraverseRequests ==
    [kind : {"traverse"}, root : Nodes, transitive : BOOLEAN, reverse : BOOLEAN,
     filter : Filters, maxTraversal : Nat]
WhyRequests == [kind : {"why"}, root : Nodes, to : Nodes, filter : Filters]
ImpactRequests ==
    [kind : {"impact"}, root : Nodes, changed : SUBSET Nodes, filter : Filters,
     depth : Depths, maxNodes : Nat, maxEdges : Nat]
\* The nodes of each changed path; a path that is not in the snapshot has none.
ChangesRequests ==
    [kind : {"changes"}, mapped : [Paths -> SUBSET Nodes], filter : Filters,
     depth : Depths, maxNodes : Nat, maxEdges : Nat]
CyclesRequests == [kind : {"cycles"}, allowed : SUBSET Nodes]

ASSUME QueryAssumption ==
    /\ Nodes \subseteq Nat \ {0} /\ IsFiniteSet(Nodes)
    /\ Profiles \subseteq Nat \ {0} /\ IsFiniteSet(Profiles)
    /\ \A g \in Graphs : g \subseteq Nodes \X Nodes \X Profiles
    /\ {MaxInspected, MaxPathSteps, MaxMaterialized} \subseteq Nat
    /\ {MetaBytes, CursorBytes, ExceedsBytes} \subseteq Nat
    /\ PageItems \subseteq Nat \ {0} /\ PageBytes \subseteq Nat
    /\ \A q \in Queries : q \in TraverseRequests \cup WhyRequests \cup ImpactRequests
                                  \cup ChangesRequests \cup CyclesRequests

VARIABLES graph,      \* the edges of the snapshot
          query,      \* the request
          pc,         \* which search runs
          adjacency,  \* the edges that the search may follow
          search,     \* its queue, the edges of the node at hand, what it reached
          budget,     \* what has been admitted, and which limits were met
          answer,     \* paths, cycles and attribution
          pages       \* the items of a traversal and what the client has of them

vars == <<graph, query, pc, adjacency, search, budget, answer, pages>>

NoEdge == <<0, 0, 0>>
Unreached == -1
Searches == {"traverse", "why", "forward", "reverse", "cycles"}

Rooted(starts, order) ==
    [queue |-> order, pending |-> {}, seen |-> starts,
     via |-> [n \in Nodes |-> NoEdge],
     depths |-> [n \in Nodes |-> IF n \in starts THEN 0 ELSE Unreached]]

NothingSearched == Rooted({}, <<>>)
NothingSpent == [edges |-> {}, nodes |-> {}, traversed |-> 0, limits |-> {}]
NoAnswer == [found |-> FALSE, path |-> <<>>, cycles |-> {}, components |-> {},
             paths |-> [n \in Nodes |-> {}]]
NoPages == [items |-> <<>>, offset |-> 0, received |-> <<>>, state |-> "none"]

Init ==
    /\ graph \in Graphs /\ query \in Queries
    /\ pc = "start"
    /\ adjacency = {} /\ search = NothingSearched /\ budget = NothingSpent
    /\ answer = NoAnswer /\ pages = NoPages

-----------------------------------------------------------------------------
(***************************************************************************)
(* Edges, and the order in which a search takes them.                      *)
(***************************************************************************)
Source(e) == e[1]
Target(e) == e[2]
Profile(e) == e[3]

\* The structural part of the filters; phases, conditions, sessions and
\* environments select edges in the same way.
matches(e) == query.filter = {} \/ Profile(e) \in query.filter

Backward == pc = "reverse" \/ (query.kind = "traverse" /\ query.reverse)
From(e) == IF Backward THEN Target(e) ELSE Source(e)
Beyond(e) == IF Backward THEN Source(e) ELSE Target(e)

Before(e, f) ==
    Beyond(e) < Beyond(f) \/ (Beyond(e) = Beyond(f) /\ Profile(e) <= Profile(f))

\* The edge at hand, when the node has one left.
Edge == CHOOSE e \in search.pending : \A f \in search.pending : Before(e, f)

Passed(e) == [search EXCEPT !.pending = @ \ {e}]
Noted(e) == [Passed(e) EXCEPT !.seen = @ \cup {Beyond(e)}]
Reached(e) ==
    [Noted(e) EXCEPT !.via[Beyond(e)] = e,
                     !.depths[Beyond(e)] = search.depths[From(e)] + 1,
                     !.queue = Append(@, Beyond(e))]
Stopped(s) == [s EXCEPT !.queue = <<>>, !.pending = {}]

Visiting(which) == pc = which /\ search.pending # {}
Ended(which) == pc = which /\ search.pending = {} /\ search.queue = <<>>

\* Slip: the depth bound is compared after the node's edges were followed.
AtDepthLate(n) == pc = "reverse" /\ \E limit \in query.depth : search.depths[n] > limit
\* Only the reverse search of impact has a depth bound.
AtDepth(n) == pc = "reverse" /\ \E limit \in query.depth : search.depths[n] >= limit

\* queue.pop_front(): the next node, and the edges of its adjacency.
Expand ==
    /\ pc \in Searches /\ search.pending = {} /\ search.queue # <<>>
    /\ LET n == Head(search.queue)
       IN  search' = [search EXCEPT
                        !.queue = Tail(@),
                        !.pending = IF AtDepth(n) THEN {}
                                    ELSE { e \in adjacency : From(e) = n }]
    /\ UNCHANGED <<graph, query, pc, adjacency, budget, answer, pages>>

\* The edges from the node the search began at to the node it reached.
PathTo(n) ==
    LET path[m \in Nodes] ==
            IF search.via[m] = NoEdge THEN <<>>
            ELSE Append(path[Source(search.via[m])], search.via[m])
    IN  path[n]

\* The edges from a node that a reverse search reached to its seed.
PathFrom(n) ==
    LET path[m \in Nodes] ==
            IF search.via[m] = NoEdge THEN <<>>
            ELSE <<search.via[m]>> \o path[Target(search.via[m])]
    IN  path[n]

\* The adjacency of a query inspects at most MaxInspected edges, in the order
\* of the snapshot, which nothing says anything about.
Inspections == kSubset(Min({Cardinality(graph), MaxInspected}), graph)

Matching(inspected) == { e \in inspected : matches(e) }

-----------------------------------------------------------------------------
(***************************************************************************)
(* Dependencies of a node: traverse_bounded_filtered_cancellable.          *)
(***************************************************************************)
StartTraverse ==
    /\ pc = "start" /\ query.kind = "traverse"
    /\ \E inspected \in Inspections :
          /\ adjacency' = Matching(inspected)
          /\ budget' = [NothingSpent EXCEPT !.limits =
                            IF inspected = graph THEN {} ELSE {"adjacency"}]
    /\ search' = Rooted({query.root}, <<query.root>>)
    /\ pc' = "traverse"
    /\ UNCHANGED <<graph, query, answer, pages>>

Follow(e) ==
    IF Beyond(e) \in search.seen THEN Passed(e)
    ELSE IF query.transitive THEN Reached(e) ELSE Noted(e)

\* Slip: the edge that meets the limit ends the loop and is not reported.
VisitTraverseSilently ==
    /\ Visiting("traverse")
    /\ IF budget.traversed >= query.maxTraversal
       THEN search' = Stopped(search) /\ UNCHANGED budget
       ELSE /\ budget' = [budget EXCEPT !.traversed = @ + 1, !.edges = @ \cup {Edge}]
            /\ search' = Follow(Edge)
    /\ UNCHANGED <<graph, query, pc, adjacency, answer, pages>>
VisitTraverse ==
    /\ Visiting("traverse")
    /\ IF budget.traversed >= query.maxTraversal
       THEN /\ budget' = [budget EXCEPT !.limits = @ \cup {"traversal"}]
            /\ search' = Stopped(search)
       ELSE /\ budget' = [budget EXCEPT !.traversed = @ + 1, !.edges = @ \cup {Edge}]
            /\ search' = Follow(Edge)
    /\ UNCHANGED <<graph, query, pc, adjacency, answer, pages>>

ById(e, f) ==
    \/ Source(e) < Source(f)
    \/ Source(e) = Source(f) /\ Target(e) < Target(f)
    \/ Source(e) = Source(f) /\ Target(e) = Target(f) /\ Profile(e) < Profile(f)

\* The selected edges in the order of their ids.
Sorted(es) ==
    CHOOSE s \in [1..Cardinality(es) -> es] :
        \A i, j \in 1..Cardinality(es) : i < j => ById(s[i], s[j])

EndTraverse ==
    /\ Ended("traverse")
    /\ pc' = "pages"
    /\ pages' = [NoPages EXCEPT !.items = Sorted(budget.edges)]
    /\ UNCHANGED <<graph, query, adjacency, search, budget, answer>>

\* serialized_page_len.  An item takes as many bytes as its profile says.
PageLength(count, exceeds) ==
    MetaBytes
    + MapThenSumSet(LAMBDA i : Profile(pages.items[i]),
                    pages.offset + 1 .. pages.offset + count)
    + (IF exceeds THEN ExceedsBytes
       ELSE IF pages.offset + count < Len(pages.items) THEN CursorBytes ELSE 0)

\* The number of items of a page: all that are asked for when they fit, or
\* what the bisection over the shorter pages finds.
PageCount(maxItems, maxBytes) ==
    LET most == Min({maxItems, Len(pages.items) - pages.offset})
        fits(count) == PageLength(count, FALSE) <= maxBytes
        bisect[range \in (0..most) \X (0..most)] ==
            LET low == range[1]
                high == range[2]
                count == low + (high - low + 1) \div 2
            IN  IF low >= high THEN low
                ELSE bisect[IF fits(count) THEN <<count, high>> ELSE <<low, count - 1>>]
    IN  IF fits(most) \/ most = 0 THEN most ELSE bisect[<<0, most - 1>>]

\* paginate_interactive_query with the cursor of the last page.  A page whose
\* next item does not fit has no items and no cursor, and one whose summary
\* does not fit is an error: neither changes what the client has.
Page(maxItems, maxBytes) ==
    LET count == PageCount(maxItems, maxBytes)
        end == pages.offset + count
        exceeds == count = 0 /\ pages.offset < Len(pages.items)
    IN  /\ pc = "pages" /\ pages.state \in {"none", "more"}
        /\ PageLength(count, exceeds) <= maxBytes /\ ~exceeds
        /\ pages' = [pages EXCEPT
                       !.received = @ \o SubSeq(pages.items, pages.offset + 1, end),
                       !.offset = end,
                       !.state = IF end < Len(pages.items) THEN "more"
                                 ELSE IF budget.limits = {} THEN "complete" ELSE "partial"]
        /\ UNCHANGED <<graph, query, pc, adjacency, search, budget, answer>>

-----------------------------------------------------------------------------
(***************************************************************************)
(* Why one node depends on another: why_filtered.                          *)
(***************************************************************************)
StartWhy ==
    /\ pc = "start" /\ query.kind = "why"
    /\ IF query.root = query.to
       THEN /\ pc' = "done"
            /\ answer' = [NoAnswer EXCEPT !.found = TRUE]
            /\ UNCHANGED <<adjacency, search>>
       ELSE /\ pc' = IF Cardinality(graph) > MaxInspected THEN "failed" ELSE "why"
            /\ adjacency' = Matching(graph)
            /\ search' = Rooted({query.root}, <<query.root>>)
            /\ UNCHANGED answer
    /\ UNCHANGED <<graph, query, budget, pages>>

VisitWhy ==
    /\ Visiting("why")
    /\ search' = IF Beyond(Edge) \in search.seen THEN Passed(Edge)
                 ELSE IF Beyond(Edge) = query.to THEN Stopped(Reached(Edge))
                 ELSE Reached(Edge)
    /\ UNCHANGED <<graph, query, pc, adjacency, budget, answer, pages>>

EndWhy ==
    /\ Ended("why")
    /\ LET path == PathTo(query.to)
       IN  IF search.via[query.to] = NoEdge
           THEN pc' = "done" /\ UNCHANGED answer
           ELSE /\ pc' = IF Len(path) > MaxPathSteps THEN "failed" ELSE "done"
                /\ answer' = [NoAnswer EXCEPT !.found = TRUE, !.path = path]
    /\ UNCHANGED <<graph, query, adjacency, search, budget, pages>>

-----------------------------------------------------------------------------
(***************************************************************************)
(* Cycles of a level: cycles_from_parts and representative_cycle.          *)
(***************************************************************************)
\* The nodes that k steps reach from a set of nodes; a step is <<from, to>>.
Ball(steps, starts, k) ==
    LET ball[i \in 0..k] ==
            IF i = 0 THEN starts
            ELSE ball[i - 1] \cup
                   { s[2] : s \in { t \in steps : t[1] \in ball[i - 1] } }
    IN  ball[k]

Everywhere == Cardinality(Nodes)
Closure(steps, starts) == Ball(steps, starts, Everywhere)

Steps(es) == { <<Source(e), Target(e)>> : e \in es }
StepsBack(es) == { <<Target(e), Source(e)>> : e \in es }

\* tarjan_scc of petgraph: the strongly connected components.
Components(es, allowed) ==
    { { m \in allowed : /\ m \in Closure(Steps(es), {n})
                        /\ n \in Closure(Steps(es), {m}) } : n \in allowed }

\* The level's edges, parallel ones merged.
LevelEdges ==
    { <<Source(e), Target(e), 0>> :
        e \in { f \in graph : {Source(f), Target(f)} \subseteq query.allowed } }

Within(es, component) == { e \in es : {Source(e), Target(e)} \subseteq component }

StartCycles ==
    /\ pc = "start" /\ query.kind = "cycles"
    /\ pc' = "next_cycle"
    /\ answer' = [NoAnswer EXCEPT !.components =
                    { c \in Components(LevelEdges, query.allowed) :
                        Cardinality(c) > 1 \/ Within(LevelEdges, c) # {} }]
    /\ UNCHANGED <<graph, query, adjacency, search, budget, pages>>

\* Slip: the component's ids are not sorted before the first one is taken.
CycleStartUnsorted(component) == Max(component)
CycleStart(component) == Min(component)

\* The results are sorted at the end, so the order of the components does not
\* matter.
NextComponent == CHOOSE c \in answer.components :
                     \A d \in answer.components : Min(c) <= Min(d)

NextCycle ==
    /\ pc = "next_cycle"
    /\ IF answer.components = {}
       THEN pc' = "done" /\ UNCHANGED <<adjacency, search>>
       ELSE /\ pc' = "cycles"
            /\ adjacency' = Within(LevelEdges, NextComponent)
            /\ LET start == CycleStart(NextComponent)
               IN  search' = Rooted({start}, <<start>>)
    /\ UNCHANGED <<graph, query, budget, answer, pages>>

\* An edge back to the start closes the cycle.
VisitCycle ==
    /\ Visiting("cycles")
    /\ LET start == CycleStart(NextComponent)
       IN  IF Beyond(Edge) = start
           THEN /\ answer' = [answer EXCEPT
                                !.components = @ \ {NextComponent},
                                !.cycles = @ \cup {Append(PathTo(Source(Edge)), Edge)}]
                /\ search' = Stopped(search)
                /\ pc' = "next_cycle"
           ELSE /\ search' = IF Beyond(Edge) \in search.seen THEN Passed(Edge)
                             ELSE Reached(Edge)
                /\ UNCHANGED <<answer, pc>>
    /\ UNCHANGED <<graph, query, adjacency, budget, pages>>

-----------------------------------------------------------------------------
(***************************************************************************)
(* Impact of a node and of changed paths: impact_cancellable and           *)
(* impact_changed_set_cancellable.                                         *)
(***************************************************************************)
EdgeFits(e) == e \in budget.edges \/ Cardinality(budget.edges) < query.maxEdges
NodeFits(n) == n \in budget.nodes \/ Cardinality(budget.nodes) < query.maxNodes

\* The forward search of impact looks for a changed node, and shares its
\* budget with the reverse search that follows.
StartImpact ==
    /\ pc = "start" /\ query.kind = "impact"
    /\ pc' = IF query.root \in query.changed THEN "reverse"
             ELSE IF query.changed = {} THEN "done" ELSE "forward"
    /\ adjacency' = Matching(graph)
    /\ budget' = [NothingSpent EXCEPT !.nodes = {query.root}]
    /\ search' = Rooted({query.root}, <<query.root>>)
    /\ answer' = [NoAnswer EXCEPT !.found = query.root \in query.changed]
    /\ UNCHANGED <<graph, query, pages>>

\* The changed nodes in the order of their ids, as far as the budget admits
\* them, are the seeds.
StartChanges ==
    /\ pc = "start" /\ query.kind = "changes"
    /\ LET changed == UNION { query.mapped[p] : p \in Paths }
           seeds == { n \in changed :
                        Cardinality({ m \in changed : m <= n }) <= query.maxNodes }
           order == CHOOSE s \in [1..Cardinality(seeds) -> seeds] :
                        \A i, j \in 1..Cardinality(seeds) : i < j => s[i] < s[j]
       IN  /\ search' = Rooted(seeds, order)
           /\ budget' = [NothingSpent EXCEPT
                           !.nodes = seeds,
                           !.limits = IF seeds = changed THEN {} ELSE {"nodes"}]
    /\ pc' = "reverse"
    /\ adjacency' = Matching(graph)
    /\ answer' = [NoAnswer EXCEPT !.found = TRUE]
    /\ UNCHANGED <<graph, query, pages>>

\* admit_edge and admit_node; the first one that is refused ends the search.
VisitAdmitting ==
    /\ Visiting("forward") \/ Visiting("reverse")
    /\ LET unseen == Beyond(Edge) \notin search.seen
       IN  \/ /\ ~EdgeFits(Edge)
              /\ budget' = [budget EXCEPT !.limits = @ \cup {"edges"}]
              /\ search' = Stopped(search)
           \/ /\ EdgeFits(Edge) /\ unseen /\ ~NodeFits(Beyond(Edge))
              /\ budget' = [budget EXCEPT !.edges = @ \cup {Edge},
                                          !.limits = @ \cup {"nodes"}]
              /\ search' = Stopped(search)
           \/ /\ EdgeFits(Edge) /\ unseen /\ NodeFits(Beyond(Edge))
              /\ budget' = [budget EXCEPT !.edges = @ \cup {Edge},
                                          !.nodes = @ \cup {Beyond(Edge)}]
              /\ search' = IF pc = "forward" /\ Beyond(Edge) \in query.changed
                           THEN Stopped(Reached(Edge)) ELSE Reached(Edge)
           \/ /\ EdgeFits(Edge) /\ ~unseen
              /\ budget' = [budget EXCEPT !.edges = @ \cup {Edge}]
              /\ search' = Passed(Edge)
    /\ UNCHANGED <<graph, query, pc, adjacency, answer, pages>>

EndForward ==
    /\ Ended("forward")
    /\ LET changed == { n \in query.changed : search.via[n] # NoEdge }
           path == PathTo(CHOOSE n \in changed : TRUE)
       IN  IF changed = {}
           THEN pc' = "done" /\ UNCHANGED <<search, answer>>
           ELSE /\ pc' = IF Len(path) > MaxPathSteps THEN "failed" ELSE "reverse"
                /\ answer' = [NoAnswer EXCEPT !.found = TRUE, !.path = path]
                /\ search' = Rooted({query.root}, <<query.root>>)
    /\ UNCHANGED <<graph, query, adjacency, budget, pages>>

\* changed_path_seeds: the seeds that a changed path mapped to.
SeedsOf(p) == { n \in query.mapped[p] : search.depths[n] = 0 }

\* Slip: the attribution of a path ignores the depth bound.
AttributedDeeply(p) ==
    Closure(StepsBack(Within(adjacency, search.seen)), SeedsOf(p))
\* attribute_changed_paths: the nodes that one path's own seeds reach, inside
\* the nodes of the shared search and with the same depth bound.
Attributed(p) ==
    Ball(StepsBack(Within(adjacency, search.seen)), SeedsOf(p),
         Min({Everywhere} \cup query.depth))

\* preflight_path_materialization refuses paths that are too long, one by one
\* and together; else every reached node is an impact.
PreflightFails ==
    LET length(n) == search.depths[n] + Len(answer.path)
    IN  \/ \E n \in search.seen : length(n) > MaxPathSteps
        \/ MapThenSumSet(length, search.seen) > MaxMaterialized

EndReverse ==
    /\ Ended("reverse")
    /\ pc' = IF PreflightFails THEN "failed" ELSE "done"
    /\ answer' = IF query.kind = "impact" THEN answer
                 ELSE [answer EXCEPT !.paths =
                         [n \in Nodes |-> { p \in Paths : n \in Attributed(p) }]]
    /\ UNCHANGED <<graph, query, adjacency, search, budget, pages>>

-----------------------------------------------------------------------------
\* The request is cancelled, or a ceiling on preprocessing work is met: it
\* fails and returns nothing.
Abort ==
    /\ pc \in Searches \cup {"start", "next_cycle"}
    /\ pc' = "failed"
    /\ adjacency' = {} /\ search' = NothingSearched /\ budget' = NothingSpent
    /\ answer' = NoAnswer
    /\ UNCHANGED <<graph, query, pages>>

Start == StartTraverse \/ StartWhy \/ StartCycles \/ StartImpact \/ StartChanges
Visit == VisitTraverse \/ VisitWhy \/ VisitCycle \/ VisitAdmitting
End == EndTraverse \/ EndWhy \/ EndForward \/ EndReverse
Pages == \E maxItems \in PageItems, maxBytes \in PageBytes : Page(maxItems, maxBytes)

\* The answer has been given, or the client reads no further page.
Answered == pc \in {"done", "failed", "pages"} /\ UNCHANGED vars

Next == Start \/ Expand \/ Visit \/ NextCycle \/ End \/ Pages \/ Abort \/ Answered

Spec == Init /\ [][Next]_vars

-----------------------------------------------------------------------------
(***************************************************************************)
(* Properties.                                                             *)
(***************************************************************************)
Walk(path, from, to) ==
    /\ \A i \in 1..Len(path) - 1 : Target(path[i]) = Source(path[i + 1])
    /\ IF path = <<>> THEN from = to
       ELSE Source(path[1]) = from /\ Target(path[Len(path)]) = to

\* The number of steps from a set of nodes to a node they reach.
Distance(steps, starts, n) ==
    Min({ k \in 0..Everywhere : n \in Ball(steps, starts, k) })

\* The edges a traversal is about: those of the root, or of all it reaches.
Wanted ==
    LET steps == IF query.reverse THEN StepsBack(Matching(graph)) ELSE Steps(Matching(graph))
        expanded == IF query.transitive THEN Closure(steps, {query.root}) ELSE {query.root}
    IN  { e \in Matching(graph) : (IF query.reverse THEN Target(e) ELSE Source(e)) \in expanded }

\* The pages that a client has read hold different edges of the answer, and
\* all of them once a page says that the result is complete; the last page says
\* that it is not only when a bound was really too small.
DeliveredExact ==
    pc = "pages" =>
        LET got == { pages.received[i] : i \in 1..Len(pages.received) }
        IN  /\ Cardinality(got) = Len(pages.received)
            /\ got \subseteq Wanted
            /\ pages.state = "complete" => got = Wanted
            /\ pages.state = "partial" => \/ Cardinality(Wanted) > query.maxTraversal
                                          \/ Cardinality(graph) > MaxInspected

\* A cycle through a node: its length is one more than the way back.
CycleLength(es, n) ==
    1 + Min({ Distance(Steps(es), {Target(e)}, n) :
                e \in { f \in es : /\ Source(f) = n
                                   /\ n \in Closure(Steps(es), {Target(f)}) } })

\* The path that why reports, and the one from the root of an impact to a
\* changed node, are shortest paths, and there is one whenever the nodes are
\* connected and no limit was met; every component with a cycle is reported by
\* a shortest cycle through its smallest node.
PathsShortest ==
    pc = "done" =>
        /\ query.kind = "why" =>
              LET steps == Steps(Matching(graph))
              IN  /\ answer.found = (query.to \in Closure(steps, {query.root}))
                  /\ answer.found =>
                        /\ Walk(answer.path, query.root, query.to)
                        /\ Len(answer.path) = Distance(steps, {query.root}, query.to)
        /\ query.kind = "impact" =>
              LET steps == Steps(Matching(graph))
                  near == query.changed \cap Closure(steps, {query.root})
              IN  /\ answer.found => near # {}
                  /\ budget.limits = {} => answer.found = (near # {})
                  /\ answer.found =>
                        /\ \E n \in near : Walk(answer.path, query.root, n)
                        /\ Len(answer.path) =
                              Min({ Distance(steps, {query.root}, n) : n \in near })
        /\ query.kind = "cycles" =>
              LET loops == { c \in Components(LevelEdges, query.allowed) :
                               Within(LevelEdges, c) # {} }
              IN  /\ Cardinality(answer.cycles) = Cardinality(loops)
                  /\ \A c \in loops : \E path \in answer.cycles :
                        /\ \A i \in 1..Len(path) : path[i] \in Within(LevelEdges, c)
                        /\ path # <<>> /\ Walk(path, Min(c), Min(c))
                        /\ Len(path) = CycleLength(Within(LevelEdges, c), Min(c))

Origins == IF query.kind = "impact" THEN {query.root}
           ELSE UNION { query.mapped[p] : p \in Paths }

\* Every node an impact names depends on its origin, by the path that is
\* reported and at the least distance, also when a limit cut the search short;
\* no node within the depth is missing when the result is complete, and a
\* change set's result is incomplete only when it exceeds a limit.
ImpactExact ==
    pc = "done" /\ query.kind \in {"impact", "changes"} /\ answer.found =>
        LET steps == StepsBack(Matching(graph))
            depth == Min({Everywhere} \cup query.depth)
            affected == Ball(steps, Origins, depth)
            followed == { e \in Matching(graph) :
                            depth > 0 /\ Target(e) \in Ball(steps, Origins, depth - 1) }
        IN  /\ search.seen \subseteq affected
            /\ \A n \in search.seen :
                  /\ search.depths[n] = Distance(steps, Origins, n)
                  /\ Len(PathFrom(n)) = search.depths[n]
                  /\ \E o \in Origins : Walk(PathFrom(n), n, o)
            /\ budget.limits = {} => search.seen = affected
            /\ query.kind = "changes" /\ budget.limits # {} =>
                  \/ Cardinality(affected) > query.maxNodes
                  \/ Cardinality(followed) > query.maxEdges

\* An affected node is attributed to a path of the changed node that its
\* dependency path ends at, and in a complete result to every changed path that
\* reaches it within the depth on its own.
AttributionExact ==
    pc = "done" /\ query.kind = "changes" =>
        \A n \in search.seen :
            /\ \E p \in answer.paths[n], o \in Origins :
                  o \in query.mapped[p] /\ Walk(PathFrom(n), n, o)
            /\ budget.limits = {} =>
                  answer.paths[n] =
                      { p \in Paths : n \in Ball(StepsBack(Matching(graph)), query.mapped[p],
                                                 Min({Everywhere} \cup query.depth)) }
=============================================================================
