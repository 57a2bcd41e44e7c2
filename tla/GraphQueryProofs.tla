------------------------- MODULE GraphQueryProofs -------------------------
(***************************************************************************)
(* Proofs about the queries: every search is a breadth-first search, so    *)
(* that the distances it finds are those of the graph and a search that    *)
(* nothing cut short has seen all it can reach; from this the answers of   *)
(* each query, for every snapshot, request and limit.                      *)
(*                                                                         *)
(* The distances are recursive functions over the naturals.  What holds of *)
(* them for every number of steps is proved by the least number principle, *)
(* which Induction restates for the set of the numbers that satisfy it.    *)
(***************************************************************************)
EXTENDS GraphQueries, FiniteSetTheorems, SequenceTheorems, WellFoundedInduction, TLAPS

\* Every set of natural numbers that is not empty has a least element.
LEMMA LeastNatural ==
    ASSUME NEW S \in SUBSET Nat, S # {}
    PROVE  \E m \in S : \A k \in S : m <= k
<1> DEFINE less == OpToRel(<, Nat)
<1>1. IsWellFoundedOn(less, Nat) BY NatLessThanWellFounded
<1>2. \A x, y \in Nat : y < x => <<y, x>> \in less BY DEF OpToRel
<1> HIDE DEF less
<1>3. PICK m \in S : \A y \in S : <<y, m>> \notin less BY <1>1, WFMin
<1>4. \A k \in S : ~ (k < m) BY <1>2, <1>3
<1>5. QED BY <1>4

\* Induction over the naturals, with a set in the place of a predicate: a set that
\* holds zero, and n + 1 with every n, holds every natural number.
LEMMA Induction ==
    ASSUME NEW T, 0 \in T, \A n \in Nat : n \in T => n + 1 \in T
    PROVE  Nat \subseteq T
<1> DEFINE S == Nat \ T
<1> SUFFICES ASSUME S # {} PROVE FALSE OBVIOUS
<1>1. PICK m \in S : \A k \in S : m <= k BY LeastNatural
<1>2. m \in Nat /\ m # 0 BY <1>1
<1>3. m - 1 \in Nat /\ ~(m <= m - 1) BY <1>2
<1>4. m - 1 \in T BY <1>1, <1>3
<1> QED BY <1>1, <1>2, <1>3, <1>4

\* A set of nodes and what one more step reaches from it.
Wider(steps, S) == S \cup { s[2] : s \in { t \in steps : t[1] \in S } }

\* The recursive function that Ball chooses.
IsBall(b, steps, starts, k) ==
    b = [i \in 0..k |-> IF i = 0 THEN starts ELSE Wider(steps, b[i - 1])]

\* The recursive function of Ball exists, whatever the number of steps.
LEMMA BallExists ==
    ASSUME NEW steps, NEW starts, NEW k \in Nat
    PROVE  \E b : IsBall(b, steps, starts, k)
<1> DEFINE T == { n \in Nat : \E b : IsBall(b, steps, starts, n) }
<1>1. 0 \in T
  <2>1. IsBall([i \in 0..0 |-> starts], steps, starts, 0) BY DEF IsBall
  <2> QED BY <2>1
<1>2. ASSUME NEW n \in Nat, n \in T PROVE n + 1 \in T
  <2>1. PICK b : IsBall(b, steps, starts, n) BY <1>2
  <2> DEFINE c == [i \in 0..n + 1 |-> IF i = n + 1 THEN Wider(steps, b[n]) ELSE b[i]]
  <2>2. \A i \in 0..n + 1 : c[i] = IF i = 0 THEN starts ELSE Wider(steps, c[i - 1])
    <3> TAKE i \in 0..n + 1
    <3>1. CASE i = n + 1 BY <3>1
    <3>2. CASE i # n + 1 
      <4>1. i \in 0..n /\ (i # 0 => i - 1 \in 0..n /\ i - 1 # n + 1) BY <3>2
      <4>2. b[i] = IF i = 0 THEN starts ELSE Wider(steps, b[i - 1]) BY <2>1, <4>1 DEF IsBall
      <4> QED BY <4>1, <4>2
    <3> QED BY <3>1, <3>2
  <2> HIDE DEF c
  <2>3. c = [i \in 0..n + 1 |-> c[i]] BY DEF c
  <2>4. IsBall(c, steps, starts, n + 1) BY <2>2, <2>3 DEF IsBall
  <2> QED BY <2>4
<1> HIDE DEF T
<1>3. Nat \subseteq T BY <1>1, <1>2, Induction
<1> QED BY <1>3 DEF T

\* Two such functions agree on the steps that they share.
LEMMA BallUnique ==
    ASSUME NEW steps, NEW starts, NEW k \in Nat, NEW l \in Nat, k <= l,
           NEW b, IsBall(b, steps, starts, k), NEW c, IsBall(c, steps, starts, l)
    PROVE  \A i \in 0..k : b[i] = c[i]
<1> DEFINE T == { n \in Nat : n <= k => b[n] = c[n] }
<1>1. 0 \in T BY DEF IsBall
<1>2. ASSUME NEW n \in Nat, n \in T PROVE n + 1 \in T
  <2> SUFFICES ASSUME n + 1 <= k PROVE b[n + 1] = c[n + 1] OBVIOUS
  <2>1. b[n + 1] = Wider(steps, b[n]) BY DEF IsBall
  <2>2. c[n + 1] = Wider(steps, c[n]) BY DEF IsBall
  <2> QED BY <1>2, <2>1, <2>2
<1> HIDE DEF T
<1>3. Nat \subseteq T BY <1>1, <1>2, Induction
<1> QED BY <1>3 DEF T

\* Ball is the last value of such a function.
LEMMA BallIs ==
    ASSUME NEW steps, NEW starts, NEW k \in Nat
    PROVE  \E b : IsBall(b, steps, starts, k) /\ Ball(steps, starts, k) = b[k]
<1> DEFINE b == CHOOSE b : IsBall(b, steps, starts, k)
<1>1. IsBall(b, steps, starts, k) BY BallExists
<1>2. Ball(steps, starts, k) = b[k] BY DEF Ball, IsBall, Wider
<1> QED BY <1>1, <1>2

\* No step reaches only the starts.
LEMMA BallZero ==
    ASSUME NEW steps, NEW starts PROVE Ball(steps, starts, 0) = starts
BY BallIs DEF IsBall

\* One step more widens the ball once.
LEMMA BallNext ==
    ASSUME NEW steps, NEW starts, NEW k \in Nat
    PROVE  Ball(steps, starts, k + 1) = Wider(steps, Ball(steps, starts, k))
<1>1. PICK b : IsBall(b, steps, starts, k) /\ Ball(steps, starts, k) = b[k] BY BallIs
<1>2. PICK c : IsBall(c, steps, starts, k + 1) /\ Ball(steps, starts, k + 1) = c[k + 1] BY BallIs
<1>3. b[k] = c[k] BY <1>1, <1>2, BallUnique
<1>4. c[k + 1] = Wider(steps, c[k]) BY <1>2 DEF IsBall
<1> QED BY <1>1, <1>2, <1>3, <1>4

\* A step from a node of the ball leads into the next ball.
LEMMA BallStep ==
    ASSUME NEW steps, NEW starts, NEW k \in Nat, NEW t \in steps,
           t[1] \in Ball(steps, starts, k)
    PROVE  t[2] \in Ball(steps, starts, k + 1)
<1>1. Ball(steps, starts, k + 1) = Wider(steps, Ball(steps, starts, k)) BY BallNext
<1> QED BY <1>1 DEF Wider

\* A node of the next ball was in the ball before, or a step from there leads to it.
LEMMA BallBack ==
    ASSUME NEW steps, NEW starts, NEW k \in Nat, NEW n \in Ball(steps, starts, k + 1)
    PROVE  \/ n \in Ball(steps, starts, k)
           \/ \E t \in steps : t[1] \in Ball(steps, starts, k) /\ t[2] = n
BY BallNext DEF Wider

\* With more steps nothing gets out of reach.
LEMMA BallGrows ==
    ASSUME NEW steps, NEW starts, NEW k \in Nat, NEW l \in Nat, k <= l
    PROVE  Ball(steps, starts, k) \subseteq Ball(steps, starts, l)
<1> DEFINE T == { n \in Nat : Ball(steps, starts, k) \subseteq Ball(steps, starts, k + n) }
<1>1. 0 \in T OBVIOUS
<1>2. ASSUME NEW n \in Nat, n \in T PROVE n + 1 \in T
  <2>1. Ball(steps, starts, k + n + 1) = Wider(steps, Ball(steps, starts, k + n))
    BY BallNext
  <2>2. k + (n + 1) = k + n + 1 OBVIOUS
  <2> QED BY <1>2, <2>1, <2>2 DEF Wider
<1>3. l - k \in Nat /\ k + (l - k) = l OBVIOUS
<1> HIDE DEF T
<1>4. Nat \subseteq T BY <1>1, <1>2, Induction
<1>5. l - k \in T BY <1>3, <1>4
<1> QED BY <1>3, <1>5 DEF T

\* With more edges to follow, or more starts, nothing gets out of reach.
LEMMA BallMonotone ==
    ASSUME NEW steps, NEW starts, NEW steps2, NEW starts2,
           steps \subseteq steps2, starts \subseteq starts2, NEW k \in Nat
    PROVE  Ball(steps, starts, k) \subseteq Ball(steps2, starts2, k)
<1> DEFINE T == { n \in Nat : Ball(steps, starts, n) \subseteq Ball(steps2, starts2, n) }
<1>1. 0 \in T BY BallZero
<1>2. ASSUME NEW n \in Nat, n \in T PROVE n + 1 \in T
  BY <1>2, BallNext DEF Wider
<1> HIDE DEF T
<1>3. Nat \subseteq T BY <1>1, <1>2, Induction
<1> QED BY <1>3 DEF T

\* A ball never leaves a set that holds its starts and every end of a step.
LEMMA BallInside ==
    ASSUME NEW N, NEW steps, NEW starts \in SUBSET N,
           \A t \in steps : t[2] \in N, NEW k \in Nat
    PROVE  Ball(steps, starts, k) \subseteq N
<1> DEFINE T == { n \in Nat : Ball(steps, starts, n) \subseteq N }
<1>1. 0 \in T BY BallZero
<1>2. ASSUME NEW n \in Nat, n \in T PROVE n + 1 \in T
  BY <1>2, BallNext DEF Wider
<1> HIDE DEF T
<1>3. Nat \subseteq T BY <1>1, <1>2, Induction
<1> QED BY <1>3 DEF T

\* Once a step adds nothing, no later one does.
LEMMA BallStable ==
    ASSUME NEW steps, NEW starts, NEW k \in Nat,
           Ball(steps, starts, k + 1) = Ball(steps, starts, k), NEW l \in Nat
    PROVE  Ball(steps, starts, l) \subseteq Ball(steps, starts, k)
<1> DEFINE T == { n \in Nat : Ball(steps, starts, n) \subseteq Ball(steps, starts, k) }
<1>1. 0 \in T BY BallGrows
<1>2. ASSUME NEW n \in Nat, n \in T PROVE n + 1 \in T
  <2>1. Ball(steps, starts, n + 1) = Wider(steps, Ball(steps, starts, n)) BY BallNext
  <2>2. Ball(steps, starts, k + 1) = Wider(steps, Ball(steps, starts, k)) BY BallNext
  <2> QED BY <1>2, <2>1, <2>2 DEF Wider
<1> HIDE DEF T
<1>3. Nat \subseteq T BY <1>1, <1>2, Induction
<1> QED BY <1>3 DEF T

\* Until a ball stops growing, each step adds a node.
LEMMA BallCounts ==
    ASSUME NEW N, IsFiniteSet(N), NEW steps, NEW starts \in SUBSET N,
           \A t \in steps : t[2] \in N, NEW k \in Nat
    PROVE  \/ Ball(steps, starts, k + 1) = Ball(steps, starts, k)
           \/ Cardinality(Ball(steps, starts, k)) > k
<1> DEFINE B(n) == Ball(steps, starts, n)
           T == { n \in Nat : B(n + 1) = B(n) \/ Cardinality(B(n)) > n }
<1>0. ASSUME NEW n \in Nat
      PROVE  B(n) \subseteq N /\ IsFiniteSet(B(n)) /\ Cardinality(B(n)) \in Nat
  <2>1. B(n) \subseteq N BY BallInside
  <2> QED BY <2>1, FS_Subset, FS_CardinalityType
<1>1. 0 \in T
  <2>1. CASE starts = {}
    <3>1. B(0) = {} BY <2>1, BallZero
    <3>2. B(1) = {} BY <3>1, BallNext DEF Wider
    <3> QED BY <3>1, <3>2
  <2>2. CASE starts # {}
    <3>1. B(0) = starts BY BallZero
    <3>2. Cardinality(B(0)) # 0 BY <2>2, <3>1, <1>0, FS_EmptySet
    <3> QED BY <3>2, <1>0
  <2> QED BY <2>1, <2>2
<1>2. ASSUME NEW n \in Nat, n \in T PROVE n + 1 \in T
  <2>1. n + 1 \in Nat /\ n + 1 + 1 \in Nat OBVIOUS
  <2>2. CASE B(n + 1) = B(n)
    <3>1. B(n + 2) \subseteq B(n) BY <2>2, BallStable
    <3>2. B(n) \subseteq B(n + 2) BY BallGrows
    <3>3. B(n + 1 + 1) = B(n + 2) OBVIOUS
    <3> QED BY <2>2, <3>1, <3>2, <3>3
  <2>3. CASE B(n + 1) # B(n)
    <3>1. Cardinality(B(n)) > n BY <1>2, <2>3
    <3>2. B(n) \subseteq B(n + 1) BY BallGrows
    <3>3. Cardinality(B(n)) <= Cardinality(B(n + 1))
          /\ Cardinality(B(n)) # Cardinality(B(n + 1))
      BY <2>1, <2>3, <3>2, <1>0, FS_Subset
    <3>4. Cardinality(B(n)) \in Nat /\ Cardinality(B(n + 1)) \in Nat BY <1>0
    <3> HIDE DEF B
    <3> QED BY <3>1, <3>3, <3>4
  <2> QED BY <2>2, <2>3
<1> HIDE DEF T
<1>3. Nat \subseteq T BY <1>1, <1>2, Induction
<1> QED BY <1>3 DEF T

\* Hence all that is reachable in a finite graph is within as many steps as it has
\* nodes, less one: Closure does not depend on the bound that it is written with.
LEMMA BallSaturates ==
    ASSUME NEW N, IsFiniteSet(N), N # {}, NEW steps, NEW starts \in SUBSET N,
           \A t \in steps : t[2] \in N, NEW k \in Nat
    PROVE  Ball(steps, starts, k) \subseteq Ball(steps, starts, Cardinality(N) - 1)
<1> DEFINE c == Cardinality(N) - 1
<1>1. Cardinality(N) \in Nat /\ c \in Nat /\ Cardinality(N) = c + 1
  BY FS_CardinalityType, FS_EmptySet
<1>2. Ball(steps, starts, c) \subseteq N BY <1>1, BallInside
<1>3. Ball(steps, starts, k) \subseteq N BY BallInside
<1>4. CASE Ball(steps, starts, c + 1) = Ball(steps, starts, c)
  <2> HIDE DEF c
  <2> QED BY <1>1, <1>4, BallStable
<1>5. CASE Cardinality(Ball(steps, starts, c)) > c
  <2>1. Cardinality(Ball(steps, starts, c)) <= Cardinality(N)
        /\ Cardinality(Ball(steps, starts, c)) \in Nat
    BY <1>2, FS_Subset, FS_CardinalityType
  <2>2. Cardinality(Ball(steps, starts, c)) = Cardinality(N) BY <1>1, <1>5, <2>1
  <2>3. Ball(steps, starts, c) = N BY <1>2, <2>2, FS_Subset
  <2> QED BY <1>3, <2>3
<1> HIDE DEF c
<1>6. QED BY <1>1, <1>4, <1>5, BallCounts

-----------------------------------------------------------------------------
\* The search in either direction: where an edge leaves from, and where it leads.
from(back, e) == IF back THEN Target(e) ELSE Source(e)
to(back, e) == IF back THEN Source(e) ELSE Target(e)
Ways(A, back) == { <<from(back, e), to(back, e)>> : e \in A }

\* The search at every moment: the queue is a sequence of nodes, and so on.
SearchRecords ==
    [queue : Seq(Nodes), pending : SUBSET Edges, seen : SUBSET Nodes,
     via : [Nodes -> Edges \cup {NoEdge}],
     depths : [Nodes -> Nat \cup {Unreached}]]

\* The nodes a search began at, those that k steps reach from them, those whose edges
\* are still to be followed, whether there are any, and those at the depth bound.
Roots(s) == { n \in Nodes : s.depths[n] = 0 }
Near(s, A, back, k) == Ball(Ways(A, back), Roots(s), k)
Open(s, back) == Range(s.queue) \cup { from(back, e) : e \in s.pending }
Going(s) == s.queue # <<>> \/ s.pending # {}
Deep(s, L, n) == \E limit \in L : s.depths[n] >= limit

\* The parents that a search remembers: a node that was not reached has none, a root
\* has none, and any other node was reached by an edge of the adjacency from a node
\* one step nearer.
Tree(s, A, back) ==
    /\ \A n \in Nodes \ s.seen : s.depths[n] = Unreached /\ s.via[n] = NoEdge
    /\ \A n \in s.seen : s.depths[n] \in Nat /\ (s.depths[n] = 0 <=> s.via[n] = NoEdge)
    /\ \A n \in s.seen : s.depths[n] # 0 =>
          /\ s.via[n] \in A /\ to(back, s.via[n]) = n
          /\ from(back, s.via[n]) \in s.seen
          /\ s.depths[n] = s.depths[from(back, s.via[n])] + 1

\* The depth of a reached node is its distance from the roots.
Exact(s, A, back) ==
    \A n \in s.seen :
        /\ n \in Near(s, A, back, s.depths[n])
        /\ \A k \in 0..s.depths[n] - 1 : n \notin Near(s, A, back, k)

\* The queue of a breadth-first search: the nodes in it have been reached and differ,
\* their depths never decrease along it, the pending edges are those of one node that
\* has left it, and no reached node is more than one step beyond an unfinished one.
Ordered(s, A, back) ==
    /\ s.pending \subseteq A
    /\ Range(s.queue) \subseteq s.seen
    /\ \A e \in s.pending : from(back, e) \in s.seen \ Range(s.queue)
    /\ \A e, f \in s.pending : from(back, e) = from(back, f)
    /\ \A i, j \in 1..Len(s.queue) : i < j =>
          s.queue[i] # s.queue[j] /\ s.depths[s.queue[i]] <= s.depths[s.queue[j]]
    /\ \A e \in s.pending, i \in 1..Len(s.queue) :
          s.depths[from(back, e)] <= s.depths[s.queue[i]]
    /\ \A n \in s.seen, m \in Open(s, back) : s.depths[n] <= s.depths[m] + 1

\* No reached node is beyond the depth bound, and the edges of a node at the bound
\* are not followed.
Limited(s, back, L) ==
    /\ \A n \in s.seen, limit \in L : s.depths[n] <= limit
    /\ \A e \in s.pending : ~Deep(s, L, from(back, e))

\* Every edge that has been passed leads to a node that has been reached, at most one
\* step further.  A search that a limit stops is no longer closed.
Closed(s, A, back, L) ==
    \A n \in s.seen \ Range(s.queue), e \in A \ s.pending :
        from(back, e) = n /\ ~Deep(s, L, n) =>
            to(back, e) \in s.seen /\ s.depths[to(back, e)] <= s.depths[n] + 1

\* What holds of a search at every moment, also after a limit has stopped it.
Sound(s, A, back, L) ==
    s \in SearchRecords /\ Tree(s, A, back) /\ Exact(s, A, back)
        /\ Ordered(s, A, back) /\ Limited(s, back, L)

\* The three steps of a search, for any record of it: an edge to a node that has been
\* reached, an edge to a new node, and the next node of the queue.
Passing(s, e) == [s EXCEPT !.pending = @ \ {e}]
Reaching(s, back, e) ==
    [s EXCEPT !.pending = @ \ {e}, !.seen = @ \cup {to(back, e)},
              !.via[to(back, e)] = e,
              !.depths[to(back, e)] = s.depths[from(back, e)] + 1,
              !.queue = Append(@, to(back, e))]
Expanding(s, A, back, L) ==
    [s EXCEPT !.queue = Tail(@),
              !.pending = IF Deep(s, L, Head(s.queue)) THEN {}
                          ELSE { e \in A : from(back, e) = Head(s.queue) }]

\* The ends of an edge are nodes, and no edge is the mark for a missing parent.
LEMMA EdgeEnds ==
    ASSUME NEW e \in Edges, NEW back \in BOOLEAN
    PROVE  from(back, e) \in Nodes /\ to(back, e) \in Nodes /\ e # NoEdge
BY QueryAssumption DEF Edges, from, to, Source, Target, NoEdge

\* A search whose unfinished nodes are all at depth m or more has reached every node
\* within m steps, at no more than its distance.  This is where the order of the queue
\* and the closedness of the search meet.
LEMMA LevelsSeen ==
    ASSUME NEW A \in SUBSET Edges, NEW back \in BOOLEAN, NEW L \in SUBSET Nat,
           NEW s \in SearchRecords, Tree(s, A, back), Closed(s, A, back, L),
           NEW m \in Nat,
           \A n \in Open(s, back) : n \in s.seen => m <= s.depths[n],
           \A n \in s.seen : s.depths[n] < m => ~Deep(s, L, n),
           NEW k \in 0..m
    PROVE  Near(s, A, back, k) \subseteq { n \in s.seen : s.depths[n] <= k }
<1> DEFINE N(i) == Near(s, A, back, i)
           S(i) == { n \in s.seen : s.depths[n] <= i }
           T == { i \in Nat : i <= m => N(i) \subseteq S(i) }
<1>1. 0 \in T
  <2>1. N(0) = Roots(s) BY BallZero DEF Near
  <2>2. Roots(s) \subseteq S(0) BY DEF Roots, Tree, Unreached
  <2> QED BY <2>1, <2>2
<1>2. ASSUME NEW i \in Nat, i \in T PROVE i + 1 \in T
  <2> SUFFICES ASSUME i + 1 <= m, NEW n \in N(i + 1) PROVE n \in S(i + 1) OBVIOUS
  <2>1. N(i) \subseteq S(i) BY <1>2
  <2>2. CASE n \in N(i)
    <3>1. n \in s.seen /\ s.depths[n] <= i /\ s.depths[n] \in Nat BY <2>1, <2>2 DEF Tree
    <3> QED BY <3>1
  <2>3. CASE n \notin N(i)
    <3>1. PICK t \in Ways(A, back) : t[1] \in N(i) /\ t[2] = n
      BY <2>3, BallBack DEF Near
    <3>2. PICK e \in A : t = <<from(back, e), to(back, e)>> BY DEF Ways
    <3>3. from(back, e) \in s.seen /\ s.depths[from(back, e)] <= i
          /\ s.depths[from(back, e)] \in Nat
      BY <2>1, <3>1, <3>2 DEF Tree
    <3>4. from(back, e) \notin Open(s, back) /\ ~Deep(s, L, from(back, e))
      BY <3>3
    <3>5. e \notin s.pending /\ from(back, e) \notin Range(s.queue) BY <3>4 DEF Open
    <3>6. n \in s.seen /\ s.depths[n] <= s.depths[from(back, e)] + 1
      BY <3>1, <3>2, <3>3, <3>4, <3>5 DEF Closed
    <3> QED BY <3>3, <3>6, s.depths[n] \in Nat DEF Tree
  <2> QED BY <2>2, <2>3
<1> HIDE DEF T
<1>3. Nat \subseteq T BY <1>1, <1>2, Induction
<1>4. k \in T BY <1>3
<1> QED BY <1>4 DEF T

\* What Append does to a queue, and to the nodes in it.
LEMMA AppendSeen ==
    ASSUME NEW q \in Seq(Nodes), NEW x \in Nodes
    PROVE  /\ Append(q, x) \in Seq(Nodes) /\ Len(Append(q, x)) = Len(q) + 1
           /\ \A i \in 1..Len(q) : Append(q, x)[i] = q[i]
           /\ Append(q, x)[Len(q) + 1] = x
           /\ Range(Append(q, x)) = Range(q) \cup {x}
           /\ Append(q, x) # <<>>
<1>1. /\ Append(q, x) \in Seq(Nodes) /\ Len(Append(q, x)) = Len(q) + 1
      /\ \A i \in 1..Len(q) : Append(q, x)[i] = q[i]
      /\ Append(q, x)[Len(q) + 1] = x
  OBVIOUS
<1>2. DOMAIN Append(q, x) = 1..Len(q) + 1 /\ DOMAIN q = 1..Len(q) BY <1>1
<1>3. Range(Append(q, x)) = Range(q) \cup {x} BY <1>1, <1>2 DEF Range
<1>4. QED BY <1>1, <1>3

\* Reaching a new node keeps a search sound and closed.  That its depth is exact needs
\* LevelsSeen: were the node nearer, the search would have reached it.
LEMMA ReachKeeps ==
    ASSUME NEW A \in SUBSET Edges, NEW back \in BOOLEAN, NEW L \in SUBSET Nat,
           NEW s, Sound(s, A, back, L), Closed(s, A, back, L),
           NEW e \in s.pending, to(back, e) \notin s.seen,
           NEW t, t = Reaching(s, back, e)
    PROVE  /\ Sound(t, A, back, L) /\ Closed(t, A, back, L)
           /\ Roots(t) = Roots(s)
<1> USE DEF Reaching
<1> DEFINE x == to(back, e)
           c == from(back, e)
           d == s.depths[c] + 1
<1>1. s \in SearchRecords /\ e \in A /\ e \in Edges /\ x \in Nodes /\ c \in Nodes
      /\ c \in s.seen /\ x \notin s.seen /\ x # c /\ e # NoEdge /\ s.depths[c] \in Nat
      /\ d \in Nat /\ d # 0
  BY EdgeEnds DEF Sound, Ordered, Tree, SearchRecords
<1>2. /\ t.pending = s.pending \ {e} /\ t.seen = s.seen \cup {x}
      /\ t.queue = Append(s.queue, x)
      /\ t.via = [s.via EXCEPT ![x] = e] /\ t.depths = [s.depths EXCEPT ![x] = d]
  BY <1>1 DEF SearchRecords
<1>3. t \in SearchRecords
  <2>1. t.queue \in Seq(Nodes) BY <1>1, <1>2, AppendSeen DEF SearchRecords
  <2>2. t.via \in [Nodes -> Edges \cup {NoEdge}] /\ t.depths \in [Nodes -> Nat \cup {Unreached}]
        /\ t.seen \in SUBSET Nodes /\ t.pending \in SUBSET Edges
    BY <1>1, <1>2 DEF SearchRecords
  <2> QED BY <1>1, <2>1, <2>2 DEF SearchRecords
<1>4. /\ \A n \in Nodes \ {x} : t.depths[n] = s.depths[n] /\ t.via[n] = s.via[n]
      /\ t.depths[x] = d /\ t.via[x] = e
      /\ s.depths[x] = Unreached
      /\ \A n \in s.seen : n # x /\ n \in Nodes
  BY <1>1, <1>2 DEF SearchRecords, Sound, Tree
<1>5. Roots(t) = Roots(s) BY <1>1, <1>4 DEF Roots, Unreached
<1>6. Tree(t, A, back)
  <2>1. \A n \in Nodes \ t.seen : t.depths[n] = Unreached /\ t.via[n] = NoEdge
    BY <1>2, <1>4 DEF Sound, Tree
  <2>2. \A n \in t.seen : t.depths[n] \in Nat /\ (t.depths[n] = 0 <=> t.via[n] = NoEdge)
    BY <1>1, <1>2, <1>4 DEF Sound, Tree
  <2>3. ASSUME NEW n \in t.seen, t.depths[n] # 0
        PROVE  /\ t.via[n] \in A /\ to(back, t.via[n]) = n
               /\ from(back, t.via[n]) \in t.seen
               /\ t.depths[n] = t.depths[from(back, t.via[n])] + 1
    <3>1. CASE n = x BY <1>1, <1>2, <1>4, <3>1
    <3>2. CASE n # x
      <4>1. n \in s.seen /\ t.via[n] = s.via[n] /\ t.depths[n] = s.depths[n]
        BY <1>2, <1>4, <3>2
      <4>2. /\ s.via[n] \in A /\ to(back, s.via[n]) = n
            /\ from(back, s.via[n]) \in s.seen
            /\ s.depths[n] = s.depths[from(back, s.via[n])] + 1
        BY <2>3, <4>1 DEF Sound, Tree
      <4> QED BY <1>2, <1>4, <4>1, <4>2
    <3> QED BY <3>1, <3>2
  <2> QED BY <2>1, <2>2, <2>3 DEF Tree
<1>7. Exact(t, A, back)
  <2>1. \A k : Near(t, A, back, k) = Near(s, A, back, k) BY <1>5 DEF Near
  <2>2. x \in Near(s, A, back, d)
    <3>1. c \in Near(s, A, back, s.depths[c]) BY <1>1 DEF Sound, Exact
    <3>2. <<c, x>> \in Ways(A, back) BY <1>1 DEF Ways
    <3>3. <<c, x>>[1] = c /\ <<c, x>>[2] = x OBVIOUS
    <3>4. s.depths[c] \in Nat /\ d = s.depths[c] + 1 BY <1>1 DEF Sound, Tree
    <3> DEFINE steps == Ways(A, back)
               roots == Roots(s)
               j == s.depths[c]
               t1 == <<c, x>>
    <3>5. t1 \in steps /\ t1[1] = c /\ t1[2] = x /\ j \in Nat /\ c \in Ball(steps, roots, j)
      BY <3>1, <3>2, <3>3, <3>4 DEF Near
    <3> HIDE DEF c, x, d, steps, roots, j, t1
    <3>6. t1[2] \in Ball(steps, roots, j + 1) BY <3>5, BallStep
    <3> QED BY <3>4, <3>5, <3>6 DEF Near, steps, roots, j
  <2>3. ASSUME NEW k \in 0..d - 1 PROVE x \notin Near(s, A, back, k)
    <3>1. \A n \in Open(s, back) : n \in s.seen => s.depths[c] <= s.depths[n]
      <4> SUFFICES ASSUME NEW n \in Open(s, back) PROVE s.depths[c] <= s.depths[n] OBVIOUS
      <4>1. CASE n \in Range(s.queue)
        <5>1. PICK i \in 1..Len(s.queue) : n = s.queue[i]
          <6> DEFINE queue == s.queue
          <6>1. queue \in Seq(Nodes) BY <1>1 DEF SearchRecords
          <6>2. n \in Range(queue) BY <4>1
          <6> HIDE DEF queue
          <6>3. \E i \in 1..Len(queue) : n = queue[i] BY <6>1, <6>2 DEF Range
          <6> QED BY <6>3 DEF queue
        <5> QED BY <5>1 DEF Sound, Ordered
      <4>2. CASE n \notin Range(s.queue)
        <5>1. n = c BY <4>2 DEF Open, Sound, Ordered
        <5> QED BY <1>1, <5>1
      <4> QED BY <4>1, <4>2
    <3>2. \A n \in s.seen : s.depths[n] < s.depths[c] => ~Deep(s, L, n)
      <4>1. ~Deep(s, L, c) BY DEF Sound, Limited
      <4>2. \A n \in s.seen : s.depths[n] \in Nat BY DEF Sound, Tree
      <4> QED BY <1>1, <4>1, <4>2 DEF Deep
    <3>3. k \in 0..s.depths[c] BY <1>1
    <3>4. Near(s, A, back, k) \subseteq { n \in s.seen : s.depths[n] <= k }
      BY <1>1, <3>1, <3>2, <3>3, LevelsSeen DEF Sound
    <3> QED BY <1>1, <3>4
  <2> QED BY <1>2, <1>4, <2>1, <2>2, <2>3 DEF Sound, Exact
<1>8. Ordered(t, A, back)
  <2> DEFINE l == Len(s.queue)
  <2>0. /\ l \in Nat /\ Len(t.queue) = l + 1 /\ t.queue[l + 1] = x
        /\ \A i \in 1..l : t.queue[i] = s.queue[i] /\ s.queue[i] \in s.seen
        /\ Range(t.queue) = Range(s.queue) \cup {x}
        /\ \A i \in 1..l : s.queue[i] \in Range(s.queue)
    <3>1. s.queue \in Seq(Nodes) /\ l \in Nat /\ Range(s.queue) \subseteq s.seen
      BY <1>1 DEF SearchRecords, Sound, Ordered
    <3>2. \A i \in 1..l : s.queue[i] \in Range(s.queue) BY <3>1 DEF Range
    <3>3. /\ Len(t.queue) = l + 1 /\ t.queue[l + 1] = x
          /\ \A i \in 1..l : t.queue[i] = s.queue[i]
          /\ Range(t.queue) = Range(s.queue) \cup {x}
      BY <1>1, <1>2, <3>1, AppendSeen
    <3> QED BY <3>1, <3>2, <3>3
  <2>1. t.pending \subseteq A /\ Range(t.queue) \subseteq t.seen
    BY <1>2, <2>0 DEF Sound, Ordered
  <2>2. \A f \in t.pending : from(back, f) \in t.seen \ Range(t.queue)
    BY <1>1, <1>2, <2>0 DEF Sound, Ordered
  <2>3. \A f, g \in t.pending : from(back, f) = from(back, g)
    BY <1>2 DEF Sound, Ordered
  <2>4. \A i \in 1..l : s.depths[s.queue[i]] <= d
    <3>1. \A i \in 1..l : s.depths[s.queue[i]] <= s.depths[c] + 1
      BY <2>0 DEF Sound, Ordered, Open
    <3> QED BY <3>1
  <2>5. \A i, j \in 1..Len(t.queue) : i < j =>
          t.queue[i] # t.queue[j] /\ t.depths[t.queue[i]] <= t.depths[t.queue[j]]
    <3> SUFFICES ASSUME NEW i \in 1..l + 1, NEW j \in 1..l + 1, i < j
                 PROVE  t.queue[i] # t.queue[j] /\ t.depths[t.queue[i]] <= t.depths[t.queue[j]]
      BY <2>0
    <3>1. i \in 1..l BY <2>0
    <3>2. t.queue[i] = s.queue[i] /\ s.queue[i] \in s.seen /\ s.queue[i] # x
          /\ t.depths[t.queue[i]] = s.depths[s.queue[i]]
      BY <1>1, <1>4, <2>0, <3>1
    <3>3. CASE j = l + 1 BY <1>4, <2>0, <2>4, <3>1, <3>2, <3>3
    <3>4. CASE j # l + 1
      <4>1. j \in 1..l BY <2>0, <3>4
      <4>2. t.queue[j] = s.queue[j] /\ t.depths[t.queue[j]] = s.depths[s.queue[j]]
        BY <1>1, <1>4, <2>0, <4>1
      <4>3. s.queue[i] # s.queue[j] /\ s.depths[s.queue[i]] <= s.depths[s.queue[j]]
        BY <3>1, <4>1 DEF Sound, Ordered
      <4> QED BY <3>2, <4>2, <4>3
    <3> QED BY <3>3, <3>4
  <2>6. \A f \in t.pending, i \in 1..Len(t.queue) :
          t.depths[from(back, f)] <= t.depths[t.queue[i]]
    <3> SUFFICES ASSUME NEW f \in t.pending, NEW i \in 1..l + 1
                 PROVE  t.depths[from(back, f)] <= t.depths[t.queue[i]]
      BY <2>0
    <3>1. from(back, f) = c /\ t.depths[c] = s.depths[c]
      BY <1>1, <1>2, <1>4 DEF Sound, Ordered
    <3>2. CASE i = l + 1 BY <1>1, <1>4, <2>0, <3>1, <3>2
    <3>3. CASE i # l + 1
      <4>1. i \in 1..l BY <2>0, <3>3
      <4>2. s.depths[c] <= s.depths[s.queue[i]] BY <4>1 DEF Sound, Ordered
      <4> QED BY <1>1, <1>4, <2>0, <3>1, <4>1, <4>2
    <3> QED BY <3>2, <3>3
  <2>7. \A n \in t.seen, m \in Open(t, back) : t.depths[n] <= t.depths[m] + 1
    <3> SUFFICES ASSUME NEW n \in t.seen, NEW m \in Open(t, back)
                 PROVE  t.depths[n] <= t.depths[m] + 1
      OBVIOUS
    <3>1. m = x \/ m \in Open(s, back) BY <1>2, <2>0 DEF Open
    <3>2. c \in Open(s, back) BY DEF Open
    <3>3. \A o \in Open(s, back) : o \in s.seen BY DEF Open, Sound, Ordered
    <3>4. \A o \in s.seen : s.depths[o] \in Nat BY DEF Sound, Tree
    <3>5. \A o \in s.seen : s.depths[o] <= d BY <3>2 DEF Sound, Ordered
    <3>6. \A o \in Open(s, back) : s.depths[c] <= s.depths[o]
      <4> SUFFICES ASSUME NEW o \in Open(s, back) PROVE s.depths[c] <= s.depths[o] OBVIOUS
      <4>1. CASE o \in Range(s.queue)
        <5>1. PICK i \in 1..Len(s.queue) : o = s.queue[i]
          BY <1>1, <4>1 DEF Range, SearchRecords
        <5> QED BY <5>1 DEF Sound, Ordered
      <4>2. CASE o \notin Range(s.queue)
        <5>1. o = c BY <4>2 DEF Open, Sound, Ordered
        <5> QED BY <1>1, <5>1
      <4> QED BY <4>1, <4>2
    <3>7. t.depths[n] <= d
      BY <1>1, <1>2, <1>4, <3>5
    <3>8. CASE m = x BY <1>1, <1>2, <1>4, <3>4, <3>7, <3>8
    <3>9. CASE m \in Open(s, back)
      <4>1. m \in s.seen /\ t.depths[m] = s.depths[m] /\ s.depths[m] \in Nat
            /\ s.depths[c] <= s.depths[m]
        BY <1>4, <3>3, <3>4, <3>6, <3>9
      <4>2. t.depths[n] \in Nat BY <1>6 DEF Tree
      <4> QED BY <1>1, <3>7, <4>1, <4>2
    <3> QED BY <3>1, <3>8, <3>9
  <2> QED BY <2>1, <2>2, <2>3, <2>5, <2>6, <2>7 DEF Ordered
<1>9. Limited(t, back, L)
  <2>1. ~Deep(s, L, c) BY DEF Sound, Limited
  <2>2. \A limit \in L : d <= limit BY <1>1, <2>1 DEF Deep
  <2>3. \A n \in t.seen, limit \in L : t.depths[n] <= limit
    BY <1>2, <1>4, <2>2 DEF Sound, Limited
  <2>4. \A f \in t.pending : from(back, f) = c BY <1>2 DEF Sound, Ordered
  <2>5. ~Deep(t, L, c) BY <1>1, <1>4, <2>1 DEF Deep
  <2> QED BY <2>3, <2>4, <2>5 DEF Limited
<1>10. Closed(t, A, back, L)
  <2> SUFFICES ASSUME NEW n \in t.seen \ Range(t.queue), NEW f \in A \ t.pending,
                      from(back, f) = n, ~Deep(t, L, n)
               PROVE  to(back, f) \in t.seen /\ t.depths[to(back, f)] <= t.depths[n] + 1
    BY DEF Closed
  <2>1. Range(t.queue) = Range(s.queue) \cup {x} BY <1>1, <1>2, AppendSeen DEF SearchRecords
  <2>2. n \in s.seen \ Range(s.queue) /\ n # x /\ t.depths[n] = s.depths[n] /\ ~Deep(s, L, n)
    BY <1>2, <1>4, <2>1 DEF Deep
  <2>3. CASE f = e BY <1>1, <1>2, <1>4, <2>2, <2>3
  <2>4. CASE f # e
    <3>1. f \in A \ s.pending BY <1>2, <2>4
    <3>2. to(back, f) \in s.seen /\ s.depths[to(back, f)] <= s.depths[n] + 1
      BY <2>2, <3>1 DEF Closed
    <3> QED BY <1>2, <1>4, <2>2, <3>2
  <2> QED BY <2>3, <2>4
<1> QED BY <1>3, <1>5, <1>6, <1>7, <1>8, <1>9, <1>10 DEF Sound

\* Passing an edge to a node that was reached before keeps a search sound and closed:
\* that node is at most one step further, because of the order of the queue.
LEMMA PassKeeps ==
    ASSUME NEW A \in SUBSET Edges, NEW back \in BOOLEAN, NEW L \in SUBSET Nat,
           NEW s, Sound(s, A, back, L), Closed(s, A, back, L),
           NEW e \in s.pending, to(back, e) \in s.seen,
           NEW t, t = Passing(s, e)
    PROVE  /\ Sound(t, A, back, L) /\ Closed(t, A, back, L)
           /\ Roots(t) = Roots(s)
<1> USE DEF Passing
<1>1. s \in SearchRecords /\ e \in A BY DEF Sound, Ordered
<1>2. /\ t.pending = s.pending \ {e} /\ t.seen = s.seen /\ t.queue = s.queue
      /\ t.via = s.via /\ t.depths = s.depths /\ t \in SearchRecords
  BY <1>1 DEF SearchRecords
<1>3. Roots(t) = Roots(s) /\ \A n : Deep(t, L, n) <=> Deep(s, L, n)
  BY <1>2 DEF Roots, Deep
<1>4. Tree(t, A, back) BY <1>2 DEF Tree, Sound
<1>5. Exact(t, A, back) BY <1>2, <1>3 DEF Exact, Near, Sound
<1>6. Open(t, back) \subseteq Open(s, back) BY <1>2 DEF Open
<1>7. Ordered(t, A, back)
  <2>1. \A n \in t.seen, m \in Open(t, back) : t.depths[n] <= t.depths[m] + 1
    BY <1>2, <1>6 DEF Ordered, Sound
  <2>2. t.pending \subseteq s.pending BY <1>2
  <2>3. \A f \in t.pending : from(back, f) \in t.seen \ Range(t.queue)
    BY <1>2, <2>2 DEF Ordered, Sound
  <2>4. \A f \in t.pending, i \in 1..Len(t.queue) :
          t.depths[from(back, f)] <= t.depths[t.queue[i]]
    BY <1>2, <2>2 DEF Ordered, Sound
  <2>5. \A i, j \in 1..Len(t.queue) : i < j =>
          t.queue[i] # t.queue[j] /\ t.depths[t.queue[i]] <= t.depths[t.queue[j]]
    BY <1>2 DEF Ordered, Sound
  <2>6. /\ t.pending \subseteq A /\ Range(t.queue) \subseteq t.seen
        /\ \A f, g \in t.pending : from(back, f) = from(back, g)
    BY <1>2, <2>2 DEF Ordered, Sound
  <2> QED BY <2>1, <2>3, <2>4, <2>5, <2>6 DEF Ordered
<1>8. Limited(t, back, L) BY <1>2, <1>3 DEF Limited, Sound
<1>9. Closed(t, A, back, L)
  <2> SUFFICES ASSUME NEW n \in t.seen \ Range(t.queue), NEW f \in A \ t.pending,
                      from(back, f) = n, ~Deep(t, L, n)
               PROVE  to(back, f) \in t.seen /\ t.depths[to(back, f)] <= t.depths[n] + 1
    BY DEF Closed
  <2>1. CASE f = e
    <3>1. n \in Open(s, back) BY <2>1 DEF Open
    <3> QED BY <1>2, <2>1, <3>1 DEF Sound, Ordered
  <2>2. CASE f # e BY <1>2, <1>3, <2>2 DEF Closed
  <2> QED BY <2>1, <2>2
<1> QED BY <1>2, <1>3, <1>4, <1>5, <1>7, <1>8, <1>9 DEF Sound

\* What Head and Tail do to a queue, and to the nodes in it.
LEMMA TailSeen ==
    ASSUME NEW q \in Seq(Nodes), q # <<>>
    PROVE  /\ Tail(q) \in Seq(Nodes) /\ Len(Tail(q)) = Len(q) - 1 /\ Len(q) \in Nat \ {0}
           /\ \A i \in 1..Len(q) - 1 : Tail(q)[i] = q[i + 1]
           /\ Head(q) = q[1] /\ Head(q) \in Nodes
           /\ Range(q) = Range(Tail(q)) \cup {Head(q)}
<1>1. /\ Tail(q) \in Seq(Nodes) /\ Len(Tail(q)) = Len(q) - 1 /\ Len(q) \in Nat \ {0}
      /\ \A i \in 1..Len(q) - 1 : Tail(q)[i] = q[i + 1]
      /\ Head(q) = q[1] /\ Head(q) \in Nodes
  OBVIOUS
<1>2. DOMAIN q = 1..Len(q) /\ DOMAIN Tail(q) = 1..Len(q) - 1 BY <1>1
<1>3. Range(q) \subseteq Range(Tail(q)) \cup {Head(q)}
  <2> SUFFICES ASSUME NEW i \in 1..Len(q), q[i] # Head(q)
               PROVE  q[i] \in Range(Tail(q))
    BY <1>2 DEF Range
  <2>1. i - 1 \in 1..Len(q) - 1 /\ Tail(q)[i - 1] = q[i] BY <1>1
  <2> QED BY <1>2, <2>1 DEF Range
<1>4. Range(Tail(q)) \subseteq Range(q)
  <2> SUFFICES ASSUME NEW i \in 1..Len(q) - 1 PROVE Tail(q)[i] \in Range(q)
    BY <1>2 DEF Range
  <2>1. i + 1 \in 1..Len(q) /\ Tail(q)[i] = q[i + 1] BY <1>1
  <2> QED BY <1>2, <2>1 DEF Range
<1>5. Head(q) \in Range(q) BY <1>1, <1>2 DEF Range
<1> QED BY <1>1, <1>3, <1>4, <1>5

\* Taking the next node of the queue keeps a search sound and closed; at the depth
\* bound the node's edges are left aside.
LEMMA ExpandKeeps ==
    ASSUME NEW A \in SUBSET Edges, NEW back \in BOOLEAN, NEW L \in SUBSET Nat,
           NEW s, Sound(s, A, back, L), Closed(s, A, back, L),
           s.pending = {}, s.queue # <<>>,
           NEW t, t = Expanding(s, A, back, L)
    PROVE  /\ Sound(t, A, back, L) /\ Closed(t, A, back, L)
           /\ Roots(t) = Roots(s)
<1> USE DEF Expanding
<1> DEFINE h == Head(s.queue)
           fresh == { e \in A : from(back, e) = h }
           l == Len(s.queue)
<1>1. s \in SearchRecords /\ s.queue \in Seq(Nodes) BY DEF Sound, SearchRecords
<1>2. /\ t.seen = s.seen /\ t.queue = Tail(s.queue)
      /\ t.via = s.via /\ t.depths = s.depths
      /\ t.pending = IF Deep(s, L, h) THEN {} ELSE fresh
  BY <1>1 DEF SearchRecords
<1>3. t \in SearchRecords
  <2>1. Tail(s.queue) \in Seq(Nodes) BY <1>1, TailSeen
  <2> QED BY <1>1, <2>1 DEF SearchRecords
<1>4. /\ l \in Nat \ {0} /\ Len(t.queue) = l - 1
      /\ \A i \in 1..l - 1 : t.queue[i] = s.queue[i + 1]
      /\ h = s.queue[1] /\ Range(s.queue) = Range(t.queue) \cup {h}
  BY <1>1, <1>2, TailSeen
<1>5. Roots(t) = Roots(s) /\ \A n : Deep(t, L, n) <=> Deep(s, L, n)
  BY <1>2 DEF Roots, Deep
<1>6. Tree(t, A, back) BY <1>2 DEF Tree, Sound
<1>7. Exact(t, A, back) BY <1>2, <1>5 DEF Exact, Near, Sound
<1>8. h \in s.seen /\ h \notin Range(t.queue)
  <2>1. h \in s.seen BY <1>4 DEF Sound, Ordered
  <2>2. ASSUME NEW i \in 1..l - 1 PROVE t.queue[i] # h
    <3>1. 1 \in 1..l /\ i + 1 \in 1..l /\ 1 < i + 1 BY <1>4
    <3>2. s.queue[1] # s.queue[i + 1] BY <3>1 DEF Sound, Ordered
    <3> QED BY <1>4, <3>2
  <2>3. DOMAIN t.queue = 1..l - 1
    <3>1. t.queue \in Seq(Nodes) BY <1>3 DEF SearchRecords
    <3> QED BY <1>4, <3>1
  <2> QED BY <2>1, <2>2, <2>3 DEF Range
<1>9. \A e \in t.pending : e \in A /\ from(back, e) = h /\ ~Deep(s, L, h) BY <1>2
<1>10. Open(t, back) \subseteq Open(s, back)
  BY <1>4, <1>9 DEF Open
<1>11. Ordered(t, A, back)
  <2>1. /\ t.pending \subseteq A /\ Range(t.queue) \subseteq t.seen
        /\ \A e \in t.pending : from(back, e) \in t.seen \ Range(t.queue)
        /\ \A e, f \in t.pending : from(back, e) = from(back, f)
    BY <1>2, <1>4, <1>8, <1>9 DEF Sound, Ordered
  <2>2. ASSUME NEW i \in 1..Len(t.queue), NEW j \in 1..Len(t.queue), i < j
        PROVE  t.queue[i] # t.queue[j] /\ t.depths[t.queue[i]] <= t.depths[t.queue[j]]
    <3>1. i + 1 \in 1..l /\ j + 1 \in 1..l /\ i + 1 < j + 1
          /\ t.queue[i] = s.queue[i + 1] /\ t.queue[j] = s.queue[j + 1]
      BY <1>4, <2>2
    <3>2. s.queue[i + 1] # s.queue[j + 1]
          /\ s.depths[s.queue[i + 1]] <= s.depths[s.queue[j + 1]]
      BY <3>1 DEF Sound, Ordered
    <3> QED BY <1>2, <3>1, <3>2
  <2>3. ASSUME NEW e \in t.pending, NEW i \in 1..Len(t.queue)
        PROVE  t.depths[from(back, e)] <= t.depths[t.queue[i]]
    <3>1. 1 \in 1..l /\ i + 1 \in 1..l /\ 1 < i + 1 /\ t.queue[i] = s.queue[i + 1]
      BY <1>4
    <3>2. s.depths[s.queue[1]] <= s.depths[s.queue[i + 1]]
      BY <3>1 DEF Sound, Ordered
    <3> QED BY <1>2, <1>4, <1>9, <3>1, <3>2
  <2>4. \A n \in t.seen, m \in Open(t, back) : t.depths[n] <= t.depths[m] + 1
    BY <1>2, <1>10 DEF Sound, Ordered
  <2> QED BY <2>1, <2>2, <2>3, <2>4 DEF Ordered
<1>12. Limited(t, back, L) BY <1>2, <1>5, <1>9 DEF Limited, Sound
<1>13. Closed(t, A, back, L)
  <2> SUFFICES ASSUME NEW n \in t.seen \ Range(t.queue), NEW f \in A \ t.pending,
                      from(back, f) = n, ~Deep(t, L, n)
               PROVE  to(back, f) \in t.seen /\ t.depths[to(back, f)] <= t.depths[n] + 1
    BY DEF Closed
  <2>1. n # h
    <3> SUFFICES ASSUME n = h PROVE FALSE OBVIOUS
    <3>1. ~Deep(s, L, h) /\ f \in fresh BY <1>5
    <3>2. f \in t.pending BY <1>2, <3>1
    <3> QED BY <3>2
  <2>2. n \in s.seen \ Range(s.queue) /\ f \in A \ s.pending /\ ~Deep(s, L, n)
    BY <1>2, <1>4, <1>5, <2>1
  <2> QED BY <1>2, <2>2 DEF Closed
<1> QED BY <1>3, <1>5, <1>6, <1>7, <1>11, <1>12, <1>13 DEF Sound

\* A search that a limit stops stays sound, and is over.
LEMMA StopKeeps ==
    ASSUME NEW A \in SUBSET Edges, NEW back \in BOOLEAN, NEW L \in SUBSET Nat,
           NEW s, Sound(s, A, back, L),
           NEW t, t = Stopped(s)
    PROVE  /\ Sound(t, A, back, L) /\ ~Going(t)
           /\ t.seen = s.seen /\ t.via = s.via /\ t.depths = s.depths
           /\ Roots(t) = Roots(s)
<1> USE DEF Stopped
<1>1. s \in SearchRecords /\ <<>> \in Seq(Nodes) BY DEF Sound
<1>2. /\ t.seen = s.seen /\ t.queue = <<>> /\ t.pending = {}
      /\ t.via = s.via /\ t.depths = s.depths /\ t \in SearchRecords
  BY <1>1 DEF SearchRecords
<1>3. Roots(t) = Roots(s) BY <1>2 DEF Roots
<1>4. Tree(t, A, back) BY <1>2 DEF Tree, Sound
<1>5. Exact(t, A, back) BY <1>2, <1>3 DEF Exact, Near, Sound
<1>6. Range(t.queue) = {} /\ Len(t.queue) = 0 BY <1>2 DEF Range
<1>7. Ordered(t, A, back) BY <1>2, <1>6 DEF Ordered, Open
<1>8. Limited(t, back, L) BY <1>2 DEF Limited, Sound
<1> QED BY <1>2, <1>3, <1>4, <1>5, <1>7, <1>8 DEF Sound, Going

\* A search that begins at distinct nodes is sound and closed, whatever it may follow.
LEMMA RootedSound ==
    ASSUME NEW A \in SUBSET Edges, NEW back \in BOOLEAN, NEW L \in SUBSET Nat,
           NEW starts \in SUBSET Nodes, NEW order \in Seq(Nodes),
           Range(order) = starts,
           \A i, j \in 1..Len(order) : i < j => order[i] # order[j],
           NEW s, s = Rooted(starts, order)
    PROVE  /\ Sound(s, A, back, L) /\ Closed(s, A, back, L)
           /\ Roots(s) = starts
<1>1. /\ s.seen = starts /\ s.queue = order /\ s.pending = {}
      /\ s.via = [n \in Nodes |-> NoEdge]
      /\ s.depths = [n \in Nodes |-> IF n \in starts THEN 0 ELSE Unreached]
  BY DEF Rooted
<1>2. s \in SearchRecords
  BY DEF SearchRecords, Rooted
<1>3. \A n \in Nodes : s.via[n] = NoEdge
                       /\ s.depths[n] = IF n \in starts THEN 0 ELSE Unreached
  BY <1>1
<1>4. Roots(s) = starts BY <1>3 DEF Roots, Unreached
<1>5. Tree(s, A, back) BY <1>1, <1>3 DEF Tree
<1>6. Exact(s, A, back)
  <2>1. Near(s, A, back, 0) = starts BY <1>4, BallZero DEF Near
  <2>2. \A n \in s.seen : s.depths[n] = 0 BY <1>1, <1>3
  <2> QED BY <1>1, <2>1, <2>2 DEF Exact
<1>7. Ordered(s, A, back)
  <2>1. Open(s, back) = starts BY <1>1 DEF Open
  <2>2. \A i \in 1..Len(order) : order[i] \in starts BY DEF Range
  <2>3. \A n \in starts : s.depths[n] = 0 BY <1>3
  <2> QED BY <1>1, <2>1, <2>2, <2>3 DEF Ordered
<1>8. Limited(s, back, L) BY <1>1, <1>3 DEF Limited
<1>9. Closed(s, A, back, L) BY <1>1 DEF Closed
<1> QED BY <1>2, <1>4, <1>5, <1>6, <1>7, <1>8, <1>9 DEF Sound

\* A closed search that is over has reached every node within k steps, for any k
\* within the depth bound.
LEMMA CompleteSeesAll ==
    ASSUME NEW A \in SUBSET Edges, NEW back \in BOOLEAN, NEW L \in SUBSET Nat,
           NEW s, Sound(s, A, back, L), Closed(s, A, back, L), ~Going(s),
           NEW k \in Nat, \A limit \in L : k <= limit
    PROVE  Near(s, A, back, k) \subseteq { n \in s.seen : s.depths[n] <= k }
<1>1. Open(s, back) = {} BY DEF Open, Going, Range
<1>2. \A n \in s.seen : s.depths[n] < k => ~Deep(s, L, n)
  <2>1. \A n \in s.seen : s.depths[n] \in Nat BY DEF Sound, Tree
  <2> QED BY <2>1 DEF Deep
<1> QED BY <1>1, <1>2, LevelsSeen DEF Sound

-----------------------------------------------------------------------------
\* There are finitely many nodes.
LEMMA NodesFinite == Cardinality(Nodes) \in Nat /\ IsFiniteSet(Nodes)
BY QueryAssumption, FS_CardinalityType

\* Steps lead from nodes to nodes.
LEMMA WaysInside ==
    ASSUME NEW A \in SUBSET Edges, NEW back \in BOOLEAN
    PROVE  \A t \in Ways(A, back) : t[1] \in Nodes /\ t[2] \in Nodes
BY EdgeEnds DEF Ways

\* Whatever is reachable is reachable in fewer steps than there are nodes.
LEMMA NearBounded ==
    ASSUME NEW A \in SUBSET Edges, NEW back \in BOOLEAN,
           NEW starts \in SUBSET Nodes, NEW k \in Nat, NEW n \in Ball(Ways(A, back), starts, k)
    PROVE  /\ Cardinality(Nodes) - 1 \in Nat
           /\ n \in Ball(Ways(A, back), starts, Cardinality(Nodes) - 1)
<1>1. n \in Nodes BY WaysInside, BallInside
<1>2. Nodes # {} /\ Cardinality(Nodes) - 1 \in Nat
  BY <1>1, NodesFinite, FS_EmptySet
<1> QED BY <1>2, NodesFinite, WaysInside, BallSaturates

\* Hence the depths of a search stay below the number of nodes.
LEMMA DepthBounded ==
    ASSUME NEW A \in SUBSET Edges, NEW back \in BOOLEAN, NEW L,
           NEW s, Sound(s, A, back, L), NEW n \in s.seen
    PROVE  s.depths[n] \in Nat /\ s.depths[n] <= Cardinality(Nodes) - 1
<1> DEFINE c == Cardinality(Nodes) - 1
<1>1. s.depths[n] \in Nat BY DEF Sound, Tree
<1>2. Roots(s) \in SUBSET Nodes BY DEF Roots
<1>3. c \in Nat /\ n \in Ball(Ways(A, back), Roots(s), c)
  BY <1>1, <1>2, NearBounded DEF Sound, Exact, Near
<1>4. c \notin 0..s.depths[n] - 1 BY <1>3 DEF Sound, Exact, Near
<1> QED BY <1>1, <1>3, <1>4

\* A walk and an edge from its end make a walk that is one edge longer.
LEMMA WalkAppend ==
    ASSUME NEW A, NEW p \in Seq(A), NEW r, NEW m, Walk(p, r, m),
           NEW e \in A, Source(e) = m
    PROVE  /\ Append(p, e) \in Seq(A) /\ Len(Append(p, e)) = Len(p) + 1
           /\ Walk(Append(p, e), r, Target(e))
<1> DEFINE q == Append(p, e)
           l == Len(p)
<1>1. /\ q \in Seq(A) /\ Len(q) = l + 1 /\ l \in Nat
      /\ \A i \in 1..l : q[i] = p[i]
      /\ q[l + 1] = e /\ q # <<>> /\ (p = <<>> <=> l = 0)
  OBVIOUS
<1> HIDE DEF q
<1>2. \A i \in 1..Len(q) - 1 : Target(q[i]) = Source(q[i + 1])
  <2> SUFFICES ASSUME NEW i \in 1..l PROVE Target(q[i]) = Source(q[i + 1])
    BY <1>1
  <2>1. CASE i = l
    <3>1. q[i] = p[l] /\ q[i + 1] = e /\ p # <<>> BY <1>1, <2>1
    <3>2. Target(p[l]) = m BY <3>1 DEF Walk
    <3> QED BY <3>1, <3>2
  <2>2. CASE i # l
    <3>1. i \in 1..l - 1 /\ q[i] = p[i] /\ q[i + 1] = p[i + 1] BY <1>1, <2>2
    <3> QED BY <3>1 DEF Walk
  <2> QED BY <2>1, <2>2
<1>3. Source(q[1]) = r /\ Target(q[Len(q)]) = Target(e)
  <2>1. CASE p = <<>> BY <1>1, <2>1 DEF Walk
  <2>2. CASE p # <<>>
    <3>1. q[1] = p[1] BY <1>1, <2>2
    <3> QED BY <1>1, <2>2, <3>1 DEF Walk
  <2> QED BY <2>1, <2>2
<1>4. Walk(q, r, Target(e)) BY <1>1, <1>2, <1>3 DEF Walk
<1> QED BY <1>1, <1>4 DEF q

\* An edge and a walk from its end make a walk that is one edge longer.
LEMMA WalkPrepend ==
    ASSUME NEW A, NEW p \in Seq(A), NEW r, NEW m, Walk(p, m, r),
           NEW e \in A, Target(e) = m
    PROVE  /\ <<e>> \o p \in Seq(A) /\ Len(<<e>> \o p) = Len(p) + 1
           /\ Walk(<<e>> \o p, Source(e), r)
<1> DEFINE q == <<e>> \o p
           l == Len(p)
<1>1. /\ q \in Seq(A) /\ Len(q) = l + 1 /\ l \in Nat
      /\ \A i \in 1..l : q[i + 1] = p[i]
      /\ q[1] = e /\ q # <<>> /\ (p = <<>> <=> l = 0)
  OBVIOUS
<1> HIDE DEF q
<1>2. \A i \in 1..Len(q) - 1 : Target(q[i]) = Source(q[i + 1])
  <2> SUFFICES ASSUME NEW i \in 1..l PROVE Target(q[i]) = Source(q[i + 1])
    BY <1>1
  <2>1. CASE i = 1
    <3>1. q[i] = e /\ q[i + 1] = p[1] /\ p # <<>> BY <1>1, <2>1
    <3>2. Source(p[1]) = m BY <3>1 DEF Walk
    <3> QED BY <3>1, <3>2
  <2>2. CASE i # 1
    <3>1. i - 1 \in 1..l - 1 /\ q[(i - 1) + 1] = p[i - 1] /\ q[i + 1] = p[i]
          /\ (i - 1) + 1 = i
      BY <1>1, <2>2
    <3>2. Target(p[i - 1]) = Source(p[(i - 1) + 1]) BY <3>1 DEF Walk
    <3> QED BY <3>1, <3>2
  <2> QED BY <2>1, <2>2
<1>3. Source(q[1]) = Source(e) /\ Target(q[Len(q)]) = r
  <2>1. CASE p = <<>> BY <1>1, <2>1 DEF Walk
  <2>2. CASE p # <<>>
    <3>1. q[Len(q)] = p[l] BY <1>1, <2>2
    <3> QED BY <1>1, <2>2, <3>1 DEF Walk
  <2> QED BY <2>1, <2>2
<1>4. Walk(q, Source(e), r) BY <1>1, <1>2, <1>3 DEF Walk
<1> QED BY <1>1, <1>4 DEF q

\* The path rebuilt from the parents of a forward search is a walk from a root to the
\* node, over edges of the adjacency, and as long as the node is deep.
LEMMA PathToWalks ==
    ASSUME adjacency \in SUBSET Edges, NEW L, Sound(search, adjacency, FALSE, L),
           NEW n \in search.seen
    PROVE  /\ PathTo(n) \in Seq(adjacency) /\ Len(PathTo(n)) = search.depths[n]
           /\ \E r \in Roots(search) : Walk(PathTo(n), r, n)
<1> DEFINE via == search.via
           depths == search.depths
           rhs(p, m) == IF via[m] = NoEdge THEN <<>> ELSE Append(p[Source(via[m])], via[m])
           upTo(p, d) == /\ p = [m \in Nodes |-> p[m]]
                         /\ \A m \in Nodes : depths[m] <= d => p[m] = rhs(p, m)
           E == { d \in Nat : \E p : upTo(p, d) }
<1>1. /\ \A m \in Nodes : depths[m] \in Nat \cup {Unreached}
      /\ \A m \in search.seen : depths[m] \in Nat /\ m \in Nodes
      /\ \A m \in Nodes : via[m] = NoEdge <=> depths[m] \in {0, Unreached}
      /\ \A m \in Nodes : depths[m] = 0 => m \in Roots(search)
      /\ \A m \in Nodes : via[m] # NoEdge =>
            /\ via[m] \in adjacency /\ Target(via[m]) = m
            /\ Source(via[m]) \in search.seen
            /\ depths[m] = depths[Source(via[m])] + 1
  BY DEF Sound, SearchRecords, Tree, from, to, Roots, Unreached
<1>2. 0 \in E
  <2> DEFINE p == [m \in Nodes |-> <<>>]
  <2>1. \A m \in Nodes : depths[m] <= 0 => p[m] = rhs(p, m) BY <1>1
  <2>2. p = [m \in Nodes |-> p[m]] OBVIOUS
  <2> HIDE DEF p
  <2> QED BY <2>1, <2>2
<1>3. ASSUME NEW d \in Nat, d \in E PROVE d + 1 \in E
  <2>1. PICK p : \A m \in Nodes : depths[m] <= d => p[m] = rhs(p, m) BY <1>3
  <2> DEFINE q == [m \in Nodes |-> rhs(p, m)]
  <2>2. ASSUME NEW m \in Nodes, depths[m] <= d + 1 PROVE q[m] = rhs(q, m)
    <3>1. CASE via[m] = NoEdge BY <3>1
    <3>2. CASE via[m] # NoEdge
      <4>1. Source(via[m]) \in Nodes /\ depths[Source(via[m])] <= d BY <1>1, <2>2, <3>2
      <4>2. q[Source(via[m])] = p[Source(via[m])] BY <2>1, <4>1
      <4> QED BY <3>2, <4>2
    <3> QED BY <3>1, <3>2
  <2>3. q = [m \in Nodes |-> q[m]] OBVIOUS
  <2>4. \A m \in Nodes : depths[m] <= d + 1 => q[m] = rhs(q, m) BY <2>2
  <2> HIDE DEF q
  <2>5. upTo(q, d + 1) BY <2>3, <2>4
  <2> HIDE DEF upTo
  <2> QED BY <2>5
<1>4. Nat \subseteq E
  <2> HIDE DEF E
  <2> QED BY <1>2, <1>3, Induction
<1>5. \E p : p = [m \in Nodes |-> rhs(p, m)]
  <2>1. Cardinality(Nodes) \in E BY <1>4, NodesFinite
  <2>2. PICK p : p = [m \in Nodes |-> p[m]] 
                 /\ \A m \in Nodes : depths[m] <= Cardinality(Nodes) => p[m] = rhs(p, m)
    BY <2>1
  <2>3. \A m \in Nodes : depths[m] <= Cardinality(Nodes)
    <3> TAKE m \in Nodes
    <3>1. CASE m \in search.seen
      <4>1. depths[m] \in Nat /\ depths[m] <= Cardinality(Nodes) - 1
        BY <3>1, DepthBounded
      <4> QED BY <4>1, NodesFinite
    <3>2. CASE m \notin search.seen
      <4>1. depths[m] = -1 BY <3>2 DEF Sound, Tree, Unreached
      <4> QED BY <4>1, NodesFinite
    <3> QED BY <3>1, <3>2
  <2>4. p = [m \in Nodes |-> rhs(p, m)] BY <2>2, <2>3
  <2> QED BY <2>4
<1> DEFINE q == CHOOSE p : p = [m \in Nodes |-> rhs(p, m)]
<1>6. q = [m \in Nodes |-> rhs(q, m)] BY <1>5
<1>7. \A m \in Nodes : PathTo(m) = q[m] BY DEF PathTo
<1> HIDE DEF q
<1> DEFINE good(m) == /\ q[m] \in Seq(adjacency) /\ Len(q[m]) = depths[m]
                      /\ \E r \in Roots(search) : Walk(q[m], r, m)
           T == { d \in Nat : \A m \in search.seen : depths[m] <= d => good(m) }
<1>8. ASSUME NEW m \in Nodes, depths[m] = 0 PROVE good(m)
  <2>1. q[m] = <<>> BY <1>1, <1>6, <1>8
  <2>2. Walk(<<>>, m, m) BY DEF Walk
  <2> QED BY <1>1, <1>8, <2>1, <2>2
<1>9. 0 \in T BY <1>1, <1>8
<1>10. ASSUME NEW d \in Nat, d \in T PROVE d + 1 \in T
  <2> SUFFICES ASSUME NEW m \in search.seen, depths[m] <= d + 1 PROVE good(m) OBVIOUS
  <2>1. CASE depths[m] = 0 BY <1>1, <1>8, <2>1
  <2>2. CASE depths[m] # 0
    <3> DEFINE e == via[m]
               u == Source(e)
    <3>0. m \in Nodes /\ depths[m] \in Nat /\ via[m] # NoEdge
      BY <1>1, <2>2 DEF Unreached
    <3>1. via[m] # NoEdge /\ e \in adjacency /\ Target(e) = m /\ u \in search.seen
          /\ u \in Nodes /\ depths[u] \in Nat /\ depths[m] = depths[u] + 1 /\ depths[u] <= d
      BY <1>1, <3>0
    <3>2. good(u) BY <1>10, <3>1
    <3>3. q[m] = Append(q[u], e) BY <1>1, <1>6, <3>1
    <3>4. PICK r \in Roots(search) : Walk(q[u], r, u) BY <3>2
    <3>5. /\ Append(q[u], e) \in Seq(adjacency) /\ Len(Append(q[u], e)) = Len(q[u]) + 1
          /\ Walk(Append(q[u], e), r, m)
      BY <3>1, <3>2, <3>4, WalkAppend
    <3> QED BY <3>1, <3>2, <3>3, <3>5
  <2> QED BY <2>1, <2>2
<1>11. Nat \subseteq T
  <2> HIDE DEF T
  <2> QED BY <1>9, <1>10, Induction
<1>12. depths[n] \in T /\ n \in Nodes BY <1>1, <1>11
<1>13. good(n) BY <1>12, <1>1
<1> QED BY <1>7, <1>12, <1>13

\* The path rebuilt from the parents of a reverse search is a walk from the node to a
\* root, as long as the node is deep, and it never leaves what the search has reached:
\* the attribution, which looks at no other node, finds the same root.
LEMMA PathFromWalks ==
    ASSUME adjacency \in SUBSET Edges, NEW L, Sound(search, adjacency, TRUE, L),
           NEW n \in search.seen
    PROVE  /\ PathFrom(n) \in Seq(adjacency) /\ Len(PathFrom(n)) = search.depths[n]
           /\ \E r \in Roots(search) :
                  /\ Walk(PathFrom(n), n, r)
                  /\ n \in Ball(StepsBack(Within(adjacency, search.seen)), {r}, search.depths[n])
<1> DEFINE via == search.via
           depths == search.depths
           rhs(p, m) == IF via[m] = NoEdge THEN <<>> ELSE <<via[m]>> \o p[Target(via[m])]
           upTo(p, d) == /\ p = [m \in Nodes |-> p[m]]
                         /\ \A m \in Nodes : depths[m] <= d => p[m] = rhs(p, m)
           E == { d \in Nat : \E p : upTo(p, d) }
<1>1. /\ \A m \in Nodes : depths[m] \in Nat \cup {Unreached}
      /\ \A m \in search.seen : depths[m] \in Nat /\ m \in Nodes
      /\ \A m \in Nodes : via[m] = NoEdge <=> depths[m] \in {0, Unreached}
      /\ \A m \in Nodes : depths[m] = 0 => m \in Roots(search)
      /\ \A m \in Nodes : via[m] # NoEdge =>
            /\ via[m] \in adjacency /\ Source(via[m]) = m
            /\ Target(via[m]) \in search.seen
            /\ depths[m] = depths[Target(via[m])] + 1
  BY DEF Sound, SearchRecords, Tree, from, to, Roots, Unreached
<1>2. 0 \in E
  <2> DEFINE p == [m \in Nodes |-> <<>>]
  <2>1. \A m \in Nodes : depths[m] <= 0 => p[m] = rhs(p, m) BY <1>1
  <2>2. p = [m \in Nodes |-> p[m]] OBVIOUS
  <2> HIDE DEF p
  <2> QED BY <2>1, <2>2
<1>3. ASSUME NEW d \in Nat, d \in E PROVE d + 1 \in E
  <2>1. PICK p : \A m \in Nodes : depths[m] <= d => p[m] = rhs(p, m) BY <1>3
  <2> DEFINE q == [m \in Nodes |-> rhs(p, m)]
  <2>2. ASSUME NEW m \in Nodes, depths[m] <= d + 1 PROVE q[m] = rhs(q, m)
    <3>1. CASE via[m] = NoEdge BY <3>1
    <3>2. CASE via[m] # NoEdge
      <4>1. Target(via[m]) \in Nodes /\ depths[Target(via[m])] <= d BY <1>1, <2>2, <3>2
      <4>2. q[Target(via[m])] = p[Target(via[m])] BY <2>1, <4>1
      <4> QED BY <3>2, <4>2
    <3> QED BY <3>1, <3>2
  <2>3. q = [m \in Nodes |-> q[m]] OBVIOUS
  <2>4. \A m \in Nodes : depths[m] <= d + 1 => q[m] = rhs(q, m) BY <2>2
  <2> HIDE DEF q
  <2>5. upTo(q, d + 1) BY <2>3, <2>4
  <2> HIDE DEF upTo
  <2> QED BY <2>5
<1>4. Nat \subseteq E
  <2> HIDE DEF E
  <2> QED BY <1>2, <1>3, Induction
<1>5. \E p : p = [m \in Nodes |-> rhs(p, m)]
  <2>1. Cardinality(Nodes) \in E BY <1>4, NodesFinite
  <2>2. PICK p : p = [m \in Nodes |-> p[m]] 
                 /\ \A m \in Nodes : depths[m] <= Cardinality(Nodes) => p[m] = rhs(p, m)
    BY <2>1
  <2>3. \A m \in Nodes : depths[m] <= Cardinality(Nodes)
    <3> TAKE m \in Nodes
    <3>1. CASE m \in search.seen
      <4>1. depths[m] \in Nat /\ depths[m] <= Cardinality(Nodes) - 1
        BY <3>1, DepthBounded
      <4> QED BY <4>1, NodesFinite
    <3>2. CASE m \notin search.seen
      <4>1. depths[m] = -1 BY <3>2 DEF Sound, Tree, Unreached
      <4> QED BY <4>1, NodesFinite
    <3> QED BY <3>1, <3>2
  <2>4. p = [m \in Nodes |-> rhs(p, m)] BY <2>2, <2>3
  <2> QED BY <2>4
<1> DEFINE q == CHOOSE p : p = [m \in Nodes |-> rhs(p, m)]
<1>6. q = [m \in Nodes |-> rhs(q, m)] BY <1>5
<1>7. \A m \in Nodes : PathFrom(m) = q[m] BY DEF PathFrom
<1> HIDE DEF q
<1> DEFINE inner == StepsBack(Within(adjacency, search.seen))
<1> HIDE DEF inner
<1> DEFINE leads(m, r) == Walk(q[m], m, r) /\ m \in Ball(inner, {r}, depths[m])
           good(m) == /\ q[m] \in Seq(adjacency) /\ Len(q[m]) = depths[m]
                      /\ \E r \in Roots(search) : leads(m, r)
           T == { d \in Nat : \A m \in search.seen : depths[m] <= d => good(m) }
<1>8. ASSUME NEW m \in Nodes, depths[m] = 0 PROVE good(m)
  <2>1. q[m] = <<>> BY <1>1, <1>6, <1>8
  <2>2. Walk(<<>>, m, m) BY DEF Walk
  <2>3. m \in Ball(inner, {m}, depths[m]) BY <1>8, BallZero
  <2>4. leads(m, m) BY <2>1, <2>2, <2>3
  <2> HIDE DEF leads
  <2> QED BY <1>1, <1>8, <2>1, <2>4
<1> HIDE DEF leads, good
<1>9. 0 \in T BY <1>1, <1>8
<1>10. ASSUME NEW d \in Nat, d \in T PROVE d + 1 \in T
  <2> SUFFICES ASSUME NEW m \in search.seen, depths[m] <= d + 1 PROVE good(m) OBVIOUS
  <2>1. CASE depths[m] = 0
    <3>1. m \in Nodes BY <1>1
    <3> QED BY <1>8, <2>1, <3>1
  <2>2. CASE depths[m] # 0
    <3> DEFINE e == via[m]
               u == Target(e)
    <3>0. m \in Nodes /\ depths[m] \in Nat /\ via[m] # NoEdge
      BY <1>1, <2>2 DEF Unreached
    <3>1. via[m] # NoEdge /\ e \in adjacency /\ Source(e) = m /\ u \in search.seen
          /\ u \in Nodes /\ depths[u] \in Nat /\ depths[m] = depths[u] + 1 /\ depths[u] <= d
      BY <1>1, <3>0
    <3>2. good(u) BY <1>10, <3>1
    <3> USE DEF good
    <3>3. q[m] = <<e>> \o q[u] BY <1>1, <1>6, <3>1
    <3>4. PICK r \in Roots(search) : Walk(q[u], u, r) /\ u \in Ball(inner, {r}, depths[u])
      BY <3>2 DEF leads
    <3>5. /\ <<e>> \o q[u] \in Seq(adjacency) /\ Len(<<e>> \o q[u]) = Len(q[u]) + 1
          /\ Walk(<<e>> \o q[u], m, r)
      BY <3>1, <3>2, <3>4, WalkPrepend
    <3>6. <<u, m>> \in inner BY <3>1 DEF inner, StepsBack, Within
    <3>7. m \in Ball(inner, {r}, depths[u] + 1)
      BY <3>1, <3>4, <3>6, BallStep
    <3>8. leads(m, r) BY <3>1, <3>3, <3>5, <3>7 DEF leads
    <3> QED BY <3>1, <3>2, <3>3, <3>5, <3>8
  <2> QED BY <2>1, <2>2
<1>11. Nat \subseteq T
  <2> HIDE DEF T
  <2> QED BY <1>9, <1>10, Induction
<1>12. depths[n] \in T /\ n \in Nodes BY <1>1, <1>11
<1>13. good(n) BY <1>12, <1>1
<1> QED BY <1>7, <1>12, <1>13 DEF inner, good, leads

-----------------------------------------------------------------------------
\* The values that the budget, the answer and the pages of a client can have.
Budgets == [edges : SUBSET Edges, nodes : SUBSET Nodes, traversed : Nat,
            limits : SUBSET {"adjacency", "traversal", "edges", "nodes"}]
Answers == [found : BOOLEAN, path : Seq(Edges), cycles : SUBSET Seq(Edges),
            components : SUBSET SUBSET Nodes, paths : [Nodes -> SUBSET Paths]]
ClientPages == [items : Seq(Edges), offset : Nat, received : Seq(Edges),
                state : {"none", "more", "complete", "partial"}]

\* The types of the variables.
QueryTyped ==
    /\ graph \in Graphs /\ query \in Queries
    /\ pc \in Searches \cup {"start", "next_cycle", "pages", "done", "failed"}
    /\ adjacency \in SUBSET Edges /\ search \in SearchRecords
    /\ budget \in Budgets /\ answer \in Answers /\ pages \in ClientPages

\* Each search belongs to the kinds of query that run it, and only a search that has
\* found something says so.
KindsMatch ==
    /\ pc \in {"traverse", "pages"} => query.kind = "traverse"
    /\ pc = "why" => query.kind = "why"
    /\ pc = "forward" => query.kind = "impact"
    /\ pc = "reverse" => query.kind \in {"impact", "changes"}
    /\ pc \in {"next_cycle", "cycles"} => query.kind = "cycles"
    /\ pc = "done" => query.kind # "traverse"
    /\ pc \in {"start", "why", "forward"} => ~answer.found

\* The edges that pass the filters of the query; the depth bound as a number; the
\* edges of a node; those of the nodes that a traversal has finished or is at.
Relevant == Matching(graph)
MaxDepth == Min({Everywhere} \cup query.depth)
Leaving(A, n) == { e \in A : from(query.reverse, e) = n }
Followed(A) ==
    { e \in A : from(query.reverse, e) \in search.seen \ Range(search.queue) }

\* A traversal: it follows edges of the query only, and all of them unless it says
\* otherwise; the edges it has selected are wanted, counted once each, and are those it
\* has passed.  Once it is over, every wanted edge has been selected or a limit was
\* really too small.
TraverseInv ==
    pc = "traverse" =>
        /\ adjacency \subseteq Relevant
        /\ budget.limits \subseteq {"adjacency", "traversal"}
        /\ IF "adjacency" \in budget.limits THEN Cardinality(graph) > MaxInspected
                                            ELSE adjacency = Relevant
        /\ "traversal" \in budget.limits =>
              ~Going(search) /\ Cardinality(Wanted) > query.maxTraversal
        /\ budget.traversed = Cardinality(budget.edges)
        /\ budget.edges \subseteq Wanted
        /\ search.pending \subseteq Wanted \ budget.edges
        /\ query.transitive =>
              /\ Sound(search, adjacency, query.reverse, {})
              /\ Roots(search) = {query.root}
              /\ "traversal" \notin budget.limits =>
                    /\ Closed(search, adjacency, query.reverse, {})
                    /\ budget.edges = Followed(adjacency) \ search.pending
        /\ ~query.transitive =>
              /\ search.pending \subseteq Leaving(adjacency, query.root)
              /\ search.queue # <<>> =>
                    /\ search.queue = <<query.root>>
                    /\ search.pending = {} /\ budget.edges = {}
              /\ search.queue = <<>> /\ "traversal" \notin budget.limits =>
                    budget.edges = Leaving(adjacency, query.root) \ search.pending

\* The pages: the items are the selected edges without repetition, and the client
\* has received exactly those before the offset.
PagesInv ==
    pc = "pages" =>
        /\ budget.edges \subseteq Wanted
        /\ IF budget.limits = {} THEN budget.edges = Wanted
           ELSE \/ Cardinality(Wanted) > query.maxTraversal
                \/ Cardinality(graph) > MaxInspected
        /\ Range(pages.items) = budget.edges
        /\ \A i, j \in 1..Len(pages.items) : i # j => pages.items[i] # pages.items[j]
        /\ pages.offset \in 0..Len(pages.items)
        /\ pages.received = SubSeq(pages.items, 1, pages.offset)
        /\ pages.state = "complete" => pages.offset = Len(pages.items) /\ budget.limits = {}
        /\ pages.state = "partial" => budget.limits # {}

\* Why: the search is a sound one from the source over all edges of the query, and
\* has not reached the target before it stops.
WhyInv ==
    pc = "why" =>
        /\ adjacency = Relevant /\ query.root # query.to
        /\ Sound(search, adjacency, FALSE, {}) /\ Roots(search) = {query.root}
        /\ Going(search) => query.to \notin search.seen
        /\ Going(search) \/ query.to \notin search.seen => Closed(search, adjacency, FALSE, {})

\* The changed nodes that an impact's root depends on.
Reachable == query.changed \cap Closure(Steps(Relevant), {query.root})

\* The forward search of an impact: until it finds a changed node it has met none,
\* and the one it stops at is its last.
ForwardInv ==
    pc = "forward" =>
        LET met == query.changed \cap search.seen
        IN  /\ adjacency = Relevant /\ query.root \notin query.changed
            /\ Sound(search, adjacency, FALSE, {}) /\ Roots(search) = {query.root}
            /\ Going(search) \/ met # {} => budget.limits = {}
            /\ Going(search) => met = {}
            /\ met = {} /\ budget.limits = {} => Closed(search, adjacency, FALSE, {})
            /\ \A n \in met, m \in query.changed : \A k \in 0..search.depths[n] - 1 :
                  m \notin Near(search, adjacency, FALSE, k)

\* What the forward search has found: a shortest walk to a changed node.
ImpactFound ==
    /\ Reachable # {}
    /\ \E n \in Reachable : Walk(answer.path, query.root, n)
    /\ Len(answer.path) =
          Min({ Distance(Steps(Relevant), {query.root}, n) : n \in Reachable })

\* The nodes within the depth of the origins, and the edges that lead back from them.
Affected == Ball(StepsBack(Relevant), Origins, MaxDepth)
FollowedBack ==
    { e \in Relevant :
        MaxDepth > 0 /\ Target(e) \in Ball(StepsBack(Relevant), Origins, MaxDepth - 1) }

\* The reverse search of an impact or of a change set: its roots are the origins,
\* except that a change set with too many of them keeps the first ones and reaches
\* nothing else; and a limit that stopped a change set really was too small.
ReverseInv ==
    pc = "reverse" =>
        /\ adjacency = Relevant /\ answer.found
        /\ Sound(search, adjacency, TRUE, query.depth)
        /\ Going(search) \/ budget.limits = {} =>
              Closed(search, adjacency, TRUE, query.depth)
        /\ query.kind = "impact" => Roots(search) = {query.root} /\ ImpactFound
        /\ query.kind = "changes" =>
              /\ Roots(search) \subseteq Origins
              /\ Roots(search) # Origins =>
                    /\ budget.limits # {} /\ search.seen = Roots(search)
                    /\ Cardinality(budget.nodes) >= query.maxNodes
              /\ budget.nodes = search.seen
              /\ budget.edges \subseteq FollowedBack
              /\ budget.limits # {} => \/ Cardinality(Affected) > query.maxNodes
                                       \/ Cardinality(FollowedBack) > query.maxEdges

\* The components with a cycle, and the cycles that may be reported for one.
Loops == { c \in Components(LevelEdges, query.allowed) : Within(LevelEdges, c) # {} }
CycleOf(c, path) ==
    /\ \A i \in 1..Len(path) : path[i] \in Within(LevelEdges, c)
    /\ path # <<>> /\ Walk(path, Min(c), Min(c))
    /\ Len(path) = CycleLength(Within(LevelEdges, c), Min(c))

\* The cycles: the components that are finished have exactly one reported cycle each,
\* a shortest one, and the search of the component at hand has not passed an edge back
\* to its start.
CyclesInv ==
    pc \in {"next_cycle", "cycles"} =>
        /\ answer.components \subseteq Loops
        /\ \A path \in answer.cycles :
              \E c \in Loops \ answer.components : CycleOf(c, path)
        /\ \A c \in Loops \ answer.components : \E path \in answer.cycles : CycleOf(c, path)
        /\ \A c \in Loops, p, q \in answer.cycles : CycleOf(c, p) /\ CycleOf(c, q) => p = q
        /\ pc = "cycles" =>
              LET start == CycleStart(NextComponent)
              IN  /\ answer.components # {}
                  /\ adjacency = Within(LevelEdges, NextComponent)
                  /\ Sound(search, adjacency, FALSE, {}) /\ Roots(search) = {start}
                  /\ Closed(search, adjacency, FALSE, {})
                  /\ \A e \in adjacency \ search.pending :
                        Source(e) \in search.seen \ Range(search.queue) => Target(e) # start

\* The inductive invariant of the queries.
SearchInv ==
    /\ QueryTyped /\ KindsMatch
    /\ TraverseInv /\ PagesInv /\ WhyInv /\ ForwardInv /\ ReverseInv /\ CyclesInv
    /\ PathsShortest /\ ImpactExact /\ AttributionExact

-----------------------------------------------------------------------------
\* The minimum of a set of naturals that is not empty is its least element.
LEMMA MinIs ==
    ASSUME NEW S \in SUBSET Nat, S # {}
    PROVE  Min(S) \in S /\ \A k \in S : Min(S) <= k
BY LeastNatural DEF Min

\* An element below all the others is the minimum.
LEMMA MinWitness ==
    ASSUME NEW S \in SUBSET Nat, NEW m \in S, \A k \in S : m <= k
    PROVE  Min(S) = m
<1>1. Min(S) \in S /\ Min(S) <= m BY MinIs
<1>2. Min(S) \in Nat /\ m \in Nat /\ m <= Min(S) BY <1>1
<1> QED BY <1>1, <1>2

\* A set of nodes is finite, and no larger than all of them.
LEMMA SubsetsFinite ==
    ASSUME NEW S \in SUBSET Nodes
    PROVE  IsFiniteSet(S) /\ Cardinality(S) \in Nat /\ Cardinality(S) <= Cardinality(Nodes)
BY NodesFinite, FS_Subset, FS_CardinalityType

\* The edges of the snapshot, and those of the query, are edges.
LEMMA GraphTyped ==
    ASSUME graph \in Graphs PROVE graph \subseteq Edges /\ Relevant \subseteq Edges
<1>1. graph \subseteq Nodes \X Nodes \X Profiles BY QueryAssumption
<1>2. graph \subseteq Edges BY <1>1 DEF Edges
<1> QED BY <1>2 DEF Relevant, Matching

\* An edge is made of its source, its target and its profile.
LEMMA EdgeShape ==
    ASSUME NEW e \in Edges
    PROVE  /\ Source(e) \in Nodes /\ Target(e) \in Nodes /\ Profile(e) \in Nat
           /\ e = <<Source(e), Target(e), Profile(e)>>
           /\ Source(e) \in Nat /\ Target(e) \in Nat
<1>1. PICK n \in Nodes, m \in Nodes, p \in Profiles \cup {0} : e = <<n, m, p>> BY DEF Edges
<1>2. Source(e) = n /\ Target(e) = m /\ Profile(e) = p BY <1>1 DEF Source, Target, Profile
<1>3. n \in Nat /\ m \in Nat /\ p \in Nat BY QueryAssumption
<1> QED BY <1>1, <1>2, <1>3

\* The edge at hand is one of the pending ones: they are finitely many, and the order
\* of the adjacency map has a first among them.
LEMMA EdgeChosen ==
    ASSUME search.pending \subseteq Edges, search.pending # {}
    PROVE  Edge \in search.pending
<1> DEFINE P == search.pending
           B == { Beyond(e) : e \in P }
<1>1. \A e \in P : Beyond(e) \in Nat /\ Profile(e) \in Nat
  BY EdgeShape DEF Beyond
<1>2. B \in SUBSET Nat /\ B # {} BY <1>1
<1>3. PICK b \in B : \A k \in B : b <= k BY <1>2, LeastNatural
<1> DEFINE F == { Profile(e) : e \in { f \in P : Beyond(f) = b } }
<1>4. F \in SUBSET Nat /\ F # {} BY <1>1, <1>3
<1>5. PICK p \in F : \A k \in F : p <= k BY <1>4, LeastNatural
<1>6. PICK e \in P : Beyond(e) = b /\ Profile(e) = p BY <1>5
<1>7. \A f \in P : Before(e, f)
  <2> SUFFICES ASSUME NEW f \in P PROVE Before(e, f) OBVIOUS
  <2>1. b <= Beyond(f) BY <1>3
  <2>2. Beyond(f) = b => p <= Profile(f) BY <1>5
  <2> QED BY <1>1, <1>6, <2>1, <2>2 DEF Before
<1> QED BY <1>7 DEF Edge

\* Going forward takes the steps of the edges, and backward the steps back.
LEMMA WaysSteps ==
    ASSUME NEW A
    PROVE  Ways(A, FALSE) = Steps(A) /\ Ways(A, TRUE) = StepsBack(A)
BY DEF Ways, Steps, StepsBack, from, to

\* A node that d steps reach and no fewer is at distance d.
LEMMA DistanceIs ==
    ASSUME NEW A \in SUBSET Edges, NEW back \in BOOLEAN, NEW starts \in SUBSET Nodes,
           NEW d \in Nat, NEW n \in Ball(Ways(A, back), starts, d),
           \A k \in 0..d - 1 : n \notin Ball(Ways(A, back), starts, k)
    PROVE  /\ Distance(Ways(A, back), starts, n) = d
           /\ d <= Everywhere - 1 /\ n \in Closure(Ways(A, back), starts)
<1> DEFINE c == Cardinality(Nodes) - 1
           S == { k \in 0..Everywhere : n \in Ball(Ways(A, back), starts, k) }
<1>1. c \in Nat /\ n \in Ball(Ways(A, back), starts, c) BY NearBounded
<1>2. d <= c BY <1>1
<1>3. d \in S /\ S \subseteq Nat BY <1>1, <1>2, NodesFinite DEF Everywhere
<1>4. \A k \in S : d <= k BY <1>3
<1>5. Min(S) = d BY <1>3, <1>4, MinWitness
<1>6. n \in Ball(Ways(A, back), starts, Everywhere)
  BY <1>1, NodesFinite, BallGrows DEF Everywhere
<1> QED BY <1>1, <1>2, <1>5, <1>6 DEF Distance, Closure, Everywhere

\* A node that can be reached is reached in as many steps as its distance.
LEMMA DistanceLeast ==
    ASSUME NEW A \in SUBSET Edges, NEW back \in BOOLEAN, NEW starts \in SUBSET Nodes,
           NEW n \in Closure(Ways(A, back), starts)
    PROVE  /\ Distance(Ways(A, back), starts, n) \in Nat
           /\ n \in Ball(Ways(A, back), starts, Distance(Ways(A, back), starts, n))
<1> DEFINE S == { k \in 0..Everywhere : n \in Ball(Ways(A, back), starts, k) }
<1>1. Everywhere \in S /\ S \in SUBSET Nat BY NodesFinite DEF Everywhere, Closure
<1>2. Min(S) \in S BY <1>1, MinIs
<1> QED BY <1>1, <1>2 DEF Distance

\* The closure holds every ball.
LEMMA ClosureHolds ==
    ASSUME NEW A \in SUBSET Edges, NEW back \in BOOLEAN, NEW starts \in SUBSET Nodes,
           NEW k \in Nat
    PROVE  Ball(Ways(A, back), starts, k) \subseteq Closure(Ways(A, back), starts)
<1> SUFFICES ASSUME NEW n \in Ball(Ways(A, back), starts, k)
             PROVE  n \in Closure(Ways(A, back), starts)
  OBVIOUS
<1>1. Cardinality(Nodes) - 1 \in Nat /\ n \in Ball(Ways(A, back), starts, Cardinality(Nodes) - 1)
  BY NearBounded
<1> QED BY <1>1, NodesFinite, BallGrows DEF Closure, Everywhere

\* The depth that a sound search gives a node is its distance from the roots.
LEMMA SeenDistance ==
    ASSUME NEW A \in SUBSET Edges, NEW back \in BOOLEAN, NEW L, NEW s, Sound(s, A, back, L),
           NEW n \in s.seen
    PROVE  /\ s.depths[n] \in Nat
           /\ Distance(Ways(A, back), Roots(s), n) = s.depths[n]
           /\ n \in Closure(Ways(A, back), Roots(s))
<1>1. s.depths[n] \in Nat BY DEF Sound, Tree
<1>2. Roots(s) \in SUBSET Nodes BY DEF Roots
<1> QED BY <1>1, <1>2, DistanceIs DEF Sound, Exact, Near

\* The same for a forward search.
LEMMA SeenForward ==
    ASSUME NEW A \in SUBSET Edges, NEW L, NEW s, Sound(s, A, FALSE, L), NEW n \in s.seen
    PROVE  /\ s.depths[n] \in Nat
           /\ Distance(Steps(A), Roots(s), n) = s.depths[n]
           /\ n \in Closure(Steps(A), Roots(s))
<1>1. FALSE \in BOOLEAN OBVIOUS
<1>2. /\ s.depths[n] \in Nat
      /\ Distance(Ways(A, FALSE), Roots(s), n) = s.depths[n]
      /\ n \in Closure(Ways(A, FALSE), Roots(s))
  BY <1>1, SeenDistance, Zenon
<1>3. Ways(A, FALSE) = Steps(A) BY WaysSteps
<1> QED BY <1>2, <1>3

\* The same for a reverse search.
LEMMA SeenBackward ==
    ASSUME NEW A \in SUBSET Edges, NEW L, NEW s, Sound(s, A, TRUE, L), NEW n \in s.seen
    PROVE  /\ s.depths[n] \in Nat
           /\ Distance(StepsBack(A), Roots(s), n) = s.depths[n]
           /\ n \in Closure(StepsBack(A), Roots(s))
<1>1. TRUE \in BOOLEAN OBVIOUS
<1>2. /\ s.depths[n] \in Nat
      /\ Distance(Ways(A, TRUE), Roots(s), n) = s.depths[n]
      /\ n \in Closure(Ways(A, TRUE), Roots(s))
  BY <1>1, SeenDistance, Zenon
<1>3. Ways(A, TRUE) = StepsBack(A) BY WaysSteps
<1> QED BY <1>2, <1>3

\* What each kind of request holds.
LEMMA Queried ==
    ASSUME query \in Queries
    PROVE  /\ query.kind \in {"traverse", "why", "impact", "changes", "cycles"}
           /\ query.kind = "traverse" => /\ query.root \in Nodes
                                         /\ query.transitive \in BOOLEAN
                                         /\ query.reverse \in BOOLEAN
                                         /\ query.maxTraversal \in Nat
           /\ query.kind = "why" => query.root \in Nodes /\ query.to \in Nodes
           /\ query.kind = "impact" => query.root \in Nodes /\ query.changed \in SUBSET Nodes
           /\ query.kind = "changes" => query.mapped \in [Paths -> SUBSET Nodes]
           /\ query.kind \in {"impact", "changes"} =>
                 query.depth \in Depths /\ query.maxNodes \in Nat /\ query.maxEdges \in Nat
           /\ query.kind = "cycles" => query.allowed \in SUBSET Nodes
BY QueryAssumption DEF TraverseRequests, WhyRequests, ImpactRequests, ChangesRequests,
                       CyclesRequests

\* The depth bound of a request, as a set of at most one number and as a number.
LEMMA DepthLimit ==
    ASSUME query.depth \in Depths
    PROVE  /\ query.depth \in SUBSET Nat /\ MaxDepth \in Nat /\ MaxDepth <= Everywhere
           /\ \A limit \in query.depth : MaxDepth <= limit
           /\ MaxDepth = Everywhere \/ MaxDepth \in query.depth
<1>1. Everywhere \in Nat BY NodesFinite DEF Everywhere
<1>2. query.depth \subseteq 0..Everywhere BY DEF Depths, Everywhere
<1>3. {Everywhere} \cup query.depth \in SUBSET Nat BY <1>1, <1>2
<1>4. /\ MaxDepth \in {Everywhere} \cup query.depth
      /\ \A k \in {Everywhere} \cup query.depth : MaxDepth <= k
  BY <1>3, MinIs DEF MaxDepth
<1> QED BY <1>1, <1>2, <1>3, <1>4

-----------------------------------------------------------------------------
\* A sequence over a set is one over any larger set.
LEMMA LongerSeq ==
    ASSUME NEW A, NEW B, A \subseteq B, NEW p \in Seq(A) PROVE p \in Seq(B)
OBVIOUS

\* The direction of the search at hand, and its depth bound.
LEMMA Facing ==
    ASSUME Backward \in BOOLEAN
    PROVE  /\ \A e : From(e) = from(Backward, e) /\ Beyond(e) = to(Backward, e)
           /\ \A n : AtDepth(n) <=> Deep(search, IF pc = "reverse" THEN query.depth ELSE {}, n)
<1>1. \A e : From(e) = from(Backward, e) /\ Beyond(e) = to(Backward, e)
  BY DEF From, Beyond, from, to
<1>2. \A n : AtDepth(n) <=> Deep(search, IF pc = "reverse" THEN query.depth ELSE {}, n)
  BY DEF AtDepth, Deep
<1> QED BY <1>1, <1>2

\* PassKeeps for the step of the search at hand.
LEMMA PassedKeeps ==
    ASSUME adjacency \in SUBSET Edges, Backward \in BOOLEAN, NEW L \in SUBSET Nat,
           Sound(search, adjacency, Backward, L), Closed(search, adjacency, Backward, L),
           NEW e \in search.pending, Beyond(e) \in search.seen
    PROVE  /\ Sound(Passed(e), adjacency, Backward, L)
           /\ Closed(Passed(e), adjacency, Backward, L)
           /\ Roots(Passed(e)) = Roots(search) /\ Passed(e).seen = search.seen
           /\ Passed(e).queue = search.queue /\ Passed(e).pending = search.pending \ {e}
           /\ Passed(e).depths = search.depths /\ Passed(e).via = search.via
<1>1. to(Backward, e) \in search.seen BY Facing
<1>2. search \in SearchRecords BY DEF Sound
<1>3. /\ Passed(e).seen = search.seen /\ Passed(e).queue = search.queue
      /\ Passed(e).pending = search.pending \ {e}
      /\ Passed(e).depths = search.depths /\ Passed(e).via = search.via
  BY <1>2 DEF Passed, SearchRecords
<1>4. Passed(e) = Passing(search, e) BY DEF Passed, Passing
<1> QED BY <1>1, <1>3, <1>4, PassKeeps

\* ReachKeeps for the step of the search at hand.
LEMMA ReachedKeeps ==
    ASSUME adjacency \in SUBSET Edges, Backward \in BOOLEAN, NEW L \in SUBSET Nat,
           Sound(search, adjacency, Backward, L), Closed(search, adjacency, Backward, L),
           NEW e \in search.pending, Beyond(e) \notin search.seen
    PROVE  /\ Sound(Reached(e), adjacency, Backward, L)
           /\ Closed(Reached(e), adjacency, Backward, L)
           /\ Roots(Reached(e)) = Roots(search)
           /\ Reached(e).seen = search.seen \cup {Beyond(e)}
           /\ Reached(e).pending = search.pending \ {e}
           /\ Reached(e).queue = Append(search.queue, Beyond(e))
           /\ Reached(e).depths[Beyond(e)] = search.depths[From(e)] + 1
           /\ \A n \in search.seen : Reached(e).depths[n] = search.depths[n]
<1>1. /\ Beyond(e) = to(Backward, e) /\ From(e) = from(Backward, e)
      /\ to(Backward, e) \notin search.seen
  BY Facing
<1>2. search \in SearchRecords /\ e \in Edges BY DEF Sound, Ordered
<1>3. Beyond(e) \in Nodes BY <1>1, <1>2, EdgeEnds
<1>4. Reached(e) = Reaching(search, Backward, e)
  BY <1>1, <1>2 DEF Reaching, Reached, Noted, Passed, SearchRecords
<1> HIDE DEF Reached
<1>5. /\ Reached(e).seen = search.seen \cup {Beyond(e)}
      /\ Reached(e).pending = search.pending \ {e}
      /\ Reached(e).queue = Append(search.queue, Beyond(e))
      /\ Reached(e).depths[Beyond(e)] = search.depths[From(e)] + 1
      /\ \A n \in search.seen : Reached(e).depths[n] = search.depths[n]
  BY <1>1, <1>2, <1>3, <1>4 DEF Reaching, SearchRecords
<1>6. /\ Sound(Reached(e), adjacency, Backward, L)
      /\ Closed(Reached(e), adjacency, Backward, L)
      /\ Roots(Reached(e)) = Roots(search)
  BY <1>1, <1>4, ReachKeeps
<1> QED BY <1>5, <1>6

\* StopKeeps for the stop of any search.
LEMMA StoppedKeeps ==
    ASSUME NEW A \in SUBSET Edges, NEW back \in BOOLEAN, NEW L \in SUBSET Nat,
           NEW s, Sound(s, A, back, L)
    PROVE  /\ Sound(Stopped(s), A, back, L) /\ ~Going(Stopped(s))
           /\ Stopped(s).seen = s.seen /\ Stopped(s).depths = s.depths
           /\ Roots(Stopped(s)) = Roots(s)
BY StopKeeps

\* StopKeeps for the stop of the search at hand.
LEMMA HaltedKeeps ==
    ASSUME adjacency \in SUBSET Edges, Backward \in BOOLEAN, NEW L \in SUBSET Nat,
           Sound(search, adjacency, Backward, L)
    PROVE  /\ Sound(Stopped(search), adjacency, Backward, L) /\ ~Going(Stopped(search))
           /\ Stopped(search).seen = search.seen
           /\ Roots(Stopped(search)) = Roots(search)
BY StoppedKeeps

\* ExpandKeeps for the action Expand.
LEMMA ExpandedKeeps ==
    ASSUME adjacency \in SUBSET Edges, Backward \in BOOLEAN, Expand, NEW L \in SUBSET Nat,
           L = (IF pc = "reverse" THEN query.depth ELSE {}),
           Sound(search, adjacency, Backward, L), Closed(search, adjacency, Backward, L)
    PROVE  /\ Sound(search', adjacency, Backward, L)
           /\ Closed(search', adjacency, Backward, L)
           /\ Roots(search') = Roots(search) /\ search'.seen = search.seen
           /\ search'.queue = Tail(search.queue) /\ search'.depths = search.depths
           /\ \A n \in Nodes : ~Deep(search, L, n) /\ n = Head(search.queue) =>
                 search'.pending = { e \in adjacency : from(Backward, e) = n }
<1>1. \A e : From(e) = from(Backward, e) BY Facing
<1>2. \A n : AtDepth(n) <=> Deep(search, L, n) BY Facing
<1>3. search.pending = {} /\ search.queue # <<>>
      /\ search' = [search EXCEPT
                      !.queue = Tail(@),
                      !.pending = IF AtDepth(Head(search.queue)) THEN {}
                                  ELSE { e \in adjacency : From(e) = Head(search.queue) }]
  BY DEF Expand
<1>4. search' = Expanding(search, adjacency, Backward, L)
  BY <1>1, <1>2, <1>3 DEF Expanding
<1>5. search \in SearchRecords BY DEF Sound
<1>6. /\ search'.seen = search.seen
      /\ search'.queue = Tail(search.queue) /\ search'.depths = search.depths
      /\ \A n \in Nodes : ~Deep(search, L, n) /\ n = Head(search.queue) =>
            search'.pending = { e \in adjacency : from(Backward, e) = n }
  BY <1>4, <1>5 DEF Expanding, SearchRecords
<1>7. /\ Sound(search', adjacency, Backward, L)
      /\ Closed(search', adjacency, Backward, L)
      /\ Roots(search') = Roots(search)
  BY <1>3, <1>4, ExpandKeeps
<1> QED BY <1>6, <1>7

-----------------------------------------------------------------------------
\* A search from one node begins sound and closed.
LEMMA SingletonRooted ==
    ASSUME NEW n \in Nodes
    PROVE  \A A \in SUBSET Edges, back \in BOOLEAN, L \in SUBSET Nat :
              /\ Sound(Rooted({n}, <<n>>), A, back, L) /\ Closed(Rooted({n}, <<n>>), A, back, L)
              /\ Roots(Rooted({n}, <<n>>)) = {n} /\ Rooted({n}, <<n>>).seen = {n}
              /\ Rooted({n}, <<n>>).queue = <<n>> /\ Rooted({n}, <<n>>).pending = {}
              /\ Rooted({n}, <<n>>) \in SearchRecords
<1>1. /\ <<n>> \in Seq(Nodes) /\ Range(<<n>>) = {n} /\ Len(<<n>>) = 1
      /\ \A i, j \in 1..Len(<<n>>) : i < j => <<n>>[i] # <<n>>[j]
  BY DEF Range
<1>2. /\ Rooted({n}, <<n>>).seen = {n}
      /\ Rooted({n}, <<n>>).queue = <<n>> /\ Rooted({n}, <<n>>).pending = {}
  BY DEF Rooted
<1>3. \A A \in SUBSET Edges, back \in BOOLEAN, L \in SUBSET Nat :
              /\ Sound(Rooted({n}, <<n>>), A, back, L) /\ Closed(Rooted({n}, <<n>>), A, back, L)
              /\ Roots(Rooted({n}, <<n>>)) = {n}
  <2> TAKE A \in SUBSET Edges, back \in BOOLEAN, L \in SUBSET Nat
  <2> QED BY <1>1, RootedSound
<1>4. Rooted({n}, <<n>>) \in SearchRecords BY <1>3 DEF Sound
<1> QED BY <1>2, <1>3, <1>4

\* The initial records have their types.
LEMMA NothingTyped ==
    /\ NothingSearched \in SearchRecords /\ NothingSpent \in Budgets
    /\ NoAnswer \in Answers /\ NoPages \in ClientPages
<1>1. <<>> \in Seq(Nodes) /\ <<>> \in Seq(Edges) OBVIOUS
<1>2. NothingSearched \in SearchRecords
  BY <1>1 DEF NothingSearched, SearchRecords, Rooted
<1>3. NothingSpent \in Budgets BY DEF NothingSpent, Budgets
<1>4. NoAnswer \in Answers BY <1>1 DEF NoAnswer, Answers
<1>5. NoPages \in ClientPages BY <1>1 DEF NoPages, ClientPages
<1> QED BY <1>2, <1>3, <1>4, <1>5

\* The distance of a node from the root of an impact.
Straight(n) == Distance(Steps(Relevant), {query.root}, n)

\* The root is at distance zero of itself.
LEMMA StraightToRoot ==
    ASSUME graph \in Graphs, query.root \in Nodes
    PROVE  /\ Straight(query.root) = 0
           /\ query.root \in Closure(Steps(Relevant), {query.root})
<1>1. Relevant \in SUBSET Edges BY GraphTyped
<1> DEFINE s == Rooted({query.root}, <<query.root>>)
<1>2. Sound(s, Relevant, FALSE, {}) /\ Roots(s) = {query.root} /\ s.seen = {query.root}
  BY <1>1, SingletonRooted
<1>3. s.depths[query.root] = 0 BY DEF Rooted
<1>4. query.root \in s.seen BY <1>2
<1> HIDE DEF s
<1>5. /\ Distance(Steps(Relevant), Roots(s), query.root) = s.depths[query.root]
      /\ query.root \in Closure(Steps(Relevant), Roots(s))
  <2>1. Sound(s, Relevant, FALSE, {}) BY <1>2
  <2> QED BY <1>1, <1>4, <2>1, SeenForward, Zenon
<1> QED BY <1>2, <1>3, <1>5 DEF Straight

\* Starting why keeps the invariant.
LEMMA StartWhyKeeps ==
    ASSUME SearchInv, StartWhy PROVE SearchInv'
<1>1. /\ pc = "start" /\ query.kind = "why" /\ UNCHANGED <<graph, query, budget, pages>>
      /\ query.root \in Nodes /\ query.to \in Nodes /\ graph \in Graphs
      /\ query \in Queries
  BY Queried DEF StartWhy, SearchInv, QueryTyped
<1>2. graph \subseteq Edges /\ Relevant \in SUBSET Edges BY <1>1, GraphTyped
<1>3. Relevant' = Relevant BY <1>1 DEF Relevant, Matching, matches
<1>4. pc' \in {"done", "why", "failed"}
  BY DEF StartWhy
<1>5. TraverseInv' /\ PagesInv' /\ ForwardInv' /\ ReverseInv' /\ CyclesInv'
  BY <1>4 DEF TraverseInv, PagesInv, ForwardInv, ReverseInv, CyclesInv
<1>6. ImpactExact' /\ AttributionExact'
  BY <1>1 DEF ImpactExact, AttributionExact
<1>7. CASE query.root = query.to
  <2>1. pc' = "done" /\ answer' = [NoAnswer EXCEPT !.found = TRUE]
        /\ UNCHANGED <<adjacency, search>>
    BY <1>7 DEF StartWhy
  <2>2. answer' \in Answers /\ answer'.found = TRUE /\ answer'.path = <<>>
    BY <2>1, NothingTyped DEF NoAnswer, Answers
  <2>3. QueryTyped'
    BY <1>1, <2>1, <2>2 DEF SearchInv, QueryTyped
  <2>4. KindsMatch' BY <1>1, <2>1 DEF KindsMatch
  <2>5. WhyInv' BY <2>1 DEF WhyInv
  <2>6. PathsShortest'
    <3>4. Distance(Steps(Relevant), {query.root}, query.to) = 0
          /\ query.to \in Closure(Steps(Relevant), {query.root})
      BY <1>1, <1>7, StraightToRoot DEF Straight
    <3>5. Walk(<<>>, query.root, query.to) /\ Len(<<>>) = 0 BY <1>7 DEF Walk
    <3> QED BY <1>1, <1>3, <2>2, <3>4, <3>5 DEF PathsShortest, Relevant
  <2> QED BY <1>5, <1>6, <2>3, <2>4, <2>5, <2>6 DEF SearchInv
<1>8. CASE query.root # query.to
  <2>1. /\ pc' \in {"why", "failed"} /\ adjacency' = Relevant /\ UNCHANGED answer
        /\ search' = Rooted({query.root}, <<query.root>>)
    BY <1>8 DEF StartWhy, Relevant
  <2>3. QueryTyped'
    <3>1. search' \in SearchRecords BY <1>1, <2>1, SingletonRooted
    <3> QED BY <1>1, <1>2, <2>1, <3>1 DEF SearchInv, QueryTyped, Searches
  <2>4. KindsMatch' BY <1>1, <2>1 DEF KindsMatch, SearchInv
  <2>5. WhyInv'
    BY <1>1, <1>2, <1>3, <1>8, <2>1, SingletonRooted DEF WhyInv
  <2>6. PathsShortest' BY <2>1 DEF PathsShortest
  <2> QED BY <1>5, <1>6, <2>3, <2>4, <2>5, <2>6 DEF SearchInv
<1> QED BY <1>7, <1>8

\* An edge of why keeps the invariant.
LEMMA VisitWhyKeeps ==
    ASSUME SearchInv, VisitWhy PROVE SearchInv'
<1>1. /\ pc = "why" /\ pc' = "why" /\ search.pending # {}
      /\ UNCHANGED <<graph, query, adjacency, budget, answer, pages>>
  BY DEF VisitWhy, Visiting
<1>2. query \in Queries /\ graph \in Graphs /\ query.kind = "why" /\ ~answer.found
  BY <1>1 DEF SearchInv, QueryTyped, KindsMatch
<1>3. /\ adjacency = Relevant /\ query.root # query.to
      /\ Sound(search, adjacency, FALSE, {}) /\ Roots(search) = {query.root}
      /\ query.to \notin search.seen /\ Closed(search, adjacency, FALSE, {})
  BY <1>1 DEF SearchInv, WhyInv, Going
<1>4. Relevant' = Relevant BY <1>1 DEF Relevant, Matching, matches
<1>5. adjacency \in SUBSET Edges /\ search.pending \subseteq Edges
  BY <1>2, <1>3, GraphTyped DEF Sound, SearchRecords
<1>6. /\ Backward \in BOOLEAN /\ {} \in SUBSET Nat
      /\ Sound(search, adjacency, Backward, {}) /\ Closed(search, adjacency, Backward, {})
      /\ Backward = FALSE
  BY <1>1, <1>2, <1>3 DEF Backward
<1>7. Edge \in search.pending BY <1>1, <1>5, EdgeChosen
<1>8. TraverseInv' /\ PagesInv' /\ ForwardInv' /\ ReverseInv' /\ CyclesInv'
      /\ ImpactExact' /\ AttributionExact' /\ PathsShortest'
  BY <1>1 DEF TraverseInv, PagesInv, ForwardInv, ReverseInv, CyclesInv,
              ImpactExact, AttributionExact, PathsShortest
<1>9. KindsMatch' BY <1>1, <1>2 DEF KindsMatch
<1> SUFFICES search' \in SearchRecords /\ WhyInv'
  BY <1>1, <1>8, <1>9 DEF SearchInv, QueryTyped
<1>10. CASE Beyond(Edge) \in search.seen
  <2> DEFINE s == Passed(Edge)
  <2>1. search' = s BY <1>10 DEF VisitWhy
  <2>2. /\ Sound(s, adjacency, FALSE, {}) /\ Closed(s, adjacency, FALSE, {})
        /\ Roots(s) = Roots(search) /\ s.seen = search.seen
    BY <1>5, <1>6, <1>7, <1>10, PassedKeeps
  <2> HIDE DEF s
  <2> QED BY <1>1, <1>3, <1>4, <2>1, <2>2 DEF WhyInv, Sound
<1>11. CASE Beyond(Edge) \notin search.seen
  <2> DEFINE s == Reached(Edge)
  <2>1. /\ Sound(s, adjacency, FALSE, {}) /\ Closed(s, adjacency, FALSE, {})
        /\ Roots(s) = Roots(search) /\ s.seen = search.seen \cup {Beyond(Edge)}
    BY <1>5, <1>6, <1>7, <1>11, ReachedKeeps
  <2> HIDE DEF s
  <2>2. CASE Beyond(Edge) = query.to
    <3>1. search' = Stopped(s) BY <1>11, <2>2 DEF VisitWhy, s
    <3>2. /\ Sound(Stopped(s), adjacency, FALSE, {}) /\ ~Going(Stopped(s))
          /\ Stopped(s).seen = s.seen /\ Roots(Stopped(s)) = Roots(s)
      BY <1>5, <2>1, StoppedKeeps
    <3> QED BY <1>1, <1>3, <1>4, <2>1, <2>2, <3>1, <3>2 DEF WhyInv, Sound
  <2>3. CASE Beyond(Edge) # query.to
    <3>1. search' = s BY <1>11, <2>3 DEF VisitWhy, s
    <3> QED BY <1>1, <1>3, <1>4, <2>1, <2>3, <3>1 DEF WhyInv, Sound
  <2> QED BY <2>2, <2>3
<1> QED BY <1>10, <1>11

\* The end of why keeps the invariant: the path is a shortest one, and without a path
\* the target cannot be reached.
LEMMA EndWhyKeeps ==
    ASSUME SearchInv, EndWhy PROVE SearchInv'
<1>1. /\ pc = "why" /\ ~Going(search) /\ pc' \in {"done", "failed"}
      /\ UNCHANGED <<graph, query, adjacency, search, budget, pages>>
  BY DEF EndWhy, Ended, Going
<1>2. query \in Queries /\ graph \in Graphs /\ query.kind = "why" /\ ~answer.found
      /\ query.root \in Nodes /\ query.to \in Nodes
  BY <1>1, Queried DEF SearchInv, QueryTyped, KindsMatch
<1>3. /\ adjacency = Relevant /\ query.root # query.to
      /\ Sound(search, adjacency, FALSE, {}) /\ Roots(search) = {query.root}
      /\ query.to \notin search.seen => Closed(search, adjacency, FALSE, {})
  BY <1>1 DEF SearchInv, WhyInv
<1>4. Relevant' = Relevant BY <1>1 DEF Relevant, Matching, matches
<1>5. adjacency \in SUBSET Edges BY <1>2, <1>3, GraphTyped
<1>6. TraverseInv' /\ PagesInv' /\ ForwardInv' /\ ReverseInv' /\ CyclesInv' /\ WhyInv'
      /\ ImpactExact' /\ AttributionExact'
  BY <1>1, <1>2 DEF TraverseInv, PagesInv, ForwardInv, ReverseInv, CyclesInv, WhyInv,
              ImpactExact, AttributionExact
<1>7. KindsMatch' BY <1>1, <1>2 DEF KindsMatch
<1> SUFFICES answer' \in Answers /\ PathsShortest'
  BY <1>1, <1>6, <1>7 DEF SearchInv, QueryTyped
<1> DEFINE ways == Ways(Relevant, FALSE)
<1>8. ways = Steps(Relevant) BY WaysSteps
<1>9. CASE search.via[query.to] = NoEdge
  <2>1. answer' = answer BY <1>9 DEF EndWhy
  <2>2. query.to \notin search.seen BY <1>2, <1>3, <1>9 DEF Sound, Tree, Roots
  <2>3. query.to \notin Near(search, adjacency, FALSE, Everywhere)
    <3>1. Everywhere \in Nat /\ {} \in SUBSET Nat /\ FALSE \in BOOLEAN
      BY NodesFinite DEF Everywhere
    <3>2. \A limit \in {} : Everywhere <= limit OBVIOUS
    <3> QED BY <1>1, <1>3, <1>5, <2>2, <3>1, <3>2, CompleteSeesAll
  <2>4. query.to \notin Closure(Steps(Relevant), {query.root})
    BY <1>3, <1>8, <2>3 DEF Near, Closure
  <2>5. answer' \in Answers /\ answer'.found = FALSE
    BY <1>2, <2>1 DEF SearchInv, QueryTyped, Answers
  <2>6. (query.to \in Closure(Steps(Relevant), {query.root})) = FALSE BY <2>4
  <2> QED BY <1>1, <1>2, <1>4, <2>5, <2>6 DEF PathsShortest, Relevant
<1>10. CASE search.via[query.to] # NoEdge
  <2>1. answer' = [NoAnswer EXCEPT !.found = TRUE, !.path = PathTo(query.to)]
    BY <1>10 DEF EndWhy
  <2>2. query.to \in search.seen BY <1>2, <1>3, <1>10 DEF Sound, Tree
  <2>3. /\ PathTo(query.to) \in Seq(adjacency) /\ Len(PathTo(query.to)) = search.depths[query.to]
        /\ Walk(PathTo(query.to), query.root, query.to)
    BY <1>3, <1>5, <2>2, PathToWalks
  <2>4. /\ Distance(Steps(Relevant), {query.root}, query.to) = search.depths[query.to]
        /\ query.to \in Closure(Steps(Relevant), {query.root})
    <3>1. /\ Distance(Steps(adjacency), Roots(search), query.to) = search.depths[query.to]
          /\ query.to \in Closure(Steps(adjacency), Roots(search))
      <4>1. Sound(search, adjacency, FALSE, {}) BY <1>3
      <4> QED BY <1>5, <2>2, <4>1, SeenForward, Zenon
    <3> QED BY <1>3, <3>1
  <2>5. PathTo(query.to) \in Seq(Edges) BY <1>5, <2>3, LongerSeq
  <2>6. answer' \in Answers /\ answer'.found = TRUE /\ answer'.path = PathTo(query.to)
    BY <2>1, <2>5, NothingTyped DEF NoAnswer, Answers
  <2> QED BY <1>1, <1>2, <1>4, <2>3, <2>4, <2>6 DEF PathsShortest, Relevant
<1> QED BY <1>9, <1>10

-----------------------------------------------------------------------------
\* A changed node that is no further than any other is at the least distance.
LEMMA NearestFound ==
    ASSUME graph \in Graphs, query.root \in Nodes, NEW n \in Reachable,
           \A m \in Reachable : \A k \in 0..Straight(n) - 1 :
              m \notin Ball(Steps(Relevant), {query.root}, k)
    PROVE  Min({ Straight(m) : m \in Reachable }) = Straight(n)
<1>1. Relevant \in SUBSET Edges /\ {query.root} \in SUBSET Nodes BY GraphTyped
<1>2. \A m \in Reachable : /\ Straight(m) \in Nat
                           /\ m \in Ball(Steps(Relevant), {query.root}, Straight(m))
  <2> TAKE m \in Reachable
  <2>1. m \in Closure(Ways(Relevant, FALSE), {query.root}) BY WaysSteps DEF Reachable
  <2>2. FALSE \in BOOLEAN OBVIOUS
  <2>3. /\ Distance(Ways(Relevant, FALSE), {query.root}, m) \in Nat
        /\ m \in Ball(Ways(Relevant, FALSE), {query.root},
                      Distance(Ways(Relevant, FALSE), {query.root}, m))
    BY <1>1, <2>1, <2>2, DistanceLeast, Zenon
  <2>4. Ways(Relevant, FALSE) = Steps(Relevant) BY WaysSteps
  <2> QED BY <2>3, <2>4 DEF Straight
<1>3. ASSUME NEW m \in Reachable PROVE Straight(n) <= Straight(m)
  <2>1. Straight(n) \in Nat /\ Straight(m) \in Nat BY <1>2
  <2>2. Straight(m) \notin 0..Straight(n) - 1 BY <1>2
  <2> QED BY <2>1, <2>2
<1> DEFINE S == { Straight(m) : m \in Reachable }
<1>4. S \in SUBSET Nat /\ Straight(n) \in S /\ \A k \in S : Straight(n) <= k BY <1>2, <1>3
<1> QED BY <1>4, MinWitness

\* Starting an impact keeps the invariant, whether the root has changed, nothing has,
\* or a changed node must be looked for.
LEMMA StartImpactKeeps ==
    ASSUME SearchInv, StartImpact PROVE SearchInv'
<1>1. /\ pc = "start" /\ query.kind = "impact" /\ UNCHANGED <<graph, query, pages>>
      /\ query.root \in Nodes /\ query.changed \in SUBSET Nodes
      /\ query.depth \in Depths /\ graph \in Graphs /\ query \in Queries
  BY Queried DEF StartImpact, SearchInv, QueryTyped
<1>2. /\ pc' = IF query.root \in query.changed THEN "reverse"
               ELSE IF query.changed = {} THEN "done" ELSE "forward"
      /\ adjacency' = Relevant
      /\ budget' = [NothingSpent EXCEPT !.nodes = {query.root}]
      /\ search' = Rooted({query.root}, <<query.root>>)
      /\ answer' = [NoAnswer EXCEPT !.found = query.root \in query.changed]
  BY DEF StartImpact, Relevant
<1>3. Relevant \in SUBSET Edges BY <1>1, GraphTyped
<1>4. Relevant' = Relevant BY <1>1 DEF Relevant, Matching, matches
<1>5. budget' \in Budgets /\ budget'.limits = {}
  BY <1>1, <1>2, NothingTyped DEF Budgets, NothingSpent
<1>6. /\ answer' \in Answers /\ answer'.path = <<>>
      /\ answer'.found = (query.root \in query.changed)
  <2> DEFINE found == query.root \in query.changed
  <2>1. found \in BOOLEAN OBVIOUS
  <2>2. answer' = [NoAnswer EXCEPT !.found = found] BY <1>2
  <2> HIDE DEF found
  <2>3. answer' \in Answers /\ answer'.path = <<>> /\ answer'.found = found
    BY <2>1, <2>2, NothingTyped DEF Answers, NoAnswer
  <2> QED BY <2>3 DEF found
<1>7. QueryTyped'
  <2>1. search' \in SearchRecords BY <1>1, <1>2, SingletonRooted
  <2>2. pc' \in {"reverse", "forward", "done"} BY <1>2
  <2> QED BY <1>1, <1>2, <1>3, <1>5, <1>6, <2>1, <2>2 DEF SearchInv, QueryTyped, Searches
<1>8. TraverseInv' /\ PagesInv' /\ WhyInv' /\ CyclesInv' /\ AttributionExact'
  BY <1>1, <1>2 DEF TraverseInv, PagesInv, WhyInv, CyclesInv, AttributionExact
<1>9. CASE query.root \in query.changed
  <2>1. pc' = "reverse" BY <1>2, <1>9
  <2>2. KindsMatch' /\ ForwardInv' /\ PathsShortest' /\ ImpactExact'
    BY <1>1, <2>1 DEF KindsMatch, ForwardInv, PathsShortest, ImpactExact
  <2>3. query.depth \in SUBSET Nat BY <1>1, DepthLimit
  <2>4. /\ Sound(search', Relevant, TRUE, query.depth)
        /\ Closed(search', Relevant, TRUE, query.depth)
        /\ Roots(search') = {query.root}
    BY <1>1, <1>2, <1>3, <2>3, SingletonRooted
  <2>5. /\ query.root \in Reachable /\ Straight(query.root) = 0
    BY <1>1, <1>9, StraightToRoot DEF Reachable
  <2>6. Min({ Straight(m) : m \in Reachable }) = 0
    <3>1. \A k \in 0..Straight(query.root) - 1 : FALSE BY <2>5
    <3> QED BY <1>1, <2>5, <3>1, NearestFound
  <2>7. Reachable' = Reachable BY <1>1, <1>4 DEF Reachable
  <2>8. ImpactFound'
    <3>1. Walk(<<>>, query.root, query.root) BY DEF Walk
    <3>2. Len(<<>>) = 0 OBVIOUS
    <3> QED BY <1>1, <1>4, <1>6, <2>5, <2>6, <2>7, <3>1, <3>2 DEF ImpactFound, Straight
  <2>9. ReverseInv'
    BY <1>1, <1>2, <1>4, <1>6, <1>9, <2>4, <2>8 DEF ReverseInv
  <2> QED BY <1>7, <1>8, <2>2, <2>9 DEF SearchInv
<1>10. CASE query.root \notin query.changed /\ query.changed = {}
  <2>1. pc' = "done" /\ answer'.found = FALSE
    <3>1. (query.root \in query.changed) = FALSE BY <1>10
    <3> QED BY <1>2, <1>6, <1>10, <3>1
  <2>2. KindsMatch' /\ ForwardInv' /\ ReverseInv' /\ ImpactExact'
    BY <1>1, <2>1 DEF KindsMatch, ForwardInv, ReverseInv, ImpactExact
  <2>3. PathsShortest'
    <3>1. (query.changed \cap Closure(Steps(Relevant), {query.root}) # {}) = FALSE
      BY <1>10
    <3> QED BY <1>1, <1>4, <2>1, <3>1 DEF PathsShortest, Relevant
  <2> QED BY <1>7, <1>8, <2>2, <2>3 DEF SearchInv
<1>11. CASE query.root \notin query.changed /\ query.changed # {}
  <2>1. pc' = "forward" /\ answer'.found = FALSE
    <3>1. (query.root \in query.changed) = FALSE BY <1>11
    <3> QED BY <1>2, <1>6, <1>11, <3>1
  <2>2. KindsMatch' /\ ReverseInv' /\ PathsShortest' /\ ImpactExact'
    BY <1>1, <2>1 DEF KindsMatch, ReverseInv, PathsShortest, ImpactExact
  <2>3. /\ Sound(search', Relevant, FALSE, {}) /\ Closed(search', Relevant, FALSE, {})
        /\ Roots(search') = {query.root} /\ search'.seen = {query.root}
    BY <1>1, <1>2, <1>3, SingletonRooted
  <2>4. query.changed \cap search'.seen = {} BY <1>11, <2>3
  <2>5. ForwardInv'
    BY <1>1, <1>2, <1>4, <1>5, <1>11, <2>3, <2>4 DEF ForwardInv
  <2> QED BY <1>7, <1>8, <2>2, <2>5 DEF SearchInv
<1> QED BY <1>9, <1>10, <1>11

\* The budget after an edge.
Spent(edges, nodes, limits) ==
    budget'.edges = edges /\ budget'.nodes = nodes /\ budget'.limits = limits

\* The four outcomes of an edge that the budget must admit, and the type of the budget.
LEMMA Admitting ==
    ASSUME budget \in Budgets, search.pending \subseteq Edges, VisitAdmitting
    PROVE  /\ Edge \in search.pending /\ budget' \in Budgets
           /\ \/ /\ ~EdgeFits(Edge) /\ search' = Stopped(search)
                 /\ Spent(budget.edges, budget.nodes, budget.limits \cup {"edges"})
              \/ /\ EdgeFits(Edge) /\ Beyond(Edge) \notin search.seen
                 /\ ~NodeFits(Beyond(Edge)) /\ search' = Stopped(search)
                 /\ Spent(budget.edges \cup {Edge}, budget.nodes, budget.limits \cup {"nodes"})
              \/ /\ EdgeFits(Edge) /\ Beyond(Edge) \notin search.seen /\ NodeFits(Beyond(Edge))
                 /\ search' = IF pc = "forward" /\ Beyond(Edge) \in query.changed
                              THEN Stopped(Reached(Edge)) ELSE Reached(Edge)
                 /\ Spent(budget.edges \cup {Edge}, budget.nodes \cup {Beyond(Edge)},
                          budget.limits)
              \/ /\ EdgeFits(Edge) /\ Beyond(Edge) \in search.seen
                 /\ search' = Passed(Edge)
                 /\ Spent(budget.edges \cup {Edge}, budget.nodes, budget.limits)
<1>1. search.pending # {} BY DEF VisitAdmitting, Visiting
<1>2. Edge \in search.pending BY <1>1, EdgeChosen
<1>3. Edge \in Edges BY <1>2
<1>4. Beyond(Edge) \in Nodes BY <1>3, EdgeShape DEF Beyond
<1>5. CASE ~EdgeFits(Edge)
  <2>1. /\ budget' = [budget EXCEPT !.limits = @ \cup {"edges"}]
        /\ search' = Stopped(search)
    BY <1>5 DEF VisitAdmitting
  <2>2. /\ budget' \in Budgets
        /\ Spent(budget.edges, budget.nodes, budget.limits \cup {"edges"})
    BY <2>1 DEF Budgets, Spent
  <2> QED BY <1>2, <1>5, <2>1, <2>2
<1>6. CASE EdgeFits(Edge) /\ Beyond(Edge) \notin search.seen /\ ~NodeFits(Beyond(Edge))
  <2>1. /\ budget' = [budget EXCEPT !.edges = @ \cup {Edge}, !.limits = @ \cup {"nodes"}]
        /\ search' = Stopped(search)
    BY <1>6 DEF VisitAdmitting
  <2>2. /\ budget' \in Budgets
        /\ Spent(budget.edges \cup {Edge}, budget.nodes, budget.limits \cup {"nodes"})
    BY <1>3, <2>1 DEF Budgets, Spent
  <2> QED BY <1>2, <1>6, <2>1, <2>2
<1>7. CASE EdgeFits(Edge) /\ Beyond(Edge) \notin search.seen /\ NodeFits(Beyond(Edge))
  <2>1. /\ budget' = [budget EXCEPT !.edges = @ \cup {Edge}, !.nodes = @ \cup {Beyond(Edge)}]
        /\ search' = IF pc = "forward" /\ Beyond(Edge) \in query.changed
                     THEN Stopped(Reached(Edge)) ELSE Reached(Edge)
    BY <1>7 DEF VisitAdmitting
  <2>2. /\ budget' \in Budgets
        /\ Spent(budget.edges \cup {Edge}, budget.nodes \cup {Beyond(Edge)}, budget.limits)
    BY <1>3, <1>4, <2>1 DEF Budgets, Spent
  <2> QED BY <1>2, <1>7, <2>1, <2>2
<1>8. CASE EdgeFits(Edge) /\ Beyond(Edge) \in search.seen
  <2>1. /\ budget' = [budget EXCEPT !.edges = @ \cup {Edge}]
        /\ search' = Passed(Edge)
    BY <1>8 DEF VisitAdmitting
  <2>2. /\ budget' \in Budgets
        /\ Spent(budget.edges \cup {Edge}, budget.nodes, budget.limits)
    BY <1>3, <2>1 DEF Budgets, Spent
  <2> QED BY <1>2, <1>8, <2>1, <2>2
<1> QED BY <1>5, <1>6, <1>7, <1>8

\* An edge of the forward search of an impact keeps the invariant.
LEMMA VisitForwardKeeps ==
    ASSUME SearchInv, VisitAdmitting, pc = "forward" PROVE SearchInv'
<1>1. /\ pc' = "forward" /\ search.pending # {}
      /\ UNCHANGED <<graph, query, adjacency, answer, pages>>
  BY DEF VisitAdmitting, Visiting
<1>2. /\ query \in Queries /\ graph \in Graphs /\ query.kind = "impact" /\ ~answer.found
      /\ budget \in Budgets
  BY <1>1 DEF SearchInv, QueryTyped, KindsMatch
<1>3. /\ adjacency = Relevant /\ query.root \notin query.changed
      /\ Sound(search, adjacency, FALSE, {}) /\ Roots(search) = {query.root}
      /\ budget.limits = {} /\ query.changed \cap search.seen = {}
      /\ Closed(search, adjacency, FALSE, {})
  BY <1>1 DEF SearchInv, ForwardInv, Going
<1>4. Relevant' = Relevant BY <1>1 DEF Relevant, Matching, matches
<1>5. adjacency \in SUBSET Edges /\ search.pending \subseteq Edges
  BY <1>2, <1>3, GraphTyped DEF Sound, SearchRecords
<1>6. /\ Backward \in BOOLEAN /\ {} \in SUBSET Nat
      /\ Sound(search, adjacency, Backward, {}) /\ Closed(search, adjacency, Backward, {})
      /\ Backward = FALSE
  BY <1>1, <1>2, <1>3 DEF Backward
<1>7. Edge \in search.pending /\ budget' \in Budgets BY <1>2, <1>5, Admitting
<1>8. TraverseInv' /\ PagesInv' /\ WhyInv' /\ ReverseInv' /\ CyclesInv'
      /\ ImpactExact' /\ AttributionExact' /\ PathsShortest'
  BY <1>1 DEF TraverseInv, PagesInv, WhyInv, ReverseInv, CyclesInv,
              ImpactExact, AttributionExact, PathsShortest
<1>9. KindsMatch' BY <1>1, <1>2 DEF KindsMatch
<1> SUFFICES search' \in SearchRecords /\ ForwardInv'
  BY <1>1, <1>7, <1>8, <1>9 DEF SearchInv, QueryTyped
<1>10. ASSUME search' = Stopped(search), budget'.limits # {}
       PROVE  search' \in SearchRecords /\ ForwardInv'
  <2>1. /\ Sound(search', adjacency, FALSE, {}) /\ ~Going(search')
        /\ search'.seen = search.seen /\ Roots(search') = Roots(search)
    BY <1>5, <1>6, <1>10, StoppedKeeps
  <2> QED BY <1>1, <1>3, <1>4, <1>10, <2>1 DEF ForwardInv, Sound
<1>11. ASSUME search' = Passed(Edge), Beyond(Edge) \in search.seen, budget'.limits = {}
       PROVE  search' \in SearchRecords /\ ForwardInv'
  <2>1. /\ Sound(search', adjacency, FALSE, {}) /\ Closed(search', adjacency, FALSE, {})
        /\ Roots(search') = Roots(search) /\ search'.seen = search.seen
    BY <1>5, <1>6, <1>7, <1>11, PassedKeeps
  <2> QED BY <1>1, <1>3, <1>4, <1>11, <2>1 DEF ForwardInv, Sound
<1>12. ASSUME Beyond(Edge) \notin search.seen, budget'.limits = {},
              search' = IF Beyond(Edge) \in query.changed
                        THEN Stopped(Reached(Edge)) ELSE Reached(Edge)
       PROVE  search' \in SearchRecords /\ ForwardInv'
  <2> DEFINE s == Reached(Edge)
  <2>1. /\ Sound(s, adjacency, FALSE, {}) /\ Closed(s, adjacency, FALSE, {})
        /\ Roots(s) = Roots(search) /\ s.seen = search.seen \cup {Beyond(Edge)}
        /\ s.depths[Beyond(Edge)] = search.depths[From(Edge)] + 1
    BY <1>5, <1>6, <1>7, <1>12, ReachedKeeps
  <2> HIDE DEF s
  <2>2. CASE Beyond(Edge) \notin query.changed
    <3>1. search' = s BY <1>12, <2>2 DEF s
    <3> QED BY <1>1, <1>3, <1>4, <1>12, <2>1, <2>2, <3>1 DEF ForwardInv, Sound
  <2>3. CASE Beyond(Edge) \in query.changed
    <3>1. search' = Stopped(s) BY <1>12, <2>3 DEF s
    <3>2. /\ Sound(search', adjacency, FALSE, {}) /\ ~Going(search')
          /\ search'.seen = s.seen /\ Roots(search') = Roots(s)
          /\ search'.depths = s.depths
      BY <1>5, <2>1, <3>1, StoppedKeeps
    <3>3. query.changed \cap search'.seen = {Beyond(Edge)} BY <1>3, <2>1, <2>3, <3>2
    <3> DEFINE c == From(Edge)
               d == search.depths[c]
    <3>4. c \in search.seen /\ c = from(FALSE, Edge) /\ d \in Nat /\ search'.depths[Beyond(Edge)] = d + 1
      BY <1>3, <1>6, <1>7, <2>1, <3>2 DEF Sound, Ordered, Tree, From, from
    <3> HIDE DEF c, d
    <3>5. \A n \in Open(search, FALSE) : d <= search.depths[n]
      <4> SUFFICES ASSUME NEW n \in Open(search, FALSE) PROVE d <= search.depths[n] OBVIOUS
      <4>1. CASE n \in Range(search.queue)
        <5>1. search.queue \in Seq(Nodes) BY <1>3 DEF Sound, SearchRecords
        <5>2. PICK i \in 1..Len(search.queue) : n = search.queue[i]
          BY <4>1, <5>1 DEF Range
        <5> QED BY <1>3, <1>7, <3>4, <5>2 DEF Sound, Ordered, d
      <4>2. CASE n \notin Range(search.queue)
        <5>1. PICK f \in search.pending : n = from(FALSE, f) BY <4>2 DEF Open
        <5>2. n = c BY <1>3, <1>7, <3>4, <5>1 DEF Sound, Ordered
        <5>3. search.depths[n] = d BY <5>2 DEF d
        <5>4. d <= d BY <3>4
        <5> QED BY <5>3, <5>4
      <4> QED BY <4>1, <4>2
    <3>6. ASSUME NEW m \in query.changed, NEW k \in 0..d
          PROVE  m \notin Near(search, adjacency, FALSE, k)
      <4>1. \A n \in search.seen : search.depths[n] < d => ~Deep(search, {}, n) BY DEF Deep
      <4>2. search \in SearchRecords /\ Tree(search, adjacency, FALSE) /\ FALSE \in BOOLEAN
            /\ {} \in SUBSET Nat
        BY <1>3 DEF Sound
      <4>3. Closed(search, adjacency, FALSE, {}) BY <1>3
      <4>4. \A n \in Open(search, FALSE) : n \in search.seen => d <= search.depths[n] BY <3>5
      <4>5. Near(search, adjacency, FALSE, k) \subseteq { n \in search.seen : search.depths[n] <= k }
        BY <1>5, <3>4, <4>1, <4>2, <4>3, <4>4, LevelsSeen, Zenon
      <4> QED BY <1>3, <4>5
    <3>7. \A n \in query.changed \cap search'.seen, m \in query.changed :
             \A k \in 0..search'.depths[n] - 1 : m \notin Near(search', adjacency, FALSE, k)
      <4> SUFFICES ASSUME NEW m \in query.changed,
                          NEW k \in 0..search'.depths[Beyond(Edge)] - 1
                   PROVE  m \notin Near(search', adjacency, FALSE, k)
        BY <3>3
      <4>1. k \in 0..d BY <3>4
      <4>2. Roots(search') = Roots(search) BY <2>1, <3>2
      <4> QED BY <3>6, <4>1, <4>2 DEF Near
    <3>8. /\ query.changed' = query.changed /\ adjacency' = adjacency
          /\ query.root' = query.root
      BY <1>1
    <3>9. search' \in SearchRecords BY <3>2 DEF Sound
    <3>10. query.changed \cap search'.seen # {} BY <3>3
    <3>11. Roots(search') = {query.root} BY <1>3, <2>1, <3>2
    <3> QED BY <1>1, <1>3, <1>4, <1>12, <3>2, <3>7, <3>8, <3>9, <3>10, <3>11 DEF ForwardInv
  <2> QED BY <2>2, <2>3
<1>13. QED
  BY <1>1, <1>2, <1>3, <1>5, <1>10, <1>11, <1>12, Admitting DEF Spent

\* The end of the forward search keeps the invariant: the changed node it stopped at is
\* a nearest one, and a search that no limit stopped has overlooked none.
LEMMA EndForwardKeeps ==
    ASSUME SearchInv, EndForward PROVE SearchInv'
<1>1. /\ pc = "forward" /\ ~Going(search)
      /\ UNCHANGED <<graph, query, adjacency, budget, pages>>
  BY DEF EndForward, Ended, Going
<1>2. /\ query \in Queries /\ graph \in Graphs /\ query.kind = "impact" /\ ~answer.found
      /\ query.root \in Nodes /\ query.changed \in SUBSET Nodes /\ answer \in Answers
      /\ query.depth \in Depths
  BY <1>1, Queried DEF SearchInv, QueryTyped, KindsMatch
<1> DEFINE met == query.changed \cap search.seen
<1>3. /\ adjacency = Relevant /\ query.root \notin query.changed
      /\ Sound(search, adjacency, FALSE, {}) /\ Roots(search) = {query.root}
      /\ met = {} /\ budget.limits = {} => Closed(search, adjacency, FALSE, {})
      /\ \A n \in met, m \in query.changed : \A k \in 0..search.depths[n] - 1 :
            m \notin Near(search, adjacency, FALSE, k)
  BY <1>1 DEF SearchInv, ForwardInv
<1>4. Relevant' = Relevant BY <1>1 DEF Relevant, Matching, matches
<1>5. adjacency \in SUBSET Edges BY <1>2, <1>3, GraphTyped
<1>6. met = { n \in query.changed : search.via[n] # NoEdge }
  BY <1>2, <1>3 DEF Sound, Tree, Roots
<1> HIDE DEF met
<1>7. Ways(Relevant, FALSE) = Steps(Relevant) BY WaysSteps
<1>8. CASE met = {}
  <2>1. pc' = "done" /\ UNCHANGED <<search, answer>> BY <1>6, <1>8 DEF EndForward
  <2>2. TraverseInv' /\ PagesInv' /\ WhyInv' /\ ForwardInv' /\ ReverseInv' /\ CyclesInv'
        /\ ImpactExact' /\ AttributionExact' /\ KindsMatch'
    BY <1>1, <1>2, <2>1 DEF TraverseInv, PagesInv, WhyInv, ForwardInv, ReverseInv, CyclesInv,
                            ImpactExact, AttributionExact, KindsMatch
  <2>3. QueryTyped' BY <1>1, <2>1 DEF SearchInv, QueryTyped
  <2>4. budget.limits = {} =>
          (query.changed \cap Closure(Steps(Relevant), {query.root}) # {}) = FALSE
    <3> SUFFICES ASSUME budget.limits = {}
                 PROVE  query.changed \cap Closure(Steps(Relevant), {query.root}) = {}
      OBVIOUS
    <3>1. Everywhere \in Nat /\ {} \in SUBSET Nat /\ FALSE \in BOOLEAN
          /\ \A limit \in {} : Everywhere <= limit
      BY NodesFinite DEF Everywhere
    <3>2. Closed(search, adjacency, FALSE, {}) BY <1>3, <1>8
    <3>3. Near(search, adjacency, FALSE, Everywhere)
            \subseteq { n \in search.seen : search.depths[n] <= Everywhere }
      <4>1. Sound(search, adjacency, FALSE, {}) BY <1>3
      <4> QED BY <1>1, <1>5, <3>1, <3>2, <4>1, CompleteSeesAll, Zenon
    <3>4. Near(search, adjacency, FALSE, Everywhere) = Closure(Steps(Relevant), {query.root})
      BY <1>3, <1>7 DEF Near, Closure
    <3> QED BY <1>8, <3>3, <3>4 DEF met
  <2>5. answer'.found = FALSE BY <1>2, <2>1 DEF Answers
  <2>6. PathsShortest'
    BY <1>1, <1>2, <1>4, <2>1, <2>4, <2>5 DEF PathsShortest, Relevant
  <2> QED BY <2>2, <2>3, <2>6 DEF SearchInv
<1>9. CASE met # {}
  <2> DEFINE n == CHOOSE m \in met : TRUE
             path == PathTo(n)
  <2>1. n \in met BY <1>9
  <2>2. /\ pc' = IF Len(path) > MaxPathSteps THEN "failed" ELSE "reverse"
        /\ answer' = [NoAnswer EXCEPT !.found = TRUE, !.path = path]
        /\ search' = Rooted({query.root}, <<query.root>>)
    BY <1>6, <1>9 DEF EndForward
  <2> HIDE DEF n
  <2>3. n \in search.seen /\ n \in query.changed BY <2>1 DEF met
  <2>4. /\ path \in Seq(adjacency) /\ Len(path) = search.depths[n]
        /\ Walk(path, query.root, n)
    BY <1>3, <1>5, <2>3, PathToWalks
  <2>5. path \in Seq(Edges) BY <1>5, <2>4, LongerSeq
  <2>6. /\ search.depths[n] \in Nat
        /\ Distance(Steps(adjacency), Roots(search), n) = search.depths[n]
        /\ n \in Closure(Steps(adjacency), Roots(search))
    <3>1. Sound(search, adjacency, FALSE, {}) BY <1>3
    <3> QED BY <1>5, <2>3, <3>1, SeenForward, Zenon
  <2>7. Straight(n) = search.depths[n] /\ n \in Reachable
    BY <1>3, <2>3, <2>6 DEF Straight, Reachable
  <2>8. \A m \in Reachable : \A k \in 0..Straight(n) - 1 :
          m \notin Ball(Steps(Relevant), {query.root}, k)
    <3>1. \A k : Near(search, adjacency, FALSE, k) = Ball(Steps(Relevant), {query.root}, k)
      BY <1>3, <1>7 DEF Near
    <3> QED BY <1>3, <2>1, <2>7, <3>1 DEF Reachable
  <2>9. Min({ Straight(m) : m \in Reachable }) = Straight(n)
    BY <1>2, <2>7, <2>8, NearestFound
  <2> HIDE DEF path
  <2>10. answer' \in Answers /\ answer'.found = TRUE /\ answer'.path = path
    BY <2>2, <2>5, NothingTyped DEF NoAnswer, Answers
  <2>11. Reachable' = Reachable BY <1>1, <1>4 DEF Reachable
  <2>12. ImpactFound'
    BY <1>1, <1>4, <2>4, <2>7, <2>9, <2>10, <2>11 DEF ImpactFound, Straight
  <2>13. query.depth \in SUBSET Nat BY <1>2, DepthLimit
  <2>14. /\ Sound(search', adjacency, TRUE, query.depth)
         /\ Closed(search', adjacency, TRUE, query.depth)
         /\ Roots(search') = {query.root} /\ search' \in SearchRecords
    BY <1>2, <1>5, <2>2, <2>13, SingletonRooted
  <2>15. pc' \in {"failed", "reverse"} BY <2>2
  <2>16. ReverseInv'
    BY <1>1, <1>2, <1>3, <1>4, <2>10, <2>12, <2>14 DEF ReverseInv
  <2>17. TraverseInv' /\ PagesInv' /\ WhyInv' /\ ForwardInv' /\ CyclesInv'
         /\ ImpactExact' /\ AttributionExact' /\ PathsShortest' /\ KindsMatch'
    BY <1>1, <1>2, <2>15 DEF TraverseInv, PagesInv, WhyInv, ForwardInv, CyclesInv,
                            ImpactExact, AttributionExact, PathsShortest, KindsMatch
  <2>18. QueryTyped' BY <1>1, <2>10, <2>14, <2>15 DEF SearchInv, QueryTyped, Searches
  <2> QED BY <2>16, <2>17, <2>18 DEF SearchInv
<1> QED BY <1>8, <1>9

-----------------------------------------------------------------------------
\* A strict order that is total on a set, and a sequence that lines the set up by it.
StrictOrder(R, S) ==
    /\ \A a \in S : <<a, a>> \notin R
    /\ \A a, b \in S : a # b => <<a, b>> \in R \/ <<b, a>> \in R
    /\ \A a, b, c \in S : <<a, b>> \in R /\ <<b, c>> \in R => <<a, c>> \in R

LinedUp(s, R, S) ==
    /\ s \in [1..Cardinality(S) -> S]
    /\ \A i, j \in 1..Cardinality(S) : i < j => <<s[i], s[j]>> \in R

\* A finite set with a strict total order has a last element.
LEMMA LastExists ==
    ASSUME NEW R, NEW S, StrictOrder(R, S), IsFiniteSet(S), S # {}
    PROVE  \E x \in S : \A y \in S : y # x => <<y, x>> \in R
<1> DEFINE last(x, T) == \A y \in T : y # x => <<y, x>> \in R
           P(T) == T # {} => \E x \in T : last(x, T)
           N == { n \in Nat : \A T \in SUBSET S : Cardinality(T) = n => P(T) }
<1>1. 0 \in N
  <2>1. ASSUME NEW T \in SUBSET S, Cardinality(T) = 0 PROVE T = {}
    BY <2>1, FS_Subset, FS_EmptySet
  <2> QED BY <2>1
<1>2. ASSUME NEW n \in Nat, n \in N PROVE n + 1 \in N
  <2> SUFFICES ASSUME NEW T \in SUBSET S, Cardinality(T) = n + 1, T # {}
               PROVE  \E x \in T : last(x, T)
    OBVIOUS
  <2>1. PICK a \in T : TRUE OBVIOUS
  <2> DEFINE U == T \ {a}
  <2>2. Cardinality(U) = n /\ U \in SUBSET S /\ IsFiniteSet(T)
    <3>1. IsFiniteSet(T) BY FS_Subset
    <3>2. Cardinality(U) = Cardinality(T) - 1 BY <3>1, FS_RemoveElement
    <3>3. (n + 1) - 1 = n OBVIOUS
    <3> QED BY <3>1, <3>2, <3>3
  <2>3. P(U) BY <1>2, <2>2
  <2>4. CASE U = {}
    <3>1. T = {a} BY <2>1, <2>4
    <3> QED BY <3>1
  <2>5. CASE U # {}
    <3>1. PICK b \in U : last(b, U) BY <2>3, <2>5
    <3>2. CASE <<a, b>> \in R
      <4>1. last(b, T) BY <3>1, <3>2
      <4> QED BY <3>1, <4>1
    <3>3. CASE <<b, a>> \in R
      <4>1. last(a, T)
        <5> SUFFICES ASSUME NEW y \in T, y # a PROVE <<y, a>> \in R OBVIOUS
        <5>1. y \in S /\ b \in S /\ a \in S BY <3>1
        <5>2. y = b \/ <<y, b>> \in R BY <3>1
        <5> QED BY <3>3, <5>1, <5>2 DEF StrictOrder
      <4> QED BY <4>1
    <3>4. a # b /\ a \in S /\ b \in S BY <3>1
    <3> QED BY <3>2, <3>3, <3>4 DEF StrictOrder
  <2> QED BY <2>4, <2>5
<1> HIDE DEF N
<1>3. Nat \subseteq N BY <1>1, <1>2, Induction
<1>4. Cardinality(S) \in N BY <1>3, FS_CardinalityType
<1> QED BY <1>4 DEF N

\* Hence it can be lined up.
LEMMA LineUpExists ==
    ASSUME NEW R, NEW S, StrictOrder(R, S), IsFiniteSet(S)
    PROVE  \E s : LinedUp(s, R, S)
<1> DEFINE N == { n \in Nat : \A T \in SUBSET S : Cardinality(T) = n => \E s : LinedUp(s, R, T) }
<1>1. 0 \in N
  <2>1. ASSUME NEW T \in SUBSET S, Cardinality(T) = 0 PROVE \E s : LinedUp(s, R, T)
    <3>1. LinedUp([i \in 1..0 |-> i], R, T) BY <2>1 DEF LinedUp
    <3> QED BY <3>1
  <2> QED BY <2>1
<1>2. ASSUME NEW n \in Nat, n \in N PROVE n + 1 \in N
  <2> SUFFICES ASSUME NEW T \in SUBSET S, Cardinality(T) = n + 1
               PROVE  \E s : LinedUp(s, R, T)
    OBVIOUS
  <2>1. IsFiniteSet(T) /\ T # {} BY FS_Subset, FS_EmptySet
  <2>2. StrictOrder(R, T) BY DEF StrictOrder
  <2>3. PICK x \in T : \A y \in T : y # x => <<y, x>> \in R BY <2>1, <2>2, LastExists
  <2> DEFINE U == T \ {x}
  <2>4. Cardinality(U) = n /\ U \in SUBSET S
    <3>1. Cardinality(U) = Cardinality(T) - 1 BY <2>1, FS_RemoveElement
    <3>2. (n + 1) - 1 = n OBVIOUS
    <3> QED BY <3>1, <3>2
  <2> HIDE DEF U
  <2>5. PICK u : LinedUp(u, R, U) BY <1>2, <2>4
  <2> DEFINE s == [i \in 1..n + 1 |-> IF i = n + 1 THEN x ELSE u[i]]
  <2>6. \A i \in 1..n : u[i] \in U /\ s[i] = u[i] BY <2>4, <2>5 DEF LinedUp
  <2>7. s[n + 1] = x /\ U \subseteq T /\ x \notin U BY DEF U
  <2>8. s \in [1..n + 1 -> T]
    <3>1. \A i \in 1..n + 1 : i = n + 1 \/ i \in 1..n OBVIOUS
    <3>2. \A i \in 1..n + 1 : s[i] \in T
      <4> TAKE i \in 1..n + 1
      <4>1. CASE i = n + 1 BY <2>7, <4>1
      <4>2. CASE i \in 1..n BY <2>6, <2>7, <4>2
      <4> QED BY <3>1, <4>1, <4>2
    <3> QED BY <3>2
  <2>9. ASSUME NEW i \in 1..n + 1, NEW j \in 1..n + 1, i < j PROVE <<s[i], s[j]>> \in R
    <3>1. i \in 1..n BY <2>9
    <3>2. CASE j = n + 1 BY <2>3, <2>6, <2>7, <3>1, <3>2
    <3>3. CASE j # n + 1
      <4>1. j \in 1..n BY <3>3
      <4>2. <<u[i], u[j]>> \in R BY <2>4, <2>5, <2>9, <3>1, <4>1 DEF LinedUp
      <4> QED BY <2>6, <3>1, <4>1, <4>2
    <3> QED BY <3>2, <3>3
  <2> HIDE DEF s
  <2>10. LinedUp(s, R, T) BY <2>8, <2>9 DEF LinedUp
  <2> QED BY <2>10
<1> HIDE DEF N
<1>3. Nat \subseteq N BY <1>1, <1>2, Induction
<1>4. Cardinality(S) \in N BY <1>3, FS_CardinalityType
<1> QED BY <1>4 DEF N

\* The sequence holds each element once.
LEMMA LineUpAll ==
    ASSUME NEW R, NEW S, StrictOrder(R, S), IsFiniteSet(S), NEW s, LinedUp(s, R, S)
    PROVE  /\ s \in Seq(S) /\ Len(s) = Cardinality(S) /\ Range(s) = S
           /\ \A i, j \in 1..Len(s) : i # j => s[i] # s[j]
<1> DEFINE c == Cardinality(S)
<1>1. c \in Nat BY FS_CardinalityType
<1>2. s \in [1..c -> S] BY DEF LinedUp
<1>3. s \in Seq(S) /\ Len(s) = c
  <2> HIDE DEF c
  <2> QED BY <1>1, <1>2
<1>4. ASSUME NEW i \in 1..c, NEW j \in 1..c, i # j PROVE s[i] # s[j]
  <2>1. s[i] \in S /\ s[j] \in S BY <1>2
  <2>2. i < j \/ j < i BY <1>1, <1>4
  <2>3. <<s[i], s[j]>> \in R \/ <<s[j], s[i]>> \in R BY <2>2 DEF LinedUp
  <2> QED BY <2>1, <2>3 DEF StrictOrder
<1>5. s \in Injection(1..c, S) BY <1>2, <1>4 DEF Injection, IsInjective
<1>6. IsFiniteSet(1..c) /\ Cardinality(1..c) = c BY <1>1, FS_Interval
<1>7. s \in Surjection(1..c, S) BY <1>5, <1>6, FS_Injection
<1>8. Range(s) = S BY <1>2, <1>7 DEF Surjection, Range
<1> QED BY <1>3, <1>4, <1>8

\* When the changed nodes are more than the limit, the seeds fill it.
LEMMA SeedsFill ==
    ASSUME NEW S \in SUBSET Nodes, NEW k \in Nat,
           { n \in S : Cardinality({ m \in S : m <= n }) <= k } # S
    PROVE  /\ Cardinality({ n \in S : Cardinality({ m \in S : m <= n }) <= k }) >= k
           /\ Cardinality(S) > k
<1> DEFINE below(n) == { m \in S : m <= n }
           seeds == { n \in S : Cardinality(below(n)) <= k }
           left == S \ seeds
<1>1. left # {} /\ left \in SUBSET Nat BY QueryAssumption
<1>2. PICK n \in left : \A m \in left : n <= m BY <1>1, LeastNatural
<1>3. n \in S /\ n \in Nat /\ n \notin seeds /\ S \subseteq Nat BY <1>1, QueryAssumption
<1>4. below(n) \subseteq seeds \cup {n}
  <2> SUFFICES ASSUME NEW m \in S, m <= n, m # n PROVE m \in seeds OBVIOUS
  <2>1. ~(n <= m) BY <1>3
  <2> QED BY <1>2, <2>1
<1>5. /\ IsFiniteSet(seeds) /\ Cardinality(seeds) \in Nat
      /\ IsFiniteSet(below(n)) /\ Cardinality(below(n)) \in Nat
      /\ IsFiniteSet(S) /\ Cardinality(S) \in Nat
  BY SubsetsFinite
<1>6. Cardinality(below(n)) > k BY <1>3, <1>5
<1>7. IsFiniteSet(seeds \cup {n}) /\ Cardinality(seeds \cup {n}) = Cardinality(seeds) + 1
  BY <1>3, <1>5, FS_AddElement
<1>8. Cardinality(below(n)) <= Cardinality(seeds \cup {n}) BY <1>4, <1>7, FS_Subset
<1>9. Cardinality(below(n)) <= Cardinality(S) BY <1>5, FS_Subset
<1> HIDE DEF seeds, below
<1>10. Cardinality(seeds) >= k /\ Cardinality(S) > k BY <1>5, <1>6, <1>7, <1>8, <1>9
<1> QED BY <1>10 DEF seeds, below

\* Starting the impact of a change set keeps the invariant.
LEMMA StartChangesKeeps ==
    ASSUME SearchInv, StartChanges PROVE SearchInv'
<1>1. /\ pc = "start" /\ query.kind = "changes" /\ UNCHANGED <<graph, query, pages>>
      /\ query.mapped \in [Paths -> SUBSET Nodes] /\ query.maxNodes \in Nat
      /\ query.depth \in Depths /\ graph \in Graphs /\ query \in Queries
  BY Queried DEF StartChanges, SearchInv, QueryTyped
<1> DEFINE changed == UNION { query.mapped[p] : p \in Paths }
           seeds == { n \in changed :
                        Cardinality({ m \in changed : m <= n }) <= query.maxNodes }
           order == CHOOSE s \in [1..Cardinality(seeds) -> seeds] :
                        \A i, j \in 1..Cardinality(seeds) : i < j => s[i] < s[j]
<1>2. /\ search' = Rooted(seeds, order)
      /\ budget' = [NothingSpent EXCEPT
                      !.nodes = seeds,
                      !.limits = IF seeds = changed THEN {} ELSE {"nodes"}]
      /\ pc' = "reverse" /\ adjacency' = Relevant
      /\ answer' = [NoAnswer EXCEPT !.found = TRUE]
  BY DEF StartChanges, Relevant
<1>3. Relevant \in SUBSET Edges BY <1>1, GraphTyped
<1>4. Relevant' = Relevant BY <1>1 DEF Relevant, Matching, matches
<1>5. changed = Origins /\ changed \in SUBSET Nodes BY <1>1 DEF Origins
<1>6. seeds \subseteq changed OBVIOUS
<1>7. seeds # changed =>
        Cardinality(seeds) >= query.maxNodes /\ Cardinality(changed) > query.maxNodes
  BY <1>1, <1>5, SeedsFill
<1>8. /\ order \in Seq(Nodes) /\ Range(order) = seeds
      /\ \A i, j \in 1..Len(order) : i < j => order[i] # order[j]
  <2> DEFINE R == { p \in Nat \X Nat : p[1] < p[2] }
  <2>1. seeds \in SUBSET Nat /\ seeds \in SUBSET Nodes BY <1>5, <1>6, QueryAssumption
  <2> HIDE DEF seeds
  <2>2. \A a, b \in seeds : <<a, b>> \in R <=> a < b BY <2>1
  <2>3. StrictOrder(R, seeds) BY <2>1, <2>2 DEF StrictOrder
  <2>4. IsFiniteSet(seeds) BY <2>1, SubsetsFinite
  <2> DEFINE good(s) == \A i, j \in 1..Cardinality(seeds) : i < j => s[i] < s[j]
  <2>5. PICK s : LinedUp(s, R, seeds) BY <2>3, <2>4, LineUpExists
  <2>6. s \in [1..Cardinality(seeds) -> seeds] /\ good(s) BY <2>2, <2>5 DEF LinedUp
  <2>7. order \in [1..Cardinality(seeds) -> seeds] /\ good(order) BY <2>6
  <2> HIDE DEF order
  <2>8. LinedUp(order, R, seeds)
    <3> SUFFICES ASSUME NEW i \in 1..Cardinality(seeds), NEW j \in 1..Cardinality(seeds), i < j
                 PROVE  <<order[i], order[j]>> \in R
      BY <2>7 DEF LinedUp
    <3>1. order[i] \in seeds /\ order[j] \in seeds /\ order[i] < order[j] BY <2>7
    <3> QED BY <2>2, <3>1
  <2> HIDE DEF R
  <2>9. /\ order \in Seq(seeds) /\ Range(order) = seeds
        /\ \A i, j \in 1..Len(order) : i # j => order[i] # order[j]
    BY <2>3, <2>4, <2>8, LineUpAll
  <2>10. order \in Seq(Nodes) BY <2>1, <2>9, LongerSeq
  <2> QED BY <2>9, <2>10
<1> HIDE DEF order, seeds, changed
<1>9. /\ Sound(search', Relevant, TRUE, query.depth)
      /\ Closed(search', Relevant, TRUE, query.depth)
      /\ Roots(search') = seeds /\ search'.seen = seeds
  <2>1. query.depth \in SUBSET Nat /\ seeds \in SUBSET Nodes /\ TRUE \in BOOLEAN
    BY <1>1, <1>5, <1>6, DepthLimit
  <2>2. /\ Sound(search', Relevant, TRUE, query.depth)
        /\ Closed(search', Relevant, TRUE, query.depth)
        /\ Roots(search') = seeds
    BY <1>2, <1>3, <1>8, <2>1, RootedSound
  <2>3. search'.seen = seeds BY <1>2 DEF Rooted
  <2> QED BY <2>2, <2>3
<1>10. /\ budget' \in Budgets /\ budget'.nodes = seeds /\ budget'.edges = {}
       /\ budget'.limits = IF seeds = changed THEN {} ELSE {"nodes"}
  BY <1>2, <1>5, <1>6, NothingTyped DEF Budgets, NothingSpent
<1>11. answer' \in Answers /\ answer'.found = TRUE
  BY <1>2, NothingTyped DEF Answers, NoAnswer
<1>12. changed \subseteq Affected /\ IsFiniteSet(Affected)
  <2>1. /\ TRUE \in BOOLEAN /\ MaxDepth \in Nat /\ Ways(Relevant, TRUE) = StepsBack(Relevant)
    BY <1>1, DepthLimit, WaysSteps
  <2>2. Ball(StepsBack(Relevant), changed, 0) \subseteq Ball(StepsBack(Relevant), changed, MaxDepth)
    BY <2>1, BallGrows
  <2>3. \A t \in Ways(Relevant, TRUE) : t[2] \in Nodes BY <1>3, <2>1, WaysInside
  <2>4. Ball(StepsBack(Relevant), changed, MaxDepth) \subseteq Nodes
    BY <1>5, <2>1, <2>3, BallInside
  <2>5. Affected = Ball(StepsBack(Relevant), changed, MaxDepth) BY <1>5 DEF Affected
  <2> QED BY <2>2, <2>4, <2>5, BallZero, SubsetsFinite
<1>13. seeds # changed => Cardinality(Affected) > query.maxNodes
  <2> SUFFICES ASSUME seeds # changed PROVE Cardinality(Affected) > query.maxNodes OBVIOUS
  <2>1. /\ Cardinality(changed) <= Cardinality(Affected) /\ Cardinality(Affected) \in Nat
        /\ Cardinality(changed) \in Nat
    BY <1>12, FS_Subset, FS_CardinalityType
  <2> QED BY <1>1, <1>7, <2>1
<1>14. Origins' = Origins /\ Affected' = Affected /\ FollowedBack' = FollowedBack
       /\ query' = query
  BY <1>1, <1>4 DEF Origins, Affected, FollowedBack, MaxDepth
<1>15. ReverseInv'
  <2>1. /\ adjacency' = Relevant' /\ answer'.found
        /\ Sound(search', adjacency', TRUE, query.depth)
        /\ Closed(search', adjacency', TRUE, query.depth)
    BY <1>2, <1>4, <1>9, <1>11
  <2>2. Roots(search') \subseteq Origins BY <1>5, <1>6, <1>9
  <2>3. Roots(search') # Origins =>
           /\ budget'.limits # {} /\ search'.seen = Roots(search')
           /\ Cardinality(budget'.nodes) >= query.maxNodes
    BY <1>5, <1>7, <1>9, <1>10
  <2>4. budget'.nodes = search'.seen /\ budget'.edges \subseteq FollowedBack BY <1>9, <1>10
  <2>5. budget'.limits # {} => Cardinality(Affected) > query.maxNodes BY <1>10, <1>13
  <2> QED BY <1>1, <1>14, <2>1, <2>2, <2>3, <2>4, <2>5 DEF ReverseInv
<1>16. TraverseInv' /\ PagesInv' /\ WhyInv' /\ ForwardInv' /\ CyclesInv'
       /\ ImpactExact' /\ AttributionExact' /\ PathsShortest' /\ KindsMatch'
  BY <1>1, <1>2 DEF TraverseInv, PagesInv, WhyInv, ForwardInv, CyclesInv,
                    ImpactExact, AttributionExact, PathsShortest, KindsMatch
<1>17. QueryTyped'
  <2>1. search' \in SearchRecords BY <1>9 DEF Sound
  <2> QED BY <1>1, <1>2, <1>3, <1>10, <1>11, <2>1 DEF SearchInv, QueryTyped, Searches
<1> QED BY <1>15, <1>16, <1>17 DEF SearchInv

-----------------------------------------------------------------------------
\* A set of edges is finite.
LEMMA EdgesFinite ==
    ASSUME NEW S \in SUBSET Edges PROVE IsFiniteSet(S) /\ Cardinality(S) \in Nat
<1> DEFINE N == Nodes
           P == Profiles \cup {0}
           f == [x \in (N \X N) \X P |-> <<x[1][1], x[1][2], x[2]>>]
<1>1. IsFiniteSet(P)
  BY QueryAssumption, FS_AddElement
<1>2. IsFiniteSet((N \X N) \X P) BY <1>1, NodesFinite, FS_Product
<1>3. \A x \in (N \X N) \X P : f[x] \in Edges BY DEF Edges
<1>4. \A e \in Edges : \E x \in (N \X N) \X P : f[x] = e
  <2> TAKE e \in Edges
  <2>1. PICK n \in N, m \in N, p \in P : e = <<n, m, p>> BY DEF Edges
  <2>2. <<<<n, m>>, p>> \in (N \X N) \X P OBVIOUS
  <2>3. f[<<<<n, m>>, p>>] = e BY <2>1, <2>2
  <2> QED BY <2>2, <2>3
<1>5. f \in Surjection((N \X N) \X P, Edges)
  <2>1. f \in [(N \X N) \X P -> Edges] BY <1>3
  <2> HIDE DEF f
  <2> QED BY <1>4, <2>1 DEF Surjection
<1>6. IsFiniteSet(Edges) BY <1>2, <1>5, FS_Surjection
<1> QED BY <1>6, FS_Subset, FS_CardinalityType

\* A set that lacks an element and has k others is part of one with more than k.
LEMMA OneMore ==
    ASSUME NEW F, IsFiniteSet(F), NEW S \in SUBSET F, NEW x \in F, x \notin S,
           NEW k \in Nat, ~(Cardinality(S) < k)
    PROVE  Cardinality(F) > k
<1>1. IsFiniteSet(S) /\ Cardinality(S) \in Nat /\ Cardinality(F) \in Nat
  BY FS_Subset, FS_CardinalityType
<1>2. IsFiniteSet(S \cup {x}) /\ Cardinality(S \cup {x}) = Cardinality(S) + 1
  BY <1>1, FS_AddElement
<1>3. Cardinality(S \cup {x}) <= Cardinality(F) BY FS_Subset
<1> QED BY <1>1, <1>2, <1>3

\* What a reverse search has reached is affected, and so is the far end of each
\* pending edge.
LEMMA BackwardReach ==
    ASSUME Relevant \in SUBSET Edges, query.depth \in Depths, Origins \in SUBSET Nodes,
           Sound(search, Relevant, TRUE, query.depth), Roots(search) \subseteq Origins
    PROVE  /\ Affected \in SUBSET Nodes
           /\ search.seen \subseteq Affected
           /\ \A e \in search.pending : e \in FollowedBack /\ Source(e) \in Affected
<1> DEFINE steps == StepsBack(Relevant)
           B(k) == Ball(steps, Origins, k)
<1>1. /\ query.depth \in SUBSET Nat /\ MaxDepth \in Nat /\ MaxDepth <= Everywhere
      /\ MaxDepth = Everywhere \/ MaxDepth \in query.depth
      /\ steps = Ways(Relevant, TRUE) /\ Everywhere \in Nat /\ TRUE \in BOOLEAN
  BY DepthLimit, WaysSteps, NodesFinite DEF Everywhere
<1>2. ASSUME NEW n \in search.seen
      PROVE  /\ search.depths[n] \in Nat /\ n \in B(search.depths[n])
             /\ search.depths[n] <= Everywhere - 1 /\ search.depths[n] <= MaxDepth
  <2>1. search.depths[n] \in Nat /\ search.depths[n] <= Everywhere - 1
    <3>1. Sound(search, Relevant, TRUE, query.depth) /\ n \in search.seen OBVIOUS
    <3> QED BY <1>1, <3>1, DepthBounded, Zenon DEF Everywhere
  <2>2. n \in Ball(steps, Roots(search), search.depths[n])
    BY <1>1 DEF Sound, Exact, Near
  <2>3. n \in B(search.depths[n]) BY <2>1, <2>2, BallMonotone
  <2>4. \A limit \in query.depth : search.depths[n] <= limit BY DEF Sound, Limited
  <2>5. search.depths[n] <= MaxDepth
    <3>1. CASE MaxDepth = Everywhere BY <1>1, <2>1, <3>1
    <3>2. CASE MaxDepth \in query.depth BY <2>4, <3>2
    <3> QED BY <1>1, <3>1, <3>2
  <2> QED BY <2>1, <2>3, <2>5
<1>3. search.seen \subseteq Affected
  <2> SUFFICES ASSUME NEW n \in search.seen PROVE n \in Affected OBVIOUS
  <2>1. B(search.depths[n]) \subseteq B(MaxDepth) BY <1>1, <1>2, BallGrows
  <2> QED BY <1>2, <2>1 DEF Affected
<1>4. Affected \in SUBSET Nodes
  <2>1. \A t \in Ways(Relevant, TRUE) : t[2] \in Nodes BY <1>1, WaysInside
  <2>2. Ball(steps, Origins, MaxDepth) \subseteq Nodes BY <1>1, <2>1, BallInside
  <2> QED BY <2>2 DEF Affected
<1>5. ASSUME NEW e \in search.pending PROVE e \in FollowedBack /\ Source(e) \in Affected
  <2> DEFINE n == Target(e)
             d == search.depths[n]
  <2>1. e \in Relevant /\ n \in search.seen /\ ~Deep(search, query.depth, n)
    BY DEF Sound, Ordered, Limited, from
  <2>2. d \in Nat /\ n \in B(d) /\ d <= Everywhere - 1 BY <1>2, <2>1
  <2>3. \A limit \in query.depth : ~(d >= limit) BY <2>1 DEF Deep
  <2> HIDE DEF n, d
  <2>4. d + 1 <= MaxDepth BY <1>1, <2>2, <2>3
  <2>5. MaxDepth > 0 /\ MaxDepth - 1 \in Nat /\ d <= MaxDepth - 1 BY <1>1, <2>2, <2>4
  <2>6. B(d) \subseteq B(MaxDepth - 1) BY <2>2, <2>5, BallGrows
  <2>7. e \in FollowedBack BY <2>1, <2>2, <2>5, <2>6 DEF FollowedBack, n
  <2>8. <<n, Source(e)>> \in steps BY <2>1 DEF StepsBack, n
  <2>9. Source(e) \in B(d + 1) BY <2>2, <2>8, BallStep
  <2>10. B(d + 1) \subseteq B(MaxDepth)
    <3>1. d + 1 \in Nat BY <2>2
    <3> QED BY <1>1, <2>4, <3>1, BallGrows
  <2> QED BY <2>7, <2>9, <2>10 DEF Affected
<1> QED BY <1>3, <1>4, <1>5

\* The origins are nodes.
LEMMA OriginsTyped ==
    ASSUME query \in Queries, query.kind \in {"impact", "changes"}
    PROVE  Origins \in SUBSET Nodes
BY Queried DEF Origins

\* An edge of the reverse search keeps the invariant: in a change set an edge or a node
\* that the budget refuses is one more than the limit allows.
LEMMA VisitReverseKeeps ==
    ASSUME SearchInv, VisitAdmitting, pc = "reverse" PROVE SearchInv'
<1>1. /\ pc' = "reverse" /\ search.pending # {}
      /\ UNCHANGED <<graph, query, adjacency, answer, pages>>
  BY DEF VisitAdmitting, Visiting
<1>2. /\ query \in Queries /\ graph \in Graphs /\ query.kind \in {"impact", "changes"}
      /\ budget \in Budgets /\ query.depth \in Depths
      /\ query.maxNodes \in Nat /\ query.maxEdges \in Nat /\ Origins \in SUBSET Nodes
  BY <1>1, Queried, OriginsTyped DEF SearchInv, QueryTyped, KindsMatch
<1>3. /\ adjacency = Relevant /\ answer.found
      /\ Sound(search, adjacency, TRUE, query.depth)
      /\ Closed(search, adjacency, TRUE, query.depth)
      /\ query.kind = "impact" => Roots(search) = {query.root} /\ ImpactFound
  BY <1>1 DEF SearchInv, ReverseInv, Going
<1>4. query.kind = "changes" =>
        /\ Roots(search) \subseteq Origins
        /\ Roots(search) # Origins =>
              /\ budget.limits # {} /\ search.seen = Roots(search)
              /\ Cardinality(budget.nodes) >= query.maxNodes
        /\ budget.nodes = search.seen
        /\ budget.edges \subseteq FollowedBack
        /\ budget.limits # {} => \/ Cardinality(Affected) > query.maxNodes
                                 \/ Cardinality(FollowedBack) > query.maxEdges
  BY <1>1 DEF SearchInv, ReverseInv
<1>5. Relevant' = Relevant BY <1>1 DEF Relevant, Matching, matches
<1>6. adjacency \in SUBSET Edges /\ search.pending \subseteq Edges
      /\ query.depth \in SUBSET Nat
  BY <1>2, <1>3, GraphTyped, DepthLimit DEF Sound, SearchRecords
<1>7. /\ Backward \in BOOLEAN
      /\ Sound(search, adjacency, Backward, query.depth)
      /\ Closed(search, adjacency, Backward, query.depth)
      /\ Backward = TRUE
  BY <1>1, <1>2, <1>3 DEF Backward
<1>8. Edge \in search.pending /\ budget' \in Budgets BY <1>2, <1>6, Admitting
<1>9. TraverseInv' /\ PagesInv' /\ WhyInv' /\ ForwardInv' /\ CyclesInv'
      /\ ImpactExact' /\ AttributionExact' /\ PathsShortest'
  BY <1>1 DEF TraverseInv, PagesInv, WhyInv, ForwardInv, CyclesInv,
              ImpactExact, AttributionExact, PathsShortest
<1>10. KindsMatch' BY <1>1, <1>2 DEF KindsMatch
<1>11. Beyond(Edge) = Source(Edge) BY <1>7 DEF Beyond
<1>12. query.kind = "changes" =>
         /\ Edge \in FollowedBack /\ Source(Edge) \in Affected /\ search.seen \subseteq Affected
         /\ IsFiniteSet(Affected) /\ IsFiniteSet(FollowedBack)
  <2> SUFFICES ASSUME query.kind = "changes"
               PROVE  /\ Edge \in FollowedBack /\ Source(Edge) \in Affected
                      /\ search.seen \subseteq Affected
                      /\ IsFiniteSet(Affected) /\ IsFiniteSet(FollowedBack)
    OBVIOUS
  <2>1. /\ Affected \in SUBSET Nodes /\ search.seen \subseteq Affected
        /\ \A e \in search.pending : e \in FollowedBack /\ Source(e) \in Affected
    BY <1>2, <1>3, <1>4, <1>6, BackwardReach
  <2>2. FollowedBack \in SUBSET Edges BY <1>3, <1>6 DEF FollowedBack
  <2> QED BY <1>8, <2>1, <2>2, SubsetsFinite, EdgesFinite
<1>13. /\ Origins' = Origins /\ Affected' = Affected /\ FollowedBack' = FollowedBack
       /\ query' = query /\ (ImpactFound' <=> ImpactFound)
  BY <1>1, <1>5 DEF Origins, Affected, FollowedBack, MaxDepth, ImpactFound, Reachable
<1> DEFINE Kept ==
        /\ Sound(search', adjacency, TRUE, query.depth) /\ Roots(search') = Roots(search)
        /\ Going(search') \/ budget'.limits = {} => Closed(search', adjacency, TRUE, query.depth)
        /\ query.kind = "changes" =>
              /\ Roots(search) # Origins =>
                    /\ budget'.limits # {} /\ search'.seen = Roots(search)
                    /\ Cardinality(budget'.nodes) >= query.maxNodes
              /\ budget'.nodes = search'.seen /\ budget'.edges \subseteq FollowedBack
              /\ budget'.limits # {} => \/ Cardinality(Affected) > query.maxNodes
                                        \/ Cardinality(FollowedBack) > query.maxEdges
<1> SUFFICES Kept
  <2>1. search' \in SearchRecords BY DEF Sound
  <2>2. ReverseInv' BY <1>1, <1>2, <1>3, <1>4, <1>5, <1>13 DEF ReverseInv
  <2> QED BY <1>1, <1>8, <1>9, <1>10, <2>1, <2>2 DEF SearchInv, QueryTyped
<1>14. CASE /\ ~EdgeFits(Edge) /\ search' = Stopped(search)
            /\ Spent(budget.edges, budget.nodes, budget.limits \cup {"edges"})
  <2>1. /\ Sound(search', adjacency, TRUE, query.depth) /\ ~Going(search')
        /\ search'.seen = search.seen /\ Roots(search') = Roots(search)
    <3>1. /\ Sound(Stopped(search), adjacency, Backward, query.depth)
          /\ ~Going(Stopped(search)) /\ Stopped(search).seen = search.seen
          /\ Roots(Stopped(search)) = Roots(search)
      BY <1>6, <1>7, HaltedKeeps
    <3> QED BY <1>7, <1>14, <3>1
  <2>2. query.kind = "changes" => Cardinality(FollowedBack) > query.maxEdges
    BY <1>2, <1>4, <1>12, <1>14, OneMore DEF EdgeFits
  <2> QED BY <1>4, <1>14, <2>1, <2>2 DEF Spent
<1>15. CASE /\ EdgeFits(Edge) /\ Beyond(Edge) \notin search.seen
            /\ ~NodeFits(Beyond(Edge)) /\ search' = Stopped(search)
            /\ Spent(budget.edges \cup {Edge}, budget.nodes, budget.limits \cup {"nodes"})
  <2>1. /\ Sound(search', adjacency, TRUE, query.depth) /\ ~Going(search')
        /\ search'.seen = search.seen /\ Roots(search') = Roots(search)
    <3>1. /\ Sound(Stopped(search), adjacency, Backward, query.depth)
          /\ ~Going(Stopped(search)) /\ Stopped(search).seen = search.seen
          /\ Roots(Stopped(search)) = Roots(search)
      BY <1>6, <1>7, HaltedKeeps
    <3> QED BY <1>7, <1>15, <3>1
  <2>2. query.kind = "changes" => Cardinality(Affected) > query.maxNodes
    <3> SUFFICES ASSUME query.kind = "changes" PROVE Cardinality(Affected) > query.maxNodes
      OBVIOUS
    <3>1. search.seen \in SUBSET Affected /\ Source(Edge) \in Affected \ search.seen
          /\ ~(Cardinality(search.seen) < query.maxNodes)
      BY <1>4, <1>11, <1>12, <1>15 DEF NodeFits
    <3> QED BY <1>2, <1>12, <3>1, OneMore
  <2> QED BY <1>4, <1>12, <1>15, <2>1, <2>2 DEF Spent
<1>16. CASE /\ EdgeFits(Edge) /\ Beyond(Edge) \notin search.seen /\ NodeFits(Beyond(Edge))
            /\ search' = IF pc = "forward" /\ Beyond(Edge) \in query.changed
                         THEN Stopped(Reached(Edge)) ELSE Reached(Edge)
            /\ Spent(budget.edges \cup {Edge}, budget.nodes \cup {Beyond(Edge)}, budget.limits)
  <2>1. search' = Reached(Edge) BY <1>1, <1>16
  <2>2. /\ Sound(search', adjacency, TRUE, query.depth)
        /\ Closed(search', adjacency, TRUE, query.depth)
        /\ Roots(search') = Roots(search) /\ search'.seen = search.seen \cup {Beyond(Edge)}
    <3>1. /\ Sound(Reached(Edge), adjacency, Backward, query.depth)
          /\ Closed(Reached(Edge), adjacency, Backward, query.depth)
          /\ Roots(Reached(Edge)) = Roots(search)
          /\ Reached(Edge).seen = search.seen \cup {Beyond(Edge)}
      <4> DEFINE e == Edge
                 L == query.depth
      <4>1. /\ e \in search.pending /\ Beyond(e) \notin search.seen
            /\ adjacency \in SUBSET Edges /\ Backward \in BOOLEAN /\ L \in SUBSET Nat
            /\ Sound(search, adjacency, Backward, L) /\ Closed(search, adjacency, Backward, L)
        BY <1>6, <1>7, <1>8, <1>16
      <4> HIDE DEF e, L
      <4>2. /\ Sound(Reached(e), adjacency, Backward, L)
            /\ Closed(Reached(e), adjacency, Backward, L)
            /\ Roots(Reached(e)) = Roots(search)
            /\ Reached(e).seen = search.seen \cup {Beyond(e)}
        BY <4>1, ReachedKeeps
      <4> QED BY <4>2 DEF e, L
    <3> QED BY <1>7, <2>1, <3>1
  <2>3. query.kind = "changes" => Roots(search) = Origins
    <3> SUFFICES ASSUME query.kind = "changes", Roots(search) # Origins PROVE FALSE OBVIOUS
    <3>1. Cardinality(search.seen) < query.maxNodes BY <1>4, <1>16 DEF NodeFits
    <3>2. Cardinality(search.seen) >= query.maxNodes BY <1>4
    <3>3. Cardinality(search.seen) \in Nat
      <4>1. search.seen \in SUBSET Nodes BY <1>3 DEF Sound, SearchRecords
      <4> QED BY <4>1, SubsetsFinite
    <3> QED BY <1>2, <3>1, <3>2, <3>3
  <2> QED BY <1>4, <1>12, <1>16, <2>2, <2>3 DEF Spent
<1>17. CASE /\ EdgeFits(Edge) /\ Beyond(Edge) \in search.seen
            /\ search' = Passed(Edge)
            /\ Spent(budget.edges \cup {Edge}, budget.nodes, budget.limits)
  <2>1. /\ Sound(search', adjacency, TRUE, query.depth)
        /\ Closed(search', adjacency, TRUE, query.depth)
        /\ Roots(search') = Roots(search) /\ search'.seen = search.seen
    BY <1>6, <1>7, <1>8, <1>17, PassedKeeps
  <2> QED BY <1>4, <1>12, <1>17, <2>1 DEF Spent
<1> HIDE DEF Kept
<1> QED BY <1>2, <1>6, <1>14, <1>15, <1>16, <1>17, Admitting

\* Each node that the reverse search has reached is affected, at its distance from all
\* the origins, by a walk to one of them, also when the seeds are not all of them.
LEMMA ReverseReached ==
    ASSUME graph \in Graphs, query \in Queries, query.kind \in {"impact", "changes"},
           adjacency = Relevant, Sound(search, adjacency, TRUE, query.depth),
           Roots(search) \subseteq Origins,
           Roots(search) # Origins => search.seen = Roots(search),
           NEW n \in search.seen
    PROVE  /\ n \in Affected
           /\ search.depths[n] = Distance(StepsBack(Relevant), Origins, n)
           /\ Len(PathFrom(n)) = search.depths[n]
           /\ \E o \in Roots(search) :
                 /\ Walk(PathFrom(n), n, o)
                 /\ n \in Ball(StepsBack(Within(adjacency, search.seen)), {o}, MaxDepth)
<1>1. /\ query.depth \in Depths /\ Origins \in SUBSET Nodes /\ Relevant \in SUBSET Edges
      /\ n \in Nodes /\ adjacency \in SUBSET Edges
  BY Queried, OriginsTyped, GraphTyped DEF Sound, SearchRecords
<1>2. /\ query.depth \in SUBSET Nat /\ MaxDepth \in Nat
      /\ MaxDepth = Everywhere \/ MaxDepth \in query.depth
      /\ Everywhere \in Nat /\ TRUE \in BOOLEAN
      /\ Ways(Relevant, TRUE) = StepsBack(Relevant)
  BY <1>1, DepthLimit, WaysSteps, NodesFinite DEF Everywhere
<1>3. n \in Affected BY <1>1, BackwardReach
<1>4. /\ search.depths[n] \in Nat
      /\ Distance(StepsBack(adjacency), Roots(search), n) = search.depths[n]
  <2>1. PICK back \in BOOLEAN : back = TRUE OBVIOUS
  <2>2. Sound(search, adjacency, back, query.depth) BY <2>1
  <2>3. search.depths[n] \in Nat BY <1>1, <2>2, SeenDistance
  <2>4. Distance(Ways(adjacency, back), Roots(search), n) = search.depths[n]
    BY <1>1, <2>2, SeenDistance
  <2> QED BY <1>2, <2>1, <2>3, <2>4
<1>5. search.depths[n] = Distance(StepsBack(Relevant), Origins, n)
  <2>1. CASE Roots(search) = Origins BY <1>4, <2>1
  <2>2. CASE Roots(search) # Origins
    <3>1. search.depths[n] = 0 /\ n \in Origins BY <2>2 DEF Roots
    <3>2. PICK back \in BOOLEAN : back = TRUE OBVIOUS
    <3>3. n \in Ball(Ways(Relevant, back), Origins, 0) BY <3>1, BallZero
    <3>4. \A k \in 0..0 - 1 : n \notin Ball(Ways(Relevant, back), Origins, k) OBVIOUS
    <3>5. 0 \in Nat OBVIOUS
    <3>6. Distance(Ways(Relevant, back), Origins, n) = 0 BY <1>1, <3>3, <3>4, <3>5, DistanceIs
    <3> QED BY <1>2, <3>1, <3>2, <3>6
  <2> QED BY <2>1, <2>2
<1>6. /\ Len(PathFrom(n)) = search.depths[n]
      /\ \E r \in Roots(search) :
            /\ Walk(PathFrom(n), n, r)
            /\ n \in Ball(StepsBack(Within(adjacency, search.seen)), {r}, search.depths[n])
  BY <1>1, PathFromWalks
<1>7. search.depths[n] <= MaxDepth
  <2>1. search.depths[n] <= Cardinality(Nodes) - 1 /\ Cardinality(Nodes) \in Nat
    <3>1. Sound(search, adjacency, TRUE, query.depth) OBVIOUS
    <3> QED BY <1>1, <1>2, <3>1, DepthBounded, NodesFinite, Zenon
  <2>2. \A limit \in query.depth : search.depths[n] <= limit BY DEF Sound, Limited
  <2>3. CASE MaxDepth = Everywhere BY <1>4, <2>1, <2>3 DEF Everywhere
  <2>4. CASE MaxDepth \in query.depth BY <2>2, <2>4
  <2> QED BY <1>2, <2>3, <2>4
<1>8. PICK r \in Roots(search) :
            /\ Walk(PathFrom(n), n, r)
            /\ n \in Ball(StepsBack(Within(adjacency, search.seen)), {r}, search.depths[n])
  BY <1>6
<1>9. n \in Ball(StepsBack(Within(adjacency, search.seen)), {r}, MaxDepth)
  BY <1>2, <1>4, <1>7, <1>8, BallGrows
<1> QED BY <1>3, <1>5, <1>6, <1>8, <1>9

\* A reverse search that no limit stopped has reached every affected node, and inside
\* what it reached each set of origins reaches what it does in the whole graph.
LEMMA ReverseComplete ==
    ASSUME graph \in Graphs, query \in Queries, query.kind \in {"impact", "changes"},
           adjacency = Relevant, Sound(search, adjacency, TRUE, query.depth),
           Closed(search, adjacency, TRUE, query.depth), ~Going(search),
           Roots(search) = Origins
    PROVE  /\ Affected \subseteq search.seen
           /\ \A S \in SUBSET Origins :
                 Ball(StepsBack(Within(adjacency, search.seen)), S, MaxDepth)
                    = Ball(StepsBack(Relevant), S, MaxDepth)
<1>1. /\ query.depth \in Depths /\ Origins \in SUBSET Nodes /\ Relevant \in SUBSET Edges
      /\ adjacency \in SUBSET Edges
  BY Queried, OriginsTyped, GraphTyped
<1>2. /\ query.depth \in SUBSET Nat /\ MaxDepth \in Nat
      /\ \A limit \in query.depth : MaxDepth <= limit
      /\ TRUE \in BOOLEAN
      /\ Ways(Relevant, TRUE) = StepsBack(Relevant)
  BY <1>1, DepthLimit, WaysSteps
<1>3. Affected \subseteq search.seen
  <2>1. Near(search, adjacency, TRUE, MaxDepth)
          \subseteq { n \in search.seen : search.depths[n] <= MaxDepth }
    <3>1. Sound(search, adjacency, TRUE, query.depth) OBVIOUS
    <3>2. Closed(search, adjacency, TRUE, query.depth) OBVIOUS
    <3> QED BY <1>1, <1>2, <3>1, <3>2, CompleteSeesAll
  <2>2. Near(search, adjacency, TRUE, MaxDepth) = Affected BY <1>2 DEF Near, Affected
  <2> QED BY <2>1, <2>2
<1>4. ASSUME NEW S \in SUBSET Origins
      PROVE  Ball(StepsBack(Within(adjacency, search.seen)), S, MaxDepth)
                = Ball(StepsBack(Relevant), S, MaxDepth)
  <2> DEFINE inner == StepsBack(Within(adjacency, search.seen))
             steps == StepsBack(Relevant)
             B(k) == Ball(steps, S, k)
             C(k) == Ball(inner, S, k)
             T == { k \in Nat : k <= MaxDepth => B(k) \subseteq C(k) }
  <2>1. inner \subseteq steps BY DEF StepsBack, Within
  <2>2. C(MaxDepth) \subseteq B(MaxDepth) BY <1>2, <2>1, BallMonotone
  <2>3. \A k \in Nat : k <= MaxDepth => B(k) \subseteq search.seen
    <3> SUFFICES ASSUME NEW k \in Nat, k <= MaxDepth PROVE B(k) \subseteq search.seen OBVIOUS
    <3>1. B(k) \subseteq B(MaxDepth) BY <1>2, BallGrows
    <3>2. steps \subseteq steps OBVIOUS
    <3> HIDE DEF steps
    <3>3. B(MaxDepth) \subseteq Ball(steps, Origins, MaxDepth) BY <1>2, <3>2, BallMonotone
    <3> QED BY <1>3, <3>1, <3>3 DEF Affected, steps
  <2>4. 0 \in T BY BallZero
  <2>5. ASSUME NEW k \in Nat, k \in T PROVE k + 1 \in T
    <3> SUFFICES ASSUME k + 1 <= MaxDepth, NEW n \in B(k + 1) PROVE n \in C(k + 1) OBVIOUS
    <3>1. k <= MaxDepth /\ k + 1 \in Nat /\ B(k) \subseteq C(k) BY <1>2, <2>5
    <3>2. CASE n \in B(k)
      <4>1. C(k) \subseteq C(k + 1) BY <3>1, BallGrows
      <4> QED BY <3>1, <3>2, <4>1
    <3>3. CASE n \notin B(k)
      <4>1. PICK t \in steps : t[1] \in B(k) /\ t[2] = n BY <3>3, BallBack
      <4>2. PICK e \in Relevant : t = <<Target(e), Source(e)>> BY <4>1 DEF StepsBack
      <4>3. Target(e) \in search.seen /\ Source(e) \in search.seen
        BY <2>3, <3>1, <4>1, <4>2
      <4>4. t \in inner BY <4>2, <4>3 DEF StepsBack, Within
      <4>5. t[1] \in C(k) BY <3>1, <4>1
      <4> HIDE DEF inner
      <4> QED BY <4>1, <4>4, <4>5, BallStep
    <3> QED BY <3>2, <3>3
  <2> HIDE DEF T
  <2>6. Nat \subseteq T BY <2>4, <2>5, Induction
  <2>7. B(MaxDepth) \subseteq C(MaxDepth) BY <1>2, <2>6 DEF T
  <2> QED BY <2>2, <2>7
<1> QED BY <1>3, <1>4

\* The end of the reverse search keeps the invariant: it makes the impact exact, and
\* the attribution of each node to changed paths.
LEMMA EndReverseKeeps ==
    ASSUME SearchInv, EndReverse PROVE SearchInv'
<1>1. /\ pc = "reverse" /\ ~Going(search) /\ pc' \in {"done", "failed"}
      /\ UNCHANGED <<graph, query, adjacency, search, budget, pages>>
  BY DEF EndReverse, Ended, Going
<1>2. /\ query \in Queries /\ graph \in Graphs /\ query.kind \in {"impact", "changes"}
      /\ answer \in Answers /\ Origins \in SUBSET Nodes
      /\ query.kind = "changes" => query.mapped \in [Paths -> SUBSET Nodes]
  BY <1>1, Queried, OriginsTyped DEF SearchInv, QueryTyped, KindsMatch
<1>3. /\ adjacency = Relevant /\ answer.found
      /\ Sound(search, adjacency, TRUE, query.depth)
      /\ budget.limits = {} => Closed(search, adjacency, TRUE, query.depth)
      /\ query.kind = "impact" => Roots(search) = {query.root} /\ ImpactFound
      /\ query.kind = "changes" =>
            /\ Roots(search) \subseteq Origins
            /\ Roots(search) # Origins => budget.limits # {} /\ search.seen = Roots(search)
            /\ budget.limits # {} => \/ Cardinality(Affected) > query.maxNodes
                                     \/ Cardinality(FollowedBack) > query.maxEdges
  BY <1>1 DEF SearchInv, ReverseInv
<1>4. /\ Roots(search) \subseteq Origins
      /\ Roots(search) # Origins => budget.limits # {} /\ search.seen = Roots(search)
  BY <1>2, <1>3 DEF Origins
<1>5. /\ Relevant' = Relevant /\ Origins' = Origins /\ MaxDepth' = MaxDepth
      /\ query' = query /\ search' = search /\ budget' = budget
  BY <1>1 DEF Relevant, Matching, matches, Origins, MaxDepth
<1>6. \A n \in search.seen :
         /\ n \in Affected
         /\ search.depths[n] = Distance(StepsBack(Relevant), Origins, n)
         /\ Len(PathFrom(n)) = search.depths[n]
         /\ \E o \in Roots(search) :
               /\ Walk(PathFrom(n), n, o)
               /\ n \in Ball(StepsBack(Within(adjacency, search.seen)), {o}, MaxDepth)
  <2> TAKE n \in search.seen
  <2>1. Roots(search) # Origins => search.seen = Roots(search) BY <1>4
  <2> QED BY <1>2, <1>3, <1>4, <2>1, ReverseReached
<1>7. budget.limits = {} =>
        /\ Roots(search) = Origins /\ Affected \subseteq search.seen
        /\ \A S \in SUBSET Origins :
              Ball(StepsBack(Within(adjacency, search.seen)), S, MaxDepth)
                 = Ball(StepsBack(Relevant), S, MaxDepth)
  <2> SUFFICES ASSUME budget.limits = {}
               PROVE  /\ Roots(search) = Origins /\ Affected \subseteq search.seen
                      /\ \A S \in SUBSET Origins :
                            Ball(StepsBack(Within(adjacency, search.seen)), S, MaxDepth)
                               = Ball(StepsBack(Relevant), S, MaxDepth)
    OBVIOUS
  <2>1. Roots(search) = Origins BY <1>4
  <2>2. Closed(search, adjacency, TRUE, query.depth) BY <1>3
  <2> QED BY <1>1, <1>2, <1>3, <2>1, <2>2, ReverseComplete
<1>8. \A n : PathFrom(n)' = PathFrom(n) BY <1>5 DEF PathFrom
<1>9. answer' \in Answers /\ answer'.found = answer.found /\ answer'.path = answer.path
  <2>1. CASE query.kind = "impact" BY <1>2, <2>1 DEF EndReverse
  <2>2. CASE query.kind # "impact"
    <3> DEFINE paths == [n \in Nodes |-> { p \in Paths : n \in Attributed(p) }]
    <3>1. paths \in [Nodes -> SUBSET Paths] OBVIOUS
    <3>2. answer' = [answer EXCEPT !.paths = paths] BY <2>2 DEF EndReverse
    <3> HIDE DEF paths
    <3> QED BY <1>2, <3>1, <3>2 DEF Answers
  <2> QED BY <2>1, <2>2
<1>10. TraverseInv' /\ PagesInv' /\ ForwardInv' /\ ReverseInv' /\ CyclesInv' /\ WhyInv'
  BY <1>1 DEF TraverseInv, PagesInv, ForwardInv, ReverseInv, CyclesInv, WhyInv
<1>11. KindsMatch' BY <1>1, <1>2 DEF KindsMatch
<1>12. ImpactExact'
  <2>1. \A n \in search.seen :
          /\ search.depths[n] = Distance(StepsBack(Relevant), Origins, n)
          /\ Len(PathFrom(n)) = search.depths[n]
          /\ \E o \in Origins : Walk(PathFrom(n), n, o)
    BY <1>4, <1>6
  <2>2. search.seen \subseteq Affected BY <1>6
  <2>3. budget.limits = {} => search.seen = Affected BY <1>7, <2>2
  <2>4. query.kind = "changes" /\ budget.limits # {} =>
          \/ Cardinality(Affected) > query.maxNodes
          \/ Cardinality(FollowedBack) > query.maxEdges
    BY <1>3
  <2> QED BY <1>1, <1>5, <1>8, <2>1, <2>2, <2>3, <2>4
          DEF ImpactExact, Affected, FollowedBack, Relevant, MaxDepth
<1>13. AttributionExact'
  <2> SUFFICES ASSUME query.kind = "changes" PROVE AttributionExact'
    BY <1>5 DEF AttributionExact
  <2>1. answer' = [answer EXCEPT !.paths =
                     [n \in Nodes |-> { p \in Paths : n \in Attributed(p) }]]
    BY DEF EndReverse
  <2>2. ASSUME NEW n \in Nodes
        PROVE  answer'.paths[n] = { p \in Paths : n \in Attributed(p) }
    BY <1>2, <2>1 DEF Answers
  <2>3. search.seen \subseteq Nodes BY <1>3 DEF Sound, SearchRecords
  <2>4. ASSUME NEW n \in search.seen
        PROVE  \E p \in answer'.paths[n], o \in Origins :
                  o \in query.mapped[p] /\ Walk(PathFrom(n), n, o)
    <3>1. PICK r \in Roots(search) :
            /\ Walk(PathFrom(n), n, r)
            /\ n \in Ball(StepsBack(Within(adjacency, search.seen)), {r}, MaxDepth)
      BY <1>6
    <3>2. PICK p \in Paths : r \in query.mapped[p]
      BY <1>4 DEF Origins
    <3>3. {r} \subseteq SeedsOf(p) BY <3>2 DEF SeedsOf, Roots
    <3>4. MaxDepth \in Nat BY <1>2, Queried, DepthLimit
    <3>5. n \in Attributed(p)
      <4> DEFINE inner == StepsBack(Within(adjacency, search.seen))
      <4>1. inner \subseteq inner OBVIOUS
      <4>2. Ball(inner, {r}, MaxDepth) \subseteq Ball(inner, SeedsOf(p), MaxDepth)
        <5> HIDE DEF inner
        <5> QED BY <3>3, <3>4, <4>1, BallMonotone
      <4> QED BY <3>1, <4>2 DEF Attributed, MaxDepth
    <3>6. p \in answer'.paths[n] BY <2>2, <2>3, <3>5
    <3> QED BY <1>4, <3>1, <3>2, <3>6
  <2>5. ASSUME budget.limits = {}, NEW n \in search.seen
        PROVE  answer'.paths[n] =
                  { p \in Paths : n \in Ball(StepsBack(Relevant), query.mapped[p], MaxDepth) }
    <3>1. ASSUME NEW p \in Paths
          PROVE  Attributed(p) = Ball(StepsBack(Relevant), query.mapped[p], MaxDepth)
      <4>1. query.mapped[p] \subseteq Origins BY DEF Origins
      <4>2. SeedsOf(p) = query.mapped[p] BY <1>7, <2>5, <4>1 DEF SeedsOf, Roots
      <4> QED BY <1>7, <2>5, <4>1, <4>2 DEF Attributed, MaxDepth
    <3> QED BY <2>2, <2>3, <3>1
  <2> QED BY <1>1, <1>5, <1>8, <2>4, <2>5 DEF AttributionExact, Relevant, MaxDepth
<1>14. PathsShortest'
  <2>1. query.kind = "impact" => ImpactFound BY <1>3
  <2>2. answer'.found = TRUE BY <1>2, <1>3, <1>9 DEF Answers
  <2>3. (Reachable # {}) = TRUE \/ query.kind # "impact" BY <2>1 DEF ImpactFound
  <2> QED BY <1>1, <1>2, <1>5, <1>9, <2>1, <2>2, <2>3
          DEF PathsShortest, ImpactFound, Reachable, Relevant
<1> QED BY <1>1, <1>9, <1>10, <1>11, <1>12, <1>13, <1>14 DEF SearchInv, QueryTyped

-----------------------------------------------------------------------------
\* The nodes whose edges a traversal is about.
Expanded == IF query.transitive THEN Closure(Ways(Relevant, query.reverse), {query.root})
            ELSE {query.root}

\* The wanted edges, in terms of the direction of the search.
LEMMA WantedIs ==
    ASSUME query.reverse \in BOOLEAN
    PROVE  Wanted = { e \in Relevant : from(query.reverse, e) \in Expanded }
<1>1. Ways(Relevant, query.reverse)
        = IF query.reverse THEN StepsBack(Relevant) ELSE Steps(Relevant)
  <2>1. CASE query.reverse = TRUE BY <2>1 DEF Ways, StepsBack, from, to
  <2>2. CASE query.reverse = FALSE BY <2>2 DEF Ways, Steps, from, to
  <2> QED BY <2>1, <2>2
<1>2. \A e : from(query.reverse, e) = IF query.reverse THEN Target(e) ELSE Source(e)
  BY DEF from
<1> DEFINE steps == IF query.reverse THEN StepsBack(Relevant) ELSE Steps(Relevant)
<1>3. Wanted = { e \in Relevant : (IF query.reverse THEN Target(e) ELSE Source(e)) \in
                   (IF query.transitive THEN Closure(steps, {query.root}) ELSE {query.root}) }
  BY DEF Wanted, Relevant
<1> QED BY <1>1, <1>2, <1>3 DEF Expanded

\* Starting a traversal keeps the invariant, also when the adjacency is cut short.
LEMMA StartTraverseKeeps ==
    ASSUME SearchInv, StartTraverse PROVE SearchInv'
<1>1. /\ pc = "start" /\ query.kind = "traverse" /\ pc' = "traverse"
      /\ UNCHANGED <<graph, query, answer, pages>>
      /\ query.root \in Nodes /\ query.reverse \in BOOLEAN /\ query.transitive \in BOOLEAN
      /\ graph \in Graphs /\ query \in Queries
      /\ search' = Rooted({query.root}, <<query.root>>)
  BY Queried DEF StartTraverse, SearchInv, QueryTyped
<1>2. PICK inspected \in Inspections :
        /\ adjacency' = Matching(inspected)
        /\ budget' = [NothingSpent EXCEPT !.limits =
                          IF inspected = graph THEN {} ELSE {"adjacency"}]
  BY DEF StartTraverse
<1>3. graph \in SUBSET Edges /\ Relevant \in SUBSET Edges BY <1>1, GraphTyped
<1>4. /\ Relevant' = Relevant
  BY <1>1 DEF Relevant, Matching, matches
<1>5. IsFiniteSet(graph) /\ Cardinality(graph) \in Nat /\ MaxInspected \in Nat
  BY <1>3, EdgesFinite, QueryAssumption
<1>6. /\ inspected \subseteq graph
      /\ inspected # graph => Cardinality(graph) > MaxInspected
  <2> DEFINE m == Min({Cardinality(graph), MaxInspected})
  <2>1. inspected \subseteq graph /\ Cardinality(inspected) = m
    BY <1>2 DEF Inspections, kSubset
  <2>2. m \in {Cardinality(graph), MaxInspected} /\ m <= Cardinality(graph)
    BY <1>5, MinIs
  <2>3. Cardinality(inspected) = Cardinality(graph) => inspected = graph
    BY <1>5, <2>1, FS_Subset
  <2> HIDE DEF m
  <2>4. inspected # graph => m # Cardinality(graph) BY <2>1, <2>3
  <2> QED BY <1>5, <2>1, <2>2, <2>4
<1>7. adjacency' \subseteq Relevant /\ (inspected = graph => adjacency' = Relevant)
  BY <1>2, <1>6 DEF Relevant, Matching
<1>8. /\ budget' \in Budgets /\ budget'.edges = {} /\ budget'.traversed = 0
      /\ budget'.limits = IF inspected = graph THEN {} ELSE {"adjacency"}
  BY <1>2, NothingTyped DEF Budgets, NothingSpent
<1>9. adjacency' \in SUBSET Edges /\ {} \in SUBSET Nat BY <1>3, <1>7
<1>10. /\ Sound(search', adjacency', query.reverse, {})
       /\ Closed(search', adjacency', query.reverse, {})
       /\ Roots(search') = {query.root} /\ search'.seen = {query.root}
       /\ search'.queue = <<query.root>> /\ search'.pending = {}
       /\ search' \in SearchRecords
  <2> DEFINE s == Rooted({query.root}, <<query.root>>)
  <2>1. \A A \in SUBSET Edges, back \in BOOLEAN, L \in SUBSET Nat :
           /\ Sound(s, A, back, L) /\ Closed(s, A, back, L)
           /\ Roots(s) = {query.root} /\ s.seen = {query.root}
           /\ s.queue = <<query.root>> /\ s.pending = {} /\ s \in SearchRecords
    BY <1>1, SingletonRooted
  <2>2. search' = s BY <1>1
  <2> HIDE DEF s
  <2>3. Sound(s, adjacency', query.reverse, {}) /\ Closed(s, adjacency', query.reverse, {})
    BY <1>1, <1>9, <2>1
  <2>4. /\ Roots(s) = {query.root} /\ s.seen = {query.root}
        /\ s.queue = <<query.root>> /\ s.pending = {} /\ s \in SearchRecords
    BY <1>1, <1>9, <2>1
  <2> QED BY <2>2, <2>3, <2>4
<1>11. KindsMatch'
  <2>1. ~answer.found BY <1>1 DEF SearchInv, KindsMatch
  <2> QED BY <1>1, <2>1 DEF KindsMatch
<1>12. PagesInv' /\ WhyInv' /\ ForwardInv' /\ ReverseInv' /\ CyclesInv'
       /\ PathsShortest' /\ ImpactExact' /\ AttributionExact'
  BY <1>1 DEF PagesInv, WhyInv, ForwardInv, ReverseInv, CyclesInv,
              PathsShortest, ImpactExact, AttributionExact
<1>13. Followed(adjacency)' = {}
  <2>1. Range(<<query.root>>) = {query.root} BY DEF Range
  <2> QED BY <1>10, <2>1 DEF Followed
<1>14. Cardinality({}) = 0 BY FS_EmptySet
<1>15. TraverseInv'
  <2>1. /\ adjacency' \subseteq Relevant' /\ budget'.limits \subseteq {"adjacency", "traversal"}
        /\ IF "adjacency" \in budget'.limits THEN Cardinality(graph') > MaxInspected
                                              ELSE adjacency' = Relevant'
        /\ "traversal" \notin budget'.limits
    BY <1>1, <1>4, <1>6, <1>7, <1>8
  <2>2. budget'.traversed = Cardinality(budget'.edges) BY <1>8, <1>14
  <2>3. /\ budget'.edges = {} /\ search'.pending = {} /\ query' = query
        /\ search'.queue = <<query.root>> /\ <<query.root>> # <<>>
    BY <1>1, <1>8, <1>10
  <2> QED BY <1>10, <1>13, <2>1, <2>2, <2>3 DEF TraverseInv
<1> QED BY <1>1, <1>8, <1>9, <1>10, <1>11, <1>12, <1>15 DEF SearchInv, QueryTyped, Searches

\* What a traversal knows of its query and of its variables.
LEMMA Traversing ==
    ASSUME SearchInv, pc = "traverse"
    PROVE  /\ query.kind = "traverse" /\ query \in Queries /\ graph \in Graphs
           /\ query.root \in Nodes /\ query.reverse \in BOOLEAN /\ query.transitive \in BOOLEAN
           /\ query.maxTraversal \in Nat /\ budget \in Budgets /\ search \in SearchRecords
           /\ adjacency \in SUBSET Edges /\ search.pending \subseteq Edges
           /\ Backward = query.reverse /\ Backward \in BOOLEAN
           /\ IsFiniteSet(Wanted) /\ Relevant \in SUBSET Edges
<1>1. query.kind = "traverse" /\ query \in Queries /\ graph \in Graphs
      /\ budget \in Budgets /\ search \in SearchRecords /\ adjacency \in SUBSET Edges
  BY DEF SearchInv, QueryTyped, KindsMatch
<1>2. /\ query.root \in Nodes /\ query.reverse \in BOOLEAN /\ query.transitive \in BOOLEAN
      /\ query.maxTraversal \in Nat
  BY <1>1, Queried
<1>3. Backward = query.reverse /\ Backward \in BOOLEAN
  <2>1. CASE query.reverse = TRUE BY <1>1, <2>1 DEF Backward
  <2>2. CASE query.reverse = FALSE BY <1>1, <2>2 DEF Backward
  <2> QED BY <1>2, <2>1, <2>2
<1>4. Relevant \in SUBSET Edges BY <1>1, GraphTyped
<1>5. Wanted \in SUBSET Edges BY <1>2, <1>4, WantedIs
<1>6. search.pending \subseteq Edges BY <1>1 DEF SearchRecords
<1> QED BY <1>1, <1>2, <1>3, <1>4, <1>5, <1>6, EdgesFinite

\* An edge of a traversal keeps the invariant: it is wanted, and was not selected
\* before, so that the count of edges is their number.
LEMMA VisitTraverseKeeps ==
    ASSUME SearchInv, VisitTraverse PROVE SearchInv'
<1>1. /\ pc = "traverse" /\ pc' = "traverse" /\ search.pending # {}
      /\ UNCHANGED <<graph, query, adjacency, answer, pages>>
  BY DEF VisitTraverse, Visiting
<1>2. /\ query.kind = "traverse" /\ query \in Queries /\ graph \in Graphs
      /\ query.root \in Nodes /\ query.reverse \in BOOLEAN /\ query.transitive \in BOOLEAN
      /\ query.maxTraversal \in Nat /\ budget \in Budgets /\ search \in SearchRecords
      /\ adjacency \in SUBSET Edges /\ search.pending \subseteq Edges
      /\ Backward = query.reverse /\ Backward \in BOOLEAN
      /\ IsFiniteSet(Wanted) /\ Relevant \in SUBSET Edges
  BY <1>1, Traversing
<1>3. Relevant' = Relevant /\ query' = query BY <1>1 DEF Relevant, Matching, matches
<1>4. Wanted' = Wanted BY <1>1 DEF Wanted, Matching, matches
<1>5. Edge \in search.pending BY <1>1, <1>2, EdgeChosen
<1>6. Going(search) BY <1>1 DEF Going
<1>7. /\ adjacency \subseteq Relevant
      /\ budget.limits \subseteq {"adjacency", "traversal"} /\ "traversal" \notin budget.limits
      /\ IF "adjacency" \in budget.limits THEN Cardinality(graph) > MaxInspected
                                          ELSE adjacency = Relevant
      /\ budget.traversed = Cardinality(budget.edges)
      /\ budget.edges \subseteq Wanted
      /\ search.pending \subseteq Wanted \ budget.edges
      /\ query.transitive =>
            /\ Sound(search, adjacency, query.reverse, {})
            /\ Roots(search) = {query.root}
            /\ Closed(search, adjacency, query.reverse, {})
            /\ budget.edges = Followed(adjacency) \ search.pending
      /\ ~query.transitive =>
            /\ search.pending \subseteq Leaving(adjacency, query.root)
            /\ search.queue = <<>>
            /\ budget.edges = Leaving(adjacency, query.root) \ search.pending
  BY <1>1, <1>6 DEF SearchInv, TraverseInv
<1>8. KindsMatch'
  BY <1>1, <1>2 DEF KindsMatch
<1>9. PagesInv' /\ WhyInv' /\ ForwardInv' /\ ReverseInv' /\ CyclesInv'
       /\ PathsShortest' /\ ImpactExact' /\ AttributionExact'
  BY <1>1 DEF PagesInv, WhyInv, ForwardInv, ReverseInv, CyclesInv,
              PathsShortest, ImpactExact, AttributionExact
<1>10. Leaving(adjacency, query.root)' = Leaving(adjacency, query.root)
  BY <1>1 DEF Leaving
<1>11. /\ IsFiniteSet(budget.edges) /\ Cardinality(budget.edges) \in Nat
       /\ Edge \notin budget.edges /\ Edge \in Wanted /\ Edge \in Edges
  BY <1>2, <1>5, <1>7, FS_Subset, FS_CardinalityType
<1> SUFFICES search' \in SearchRecords /\ budget' \in Budgets /\ TraverseInv'
  BY <1>1, <1>2, <1>8, <1>9 DEF SearchInv, QueryTyped
<1>12. CASE budget.traversed >= query.maxTraversal
  <2>1. /\ budget' = [budget EXCEPT !.limits = @ \cup {"traversal"}]
        /\ search' = Stopped(search)
    BY <1>12 DEF VisitTraverse
  <2>2. /\ budget' \in Budgets /\ budget'.edges = budget.edges
        /\ budget'.limits = budget.limits \cup {"traversal"}
        /\ budget'.traversed = budget.traversed
    BY <1>2, <2>1 DEF Budgets
  <2>3. /\ search' \in SearchRecords /\ search'.queue = <<>> /\ search'.pending = {}
        /\ ~Going(search')
    <3>1. <<>> \in Seq(Nodes) OBVIOUS
    <3> QED BY <1>2, <2>1, <3>1 DEF Stopped, SearchRecords, Going
  <2>4. Cardinality(Wanted) > query.maxTraversal
    BY <1>2, <1>7, <1>11, <1>12, OneMore
  <2>5. query.transitive =>
          Sound(search', adjacency, query.reverse, {}) /\ Roots(search') = Roots(search)
    <3> SUFFICES ASSUME query.transitive
                 PROVE Sound(search', adjacency, query.reverse, {})
                       /\ Roots(search') = Roots(search)
      OBVIOUS
    <3>1. Sound(search, adjacency, query.reverse, {}) /\ {} \in SUBSET Nat BY <1>7
    <3> QED BY <1>2, <2>1, <3>1, StopKeeps
  <2>6. /\ budget'.limits \subseteq {"adjacency", "traversal"} /\ "traversal" \in budget'.limits
        /\ "adjacency" \in budget'.limits <=> "adjacency" \in budget.limits
    BY <1>7, <2>2
  <2> QED BY <1>1, <1>3, <1>4, <1>7, <2>2, <2>3, <2>4, <2>5, <2>6 DEF TraverseInv
<1>13. CASE ~(budget.traversed >= query.maxTraversal)
  <2>1. /\ budget' = [budget EXCEPT !.traversed = @ + 1, !.edges = @ \cup {Edge}]
        /\ search' = Follow(Edge)
    BY <1>13 DEF VisitTraverse
  <2>2. /\ budget' \in Budgets /\ budget'.edges = budget.edges \cup {Edge}
        /\ budget'.limits = budget.limits /\ budget'.traversed = budget.traversed + 1
    <3>1. budget.traversed + 1 \in Nat /\ budget.edges \cup {Edge} \in SUBSET Edges
      BY <1>2, <1>11 DEF Budgets
    <3> QED BY <1>2, <2>1, <3>1 DEF Budgets
  <2>3. budget'.traversed = Cardinality(budget'.edges)
    <3>1. Cardinality(budget.edges \cup {Edge}) = Cardinality(budget.edges) + 1
      BY <1>11, FS_AddElement
    <3> QED BY <1>7, <2>2, <3>1
  <2>4. search' \in SearchRecords /\ search'.pending = search.pending \ {Edge}
    <3>1. Beyond(Edge) \in Nodes /\ From(Edge) \in Nodes /\ Edge # NoEdge
      BY <1>2, <1>11, EdgeEnds, Facing
    <3>2. CASE Beyond(Edge) \in search.seen
      <4>1. search' = Passed(Edge) BY <2>1, <3>2 DEF Follow
      <4> QED BY <1>2, <4>1 DEF Passed, SearchRecords
    <3>3. CASE Beyond(Edge) \notin search.seen /\ ~query.transitive
      <4>1. search' = Noted(Edge) BY <2>1, <3>3 DEF Follow
      <4> QED BY <1>2, <3>1, <4>1 DEF Noted, Passed, SearchRecords
    <3>4. CASE Beyond(Edge) \notin search.seen /\ query.transitive
      <4>1. search' = Reached(Edge) BY <2>1, <3>4 DEF Follow
      <4>2. Sound(search, adjacency, Backward, {}) /\ Closed(search, adjacency, Backward, {})
            /\ {} \in SUBSET Nat
        BY <1>2, <1>7, <3>4
      <4>3. Sound(Reached(Edge), adjacency, Backward, {})
            /\ Reached(Edge).pending = search.pending \ {Edge}
        BY <1>2, <1>5, <3>4, <4>2, ReachedKeeps
      <4> QED BY <4>1, <4>3 DEF Sound
    <3> QED BY <3>2, <3>3, <3>4
  <2>5. query.transitive =>
          /\ Sound(search', adjacency, query.reverse, {})
          /\ Closed(search', adjacency, query.reverse, {})
          /\ Roots(search') = Roots(search)
          /\ search'.seen \ Range(search'.queue) = search.seen \ Range(search.queue)
    <3> SUFFICES ASSUME query.transitive
                 PROVE  /\ Sound(search', adjacency, Backward, {})
                        /\ Closed(search', adjacency, Backward, {})
                        /\ Roots(search') = Roots(search)
                        /\ search'.seen \ Range(search'.queue) = search.seen \ Range(search.queue)
      BY <1>2
    <3>1. Sound(search, adjacency, Backward, {}) /\ Closed(search, adjacency, Backward, {})
          /\ {} \in SUBSET Nat
      BY <1>2, <1>7
    <3>2. CASE Beyond(Edge) \in search.seen
      <4>1. search' = Passed(Edge) BY <2>1, <3>2 DEF Follow
      <4>2. /\ Sound(Passed(Edge), adjacency, Backward, {})
            /\ Closed(Passed(Edge), adjacency, Backward, {})
            /\ Roots(Passed(Edge)) = Roots(search)
            /\ Passed(Edge).seen = search.seen /\ Passed(Edge).queue = search.queue
        BY <1>2, <1>5, <3>1, <3>2, PassedKeeps
      <4> QED BY <4>1, <4>2
    <3>3. CASE Beyond(Edge) \notin search.seen
      <4>1. search' = Reached(Edge) BY <2>1, <3>3 DEF Follow
      <4>2. /\ Sound(Reached(Edge), adjacency, Backward, {})
            /\ Closed(Reached(Edge), adjacency, Backward, {})
            /\ Roots(Reached(Edge)) = Roots(search)
            /\ Reached(Edge).seen = search.seen \cup {Beyond(Edge)}
            /\ Reached(Edge).queue = Append(search.queue, Beyond(Edge))
        BY <1>2, <1>5, <3>1, <3>3, ReachedKeeps
      <4>3. Beyond(Edge) \in Nodes BY <1>2, <1>11, EdgeEnds, Facing
      <4>4. Range(Append(search.queue, Beyond(Edge))) = Range(search.queue) \cup {Beyond(Edge)}
        BY <1>2, <4>3, AppendSeen DEF SearchRecords
      <4> QED BY <3>3, <4>1, <4>2, <4>4
    <3> QED BY <3>2, <3>3
  <2>6. query.transitive => budget'.edges = Followed(adjacency)' \ search'.pending
    <3> SUFFICES ASSUME query.transitive
                 PROVE  budget'.edges = Followed(adjacency)' \ search'.pending
      OBVIOUS
    <3>1. Followed(adjacency)' = Followed(adjacency) BY <1>1, <2>5 DEF Followed
    <3>2. Edge \in Followed(adjacency)
      BY <1>5, <1>7 DEF Sound, Ordered, Followed
    <3> QED BY <1>7, <2>2, <2>4, <3>1, <3>2
  <2>7. ~query.transitive =>
          /\ search'.queue = <<>> /\ search'.pending \subseteq Leaving(adjacency, query.root)
          /\ budget'.edges = Leaving(adjacency, query.root) \ search'.pending
    <3> SUFFICES ASSUME ~query.transitive
                 PROVE  /\ search'.queue = <<>>
                        /\ search'.pending \subseteq Leaving(adjacency, query.root)
                        /\ budget'.edges = Leaving(adjacency, query.root) \ search'.pending
      OBVIOUS
    <3>1. search'.queue = search.queue
      <4>1. CASE Beyond(Edge) \in search.seen
        <5>1. search' = Passed(Edge) BY <2>1, <4>1 DEF Follow
        <5> QED BY <1>2, <5>1 DEF Passed, SearchRecords
      <4>2. CASE Beyond(Edge) \notin search.seen
        <5>1. search' = Noted(Edge) BY <2>1, <4>2 DEF Follow
        <5> QED BY <1>2, <5>1 DEF Noted, Passed, SearchRecords
      <4> QED BY <4>1, <4>2
    <3> QED BY <1>5, <1>7, <2>2, <2>4, <3>1
  <2>8. /\ budget'.edges \subseteq Wanted
        /\ search'.pending \subseteq Wanted \ budget'.edges
    BY <1>7, <1>11, <2>2, <2>4
  <2> QED BY <1>1, <1>3, <1>4, <1>7, <1>10, <2>2, <2>3, <2>4, <2>5, <2>6, <2>7, <2>8
          DEF TraverseInv
<1> QED BY <1>12, <1>13

\* The next node of a traversal keeps the invariant: it is reached from the root, so
\* its edges are wanted, and it was not expanded before.
LEMMA ExpandTraverseKeeps ==
    ASSUME SearchInv, Expand, pc = "traverse" PROVE SearchInv'
<1>1. /\ pc' = "traverse" /\ search.pending = {} /\ search.queue # <<>>
      /\ UNCHANGED <<graph, query, adjacency, budget, answer, pages>>
      /\ search' = [search EXCEPT
                      !.queue = Tail(@),
                      !.pending = IF AtDepth(Head(search.queue)) THEN {}
                                  ELSE { e \in adjacency : From(e) = Head(search.queue) }]
  BY DEF Expand
<1>2. /\ query.kind = "traverse" /\ query \in Queries /\ graph \in Graphs
      /\ query.root \in Nodes /\ query.reverse \in BOOLEAN /\ query.transitive \in BOOLEAN
      /\ search \in SearchRecords
      /\ adjacency \in SUBSET Edges
      /\ Backward = query.reverse /\ Backward \in BOOLEAN
      /\ Relevant \in SUBSET Edges
  BY <1>1, Traversing
<1>3. Relevant' = Relevant /\ query' = query BY <1>1 DEF Relevant, Matching, matches
<1>4. Wanted' = Wanted BY <1>1 DEF Wanted, Matching, matches
<1>5. Going(search) BY <1>1 DEF Going
<1>6. /\ adjacency \subseteq Relevant
      /\ budget.limits \subseteq {"adjacency", "traversal"} /\ "traversal" \notin budget.limits
      /\ IF "adjacency" \in budget.limits THEN Cardinality(graph) > MaxInspected
                                          ELSE adjacency = Relevant
      /\ budget.traversed = Cardinality(budget.edges)
      /\ budget.edges \subseteq Wanted
      /\ query.transitive =>
            /\ Sound(search, adjacency, query.reverse, {})
            /\ Roots(search) = {query.root}
            /\ Closed(search, adjacency, query.reverse, {})
            /\ budget.edges = Followed(adjacency)
      /\ ~query.transitive => search.queue = <<query.root>> /\ budget.edges = {}
  BY <1>1, <1>5 DEF SearchInv, TraverseInv
<1>7. KindsMatch'
  BY <1>1, <1>2 DEF KindsMatch
<1>8. PagesInv' /\ WhyInv' /\ ForwardInv' /\ ReverseInv' /\ CyclesInv'
       /\ PathsShortest' /\ ImpactExact' /\ AttributionExact'
  BY <1>1 DEF PagesInv, WhyInv, ForwardInv, ReverseInv, CyclesInv,
              PathsShortest, ImpactExact, AttributionExact
<1>9. Leaving(adjacency, query.root)' = Leaving(adjacency, query.root)
  BY <1>1 DEF Leaving
<1> DEFINE n == Head(search.queue)
<1>10. /\ n \in Nodes /\ Tail(search.queue) \in Seq(Nodes)
       /\ Range(search.queue) = Range(Tail(search.queue)) \cup {n}
  BY <1>1, <1>2, TailSeen DEF SearchRecords
<1>11. /\ search'.pending = Leaving(adjacency, n) /\ search'.queue = Tail(search.queue)
       /\ search'.seen = search.seen /\ search' \in SearchRecords
  <2>1. \A e : From(e) = from(query.reverse, e) BY <1>2, Facing
  <2>2. ~AtDepth(n) BY DEF AtDepth
  <2>3. search' = [search EXCEPT !.queue = Tail(search.queue),
                                 !.pending = Leaving(adjacency, n)]
    BY <1>1, <2>1, <2>2 DEF Leaving
  <2>4. Leaving(adjacency, n) \in SUBSET Edges BY <1>2 DEF Leaving
  <2> HIDE DEF n
  <2> QED BY <1>2, <1>10, <2>3, <2>4 DEF SearchRecords
<1> HIDE DEF n
<1> SUFFICES TraverseInv'
  BY <1>1, <1>7, <1>8, <1>11 DEF SearchInv, QueryTyped
<1>12. CASE query.transitive
  <2>1. Sound(search, adjacency, Backward, {}) /\ Closed(search, adjacency, Backward, {})
        /\ {} \in SUBSET Nat
    BY <1>2, <1>6, <1>12
  <2>2. /\ Sound(search', adjacency, Backward, {})
        /\ Closed(search', adjacency, Backward, {})
        /\ Roots(search') = Roots(search)
    <3>1. {} = (IF pc = "reverse" THEN query.depth ELSE {}) OBVIOUS
    <3> QED BY <1>2, <2>1, <3>1, ExpandedKeeps
  <2>3. n \in search.seen /\ n \notin Range(Tail(search.queue))
    <3>1. n \in search.seen BY <1>10, <2>1 DEF Sound, Ordered
    <3>2. ASSUME n \in Range(Tail(search.queue)) PROVE FALSE
      <4>1. /\ Len(search.queue) \in Nat \ {0} /\ n = search.queue[1]
            /\ Len(Tail(search.queue)) = Len(search.queue) - 1
            /\ \A i \in 1..Len(search.queue) - 1 : Tail(search.queue)[i] = search.queue[i + 1]
        BY <1>1, <1>2, TailSeen DEF SearchRecords, n
      <4>2. PICK i \in 1..Len(search.queue) - 1 : Tail(search.queue)[i] = n
        <5>1. DOMAIN Tail(search.queue) = 1..Len(search.queue) - 1 BY <1>10, <4>1
        <5> QED BY <3>2, <5>1 DEF Range
      <4>3. i + 1 \in 1..Len(search.queue) /\ 1 \in 1..Len(search.queue) /\ 1 < i + 1
        BY <4>1
      <4>4. search.queue[1] # search.queue[i + 1] BY <2>1, <4>3 DEF Sound, Ordered
      <4> QED BY <4>1, <4>2, <4>4
    <3> QED BY <3>1, <3>2
  <2>4. n \in Closure(Ways(Relevant, query.reverse), {query.root})
    <3>1. n \in Closure(Ways(adjacency, Backward), Roots(search))
      BY <1>2, <2>1, <2>3, SeenDistance
    <3>2. Ways(adjacency, Backward) \subseteq Ways(Relevant, Backward) BY <1>6 DEF Ways
    <3>3. Everywhere \in Nat BY NodesFinite DEF Everywhere
    <3>4. {query.root} \subseteq {query.root} OBVIOUS
    <3>5. Closure(Ways(adjacency, Backward), {query.root})
            \subseteq Closure(Ways(Relevant, Backward), {query.root})
      BY <3>2, <3>3, <3>4, BallMonotone DEF Closure
    <3> QED BY <1>2, <1>6, <1>12, <3>1, <3>5
  <2>5. Leaving(adjacency, n) \subseteq Wanted \ budget.edges
    <3>1. Leaving(adjacency, n) \subseteq Wanted
      BY <1>2, <1>6, <1>12, <2>4, WantedIs DEF Leaving, Expanded
    <3>2. \A e \in Leaving(adjacency, n) : e \notin Followed(adjacency)
      BY <1>10 DEF Leaving, Followed
    <3> QED BY <1>6, <1>12, <3>1, <3>2
  <2>6. Followed(adjacency)' = Followed(adjacency) \cup Leaving(adjacency, n)
    <3>1. search'.seen \ Range(search'.queue) = (search.seen \ Range(search.queue)) \cup {n}
      BY <1>10, <1>11, <2>3
    <3> QED BY <1>1, <3>1 DEF Followed, Leaving
  <2>7. budget.edges = Followed(adjacency)' \ search'.pending
    BY <1>6, <1>11, <1>12, <2>5, <2>6
  <2> QED BY <1>1, <1>2, <1>3, <1>4, <1>6, <1>11, <1>12, <2>2, <2>5, <2>7 DEF TraverseInv
<1>13. CASE ~query.transitive
  <2>1. n = query.root /\ Tail(search.queue) = <<>>
    <3>1. search.queue = <<query.root>> BY <1>6, <1>13
    <3>2. Head(<<query.root>>) = query.root /\ Tail(<<query.root>>) = <<>> OBVIOUS
    <3> QED BY <3>1, <3>2 DEF n
  <2>2. Leaving(adjacency, n) \subseteq Wanted
    BY <1>2, <1>6, <1>13, <2>1, WantedIs DEF Leaving, Expanded
  <2> QED BY <1>1, <1>3, <1>4, <1>6, <1>9, <1>11, <1>13, <2>1, <2>2 DEF TraverseInv
<1> QED BY <1>12, <1>13

\* The selected edges in the order of their ids, each once.
LEMMA SortedIs ==
    ASSUME NEW es \in SUBSET Edges
    PROVE  /\ Sorted(es) \in Seq(es) /\ Range(Sorted(es)) = es
           /\ \A i, j \in 1..Len(Sorted(es)) : i # j => Sorted(es)[i] # Sorted(es)[j]
<1> DEFINE R == { p \in Edges \X Edges : ById(p[1], p[2]) }
<1>1. IsFiniteSet(es) BY EdgesFinite
<1>2. \A a, b \in Edges : <<a, b>> \in R <=> ById(a, b) OBVIOUS
<1> HIDE DEF R
<1>3. StrictOrder(R, es)
  <2>1. \A a \in Edges : <<a, a>> \notin R BY <1>2, EdgeShape DEF ById
  <2>2. ASSUME NEW a \in Edges, NEW b \in Edges, a # b
        PROVE  <<a, b>> \in R \/ <<b, a>> \in R
    <3>1. /\ Source(a) \in Nat /\ Target(a) \in Nat /\ Profile(a) \in Nat
          /\ Source(b) \in Nat /\ Target(b) \in Nat /\ Profile(b) \in Nat
          /\ a = <<Source(a), Target(a), Profile(a)>> /\ b = <<Source(b), Target(b), Profile(b)>>
      BY EdgeShape
    <3>2. Source(a) # Source(b) \/ Target(a) # Target(b) \/ Profile(a) # Profile(b)
      BY <2>2, <3>1
    <3>3. ById(a, b) \/ ById(b, a) BY <3>1, <3>2 DEF ById
    <3> QED BY <1>2, <3>3
  <2>3. ASSUME NEW a \in Edges, NEW b \in Edges, NEW c \in Edges, <<a, b>> \in R, <<b, c>> \in R
        PROVE  <<a, c>> \in R
    <3>1. /\ Source(a) \in Nat /\ Target(a) \in Nat /\ Profile(a) \in Nat
          /\ Source(b) \in Nat /\ Target(b) \in Nat /\ Profile(b) \in Nat
          /\ Source(c) \in Nat /\ Target(c) \in Nat /\ Profile(c) \in Nat
      BY EdgeShape
    <3>2. ById(a, b) /\ ById(b, c) BY <1>2, <2>3
    <3>3. ById(a, c) BY <3>1, <3>2 DEF ById
    <3> QED BY <1>2, <3>3
  <2> QED BY <2>1, <2>2, <2>3 DEF StrictOrder
<1>4. PICK t : LinedUp(t, R, es) BY <1>1, <1>3, LineUpExists
<1>5. \A s \in [1..Cardinality(es) -> es] :
         LinedUp(s, R, es) <=> \A i, j \in 1..Cardinality(es) : i < j => ById(s[i], s[j])
  BY <1>2 DEF LinedUp
<1>6. Sorted(es) \in [1..Cardinality(es) -> es] /\ LinedUp(Sorted(es), R, es)
  <2>1. t \in [1..Cardinality(es) -> es] BY <1>4 DEF LinedUp
  <2>2. \E s \in [1..Cardinality(es) -> es] :
          \A i, j \in 1..Cardinality(es) : i < j => ById(s[i], s[j])
    BY <1>4, <1>5, <2>1
  <2>3. Sorted(es) \in [1..Cardinality(es) -> es]
        /\ \A i, j \in 1..Cardinality(es) : i < j => ById(Sorted(es)[i], Sorted(es)[j])
    BY <2>2 DEF Sorted
  <2> QED BY <1>5, <2>3
<1> QED BY <1>1, <1>3, <1>6, LineUpAll

\* The end of a traversal keeps the invariant: without a limit it has selected every
\* wanted edge, and a limit it met was really too small.
LEMMA EndTraverseKeeps ==
    ASSUME SearchInv, EndTraverse PROVE SearchInv'
<1>1. /\ pc = "traverse" /\ pc' = "pages" /\ search.pending = {} /\ search.queue = <<>>
      /\ UNCHANGED <<graph, query, adjacency, search, budget, answer>>
      /\ pages' = [NoPages EXCEPT !.items = Sorted(budget.edges)]
  BY DEF EndTraverse, Ended
<1>2. /\ query.kind = "traverse" /\ query \in Queries /\ graph \in Graphs
      /\ query.root \in Nodes /\ query.reverse \in BOOLEAN /\ query.transitive \in BOOLEAN
      /\ budget \in Budgets /\ search \in SearchRecords /\ Relevant \in SUBSET Edges
      /\ adjacency \in SUBSET Edges
  BY <1>1, Traversing
<1>3. budget.edges \in SUBSET Edges BY <1>2 DEF Budgets
<1>4. Relevant' = Relevant /\ query' = query BY <1>1 DEF Relevant, Matching, matches
<1>5. Wanted' = Wanted BY <1>1 DEF Wanted, Matching, matches
<1>6. /\ budget.limits \subseteq {"adjacency", "traversal"}
      /\ IF "adjacency" \in budget.limits THEN Cardinality(graph) > MaxInspected
                                          ELSE adjacency = Relevant
      /\ "traversal" \in budget.limits => Cardinality(Wanted) > query.maxTraversal
      /\ budget.edges \subseteq Wanted
      /\ query.transitive =>
            /\ Sound(search, adjacency, query.reverse, {})
            /\ Roots(search) = {query.root}
            /\ "traversal" \notin budget.limits =>
                  /\ Closed(search, adjacency, query.reverse, {})
                  /\ budget.edges = Followed(adjacency) \ search.pending
      /\ ~query.transitive /\ "traversal" \notin budget.limits =>
            budget.edges = Leaving(adjacency, query.root) \ search.pending
  BY <1>1 DEF SearchInv, TraverseInv
<1>7. KindsMatch'
  BY <1>1, <1>2 DEF KindsMatch
<1>8. TraverseInv' /\ WhyInv' /\ ForwardInv' /\ ReverseInv' /\ CyclesInv'
       /\ PathsShortest' /\ ImpactExact' /\ AttributionExact'
  BY <1>1 DEF TraverseInv, WhyInv, ForwardInv, ReverseInv, CyclesInv,
              PathsShortest, ImpactExact, AttributionExact
<1>9. /\ pages'.items = Sorted(budget.edges) /\ pages'.offset = 0
      /\ pages'.received = <<>> /\ pages'.state = "none" /\ pages' \in ClientPages
      /\ Sorted(budget.edges) \in Seq(Edges) /\ Range(Sorted(budget.edges)) = budget.edges
      /\ \A i, j \in 1..Len(Sorted(budget.edges)) :
            i # j => Sorted(budget.edges)[i] # Sorted(budget.edges)[j]
  <2>1. Sorted(budget.edges) \in Seq(Edges) BY <1>3, SortedIs, LongerSeq
  <2>2. Range(Sorted(budget.edges)) = budget.edges
        /\ \A i, j \in 1..Len(Sorted(budget.edges)) :
              i # j => Sorted(budget.edges)[i] # Sorted(budget.edges)[j]
    BY <1>3, SortedIs
  <2>3. /\ pages'.items = Sorted(budget.edges) /\ pages'.offset = 0
        /\ pages'.received = <<>> /\ pages'.state = "none" /\ pages' \in ClientPages
    <3> DEFINE sorted == Sorted(budget.edges)
    <3>1. pages' = [NoPages EXCEPT !.items = sorted] /\ sorted \in Seq(Edges) BY <1>1, <2>1
    <3> HIDE DEF sorted
    <3>2. /\ pages'.items = sorted /\ pages'.offset = 0
          /\ pages'.received = <<>> /\ pages'.state = "none" /\ pages' \in ClientPages
      BY <3>1, NothingTyped DEF NoPages, ClientPages
    <3> QED BY <3>2 DEF sorted
  <2> QED BY <2>1, <2>2, <2>3
<1>10. budget.limits = {} => budget.edges = Wanted
  <2> SUFFICES ASSUME budget.limits = {} PROVE budget.edges = Wanted OBVIOUS
  <2>1. adjacency = Relevant /\ "traversal" \notin budget.limits BY <1>6
  <2>2. CASE query.transitive
    <3>1. /\ Sound(search, Relevant, query.reverse, {})
          /\ Closed(search, Relevant, query.reverse, {})
          /\ Roots(search) = {query.root}
          /\ budget.edges = Followed(Relevant)
      BY <1>1, <1>6, <2>1, <2>2
    <3>2. \A n \in search.seen : n \in Closure(Ways(Relevant, query.reverse), {query.root})
      <4> TAKE n \in search.seen
      <4>1. n \in Closure(Ways(Relevant, query.reverse), Roots(search))
        BY <1>2, <3>1, SeenDistance
      <4> QED BY <3>1, <4>1
    <3>3. Closure(Ways(Relevant, query.reverse), {query.root}) \subseteq search.seen
      <4>1. ~Going(search) BY <1>1 DEF Going
      <4>2. Everywhere \in Nat /\ {} \in SUBSET Nat BY NodesFinite DEF Everywhere
      <4>3. \A limit \in {} : Everywhere <= limit OBVIOUS
      <4>4. Near(search, Relevant, query.reverse, Everywhere)
              \subseteq { n \in search.seen : search.depths[n] <= Everywhere }
        BY <1>2, <3>1, <4>1, <4>2, <4>3, CompleteSeesAll
      <4> QED BY <3>1, <4>4 DEF Near, Closure
    <3>4. Range(search.queue) = {} BY <1>1 DEF Range
    <3>5. Followed(Relevant) = { e \in Relevant : from(query.reverse, e) \in Expanded }
      BY <2>2, <3>2, <3>3, <3>4 DEF Followed, Expanded
    <3> QED BY <1>2, <3>1, <3>5, WantedIs
  <2>3. CASE ~query.transitive
    <3>1. budget.edges = Leaving(Relevant, query.root) BY <1>1, <1>6, <2>1, <2>3
    <3> QED BY <1>2, <2>3, <3>1, WantedIs DEF Leaving, Expanded
  <2> QED BY <2>2, <2>3
<1>11. budget.limits # {} => \/ Cardinality(Wanted) > query.maxTraversal
                             \/ Cardinality(graph) > MaxInspected
  <2> SUFFICES ASSUME budget.limits # {}
               PROVE  \/ Cardinality(Wanted) > query.maxTraversal
                      \/ Cardinality(graph) > MaxInspected
    OBVIOUS
  <2>1. "adjacency" \in budget.limits \/ "traversal" \in budget.limits BY <1>6
  <2> QED BY <1>6, <2>1
<1>12. PagesInv'
  <2>1. SubSeq(pages'.items, 1, 0) = <<>> BY <1>9
  <2>2. 0 \in 0..Len(pages'.items) BY <1>9
  <2>3. /\ budget.edges \subseteq Wanted
        /\ IF budget.limits = {} THEN budget.edges = Wanted
           ELSE \/ Cardinality(Wanted) > query.maxTraversal
                \/ Cardinality(graph) > MaxInspected
    BY <1>6, <1>10, <1>11
  <2>4. /\ Range(pages'.items) = budget.edges
        /\ \A i, j \in 1..Len(pages'.items) : i # j => pages'.items[i] # pages'.items[j]
    BY <1>9
  <2>5. /\ pages'.offset \in 0..Len(pages'.items)
        /\ pages'.received = SubSeq(pages'.items, 1, pages'.offset)
        /\ pages'.state # "complete" /\ pages'.state # "partial"
    BY <1>9, <2>1, <2>2
  <2> QED BY <1>1, <1>5, <2>3, <2>4, <2>5 DEF PagesInv
<1> QED BY <1>1, <1>7, <1>8, <1>9, <1>12 DEF SearchInv, QueryTyped

-----------------------------------------------------------------------------
\* The bisection of a page's length: the middle, the ranges, the next range, the value
\* at a range, the recursive function, the length of the longest page, and the count.
Half(low, high) == low + (high - low + 1) \div 2
Ranges(most) == (0..most) \X (0..most)
Narrowed(range, maxBytes) ==
    IF PageLength(Half(range[1], range[2]), FALSE) <= maxBytes
    THEN <<Half(range[1], range[2]), range[2]>>
    ELSE <<range[1], Half(range[1], range[2]) - 1>>
Bisected(b, range, maxBytes) ==
    IF range[1] >= range[2] THEN range[1] ELSE b[Narrowed(range, maxBytes)]
IsBisect(b, most, maxBytes) == b = [range \in Ranges(most) |-> Bisected(b, range, maxBytes)]

Most(maxItems) == Min({maxItems, Len(pages.items) - pages.offset})
Counted(b, most, maxBytes) ==
    IF PageLength(most, FALSE) <= maxBytes \/ most = 0 THEN most ELSE b[<<0, most - 1>>]

\* The middle is above the low end and not above the high one.
LEMMA HalfWay ==
    ASSUME NEW low \in Nat, NEW high \in Nat, low < high
    PROVE  Half(low, high) \in low + 1..high
BY DEF Half

\* Each step leads to a range that is shorter, so the bisection ends.
LEMMA NarrowedIs ==
    ASSUME NEW most \in Nat, NEW maxBytes, NEW range \in Ranges(most), range[1] < range[2]
    PROVE  /\ Narrowed(range, maxBytes) \in Ranges(most)
           /\ Narrowed(range, maxBytes)[2] - Narrowed(range, maxBytes)[1] < range[2] - range[1]
<1> DEFINE low == range[1]
           high == range[2]
           half == Half(low, high)
<1>1. low \in 0..most /\ high \in 0..most BY DEF Ranges
<1>2. half \in low + 1..high BY <1>1, HalfWay
<1>3. Narrowed(range, maxBytes) \in {<<half, high>>, <<low, half - 1>>} BY DEF Narrowed
<1> HIDE DEF half, low, high
<1>4. /\ <<half, high>> \in Ranges(most) /\ high - half < high - low
      /\ <<low, half - 1>> \in Ranges(most) /\ half - 1 - low < high - low
  BY <1>1, <1>2 DEF Ranges
<1>5. <<half, high>>[1] = half /\ <<half, high>>[2] = high
      /\ <<low, half - 1>>[1] = low /\ <<low, half - 1>>[2] = half - 1
  OBVIOUS
<1>6. /\ Narrowed(range, maxBytes) \in Ranges(most)
      /\ Narrowed(range, maxBytes)[2] - Narrowed(range, maxBytes)[1] < high - low
  BY <1>3, <1>4, <1>5
<1> QED BY <1>6 DEF high, low

\* The recursive function of the bisection exists, by induction on the length of the
\* ranges it is defined on.
LEMMA BisectExists ==
    ASSUME NEW most \in Nat, NEW maxBytes
    PROVE  \E b : IsBisect(b, most, maxBytes)
<1> DEFINE D == Ranges(most)
           T == { w \in Nat : \E b \in [D -> 0..most] :
                    \A r \in D : r[2] - r[1] <= w => b[r] = Bisected(b, r, maxBytes) }
<1>1. \A r \in D : r[1] \in 0..most /\ r[2] \in 0..most BY DEF Ranges
<1> HIDE DEF D
<1>2. 0 \in T
  <2> DEFINE b == [r \in D |-> r[1]]
  <2>1. b \in [D -> 0..most] BY <1>1
  <2>2. ASSUME NEW r \in D, r[2] - r[1] <= 0 PROVE b[r] = Bisected(b, r, maxBytes)
    <3>1. r[1] >= r[2] BY <1>1, <2>2
    <3> QED BY <3>1 DEF Bisected
  <2> QED BY <2>1, <2>2
<1>3. ASSUME NEW w \in Nat, w \in T PROVE w + 1 \in T
  <2>1. PICK b \in [D -> 0..most] :
          \A r \in D : r[2] - r[1] <= w => b[r] = Bisected(b, r, maxBytes)
    BY <1>3
  <2> DEFINE c == [r \in D |-> IF r[2] - r[1] = w + 1 THEN Bisected(b, r, maxBytes) ELSE b[r]]
  <2>2. ASSUME NEW r \in D, r[1] < r[2]
        PROVE  /\ Narrowed(r, maxBytes) \in D
               /\ Narrowed(r, maxBytes)[2] - Narrowed(r, maxBytes)[1] < r[2] - r[1]
    BY <2>2, NarrowedIs DEF D
  <2>3. \A r \in D : Bisected(b, r, maxBytes) \in 0..most
    BY <1>1, <2>2 DEF Bisected
  <2>4. c \in [D -> 0..most] BY <2>3
  <2>5. \A r \in D : r[2] - r[1] <= w => c[r] = b[r]
    <3> TAKE r \in D
    <3> HAVE r[2] - r[1] <= w
    <3>1. r[2] - r[1] # w + 1 BY <1>1
    <3> QED BY <3>1
  <2>6. \A r \in D : r[2] - r[1] = w + 1 => c[r] = Bisected(b, r, maxBytes)
    OBVIOUS
  <2> HIDE DEF c
  <2>7. ASSUME NEW r \in D, r[2] - r[1] <= w + 1 PROVE c[r] = Bisected(c, r, maxBytes)
    <3>1. c[r] = Bisected(b, r, maxBytes)
      <4>1. r[2] - r[1] <= w \/ r[2] - r[1] = w + 1 BY <1>1, <2>7
      <4> QED BY <2>1, <2>5, <2>6, <4>1
    <3>2. CASE r[1] >= r[2] BY <3>1, <3>2 DEF Bisected
    <3>3. CASE ~(r[1] >= r[2])
      <4> DEFINE n == Narrowed(r, maxBytes)
      <4>1. n \in D /\ n[2] - n[1] < r[2] - r[1] BY <1>1, <2>2, <3>3
      <4> HIDE DEF n
      <4>2. n[2] - n[1] <= w BY <1>1, <2>7, <4>1
      <4>3. c[n] = b[n] BY <2>5, <4>1, <4>2
      <4> QED BY <3>1, <3>3, <4>3 DEF Bisected, n
    <3> QED BY <3>2, <3>3
  <2> QED BY <2>4, <2>7
<1> HIDE DEF T
<1>4. most \in T BY <1>2, <1>3, Induction
<1>5. PICK b \in [D -> 0..most] :
        \A r \in D : r[2] - r[1] <= most => b[r] = Bisected(b, r, maxBytes)
  BY <1>4 DEF T
<1>6. \A r \in D : b[r] = Bisected(b, r, maxBytes)
  <2> TAKE r \in D
  <2>1. r[2] - r[1] <= most BY <1>1
  <2> QED BY <1>5, <2>1
<1>7. b = [r \in D |-> b[r]] OBVIOUS
<1> QED BY <1>6, <1>7 DEF IsBisect, D

\* The bisection never leaves the range that it began with.
LEMMA BisectTyped ==
    ASSUME NEW most \in Nat, NEW maxBytes, NEW b, IsBisect(b, most, maxBytes),
           NEW range \in Ranges(most)
    PROVE  b[range] \in 0..most
<1> DEFINE D == Ranges(most)
           T == { w \in Nat : \A r \in D : r[2] - r[1] <= w => b[r] \in 0..most }
<1>1. \A r \in D : r[1] \in 0..most /\ r[2] \in 0..most BY DEF Ranges
<1>2. \A r \in D : b[r] = Bisected(b, r, maxBytes) BY DEF IsBisect
<1>3. ASSUME NEW r \in D, r[1] < r[2]
      PROVE  /\ Narrowed(r, maxBytes) \in D
             /\ Narrowed(r, maxBytes)[2] - Narrowed(r, maxBytes)[1] < r[2] - r[1]
  BY <1>3, NarrowedIs
<1> HIDE DEF D
<1>4. 0 \in T
  <2> SUFFICES ASSUME NEW r \in D, r[2] - r[1] <= 0 PROVE b[r] \in 0..most OBVIOUS
  <2>1. r[1] >= r[2] BY <1>1
  <2> QED BY <1>1, <1>2, <2>1 DEF Bisected
<1>5. ASSUME NEW w \in Nat, w \in T PROVE w + 1 \in T
  <2> SUFFICES ASSUME NEW r \in D, r[2] - r[1] <= w + 1 PROVE b[r] \in 0..most OBVIOUS
  <2>1. CASE r[1] >= r[2] BY <1>1, <1>2, <2>1 DEF Bisected
  <2>2. CASE ~(r[1] >= r[2])
    <3> DEFINE n == Narrowed(r, maxBytes)
    <3>1. n \in D /\ n[2] - n[1] < r[2] - r[1] BY <1>1, <1>3, <2>2
    <3>2. b[r] = b[n] BY <1>2, <2>2 DEF Bisected
    <3> HIDE DEF n
    <3>3. n[2] - n[1] <= w BY <1>1, <3>1
    <3> QED BY <1>5, <3>1, <3>2, <3>3
  <2> QED BY <2>1, <2>2
<1> HIDE DEF T
<1>6. most \in T BY <1>4, <1>5, Induction
<1>7. range \in D /\ range[2] - range[1] <= most BY <1>1 DEF D
<1> QED BY <1>6, <1>7 DEF T

\* PageCount is the bisection.
LEMMA PageCountIs ==
    ASSUME NEW maxItems, NEW maxBytes
    PROVE  PageCount(maxItems, maxBytes)
             = Counted(CHOOSE b : IsBisect(b, Most(maxItems), maxBytes), Most(maxItems), maxBytes)
BY DEF PageCount, IsBisect, Bisected, Ranges, Narrowed, Half, Counted, Most

\* A page holds no more items than were asked for, or are left.
LEMMA PageCountBounded ==
    ASSUME NEW maxItems, NEW maxBytes, Most(maxItems) \in Nat
    PROVE  PageCount(maxItems, maxBytes) \in 0..Most(maxItems)
<1> DEFINE most == Most(maxItems)
           b == CHOOSE b : IsBisect(b, most, maxBytes)
<1>1. IsBisect(b, most, maxBytes) BY BisectExists
<1>2. PageCount(maxItems, maxBytes) = Counted(b, most, maxBytes) BY PageCountIs
<1> HIDE DEF b, most
<1>3. most \in Nat BY DEF most
<1>4. CASE PageLength(most, FALSE) <= maxBytes \/ most = 0
  <2>1. Counted(b, most, maxBytes) = most BY <1>4 DEF Counted
  <2>2. most \in 0..most BY <1>3
  <2> QED BY <1>2, <2>1, <2>2 DEF most
<1>5. CASE ~(PageLength(most, FALSE) <= maxBytes \/ most = 0)
  <2>1. <<0, most - 1>> \in Ranges(most)
    <3>1. most # 0 BY <1>5
    <3>2. 0 \in 0..most /\ most - 1 \in 0..most BY <1>3, <3>1
    <3> QED BY <3>2 DEF Ranges
  <2>2. b[<<0, most - 1>>] \in 0..most BY <1>1, <1>3, <2>1, BisectTyped
  <2> QED BY <1>2, <1>5, <2>2 DEF Counted, most
<1> QED BY <1>4, <1>5

\* The items up to one place and those from there to another are those up to the other.
LEMMA Prefixes ==
    ASSUME NEW A, NEW s \in Seq(A), NEW i \in Nat, NEW j \in Nat, i <= j, j <= Len(s)
    PROVE  /\ SubSeq(s, 1, i) \o SubSeq(s, i + 1, j) = SubSeq(s, 1, j)
           /\ SubSeq(s, 1, j) \in Seq(A) /\ Len(SubSeq(s, 1, j)) = j
           /\ \A k \in 1..j : SubSeq(s, 1, j)[k] = s[k]
<1> DEFINE a == SubSeq(s, 1, i)
           b == SubSeq(s, i + 1, j)
           c == SubSeq(s, 1, j)
<1>1. /\ a \in Seq(A) /\ Len(a) = i /\ \A k \in 1..i : a[k] = s[k]
  OBVIOUS
<1>2. /\ b \in Seq(A) /\ Len(b) = j - i /\ \A k \in 1..j - i : b[k] = s[i + k]
  <2> DEFINE m == i + 1
  <2>1. m \in Int /\ j \in Int /\ \A k \in m..j : s[k] \in A OBVIOUS
  <2> HIDE DEF m
  <2>2. /\ SubSeq(s, m, j) \in Seq(A)
        /\ Len(SubSeq(s, m, j)) = IF m <= j THEN j - m + 1 ELSE 0
        /\ \A k \in 1..j - m + 1 : SubSeq(s, m, j)[k] = s[m + k - 1]
    BY <2>1, SubSeqProperties
  <2>3. b = SubSeq(s, m, j) BY DEF m
  <2> HIDE DEF b
  <2>4. b \in Seq(A) /\ Len(b) = j - i BY <2>2, <2>3 DEF m
  <2>5. ASSUME NEW k \in 1..j - i PROVE b[k] = s[i + k]
    <3>1. k \in 1..j - m + 1 /\ m + k - 1 = i + k BY DEF m
    <3> QED BY <2>2, <2>3, <3>1
  <2> QED BY <2>4, <2>5
<1>3. /\ c \in Seq(A) /\ Len(c) = j /\ \A k \in 1..j : c[k] = s[k]
  OBVIOUS
<1> HIDE DEF a, b, c
<1>4. a \o b \in Seq(A) /\ Len(a \o b) = j
  <2>1. a \o b \in Seq(A) /\ Len(a \o b) = Len(a) + Len(b)
    BY <1>1, <1>2, ConcatProperties
  <2>2. i + (j - i) = j OBVIOUS
  <2> QED BY <1>1, <1>2, <2>1, <2>2
<1>5. \A k \in 1..j : (a \o b)[k] = s[k]
  <2> TAKE k \in 1..j
  <2>1. CASE k <= i BY <1>1, <1>2, <2>1
  <2>2. CASE ~(k <= i)
    <3>1. k - i \in 1..j - i BY <2>2
    <3>2. (a \o b)[k] = b[k - i] BY <1>1, <1>2, <2>2
    <3>3. b[k - i] = s[i + (k - i)] BY <1>2, <3>1
    <3> QED BY <3>2, <3>3
  <2> QED BY <2>1, <2>2
<1>6. a \o b = c BY <1>3, <1>4, <1>5, SeqEqual
<1> QED BY <1>3, <1>6 DEF a, b, c

\* A page keeps the invariant: what the client has received is a prefix of the items.
LEMMA PageKeeps ==
    ASSUME SearchInv, Pages PROVE SearchInv'
<1>1. PICK maxItems \in PageItems, maxBytes \in PageBytes : Page(maxItems, maxBytes)
  BY DEF Pages
<1> DEFINE count == PageCount(maxItems, maxBytes)
           end == pages.offset + count
<1>2. /\ pc = "pages" /\ UNCHANGED <<graph, query, pc, adjacency, search, budget, answer>>
      /\ pages' = [pages EXCEPT
                     !.received = @ \o SubSeq(pages.items, pages.offset + 1, end),
                     !.offset = end,
                     !.state = IF end < Len(pages.items) THEN "more"
                               ELSE IF budget.limits = {} THEN "complete" ELSE "partial"]
  BY <1>1 DEF Page
<1>3. /\ QueryTyped /\ KindsMatch /\ pages \in ClientPages BY DEF SearchInv, QueryTyped
<1>4. /\ budget.edges \subseteq Wanted
      /\ IF budget.limits = {} THEN budget.edges = Wanted
         ELSE \/ Cardinality(Wanted) > query.maxTraversal
              \/ Cardinality(graph) > MaxInspected
      /\ Range(pages.items) = budget.edges
      /\ \A i, j \in 1..Len(pages.items) : i # j => pages.items[i] # pages.items[j]
      /\ pages.offset \in 0..Len(pages.items)
      /\ pages.received = SubSeq(pages.items, 1, pages.offset)
  BY <1>2 DEF SearchInv, PagesInv
<1>5. Wanted' = Wanted BY <1>2 DEF Wanted, Matching, matches
<1>6. pages.items \in Seq(Edges) /\ Len(pages.items) \in Nat BY <1>3 DEF ClientPages
<1>7. maxItems \in Nat BY QueryAssumption
<1>8. Most(maxItems) \in Nat /\ Most(maxItems) <= Len(pages.items) - pages.offset
  <2> DEFINE left == Len(pages.items) - pages.offset
  <2>1. left \in Nat BY <1>4, <1>6
  <2> HIDE DEF left
  <2>2. {maxItems, left} \in SUBSET Nat /\ {maxItems, left} # {} BY <1>7, <2>1
  <2>3. Min({maxItems, left}) \in {maxItems, left} /\ Min({maxItems, left}) <= left
    BY <2>2, MinIs
  <2> QED BY <2>2, <2>3 DEF Most, left
<1>9. count \in 0..Most(maxItems) BY <1>8, PageCountBounded
<1> HIDE DEF count
<1>10. end \in Nat /\ pages.offset <= end /\ end <= Len(pages.items) /\ pages.offset \in Nat
  BY <1>4, <1>6, <1>8, <1>9
<1> HIDE DEF end
<1>11. /\ pages.received \o SubSeq(pages.items, pages.offset + 1, end)
            = SubSeq(pages.items, 1, end)
       /\ SubSeq(pages.items, 1, end) \in Seq(Edges)
  <2>1. /\ SubSeq(pages.items, 1, pages.offset) \o SubSeq(pages.items, pages.offset + 1, end)
             = SubSeq(pages.items, 1, end)
        /\ SubSeq(pages.items, 1, end) \in Seq(Edges)
    <3> DEFINE whole == pages.items
               gone == pages.offset
    <3>1. whole \in Seq(Edges) /\ gone \in Nat /\ end \in Nat /\ gone <= end
          /\ end <= Len(whole)
      BY <1>6, <1>10
    <3> HIDE DEF whole, gone
    <3>2. /\ SubSeq(whole, 1, gone) \o SubSeq(whole, gone + 1, end) = SubSeq(whole, 1, end)
          /\ SubSeq(whole, 1, end) \in Seq(Edges)
      BY <3>1, Prefixes
    <3> QED BY <3>2 DEF whole, gone
  <2> QED BY <1>4, <2>1
<1> DEFINE state == IF end < Len(pages.items) THEN "more"
                    ELSE IF budget.limits = {} THEN "complete" ELSE "partial"
<1>12. /\ state \in {"more", "complete", "partial"}
       /\ state = "complete" => end = Len(pages.items) /\ budget.limits = {}
       /\ state = "partial" => budget.limits # {}
  BY <1>6, <1>10
<1>13. /\ pages'.items = pages.items /\ pages'.offset = end /\ pages'.state = state
       /\ pages'.received = SubSeq(pages.items, 1, end) /\ pages' \in ClientPages
  <2>1. pages' = [pages EXCEPT !.received = SubSeq(pages.items, 1, end), !.offset = end,
                               !.state = state]
    BY <1>2, <1>3, <1>11 DEF ClientPages
  <2> DEFINE received == SubSeq(pages.items, 1, end)
  <2>2. received \in Seq(Edges) BY <1>11
  <2>3. state \in {"none", "more", "complete", "partial"} BY <1>12
  <2> HIDE DEF received, state
  <2>4. pages' = [pages EXCEPT !.received = received, !.offset = end, !.state = state]
    BY <2>1 DEF received
  <2>5. /\ pages'.items = pages.items /\ pages'.offset = end /\ pages'.state = state
        /\ pages'.received = received /\ pages' \in ClientPages
    BY <1>3, <1>10, <2>2, <2>3, <2>4 DEF ClientPages
  <2> QED BY <2>5 DEF received
<1> HIDE DEF state
<1>14. PagesInv'
  <2>1. end \in 0..Len(pages.items) BY <1>6, <1>10
  <2>2. budget' = budget /\ query' = query /\ graph' = graph BY <1>2
  <2> QED BY <1>4, <1>5, <1>12, <1>13, <2>1, <2>2 DEF PagesInv
<1>15. TraverseInv' /\ WhyInv' /\ ForwardInv' /\ ReverseInv' /\ CyclesInv'
       /\ PathsShortest' /\ ImpactExact' /\ AttributionExact' /\ KindsMatch'
  BY <1>2, <1>3 DEF TraverseInv, WhyInv, ForwardInv, ReverseInv, CyclesInv,
              PathsShortest, ImpactExact, AttributionExact, KindsMatch
<1> QED BY <1>2, <1>3, <1>13, <1>14, <1>15 DEF SearchInv, QueryTyped

\* The invariant of the pages says that the delivery is exact.
LEMMA PagesDeliver ==
    ASSUME QueryTyped, PagesInv PROVE DeliveredExact
<1> SUFFICES ASSUME pc = "pages" PROVE DeliveredExact BY DEF DeliveredExact
<1>1. /\ budget.edges \subseteq Wanted
      /\ IF budget.limits = {} THEN budget.edges = Wanted
         ELSE \/ Cardinality(Wanted) > query.maxTraversal
              \/ Cardinality(graph) > MaxInspected
      /\ Range(pages.items) = budget.edges
      /\ \A i, j \in 1..Len(pages.items) : i # j => pages.items[i] # pages.items[j]
      /\ pages.offset \in 0..Len(pages.items)
      /\ pages.received = SubSeq(pages.items, 1, pages.offset)
      /\ pages.state = "complete" => pages.offset = Len(pages.items) /\ budget.limits = {}
      /\ pages.state = "partial" => budget.limits # {}
  BY DEF PagesInv
<1>2. pages.items \in Seq(Edges) /\ Len(pages.items) \in Nat BY DEF QueryTyped, ClientPages
<1> DEFINE k == pages.offset
           got == { pages.received[i] : i \in 1..Len(pages.received) }
<1>3. k \in Nat /\ k <= Len(pages.items) BY <1>1, <1>2
<1>4. /\ Len(pages.received) = k /\ \A i \in 1..k : pages.received[i] = pages.items[i]
      /\ pages.received \in Seq(Edges)
  BY <1>1, <1>2, <1>3, Prefixes
<1>5. Cardinality(got) = Len(pages.received)
  <2> DEFINE f == [i \in 1..k |-> pages.received[i]]
  <2>1. f \in [1..k -> got] BY <1>4
  <2>2. \A i, j \in 1..k : i # j => f[i] # f[j]
    <3>1. \A i \in 1..k : f[i] = pages.items[i] /\ i \in 1..Len(pages.items)
      BY <1>2, <1>3, <1>4
    <3> QED BY <1>1, <3>1
  <2>3. \A x \in got : \E i \in 1..k : f[i] = x BY <1>4
  <2> HIDE DEF f, k, got
  <2>4. f \in Bijection(1..k, got)
    BY <2>1, <2>2, <2>3 DEF Bijection, Injection, Surjection, IsInjective
  <2>5. IsFiniteSet(1..k) /\ Cardinality(1..k) = k BY <1>3, FS_Interval
  <2>6. Cardinality(got) = Cardinality(1..k) BY <2>4, <2>5, FS_Bijection DEF ExistsBijection
  <2> QED BY <1>4, <2>5, <2>6
<1>6. DOMAIN pages.items = 1..Len(pages.items) BY <1>2
<1>7. got \subseteq budget.edges
  <2>1. \A i \in 1..k : i \in 1..Len(pages.items) BY <1>2, <1>3
  <2>2. \A i \in 1..k : pages.items[i] \in budget.edges BY <1>1, <1>6, <2>1 DEF Range
  <2> QED BY <1>4, <2>2
<1>8. k = Len(pages.items) => got = budget.edges
  BY <1>1, <1>4, <1>6, <1>7 DEF Range
<1> QED BY <1>1, <1>5, <1>7, <1>8 DEF DeliveredExact

-----------------------------------------------------------------------------
\* The next node of why, or of an impact, keeps the invariant.
LEMMA ExpandSearchKeeps ==
    ASSUME SearchInv, Expand, pc \in {"why", "forward", "reverse"} PROVE SearchInv'
<1>1. /\ pc' = pc /\ search.pending = {} /\ search.queue # <<>> /\ Going(search)
      /\ UNCHANGED <<graph, query, adjacency, budget, answer, pages>>
  BY DEF Expand, Going
<1>2. /\ QueryTyped /\ KindsMatch /\ query \in Queries /\ graph \in Graphs
      /\ pc = "reverse" => query.kind \in {"impact", "changes"} /\ query.depth \in Depths
      /\ pc = "why" => query.kind = "why"
      /\ pc = "forward" => query.kind = "impact"
  BY Queried DEF SearchInv, QueryTyped, KindsMatch
<1> DEFINE L == IF pc = "reverse" THEN query.depth ELSE {}
<1>3. L \in SUBSET Nat /\ (pc = "reverse" => L = query.depth) /\ (pc # "reverse" => L = {})
  BY <1>2, DepthLimit
<1>4. /\ Backward \in BOOLEAN /\ (pc = "reverse" => Backward = TRUE)
      /\ (pc # "reverse" => Backward = FALSE)
  BY <1>2 DEF Backward
<1>5. L = IF pc = "reverse" THEN query.depth ELSE {} OBVIOUS
<1> HIDE DEF L
<1>6. /\ adjacency = Relevant
      /\ Sound(search, adjacency, Backward, L) /\ Closed(search, adjacency, Backward, L)
  <2>1. CASE pc = "why" BY <1>1, <1>3, <1>4, <2>1 DEF SearchInv, WhyInv
  <2>2. CASE pc = "forward" BY <1>1, <1>3, <1>4, <2>2 DEF SearchInv, ForwardInv
  <2>3. CASE pc = "reverse" BY <1>1, <1>3, <1>4, <2>3 DEF SearchInv, ReverseInv
  <2> QED BY <2>1, <2>2, <2>3
<1>7. adjacency \in SUBSET Edges BY <1>2, <1>6, GraphTyped
<1>8. /\ Sound(search', adjacency, Backward, L)
      /\ Closed(search', adjacency, Backward, L)
      /\ Roots(search') = Roots(search) /\ search'.seen = search.seen
      /\ search'.depths = search.depths
  BY <1>3, <1>4, <1>5, <1>6, <1>7, ExpandedKeeps
<1>9. /\ Relevant' = Relevant /\ query' = query /\ adjacency' = adjacency /\ budget' = budget
  BY <1>1 DEF Relevant, Matching, matches
<1>10. KindsMatch' BY <1>1, <1>2 DEF KindsMatch
<1>11. TraverseInv' /\ PagesInv' /\ CyclesInv' /\ PathsShortest' /\ ImpactExact'
       /\ AttributionExact'
  BY <1>1 DEF TraverseInv, PagesInv, CyclesInv, PathsShortest, ImpactExact, AttributionExact
<1>12. WhyInv'
  <2> SUFFICES ASSUME pc = "why" PROVE WhyInv' BY <1>1 DEF WhyInv
  <2>1. /\ query.root # query.to /\ Roots(search) = {query.root} /\ query.to \notin search.seen
    BY <1>1 DEF SearchInv, WhyInv
  <2> QED BY <1>3, <1>4, <1>6, <1>8, <1>9, <2>1 DEF WhyInv
<1>13. ForwardInv'
  <2> SUFFICES ASSUME pc = "forward" PROVE ForwardInv' BY <1>1 DEF ForwardInv
  <2>1. /\ query.root \notin query.changed /\ Roots(search) = {query.root}
        /\ query.changed \cap search.seen = {} /\ budget.limits = {}
    BY <1>1 DEF SearchInv, ForwardInv
  <2> QED BY <1>3, <1>4, <1>6, <1>8, <1>9, <2>1 DEF ForwardInv
<1>14. ReverseInv'
  <2> SUFFICES ASSUME pc = "reverse" PROVE ReverseInv' BY <1>1 DEF ReverseInv
  <2>1. /\ answer.found
        /\ query.kind = "impact" => Roots(search) = {query.root} /\ ImpactFound
        /\ query.kind = "changes" =>
              /\ Roots(search) \subseteq Origins
              /\ Roots(search) # Origins =>
                    /\ budget.limits # {} /\ search.seen = Roots(search)
                    /\ Cardinality(budget.nodes) >= query.maxNodes
              /\ budget.nodes = search.seen
              /\ budget.edges \subseteq FollowedBack
              /\ budget.limits # {} => \/ Cardinality(Affected) > query.maxNodes
                                       \/ Cardinality(FollowedBack) > query.maxEdges
    BY DEF SearchInv, ReverseInv
  <2>2. /\ Origins' = Origins /\ Affected' = Affected /\ FollowedBack' = FollowedBack
        /\ (ImpactFound' <=> ImpactFound)
    BY <1>1, <1>9 DEF Origins, Affected, FollowedBack, MaxDepth, ImpactFound, Reachable
  <2>3. answer' = answer BY <1>1
  <2> QED BY <1>3, <1>4, <1>6, <1>8, <1>9, <2>1, <2>2, <2>3 DEF ReverseInv
<1>15. search' \in SearchRecords BY <1>8 DEF Sound
<1> QED BY <1>1, <1>2, <1>10, <1>11, <1>12, <1>13, <1>14, <1>15 DEF SearchInv, QueryTyped

\* A request that fails keeps the invariant.
LEMMA AbortKeeps ==
    ASSUME SearchInv, Abort PROVE SearchInv'
<1>1. /\ pc' = "failed" /\ adjacency' = {} /\ search' = NothingSearched
      /\ budget' = NothingSpent /\ answer' = NoAnswer /\ UNCHANGED <<graph, query, pages>>
  BY DEF Abort
<1>2. QueryTyped' BY <1>1, NothingTyped DEF SearchInv, QueryTyped
<1>3. KindsMatch' /\ TraverseInv' /\ PagesInv' /\ WhyInv' /\ ForwardInv' /\ ReverseInv'
      /\ CyclesInv' /\ PathsShortest' /\ ImpactExact' /\ AttributionExact'
  BY <1>1 DEF KindsMatch, TraverseInv, PagesInv, WhyInv, ForwardInv, ReverseInv, CyclesInv,
              PathsShortest, ImpactExact, AttributionExact
<1> QED BY <1>2, <1>3 DEF SearchInv

\* The invariant holds at the start.
LEMMA SearchInit == ASSUME Init PROVE SearchInv
<1>1. /\ pc = "start" /\ adjacency = {} /\ search = NothingSearched
      /\ budget = NothingSpent /\ answer = NoAnswer /\ pages = NoPages
      /\ graph \in Graphs /\ query \in Queries
  BY DEF Init
<1>2. QueryTyped BY <1>1, NothingTyped DEF QueryTyped
<1>3. KindsMatch /\ TraverseInv /\ PagesInv /\ WhyInv /\ ForwardInv /\ ReverseInv
      /\ CyclesInv /\ PathsShortest /\ ImpactExact /\ AttributionExact
  BY <1>1 DEF KindsMatch, TraverseInv, PagesInv, WhyInv, ForwardInv, ReverseInv, CyclesInv,
              PathsShortest, ImpactExact, AttributionExact, NoAnswer
<1> QED BY <1>2, <1>3 DEF SearchInv

\* A step that changes nothing keeps the invariant.
LEMMA StutterKeeps == ASSUME SearchInv, UNCHANGED vars PROVE SearchInv'
<1>1. /\ graph' = graph /\ query' = query /\ pc' = pc /\ adjacency' = adjacency
      /\ search' = search /\ budget' = budget /\ answer' = answer /\ pages' = pages
  BY DEF vars
<1>2. QueryTyped' /\ KindsMatch' BY <1>1 DEF SearchInv, QueryTyped, KindsMatch
<1>3. /\ Relevant' = Relevant /\ Origins' = Origins
  BY <1>1 DEF Relevant, Matching, matches, Origins
<1>4. Wanted' = Wanted BY <1>1 DEF Wanted, Matching, matches
<1>5. /\ Affected' = Affected /\ FollowedBack' = FollowedBack
       /\ (ImpactFound' <=> ImpactFound)
  BY <1>1, <1>3 DEF Affected, FollowedBack, MaxDepth, ImpactFound, Reachable
<1>6. LevelEdges' = LevelEdges /\ NextComponent' = NextComponent BY <1>1 DEF LevelEdges, NextComponent
<1>7. Loops' = Loops /\ \A c, path : CycleOf(c, path)' <=> CycleOf(c, path)
  BY <1>1, <1>6 DEF Loops, CycleOf
<1>8. \A n : PathFrom(n)' = PathFrom(n) BY <1>1 DEF PathFrom
<1>9. TraverseInv'
  <2>1. /\ Followed(adjacency)' = Followed(adjacency)
        /\ Leaving(adjacency, query.root)' = Leaving(adjacency, query.root)
    BY <1>1 DEF Followed, Leaving
  <2> QED BY <1>1, <1>3, <1>4, <2>1 DEF SearchInv, TraverseInv
<1>10. PagesInv' BY <1>1, <1>4 DEF SearchInv, PagesInv
<1>11. WhyInv' /\ ForwardInv' BY <1>1, <1>3 DEF SearchInv, WhyInv, ForwardInv
<1>12. ReverseInv' BY <1>1, <1>3, <1>5 DEF SearchInv, ReverseInv
<1>13. CyclesInv' BY <1>1, <1>6, <1>7 DEF SearchInv, CyclesInv
<1>14. PathsShortest' BY <1>1, <1>3, <1>6 DEF SearchInv, PathsShortest, Relevant
<1>15. ImpactExact' /\ AttributionExact'
  BY <1>1, <1>3, <1>8 DEF SearchInv, ImpactExact, AttributionExact, Relevant
<1> QED BY <1>2, <1>9, <1>10, <1>11, <1>12, <1>13, <1>14, <1>15 DEF SearchInv

-----------------------------------------------------------------------------
\* What j steps reach from a node that i steps reach is within i + j steps.
LEMMA BallCompose ==
    ASSUME NEW steps, NEW starts, NEW i \in Nat, NEW j \in Nat,
           NEW b \in Ball(steps, starts, i), NEW c \in Ball(steps, {b}, j)
    PROVE  c \in Ball(steps, starts, i + j)
<1> DEFINE T == { k \in Nat : Ball(steps, {b}, k) \subseteq Ball(steps, starts, i + k) }
<1>1. 0 \in T
  <2>1. Ball(steps, {b}, 0) = {b} BY BallZero
  <2>2. i + 0 = i OBVIOUS
  <2> QED BY <2>1, <2>2
<1>2. ASSUME NEW k \in Nat, k \in T PROVE k + 1 \in T
  <2>1. Ball(steps, {b}, k + 1) = Wider(steps, Ball(steps, {b}, k)) BY BallNext
  <2>2. Ball(steps, starts, i + k + 1) = Wider(steps, Ball(steps, starts, i + k)) BY BallNext
  <2>3. i + (k + 1) = i + k + 1 OBVIOUS
  <2>4. Ball(steps, {b}, k) \subseteq Ball(steps, starts, i + k) BY <1>2
  <2>5. Ball(steps, {b}, k + 1) \subseteq Ball(steps, starts, i + (k + 1))
    <3>1. Wider(steps, Ball(steps, {b}, k)) \subseteq Wider(steps, Ball(steps, starts, i + k))
      BY <2>4 DEF Wider
    <3> QED BY <2>1, <2>2, <2>3, <3>1
  <2> QED BY <2>5
<1> HIDE DEF T
<1>3. j \in T BY <1>1, <1>2, Induction
<1> QED BY <1>3 DEF T

\* What k + 1 steps reach from a node, k steps reach from one of its successors.
Front(steps, r, k) ==
    \A m \in Ball(steps, {r}, k + 1) :
        m = r \/ \E t \in steps : t[1] = r /\ m \in Ball(steps, {t[2]}, k)

\* Front, for every number of steps.
LEMMA BallFront ==
    ASSUME NEW steps, NEW r, NEW k \in Nat, NEW n \in Ball(steps, {r}, k + 1), n # r
    PROVE  \E t \in steps : t[1] = r /\ n \in Ball(steps, {t[2]}, k)
<1> DEFINE T == { i \in Nat : Front(steps, r, i) }
<1>1. 0 \in T
  <2> SUFFICES ASSUME NEW m \in Ball(steps, {r}, 0 + 1), m # r
               PROVE  \E t \in steps : t[1] = r /\ m \in Ball(steps, {t[2]}, 0)
    BY DEF Front
  <2>1. Ball(steps, {r}, 0 + 1) = Wider(steps, {r})
    <3>1. Ball(steps, {r}, 0 + 1) = Wider(steps, Ball(steps, {r}, 0)) BY BallNext
    <3> QED BY <3>1, BallZero
  <2>2. PICK t \in steps : t[1] \in {r} /\ t[2] = m BY <2>1 DEF Wider
  <2>3. m \in Ball(steps, {t[2]}, 0) BY <2>2, BallZero
  <2> QED BY <2>2, <2>3
<1>2. ASSUME NEW i \in Nat, i \in T PROVE i + 1 \in T
  <2> SUFFICES ASSUME NEW m \in Ball(steps, {r}, i + 1 + 1), m # r
               PROVE  \E t \in steps : t[1] = r /\ m \in Ball(steps, {t[2]}, i + 1)
    <3>1. Front(steps, r, i + 1) BY DEF Front
    <3> QED BY <3>1
  <2>1. i + 1 \in Nat OBVIOUS
  <2>2. CASE m \in Ball(steps, {r}, i + 1)
    <3>1. PICK t \in steps : t[1] = r /\ m \in Ball(steps, {t[2]}, i)
      BY <1>2, <2>2 DEF Front
    <3>2. m \in Ball(steps, {t[2]}, i + 1) BY <2>1, <3>1, BallGrows
    <3> QED BY <3>1, <3>2
  <2>3. CASE m \notin Ball(steps, {r}, i + 1)
    <3>1. PICK s \in steps : s[1] \in Ball(steps, {r}, i + 1) /\ s[2] = m
      BY <2>1, <2>3, BallBack
    <3>2. CASE s[1] = r
      <4>1. m \in Ball(steps, {s[2]}, 0) BY <3>1, BallZero
      <4>2. m \in Ball(steps, {s[2]}, i + 1) BY <2>1, <4>1, BallGrows
      <4> QED BY <3>2, <4>2
    <3>3. CASE s[1] # r
      <4>1. PICK t \in steps : t[1] = r /\ s[1] \in Ball(steps, {t[2]}, i)
        BY <1>2, <3>1, <3>3 DEF Front
      <4>2. m \in Ball(steps, {t[2]}, i + 1) BY <3>1, <4>1, BallStep
      <4> QED BY <4>1, <4>2
    <3> QED BY <3>2, <3>3
  <2> QED BY <2>2, <2>3
<1> HIDE DEF T
<1>3. k \in T BY <1>1, <1>2, Induction
<1> QED BY <1>3 DEF T, Front

\* The closure holds every ball, forward.
LEMMA StepsClosure ==
    ASSUME NEW E \in SUBSET Edges, NEW starts \in SUBSET Nodes, NEW k \in Nat
    PROVE  Ball(Steps(E), starts, k) \subseteq Closure(Steps(E), starts)
<1>1. PICK back \in BOOLEAN : back = FALSE OBVIOUS
<1>2. Ways(E, back) = Steps(E) BY <1>1, WaysSteps
<1>3. Ball(Ways(E, back), starts, k) \subseteq Closure(Ways(E, back), starts) BY ClosureHolds
<1> QED BY <1>2, <1>3

\* A node reaches itself.
LEMMA ReachesSelf ==
    ASSUME NEW E \in SUBSET Edges, NEW n \in Nodes
    PROVE  n \in Closure(Steps(E), {n})
<1>1. n \in Ball(Steps(E), {n}, 0) BY BallZero
<1>2. 0 \in Nat /\ {n} \in SUBSET Nodes OBVIOUS
<1>3. Ball(Steps(E), {n}, 0) \subseteq Closure(Steps(E), {n}) BY <1>2, StepsClosure
<1> QED BY <1>1, <1>3

\* Reachability is transitive.
LEMMA ReachesOn ==
    ASSUME NEW E \in SUBSET Edges, NEW a \in Nodes,
           NEW b \in Closure(Steps(E), {a}), NEW c \in Closure(Steps(E), {b})
    PROVE  c \in Closure(Steps(E), {a})
<1>1. Everywhere \in Nat /\ Everywhere + Everywhere \in Nat /\ {a} \in SUBSET Nodes
  BY NodesFinite DEF Everywhere
<1>2. c \in Ball(Steps(E), {a}, Everywhere + Everywhere) BY <1>1, BallCompose DEF Closure
<1>3. Ball(Steps(E), {a}, Everywhere + Everywhere) \subseteq Closure(Steps(E), {a})
  BY <1>1, StepsClosure
<1> QED BY <1>2, <1>3

\* The source of an edge reaches its target.
LEMMA ReachesEdge ==
    ASSUME NEW E \in SUBSET Edges, NEW e \in E
    PROVE  Target(e) \in Closure(Steps(E), {Source(e)})
<1>1. Source(e) \in Nodes BY EdgeShape
<1>2. Source(e) \in Ball(Steps(E), {Source(e)}, 0) BY BallZero
<1>3. <<Source(e), Target(e)>> \in Steps(E) BY DEF Steps
<1>4. Target(e) \in Ball(Steps(E), {Source(e)}, 0 + 1) BY <1>2, <1>3, BallStep
<1>5. 0 + 1 \in Nat /\ {Source(e)} \in SUBSET Nodes BY <1>1
<1>6. Ball(Steps(E), {Source(e)}, 0 + 1) \subseteq Closure(Steps(E), {Source(e)})
  BY <1>5, StepsClosure
<1> QED BY <1>4, <1>6

\* The nodes that a node reaches and that reach it: its component.
Mutual(n) ==
    { m \in query.allowed : /\ m \in Closure(Steps(LevelEdges), {n})
                            /\ n \in Closure(Steps(LevelEdges), {m}) }

\* The level's edges lie between allowed nodes, and the components are those of the
\* nodes.
LEMMA LevelTyped ==
    ASSUME graph \in Graphs, query \in Queries, query.kind = "cycles"
    PROVE  /\ LevelEdges \in SUBSET Edges /\ query.allowed \in SUBSET Nodes
           /\ \A e \in LevelEdges : Source(e) \in query.allowed /\ Target(e) \in query.allowed
           /\ Components(LevelEdges, query.allowed) = { Mutual(n) : n \in query.allowed }
<1>1. graph \subseteq Edges /\ query.allowed \in SUBSET Nodes BY GraphTyped, Queried
<1>2. ASSUME NEW e \in LevelEdges
      PROVE  e \in Edges /\ Source(e) \in query.allowed /\ Target(e) \in query.allowed
  <2>1. PICK f \in graph : /\ e = <<Source(f), Target(f), 0>>
                           /\ {Source(f), Target(f)} \subseteq query.allowed
    BY DEF LevelEdges
  <2>2. Source(e) = Source(f) /\ Target(e) = Target(f) BY <2>1 DEF Source, Target
  <2>3. Source(f) \in query.allowed /\ Target(f) \in query.allowed BY <2>1
  <2>4. Source(f) \in Nodes /\ Target(f) \in Nodes BY <1>1, <2>3
  <2> HIDE DEF Source, Target
  <2>5. e \in Edges BY <2>1, <2>4 DEF Edges
  <2> QED BY <2>2, <2>3, <2>5
<1>3. Components(LevelEdges, query.allowed) = { Mutual(n) : n \in query.allowed }
  BY DEF Components, Mutual
<1> QED BY <1>1, <1>2, <1>3

\* A component is the one of each of its nodes.
LEMMA ComponentIs ==
    ASSUME graph \in Graphs, query \in Queries, query.kind = "cycles",
           NEW c \in Components(LevelEdges, query.allowed)
    PROVE  /\ c \in SUBSET Nodes /\ c # {} /\ c \subseteq query.allowed
           /\ \A m \in c : c = Mutual(m)
<1>1. /\ LevelEdges \in SUBSET Edges /\ query.allowed \in SUBSET Nodes
      /\ Components(LevelEdges, query.allowed) = { Mutual(n) : n \in query.allowed }
  BY LevelTyped
<1>2. PICK n \in query.allowed : c = Mutual(n) BY <1>1
<1>3. n \in Nodes BY <1>1
<1>4. n \in c BY <1>1, <1>2, <1>3, ReachesSelf DEF Mutual
<1>5. ASSUME NEW m \in c PROVE c = Mutual(m)
  <2>1. /\ m \in Nodes /\ m \in Closure(Steps(LevelEdges), {n})
        /\ n \in Closure(Steps(LevelEdges), {m})
    BY <1>1, <1>2 DEF Mutual
  <2>2. ASSUME NEW x \in query.allowed PROVE x \in Mutual(n) <=> x \in Mutual(m)
    <3>1. x \in Nodes BY <1>1
    <3>2. x \in Mutual(n) => x \in Mutual(m)
      BY <1>1, <1>3, <2>1, <3>1, ReachesOn DEF Mutual
    <3>3. x \in Mutual(m) => x \in Mutual(n)
      BY <1>1, <1>3, <2>1, <3>1, ReachesOn DEF Mutual
    <3> QED BY <3>2, <3>3
  <2>3. Mutual(n) \subseteq query.allowed /\ Mutual(m) \subseteq query.allowed BY DEF Mutual
  <2> QED BY <1>2, <2>2, <2>3
<1>6. c \subseteq query.allowed BY <1>2 DEF Mutual
<1> QED BY <1>1, <1>4, <1>5, <1>6

\* A component of two nodes has an edge within it.
LEMMA ComponentLoops ==
    ASSUME graph \in Graphs, query \in Queries, query.kind = "cycles",
           NEW c \in Components(LevelEdges, query.allowed), NEW n \in c, NEW m \in c, n # m
    PROVE  Within(LevelEdges, c) # {}
<1> DEFINE steps == Steps(LevelEdges)
           K == { k \in Nat : m \in Ball(steps, {n}, k) }
<1>1. /\ LevelEdges \in SUBSET Edges /\ query.allowed \in SUBSET Nodes
      /\ c \subseteq query.allowed /\ c = Mutual(n) /\ c = Mutual(m)
      /\ \A e \in LevelEdges : Source(e) \in query.allowed
  BY LevelTyped, ComponentIs
<1>2. n \in Nodes /\ m \in Nodes /\ {n} \in SUBSET Nodes BY <1>1
<1>3. Everywhere \in K BY <1>1, NodesFinite DEF Mutual, Closure, Everywhere
<1>4. PICK k \in K : \A i \in K : k <= i BY <1>3, LeastNatural
<1>5. k # 0 BY <1>4, BallZero
<1>6. k - 1 \in Nat /\ k = k - 1 + 1 /\ ~(k <= k - 1) BY <1>4, <1>5
<1>7. m \notin Ball(steps, {n}, k - 1) BY <1>4, <1>6
<1>8. m \in Ball(steps, {n}, k - 1 + 1) BY <1>4, <1>6
<1>9. PICK t \in steps : t[1] \in Ball(steps, {n}, k - 1) /\ t[2] = m
  BY <1>6, <1>7, <1>8, BallBack
<1>10. PICK e \in LevelEdges : t = <<Source(e), Target(e)>> BY DEF Steps
<1>11. Source(e) \in Closure(steps, {n})
  <2>1. Source(e) \in Ball(steps, {n}, k - 1) BY <1>9, <1>10
  <2>2. Ball(steps, {n}, k - 1) \subseteq Closure(steps, {n}) BY <1>1, <1>2, <1>6, StepsClosure
  <2> QED BY <2>1, <2>2
<1>12. Target(e) = m /\ m \in Closure(steps, {Source(e)}) /\ n \in Closure(steps, {m})
  <2>1. Target(e) = m BY <1>9, <1>10
  <2>2. Target(e) \in Closure(steps, {Source(e)}) BY <1>1, ReachesEdge
  <2> QED BY <1>1, <2>1, <2>2 DEF Mutual
<1>13. Source(e) \in Nodes BY <1>1
<1>14. n \in Closure(steps, {Source(e)}) BY <1>1, <1>12, <1>13, ReachesOn
<1>15. Source(e) \in c BY <1>1, <1>11, <1>14 DEF Mutual
<1>16. e \in Within(LevelEdges, c) BY <1>12, <1>15 DEF Within
<1> QED BY <1>16

\* A cycle belongs to one component only.
LEMMA ComponentsApart ==
    ASSUME graph \in Graphs, query \in Queries, query.kind = "cycles",
           NEW c \in Loops, NEW d \in Loops, NEW p, CycleOf(c, p), CycleOf(d, p), p \in Seq(Edges)
    PROVE  c = d
<1>1. c \in Components(LevelEdges, query.allowed) /\ d \in Components(LevelEdges, query.allowed)
  BY DEF Loops
<1>2. 1 \in 1..Len(p) BY DEF CycleOf
<1>3. p[1] \in Within(LevelEdges, c) /\ p[1] \in Within(LevelEdges, d) BY <1>2 DEF CycleOf
<1>4. Source(p[1]) \in c /\ Source(p[1]) \in d BY <1>3 DEF Within
<1>5. c = Mutual(Source(p[1])) /\ d = Mutual(Source(p[1])) BY <1>1, <1>4, ComponentIs
<1> QED BY <1>5

\* Starting the cycles keeps the invariant: every component with two nodes, or with an
\* edge, is one with a cycle.
LEMMA StartCyclesKeeps ==
    ASSUME SearchInv, StartCycles PROVE SearchInv'
<1>1. /\ pc = "start" /\ query.kind = "cycles" /\ pc' = "next_cycle"
      /\ UNCHANGED <<graph, query, adjacency, search, budget, pages>>
      /\ query.allowed \in SUBSET Nodes /\ graph \in Graphs /\ query \in Queries
  BY Queried DEF StartCycles, SearchInv, QueryTyped
<1> DEFINE kept == { c \in Components(LevelEdges, query.allowed) :
                       Cardinality(c) > 1 \/ Within(LevelEdges, c) # {} }
<1>2. answer' = [NoAnswer EXCEPT !.components = kept] BY DEF StartCycles
<1>3. kept = Loops
  <2> SUFFICES ASSUME NEW c \in Components(LevelEdges, query.allowed), Cardinality(c) > 1
               PROVE  Within(LevelEdges, c) # {}
    BY DEF Loops
  <2>1. c \in SUBSET Nodes /\ c # {} BY <1>1, ComponentIs
  <2>2. PICK n : n \in c BY <2>1
  <2>3. PICK m \in c : m # n
    <3> SUFFICES ASSUME c = {n} PROVE FALSE BY <2>2
    <3>1. Cardinality({n}) = 1 BY FS_Singleton
    <3> QED BY <3>1
  <2> QED BY <1>1, <2>2, <2>3, ComponentLoops
<1> HIDE DEF kept
<1>4. Loops \in SUBSET SUBSET Nodes BY <1>1, ComponentIs DEF Loops
<1>5. answer' \in Answers /\ answer'.components = Loops /\ answer'.cycles = {}
      /\ ~answer'.found
  BY <1>2, <1>3, <1>4, NothingTyped DEF Answers, NoAnswer
<1>6. QueryTyped' BY <1>1, <1>5 DEF SearchInv, QueryTyped
<1>7. KindsMatch' BY <1>1 DEF KindsMatch
<1>8. TraverseInv' /\ PagesInv' /\ WhyInv' /\ ForwardInv' /\ ReverseInv'
      /\ PathsShortest' /\ ImpactExact' /\ AttributionExact'
  BY <1>1 DEF TraverseInv, PagesInv, WhyInv, ForwardInv, ReverseInv,
              PathsShortest, ImpactExact, AttributionExact
<1>9. LevelEdges' = LevelEdges BY <1>1 DEF LevelEdges
<1>10. Loops' = Loops BY <1>1, <1>9 DEF Loops
<1>11. CyclesInv' BY <1>1, <1>5, <1>10 DEF CyclesInv
<1> QED BY <1>6, <1>7, <1>8, <1>11 DEF SearchInv

\* The next component is one that is left, and its start is its smallest node.
LEMMA NextComponentIs ==
    ASSUME graph \in Graphs, query \in Queries, query.kind = "cycles",
           answer.components \subseteq Loops, answer.components # {}
    PROVE  /\ NextComponent \in answer.components /\ NextComponent \in Loops
           /\ CycleStart(NextComponent) \in NextComponent
           /\ CycleStart(NextComponent) = Min(NextComponent)
           /\ CycleStart(NextComponent) \in Nodes
<1>1. \A c \in Loops : c \in SUBSET Nodes /\ c # {} BY ComponentIs DEF Loops
<1>2. \A c \in Loops : Min(c) \in c /\ Min(c) \in Nat
  <2> TAKE c \in Loops
  <2>1. c \in SUBSET Nat /\ c # {} BY <1>1, QueryAssumption
  <2> QED BY <2>1, MinIs
<1> DEFINE S == { Min(c) : c \in answer.components }
<1>3. S \in SUBSET Nat /\ S # {} BY <1>2
<1>4. PICK m \in S : \A k \in S : m <= k BY <1>3, LeastNatural
<1>5. PICK c \in answer.components : Min(c) = m BY <1>4
<1>6. \A d \in answer.components : Min(c) <= Min(d) BY <1>4, <1>5
<1>7. NextComponent \in answer.components BY <1>6 DEF NextComponent
<1> QED BY <1>1, <1>2, <1>7 DEF CycleStart

\* When each component with a cycle has exactly one reported, there are as many.
LEMMA CyclesCounted ==
    ASSUME graph \in Graphs, query \in Queries, query.kind = "cycles", answer \in Answers,
           \A path \in answer.cycles : \E c \in Loops : CycleOf(c, path),
           \A c \in Loops : \E path \in answer.cycles : CycleOf(c, path),
           \A c \in Loops, p, q \in answer.cycles : CycleOf(c, p) /\ CycleOf(c, q) => p = q
    PROVE  Cardinality(answer.cycles) = Cardinality(Loops)
<1> DEFINE f == [c \in Loops |-> CHOOSE path \in answer.cycles : CycleOf(c, path)]
<1>1. \A c \in Loops : f[c] \in answer.cycles /\ CycleOf(c, f[c]) OBVIOUS
<1>2. f \in [Loops -> answer.cycles] BY <1>1
<1>3. \A p \in answer.cycles : p \in Seq(Edges) BY DEF Answers
<1> HIDE DEF f
<1>4. ASSUME NEW c \in Loops, NEW d \in Loops, f[c] = f[d] PROVE c = d
  <2>1. CycleOf(c, f[c]) /\ CycleOf(d, f[c]) /\ f[c] \in Seq(Edges) BY <1>1, <1>3, <1>4
  <2> QED BY <2>1, ComponentsApart
<1>5. ASSUME NEW p \in answer.cycles PROVE \E c \in Loops : f[c] = p
  <2>1. PICK c \in Loops : CycleOf(c, p) OBVIOUS
  <2> QED BY <1>1, <2>1
<1>6. f \in Bijection(Loops, answer.cycles)
  BY <1>2, <1>4, <1>5 DEF Bijection, Injection, Surjection, IsInjective
<1>7. IsFiniteSet(Loops)
  <2>1. Loops \in SUBSET SUBSET Nodes BY ComponentIs DEF Loops
  <2>2. IsFiniteSet(SUBSET Nodes) BY NodesFinite, FS_SUBSET
  <2> QED BY <2>1, <2>2, FS_Subset
<1> QED BY <1>6, <1>7, FS_Bijection DEF ExistsBijection

\* Taking the next component, or ending when none is left, keeps the invariant.
LEMMA NextCycleKeeps ==
    ASSUME SearchInv, NextCycle PROVE SearchInv'
<1>1. /\ pc = "next_cycle" /\ query.kind = "cycles"
      /\ UNCHANGED <<graph, query, budget, answer, pages>>
      /\ query.allowed \in SUBSET Nodes /\ graph \in Graphs /\ query \in Queries
      /\ answer \in Answers /\ QueryTyped
  BY Queried DEF NextCycle, SearchInv, QueryTyped, KindsMatch
<1>2. /\ answer.components \subseteq Loops
      /\ \A path \in answer.cycles :
            \E c \in Loops \ answer.components : CycleOf(c, path)
      /\ \A c \in Loops \ answer.components : \E path \in answer.cycles : CycleOf(c, path)
      /\ \A c \in Loops, p, q \in answer.cycles : CycleOf(c, p) /\ CycleOf(c, q) => p = q
  BY <1>1 DEF SearchInv, CyclesInv
<1>3. /\ LevelEdges' = LevelEdges /\ NextComponent' = NextComponent
      /\ answer' = answer /\ query' = query
  BY <1>1 DEF LevelEdges, NextComponent
<1>4. Loops' = Loops /\ \A c, path : CycleOf(c, path)' <=> CycleOf(c, path)
  BY <1>1, <1>3 DEF Loops, CycleOf
<1>5. TraverseInv' /\ PagesInv' /\ WhyInv' /\ ForwardInv' /\ ReverseInv'
      /\ ImpactExact' /\ AttributionExact'
  <2>1. pc' \in {"done", "cycles"} BY DEF NextCycle
  <2> QED BY <1>1, <2>1 DEF TraverseInv, PagesInv, WhyInv, ForwardInv, ReverseInv,
                            ImpactExact, AttributionExact
<1>6. CASE answer.components = {}
  <2>1. pc' = "done" /\ UNCHANGED <<adjacency, search>> BY <1>6 DEF NextCycle
  <2>2. Cardinality(answer.cycles) = Cardinality(Loops)
    BY <1>1, <1>2, <1>6, CyclesCounted
  <2>3. \A c \in Loops : \E path \in answer.cycles : CycleOf(c, path) BY <1>2, <1>6
  <2>4. PathsShortest'
    BY <1>1, <1>3, <2>1, <2>2, <2>3 DEF PathsShortest, CycleOf, Loops
  <2>5. KindsMatch' /\ CyclesInv' BY <1>1, <2>1 DEF KindsMatch, CyclesInv
  <2> QED BY <1>1, <1>5, <2>1, <2>4, <2>5 DEF SearchInv, QueryTyped
<1>7. CASE answer.components # {}
  <2> DEFINE start == CycleStart(NextComponent)
  <2>1. /\ pc' = "cycles" /\ adjacency' = Within(LevelEdges, NextComponent)
        /\ search' = Rooted({start}, <<start>>)
    BY <1>7 DEF NextCycle
  <2>2. start \in Nodes BY <1>1, <1>2, <1>7, NextComponentIs
  <2>3. LevelEdges \in SUBSET Edges BY <1>1, LevelTyped
  <2>4. Within(LevelEdges, NextComponent) \in SUBSET Edges BY <2>3 DEF Within
  <2>5. /\ Sound(search', adjacency', FALSE, {}) /\ Closed(search', adjacency', FALSE, {})
        /\ Roots(search') = {start} /\ search'.seen = {start}
        /\ search'.queue = <<start>> /\ search' \in SearchRecords
    <3> DEFINE s == Rooted({start}, <<start>>)
    <3> HIDE DEF start
    <3>1. \A A \in SUBSET Edges, back \in BOOLEAN, L \in SUBSET Nat :
             /\ Sound(s, A, back, L) /\ Closed(s, A, back, L)
             /\ Roots(s) = {start} /\ s.seen = {start}
             /\ s.queue = <<start>> /\ s.pending = {} /\ s \in SearchRecords
      BY <2>2, SingletonRooted
    <3>2. search' = s BY <2>1 DEF start
    <3> HIDE DEF s
    <3>3. Sound(s, adjacency', FALSE, {}) /\ Closed(s, adjacency', FALSE, {})
      BY <2>1, <2>4, <3>1
    <3>4. /\ Roots(s) = {start} /\ s.seen = {start}
          /\ s.queue = <<start>> /\ s \in SearchRecords
      BY <2>4, <3>1
    <3> QED BY <3>2, <3>3, <3>4
  <2>6. search'.seen \ Range(search'.queue) = {}
    <3> HIDE DEF start
    <3>1. Range(<<start>>) = {start} BY DEF Range
    <3> QED BY <2>5, <3>1
  <2>7. start = CycleStart(NextComponent') BY <1>3
  <2> HIDE DEF start
  <2>8. CyclesInv'
    BY <1>2, <1>3, <1>4, <1>7, <2>1, <2>5, <2>6, <2>7 DEF CyclesInv
  <2>9. KindsMatch' /\ PathsShortest' BY <1>1, <2>1 DEF KindsMatch, PathsShortest
  <2> QED BY <1>1, <1>5, <2>1, <2>4, <2>5, <2>8, <2>9 DEF SearchInv, QueryTyped, Searches
<1> QED BY <1>6, <1>7

\* While no edge back to the start has been passed, no node nearer than the one at
\* hand has such an edge.
LEMMA NoEarlierEdge ==
    ASSUME adjacency \in SUBSET Edges, NEW back \in BOOLEAN, back = FALSE,
           Sound(search, adjacency, back, {}), Closed(search, adjacency, back, {}),
           NEW r, Roots(search) = {r}, NEW e \in search.pending,
           \A f \in adjacency \ search.pending :
              Source(f) \in search.seen \ Range(search.queue) => Target(f) # r,
           NEW f \in adjacency, Target(f) = r, NEW i \in Nat, i < search.depths[Source(e)]
    PROVE  Source(f) \notin Ball(Ways(adjacency, back), {r}, i)
<1> DEFINE d == search.depths[Source(e)]
           w == Source(f)
<1> SUFFICES ASSUME w \in Ball(Ways(adjacency, back), {r}, i) PROVE FALSE OBVIOUS
<1>1. /\ search \in SearchRecords /\ Tree(search, adjacency, back)
      /\ Ordered(search, adjacency, back) /\ {} \in SUBSET Nat
  BY DEF Sound
<1>2. \A g : from(back, g) = Source(g) BY DEF from
<1>3. Source(e) \in search.seen /\ d \in Nat BY <1>1, <1>2 DEF Ordered, Tree
<1>4. \A n \in Range(search.queue) : d <= search.depths[n]
  BY <1>1, <1>2 DEF Ordered, Range, SearchRecords
<1>5. \A g \in search.pending : Source(g) = Source(e) BY <1>1, <1>2 DEF Ordered
<1> HIDE DEF d
<1>6. \A n \in Open(search, back) : n \in search.seen => d <= search.depths[n]
  BY <1>2, <1>3, <1>4, <1>5 DEF Open, d
<1>7. \A n \in search.seen : search.depths[n] < d => ~Deep(search, {}, n) BY DEF Deep
<1>8. i \in 0..d /\ i < d BY <1>3 DEF d
<1>9. Near(search, adjacency, back, i) \subseteq { n \in search.seen : search.depths[n] <= i }
  BY <1>1, <1>3, <1>6, <1>7, <1>8, LevelsSeen
<1>10. w \in search.seen /\ search.depths[w] <= i /\ search.depths[w] \in Nat
  BY <1>1, <1>9 DEF Near, Tree
<1>11. ~(d <= search.depths[w]) BY <1>3, <1>8, <1>10
<1>12. w \notin Range(search.queue) BY <1>4, <1>11
<1>13. f \notin search.pending
  <2>1. f \in search.pending => search.depths[Source(f)] = d BY <1>5 DEF d
  <2>2. d <= d BY <1>3
  <2> QED BY <1>11, <2>1, <2>2
<1> QED BY <1>10, <1>12, <1>13

\* Hence the first edge back to the start closes a shortest cycle through it.
LEMMA ClosingCycle ==
    ASSUME adjacency \in SUBSET Edges, Sound(search, adjacency, FALSE, {}),
           Closed(search, adjacency, FALSE, {}), NEW r, Roots(search) = {r},
           NEW e \in search.pending, Target(e) = r,
           \A f \in adjacency \ search.pending :
              Source(f) \in search.seen \ Range(search.queue) => Target(f) # r
    PROVE  CycleLength(adjacency, r) = search.depths[Source(e)] + 1
<1>1. PICK back \in BOOLEAN : back = FALSE OBVIOUS
<1> DEFINE steps == Ways(adjacency, back)
           d == search.depths[Source(e)]
           out == { f \in adjacency : Source(f) = r }
           S == { Distance(steps, {Target(g)}, r) :
                    g \in { f \in adjacency : Source(f) = r /\ r \in Closure(steps, {Target(f)}) } }
<1>2. Sound(search, adjacency, back, {}) /\ Closed(search, adjacency, back, {}) BY <1>1
<1>3. steps = Steps(adjacency) BY <1>1, WaysSteps
<1>4. /\ e \in adjacency /\ Source(e) \in search.seen /\ d \in Nat
      /\ Source(e) \in Ball(steps, {r}, d) /\ r \in Nodes /\ search.depths[r] = 0
  BY <1>1, <1>2 DEF Sound, Ordered, Tree, Exact, Near, Roots, from
<1>5. \A f \in adjacency : <<Source(f), Target(f)>> \in steps BY <1>3 DEF Steps
<1>6. ASSUME NEW f \in adjacency, Target(f) = r, NEW i \in Nat, i < d
      PROVE  Source(f) \notin Ball(steps, {r}, i)
  BY <1>1, <1>2, <1>6, NoEarlierEdge
<1>7. \A g \in adjacency : Target(g) \in Nodes /\ Source(g) \in Nodes BY EdgeShape
<1> HIDE DEF steps, d
<1>8. ASSUME NEW g \in out PROVE \A i \in Nat : i < d => r \notin Ball(steps, {Target(g)}, i)
  <2> DEFINE T == { i \in Nat : i < d => r \notin Ball(steps, {Target(g)}, i) }
  <2>1. 0 \in T
    <3> SUFFICES ASSUME 0 < d, r \in Ball(steps, {Target(g)}, 0) PROVE FALSE OBVIOUS
    <3>1. Target(g) = r BY BallZero
    <3>2. Source(g) \in Ball(steps, {r}, 0) BY BallZero
    <3> QED BY <1>6, <3>1, <3>2
  <2>2. ASSUME NEW i \in Nat, i \in T PROVE i + 1 \in T
    <3> SUFFICES ASSUME i + 1 < d, r \in Ball(steps, {Target(g)}, i + 1) PROVE FALSE
      OBVIOUS
    <3>1. i < d BY <1>4
    <3>2. r \notin Ball(steps, {Target(g)}, i) BY <2>2, <3>1
    <3>3. PICK t \in steps : t[1] \in Ball(steps, {Target(g)}, i) /\ t[2] = r
      BY <3>2, BallBack
    <3>4. PICK f \in adjacency : t = <<Source(f), Target(f)>> BY <1>3 DEF Steps
    <3>5. Target(f) = r /\ Source(f) \in Ball(steps, {Target(g)}, i) BY <3>3, <3>4
    <3>6. Target(g) \in Ball(steps, {r}, 0 + 1)
      <4>1. r \in Ball(steps, {r}, 0) BY BallZero
      <4>2. <<r, Target(g)>> \in steps BY <1>5
      <4>3. <<r, Target(g)>>[1] = r /\ <<r, Target(g)>>[2] = Target(g) OBVIOUS
      <4>4. 0 \in Nat OBVIOUS
      <4> QED BY <4>1, <4>2, <4>3, <4>4, BallStep
    <3>7. Source(f) \in Ball(steps, {r}, (0 + 1) + i)
      <4>1. 0 + 1 \in Nat OBVIOUS
      <4> QED BY <3>5, <3>6, <4>1, BallCompose
    <3>8. (0 + 1) + i = i + 1 /\ i + 1 \in Nat OBVIOUS
    <3> QED BY <1>6, <3>5, <3>7, <3>8
  <2> HIDE DEF T
  <2>3. Nat \subseteq T BY <2>1, <2>2, Induction
  <2> QED BY <2>3 DEF T
<1>9. \E g \in out : r \in Ball(steps, {Target(g)}, d)
  <2>1. CASE d = 0
    <3>1. Source(e) = r BY <1>4, <2>1, BallZero
    <3>2. r \in Ball(steps, {Target(e)}, 0) BY BallZero
    <3> QED BY <1>4, <2>1, <3>1, <3>2
  <2>2. CASE d # 0
    <3>1. d - 1 \in Nat /\ d - 1 + 1 = d BY <1>4, <2>2
    <3>2. Source(e) # r BY <1>4, <2>2 DEF d
    <3>3. Source(e) \in Ball(steps, {r}, d - 1 + 1) BY <1>4, <3>1
    <3>4. PICK t \in steps : t[1] = r /\ Source(e) \in Ball(steps, {t[2]}, d - 1)
      BY <3>1, <3>2, <3>3, BallFront
    <3>5. PICK g \in adjacency : t = <<Source(g), Target(g)>> BY <1>3 DEF Steps
    <3>6. Source(g) = r /\ Source(e) \in Ball(steps, {Target(g)}, d - 1) BY <3>4, <3>5
    <3>7. <<Source(e), Target(e)>> \in steps BY <1>4, <1>5
    <3>8. Target(e) \in Ball(steps, {Target(g)}, d - 1 + 1)
      <4>1. <<Source(e), Target(e)>>[1] = Source(e) /\ <<Source(e), Target(e)>>[2] = Target(e)
        OBVIOUS
      <4> QED BY <3>1, <3>6, <3>7, <4>1, BallStep
    <3>9. r \in Ball(steps, {Target(g)}, d) BY <3>1, <3>8
    <3> QED BY <3>6, <3>9
  <2> QED BY <2>1, <2>2
<1>10. PICK g \in out : r \in Ball(steps, {Target(g)}, d) BY <1>9
<1>11. Distance(steps, {Target(g)}, r) = d /\ r \in Closure(steps, {Target(g)})
  <2>1. \A i \in 0..d - 1 : r \notin Ball(steps, {Target(g)}, i)
    BY <1>4, <1>8
  <2>2. {Target(g)} \in SUBSET Nodes BY <1>7
  <2>3. back \in BOOLEAN /\ d \in Nat /\ r \in Nodes BY <1>1, <1>4
  <2>4. steps = Ways(adjacency, back) BY DEF steps
  <2> HIDE DEF S, out
  <2> DEFINE starts == {Target(g)}
  <2>5. /\ r \in Ball(Ways(adjacency, back), starts, d) /\ starts \in SUBSET Nodes
        /\ \A k \in 0..d - 1 : r \notin Ball(Ways(adjacency, back), starts, k)
    BY <1>10, <2>1, <2>2, <2>4
  <2> HIDE DEF starts
  <2>6. /\ Distance(Ways(adjacency, back), starts, r) = d
        /\ r \in Closure(Ways(adjacency, back), starts)
    BY <2>3, <2>5, DistanceIs
  <2> QED BY <2>4, <2>6 DEF starts
<1>12. d \in S BY <1>11
<1>13. ASSUME NEW k \in S PROVE k \in Nat /\ d <= k
  <2>1. PICK h \in out : k = Distance(steps, {Target(h)}, r) /\ r \in Closure(steps, {Target(h)})
    OBVIOUS
  <2>2. {Target(h)} \in SUBSET Nodes BY <1>7
  <2>3. k \in Nat /\ r \in Ball(steps, {Target(h)}, k)
    BY <2>1, <2>2, DistanceLeast DEF steps
  <2>4. ~(k < d) BY <1>8, <2>3
  <2> QED BY <1>4, <2>3, <2>4
<1>14. Min(S) = d BY <1>12, <1>13, MinWitness
<1>15. CycleLength(adjacency, r) = 1 + Min(S) BY <1>3 DEF CycleLength
<1> QED BY <1>4, <1>14, <1>15 DEF d

\* What the search for a cycle knows of its component and of its variables.
LEMMA Cycling ==
    ASSUME SearchInv, pc = "cycles"
    PROVE  /\ query.kind = "cycles" /\ graph \in Graphs /\ query \in Queries
           /\ answer \in Answers /\ Backward = FALSE
           /\ adjacency \in SUBSET Edges /\ adjacency = Within(LevelEdges, NextComponent)
           /\ NextComponent \in answer.components /\ NextComponent \in Loops
           /\ CycleStart(NextComponent) \in Nodes
           /\ CycleStart(NextComponent) = Min(NextComponent)
           /\ Sound(search, adjacency, FALSE, {}) /\ Closed(search, adjacency, FALSE, {})
           /\ Roots(search) = {CycleStart(NextComponent)}
           /\ \A e \in adjacency \ search.pending :
                 Source(e) \in search.seen \ Range(search.queue) =>
                     Target(e) # CycleStart(NextComponent)
<1>1. /\ query.kind = "cycles" /\ graph \in Graphs /\ query \in Queries
      /\ answer \in Answers /\ adjacency \in SUBSET Edges
  BY DEF SearchInv, QueryTyped, KindsMatch
<1>2. Backward = FALSE BY <1>1 DEF Backward
<1>3. /\ answer.components \subseteq Loops /\ answer.components # {}
      /\ adjacency = Within(LevelEdges, NextComponent)
      /\ Sound(search, adjacency, FALSE, {}) /\ Closed(search, adjacency, FALSE, {})
      /\ Roots(search) = {CycleStart(NextComponent)}
      /\ \A e \in adjacency \ search.pending :
            Source(e) \in search.seen \ Range(search.queue) =>
                Target(e) # CycleStart(NextComponent)
  BY DEF SearchInv, CyclesInv
<1>4. /\ NextComponent \in answer.components /\ NextComponent \in Loops
      /\ CycleStart(NextComponent) \in Nodes
      /\ CycleStart(NextComponent) = Min(NextComponent)
  BY <1>1, <1>3, NextComponentIs
<1> QED BY <1>1, <1>2, <1>3, <1>4

\* A step of that search that closes no cycle keeps the invariant.
LEMMA CycleGoesOn ==
    ASSUME SearchInv, pc = "cycles", pc' = "cycles",
           UNCHANGED <<graph, query, adjacency, budget, answer, pages>>,
           Sound(search', adjacency, FALSE, {}), Closed(search', adjacency, FALSE, {}),
           Roots(search') = Roots(search),
           \A e \in adjacency \ search'.pending :
              Source(e) \in search'.seen \ Range(search'.queue) =>
                  Target(e) # CycleStart(NextComponent)
    PROVE  SearchInv'
<1>1. query.kind = "cycles" /\ QueryTyped /\ Roots(search) = {CycleStart(NextComponent)}
  BY Cycling DEF SearchInv
<1>2. LevelEdges' = LevelEdges /\ NextComponent' = NextComponent
      /\ CycleStart(NextComponent') = CycleStart(NextComponent)
  BY DEF LevelEdges, NextComponent
<1>3. Loops' = Loops /\ \A c, path : CycleOf(c, path)' <=> CycleOf(c, path)
  BY <1>2 DEF Loops, CycleOf
<1>4. TraverseInv' /\ PagesInv' /\ WhyInv' /\ ForwardInv' /\ ReverseInv'
      /\ ImpactExact' /\ AttributionExact' /\ PathsShortest' /\ KindsMatch'
  BY <1>1 DEF TraverseInv, PagesInv, WhyInv, ForwardInv, ReverseInv,
              ImpactExact, AttributionExact, PathsShortest, KindsMatch
<1>5. /\ answer.components \subseteq Loops /\ answer.components # {}
      /\ \A path \in answer.cycles :
            \E c \in Loops \ answer.components : CycleOf(c, path)
      /\ \A c \in Loops \ answer.components : \E path \in answer.cycles : CycleOf(c, path)
      /\ \A c \in Loops, p, q \in answer.cycles : CycleOf(c, p) /\ CycleOf(c, q) => p = q
      /\ adjacency = Within(LevelEdges, NextComponent)
  BY DEF SearchInv, CyclesInv
<1>6. answer' = answer /\ adjacency' = adjacency OBVIOUS
<1>7. CyclesInv' BY <1>1, <1>2, <1>3, <1>5, <1>6 DEF CyclesInv
<1>8. search' \in SearchRecords BY DEF Sound
<1> QED BY <1>1, <1>4, <1>7, <1>8 DEF SearchInv, QueryTyped

\* The next node of the search for a cycle keeps the invariant.
LEMMA ExpandCyclesKeeps ==
    ASSUME SearchInv, Expand, pc = "cycles" PROVE SearchInv'
<1> DEFINE start == CycleStart(NextComponent)
<1>1. /\ adjacency \in SUBSET Edges /\ Backward = FALSE /\ Backward \in BOOLEAN
      /\ Sound(search, adjacency, Backward, {}) /\ Closed(search, adjacency, Backward, {})
      /\ Roots(search) = {start}
      /\ \A e \in adjacency \ search.pending :
            Source(e) \in search.seen \ Range(search.queue) => Target(e) # start
  BY Cycling
<1>2. /\ pc' = "cycles" /\ search.pending = {} /\ search.queue # <<>>
      /\ UNCHANGED <<graph, query, adjacency, budget, answer, pages>>
  BY DEF Expand
<1> DEFINE n == Head(search.queue)
<1>3. /\ search.queue \in Seq(Nodes) /\ n \in Nodes
      /\ Range(search.queue) = Range(Tail(search.queue)) \cup {n}
  BY <1>1, <1>2, TailSeen DEF Sound, SearchRecords
<1>4. /\ Sound(search', adjacency, Backward, {}) /\ Closed(search', adjacency, Backward, {})
      /\ Roots(search') = Roots(search) /\ search'.seen = search.seen
      /\ search'.queue = Tail(search.queue)
      /\ \A m \in Nodes : ~Deep(search, {}, m) /\ m = Head(search.queue) =>
            search'.pending = { e \in adjacency : from(Backward, e) = m }
  <2>1. {} = (IF pc = "reverse" THEN query.depth ELSE {}) /\ {} \in SUBSET Nat OBVIOUS
  <2> QED BY <1>1, <2>1, ExpandedKeeps
<1> HIDE DEF start
<1>5. search'.pending = { e \in adjacency : Source(e) = n }
  <2>1. ~Deep(search, {}, n) BY DEF Deep
  <2>2. \A e : from(Backward, e) = Source(e) BY <1>1 DEF from
  <2> QED BY <1>3, <1>4, <2>1, <2>2
<1> HIDE DEF n
<1>6. ASSUME NEW e \in adjacency \ search'.pending,
             Source(e) \in search'.seen \ Range(search'.queue)
      PROVE  Target(e) # start
  <2>1. Source(e) # n BY <1>5
  <2>2. Source(e) \in search.seen \ Range(search.queue) BY <1>3, <1>4, <2>1, <1>6
  <2> QED BY <1>1, <1>2, <2>2
<1>7. \A e \in adjacency \ search'.pending :
         Source(e) \in search'.seen \ Range(search'.queue) => Target(e) # start
  BY <1>6
<1>8. Sound(search', adjacency, FALSE, {}) /\ Closed(search', adjacency, FALSE, {})
  BY <1>1, <1>4
<1> QED BY <1>2, <1>4, <1>7, <1>8, CycleGoesOn DEF start

\* An edge of the search for a cycle keeps the invariant; the edge that closes the
\* cycle adds the one of a component that had none.
LEMMA VisitCycleKeeps ==
    ASSUME SearchInv, VisitCycle PROVE SearchInv'
<1> DEFINE start == CycleStart(NextComponent)
           c == NextComponent
<1>1. /\ pc = "cycles" /\ search.pending # {}
      /\ UNCHANGED <<graph, query, adjacency, budget, pages>>
  BY DEF VisitCycle, Visiting
<1>2. /\ query.kind = "cycles" /\ graph \in Graphs /\ query \in Queries
      /\ answer \in Answers /\ Backward = FALSE /\ Backward \in BOOLEAN
      /\ adjacency \in SUBSET Edges /\ adjacency = Within(LevelEdges, c)
      /\ c \in answer.components /\ c \in Loops
      /\ start \in Nodes /\ start = Min(c)
      /\ Sound(search, adjacency, FALSE, {}) /\ Closed(search, adjacency, FALSE, {})
      /\ Roots(search) = {start}
      /\ \A e \in adjacency \ search.pending :
            Source(e) \in search.seen \ Range(search.queue) => Target(e) # start
  BY <1>1, Cycling
<1> HIDE DEF start
<1>3. /\ Sound(search, adjacency, Backward, {}) /\ Closed(search, adjacency, Backward, {})
      /\ {} \in SUBSET Nat
  BY <1>2
<1>4. Edge \in search.pending /\ search.queue \in Seq(Nodes)
  <2>1. search.pending \subseteq Edges /\ search.queue \in Seq(Nodes)
    BY <1>2 DEF Sound, SearchRecords
  <2> QED BY <1>1, <2>1, EdgeChosen
<1>5. /\ Edge \in adjacency /\ Source(Edge) \in search.seen
      /\ \A e : from(Backward, e) = Source(e) /\ Beyond(e) = Target(e)
  <2>1. \A e : from(FALSE, e) = Source(e) BY DEF from
  <2>2. \A e \in search.pending : from(FALSE, e) \in search.seen \ Range(search.queue)
    BY <1>2 DEF Sound, Ordered
  <2>3. search.pending \subseteq adjacency BY <1>2 DEF Sound, Ordered
  <2>4. \A e : Beyond(e) = Target(e) BY <1>2 DEF Beyond
  <2> QED BY <1>2, <1>4, <2>1, <2>2, <2>3, <2>4
<1>6. CASE Target(Edge) # start
  <2> DEFINE s == IF Beyond(Edge) \in search.seen THEN Passed(Edge) ELSE Reached(Edge)
  <2>1. search' = s /\ answer' = answer /\ pc' = pc
    BY <1>5, <1>6 DEF VisitCycle, start
  <2>2. /\ Sound(s, adjacency, Backward, {}) /\ Closed(s, adjacency, Backward, {})
        /\ Roots(s) = Roots(search) /\ s.pending = search.pending \ {Edge}
        /\ s.seen \ Range(s.queue) = search.seen \ Range(search.queue)
    <3>1. CASE Beyond(Edge) \in search.seen
      <4> DEFINE t == Passed(Edge)
      <4>1. /\ Sound(t, adjacency, Backward, {}) /\ Closed(t, adjacency, Backward, {})
            /\ Roots(t) = Roots(search) /\ t.pending = search.pending \ {Edge}
            /\ t.seen = search.seen /\ t.queue = search.queue
        BY <1>2, <1>3, <1>4, <3>1, PassedKeeps
      <4>2. s = t BY <3>1
      <4> HIDE DEF s, t
      <4> QED BY <4>1, <4>2
    <3>2. CASE Beyond(Edge) \notin search.seen
      <4> DEFINE t == Reached(Edge)
      <4>1. /\ Sound(t, adjacency, Backward, {}) /\ Closed(t, adjacency, Backward, {})
            /\ Roots(t) = Roots(search) /\ t.pending = search.pending \ {Edge}
            /\ t.seen = search.seen \cup {Beyond(Edge)}
            /\ t.queue = Append(search.queue, Beyond(Edge))
        BY <1>2, <1>3, <1>4, <3>2, ReachedKeeps
      <4>2. s = t BY <3>2
      <4>3. Beyond(Edge) \in Nodes BY <1>2, <1>5, EdgeShape
      <4>4. Range(Append(search.queue, Beyond(Edge))) = Range(search.queue) \cup {Beyond(Edge)}
        BY <1>4, <4>3, AppendSeen
      <4> HIDE DEF s, t
      <4> QED BY <3>2, <4>1, <4>2, <4>4
    <3> QED BY <3>1, <3>2
  <2> HIDE DEF s
  <2>3. Sound(search', adjacency, FALSE, {}) /\ Closed(search', adjacency, FALSE, {})
        /\ Roots(search') = Roots(search)
    BY <1>2, <2>1, <2>2
  <2>4. ASSUME NEW e \in adjacency \ search'.pending,
               Source(e) \in search'.seen \ Range(search'.queue)
        PROVE  Target(e) # start
    <3>1. CASE e = Edge BY <1>6, <3>1
    <3>2. CASE e # Edge BY <1>2, <2>1, <2>2, <2>4, <3>2
    <3> QED BY <3>1, <3>2
  <2>5. \A e \in adjacency \ search'.pending :
           Source(e) \in search'.seen \ Range(search'.queue) => Target(e) # start
    BY <2>4
  <2>6. pc' = "cycles" /\ UNCHANGED <<graph, query, adjacency, budget, answer, pages>>
    BY <1>1, <2>1
  <2> QED BY <1>1, <2>3, <2>5, <2>6, CycleGoesOn DEF start
<1>7. CASE Target(Edge) = start
  <2> DEFINE path == Append(PathTo(Source(Edge)), Edge)
             left == answer.components \ {c}
             cycles == answer.cycles \cup {path}
  <2>1. /\ search' = Stopped(search) /\ pc' = "next_cycle"
        /\ answer' = [answer EXCEPT !.components = left, !.cycles = cycles]
    BY <1>5, <1>7 DEF VisitCycle, start
  <2>2. /\ path \in Seq(adjacency) /\ path # <<>> /\ Walk(path, start, start)
        /\ Len(path) = search.depths[Source(Edge)] + 1
    <3>1. /\ PathTo(Source(Edge)) \in Seq(adjacency)
          /\ Len(PathTo(Source(Edge))) = search.depths[Source(Edge)]
          /\ \E r \in Roots(search) : Walk(PathTo(Source(Edge)), r, Source(Edge))
      BY <1>2, <1>5, PathToWalks
    <3>2. Walk(PathTo(Source(Edge)), start, Source(Edge)) BY <1>2, <3>1
    <3>3. /\ path \in Seq(adjacency) /\ Len(path) = Len(PathTo(Source(Edge))) + 1
          /\ Walk(path, start, Target(Edge))
      BY <1>5, <3>1, <3>2, WalkAppend
    <3> HIDE DEF path
    <3>4. Len(PathTo(Source(Edge))) \in Nat BY <3>1
    <3>5. path # <<>> BY <3>3, <3>4
    <3> QED BY <1>7, <3>1, <3>3, <3>5
  <2>3. CycleLength(adjacency, start) = search.depths[Source(Edge)] + 1
    BY <1>2, <1>4, <1>7, ClosingCycle
  <2> HIDE DEF path
  <2>4. CycleOf(c, path)
    <3>1. \A i \in 1..Len(path) : path[i] \in adjacency BY <2>2
    <3> QED BY <1>2, <2>2, <2>3, <3>1 DEF CycleOf
  <2>5. path \in Seq(Edges) BY <1>2, <2>2, LongerSeq
  <2>6. /\ answer' \in Answers /\ answer'.components = left /\ answer'.cycles = cycles
        /\ answer'.found = answer.found
    <3>1. left \in SUBSET SUBSET Nodes /\ cycles \in SUBSET Seq(Edges)
      BY <1>2, <2>5 DEF Answers
    <3> HIDE DEF left, cycles
    <3> QED BY <1>2, <2>1, <3>1 DEF Answers
  <2>7. LevelEdges' = LevelEdges BY <1>1 DEF LevelEdges
  <2>8. Loops' = Loops /\ \A d, p : CycleOf(d, p)' <=> CycleOf(d, p)
    BY <1>1, <2>7 DEF Loops, CycleOf
  <2>9. /\ answer.components \subseteq Loops
        /\ \A p \in answer.cycles : \E d \in Loops \ answer.components : CycleOf(d, p)
        /\ \A d \in Loops \ answer.components : \E p \in answer.cycles : CycleOf(d, p)
        /\ \A d \in Loops, p, q \in answer.cycles : CycleOf(d, p) /\ CycleOf(d, q) => p = q
    BY <1>1 DEF SearchInv, CyclesInv
  <2>10. left \subseteq Loops /\ Loops \ left = (Loops \ answer.components) \cup {c}
    BY <1>2, <2>9
  <2>11. \A p \in cycles : \E d \in Loops \ left : CycleOf(d, p)
    BY <2>4, <2>9, <2>10
  <2>12. \A d \in Loops \ left : \E p \in cycles : CycleOf(d, p)
    BY <2>4, <2>9, <2>10
  <2>13. ASSUME NEW p \in answer.cycles PROVE ~CycleOf(c, p)
    <3>1. PICK d \in Loops \ answer.components : CycleOf(d, p) BY <2>9
    <3>2. p \in Seq(Edges) BY <1>2 DEF Answers
    <3>3. CycleOf(c, p) => c = d BY <1>2, <3>1, <3>2, ComponentsApart
    <3> QED BY <1>2, <3>1, <3>3
  <2>14. ASSUME NEW d \in Loops, NEW p \in answer.cycles, CycleOf(d, path), CycleOf(d, p)
         PROVE  FALSE
    <3>1. c = d BY <1>2, <2>4, <2>5, <2>14, ComponentsApart
    <3> QED BY <2>13, <2>14, <3>1
  <2>15. \A d \in Loops, p, q \in cycles : CycleOf(d, p) /\ CycleOf(d, q) => p = q
    BY <2>9, <2>14
  <2> HIDE DEF left, cycles
  <2>16. CyclesInv' BY <2>1, <2>6, <2>8, <2>10, <2>11, <2>12, <2>15 DEF CyclesInv
  <2>17. TraverseInv' /\ PagesInv' /\ WhyInv' /\ ForwardInv' /\ ReverseInv'
         /\ ImpactExact' /\ AttributionExact' /\ PathsShortest' /\ KindsMatch'
    BY <1>1, <1>2, <2>1 DEF TraverseInv, PagesInv, WhyInv, ForwardInv, ReverseInv,
              ImpactExact, AttributionExact, PathsShortest, KindsMatch
  <2>18. search' \in SearchRecords
    <3>1. Sound(Stopped(search), adjacency, FALSE, {}) BY <1>2, StoppedKeeps
    <3> QED BY <2>1, <3>1 DEF Sound
  <2> QED BY <1>1, <2>1, <2>6, <2>16, <2>17, <2>18 DEF SearchInv, QueryTyped
<1> QED BY <1>6, <1>7

\* Every step keeps the invariant.
LEMMA SearchNext == ASSUME SearchInv, Next PROVE SearchInv'
<1>1. CASE Start
  BY <1>1, StartTraverseKeeps, StartWhyKeeps, StartCyclesKeeps, StartImpactKeeps,
     StartChangesKeeps DEF Start
<1>2. CASE Expand
  <2>1. pc \in {"traverse", "cycles", "why", "forward", "reverse"}
    BY <1>2 DEF Expand, Searches
  <2> QED BY <1>2, <2>1, ExpandTraverseKeeps, ExpandCyclesKeeps, ExpandSearchKeeps
<1>3. CASE Visit
  <2>1. CASE VisitAdmitting
    <3>1. pc = "forward" \/ pc = "reverse" BY <2>1 DEF VisitAdmitting, Visiting
    <3> QED BY <2>1, <3>1, VisitForwardKeeps, VisitReverseKeeps
  <2> QED BY <1>3, <2>1, VisitTraverseKeeps, VisitWhyKeeps, VisitCycleKeeps DEF Visit
<1>4. CASE NextCycle BY <1>4, NextCycleKeeps
<1>5. CASE End
  BY <1>5, EndTraverseKeeps, EndWhyKeeps, EndForwardKeeps, EndReverseKeeps DEF End
<1>6. CASE Pages BY <1>6, PageKeeps
<1>7. CASE Abort BY <1>7, AbortKeeps
<1>8. CASE Answered BY <1>8, StutterKeeps DEF Answered
<1> QED BY <1>1, <1>2, <1>3, <1>4, <1>5, <1>6, <1>7, <1>8 DEF Next

\* SearchInv holds in every reachable state of every query, for every set of snapshots
\* and requests, every limit and every size of the pages.
THEOREM SearchInvariant == Spec => []SearchInv
<1>1. Init => SearchInv BY SearchInit
<1>2. SearchInv /\ [Next]_vars => SearchInv' BY SearchNext, StutterKeeps
<1> QED BY <1>1, <1>2, PTL DEF Spec

\* The pages a client reads hold the wanted edges, each once and all of them when the
\* result is complete, whatever the sizes of the pages (query.rs).
THEOREM PagesDeliverExactly == Spec => []DeliveredExact
<1>1. SearchInv => DeliveredExact BY PagesDeliver DEF SearchInv
<1> QED BY <1>1, SearchInvariant, PTL

\* The paths of why and of an impact are shortest ones, and found when there is one;
\* each component with a cycle is reported by a shortest one (query.rs, impact.rs).
THEOREM ShortestPathsFound == Spec => []PathsShortest
<1>1. SearchInv => PathsShortest BY DEF SearchInv
<1> QED BY <1>1, SearchInvariant, PTL

\* An impact names the affected nodes at their distances, by real paths, all of them
\* when no limit was met (impact.rs).
THEOREM ImpactIsExact == Spec => []ImpactExact
<1>1. SearchInv => ImpactExact BY DEF SearchInv
<1> QED BY <1>1, SearchInvariant, PTL

\* Each affected node is attributed to the changed paths that reach it within the
\* depth (impact.rs).
THEOREM AttributionIsExact == Spec => []AttributionExact
<1>1. SearchInv => AttributionExact BY DEF SearchInv
<1> QED BY <1>1, SearchInvariant, PTL
=============================================================================
